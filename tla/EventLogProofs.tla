--------------------------- MODULE EventLogProofs ---------------------------
(***************************************************************************)
(* Proofs about the write-ahead log for any set of symbols and requests    *)
(* and any number of records, crashes and clock values.                    *)
(***************************************************************************)
EXTENDS EventLog, TLAPS

-----------------------------------------------------------------------------
(* The inductive invariant: what the file, the engines and the tasks agree *)
(* on at every step of start-up and of an append.                          *)

\* Only a serving core has tasks at work, and the mutex is held by exactly
\* the task between Lock and Execute.
TasksInv ==
  /\ proc # "up" => \A s \in Symbols : pc[s] \in {"idle"}
  /\ \A s \in Symbols : pc[s] \in {"write", "sync", "execute"} <=> lock = {s}
  /\ lock = {} \/ \E s \in Symbols : lock = {s}

\* The header comes before everything else in the file.
HeaderInv ==
  /\ header \in {"empty", "partial"} => seen = {} /\ file = << >> /\ tail = "clean"
  /\ header = "unsynced" => seen = {} /\ synced = 0
  /\ proc = "creating" =>
       header \in {"partial", "unsynced", "ok"} /\ file = << >> /\ tail = "clean"
  /\ proc \in {"catchup", "up"} => header \in {"unsynced", "ok"} /\ tail = "clean"

\* Sequence numbers and times of the frames.
FramesInv ==
  /\ synced <= Len(file)
  /\ \A i \in 1 .. Len(file) : file[i].seq = i /\ file[i].at <= clock
  /\ \A i, j \in 1 .. Len(file) : i < j => file[i].at <= file[j].at
  /\ startAt <= clock

\* A core that is not up yet has executed what it found and appended.
StartInv ==
  /\ proc \in {"down", "creating"} => executed = << >> /\ nextSeq = 1
  /\ proc = "catchup" =>
       /\ executed = file
       /\ nextSeq = Len(file) + 1
       /\ todo = {} => synced = Len(file)
       /\ \A i \in 1 .. Len(file) : file[i].at <= startAt

\* Outside the mutex the file, the engines and stable storage agree.
FreeInv ==
  proc = "up" /\ lock = {} =>
    /\ executed = file
    /\ synced = Len(file)
    /\ nextSeq = Len(file) + 1

\* Inside it they differ by the record in flight.
HeldInv ==
  \A s \in Symbols :
    /\ pc[s] = "write" =>
         /\ executed = file
         /\ synced = Len(file)
         /\ nextSeq = Len(file) + 1
         /\ rec[s].seq = nextSeq
         /\ rec[s].at <= clock
         /\ \A i \in 1 .. Len(file) : file[i].at <= rec[s].at
    /\ pc[s] \in {"sync", "execute"} =>
         /\ file = Append(executed, rec[s])
         /\ rec[s].seq = Len(file)
    /\ pc[s] = "sync" => synced = Len(executed) /\ nextSeq = Len(file)
    /\ pc[s] = "execute" => synced = Len(file) /\ nextSeq = Len(file) + 1
    /\ pc[s] = "dispatch" =>
         /\ rec[s].seq \in 1 .. synced
         /\ file[rec[s].seq] = rec[s]

IInv ==
  /\ TypeOK
  /\ TasksInv
  /\ HeaderInv
  /\ FramesInv
  /\ StartInv
  /\ FreeInv
  /\ HeldInv
  /\ SeenSurvives

-----------------------------------------------------------------------------
(* Sequences.                                                              *)

LEMMA AppendFacts ==
  ASSUME NEW S, NEW q \in Seq(S), NEW e \in S
  PROVE  /\ Append(q, e) \in Seq(S)
         /\ Len(Append(q, e)) = Len(q) + 1
         /\ Append(q, e)[Len(q) + 1] = e
         /\ \A i \in 1 .. Len(q) : Append(q, e)[i] = q[i]
OBVIOUS

LEMMA PrefixFacts ==
  ASSUME NEW S, NEW q \in Seq(S), NEW k \in 0 .. Len(q)
  PROVE  /\ SubSeq(q, 1, k) \in Seq(S)
         /\ Len(SubSeq(q, 1, k)) = k
         /\ \A i \in 1 .. k : SubSeq(q, 1, k)[i] = q[i]
OBVIOUS

LEMMA RecordForType ==
  ASSUME NEW n \in Nat, NEW s \in Symbols, NEW t \in Nat, NEW w \in Work
  PROVE  /\ RecordFor(n, s, t, w) \in Record
         /\ RecordFor(n, s, t, w).seq = n
         /\ RecordFor(n, s, t, w).at = t
BY DEF RecordFor, Record, Work, Tick, Status

LEMMA FrameFacts ==
  ASSUME NEW q \in Seq(Record)
  PROVE  \A i \in 1 .. Len(q) : q[i].symbol \in Symbols /\ q[i].at \in Nat
<1>1. \A i \in 1 .. Len(q) : q[i] \in Record
  OBVIOUS
<1>2. QED
  BY <1>1 DEF Record

-----------------------------------------------------------------------------
(* The initial state and the loss of a process.                            *)

LEMMA InitIInv == Init => IInv
<1> SUFFICES ASSUME Init PROVE IInv
  OBVIOUS
<1>1. \A s \in Symbols : RecordFor(0, s, 0, Tick) \in Record
  BY RecordForType DEF Work
<1>2. TypeOK
  BY <1>1 DEF Init, TypeOK, Work, Steps
<1>3. QED
  BY <1>2 DEF Init, IInv, TasksInv, HeaderInv, FramesInv, StartInv, FreeInv,
              HeldInv, SeenSurvives

(* A step of the system.                                                   *)

LEMMA GoneFacts ==
  ASSUME Gone
  PROVE  /\ proc' = "down"
         /\ nextSeq' = 1 /\ executed' = << >>
         /\ todo' = {} /\ startAt' = 0 /\ lock' = {}
         /\ pc' = [s \in Symbols |-> "idle"]
         /\ req' \in [Symbols -> Work] /\ rec' \in [Symbols -> Record]
<1>1. \A s \in Symbols : RecordFor(0, s, 0, Tick) \in Record
  BY RecordForType DEF Work
<1>2. QED
  BY <1>1 DEF Gone, Work

\* What a process that dies leaves behind keeps the invariant if the file is
\* a prefix of what it was, or has one more complete frame, and reaches at
\* least as far as stable storage.
LEMMA DeathIInv ==
  ASSUME IInv, Gone,
         crashes' \in Nat, clock' = clock, seen' = seen,
         header' \in {"empty", "partial", "unsynced", "ok"},
         tail' \in {"clean", "torn"},
         synced' \in Nat, synced <= synced', synced' <= Len(file'),
         file' \in Seq(Record),
         \A i \in 1 .. Len(file') : file'[i].seq = i /\ file'[i].at <= clock,
         \A i, j \in 1 .. Len(file') : i < j => file'[i].at <= file'[j].at,
         \A i \in 1 .. synced : file'[i] = file[i],
         header' \in {"empty", "partial"} => seen = {} /\ file' = << >> /\ tail' = "clean",
         header' = "unsynced" => seen = {} /\ synced' = 0
  PROVE  IInv'
<1>1. TypeOK'
  BY GoneFacts DEF IInv, TypeOK, Steps
<1>2. TasksInv' /\ HeaderInv' /\ StartInv' /\ FreeInv' /\ HeldInv'
  BY GoneFacts DEF TasksInv, HeaderInv, StartInv, FreeInv, HeldInv
<1>3. FramesInv'
  <2>1. startAt' = 0 /\ clock \in Nat
    BY GoneFacts DEF IInv, TypeOK
  <2>2. startAt' <= clock'
    BY <2>1
  <2>3. QED
    BY <2>2 DEF FramesInv
<1>4. SeenSurvives'
  <2>1. SUFFICES ASSUME NEW r \in seen
                 PROVE  /\ r.seq <= synced' /\ r.seq \in DOMAIN file'
                        /\ file'[r.seq] = r
    BY DEF SeenSurvives
  <2>2. r.seq \in 1 .. synced /\ file[r.seq] = r
    BY DEF IInv, TypeOK, SeenSurvives
  <2>3. QED
    BY <2>2 DEF IInv, TypeOK
<1>5. QED
  BY <1>1, <1>2, <1>3, <1>4 DEF IInv

LEMMA NextIInv == IInv /\ [Next]_vars => IInv'
<1> SUFFICES ASSUME IInv, [Next]_vars PROVE IInv'
  OBVIOUS
<1> USE DEF disk, tasks
<1>1. CASE CreateMagic
  <2>1. TypeOK'
    BY <1>1 DEF CreateMagic, IInv, TypeOK
  <2>2. TasksInv'
    BY <1>1 DEF CreateMagic, IInv, TypeOK, TasksInv
  <2>3. HeaderInv'
    BY <1>1 DEF CreateMagic, IInv, TypeOK, HeaderInv
  <2>4. FramesInv'
    BY <1>1 DEF CreateMagic, IInv, TypeOK, FramesInv
  <2>5. StartInv'
    BY <1>1 DEF CreateMagic, IInv, TypeOK, StartInv
  <2>6. FreeInv'
    BY <1>1 DEF CreateMagic, IInv, TypeOK, FreeInv
  <2>7. HeldInv'
    BY <1>1 DEF CreateMagic, IInv, TypeOK, HeldInv
  <2>8. SeenSurvives'
    BY <1>1 DEF CreateMagic, IInv, TypeOK, SeenSurvives
  <2>9. QED
    BY <2>1, <2>2, <2>3, <2>4, <2>5, <2>6, <2>7, <2>8 DEF IInv
<1>2. CASE CreateHeader
  BY <1>2 DEF CreateHeader, IInv, TypeOK, Steps, TasksInv, HeaderInv, FramesInv,
         StartInv, FreeInv, HeldInv, SeenSurvives
<1>3. CASE CreateSync
  BY <1>3 DEF CreateSync, IInv, TypeOK, Steps, TasksInv, HeaderInv, FramesInv,
         StartInv, FreeInv, HeldInv, SeenSurvives
<1>3d. CASE CreateSyncDir
  <2>1. TypeOK'
    BY <1>3d DEF CreateSyncDir, IInv, TypeOK
  <2>2. TasksInv'
    BY <1>3d DEF CreateSyncDir, IInv, TypeOK, TasksInv
  <2>3. HeaderInv'
    BY <1>3d DEF CreateSyncDir, IInv, TypeOK, HeaderInv
  <2>4. FramesInv'
    BY <1>3d DEF CreateSyncDir, IInv, TypeOK, FramesInv
  <2>5. StartInv'
    BY <1>3d DEF CreateSyncDir, IInv, TypeOK, StartInv
  <2>6. FreeInv'
    BY <1>3d DEF CreateSyncDir, IInv, TypeOK, FreeInv, HeaderInv, StartInv, FramesInv
  <2>7. HeldInv'
    BY <1>3d DEF CreateSyncDir, IInv, TypeOK, HeldInv
  <2>8. SeenSurvives'
    BY <1>3d DEF CreateSyncDir, IInv, TypeOK, SeenSurvives
  <2>9. QED
    BY <2>1, <2>2, <2>3, <2>4, <2>5, <2>6, <2>7, <2>8 DEF IInv
<1>4. CASE Open
  <2>1. TypeOK'
    <3>1. \A i \in 1 .. Len(file) : file[i].symbol \in Symbols
      BY FrameFacts DEF IInv, TypeOK
    <3>2. todo' \in SUBSET Symbols
      BY <1>4, <3>1 DEF Open, Scan, Replay, Recovered, IInv, TypeOK
    <3>3. QED
      BY <1>4, <3>2 DEF Open, Scan, Replay, Recovered, HeaderSynced, IInv, TypeOK
  <2>2. TasksInv'
    BY <1>4 DEF Open, Scan, Replay, Recovered, IInv, TypeOK, TasksInv
  <2>3. HeaderInv'
    BY <1>4 DEF Open, Scan, Replay, Recovered, HeaderSynced, IInv, TypeOK, HeaderInv
  <2>4. FramesInv'
    BY <1>4 DEF Open, Scan, Replay, Recovered, IInv, TypeOK, FramesInv
  <2>5. StartInv'
    <3>1. todo' = {} => file = << >>
      <4>1. Len(file) > 0 => file[1].symbol \in todo'
        BY <1>4 DEF Open, Scan, Replay, Recovered, IInv, TypeOK
      <4>2. QED
        BY <4>1 DEF IInv, TypeOK
    <3>2. /\ proc' = "catchup" /\ executed' = file /\ file' = file
          /\ nextSeq' = Len(file) + 1 /\ startAt' = clock
          /\ synced' \in {synced, Len(file)}
      BY <1>4 DEF Open, Scan, Replay, Recovered
    <3>3. todo' = {} => synced' = Len(file)
      BY <3>1, <3>2 DEF IInv, TypeOK, FramesInv
    <3>4. QED
      BY <3>2, <3>3 DEF IInv, FramesInv, StartInv
  <2>6. FreeInv'
    BY <1>4 DEF Open, Scan, Replay, Recovered, IInv, TypeOK, FreeInv
  <2>7. HeldInv'
    BY <1>4 DEF Open, Scan, Replay, Recovered, HeaderSynced, IInv, TypeOK, TasksInv, HeldInv, HeaderInv, StartInv, FramesInv, FreeInv
  <2>8. SeenSurvives'
    BY <1>4 DEF Open, Scan, Replay, Recovered, IInv, TypeOK, SeenSurvives
  <2>9. QED
    BY <2>1, <2>2, <2>3, <2>4, <2>5, <2>6, <2>7, <2>8 DEF IInv
<1>5. CASE Listen
  BY <1>5 DEF Listen, IInv, TypeOK, Steps, TasksInv, HeaderInv, FramesInv,
         StartInv, FreeInv, HeldInv, SeenSurvives
<1>6. CASE Shutdown
  <2>1. synced' = Len(file) /\ file' = file /\ seen' = seen /\ clock' = clock /\ tail' = tail
    BY <1>6 DEF Shutdown
  <2>2. lock = {}
    BY <1>6 DEF Shutdown, IInv, TypeOK, TasksInv
  <2>3. header' = "ok" /\ Gone /\ crashes' \in Nat
    BY <1>6 DEF Shutdown, HeaderSynced, IInv, TypeOK, HeaderInv
  <2>4. QED
    BY <2>1, <2>2, <2>3, DeathIInv DEF IInv, TypeOK, FramesInv
<1>7. CASE Advance
  <2>1. TypeOK'
    BY <1>7 DEF Advance, IInv, TypeOK
  <2>2. TasksInv'
    BY <1>7 DEF Advance, IInv, TypeOK, TasksInv
  <2>3. HeaderInv'
    BY <1>7 DEF Advance, IInv, TypeOK, HeaderInv
  <2>4. FramesInv'
    <3>1. \A i \in 1 .. Len(file) : file[i].at \in Nat
      BY FrameFacts DEF IInv, TypeOK
    <3>2. QED
      BY <1>7, <3>1 DEF Advance, IInv, TypeOK, FramesInv
  <2>5. StartInv'
    BY <1>7 DEF Advance, IInv, TypeOK, StartInv
  <2>6. FreeInv'
    BY <1>7 DEF Advance, IInv, TypeOK, FreeInv
  <2>7. HeldInv'
    <3>1. \A s \in Symbols : rec[s].at \in Nat
      BY DEF IInv, TypeOK, Record
    <3>2. QED
      BY <1>7, <3>1 DEF Advance, IInv, TypeOK, HeldInv
  <2>8. SeenSurvives'
    BY <1>7 DEF Advance, IInv, TypeOK, SeenSurvives
  <2>9. QED
    BY <2>1, <2>2, <2>3, <2>4, <2>5, <2>6, <2>7, <2>8 DEF IInv
<1>8. CASE Kill
  BY <1>8, DeathIInv, PrefixFacts DEF Kill, HeaderSynced, IInv, TypeOK, Steps, TasksInv, HeaderInv, FramesInv,
         StartInv, FreeInv, HeldInv, SeenSurvives
<1>9. CASE PowerLoss
  <2>1. PICK k \in synced .. Len(file) :
          /\ header' # "ok" => k = 0
          /\ file' = SubSeq(file, 1, k)
          /\ tail' \in {"clean", "torn"}
          /\ header' # "ok" => tail' = "clean"
    BY <1>9 DEF PowerLoss, IInv, TypeOK
  <2>2. k \in 0 .. Len(file) /\ synced <= k
    BY <2>1 DEF IInv, TypeOK, FramesInv
  <2>3. /\ file' \in Seq(Record)
        /\ Len(file') = k
        /\ \A i \in 1 .. k : file'[i] = file[i]
    BY <2>1, <2>2, PrefixFacts DEF IInv, TypeOK
  <2>4. /\ Gone /\ crashes' \in Nat /\ clock' = clock /\ seen' = seen
        /\ synced' = synced
        /\ header' \in {"empty", "partial", "ok"}
    BY <1>9 DEF PowerLoss, IInv, TypeOK
  <2>5. /\ \A i \in 1 .. Len(file') : file'[i].seq = i /\ file'[i].at <= clock
        /\ \A i, j \in 1 .. Len(file') : i < j => file'[i].at <= file'[j].at
        /\ \A i \in 1 .. synced : file'[i] = file[i]
    <3>1. \A i \in 1 .. Len(file') : i \in 1 .. Len(file) /\ file'[i] = file[i]
      BY <2>2, <2>3 DEF IInv, TypeOK
    <3>2. \A i \in 1 .. synced : i \in 1 .. k
      BY <2>2 DEF IInv, TypeOK
    <3>3. QED
      BY <2>3, <3>1, <3>2 DEF IInv, FramesInv
  <2>6. header' \in {"empty", "partial"} =>
          seen = {} /\ file' = << >> /\ tail' = "clean"
    BY <1>9, <2>1, <2>3, <2>4 DEF PowerLoss, IInv, TypeOK, HeaderInv
  <2>7. QED
    BY <2>1, <2>2, <2>3, <2>4, <2>5, <2>6, DeathIInv DEF IInv, TypeOK
<1>10. ASSUME NEW s \in Symbols, NEW w \in Work, Receive(s, w) PROVE IInv'
  BY <1>10 DEF Receive, IInv, TypeOK, Steps, TasksInv, HeaderInv, FramesInv,
         StartInv, FreeInv, HeldInv, SeenSurvives
<1>11. ASSUME NEW s \in Symbols, CatchUp(s) PROVE IInv'
  <2>0. DEFINE r == RecordFor(nextSeq, s, startAt, Tick)
  <2>a. r \in Record /\ r.seq = nextSeq /\ r.at = startAt
    BY RecordForType DEF IInv, TypeOK, Work
  <2>b. /\ file' = Append(file, r) /\ executed' = Append(executed, r)
        /\ synced' = Len(file) + 1 /\ nextSeq' = nextSeq + 1
        /\ proc = "catchup" /\ proc' = proc /\ clock' = clock
        /\ startAt' = startAt /\ seen' = seen /\ todo' = todo \ {s}
        /\ header' = HeaderSynced /\ UNCHANGED <<tail, lock, pc, req, rec, crashes>>
    BY <1>11 DEF CatchUp
  <2> HIDE DEF r
  <2>c. /\ file' \in Seq(Record) /\ executed' \in Seq(Record)
        /\ Len(file') = Len(file) + 1
        /\ file'[Len(file) + 1] = r
        /\ \A i \in 1 .. Len(file) : file'[i] = file[i]
    BY <2>a, <2>b, AppendFacts DEF IInv, TypeOK
  <2>1. TypeOK'
    BY <2>b, <2>c DEF HeaderSynced, IInv, TypeOK
  <2>2. TasksInv'
    BY <1>11 DEF CatchUp, IInv, TypeOK, TasksInv
  <2>3. HeaderInv'
    BY <1>11 DEF CatchUp, HeaderSynced, IInv, TypeOK, HeaderInv
  <2>4. FramesInv'
    <3>1. \A i \in 1 .. Len(file) : file'[i].at <= r.at /\ file'[i].seq = i
      BY <2>a, <2>b, <2>c DEF IInv, TypeOK, FramesInv, StartInv
    <3>2. \A i \in 1 .. Len(file') : i \in 1 .. Len(file) \/ i = Len(file) + 1
      BY <2>c DEF IInv, TypeOK
    <3>3. \A i \in 1 .. Len(file') : file'[i].seq = i /\ file'[i].at <= clock'
      BY <2>a, <2>b, <2>c, <3>1, <3>2 DEF IInv, TypeOK, FramesInv, StartInv
    <3>4. \A i, j \in 1 .. Len(file') : i < j => file'[i].at <= file'[j].at
      BY <2>a, <2>b, <2>c, <3>1, <3>2 DEF IInv, TypeOK, FramesInv
    <3>5. QED
      BY <2>b, <2>c, <3>3, <3>4 DEF IInv, TypeOK, FramesInv
  <2>5. StartInv'
    BY <2>a, <2>b, <2>c DEF IInv, TypeOK, FramesInv, StartInv
  <2>6. FreeInv'
    BY <1>11 DEF CatchUp, IInv, TypeOK, FreeInv
  <2>7. HeldInv'
    BY <1>11 DEF CatchUp, HeaderSynced, IInv, TypeOK, TasksInv, HeldInv, HeaderInv, StartInv, FramesInv, FreeInv
  <2>8. SeenSurvives'
    BY <2>b, <2>c DEF IInv, TypeOK, FramesInv, SeenSurvives
  <2>9. QED
    BY <2>1, <2>2, <2>3, <2>4, <2>5, <2>6, <2>7, <2>8 DEF IInv
<1>12. ASSUME NEW s \in Symbols, CatchUpFails(s) PROVE IInv'
  <2>0. DEFINE r == RecordFor(nextSeq, s, startAt, Tick)
  <2>1. r \in Record /\ r.seq = Len(file) + 1 /\ r.at = startAt
    BY <1>12, RecordForType DEF CatchUpFails, IInv, TypeOK, Work, StartInv
  <2>2. /\ Gone /\ crashes' \in Nat /\ tail' \in {"clean", "torn"}
        /\ UNCHANGED <<header, synced, clock, seen>>
        /\ file' = file \/ file' = Append(file, r)
        /\ header \notin {"empty", "partial"}
    BY <1>12 DEF CatchUpFails, IInv, TypeOK, HeaderInv
  <2> HIDE DEF r
  <2>0a. /\ synced \in Nat /\ synced <= Len(file) /\ file \in Seq(Record)
         /\ clock \in Nat /\ startAt <= clock /\ startAt \in Nat
         /\ header \in {"empty", "partial", "unsynced", "ok"}
         /\ header = "unsynced" => seen = {} /\ synced = 0
    BY DEF IInv, TypeOK, FramesInv, HeaderInv
  <2>3. CASE file' = file
    <3>1. /\ \A i \in 1 .. Len(file') : file'[i].seq = i /\ file'[i].at <= clock
          /\ \A i, j \in 1 .. Len(file') : i < j => file'[i].at <= file'[j].at
      BY <2>3 DEF IInv, FramesInv
    <3>2. QED
      BY <2>0a, <2>2, <2>3, <3>1, DeathIInv
  <2>4. CASE file' = Append(file, r)
    <3>1. /\ file' \in Seq(Record)
          /\ Len(file') = Len(file) + 1
          /\ file'[Len(file) + 1] = r
          /\ \A i \in 1 .. Len(file) : file'[i] = file[i]
      BY <2>1, <2>4, AppendFacts DEF IInv, TypeOK
    <3>2. /\ \A i \in 1 .. Len(file') : file'[i].seq = i /\ file'[i].at <= clock
          /\ \A i, j \in 1 .. Len(file') : i < j => file'[i].at <= file'[j].at
      <4>1. \A i \in 1 .. Len(file) : file'[i].at <= r.at /\ file'[i].seq = i
        BY <1>12, <2>1, <3>1 DEF CatchUpFails, IInv, TypeOK, FramesInv, StartInv
      <4>2. \A i \in 1 .. Len(file') : i \in 1 .. Len(file) \/ i = Len(file) + 1
        BY <3>1 DEF IInv, TypeOK
      <4>0. \A i \in 1 .. Len(file') : file'[i].at \in Nat
        BY <3>1, FrameFacts
      <4>3. \A i \in 1 .. Len(file') : file'[i].seq = i /\ file'[i].at <= clock
        BY <2>0a, <2>1, <3>1, <4>0, <4>1, <4>2
      <4>4. \A i, j \in 1 .. Len(file') : i < j => file'[i].at <= file'[j].at
        <5>1. ASSUME NEW i \in 1 .. Len(file'), NEW j \in 1 .. Len(file'), i < j
              PROVE  file'[i].at <= file'[j].at
          <6>1. i \in 1 .. Len(file)
            BY <2>0a, <3>1, <5>1
          <6>2. CASE j = Len(file) + 1
            BY <2>1, <3>1, <4>1, <6>1, <6>2
          <6>3. CASE j \in 1 .. Len(file)
            BY <3>1, <5>1, <6>1, <6>3 DEF IInv, FramesInv
          <6>4. QED
            BY <4>2, <6>2, <6>3
        <5>2. QED
          BY <5>1
      <4>5. QED
        BY <4>3, <4>4
    <3>3. QED
      BY <2>0a, <2>2, <3>1, <3>2, DeathIInv
  <2>5. QED
    BY <2>2, <2>3, <2>4
<1>13. ASSUME NEW s \in Symbols, Lock(s) PROVE IInv'
  <2>a. /\ RecordFor(nextSeq, s, clock, req[s]) \in Record
        /\ RecordFor(nextSeq, s, clock, req[s]).seq = nextSeq
        /\ RecordFor(nextSeq, s, clock, req[s]).at = clock
    BY RecordForType DEF IInv, TypeOK
  <2>1. TypeOK'
    BY <1>13, <2>a DEF Lock, IInv, TypeOK, Steps
  <2>2. TasksInv'
    BY <1>13 DEF Lock, IInv, TypeOK, TasksInv
  <2>3. HeaderInv'
    BY <1>13 DEF Lock, IInv, TypeOK, HeaderInv
  <2>4. FramesInv'
    BY <1>13 DEF Lock, IInv, TypeOK, FramesInv
  <2>5. StartInv'
    BY <1>13 DEF Lock, IInv, TypeOK, StartInv
  <2>6. FreeInv'
    BY <1>13 DEF Lock, IInv, TypeOK, FreeInv
  <2>7. HeldInv'
    <3>1. proc = "up" /\ \A t \in Symbols : pc[t] \notin {"write", "sync", "execute"}
      BY <1>13 DEF Lock, IInv, TypeOK, TasksInv
    <3>2. /\ rec'[s].seq = nextSeq /\ rec'[s].at = clock
          /\ \A t \in Symbols \ {s} : rec'[t] = rec[t] /\ pc'[t] = pc[t]
          /\ pc'[s] = "write"
      BY <1>13, <2>a DEF Lock, IInv, TypeOK
    <3>3. QED
      BY <1>13, <3>1, <3>2 DEF Lock, IInv, TypeOK, HeldInv, FreeInv, FramesInv
  <2>8. SeenSurvives'
    BY <1>13 DEF Lock, IInv, TypeOK, SeenSurvives
  <2>9. QED
    BY <2>1, <2>2, <2>3, <2>4, <2>5, <2>6, <2>7, <2>8 DEF IInv
<1>14. ASSUME NEW s \in Symbols, WriteFrame(s) PROVE IInv'
  BY <1>14 DEF WriteFrame, HeaderSynced, IInv, TypeOK, Steps, TasksInv, HeaderInv, FramesInv,
         StartInv, FreeInv, HeldInv, SeenSurvives
<1>15. ASSUME NEW s \in Symbols, SyncFrame(s) PROVE IInv'
  BY <1>15 DEF SyncFrame, HeaderSynced, IInv, TypeOK, Steps, TasksInv, HeaderInv, FramesInv,
         StartInv, FreeInv, HeldInv, SeenSurvives
<1>16. ASSUME NEW s \in Symbols, Execute(s) PROVE IInv'
  BY <1>16 DEF Execute, HeaderSynced, IInv, TypeOK, Steps, TasksInv, HeaderInv, FramesInv,
         StartInv, FreeInv, HeldInv, SeenSurvives
<1>17. ASSUME NEW s \in Symbols, Dispatch(s) PROVE IInv'
  BY <1>17 DEF Dispatch, HeaderSynced, IInv, TypeOK, Steps, TasksInv, HeaderInv, FramesInv,
         StartInv, FreeInv, HeldInv, SeenSurvives
<1>18. ASSUME NEW s \in Symbols, AppendFails(s) PROVE IInv'
  <2>1. /\ Gone /\ crashes' \in Nat /\ tail' \in {"clean", "torn"}
        /\ UNCHANGED <<header, file, synced, clock, seen>>
        /\ header \notin {"empty", "partial"}
    BY <1>18 DEF AppendFails, IInv, TypeOK, HeaderInv, TasksInv
  <2>2. QED
    BY <2>1, DeathIInv DEF IInv, TypeOK, FramesInv, HeaderInv
<1>19. CASE UNCHANGED vars
  BY <1>19 DEF vars, IInv, TypeOK, TasksInv, HeaderInv, FramesInv,
         StartInv, FreeInv, HeldInv, SeenSurvives
<1>20. QED
  BY <1>1, <1>2, <1>3, <1>3d, <1>4, <1>5, <1>6, <1>7, <1>8, <1>9, <1>10, <1>11, <1>12, <1>13, <1>14, <1>15, <1>16, <1>17, <1>18, <1>19 DEF Next

-----------------------------------------------------------------------------
(* What the log guarantees.                                                *)

LEMMA Inductive == Spec => []IInv
  BY InitIInv, NextIInv, PTL DEF Spec

\* Every reachable state of the log, the engines and the symbol tasks has the
\* types the code's structures have; what EventLog::append writes is a Record.
THEOREM LogTypes == Spec => []TypeOK
  BY Inductive, PTL DEF IInv

\* EventLog::append numbers the frames without gap or repetition through any
\* series of failures, so Journal::open_configured never refuses the file.
THEOREM LogContiguous == Spec => []SeqContiguous
<1>1. IInv => SeqContiguous
  <2>1. file \in Seq(Record) => DOMAIN file = 1 .. Len(file)
    OBVIOUS
  <2>2. QED
    BY <2>1 DEF IInv, TypeOK, FramesInv, SeqContiguous
<1>2. QED
  BY <1>1, Inductive, PTL

\* A serving core has executed nothing that is not on stable storage.
THEOREM LogWriteAhead == Spec => []WriteAhead
<1>1. IInv => WriteAhead
  <2> SUFFICES ASSUME IInv, proc = "up"
               PROVE  /\ Len(executed) <= synced
                      /\ \A i \in DOMAIN executed : executed[i] = file[i]
    BY DEF WriteAhead
  <2>1. CASE lock = {}
    BY <2>1 DEF IInv, TypeOK, FreeInv
  <2>2. CASE lock # {}
    <3>1. PICK s \in Symbols : pc[s] \in {"write", "sync", "execute"}
      BY <2>2 DEF IInv, TasksInv
    <3>2. CASE pc[s] = "write"
      BY <3>2 DEF IInv, TypeOK, HeldInv
    <3>3. CASE pc[s] \in {"sync", "execute"}
      <4>1. /\ Len(file) = Len(executed) + 1
            /\ \A i \in 1 .. Len(executed) : executed[i] = file[i]
        BY <3>3, AppendFacts DEF IInv, TypeOK, HeldInv
      <4>2. Len(executed) <= synced
        BY <3>3, <4>1 DEF IInv, TypeOK, HeldInv
      <4>3. QED
        BY <4>1, <4>2 DEF IInv, TypeOK
    <3>4. QED
      BY <3>1, <3>2, <3>3
  <2>3. QED
    BY <2>1, <2>2
<1>2. QED
  BY <1>1, Inductive, PTL

\* No failure takes back what a report or a status reply told a client.
THEOREM LogSeenSurvives == Spec => []SeenSurvives
  BY Inductive, PTL DEF IInv

\* Between requests the live engines are what a replay of the file rebuilds.
THEOREM LogLiveIsReplay == Spec => []LiveIsReplay
<1>1. IInv => LiveIsReplay
  BY DEF IInv, FreeInv, LiveIsReplay
<1>2. QED
  BY <1>1, Inductive, PTL

\* The frames of all symbols are in the order of their times.
THEOREM LogTimesMonotone == Spec => []TimesMonotone
<1>1. IInv => TimesMonotone
  BY DEF IInv, TypeOK, FramesInv, TimesMonotone
<1>2. QED
  BY <1>1, Inductive, PTL

\* A log that open_configured refuses for its header never served anyone.
THEOREM LogRefusedIsUnused == Spec => []RefusedLogIsUnused
<1>1. IInv => RefusedLogIsUnused
  BY DEF IInv, HeaderInv, RefusedLogIsUnused
<1>2. QED
  BY <1>1, Inductive, PTL
=============================================================================
