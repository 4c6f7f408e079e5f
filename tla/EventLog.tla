------------------------------ MODULE EventLog ------------------------------
(***************************************************************************)
(* The core's write-ahead input log (fxp_core/src/event_log.rs) and the    *)
(* symbol tasks that feed it (fxp_core/src/server.rs).                     *)
(*                                                                         *)
(* Every symbol task takes one request at a time, enters the journal's     *)
(* mutex, stamps the request with the clock, appends it to one shared      *)
(* file, fsyncs, executes it on the symbol's engine, leaves the mutex and  *)
(* hands the outputs to the clients.  The engines are deterministic, so    *)
(* their state is represented by the sequence of records executed so far:  *)
(* two processes that executed equal sequences are in equal states.        *)
(*                                                                         *)
(* The file is what the operating system shows a reader: `file` with the   *)
(* first `synced` frames on stable storage.  A process exit keeps `file`;  *)
(* a power loss keeps the synced frames and any longer prefix, possibly    *)
(* followed by a torn frame.  Two assumptions on the file system are built *)
(* into that: a good fsync makes all earlier frames durable, also one      *)
(* whose own fsync failed; and a synced file keeps its name, although a    *)
(* process that died before the fsync of the directory is followed by      *)
(* processes that never sync it.                                           *)
(***************************************************************************)
EXTENDS Naturals, Sequences, FiniteSets

CONSTANTS
  Symbols,     \* traded symbols, one task each
  Requests,    \* client requests the engine executes (new, cancel, replace...)
  MaxRecords,  \* bound: records ever appended to one file
  MaxTime,     \* bound: the wall clock
  MaxCrashes   \* bound: process exits and power losses

ASSUME EventLogAssumption ==
  /\ Requests \cap {"tick", "status"} = {}
  /\ MaxRecords \in Nat
  /\ MaxTime \in Nat
  /\ MaxCrashes \in Nat

VARIABLES
  header,    \* the magic and configuration frame at the start of the file
  file,      \* complete frames after the header, as a reader sees them
  tail,      \* "torn" if an incomplete frame follows the complete ones
  synced,    \* number of leading frames on stable storage
  proc,      \* "down", "creating", "catchup" or "up"
  nextSeq,   \* EventLog.next_seq
  executed,  \* records executed by the engines of this process, in order
  todo,      \* symbols whose catch-up tick is still to be appended
  startAt,   \* the clock sampled once for the catch-up ticks
  lock,      \* the tasks inside the journal's mutex
  pc,        \* where each symbol task is
  req,       \* the request each symbol task works on
  rec,       \* the record each symbol task appends and executes
  clock,     \* the wall clock
  seen,      \* records whose effects some client has been told of
  crashes    \* exits and power losses so far

vars == <<header, file, tail, synced, proc, nextSeq, executed, todo, startAt,
          lock, pc, req, rec, clock, seen, crashes>>

disk == <<header, file, tail, synced>>
tasks == <<lock, pc, req, rec>>

Tick == "tick"
Status == "status"

\* What a symbol task can take from its channel or its one-second timer.
Work == Requests \cup {Tick, Status}

Record == [seq : Nat, symbol : Symbols, at : Nat, input : Requests \cup {Tick}]

\* Mutant of RecordFor: a status query is logged as an input of its own.
RecordForStatus(seq, s, time, work) ==
  [seq |-> seq, symbol |-> s, at |-> time, input |-> work]

\* The frame EventLog::append writes.  A status query is logged as the tick
\* that precedes the read.
RecordFor(seq, s, time, work) ==
  [seq |-> seq, symbol |-> s, at |-> time,
   input |-> IF work = Status THEN Tick ELSE work]

Steps == {"idle", "lock", "write", "sync", "execute", "dispatch"}

TypeOK ==
  /\ header \in {"empty", "partial", "unsynced", "ok"}
  /\ file \in Seq(Record)
  /\ tail \in {"clean", "torn"}
  /\ synced \in Nat
  /\ proc \in {"down", "creating", "catchup", "up"}
  /\ nextSeq \in Nat
  /\ executed \in Seq(Record)
  /\ todo \in SUBSET Symbols
  /\ startAt \in Nat
  /\ lock \in SUBSET Symbols
  /\ pc \in [Symbols -> Steps]
  /\ req \in [Symbols -> Work]
  /\ rec \in [Symbols -> Record]
  /\ clock \in Nat
  /\ seen \in SUBSET Record
  /\ crashes \in Nat

Init ==
  /\ header = "empty"
  /\ file = << >>
  /\ tail = "clean"
  /\ synced = 0
  /\ proc = "down"
  /\ nextSeq = 1
  /\ executed = << >>
  /\ todo = {}
  /\ startAt = 0
  /\ lock = {}
  /\ pc = [s \in Symbols |-> "idle"]
  /\ req = [s \in Symbols |-> Tick]
  /\ rec = [s \in Symbols |-> RecordFor(0, s, 0, Tick)]
  /\ clock = 0
  /\ seen = {}
  /\ crashes = 0

-----------------------------------------------------------------------------
(* Opening the log: create a header, or scan, repair and replay.           *)

\* The process is gone: everything it kept in memory is lost.
Gone ==
  /\ proc' = "down"
  /\ nextSeq' = 1
  /\ executed' = << >>
  /\ todo' = {}
  /\ startAt' = 0
  /\ lock' = {}
  /\ pc' = [s \in Symbols |-> "idle"]
  /\ req' = [s \in Symbols |-> Tick]
  /\ rec' = [s \in Symbols |-> RecordFor(0, s, 0, Tick)]

\* Syncing the file also makes a complete header durable.
HeaderSynced == IF header = "unsynced" THEN "ok" ELSE header

\* A file of length zero gets the magic, then the configuration frame.
CreateMagic ==
  /\ proc = "down"
  /\ header = "empty"
  /\ header' = "partial"
  /\ proc' = "creating"
  /\ UNCHANGED <<file, tail, synced, nextSeq, executed, todo, startAt, tasks,
                 clock, seen, crashes>>

CreateHeader ==
  /\ proc = "creating"
  /\ header = "partial"
  /\ header' = "unsynced"
  /\ UNCHANGED <<file, tail, synced, proc, nextSeq, executed, todo, startAt,
                 tasks, clock, seen, crashes>>

\* The new file is synced.  It has a length from now on, so a process that
\* starts after an exit here opens it, and never syncs the directory.
CreateSync ==
  /\ proc = "creating"
  /\ header = "unsynced"
  /\ header' = "ok"
  /\ UNCHANGED <<file, tail, synced, proc, nextSeq, executed, todo, startAt,
                 tasks, clock, seen, crashes>>

\* The directory is synced; the scan that follows finds no record.
CreateSyncDir ==
  /\ proc = "creating"
  /\ header = "ok"
  /\ proc' = "up"
  /\ UNCHANGED <<disk, nextSeq, executed, todo, startAt, tasks, clock, seen,
                 crashes>>

\* Mutant of Scan: any nonempty file passes for a log.
ScanAnyHeader ==
  /\ header # "empty"
  /\ tail' = "clean"
  /\ header' = IF tail = "torn" THEN HeaderSynced ELSE header
  /\ synced' = IF tail = "torn" THEN Len(file) ELSE synced
  /\ nextSeq' = Len(file) + 1
  /\ UNCHANGED file

\* Mutant of Scan: a torn tail is an error instead of the end of the log.
ScanRefusesTorn ==
  /\ header \in {"unsynced", "ok"}
  /\ tail = "clean"
  /\ nextSeq' = Len(file) + 1
  /\ UNCHANGED disk

\* Check the header and read the frames; a torn tail is cut off and the file
\* synced.
Scan ==
  /\ header \in {"unsynced", "ok"}
  /\ tail' = "clean"
  /\ header' = IF tail = "torn" THEN HeaderSynced ELSE header
  /\ synced' = IF tail = "torn" THEN Len(file) ELSE synced
  /\ nextSeq' = Len(file) + 1
  /\ UNCHANGED file

\* Every record that the scan found is executed.
Replay == executed' = file

\* Mutant of Recovered: no catch-up ticks.
RecoveredNone == {}

\* Journal::symbols after the replay: those that get a catch-up tick.
Recovered == {file[i].symbol : i \in DOMAIN file}

\* Open the log of an earlier process, and sample the clock for the catch-up
\* ticks.
Open ==
  /\ proc = "down"
  /\ Scan
  /\ Replay
  /\ todo' = Recovered
  /\ startAt' = clock
  /\ proc' = "catchup"
  /\ UNCHANGED <<tasks, clock, seen, crashes>>

\* start_server appends, syncs and executes one tick per recovered symbol
\* before the router and the listener exist.
CatchUp(s) ==
  /\ proc = "catchup"
  /\ s \in todo
  /\ LET r == RecordFor(nextSeq, s, startAt, Tick) IN
       /\ file' = Append(file, r)
       /\ executed' = Append(executed, r)
  /\ synced' = Len(file) + 1
  /\ header' = HeaderSynced
  /\ nextSeq' = nextSeq + 1
  /\ todo' = todo \ {s}
  /\ UNCHANGED <<tail, proc, startAt, tasks, clock, seen, crashes>>

\* The append of a catch-up tick fails, before or after its frame is in the
\* file, and the process exits.
CatchUpFails(s) ==
  /\ proc = "catchup"
  /\ s \in todo
  /\ crashes < MaxCrashes
  /\ \/ file' = file /\ tail' \in {tail, "torn"}
     \/ /\ file' = Append(file, RecordFor(nextSeq, s, startAt, Tick))
        /\ tail' = tail
  /\ Gone
  /\ crashes' = crashes + 1
  /\ UNCHANGED <<header, synced, clock, seen>>

Listen ==
  /\ proc = "catchup"
  /\ todo = {}
  /\ proc' = "up"
  /\ UNCHANGED <<disk, nextSeq, executed, todo, startAt, tasks, clock, seen,
                 crashes>>

-----------------------------------------------------------------------------
(* A symbol task: persisted_input, then the dispatch of its outputs.       *)

Receive(s, w) ==
  /\ proc = "up"
  /\ pc[s] = "idle"
  /\ Len(file) < MaxRecords
  /\ pc' = [pc EXCEPT ![s] = "lock"]
  /\ req' = [req EXCEPT ![s] = w]
  /\ UNCHANGED <<disk, proc, nextSeq, executed, todo, startAt, lock, rec,
                 clock, seen, crashes>>

\* Mutant of Lock: the tasks do not exclude each other.
LockShared(s) ==
  /\ pc[s] = "lock"
  /\ lock' = {s}
  /\ rec' = [rec EXCEPT ![s] = RecordFor(nextSeq, s, clock, req[s])]
  /\ pc' = [pc EXCEPT ![s] = "write"]
  /\ UNCHANGED <<disk, proc, nextSeq, executed, todo, startAt, req, clock,
                 seen, crashes>>

\* The clock and the next sequence number are read inside the mutex.
Lock(s) ==
  /\ pc[s] = "lock"
  /\ lock = {}
  /\ lock' = {s}
  /\ rec' = [rec EXCEPT ![s] = RecordFor(nextSeq, s, clock, req[s])]
  /\ pc' = [pc EXCEPT ![s] = "write"]
  /\ UNCHANGED <<disk, proc, nextSeq, executed, todo, startAt, req, clock,
                 seen, crashes>>

\* Mutant of WriteFrame: the frame is executed without waiting for the fsync.
WriteUnsynced(s) ==
  /\ pc[s] = "write"
  /\ file' = Append(file, rec[s])
  /\ nextSeq' = nextSeq + 1
  /\ pc' = [pc EXCEPT ![s] = "execute"]
  /\ UNCHANGED <<header, tail, synced, proc, executed, todo, startAt, lock,
                 req, rec, clock, seen, crashes>>

WriteFrame(s) ==
  /\ pc[s] = "write"
  /\ file' = Append(file, rec[s])
  /\ pc' = [pc EXCEPT ![s] = "sync"]
  /\ UNCHANGED <<header, tail, synced, proc, nextSeq, executed, todo, startAt,
                 lock, req, rec, clock, seen, crashes>>

SyncFrame(s) ==
  /\ pc[s] = "sync"
  /\ synced' = Len(file)
  /\ header' = HeaderSynced
  /\ nextSeq' = nextSeq + 1
  /\ pc' = [pc EXCEPT ![s] = "execute"]
  /\ UNCHANGED <<file, tail, proc, executed, todo, startAt, lock, req, rec,
                 clock, seen, crashes>>

\* Journal::execute.  A status query is answered before the mutex is left,
\* and tells its client the state all executed records led to.
Execute(s) ==
  /\ pc[s] = "execute"
  /\ executed' = Append(executed, rec[s])
  /\ seen' = IF req[s] = Status
             THEN seen \cup {executed'[i] : i \in DOMAIN executed'}
             ELSE seen
  /\ lock' = {}
  /\ pc' = [pc EXCEPT ![s] = "dispatch"]
  /\ UNCHANGED <<disk, proc, nextSeq, todo, startAt, req, rec, clock, crashes>>

\* The outputs of the record reach the clients, outside the mutex.
Dispatch(s) ==
  /\ pc[s] = "dispatch"
  /\ seen' = seen \cup {rec[s]}
  /\ pc' = [pc EXCEPT ![s] = "idle"]
  /\ UNCHANGED <<disk, proc, nextSeq, executed, todo, startAt, lock, req, rec,
                 clock, crashes>>

\* Mutant of AppendFails: only the request fails, the process goes on.
AppendFailsOpen(s) ==
  /\ crashes < MaxCrashes
  /\ pc[s] = "sync"
  /\ lock' = {}
  /\ pc' = [pc EXCEPT ![s] = "idle"]
  /\ crashes' = crashes + 1
  /\ UNCHANGED <<disk, proc, nextSeq, executed, todo, startAt, req, rec, clock,
                 seen>>

\* write_all fails with part of the frame in the file, or sync_data fails
\* with all of it there: EventLog::failed is set and, still inside the
\* mutex, persistence_failure exits the process.
AppendFails(s) ==
  /\ crashes < MaxCrashes
  /\ \/ pc[s] = "write" /\ tail' \in {tail, "torn"}
     \/ pc[s] = "sync" /\ tail' = tail
  /\ Gone
  /\ crashes' = crashes + 1
  /\ UNCHANGED <<header, file, synced, clock, seen>>

\* Journal::finish after the tasks drained: sync_all, then a normal exit.
Shutdown ==
  /\ proc = "up"
  /\ crashes < MaxCrashes
  /\ \A s \in Symbols : pc[s] = "idle"
  /\ header' = HeaderSynced
  /\ synced' = Len(file)
  /\ Gone
  /\ crashes' = crashes + 1
  /\ UNCHANGED <<file, tail, clock, seen>>

-----------------------------------------------------------------------------
(* The environment.                                                        *)

Advance ==
  /\ clock < MaxTime
  /\ clock' = clock + 1
  /\ UNCHANGED <<disk, proc, nextSeq, executed, todo, startAt, tasks, seen,
                 crashes>>

\* The process is killed; the operating system keeps the file.
Kill ==
  /\ proc # "down"
  /\ crashes < MaxCrashes
  /\ Gone
  /\ crashes' = crashes + 1
  /\ UNCHANGED <<disk, clock, seen>>

\* Power is lost: only the synced part of the file is certain to remain, and
\* no frame remains after an incomplete header.
PowerLoss ==
  /\ crashes < MaxCrashes
  /\ header' \in CASE header = "unsynced" -> {"empty", "partial", "ok"}
                   [] header = "partial" -> {"empty", "partial"}
                   [] OTHER -> {header}
  /\ \E k \in synced .. Len(file) :
       /\ header' # "ok" => k = 0
       /\ file' = SubSeq(file, 1, k)
       /\ tail' \in CASE header' # "ok" -> {"clean"}
                      [] header' = "ok" /\ k < Len(file) -> {"clean", "torn"}
                      [] OTHER -> {"clean", tail}
  /\ UNCHANGED synced
  /\ Gone
  /\ crashes' = crashes + 1
  /\ UNCHANGED <<clock, seen>>

Next ==
  \/ CreateMagic
  \/ CreateHeader
  \/ CreateSync
  \/ CreateSyncDir
  \/ Open
  \/ Listen
  \/ Shutdown
  \/ Advance
  \/ Kill
  \/ PowerLoss
  \/ \E s \in Symbols :
       \/ CatchUp(s)
       \/ CatchUpFails(s)
       \/ \E w \in Work : Receive(s, w)
       \/ Lock(s)
       \/ WriteFrame(s)
       \/ SyncFrame(s)
       \/ Execute(s)
       \/ Dispatch(s)
       \/ AppendFails(s)

Spec == Init /\ [][Next]_vars

\* The start-up sequence is one uninterrupted run of start_server, and the
\* supervisor starts a core that is down.
Startup == CreateMagic \/ CreateHeader \/ CreateSync \/ CreateSyncDir
             \/ Open \/ Listen \/ \E s \in Symbols : CatchUp(s)

FairSpec == Spec /\ WF_vars(Startup)

-----------------------------------------------------------------------------
(* Properties.                                                             *)

\* Journal::open_configured never meets a "sequence gap": whatever was lost
\* or left behind by failures, frame i of the file carries sequence number i.
SeqContiguous ==
  \A i \in DOMAIN file : file[i].seq = i

\* Once the core serves clients, everything its engines executed is on
\* stable storage, frames that a failed fsync left behind included.
WriteAhead ==
  proc = "up" =>
    /\ Len(executed) <= synced
    /\ \A i \in DOMAIN executed : executed[i] = file[i]

\* Whatever a client was told of, by a report or by a status reply, is in
\* the durable prefix: no crash and restart takes it back.
SeenSurvives ==
  \A r \in seen : r.seq <= synced /\ r.seq \in DOMAIN file /\ file[r.seq] = r

\* Whenever the mutex is free, replaying the file would rebuild exactly the
\* live engines: no record is in the file without having been executed.
LiveIsReplay ==
  proc = "up" /\ lock = {} => executed = file

\* Symbols share one total order with one clock: record times never step
\* back along the file while the wall clock does not.
TimesMonotone ==
  \A i, j \in DOMAIN file : i < j => file[i].at <= file[j].at

\* A log that start-up refuses, because the core died while it created the
\* header, holds nothing a client was told of.
RefusedLogIsUnused ==
  header \in {"empty", "partial"} => seen = {} /\ file = << >>

\* A core that is down with a complete log serves clients again.
Recovers ==
  (proc = "down" /\ header = "ok") ~> (proc = "up")
=============================================================================
