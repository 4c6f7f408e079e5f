------------------------------- MODULE Engine -------------------------------
(***************************************************************************)
(* The engine of one symbol (fxp_core/src/engine.rs and engine/): every    *)
(* request handler, the trading phases and auctions that the clock drives, *)
(* the report state of live orders, and the order status history.          *)
(*                                                                         *)
(* Handlers run one at a time, in the task that owns the engine, so each   *)
(* request is one step; its first part is always tick(), which brings the  *)
(* engine from the last time it looked at the clock to now.  The engine is *)
(* one record, x in the operators below, with the fields of struct Engine; *)
(* field `out` holds the reports and prints of the request at work.        *)
(* Times are integers; a date is the instant of the midnight after it.     *)
(***************************************************************************)
EXTENDS Execution, Auction

LOCAL INSTANCE SequencesExt

CONSTANTS
  SendersOf,     \* bound: the traders who name an id in an order or a replace
  StpDefault,    \* the self-trade prevention of orders that name none
  Schedule,      \* boundary -> time of day; << >> without a schedule
  DayLength,     \* length of a day
  Start,         \* the time the engine starts
  NewOrders,     \* orders that may be entered: [order, expire]
  Changes,       \* changes a cancel/replace may ask for
  CallLengths,   \* lengths of the opening calls an operator may start
  HistoryLimit,  \* terminal orders the status history remembers
  MaxRequests,   \* bound: requests taken
  MaxTime        \* bound: the clock

Boundaries == {"open_call", "open", "close_call", "close"}

ASSUME EngineAssumption ==
  /\ SendersOf \in [Ids -> SUBSET Traders]
  /\ StpDefault \in StpModes
  /\ DayLength \in Nat \ {0}
  /\ DOMAIN Schedule \in {{}, {"close"}, Boundaries}
  /\ \A b \in DOMAIN Schedule : Schedule[b] \in 0 .. DayLength - 1
  /\ DOMAIN Schedule = Boundaries =>
       /\ Schedule["open_call"] < Schedule["open"]
       /\ Schedule["open"] < Schedule["close_call"]
       /\ Schedule["close_call"] < Schedule["close"]
  /\ CallLengths \subseteq Nat \ {0}

VARIABLES
  engine,   \* the engine
  now,      \* the clock
  requests  \* requests taken

vars == <<engine, now, requests>>

-----------------------------------------------------------------------------
(* The session schedule.                                                   *)

Full == DOMAIN Schedule = Boundaries

\* SessionSchedule::phase
PhaseAt(t) ==
  LET time == t % DayLength
  IN  CASE ~Full                                                         -> "continuous"
        [] Full /\ Schedule["open_call"] <= time /\ time < Schedule["open"]  -> "opening"
        [] Full /\ Schedule["open"] <= time /\ time < Schedule["close_call"] -> "continuous"
        [] Full /\ Schedule["close_call"] <= time /\ time < Schedule["close"] -> "closing"
        [] OTHER                                                         -> "closed"

\* SessionSchedule::next_boundary: the first instant of a boundary after t.
NextAt(b, t) ==
  LET at == (t \div DayLength) * DayLength + Schedule[b]
  IN  IF at <= t THEN at + DayLength ELSE at

IsCall(phase) == phase \in {"opening", "closing"}
AuctionsEnabled(x) == x.call_until # 0 \/ Full

\* phases::entry_reason: an order of this type and time in force is refused.
EntryRefused(x, type, tif) ==
  \/ x.phase = "closed"
  \/ /\ tif \in {"open", "close"}
     /\ \/ ~AuctionsEnabled(x)
        \/ type \in StopTypes
        \/ tif = "open" /\ x.phase # "opening"
  \/ IsCall(x.phase) /\ tif \in {"ioc", "fok"}

\* iceberg_reason, with a lot size of 1.
IcebergRefused(x, display, total, type, tif) ==
  /\ display > 0
  /\ \/ display > total
     \/ AuctionsEnabled(x)
     \/ type # "limit"
     \/ tif \notin {"day", "gtc", "gtd"}

-----------------------------------------------------------------------------
(* Report states and reports.                                              *)

NewState(o, expire, arrival) ==
  [sender |-> o.owner, time_in_force |-> o.tif, expire |-> expire, arrival |-> arrival,
   side |-> o.side, order_qty |-> o.quantity, display |-> o.display, cum_qty |-> 0]

Leaves(st) == IF st.order_qty > st.cum_qty THEN st.order_qty - st.cum_qty ELSE 0

\* build_report, with a fresh execution id.
Report(x, id, kind, leaves, quantity) ==
  [x EXCEPT !.ids = @ + 1,
            !.out = Append(@, [kind |-> kind, id |-> id, exec |-> x.ids + 1,
                               leaves |-> leaves, quantity |-> quantity, price |-> 0])]

Reject(x, id) == Report(x, id, "rejected", 0, 0)

\* build_trade: one public print.
TradePrint(x, price, quantity) ==
  [x EXCEPT !.trade_seq = @ + 1,
            !.out = Append(@, [kind |-> "print", id |-> NoId, exec |-> x.trade_seq + 1,
                               leaves |-> 0, quantity |-> quantity, price |-> price])]

\* apply_fill: no report for an order that is no longer live.
ApplyFill(x, id, quantity) ==
  IF id \notin DOMAIN x.states
  THEN x
  ELSE LET st == [x.states[id] EXCEPT !.cum_qty = @ + quantity]
       IN  Report([x EXCEPT !.states = IF Leaves(st) = 0 THEN Drop(@, id) ELSE Put(@, id, st)],
                  id, IF st.side = "buy" THEN "bought" ELSE "sold", Leaves(st), quantity)

\* Mutant of ReportStp: a restatement leaves the order quantity as it was.
ReportStpKeepsQuantity(x, event) ==
  IF event.id \notin DOMAIN x.states
  THEN x
  ELSE IF event.left = 0
       THEN Report([x EXCEPT !.states = Drop(@, event.id)], event.id, "canceled", 0, 0)
       ELSE Report(x, event.id, "restated", Leaves(x.states[event.id]), 0)

\* report_stp: a cancel, or a restatement of a reduced order.
ReportStp(x, event) ==
  IF event.id \notin DOMAIN x.states
  THEN x
  ELSE IF event.left = 0
       THEN Report([x EXCEPT !.states = Drop(@, event.id)], event.id, "canceled", 0, 0)
       ELSE LET st == [x.states[event.id] EXCEPT !.order_qty = @ - Lesser(@, event.by)]
            IN  Report([x EXCEPT !.states = Put(@, event.id, st)],
                       event.id, "restated", Leaves(st), 0)

\* A live order ends without a trade.
Terminate(x, id, kind) ==
  IF id \notin DOMAIN x.states
  THEN x
  ELSE Report([x EXCEPT !.states = Drop(@, id)], id, kind, 0, 0)

ReportFill(x, f) ==
  TradePrint(ApplyFill(ApplyFill(x, f.buy, f.quantity), f.sell, f.quantity), f.price, f.quantity)

\* The loop of report_execution, at fill number i counting from 0: prevented
\* self-matches that came before it are reported first, and those after the
\* last fill at the end.
RECURSIVE Merge(_, _, _, _)
Merge(x, fills, stp, i) ==
  CASE stp # << >> /\ (fills = << >> \/ Head(stp).before_fill <= i) ->
         Merge(ReportStp(x, Head(stp).event), fills, Tail(stp), i)
    [] fills # << >> /\ (stp = << >> \/ Head(stp).before_fill > i) ->
         Merge(ReportFill(x, Head(fills)), Tail(fills), stp, i + 1)
    [] fills = << >> /\ stp = << >> -> x

\* report_execution, after the engine took over what the execution changed.
Absorb(x, run) ==
  LET taken    == [x EXCEPT !.book = run.book, !.stop_book = run.stop_book, !.last = run.last]
      reported == Merge(taken, run.fills, run.stp, 0)
  IN  FoldLeft(LAMBDA y, id : Terminate(y, id, "canceled"), reported, run.cancels)

Running(x) == Execution(x.book, x.stop_book, x.last)

-----------------------------------------------------------------------------
(* Order status (remember_status, bind_status_owner).                      *)

Remembered(x, id, exec) == [x EXCEPT !.terminal_history = Append(@, [id |-> id, exec |-> exec])]

\* A report updates the status of its order, once; a replaced order is done.
RememberReport(x, r) ==
  IF r.kind \in {"rejected", "print"} \/ r.id \notin DOMAIN x.status_history
       \/ x.status_history[r.id].exec = r.exec
  THEN x
  ELSE LET leaves == IF r.kind = "replaced" THEN 0 ELSE r.leaves
           y      == [x EXCEPT !.status_history[r.id].exec = r.exec,
                               !.status_history[r.id].leaves = leaves]
       IN  IF leaves = 0 THEN Remembered(y, r.id, r.exec) ELSE y

\* Mutant of Evict: the oldest id is forgotten although it may be live again.
EvictById(x) ==
  LET old == Head(x.terminal_history)
  IN  [x EXCEPT !.terminal_history = Tail(@), !.status_history = Drop(@, old.id)]

\* The oldest terminal transition is forgotten, and the status of its order
\* unless a later report changed it.
Evict(x) ==
  LET old  == Head(x.terminal_history)
      same == /\ old.id \in DOMAIN x.status_history
              /\ x.status_history[old.id].exec = old.exec
              /\ x.status_history[old.id].leaves = 0
  IN  [x EXCEPT !.terminal_history = Tail(@),
                !.status_history = IF same THEN Drop(@, old.id) ELSE @]

RECURSIVE Trim(_)
Trim(x) == IF Len(x.terminal_history) > HistoryLimit THEN Trim(Evict(x)) ELSE x

RememberStatus(x) == Trim(FoldLeft(RememberReport, x, x.out))

\* The last report about `id` accepts it for `sender`.
BindStatusOwner(x, id, sender) ==
  LET about == SelectSeq(x.out, LAMBDA r : r.id = id)
      old   == IF id \in DOMAIN x.status_history THEN x.status_history[id]
               ELSE [owner |-> sender, exec |-> 0, leaves |-> 0]
  IN  IF about = << >> \/ Last(about).kind = "rejected"
      THEN x
      ELSE [x EXCEPT !.status_history = Put(@, id, [old EXCEPT !.owner = sender])]

-----------------------------------------------------------------------------
(* Phases and auctions (engine/phases.rs).                                 *)

NoResult == [price |-> -1, volume |-> 0, imbalance |-> 0]

SetPhase(x, phase) ==
  IF x.phase = phase THEN x ELSE [x EXCEPT !.phase = phase, !.last_indicative = NoResult]

AuctionOrders(x) ==
  LET entry(o, seq) ==
        [id |-> o.id, side |-> o.side, quantity |-> o.quantity, seq |-> seq,
         limit |-> IF o.type = "market" THEN 0 ELSE o.price]
  IN  {entry(x.book.order_lookup[id], x.book.arrival[id]) : id \in DOMAIN x.book.order_lookup}
        \cup {entry(x.call_markets[id], x.states[id].arrival) : id \in DOMAIN x.call_markets}

\* Mutant of PublishIndicative: a new phase does not republish.
PublishChangedVolume(x) ==
  LET result == Uncross(AuctionOrders(x), x.last)
  IN  IF ~IsCall(x.phase) \/ x.last_indicative.volume = result.volume
      THEN x ELSE [x EXCEPT !.last_indicative = result]

\* During a call every change of the indicative result is published.
PublishIndicative(x) ==
  LET result == Uncross(AuctionOrders(x), x.last)
  IN  IF ~IsCall(x.phase) THEN x ELSE [x EXCEPT !.last_indicative = result]

\* One side of an auction fill, on the book or among the market orders.
AuctionFill(x, id, quantity) ==
  LET left == x.call_markets[id].quantity - quantity
  IN  ApplyFill(
        CASE id \in DOMAIN x.book.order_lookup ->
               [x EXCEPT !.book = ApplyAuctionFill(@, id, quantity)]
          [] id \notin DOMAIN x.book.order_lookup /\ left = 0 ->
               [x EXCEPT !.call_markets = Drop(@, id)]
          [] OTHER ->
               [x EXCEPT !.call_markets[id].quantity = left],
        id, quantity)

\* Mutant of RunAuction: one print for the whole auction.
RunAuctionOnePrint(x, orders, result) ==
  LET fill(y, f) == AuctionFill(AuctionFill(y, f.buy, f.quantity), f.sell, f.quantity)
      priced == [FoldLeft(fill, x, Allocate(orders, result))
                   EXCEPT !.last = IF result.volume = 0 THEN @ ELSE result.price]
  IN  IF result.volume = 0 THEN priced ELSE TradePrint(priced, result.price, result.volume)

\* run_auction, with the result that uncross finds.
RunAuction(x, orders, result) ==
  LET fill(y, f) == TradePrint(AuctionFill(AuctionFill(y, f.buy, f.quantity), f.sell, f.quantity),
                               result.price, f.quantity)
  IN  [FoldLeft(fill, x, Allocate(orders, result))
         EXCEPT !.last = IF result.volume = 0 THEN @ ELSE result.price]

Auctioned(x) ==
  RunAuction(x, AuctionOrders(x), Uncross(AuctionOrders(x), x.last))

\* A live order is on the book, a call market order, held for the close or parked.
RemoveLive(x, id) ==
  CASE id \in DOMAIN x.book.order_lookup -> [x EXCEPT !.book = CancelOrder(@, id)]
    [] id \notin DOMAIN x.book.order_lookup /\ id \in DOMAIN x.call_markets ->
         [x EXCEPT !.call_markets = Drop(@, id)]
    [] id \notin DOMAIN x.book.order_lookup /\ id \in DOMAIN x.held_close ->
         [x EXCEPT !.held_close = Drop(@, id)]
    [] OTHER -> [x EXCEPT !.stop_book = Unpark(@, id)]

ByArrival(x, ids) == SetToSortSeq(ids, LAMBDA i, j : x.states[i].arrival < x.states[j].arrival)

\* finish_order for all of `ids`, in order of arrival.
FinishOrders(x, ids, kind) ==
  FoldLeft(LAMBDA y, id : Terminate(RemoveLive(y, id), id, kind), x, ByArrival(x, ids))

Expire(x, at, day) ==
  FinishOrders(x,
    {id \in DOMAIN x.states :
       \/ day /\ x.states[id].time_in_force = "day"
       \/ x.states[id].time_in_force = "gtd" /\ x.states[id].expire <= at}, "expired")

\* Mutant of CancelRemainders: market orders left by the auction stay.
CancelRemaindersByTif(x, tif) ==
  FinishOrders(x, {id \in DOMAIN x.states : x.states[id].time_in_force = tif}, "canceled")

CancelRemainders(x, tif) ==
  FinishOrders(x,
    {id \in DOMAIN x.states :
       x.states[id].time_in_force = tif \/ id \in DOMAIN x.call_markets}, "canceled")

\* Stops that the opening price triggers, then the cascade of their prints.
TriggerStops(x, price) ==
  LET start == [Running(x) EXCEPT !.stop_book = Untriggered(@, price)]
      fired == FoldLeft(ExecuteInto, start, Triggered(x.stop_book, price))
  IN  Absorb(x, RunStopCascade(fired))

\* Mutant of Open: the book is not uncrossed.
OpenSkipsAuction(x) == SetPhase(CancelRemainders(x, "open"), "continuous")

\* The opening price, if there is one, triggers stops in the new phase.
Opened(x, volume) == IF volume = 0 THEN x ELSE TriggerStops(x, x.last)

Open(x) ==
  Opened(SetPhase(CancelRemainders(Auctioned(x), "open"), "continuous"),
         Uncross(AuctionOrders(x), x.last).volume)

\* Mutant of CloseCall: the orders that join the call are also still held.
CloseCallKeepsHeld(x) ==
  LET join(y, id) ==
        LET o == x.held_close[id]
        IN  IF o.type = "market"
            THEN [y EXCEPT !.call_markets = Put(@, id, o)]
            ELSE [y EXCEPT !.book = AddOrder(@, o)]
  IN  FoldLeft(join, SetPhase(x, "closing"), ByArrival(x, DOMAIN x.held_close))

\* Orders held for the close join the call in order of arrival.
CloseCall(x) ==
  LET join(y, id) ==
        LET o == x.held_close[id]
        IN  IF o.type = "market"
            THEN [y EXCEPT !.call_markets = Put(@, id, o)]
            ELSE [y EXCEPT !.book = AddOrder(@, o)]
  IN  FoldLeft(join, [SetPhase(x, "closing") EXCEPT !.held_close = << >>],
               ByArrival(x, DOMAIN x.held_close))

\* Mutant of Close: day orders survive the closing auction.
CloseKeepsDay(x, at) == SetPhase(CancelRemainders(Auctioned(x), "close"), "closed")

Close(x, at) ==
  Expire(SetPhase(CancelRemainders(Auctioned(x), "close"), "closed"), at, TRUE)

SessionBoundary(x, boundary, at) ==
  CASE boundary = "open_call"  -> SetPhase(x, "opening")
    [] boundary = "open"       -> Open(x)
    [] boundary = "close_call" -> CloseCall(x)
    [] boundary = "close"      -> Close(x, at)
    [] boundary = "none"       -> x

\* Mutant of Due: nothing is due at the end of the operator's call.
DueIgnoresCall(x, cursor) ==
  {NextAt(b, cursor) : b \in DOMAIN Schedule}
    \cup {t \in {x.states[id].expire : id \in {i \in DOMAIN x.states :
                     x.states[i].time_in_force = "gtd"}} : t > cursor}

\* The instants after `cursor` at which something is due: scheduled boundaries,
\* expiries, and the end of the operator's call.
Due(x, cursor) ==
  {NextAt(b, cursor) : b \in DOMAIN Schedule}
    \cup {t \in {x.states[id].expire : id \in {i \in DOMAIN x.states :
                     x.states[i].time_in_force = "gtd"}} : t > cursor}
    \cup ({x.call_until} \ {0})

\* What happens at the instant `at`, the next one after `cursor`: expiries, then
\* the end of the operator's call or else a boundary of a full schedule.
Pass(x, cursor, at) ==
  LET scheduled == {b \in DOMAIN Schedule : NextAt(b, cursor) = at}
      expired   == Expire(x, at, ~Full /\ "close" \in scheduled)
      boundary  == CASE x.call_until = at                             -> "open"
                     [] x.call_until # at /\ Full /\ scheduled # {}   ->
                          CHOOSE b \in scheduled : TRUE
                     [] OTHER                                         -> "none"
  IN  PublishIndicative(
        SessionBoundary([expired EXCEPT !.call_until = IF @ = at THEN 0 ELSE @], boundary, at))

\* Mutant of AdvanceFrom: only the first instant that is due is handled.
AdvanceOnce(x, cursor, t) ==
  LET due == Due(x, cursor)
      at  == CHOOSE d \in due : \A other \in due : d <= other
  IN  [IF cursor >= t \/ due = {} \/ at > t THEN x ELSE Pass(x, cursor, at)
         EXCEPT !.last_seen = IF t > @ THEN t ELSE @]

\* The loop of advance.
RECURSIVE AdvanceFrom(_, _, _)
AdvanceFrom(x, cursor, t) ==
  LET due == Due(x, cursor)
      at  == CHOOSE d \in due : \A other \in due : d <= other
  IN  IF cursor >= t \/ due = {} \/ at > t
      THEN [x EXCEPT !.last_seen = IF t > @ THEN t ELSE @]
      ELSE AdvanceFrom(Pass(x, cursor, at), at, t)

Advance(x, t) == AdvanceFrom(x, x.last_seen, t)

\* tick(), at the start of every request.
TickAt(x, t) == RememberStatus(Advance([x EXCEPT !.out = << >>], t))

-----------------------------------------------------------------------------
(* New orders.                                                             *)

\* parse_stp; an order whose stp is "" names no mode.
ParseStp(mode) == IF mode = "" THEN StpDefault ELSE mode

\* An order for an auction may not name a mode; one that gets it by default
\* is accepted.
OrderRefused(x, o, expire, t) ==
  \/ o.id \in DOMAIN x.states
  \/ o.tif \in {"open", "close"} /\ o.stp \notin {"", "none"}
  \/ EntryRefused(x, o.type, o.tif)
  \/ o.tif = "gtd" /\ expire <= t
  \/ IcebergRefused(x, o.display, o.quantity, o.type, o.tif)
  \/ o.type \in StopTypes /\ o.stop = 0

\* Mutant of Accept: a stop never fires on entry.
AcceptParksStops(x, o, expire) ==
  LET live == [x EXCEPT !.states = Put(@, o.id, NewState(o, expire, x.next_arrival))]
  IN  CASE o.type \in StopTypes ->
             Report([live EXCEPT !.stop_book = Append(@, o)], o.id, "new", o.quantity, 0)
        [] o.type \notin StopTypes /\ (x.phase # "continuous" \/ o.tif = "close") ->
             Report([live EXCEPT !.book = AddOrder(@, o)], o.id, "new", o.quantity, 0)
        [] OTHER -> Absorb(live, Execute(Running(live), o))

\* Mutant of Accept: an order of a call executes at once unless it is for an auction.
AcceptMatchesInCall(x, o, expire) ==
  LET live  == [x EXCEPT !.states = Put(@, o.id, NewState(o, expire, x.next_arrival))]
      acked(y) == Report(y, o.id, "new", o.quantity, 0)
      waits == o.tif \in {"open", "close"}
  IN  CASE o.type \in StopTypes -> acked([live EXCEPT !.stop_book = Append(@, o)])
        [] waits /\ o.type = "market" -> acked([live EXCEPT !.call_markets = Put(@, o.id, o)])
        [] waits /\ o.type = "limit"  -> acked([live EXCEPT !.book = AddOrder(@, o)])
        [] OTHER -> Absorb(IF Rests(o) THEN acked(live) ELSE live,
                           Execute(Running(live), o))

\* A stop is parked unless it fires at once; during a call, and for the close,
\* an order waits; otherwise it executes, acknowledged first if it rests.
Accept(x, o, expire) ==
  LET live  == [x EXCEPT !.states = Put(@, o.id, NewState(o, expire, x.next_arrival))]
      acked(y) == Report(y, o.id, "new", o.quantity, 0)
      fires == x.phase = "continuous" /\ x.last # 0 /\ StopFires(o, x.last)
      parks == o.type \in StopTypes /\ ~fires
      waits == ~parks /\ (x.phase # "continuous" \/ o.tif = "close")
      held  == waits /\ o.tif = "close" /\ x.phase # "closing"
      run   == Execute(Running(live), o)
  IN  CASE parks -> acked([live EXCEPT !.stop_book = Append(@, o)])
        [] held  -> acked([live EXCEPT !.held_close = Put(@, o.id, o)])
        [] waits /\ ~held /\ o.type = "market" ->
             acked([live EXCEPT !.call_markets = Put(@, o.id, o)])
        [] waits /\ ~held /\ o.type # "market" ->
             acked([live EXCEPT !.book = AddOrder(@, o)])
        [] ~parks /\ ~waits -> Absorb(IF Rests(o) THEN acked(live) ELSE live, run)

NewOrder(x, o, expire, t) ==
  IF OrderRefused(x, o, expire, t)
  THEN Reject(x, o.id)
  ELSE Accept(x, [o EXCEPT !.stp = ParseStp(@)], expire)

-----------------------------------------------------------------------------
(* Cancels.                                                                *)

\* Whoever owns the order where it waits: among the call's orders, on the
\* book, or parked.
OwnerAt(x, id) ==
  CASE id \in DOMAIN x.call_markets \cup DOMAIN x.held_close -> x.states[id].sender
    [] id \in DOMAIN x.book.order_lookup -> x.book.order_lookup[id].owner
    [] id \in Parked(x.stop_book)        -> ParkedOrder(x.stop_book, id).owner
    [] OTHER                             -> NoId

Cancel(x, id, sender) ==
  IF OwnerAt(x, id) = sender
  THEN Report([RemoveLive(x, id) EXCEPT !.states = Drop(@, id)], id, "canceled", 0, 0)
  ELSE Reject(x, id)

\* side "" stands for both sides.
MassCancel(x, sender, side) ==
  FinishOrders(x,
    {id \in DOMAIN x.states :
       x.states[id].sender = sender /\ side \in {"", x.states[id].side}}, "canceled")

-----------------------------------------------------------------------------
(* Cancel/replace.  A change c asks for a price, stop price and total       *)
(* quantity (0 to keep), a display quantity (-1 to keep) and a time in     *)
(* force ("" to keep).                                                     *)

NewTif(st, c) == IF c.tif = "" THEN st.time_in_force ELSE c.tif

\* The type that preflight goes by.
LiveType(x, id) ==
  CASE id \in DOMAIN x.call_markets   -> "market"
    [] id \in Parked(x.stop_book)     -> "stop"
    [] OTHER                          -> "limit"

\* preflight: the display cap is checked against the total, or kept as it is.
DisplayRefused(x, id, c) ==
  LET st      == x.states[id]
      tif     == NewTif(st, c)
      display == IF c.display = -1 THEN st.display ELSE c.display
      total   == CASE c.quantity # 0                     -> c.quantity
                   [] c.quantity = 0 /\ c.display # -1   -> st.order_qty
                   [] c.quantity = 0 /\ c.display = -1   ->
                        IF st.order_qty > st.display THEN st.order_qty ELSE st.display
  IN  \/ st.display > 0 /\ tif \notin {"day", "gtc", "gtd"}
      \/ IcebergRefused(x, display, total, LiveType(x, id), tif)

ReplaceRefused(x, id, newId, c, t) ==
  \/ x.phase = "closed"
  \/ id \notin DOMAIN x.states
  \/ LET st == x.states[id]
     IN  \/ st.sender # c.owner
         \/ id \in DOMAIN x.held_close
         \/ newId # id /\ newId \in DOMAIN x.states
         \/ EntryRefused(x, LiveType(x, id), NewTif(st, c))
         \/ NewTif(st, c) = "gtd" /\ st.expire <= t
         \/ DisplayRefused(x, id, c)
         \/ /\ id \in DOMAIN x.call_markets
            /\ c.quantity # 0 /\ c.quantity <= st.cum_qty
         \/ /\ id \in DOMAIN x.book.order_lookup
            /\ ReplaceCheck(x.book, id, newId, c.quantity, c.owner) # "ok"

\* The report state of a replacement, and the two reports of a replace.
Restate(x, id, o, cum) ==
  LET st == [NewState(o, x.states[id].expire, x.next_arrival) EXCEPT
               !.order_qty = cum + o.quantity, !.cum_qty = cum]
      moved == [x EXCEPT !.states = Put(Drop(@, id), o.id, st)]
  IN  Report(Report(moved, id, "replaced", Leaves(st), 0), o.id, "new", Leaves(st), 0)

\* A market order of a call.
ReplaceMarket(x, id, newId, c) ==
  LET st  == x.states[id]
      old == x.call_markets[id]
      o   == [old EXCEPT !.id = newId, !.tif = NewTif(st, c),
                         !.quantity = IF c.quantity > 0 THEN c.quantity - st.cum_qty ELSE @]
      y   == Restate([x EXCEPT !.call_markets = Drop(@, id)], id, o, st.cum_qty)
  IN  IF o.tif = "close" /\ x.phase # "closing"
      THEN [y EXCEPT !.held_close = Put(@, newId, o)]
      ELSE [y EXCEPT !.call_markets = Put(@, newId, o)]

\* A parked stop goes to the back and may fire at once.
ReplaceStop(x, id, newId, c) ==
  LET old == ParkedOrder(x.stop_book, id)
      o   == [old EXCEPT !.id = newId,
                         !.price = IF c.price > 0 THEN c.price ELSE @,
                         !.stop = IF c.stop > 0 THEN c.stop ELSE @,
                         !.quantity = IF c.quantity > 0 THEN c.quantity ELSE @,
                         !.tif = IF c.tif = "" THEN @ ELSE c.tif]
      y   == Restate([x EXCEPT !.stop_book = Unpark(@, id)], id, o, 0)
  IN  IF x.phase = "continuous" /\ x.last # 0 /\ StopFires(o, x.last)
      THEN Absorb(y, Execute(Running(y), o))
      ELSE [y EXCEPT !.stop_book = Append(@, o)]

\* A resting order is replaced on the book; it moves off it if it becomes an
\* order for the close, and matches in continuous trading.
Resume(x, o) ==
  CASE o.tif = "close" /\ x.phase # "closing" ->
         [x EXCEPT !.book = CancelOrder(@, o.id), !.held_close = Put(@, o.id, o)]
    [] ~(o.tif = "close" /\ x.phase # "closing") /\ x.phase # "continuous" -> x
    [] OTHER -> Absorb(x, RunStopCascade(MatchInto(Running(x))))

ReplaceResting(x, id, newId, c) ==
  LET o == Replacement(x.book, id, newId, c.price, c.quantity, c.tif, c.display)
  IN  Resume(Restate([x EXCEPT !.book = ReplaceOrder(@, id, o)], id, o, x.states[id].cum_qty), o)

CancelReplace(x, id, newId, c, t) ==
  CASE ReplaceRefused(x, id, newId, c, t)           -> Reject(x, id)
    [] ~ReplaceRefused(x, id, newId, c, t)
         /\ id \in DOMAIN x.call_markets            -> ReplaceMarket(x, id, newId, c)
    [] ~ReplaceRefused(x, id, newId, c, t)
         /\ id \in Parked(x.stop_book)              -> ReplaceStop(x, id, newId, c)
    [] OTHER                                        -> ReplaceResting(x, id, newId, c)

-----------------------------------------------------------------------------
(* Requests, on an engine that has ticked.                                 *)

\* process numbers the request before its handler runs, and publishes the
\* indicative result after it.
Arrive(x) == [x EXCEPT !.next_arrival = @ + 1]

NewOrderAt(x, o, expire, t) ==
  RememberStatus(BindStatusOwner(
    PublishIndicative(NewOrder(Arrive(x), o, expire, t)), o.id, o.owner))

CancelAt(x, id, sender) == RememberStatus(PublishIndicative(Cancel(Arrive(x), id, sender)))

CancelReplaceAt(x, id, newId, c, t) ==
  RememberStatus(BindStatusOwner(
    PublishIndicative(CancelReplace(Arrive(x), id, newId, c, t)), newId, c.owner))

MassCancelAt(x, sender, side) ==
  RememberStatus(PublishIndicative(MassCancel(x, sender, side)))

\* A new subscriber gets the indicative result again.
SubscribeAt(x) == PublishIndicative([x EXCEPT !.last_indicative = NoResult])

\* Ignored during a call.
BeginOpeningCallAt(x, seconds, t) ==
  IF IsCall(x.phase)
  THEN x
  ELSE RememberStatus(PublishIndicative(
         SetPhase([x EXCEPT !.call_until = t + seconds], "opening")))

-----------------------------------------------------------------------------
(* The symbol's task.  In each action x is the engine after its tick.      *)

Init ==
  /\ engine = [book |-> EmptyBook, stop_book |-> << >>, last |-> 0, trade_seq |-> 0,
               states |-> << >>, call_until |-> 0, last_seen |-> Start,
               next_arrival |-> 0, phase |-> PhaseAt(Start), call_markets |-> << >>,
               held_close |-> << >>,
               last_indicative |-> [price |-> 0, volume |-> 0, imbalance |-> 0],
               status_history |-> << >>, terminal_history |-> << >>,
               ids |-> 0, out |-> << >>]
  /\ now = Start
  /\ requests = 0

Request ==
  /\ requests < MaxRequests
  /\ requests' = requests + 1
  /\ UNCHANGED now

New(x) ==
  /\ Request
  /\ \E id \in Ids, n \in NewOrders : \E sender \in SendersOf[id] :
       engine' = NewOrderAt(x, [n.order EXCEPT !.id = id, !.owner = sender], n.expire, now)

CancelOne(x) ==
  /\ Request
  /\ \E id \in Ids, sender \in Traders : engine' = CancelAt(x, id, sender)

Replace(x) ==
  /\ Request
  /\ \E id, newId \in Ids, c \in Changes : \E sender \in SendersOf[newId] :
       engine' = CancelReplaceAt(x, id, newId, [c EXCEPT !.owner = sender], now)

CancelAll(x) ==
  /\ Request
  /\ \E sender \in Traders, side \in {"", "buy", "sell"} :
       engine' = MassCancelAt(x, sender, side)

Subscribe(x) ==
  /\ Request
  /\ engine' = SubscribeAt(x)

BeginOpeningCall(x) ==
  /\ Request
  /\ \E seconds \in CallLengths : engine' = BeginOpeningCallAt(x, seconds, now)

\* The timer of the task, and the tick of a status query.
Tick(x) ==
  /\ engine' = x
  /\ UNCHANGED <<now, requests>>

\* External: time passes.
Clock ==
  /\ now < MaxTime
  /\ now' = now + 1
  /\ UNCHANGED <<engine, requests>>

Next ==
  \/ \E x \in {TickAt(engine, now)} :
       \/ New(x) \/ CancelOne(x) \/ Replace(x) \/ CancelAll(x) \/ Subscribe(x)
       \/ BeginOpeningCall(x) \/ Tick(x)
  \/ Clock

Spec == Init /\ [][Next]_vars

-----------------------------------------------------------------------------
(* Properties.                                                             *)

\* The places where a live order may be.
Resting  == DOMAIN engine.book.order_lookup
Waiting  == DOMAIN engine.call_markets
ForClose == DOMAIN engine.held_close
Stops    == Parked(engine.stop_book)
Live     == DOMAIN engine.states

\* The live order itself, wherever it is.
LiveOrder(id) ==
  CASE id \in Resting -> engine.book.order_lookup[id]
    [] id \in Waiting -> engine.call_markets[id]
    [] id \in ForClose    -> engine.held_close[id]
    [] id \in Stops   -> ParkedOrder(engine.stop_book, id)

\* The fields of the engine and of its orders have the types of the code.
TypeOK ==
  /\ \A id \in Resting : engine.book.order_lookup[id] \in Order
  /\ \A id \in Waiting : engine.call_markets[id] \in Order
  /\ \A id \in ForClose : engine.held_close[id] \in Order
  /\ \A i \in DOMAIN engine.stop_book : engine.stop_book[i] \in Order
  /\ engine.last \in Prices \cup {0}
  /\ engine.phase \in {"opening", "continuous", "closing", "closed"}
  /\ engine.last_seen <= now

\* Every order with a report state is in exactly one place, under the key of
\* its own id, and no place holds an order without a report state: what
\* remove_live's and finish_order's expects, and the index of run_auction, rely on.
EachLiveOnce ==
  /\ Live = Resting \cup Waiting \cup ForClose \cup Stops
  /\ Cardinality(Live) = Cardinality(Resting) + Cardinality(Waiting) + Cardinality(ForClose)
                           + Len(engine.stop_book)
  /\ \A id \in Live : LiveOrder(id).id = id

\* The report state of a live order agrees with the order: what reports call
\* its leaves is the quantity that can still trade, through fills, auctions,
\* self-trade prevention and replaces.
ReportsAgreeWithOrders ==
  \A id \in Live :
    LET st == engine.states[id]
        o  == LiveOrder(id)
    IN  /\ Leaves(st) = o.quantity /\ o.quantity > 0
        /\ st.sender = o.owner /\ st.side = o.side
        /\ st.time_in_force = o.tif /\ st.display = o.display

\* The book knows what each of its orders has filled, as the comment on
\* cum_filled says; replace_order computes the new leaves from it.
FillsKnownToBook ==
  \A id \in Resting : Cum(engine.book, id) = engine.states[id].cum_qty

\* In continuous trading the book is not crossed between requests.
NotCrossedInContinuous ==
  engine.phase = "continuous" =>
    \A b, s \in Resting :
      engine.book.order_lookup[b].side = "buy" /\ engine.book.order_lookup[s].side = "sell"
        => engine.book.order_lookup[b].price < engine.book.order_lookup[s].price

\* The sum of the published changes is what the resting orders display.
FeedShowsDisplayed ==
  \A s \in Sides, p \in Prices :
    engine.book.feed[s][p] =
      SumOf(Queue(engine.book, s, p), LAMBDA o : Visible(engine.book, o))

\* Each public print follows the reports of its two sides, the buyer's and then
\* the seller's, every fill is reported to both, and prints are numbered without
\* a gap.
PrintsReported ==
  LET out    == engine.out
      prints == {i \in DOMAIN out : out[i].kind = "print"}
  IN  /\ \A i \in prints :
           /\ i > 2
           /\ out[i - 2].kind = "bought" /\ out[i - 1].kind = "sold"
           /\ \A j \in {i - 2, i - 1} : out[j].quantity = out[i].quantity
           /\ out[i].exec = engine.trade_seq - Cardinality({k \in prints : k > i})
      /\ 2 * Cardinality(prints) = Cardinality({i \in DOMAIN out : out[i].kind \in {"bought", "sold"}})

\* order_status answers for a live order with its owner and its leaves; an
\* order that is done never shows as live; and the history keeps no order that
\* is done beyond the bounded list of terminal transitions.
StatusCurrent ==
  /\ \A id \in Live :
       /\ id \in DOMAIN engine.status_history
       /\ engine.status_history[id].owner = engine.states[id].sender
       /\ engine.status_history[id].leaves = Leaves(engine.states[id])
  /\ \A id \in DOMAIN engine.status_history \ Live :
       /\ engine.status_history[id].leaves = 0
       /\ \E i \in DOMAIN engine.terminal_history :
            engine.terminal_history[i] = [id |-> id, exec |-> engine.status_history[id].exec]

\* What the reports told each owner, the public prints and the status history
\* stay true to the orders, also where auctions, expiries and several
\* boundaries in one tick produce them.
ReportsSound ==
  ReportsAgreeWithOrders /\ PrintsReported /\ StatusCurrent

\* Without auctions no stop stays parked that the last price elects: a stop
\* entered or replaced behind the market runs at once, as accept and the
\* replace of a stop do.
NoStopMissed ==
  \A i \in DOMAIN engine.stop_book :
    engine.last # 0 => ~StopFires(engine.stop_book[i], engine.last)

-----------------------------------------------------------------------------
(* Sessions.                                                               *)

\* With the schedule alone in charge, the engine is in the phase of the last
\* time it looked at the clock, however many boundaries passed at once.
PhaseFollowsSchedule == engine.phase = PhaseAt(engine.last_seen)

\* During a call subscribers know the current indicative result.
IndicativeCurrent ==
  IsCall(engine.phase) =>
    engine.last_indicative = Uncross(AuctionOrders(engine), engine.last)

\* Orders for an auction are where that auction finds them: none for the open
\* outlives the opening, orders for the close are off the book until the
\* closing call, and market orders wait only during a call.
AuctionOrdersInPlace ==
  /\ \A id \in Live : engine.states[id].time_in_force = "open" => engine.phase = "opening"
  /\ \A id \in Resting \cup Waiting :
       engine.states[id].time_in_force = "close" => engine.phase = "closing"
  /\ Waiting # {} => IsCall(engine.phase)
  /\ ForClose # {} => engine.phase \in {"opening", "continuous"}

\* The boundaries of the schedule and of an operator's call that pass in
\* (from, to].
Passed(from, to) ==
  {b \in DOMAIN Schedule : NextAt(b, from) <= to}
    \cup (IF engine.call_until \in from + 1 .. to THEN {"open"} ELSE {})

\* No step leaves parked a stop order that one of its prints elects, even when
\* later prints moved the price away again.  Closing prints elect none.
StopsElected ==
  [][\A i \in DOMAIN engine'.out :
       engine'.out[i].kind = "print" /\ "close" \notin Passed(engine.last_seen, engine'.last_seen) =>
         \A j \in DOMAIN engine.stop_book :
           StopFires(engine.stop_book[j], engine'.out[i].price) =>
             \A k \in DOMAIN engine'.stop_book :
               engine'.stop_book[k] # engine.stop_book[j]]_<<engine>>

\* A call trades only where it ends: no request matches in the middle of it.
CallsNeverMatch ==
  [][IsCall(engine.phase) /\ Passed(engine.last_seen, engine'.last_seen) = {}
       => engine'.trade_seq = engine.trade_seq]_<<engine>>

\* No order outlives its expiry, and no day order a close of the market.
ExpiryKept ==
  [][/\ \A id \in DOMAIN engine'.states :
          engine'.states[id].time_in_force = "gtd" =>
            engine'.states[id].expire > engine'.last_seen
     /\ \A id \in DOMAIN engine.states \cap DOMAIN engine'.states :
          /\ engine.states[id].time_in_force = "day"
          /\ engine.states[id].arrival = engine'.states[id].arrival
          => "close" \notin Passed(engine.last_seen, engine'.last_seen)]_<<engine>>

\* The engine after looking at the clock at each of `times`.
Ticked(times) == FoldLeft(Advance, engine, times)

\* What the clock does to the engine does not depend on when the engine looks
\* at it: stopping at any instant in between changes nothing, so replaying the
\* recorded inputs with their times gives the same engine.
TicksCompose ==
  \A t \in engine.last_seen + 1 .. now - 1 : Ticked(<<t, now>>) = Ticked(<<now>>)

\* The call that an operator started ends when its time has come.
OperatorCallEnds == engine.call_until # 0 => engine.call_until > engine.last_seen

-----------------------------------------------------------------------------
(* Statements of the documentation.                                        *)

\* README: without a full schedule AT_CLOSE orders are rejected.
AtCloseNeedsSchedule ==
  ~Full => \A id \in Live : engine.states[id].time_in_force # "close"

\* README: AT_CLOSE orders are off the book in Continuous and OpeningCall.
AtCloseOffBook ==
  engine.phase \in {"continuous", "opening"} =>
    \A id \in Resting \cup Waiting : engine.states[id].time_in_force # "close"

\* README: what an IOC order cannot fill is cancelled, it does not rest.
ImmediateNeverRests ==
  \A id \in Resting : engine.book.order_lookup[id].tif \notin {"ioc", "fok"}
=============================================================================
