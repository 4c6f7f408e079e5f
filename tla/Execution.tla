------------------------------ MODULE Execution ------------------------------
(***************************************************************************)
(* Executing an order to the end (fxp_core/src/order_book/stops.rs): the   *)
(* matching loops of OrderBook run until they stop, the parked stop orders *)
(* and the cascade of stops that prints trigger.                           *)
(*                                                                         *)
(* An execution x carries the book, the parked stops, the last trade       *)
(* price (0 for none), the fills and the prevented self-matches so far in  *)
(* two lists, and the orders whose remainder is cancelled.  x.log is what  *)
(* the run of a matching loop at work has done.                            *)
(***************************************************************************)
EXTENDS OrderBook

LOCAL INSTANCE SequencesExt

Execution(book, stops, last) ==
  [book |-> book, stop_book |-> stops, last |-> last, log |-> << >>,
   fills |-> << >>, stp |-> << >>, cancels |-> << >>,
   order |-> << >>, left |-> 0, stopped |-> 0]

RECURSIVE MatchAll(_)
MatchAll(x) == IF Crossed(x.book) THEN MatchAll(MatchStep(x)) ELSE x

RECURSIVE SweepAll(_)
SweepAll(x) == IF Sweeping(x) THEN SweepAll(SweepStep(x)) ELSE x

IsFill(event) == event.kind = "fill"

\* The prevented self-matches of a run of a matching loop, each with
\* before_fill, the number of the run's own fills ahead of it.
Prevented(log) ==
  LET at    == SetToSortSeq({i \in DOMAIN log : ~IsFill(log[i])}, <)
      ahead(i) == Len(SelectSeq(SubSeq(log, 1, i), IsFill))
  IN  [k \in DOMAIN at |-> [event |-> log[at[k]], before_fill |-> ahead(at[k])]]

\* Mutant of AbsorbStp: the fills of earlier runs are not counted.
AbsorbStpUnbased(x) ==
  [x EXCEPT !.fills = @ \o SelectSeq(x.log, IsFill),
            !.stp = @ \o Prevented(x.log),
            !.log = << >>]

\* The result of a run joins the execution: before_fill now counts from the
\* first fill of the execution.
AbsorbStp(x) ==
  LET base   == Len(x.fills)
      events == Prevented(x.log)
  IN  [x EXCEPT !.fills = @ \o SelectSeq(x.log, IsFill),
                !.stp = @ \o [k \in DOMAIN events |->
                                [events[k] EXCEPT !.before_fill = @ + base]],
                !.log = << >>]

MatchInto(x) == AbsorbStp(MatchAll(x))

\* A triggered stop executes as a market order, a stop limit as a limit order.
Converted(o) ==
  [o EXCEPT !.type = CASE @ = "stop" -> "market" [] @ = "stoplimit" -> "limit" [] OTHER -> @]

CancelRest(x) ==
  IF x.left > 0 /\ x.stopped = 0 THEN [x EXCEPT !.cancels = Append(@, x.order.id)] ELSE x

\* execute_into: a fill-or-kill order that may not trade leaves an event or a
\* cancel; a sweep leaves a cancel for its remainder; any other limit rests.
ExecuteInto(x, stop) ==
  LET o     == Converted(stop)
      check == FokCheck(x.book, o)
  IN  CASE o.type = "limit" /\ o.tif = "fok" /\ check.fill = 0 ->
             IF check.blocker = NoId
             THEN [x EXCEPT !.cancels = Append(@, o.id)]
             ELSE AbsorbStp([x EXCEPT !.log = CutEvents(o.id, check.blocker, o.quantity, 0)])
        [] o.type = "market" \/ o.tif \in {"ioc", "fok"} ->
             CancelRest(AbsorbStp(
               SweepAll([x EXCEPT !.order = o, !.left = o.quantity, !.stopped = 0])))
        [] OTHER -> MatchInto([x EXCEPT !.book = AddOrder(@, o)])

\* The order rests before it matches, whatever is left of it afterwards.
Rests(o) == Converted(o).type = "limit" /\ o.tif \notin {"ioc", "fok"}

-----------------------------------------------------------------------------
(* Parked stops.                                                           *)

StopTypes == {"stop", "stoplimit"}

StopFires(o, price) == IF o.side = "buy" THEN price >= o.stop ELSE price <= o.stop

Parked(stops) == {stops[i].id : i \in DOMAIN stops}
ParkedOrder(stops, id) == stops[CHOOSE i \in DOMAIN stops : stops[i].id = id]
Unpark(stops, id) == SelectSeq(stops, LAMBDA o : o.id # id)

\* The stops that a print triggers, farthest from the print first, then by
\* arrival.
Triggered(stops, price) ==
  LET gap(i) == IF stops[i].stop < price THEN price - stops[i].stop ELSE stops[i].stop - price
      firing == {i \in DOMAIN stops : StopFires(stops[i], price)}
      order  == SetToSortSeq(firing, LAMBDA i, j : gap(i) > gap(j) \/ (gap(i) = gap(j) /\ i < j))
  IN  [k \in DOMAIN order |-> stops[order[k]]]

\* Mutant of Untriggered: a stop that fires stays parked.
UntriggeredAll(stops, price) == stops

Untriggered(stops, price) == SelectSeq(stops, LAMBDA o : ~StopFires(o, price))

\* Mutant of ScanPrints: only the last print of a batch triggers stops.
ScanLastPrint(x, scanned, queue) ==
  IF scanned = Len(x.fills)
  THEN [x |-> x, scanned |-> scanned, queue |-> queue]
  ELSE LET price == x.fills[Len(x.fills)].price
       IN  [x |-> [x EXCEPT !.last = price, !.stop_book = Untriggered(@, price)],
            scanned |-> Len(x.fills), queue |-> queue \o Triggered(x.stop_book, price)]

\* Every print after `scanned` sets the last trade price and triggers stops.
RECURSIVE ScanPrints(_, _, _)
ScanPrints(x, scanned, queue) ==
  IF scanned = Len(x.fills)
  THEN [x |-> x, scanned |-> scanned, queue |-> queue]
  ELSE LET price == x.fills[scanned + 1].price
       IN  ScanPrints([x EXCEPT !.last = price, !.stop_book = Untriggered(@, price)],
                      scanned + 1, queue \o Triggered(x.stop_book, price))

\* run_stop_cascade: triggered stops execute first in, first out, and their
\* prints trigger more.
RECURSIVE Cascade(_)
Cascade(s) ==
  IF s.queue = << >>
  THEN s.x
  ELSE Cascade(ScanPrints(ExecuteInto(s.x, Head(s.queue)), s.scanned, Tail(s.queue)))

RunStopCascade(x) == Cascade(ScanPrints(x, 0, << >>))

\* execute_into, then run_stop_cascade: the order heads the queue of the stops
\* that its prints trigger.
Execute(x, o) == Cascade([x |-> x, scanned |-> 0, queue |-> <<o>>])
=============================================================================
