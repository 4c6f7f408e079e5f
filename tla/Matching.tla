------------------------------ MODULE Matching ------------------------------
(***************************************************************************)
(* Continuous matching of one symbol: what Engine::process asks of the     *)
(* order book for a new order, a cancel and a cancel/replace, with one     *)
(* step for every iteration of the matching loops.  No other request is    *)
(* taken while a loop runs.                                                *)
(***************************************************************************)
EXTENDS OrderBook

LOCAL INSTANCE SequencesExt

CONSTANTS
  NewOrders,   \* orders that may be entered, without their ids
  Changes,     \* changes a cancel/replace may ask for
  MaxRequests  \* bound: requests taken

VARIABLES
  run,       \* the book, the order at work and what happened to it so far
  pc,        \* "idle", "match" or "sweep"
  entered,   \* history: every order as it was entered, by its last use of an id
  requests   \* requests taken so far

vars == <<run, pc, entered, requests>>

NoOrder ==
  [id |-> NoId, owner |-> NoId, group |-> "", side |-> "buy", price |-> 0, stop |-> 0,
   quantity |-> 0, display |-> 0, type |-> "limit", tif |-> "gtc", stp |-> "none"]

Init ==
  /\ run = [book |-> EmptyBook, log |-> << >>, order |-> NoOrder, left |-> 0,
            stopped |-> 0]
  /\ pc = "idle"
  /\ entered = << >>
  /\ requests = 0

\* A request is taken when the task is idle.
Request ==
  /\ pc = "idle"
  /\ requests < MaxRequests
  /\ requests' = requests + 1

\* process_aggressive sends an order that does not rest to a sweep.
Aggressive(o) == o.type = "market" \/ o.tif \in {"ioc", "fok"}

\* execute_into for a limit order that may rest: add it, then match_orders.
Rest(o) ==
  /\ Request
  /\ ~Aggressive(o)
  /\ run' = [book |-> AddOrder(run.book, o), log |-> << >>, order |-> o,
             left |-> o.quantity, stopped |-> 0]
  /\ entered' = Put(entered, o.id, o)
  /\ pc' = "match"

\* execute_market and execute_ioc, and execute_fok once its scan is passed.
Sweep(o) ==
  /\ Request
  /\ Aggressive(o)
  /\ o.type = "limit" /\ o.tif = "fok" => FokCheck(run.book, o).fill = 1
  /\ run' = [run EXCEPT !.log = << >>, !.order = o, !.left = o.quantity, !.stopped = 0]
  /\ entered' = Put(entered, o.id, o)
  /\ pc' = "sweep"

\* execute_fok refuses: too little to trade, or an own order in the way, which
\* is reported as a prevented self-match.
Kill(o) ==
  /\ Request
  /\ o.type = "limit" /\ o.tif = "fok"
  /\ FokCheck(run.book, o).fill = 0
  /\ LET blocker == FokCheck(run.book, o).blocker
     IN  run' = [run EXCEPT !.order = o, !.left = o.quantity, !.stopped = 0,
                            !.log = IF blocker = NoId THEN << >>
                                    ELSE CutEvents(o.id, blocker, o.quantity, 0)]
  /\ entered' = Put(entered, o.id, o)
  /\ UNCHANGED pc

\* An id that is not live; a live one is rejected as a duplicate.
New(o) ==
  /\ o.id \notin DOMAIN run.book.order_lookup
  /\ Rest(o) \/ Sweep(o) \/ Kill(o)

\* cancel_order_for; refused requests change nothing.
Cancel(id, owner) ==
  /\ Request
  /\ CheckOwner(run.book, id, owner) = "ok"
  /\ run' = [run EXCEPT !.book = CancelOrder(@, id), !.log = << >>, !.order = NoOrder]
  /\ UNCHANGED <<pc, entered>>

\* replace_order, then match_orders.
Replace(id, newId, c) ==
  /\ Request
  /\ ReplaceCheck(run.book, id, newId, c.quantity, c.owner) = "ok"
  /\ LET new == Replacement(run.book, id, newId, c.price, c.quantity, "", c.display)
     IN  /\ run' = [book |-> ReplaceOrder(run.book, id, new), log |-> << >>,
                    order |-> new, left |-> new.quantity, stopped |-> 0]
         /\ entered' = Put(entered, newId, new)
  /\ pc' = "match"

\* The loop of match_orders.
Match ==
  /\ pc = "match"
  /\ Crossed(run.book)
  /\ run' = MatchStep(run)
  /\ UNCHANGED <<pc, entered, requests>>

MatchDone ==
  /\ pc = "match"
  /\ ~Crossed(run.book)
  /\ pc' = "idle"
  /\ UNCHANGED <<run, entered, requests>>

\* The loop of fill_level.
SweepLevel ==
  /\ pc = "sweep"
  /\ Sweeping(run)
  /\ run' = SweepStep(run)
  /\ UNCHANGED <<pc, entered, requests>>

SweepDone ==
  /\ pc = "sweep"
  /\ ~Sweeping(run)
  /\ pc' = "idle"
  /\ UNCHANGED <<run, entered, requests>>

Next ==
  \/ \E id \in Ids :
       \/ \E n \in NewOrders : New([n EXCEPT !.id = id])
       \/ \E t \in Traders : Cancel(id, t)
       \/ \E newId \in Ids, c \in Changes : Replace(id, newId, c)
  \/ Match \/ MatchDone \/ SweepLevel \/ SweepDone

Spec == Init /\ [][Next]_vars

-----------------------------------------------------------------------------
(* Properties.                                                             *)

TypeOK ==
  /\ pc \in {"idle", "match", "sweep"}
  /\ run.left \in Nat
  /\ run.stopped \in {0, 1}
  /\ \A s \in Sides : \A p \in DOMAIN run.book.orders[s] :
       p \in Prices /\ run.book.orders[s][p] \in Seq(Order)
  /\ \A id \in DOMAIN run.book.order_lookup : run.book.order_lookup[id] \in Order

Live(b) == DOMAIN b.order_lookup

\* The orders waiting in the queues of a book, with their places.
Places(b) ==
  {<<s, p, i>> \in Sides \X Prices \X (1 .. Cardinality(Ids)) : i \in DOMAIN Queue(b, s, p)}
At(b, place) == Queue(b, place[1], place[2])[place[3]]

\* The levels, order_lookup, arrival, cum_filled and displayed describe the
\* same orders after every step of every loop: each live order waits once, in
\* the level of its side and price, with the quantity order_lookup knows; no
\* level is empty; each order shows a slice of at least 1 and at most what is
\* left, all of it unless it is an iceberg.
BookConsistent ==
  LET b == run.book IN
  /\ DOMAIN b.arrival = Live(b) /\ DOMAIN b.displayed = Live(b)
  /\ DOMAIN b.cum_filled \subseteq Live(b)
  /\ \A s \in Sides : \A p \in DOMAIN b.orders[s] : b.orders[s][p] # << >>
  /\ {At(b, l).id : l \in Places(b)} = Live(b)
  /\ Cardinality(Places(b)) = Cardinality(Live(b))
  /\ \A l \in Places(b) :
       LET o == At(b, l) IN
       /\ o.side = l[1] /\ o.price = l[2]
       /\ o = b.order_lookup[o.id]
       /\ b.displayed[o.id] \in 1 .. o.quantity
       /\ o.display = 0 => b.displayed[o.id] = o.quantity
       /\ o.display > 0 => b.displayed[o.id] <= o.display

\* Time priority: every queue is in the order of arrival, replenished slices
\* counting from their refresh.
QueuesByArrival ==
  \A s \in Sides, p \in Prices :
    LET q == Queue(run.book, s, p)
    IN  \A i, j \in DOMAIN q :
          i < j => run.book.arrival[q[i].id] < run.book.arrival[q[j].id]

Fills(log) == {i \in DOMAIN log : log[i].kind = "fill"}

\* The other order of a fill of the order at work.
Passive(f) == entered[IF run.order.side = "buy" THEN f.sell ELSE f.buy]

\* An order with a self-trade prevention mode never trades with an order of
\* its own group or owner.
NoSelfTrade ==
  run.order.stp # "none" =>
    \A i \in Fills(run.log) : StpKey(Passive(run.log[i])) # StpKey(run.order)

Traded(log) ==
  SumOf(log, LAMBDA e : IF e.kind = "fill" THEN e.quantity ELSE 0)

\* A fill-or-kill order trades all of its quantity or leaves the book alone.
FokAllOrNothing ==
  pc = "idle" /\ run.order.tif = "fok" /\ run.order.type = "limit" =>
    \/ \A i \in DOMAIN run.log : run.log[i].kind = "stp" /\ run.log[i].id = run.order.id
    \/ Traded(run.log) = run.order.quantity /\ Fills(run.log) = DOMAIN run.log

\* Price-time priority: every step of the two matching loops, on levels,
\* queues and lookups, is the step that PriceTime prescribes for a plain set
\* of live orders.
Promise == INSTANCE PriceTime WITH
  live    <- [id \in Live(run.book) |->
                [order |-> run.book.order_lookup[id], shown |-> run.book.displayed[id],
                 at |-> run.book.arrival[id]]],
  now     <- run.book.next_arrival,
  order   <- run.order,
  left    <- run.left,
  stopped <- run.stopped,
  log     <- run.log,
  state   <- pc

PriceTimePriority == Promise!Spec

\* All that waits in the book and in the sweeping order.
Waiting(x) ==
  (IF x.stopped = 1 THEN 0 ELSE x.left)
    + SumOf(SetToSeq(Sides), LAMBDA s : Held(x.book, s, DOMAIN x.book.orders[s]))

\* Every iteration of a matching loop takes at least 1 from what waits, so the
\* loops end: refreshed slices and prevented self-matches never keep them going.
LoopsProgress ==
  /\ pc = "match" /\ Crossed(run.book) => Waiting(MatchStep(run)) < Waiting(run)
  /\ pc = "sweep" /\ Sweeping(run)     => Waiting(SweepStep(run)) < Waiting(run)
=============================================================================
