----------------------------- MODULE PriceTime -----------------------------
(***************************************************************************)
(* What the order book promises, without queues, levels or lookups: a set  *)
(* of live orders, each showing a slice since a moment of its own, and one *)
(* order at work that always meets the live order of the other side with   *)
(* the best price and, among those, the earliest moment.  A slice that is  *)
(* used up is followed by a fresh one that counts from now.                *)
(***************************************************************************)
EXTENDS OrderBook

VARIABLES
  live,     \* id -> the order, the slice it shows and since when
  now,      \* moments so far
  order,    \* the order at work
  left,     \* what a sweeping order has left
  stopped,  \* 1 once self-trade prevention cancelled the sweeping order
  log,      \* what happened to the order at work
  state     \* "idle", "match" or "sweep"

vars == <<live, now, order, left, stopped, log, state>>

Slot(o, at) ==
  [order |-> o, at |-> at,
   shown |-> IF o.display = 0 THEN o.quantity ELSE Lesser(o.display, o.quantity)]

Init ==
  /\ live = << >>
  /\ now = 0
  /\ log = << >>
  /\ left = 0
  /\ stopped = 0
  /\ state = "idle"

\* The orders that `o` may trade with, and the first of them: best price, then
\* earliest moment.
Makers(o) ==
  {m \in DOMAIN live :
     /\ live[m].order.side = Opposite(o.side)
     /\ o.type = "market" \/ Better(o.side, o.price, live[m].order.price)}
Ahead(m, r) ==
  LET pm == live[m].order.price
      pr == live[r].order.price
  IN  \/ pm # pr /\ Better(live[m].order.side, pm, pr)
      \/ pm = pr /\ live[m].at < live[r].at
First(o) == CHOOSE m \in Makers(o) : \A r \in Makers(o) \ {m} : Ahead(m, r)

\* The order at work has something left to trade.
Active ==
  \/ state = "match" /\ order.id \in DOMAIN live
  \/ state = "sweep" /\ left > 0 /\ stopped = 0

-----------------------------------------------------------------------------
\* Requests.  The order of a request is the next order at work.
Join(o) ==
  /\ state = "idle"
  /\ o.id \notin DOMAIN live
  /\ live' = Put(live, o.id, Slot(o, now + 1))
  /\ now' = now + 1
  /\ left' = o.quantity /\ stopped' = 0 /\ log' = << >>
  /\ state' = "match"

Replace(id, new) ==
  /\ state = "idle"
  /\ id \in DOMAIN live /\ new.id \notin DOMAIN live \ {id}
  /\ new.owner = live[id].order.owner /\ new.side = live[id].order.side
  /\ new.stp = live[id].order.stp /\ new.group = live[id].order.group
  /\ new.quantity > 0
  /\ live' = Put(Drop(live, id), new.id, Slot(new, now + 1))
  /\ now' = now + 1
  /\ left' = new.quantity /\ stopped' = 0 /\ log' = << >>
  /\ state' = "match"

Sweep(o) ==
  /\ state = "idle"
  /\ o.id \notin DOMAIN live
  /\ left' = o.quantity /\ stopped' = 0 /\ log' = << >>
  /\ state' = "sweep"
  /\ UNCHANGED <<live, now>>

\* A fill-or-kill order may be refused, because of too little or an own order.
Refuse(o) ==
  /\ state = "idle"
  /\ o.id \notin DOMAIN live
  /\ o.tif = "fok"
  /\ left' = o.quantity /\ stopped' = 0
  /\ \/ log' = << >>
     \/ \E m \in Makers(o) : /\ SelfMatch(o, live[m].order)
                             /\ log' = CutEvents(o.id, m, o.quantity, 0)
  /\ UNCHANGED <<live, now, state>>

Leave(id) ==
  /\ state = "idle"
  /\ id \in DOMAIN live
  /\ live' = Drop(live, id)
  /\ log' = << >>
  /\ order'.id \notin Ids
  /\ UNCHANGED <<now, left, stopped, state>>

-----------------------------------------------------------------------------
\* A live order after `traded` of its slice has traded; a fresh slice counts
\* from moment `at`.
After(slot, traded, at) ==
  LET o == [slot.order EXCEPT !.quantity = @ - traded]
  IN  IF slot.shown > traded
      THEN [slot EXCEPT !.order = o, !.shown = @ - traded]
      ELSE Slot(o, at)

\* The slice is used up but the order is not.
Refreshes(slot, traded) == slot.shown = traded /\ slot.order.quantity > traded

\* A live order cut to `keep` without a trade, its reserve first.
CutTo(slot, keep) ==
  [slot EXCEPT !.order.quantity = keep, !.shown = Lesser(@, keep)]

\* The live orders with a nonzero quantity.
Alive(slots) ==
  [m \in {i \in DOMAIN slots : slots[i].order.quantity > 0} |-> slots[m]]

Trade ==
  /\ Active /\ Makers(order) # {}
  /\ LET maker  == First(order)
         resting == state = "match"
         shown  == IF resting THEN live[order.id].shown ELSE left
         traded == Lesser(live[maker].shown, shown)
         fresh  == {i \in {maker} \cup (IF resting THEN {order.id} ELSE {}) :
                      Refreshes(live[i], traded)}
         moment(i) == IF live[i].order.side = "sell" THEN now + Cardinality(fresh) ELSE now + 1
     IN  /\ ~SelfMatch(order, live[maker].order)
         /\ live' = Alive([i \in DOMAIN live |->
                      IF i = maker \/ (resting /\ i = order.id)
                      THEN After(live[i], traded, moment(i)) ELSE live[i]])
         /\ now' = now + Cardinality(fresh)
         /\ left' = IF resting THEN left ELSE left - traded
         /\ log' = Append(log,
              [kind |-> "fill",
               buy  |-> IF order.side = "buy" THEN order.id ELSE maker,
               sell |-> IF order.side = "buy" THEN maker ELSE order.id,
               price |-> live[maker].order.price, quantity |-> traded,
               aggressor |-> order.side])
  /\ UNCHANGED <<order, stopped, state>>

Prevent ==
  /\ Active /\ Makers(order) # {}
  /\ LET maker   == First(order)
         resting == state = "match"
         mine    == IF resting THEN live[order.id].order.quantity ELSE left
         theirs  == live[maker].order.quantity
         keep    == NewerLeft(order.stp, mine, theirs)
         give    == OlderLeft(order.stp, mine, theirs)
     IN  /\ SelfMatch(order, live[maker].order)
         /\ live' = Alive([i \in DOMAIN live |->
                      CASE i = maker                  -> CutTo(live[i], give)
                        [] resting /\ i = order.id    -> CutTo(live[i], keep)
                        [] OTHER                      -> live[i]])
         /\ left' = IF resting \/ keep = 0 THEN left ELSE keep
         /\ stopped' = IF ~resting /\ keep = 0 THEN 1 ELSE stopped
         /\ log' = log \o CutEvents(maker, order.id, theirs, give)
                       \o CutEvents(order.id, maker, mine, keep)
  /\ UNCHANGED <<now, order, state>>

\* The order at work is used up, or meets nobody any more.
Finish ==
  /\ state # "idle"
  /\ ~Active \/ Makers(order) = {}
  /\ state' = "idle"
  /\ UNCHANGED <<live, now, order, left, stopped, log>>

Next ==
  \/ order' \in Order /\ (Join(order') \/ Sweep(order') \/ Refuse(order'))
  \/ order' \in Order /\ \E id \in Ids : Replace(id, order')
  \/ \E id \in Ids : Leave(id)
  \/ Trade \/ Prevent \/ Finish

Spec == Init /\ [][Next]_vars
=============================================================================
