------------------------------- MODULE Auction -------------------------------
(***************************************************************************)
(* The single-price auction (fxp_core/src/engine/auction.rs): uncross finds *)
(* the clearing price of a set of orders, allocate pairs buyers with       *)
(* sellers at that price.  An auction order has a limit, 0 for a market    *)
(* order; a reference price of 0 stands for None.                          *)
(***************************************************************************)
EXTENDS Integers, Sequences, FiniteSets

LOCAL INSTANCE SequencesExt
LOCAL INSTANCE FiniteSetsExt

Least(m, n) == IF m < n THEN m ELSE n
Distance(m, n) == IF m < n THEN n - m ELSE m - n

\* Total quantity of a set of orders with distinct ids.
Total(orders) == FoldSet(LAMBDA o, n : o.quantity + n, 0, orders)
OnSide(orders, side) == {o \in orders : o.side = side}

\* One candidate for every limit price, lowest first: going up, the sellers at
\* a price join before it is considered and the buyers at it leave after.
Candidates(orders) ==
  LET levels == SetToSortSeq({o.limit : o \in orders} \ {0}, <)
      limits(side, p) == {o \in OnSide(orders, side) : o.limit = p}
      step(acc, p) ==
        LET sells == acc.sells + Total(limits("sell", p))
        IN  [buys  |-> acc.buys - Total(limits("buy", p)),
             sells |-> sells,
             found |-> Append(acc.found, [price |-> p, volume |-> Least(acc.buys, sells),
                                          imbalance |-> acc.buys - sells])]
  IN  FoldLeft(step, [buys  |-> Total(OnSide(orders, "buy")),
                      sells |-> Total(limits("sell", 0)), found |-> << >>], levels).found

\* The candidates with the least `measure`, in their order.
Retain(found, measure(_)) ==
  SelectSeq(found, LAMBDA r : \A i \in DOMAIN found : measure(r) <= measure(found[i]))

\* Mutant of Select: the reference price decides before the imbalance.
SelectReferenceFirst(found, reference) ==
  LET most    == Retain(found, LAMBDA r : -r.volume)
      closest == IF reference = 0 THEN most
                 ELSE Retain(most, LAMBDA r : Distance(r.price, reference))
      even    == Retain(closest, LAMBDA r : Distance(r.imbalance, 0))
  IN  IF \A i \in DOMAIN even : even[i].imbalance > 0
      THEN even[Len(even)] ELSE even[1]

\* Most volume, then least imbalance, then closest to the reference price; of
\* what is left the highest price if buyers are left over at all of them, else
\* the lowest.
Select(found, reference) ==
  LET most    == Retain(found, LAMBDA r : -r.volume)
      even    == Retain(most, LAMBDA r : Distance(r.imbalance, 0))
      closest == IF reference = 0 THEN even
                 ELSE Retain(even, LAMBDA r : Distance(r.price, reference))
  IN  IF \A i \in DOMAIN closest : closest[i].imbalance > 0
      THEN closest[Len(closest)] ELSE closest[1]

Uncross(orders, reference) ==
  LET found == Candidates(orders)
      buys  == Total(OnSide(orders, "buy"))
      sells == Total(OnSide(orders, "sell"))
      none  == [price |-> 0, volume |-> 0, imbalance |-> buys - sells]
  IN  CASE found = << >> /\ reference # 0 /\ Least(buys, sells) > 0
             -> [none EXCEPT !.price = reference, !.volume = Least(buys, sells)]
        [] found # << >> /\ \E i \in DOMAIN found : found[i].volume > 0
             -> Select(found, reference)
        [] OTHER -> none

-----------------------------------------------------------------------------
(* Allocation.                                                             *)

\* Orders that trade at `price`: market orders, and limits no worse than it.
Eligible(orders, side, price) ==
  {o \in OnSide(orders, side) :
     /\ o.quantity > 0
     /\ \/ o.limit = 0
        \/ IF side = "buy" THEN o.limit >= price ELSE o.limit <= price}

\* Mutant of Precedes: price is compared before anything else, so that market
\* orders, whose limit is 0, come last among buyers.
PrecedesByLimit(o, r) ==
  \/ o.limit # r.limit /\ IF o.side = "buy" THEN o.limit > r.limit ELSE o.limit < r.limit
  \/ o.limit = r.limit /\ o.seq < r.seq

\* Market orders first, then better limits, then earlier arrivals.
Precedes(o, r) ==
  \/ o.limit = 0 /\ r.limit # 0
  \/ /\ o.limit # 0 /\ r.limit # 0 /\ o.limit # r.limit
     /\ IF o.side = "buy" THEN o.limit > r.limit ELSE o.limit < r.limit
  \/ o.limit = r.limit /\ o.seq < r.seq

\* The loop of allocate over the two queues; the head of a queue holds what
\* its order has left.
RECURSIVE Pair(_, _, _, _)
Pair(buys, sells, remaining, price) ==
  IF remaining = 0 \/ buys = << >> \/ sells = << >>
  THEN << >>
  ELSE LET b     == Head(buys)
           s     == Head(sells)
           q     == Least(Least(b.quantity, s.quantity), remaining)
           use(queue) == IF Head(queue).quantity = q THEN Tail(queue)
                         ELSE [queue EXCEPT ![1].quantity = @ - q]
       IN  <<[buy |-> b.id, sell |-> s.id, quantity |-> q, price |-> price]>>
             \o Pair(use(buys), use(sells), remaining - q, price)

Allocate(orders, result) ==
  LET queue(side) == SetToSortSeq(Eligible(orders, side, result.price), Precedes)
  IN  Pair(queue("buy"), queue("sell"), result.volume, result.price)
=============================================================================
