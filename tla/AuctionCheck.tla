---------------------------- MODULE AuctionCheck ----------------------------
(***************************************************************************)
(* The auction algorithm against what an auction promises, for every book  *)
(* of up to MaxOrders orders.  Orders are collected one by one, as in a    *)
(* call, and uncrossed after each.                                         *)
(***************************************************************************)
EXTENDS Auction

CONSTANTS
  Limits,     \* limit prices, 0 for a market order
  Quantities, \* order quantities
  References, \* reference prices, 0 for none
  MaxOrders   \* bound: orders collected

VARIABLES orders, reference, result, fills

vars == <<orders, reference, result, fills>>

Init ==
  /\ orders = {}
  /\ reference \in References
  /\ result = Uncross({}, reference)
  /\ fills = << >>

\* An order arrives after those already collected.
Collect(side, limit, quantity) ==
  LET n == Cardinality(orders) + 1
      o == [id |-> n, seq |-> n, side |-> side, limit |-> limit, quantity |-> quantity]
  IN  /\ n <= MaxOrders
      /\ orders' = orders \cup {o}
      /\ result' = Uncross(orders', reference)
      /\ fills' = Allocate(orders', result')
      /\ UNCHANGED reference

Next ==
  \E side \in {"buy", "sell"}, limit \in Limits, quantity \in Quantities :
    Collect(side, limit, quantity)

Spec == Init /\ [][Next]_vars

-----------------------------------------------------------------------------
(* The reference definition of an auction.                                 *)

\* What may trade at a price, and what is left over there.
Volume(p) ==
  Least(Total(Eligible(orders, "buy", p)), Total(Eligible(orders, "sell", p)))
Imbalance(p) == Total(Eligible(orders, "buy", p)) - Total(Eligible(orders, "sell", p))

LimitPrices == Limits \ {0}
HasLimits == \E o \in orders : o.limit # 0

\* Limits of orders that no rule on volume, imbalance and distance from the
\* reference price tells from the clearing price.
Tied ==
  {p \in {o.limit : o \in orders} \ {0} :
     /\ Volume(p) = Volume(result.price)
     /\ Distance(Imbalance(p), 0) = Distance(Imbalance(result.price), 0)
     /\ reference # 0 => Distance(p, reference) = Distance(result.price, reference)}

\* uncross: no price whatsoever, limit of an order or not, trades more than the
\* clearing price; no limit of an order that trades as much leaves less over, and
\* of those that leave as much none is nearer to the reference; what is still
\* tied is settled by the pressure: the highest price where buyers are left over
\* at all of them, else the lowest.  Volume and imbalance are those of the
\* orders at that price.
BestPrice ==
  /\ HasLimits => \A p \in LimitPrices : Volume(p) <= result.volume
  /\ result.volume > 0 /\ HasLimits =>
       /\ result.price \in {o.limit : o \in orders}
       /\ result.volume = Volume(result.price)
       /\ result.imbalance = Imbalance(result.price)
       /\ \A o \in orders :
            o.limit # 0 /\ Volume(o.limit) = result.volume =>
              /\ Distance(Imbalance(o.limit), 0) >= Distance(result.imbalance, 0)
              /\ reference # 0
                   /\ Distance(Imbalance(o.limit), 0) = Distance(result.imbalance, 0) =>
                   Distance(o.limit, reference) >= Distance(result.price, reference)
       /\ \A p \in Tied :
            IF \A q \in Tied : Imbalance(q) > 0 THEN p <= result.price ELSE p >= result.price

\* What an order trades.
Filled(o) ==
  Total({[id |-> i, quantity |-> fills[i].quantity] :
           i \in {j \in DOMAIN fills : o.id \in {fills[j].buy, fills[j].sell}}})

\* Market orders have priority over limits, a higher bid or a lower ask over the
\* others, and the earlier of two orders at the same price.
Worth(o) == IF o.side = "buy" THEN o.limit ELSE -o.limit
HasPriority(r, o) ==
  CASE r.limit = 0 \/ o.limit = 0 -> r.limit = 0 /\ (o.limit # 0 \/ r.seq < o.seq)
    [] OTHER -> Worth(r) > Worth(o) \/ (Worth(r) = Worth(o) /\ r.seq < o.seq)

\* allocate: the fills add up to the volume, nobody trades more than the order
\* or worse than its limit, and an order trades only if every order of its side
\* with priority over it is filled.
FairAllocation ==
  /\ Total({[id |-> i, quantity |-> fills[i].quantity] : i \in DOMAIN fills}) = result.volume
  /\ \A o \in orders :
       /\ Filled(o) <= o.quantity
       /\ Filled(o) > 0 => o \in Eligible(orders, o.side, result.price)
       /\ Filled(o) > 0 =>
            \A r \in orders :
              r.side = o.side /\ HasPriority(r, o) => Filled(r) = r.quantity
=============================================================================
