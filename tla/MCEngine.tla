------------------------------ MODULE MCEngine ------------------------------
(***************************************************************************)
(* Instances of Engine for model checking.  Behind the gateway, which puts *)
(* the trader into every id (transport/ownership.go), an id has one owner; *)
(* clients of the core itself may share ids.                               *)
(***************************************************************************)
EXTENDS Engine, TLC

CONSTANTS alice, bob, a1, a2

\* alice names a1 and a2, bob the others.
OwnIds == [id \in Ids |-> IF id \in {a1, a2} THEN {alice} ELSE {bob}]
OwnSymmetry == Permutations({a1, a2}) \cup Permutations(Ids \ {a1, a2})

\* Any trader names any id.
SharedIds == [id \in Ids |-> Traders]
SharedSymmetry == Permutations(Ids) \cup Permutations(Traders)

\* The request fills in the id and the owner.
Plain(side, price, quantity) ==
  [order |-> [id |-> NoId, owner |-> NoId, group |-> "", side |-> side, price |-> price,
              stop |-> 0, quantity |-> quantity, display |-> 0, type |-> "limit",
              tif |-> "gtc", stp |-> ""],
   expire |-> 0]

Market(side, quantity) == [Plain(side, 0, quantity) EXCEPT !.order.type = "market"]
StopOrder(side, stop, quantity) ==
  [Plain(side, 0, quantity) EXCEPT !.order.type = "stop", !.order.stop = stop]
StopLimit(side, stop, price, quantity) ==
  [Plain(side, price, quantity) EXCEPT !.order.type = "stoplimit", !.order.stop = stop]

Change(price, stop, quantity, display, tif) ==
  [owner |-> NoId, price |-> price, stop |-> stop, quantity |-> quantity,
   display |-> display, tif |-> tif]

\* Continuous trading without a schedule.
NoSchedule == << >>

ContinuousOrders ==
  {Plain("sell", 1, 1), Plain("buy", 1, 2), Market("buy", 3),
   [Plain("sell", 2, 3) EXCEPT !.order.display = 1],
   [Plain("buy", 2, 3) EXCEPT !.order.stp = "newest", !.order.tif = "ioc"],
   [Plain("buy", 2, 2) EXCEPT !.order.stp = "decrement"],
   [StopOrder("buy", 2, 1) EXCEPT !.order.stp = "decrement"], StopOrder("sell", 1, 1),
   StopLimit("buy", 1, 2, 2)}

ContinuousChanges ==
  {Change(2, 1, 2, -1, "gtc")}

\* A full schedule: one instant for each phase of a day of four.
FullSchedule ==
  [b \in Boundaries |->
     CASE b = "open_call" -> 0 [] b = "open" -> 1 [] b = "close_call" -> 2 [] b = "close" -> 3]

Tif(n, tif) == [n EXCEPT !.order.tif = tif]
Until(n, expire) == [Tif(n, "gtd") EXCEPT !.expire = expire]

SessionOrders ==
  {Until(Plain("sell", 1, 2), DayLength), Tif(Plain("buy", 2, 1), "day"),
   Tif(Market("buy", 2), "day"), Tif(Plain("buy", 2, 3), "open"),
   Tif(Plain("buy", 1, 1), "close"), Tif(Market("buy", 1), "close"), StopOrder("sell", 1, 1),
   [Tif(Plain("buy", 1, 1), "close") EXCEPT !.order.stp = "oldest"]}

SessionChanges == {Change(1, 0, 3, -1, ""), Change(0, 2, 0, -1, "close")}

\* A schedule with a close only, and calls that an operator starts.
CloseSchedule == [b \in {"close"} |-> 3]

CallOrders ==
  {Plain("sell", 1, 2), Tif(Plain("buy", 2, 1), "day"), Tif(Market("buy", 1), "day"),
   Tif(Plain("buy", 2, 3), "open"), StopOrder("sell", 1, 1)}

CallChanges == {Change(1, 0, 3, -1, "")}

\* Instances that contradict the documentation.
IcebergOrders == {[Plain("sell", 1, 3) EXCEPT !.order.display = 1], Plain("buy", 1, 1)}
CloseOrders == {Tif(Plain("buy", 1, 1), "close")}
ReplaceOrders == {Plain("sell", 2, 1), Plain("buy", 1, 1)}
FilledOrders == {Plain("sell", 1, 2), Plain("buy", 1, 1)}
ToIoc == {Change(0, 0, 0, -1, "ioc")}
ToClose == {Change(0, 0, 0, -1, "close")}
=============================================================================
