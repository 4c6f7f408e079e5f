---------------------------- MODULE MCMatching ----------------------------
EXTENDS Matching, TLC

CONSTANTS alice, bob

IdSymmetry == Permutations(Ids)

Plain(side, price, quantity, owner) ==
  [NoOrder EXCEPT !.side = side, !.price = price, !.quantity = quantity,
                  !.owner = owner]

MCNewOrders ==
  {Plain("sell", 1, 1, alice), Plain("sell", 2, 2, bob),
   [Plain("sell", 1, 3, bob) EXCEPT !.display = 1],
   Plain("buy", 1, 2, bob), Plain("buy", 2, 3, alice),
   [Plain("buy", 2, 4, alice) EXCEPT !.display = 2, !.stp = "decrement"],
   [Plain("buy", 1, 2, alice) EXCEPT !.stp = "oldest"],
   [Plain("buy", 2, 2, bob) EXCEPT !.stp = "newest"],
   [Plain("buy", 2, 3, bob) EXCEPT !.stp = "both", !.tif = "ioc"],
   [Plain("buy", 2, 3, alice) EXCEPT !.stp = "decrement", !.tif = "ioc"],
   [Plain("buy", 2, 3, alice) EXCEPT !.stp = "newest", !.tif = "fok"],
   [Plain("sell", 0, 3, alice) EXCEPT !.type = "market"],
   [Plain("sell", 1, 2, alice) EXCEPT !.group = "desk"],
   [Plain("buy", 1, 3, bob) EXCEPT !.group = "desk", !.stp = "decrement", !.display = 1]}

MCChanges ==
  {[price |-> 2, quantity |-> 0, display |-> -1, owner |-> alice],
   [price |-> 0, quantity |-> 2, display |-> -1, owner |-> bob],
   [price |-> 1, quantity |-> 3, display |-> 1, owner |-> bob]}
=============================================================================
