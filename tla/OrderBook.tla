------------------------------ MODULE OrderBook ------------------------------
(***************************************************************************)
(* The limit order book of one symbol (fxp_core/src/order_book): its data  *)
(* and every operation on it, as functions from books to books.  The two   *)
(* matching loops are given by one iteration each, MatchStep for           *)
(* match_orders and SweepStep for fill_level; the modules Matching and     *)
(* Engine iterate them.                                                    *)
(*                                                                         *)
(* The book keeps every resting order twice, in the queue of its price     *)
(* level and in order_lookup, and three more maps beside them.  They are   *)
(* kept apart here because their agreement is what the code must maintain. *)
(* The field `feed` is the level book of a subscriber that has applied     *)
(* every market data change published since the book was empty.            *)
(***************************************************************************)
EXTENDS Integers, Sequences, FiniteSets

LOCAL INSTANCE SequencesExt

CONSTANTS
  Ids,      \* order ids
  Traders,  \* authenticated traders
  Groups,   \* self-trade prevention groups
  Prices,   \* price grid: positive integers
  NoId      \* no order added yet

ASSUME OrderBookAssumption ==
  /\ Prices \subseteq Nat \ {0}
  /\ NoId \notin Ids
  /\ "" \notin Groups

Sides == {"buy", "sell"}
Types == {"market", "limit", "stop", "stoplimit"}
Tifs == {"day", "gtc", "ioc", "fok", "open", "close", "gtd"}
StpModes == {"none", "newest", "oldest", "both", "decrement"}

\* quantity is what is left to trade; display 0 means fully displayed.
Order ==
  [id : Ids, owner : Traders, group : Groups \cup {""}, side : Sides,
   price : Prices \cup {0}, stop : Prices \cup {0}, quantity : Nat,
   display : Nat, type : Types, tif : Tifs, stp : StpModes]

EmptyBook ==
  [orders       |-> [s \in Sides |-> << >>],  \* buy_orders and sell_orders
   order_lookup |-> << >>,
   cum_filled   |-> << >>,
   arrival      |-> << >>,
   next_arrival |-> 0,
   displayed    |-> << >>,
   last_added   |-> NoId,
   feed         |-> [s \in Sides |-> [p \in Prices |-> 0]]]

-----------------------------------------------------------------------------
(* Maps with insertion and removal.                                        *)

Put(f, k, v) == [x \in DOMAIN f \cup {k} |-> IF x = k THEN v ELSE f[x]]
Drop(f, k) == [x \in DOMAIN f \ {k} |-> f[x]]

Lesser(m, n) == IF m < n THEN m ELSE n
Opposite(s) == IF s = "buy" THEN "sell" ELSE "buy"

\* The queue of a price level, empty if the level does not exist.
Queue(b, s, p) ==
  IF p \in DOMAIN b.orders[s] THEN b.orders[s][p] ELSE << >>

\* p is at least as good for the orders resting on side s as r.
Better(s, p, r) == IF s = "buy" THEN p >= r ELSE p <= r

\* The best price of a side that has a level.
Best(b, s) ==
  CHOOSE p \in DOMAIN b.orders[s] : \A r \in DOMAIN b.orders[s] : Better(s, p, r)

\* A change to the market data feed of one level.
Publish(b, s, p, change) == [b EXCEPT !.feed[s][p] = @ + change]

\* OrderBook::visible: an order that is not displayed shows all it has.
Visible(b, o) ==
  IF o.id \in DOMAIN b.displayed THEN b.displayed[o.id] ELSE o.quantity

Cum(b, id) == IF id \in DOMAIN b.cum_filled THEN b.cum_filled[id] ELSE 0

-----------------------------------------------------------------------------
(* Adding, cancelling and replacing.                                       *)

\* Mutant of AddOrder: the whole reserve of an iceberg is published.
AddPublishesReserve(b, o) ==
  LET visible == IF o.display = 0 THEN o.quantity ELSE Lesser(o.display, o.quantity)
  IN  Publish(
        [b EXCEPT !.orders[o.side] = Put(@, o.price, Append(Queue(b, o.side, o.price), o)),
                  !.displayed = Put(@, o.id, visible),
                  !.last_added = o.id,
                  !.order_lookup = Put(@, o.id, o),
                  !.next_arrival = @ + 1,
                  !.arrival = Put(@, o.id, b.next_arrival + 1)],
        o.side, o.price, o.quantity)

\* The order joins the back of its level with a fresh displayed slice.
AddOrder(b, o) ==
  LET visible == IF o.display = 0 THEN o.quantity ELSE Lesser(o.display, o.quantity)
  IN  Publish(
        [b EXCEPT !.orders[o.side] = Put(@, o.price, Append(Queue(b, o.side, o.price), o)),
                  !.displayed = Put(@, o.id, visible),
                  !.last_added = o.id,
                  !.order_lookup = Put(@, o.id, o),
                  !.next_arrival = @ + 1,
                  !.arrival = Put(@, o.id, b.next_arrival + 1)],
        o.side, o.price, visible)

\* A level that becomes empty is removed from its map.
SetQueue(b, s, p, q) ==
  [b EXCEPT !.orders[s] = IF q = << >> THEN Drop(@, p) ELSE Put(@, p, q)]

\* Mutant of Forget: what the order traded is still known under its id.
ForgetKeepsFills(b, id) ==
  [b EXCEPT !.order_lookup = Drop(@, id), !.arrival = Drop(@, id),
            !.displayed = Drop(@, id)]

\* The maps forget an order that is no longer live.
Forget(b, id) ==
  [b EXCEPT !.order_lookup = Drop(@, id), !.cum_filled = Drop(@, id),
            !.arrival = Drop(@, id), !.displayed = Drop(@, id)]

\* Removes a live order; other books are left as they are.
CancelOrder(b, id) ==
  IF id \notin DOMAIN b.order_lookup
  THEN b
  ELSE LET o == b.order_lookup[id]
           rest == SelectSeq(Queue(b, o.side, o.price), LAMBDA r : r.id # id)
       IN  Publish(SetQueue(Forget(b, id), o.side, o.price, rest),
                   o.side, o.price, -Visible(b, o))

\* "ok" if `owner` may change the live order `id`.
CheckOwner(b, id, owner) ==
  CASE id \notin DOMAIN b.order_lookup        -> "unknown"
    [] id \in DOMAIN b.order_lookup
         /\ b.order_lookup[id].owner # owner  -> "not owner"
    [] OTHER                                  -> "ok"

\* What a replace request asks for: a new total quantity and price, 0 to keep
\* them, and "" or -1 to keep the time in force or the display quantity.
NewTotal(b, id, quantity) ==
  IF quantity = 0 THEN b.order_lookup[id].quantity ELSE quantity - Cum(b, id)

ReplaceCheck(b, id, newId, quantity, owner) ==
  CASE CheckOwner(b, id, owner) # "ok"                   -> CheckOwner(b, id, owner)
    [] newId # id /\ newId \in DOMAIN b.order_lookup     -> "duplicate"
    [] quantity # 0 /\ quantity <= Cum(b, id)            -> "not above filled"
    [] OTHER                                             -> "ok"

Replacement(b, id, newId, price, quantity, tif, display) ==
  LET o == b.order_lookup[id]
  IN  [o EXCEPT !.id = newId,
                !.price = IF price > 0 THEN price ELSE @,
                !.quantity = NewTotal(b, id, quantity),
                !.display = IF display >= 0 THEN display ELSE @,
                !.tif = IF tif # "" THEN tif ELSE @]

\* Mutant of ReplaceOrder: the fills of the original are forgotten.
ReplaceForgetsFills(b, id, new) == AddOrder(CancelOrder(b, id), new)

\* The original leaves the book and the replacement joins it at the back,
\* taking over what the original had traded.
ReplaceOrder(b, id, new) ==
  LET filled == Cum(b, id)
      added  == AddOrder(CancelOrder(b, id), new)
  IN  IF filled > 0
      THEN [added EXCEPT !.cum_filled = Put(@, new.id, filled)]
      ELSE added

-----------------------------------------------------------------------------
(* Fills.                                                                  *)

\* A trade of `traded`, or a reduction without one, leaves `remaining`.  With
\* nothing left the displayed quantity goes too, which every caller sees to.
SyncFill(b, id, remaining, traded) ==
  CASE remaining = 0 -> Forget(b, id)
    [] remaining # 0 /\ id \in DOMAIN b.order_lookup ->
         [b EXCEPT !.order_lookup[id].quantity = remaining,
                   !.cum_filled = Put(@, id, Cum(b, id) + traded)]
    [] OTHER -> b

\* o is the order after the trade, showing `visible`.
SyncVisibleFill(b, o, traded, visible) ==
  LET synced == SyncFill(b, o.id, o.quantity, traded)
  IN  IF o.quantity = 0 THEN synced
      ELSE [synced EXCEPT !.displayed = Put(@, o.id, visible)]

\* An iceberg whose slice is used up.
Exhausted(b, o) == o.quantity > 0 /\ o.display > 0 /\ Visible(b, o) = 0

\* Mutant of Replenish: the fresh slice keeps the arrival of the old one.
ReplenishKeepsArrival(b, o) ==
  IF ~Exhausted(b, o)
  THEN b
  ELSE LET visible == Lesser(o.quantity, o.display)
       IN  Publish([b EXCEPT !.displayed = Put(@, o.id, visible)],
                   o.side, o.price, visible)

\* An exhausted iceberg shows a fresh slice, with a new arrival.
Replenish(b, o) ==
  IF ~Exhausted(b, o)
  THEN b
  ELSE LET visible == Lesser(o.quantity, o.display)
       IN  Publish([b EXCEPT !.displayed = Put(@, o.id, visible),
                             !.next_arrival = @ + 1,
                             !.arrival = Put(@, o.id, b.next_arrival + 1)],
                   o.side, o.price, visible)

\* Mutant of Requeue: a replenished order goes back to the front.
RequeueFront(b, o, back) ==
  IF o.quantity = 0
  THEN b
  ELSE LET q == Queue(b, o.side, o.price)
       IN  [b EXCEPT !.orders[o.side] = Put(@, o.price, <<o>> \o q)]

\* What is left of an order goes to the back or the front of its level.
Requeue(b, o, back) ==
  IF o.quantity = 0
  THEN b
  ELSE LET q == Queue(b, o.side, o.price)
       IN  [b EXCEPT !.orders[o.side] =
              Put(@, o.price, IF back THEN Append(q, o) ELSE <<o>> \o q)]

\* A trade of `traded` with order o, which is off its queue: the book, then the
\* feed.
FillVisible(b, o, traded) ==
  Publish(SyncVisibleFill(b, [o EXCEPT !.quantity = @ - traded], traded,
                          Visible(b, o) - traded),
          o.side, o.price, -traded)

\* What a trade left of order o: a fresh slice if it needs one, and its place.
GoBack(b, o) == Requeue(Replenish(b, o), o, Exhausted(b, o))

\* The first order of the best level, and the book without it.
Top(b, s) == Head(Queue(b, s, Best(b, s)))
PopBest(b, s) == SetQueue(b, s, Best(b, s), Tail(Queue(b, s, Best(b, s))))

-----------------------------------------------------------------------------
(* Self-trade prevention.                                                  *)

StpKey(o) == IF o.group = "" THEN <<"owner", o.owner>> ELSE <<"group", o.group>>

\* Mutant of SelfMatch: the mode of the resting order decides.
SelfMatchOlder(newer, older) ==
  older.stp # "none" /\ StpKey(newer) = StpKey(older)

\* The newer order's mode decides whether the two may trade.
SelfMatch(newer, older) ==
  newer.stp # "none" /\ StpKey(newer) = StpKey(older)

\* Mutant of NewerLeft: cancelling the newest order leaves it alone.
NewerLeftKept(mode, newer, older) ==
  CASE mode = "both"                 -> 0
    [] mode \in {"newest", "oldest"} -> newer
    [] OTHER                         -> newer - Lesser(newer, older)

\* What is left of the newer and of the older order of a self-match.
NewerLeft(mode, newer, older) ==
  CASE mode \in {"newest", "both"} -> 0
    [] mode = "oldest"             -> newer
    [] OTHER                       -> newer - Lesser(newer, older)
OlderLeft(mode, newer, older) ==
  CASE mode = "newest"             -> older
    [] mode \in {"oldest", "both"} -> 0
    [] OTHER                       -> older - Lesser(newer, older)

\* A resting order is cut to `left`, its reserve first, without a trade.
Cut(b, o, left) ==
  IF left = o.quantity
  THEN b
  ELSE LET before  == Visible(b, o)
           visible == Lesser(before, left)
       IN  SyncVisibleFill(Publish(b, o.side, o.price, visible - before),
                           [o EXCEPT !.quantity = left], 0, visible)

\* What a cut leaves of order o, which is off its queue, keeps its place.
CutBack(b, o, left) == Requeue(Cut(b, o, left), [o EXCEPT !.quantity = left], FALSE)

\* The events of a cut: none, or a cancel (left = 0), or a restatement.
CutEvents(id, opposing, before, left) ==
  IF left = before
  THEN << >>
  ELSE <<[kind |-> "stp", id |-> id, opposing |-> opposing,
          by |-> before - left, left |-> left]>>

-----------------------------------------------------------------------------
(* match_orders: the book crosses itself after an order was added.         *)
(* x.book is the book and x.log what happened so far, in order.            *)

Crossed(b) ==
  /\ DOMAIN b.orders["buy"] # {}
  /\ DOMAIN b.orders["sell"] # {}
  /\ Best(b, "buy") >= Best(b, "sell")

\* The order added last is the aggressor; otherwise the later arrival is.
BidNewer(b, bid, ask) ==
  CASE b.last_added = bid.id -> TRUE
    [] b.last_added = ask.id -> FALSE
    [] OTHER                 -> b.arrival[bid.id] > b.arrival[ask.id]

PreventSelfMatch(x, newer, older) ==
  LET newLeft == NewerLeft(newer.stp, newer.quantity, older.quantity)
      oldLeft == OlderLeft(newer.stp, newer.quantity, older.quantity)
  IN  [x EXCEPT
        !.book = CutBack(CutBack(PopBest(PopBest(@, "buy"), "sell"), older, oldLeft),
                         newer, newLeft),
        !.log = @ \o CutEvents(older.id, newer.id, older.quantity, oldLeft)
                  \o CutEvents(newer.id, older.id, newer.quantity, newLeft)]

\* The passive order sets the price.
Cross(x, bid, ask, newer, older) ==
  LET traded == Lesser(Visible(x.book, bid), Visible(x.book, ask))
      filled == FillVisible(FillVisible(PopBest(PopBest(x.book, "buy"), "sell"), bid, traded),
                            ask, traded)
  IN  [x EXCEPT
        !.book = GoBack(GoBack(filled, [bid EXCEPT !.quantity = @ - traded]),
                        [ask EXCEPT !.quantity = @ - traded]),
        !.log = Append(@, [kind |-> "fill", buy |-> bid.id, sell |-> ask.id,
                           price |-> older.price, quantity |-> traded,
                           aggressor |-> newer.side])]

Meet(x, bid, ask, newer, older) ==
  IF SelfMatch(newer, older)
  THEN PreventSelfMatch(x, newer, older)
  ELSE Cross(x, bid, ask, newer, older)

\* One iteration of the loop of match_orders on a crossed book.
MatchStep(x) ==
  LET bid      == Top(x.book, "buy")
      ask      == Top(x.book, "sell")
      bidNewer == BidNewer(x.book, bid, ask)
  IN  Meet(x, bid, ask, IF bidNewer THEN bid ELSE ask, IF bidNewer THEN ask ELSE bid)

-----------------------------------------------------------------------------
(* fill_level: an aggressor that does not rest sweeps the other side.      *)
(* x.order is the aggressor, x.left its remaining quantity, and x.stopped  *)
(* is 1 once self-trade prevention has cancelled it.                       *)

\* The other side has a level that the aggressor may trade at: any level for
\* a market order, one within its limit otherwise.
Reaches(b, o) ==
  LET s == Opposite(o.side)
  IN  /\ DOMAIN b.orders[s] # {}
      /\ o.type = "market" \/ Better(o.side, o.price, Best(b, s))

Sweeping(x) == x.left > 0 /\ x.stopped = 0 /\ Reaches(x.book, x.order)

StopSelfMatch(x, top) ==
  LET o       == x.order
      newLeft == NewerLeft(o.stp, x.left, top.quantity)
      oldLeft == OlderLeft(o.stp, x.left, top.quantity)
  IN  [x EXCEPT
        !.book = CutBack(PopBest(@, top.side), top, oldLeft),
        !.left = IF newLeft = 0 THEN @ ELSE newLeft,
        !.stopped = IF newLeft = 0 THEN 1 ELSE @,
        !.log = @ \o CutEvents(top.id, o.id, top.quantity, oldLeft)
                  \o CutEvents(o.id, top.id, x.left, newLeft)]

\* Mutant of Take: the whole remainder trades, however little is shown.
TakeUncapped(x, top) ==
  LET o       == x.order
      topLeft == [top EXCEPT !.quantity = @ - x.left]
      filled  == SyncVisibleFill(PopBest(x.book, top.side), topLeft, x.left, 0)
  IN  [x EXCEPT
        !.book = Requeue(Publish(filled, top.side, top.price, -x.left), topLeft, FALSE),
        !.left = 0]

Take(x, top) ==
  LET o       == x.order
      traded  == Lesser(Visible(x.book, top), x.left)
  IN  [x EXCEPT
        !.book = GoBack(FillVisible(PopBest(@, top.side), top, traded),
                        [top EXCEPT !.quantity = @ - traded]),
        !.left = @ - traded,
        !.log = Append(@, [kind |-> "fill",
                           buy  |-> IF o.side = "buy" THEN o.id ELSE top.id,
                           sell |-> IF o.side = "buy" THEN top.id ELSE o.id,
                           price |-> top.price, quantity |-> traded,
                           aggressor |-> o.side])]

\* One iteration of the loop of fill_level at the best level.
SweepStep(x) ==
  LET top == Top(x.book, Opposite(x.order.side))
  IN  IF SelfMatch(x.order, top) THEN StopSelfMatch(x, top) ELSE Take(x, top)

-----------------------------------------------------------------------------
(* execute_fok: whether the whole quantity can trade, without trading.     *)

SumOf(q, value(_)) == FoldSeq(LAMBDA o, n : value(o) + n, 0, q)

\* All that the levels of side s at `prices` hold, reserve included.
Held(b, s, prices) ==
  SumOf(SetToSeq(prices), LAMBDA p : SumOf(Queue(b, s, p), LAMBDA r : r.quantity))

\* What the scan of execute_fok finds: the first own order that `o` may meet,
\* in the order the levels would trade, and what can trade ahead of it.  Levels
\* ahead of it count in full, orders ahead of it in its own level with their
\* displayed slice only: `shown` says what such an order counts.
FokScan(b, o, shown(_)) ==
  LET s        == Opposite(o.side)
      crossing == {p \in DOMAIN b.orders[s] : Better(o.side, o.price, p)}
      own(p)   == {i \in DOMAIN Queue(b, s, p) : SelfMatch(o, Queue(b, s, p)[i])}
      blocked  == {p \in crossing : own(p) # {}}
      first    == CHOOSE p \in blocked : \A r \in blocked : Better(s, p, r)
      ahead    == {p \in crossing : Better(s, p, first) /\ p # first}
      index    == CHOOSE i \in own(first) : \A j \in own(first) : i <= j
      before   == SumOf(SubSeq(Queue(b, s, first), 1, index - 1), shown)
  IN  IF blocked = {}
      THEN [blocker |-> NoId, available |-> Held(b, s, crossing)]
      ELSE [blocker |-> Queue(b, s, first)[index].id,
            available |-> Held(b, s, ahead) + before]

\* Mutant of FokCheck: reserve ahead of an own order counts as available.
FokCountsReserve(b, o) ==
  LET scan == FokScan(b, o, LAMBDA r : r.quantity)
  IN  IF scan.available >= o.quantity THEN [fill |-> 1, blocker |-> NoId]
      ELSE [fill |-> 0, blocker |-> scan.blocker]

\* Whether all of `o` can trade and, if not, which own order stands in the way.
FokCheck(b, o) ==
  LET scan == FokScan(b, o, LAMBDA r : Visible(b, r))
  IN  IF scan.available >= o.quantity THEN [fill |-> 1, blocker |-> NoId]
      ELSE [fill |-> 0, blocker |-> scan.blocker]

-----------------------------------------------------------------------------
(* apply_auction_fill: an auction trades `quantity` of a resting order.    *)

ApplyAuctionFill(b, id, quantity) ==
  LET o    == b.order_lookup[id]
      q    == Queue(b, o.side, o.price)
      i    == CHOOSE j \in DOMAIN q : q[j].id = id
      left == [q[i] EXCEPT !.quantity = @ - quantity]
      rest == SelectSeq([q EXCEPT ![i] = left], LAMBDA r : r.quantity > 0)
  IN  Publish(SyncVisibleFill(SetQueue(b, o.side, o.price, rest), left, quantity,
                              left.quantity),
              o.side, o.price, -quantity)

=============================================================================
