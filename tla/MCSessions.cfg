SPECIFICATION Spec
CONSTANTS
  alice = alice
  bob = bob
  a1 = a1
  a2 = a2
  Traders = {alice, bob}
  NoId = NoId
  SendersOf <- OwnIds
  StpDefault = "newest"
  Ids = {a1, a2, b1}
  Groups = {}
  Prices = {1, 2}
  Schedule <- FullSchedule
  DayLength = 4
  Start = 0
  NewOrders <- SessionOrders
  Changes <- SessionChanges
  CallLengths = {}
  HistoryLimit = 1
  MaxRequests = 3
  MaxTime = 4
SYMMETRY OwnSymmetry
INVARIANT EachLiveOnce
INVARIANT NotCrossedInContinuous
INVARIANT PhaseFollowsSchedule
INVARIANT IndicativeCurrent
INVARIANT AuctionOrdersInPlace
INVARIANT TicksCompose
INVARIANT ReportsSound
PROPERTY CallsNeverMatch
PROPERTY ExpiryKept
