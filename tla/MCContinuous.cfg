SPECIFICATION Spec
CONSTANTS
  alice = alice
  bob = bob
  a1 = a1
  a2 = a2
  Traders = {alice, bob}
  NoId = NoId
  SendersOf <- SharedIds
  StpDefault = "none"
  Ids = {a1, a2, b1, b2}
  Groups = {}
  Prices = {1, 2}
  Schedule <- NoSchedule
  DayLength = 4
  Start = 0
  NewOrders <- ContinuousOrders
  Changes <- ContinuousChanges
  CallLengths = {}
  HistoryLimit = 1
  MaxRequests = 4
  MaxTime = 0
SYMMETRY SharedSymmetry
INVARIANT TypeOK
INVARIANT ReportsAgreeWithOrders
INVARIANT FillsKnownToBook
INVARIANT FeedShowsDisplayed
INVARIANT PrintsReported
INVARIANT StatusCurrent
INVARIANT NoStopMissed
PROPERTY StopsElected
