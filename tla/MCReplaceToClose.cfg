SPECIFICATION Spec
CONSTANTS
  alice = alice
  bob = bob
  a1 = a1
  a2 = a2
  Traders = {alice, bob}
  NoId = NoId
  SendersOf <- OwnIds
  StpDefault = "none"
  Ids = {a1, a2, b1, b2}
  Groups = {}
  Prices = {1, 2}
  Schedule <- FullSchedule
  DayLength = 4
  Start = 1
  NewOrders <- FilledOrders
  Changes <- ToClose
  CallLengths = {}
  HistoryLimit = 1
  MaxRequests = 4
  MaxTime = 3
SYMMETRY OwnSymmetry
INVARIANT FillsKnownToBook
