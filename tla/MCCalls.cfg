SPECIFICATION Spec
CONSTANTS
  alice = alice
  bob = bob
  a1 = a1
  a2 = a2
  Traders = {alice, bob}
  NoId = NoId
  SendersOf <- OwnIds
  StpDefault = "none"
  Ids = {a1, a2, b1}
  Groups = {}
  Prices = {1, 2}
  Schedule <- CloseSchedule
  DayLength = 4
  Start = 0
  NewOrders <- CallOrders
  Changes <- CallChanges
  CallLengths = {1, 2}
  HistoryLimit = 1
  MaxRequests = 4
  MaxTime = 3
SYMMETRY OwnSymmetry
INVARIANT EachLiveOnce
INVARIANT OperatorCallEnds
INVARIANT TicksCompose
