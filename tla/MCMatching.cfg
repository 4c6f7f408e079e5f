SPECIFICATION Spec
CONSTANTS
  alice = alice
  bob = bob
  Traders = {alice, bob}
  Ids = {o1, o2, o3, o4}
  NoId = NoId
  Groups = {"desk"}
  Prices = {1, 2}
  NewOrders <- MCNewOrders
  Changes <- MCChanges
  MaxRequests = 4
SYMMETRY IdSymmetry
CHECK_DEADLOCK FALSE
INVARIANT TypeOK
INVARIANT BookConsistent
INVARIANT QueuesByArrival
INVARIANT NoSelfTrade
INVARIANT FokAllOrNothing
INVARIANT LoopsProgress
PROPERTY PriceTimePriority
