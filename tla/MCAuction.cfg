SPECIFICATION Spec
CONSTANTS
  Limits = {0, 1, 2, 3}
  Quantities = {1, 3}
  References = {0, 1, 3}
  MaxOrders = 4
CHECK_DEADLOCK FALSE
INVARIANT BestPrice
INVARIANT FairAllocation
