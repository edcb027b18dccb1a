\* The same; what ends a body.
SPECIFICATION Spec
CONSTANTS
  Requests <- MCRequests
  MaxSize = 3
  Capacity = 2
  Asks = {1}
  Slots = 2
  Timed = TRUE
INVARIANTS
  ZeroIsEOF
CHECK_DEADLOCK FALSE
