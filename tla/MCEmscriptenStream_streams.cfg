\* Two requests, three units, a buffer of two, with timeouts.
SPECIFICATION FairSpec
CONSTANTS
  Requests <- MCRequests
  MaxSize = 3
  Capacity = 2
  Asks = {1}
  Slots = 2
  Timed = TRUE
INVARIANTS
  TypeOK
  BodyInOrder
  NothingLeftBehind
PROPERTIES
  CallsReturn
CHECK_DEADLOCK FALSE
