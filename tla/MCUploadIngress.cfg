SPECIFICATION Spec
CONSTANTS
  Calls = {c1, c2, c3, c4}
  MaxConcurrent = 1
  MaxQueue = 2
INVARIANTS SlotsAccounted SlotsServeLiveRequests
PROPERTY EveryWaitEnds
CHECK_DEADLOCK FALSE
