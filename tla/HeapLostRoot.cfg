SPECIFICATION GuestHeapSpec
CONSTANTS
  ArenaBytes = 400
  TaskCount = 2
  MaxDepth = 2
  Types <- MCTypes
  ResponseSize = 128
  RepliesDuring = {"idle", "roots"}
INVARIANT
  NoLostObject
CHECK_DEADLOCK FALSE
