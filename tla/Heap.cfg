SPECIFICATION GuestHeapSpec
CONSTANTS
  ArenaBytes = 400
  TaskCount = 2
  MaxDepth = 2
  Types <- MCTypes
  ResponseSize = 128
  RepliesDuring = {"idle", "mark", "sweep"}
INVARIANTS
  HeapRestorable
  CollectionExact
  ExhaustionIsReal
PROPERTIES
  CollectionBounded
CHECK_DEADLOCK FALSE
