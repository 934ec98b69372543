SPECIFICATION StoreSpec
CONSTANTS
  Computers = {c1}
  Callers = {k1}
  Bodies = {o1, none}
  NoObject = none
  ControlBodies <- StoreControlBodies
  MutationBytes = {1}
  ControlBytes = {0}
  MaxRecords = 2
  MaxBytes = 4
  MaxGeneration = 3
  DiskMayFail = FALSE
  Operations = {"flush", "save", "discard", "collect"}
  MaxRecoveryRecords = 3
  MaxRestarts = 2
  QuiescentCollection = TRUE
INVARIANTS
  AlwaysRecoverable
PROPERTIES
  KeepsPromise
CHECK_DEADLOCK FALSE
