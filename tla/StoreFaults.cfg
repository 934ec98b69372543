SPECIFICATION StoreSpec
CONSTANTS
  Computers = {c1}
  Callers = {k1}
  Bodies = {o1, none}
  NoObject = none
  ControlBodies <- StoreControlBodies
  MutationBytes = {1}
  ControlBytes = {0}
  MaxRecords = 2
  MaxBytes = 4
  MaxGeneration = 2
  DiskMayFail = TRUE
  Operations = {"flush", "save", "discard", "tombstone"}
  MaxRecoveryRecords = 1
  MaxRestarts = 0
  QuiescentCollection = FALSE
INVARIANTS
  ReportedIsOnDisk
  CloseDrains
  ExecutionNeverAhead
CHECK_DEADLOCK FALSE
