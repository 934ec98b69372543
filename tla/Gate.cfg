SPECIFICATION FairGateSpec
CONSTANTS
  Computers = {c1, c2}
  Callers = {k1}
  Bodies = {data}
  ControlBodies = {control}
  MutationBytes = {1}
  ControlBytes = {2}
  MaxRecords = 2
  MaxBytes = 3
  MaxGeneration = 2
  DiskMayFail = TRUE
INVARIANTS
  NoAdmittedLoss
  GenerationOrder
PROPERTIES
  AdmittedBecomesDurable
  CallsReturnOrFault
CHECK_DEADLOCK FALSE
