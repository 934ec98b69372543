SPECIFICATION FairTasks
CONSTANTS
  Capacity = 3
  ChannelCount = 2
  ValueCount = 3
  Requested = {0, 1, 4}
  MaxSends = 2
INVARIANTS
  TasksRestorable
  NoLostWakeup
  FifoDelivery
PROPERTIES
  ReadyRuns
CHECK_DEADLOCK FALSE
