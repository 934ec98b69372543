SPECIFICATION Spec
CONSTANTS
    Tasks <- MCTasks
    Programs <- MCPrograms
    Roots <- MCRoots
    Texts <- MCTexts
    Shell = "shell"
    Addons = {}
    Sides = {0, 1}
    Levels = {0, 1}
    MaxLine = 3
    MaxWaiters = 2
    MaxQueue = 2
    MaxDepth = 3
    MaxStarts = 4
    HeapBytes = 1
    MaxHeap = 3
    MaxCounter = 2
    HostBudget = 2
    MaxRequests = 2
    MaxTasks = 2
    MaxJobs = 2
INVARIANTS
  CheckpointAccepted
  AnswersReachTheirRequest
  UnitsAccounted
PROPERTIES
  NothingStarves
CHECK_DEADLOCK FALSE
