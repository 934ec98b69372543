SPECIFICATION BridgeSpec
CONSTANTS
    Threads = {t1, t2}
    FairThread = t1
    Nobody = Nobody
    None = None
    Ids = {c1}
    Handles <- MCHandles
    Width = 8
    MaxCells = 2
    MaxStores = 2
    MaxCandidates = 1
    MaxTokens = 1
    MaxCalls = 6
INVARIANTS
  DeployedOnce
  CheckpointFromOwner
  CompilationAnswerable
PROPERTIES
  
  CallsReturn
CHECK_DEADLOCK TRUE
