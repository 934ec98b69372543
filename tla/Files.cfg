SPECIFICATION Spec
CONSTANTS
    Paths <- MCPaths
    Rom <- MCRom
    Capabilities <- MCCapabilities
    InitialCapability <- MCInitial
    Contents <- MCContents
    SourceFiles <- MCSources
    MaxComponents = 3
    MaxFileBytes = 2
    MaxLogicalBytes = 3
    MaxNodes = 5
    MaxEntries = 2
    MaxHandles = 1
    MaxIo = 1
    MaxHandleGeneration = 2
    MaxGeneration = 3
    NameBytes = 2
    MaxDepth = 2
    MaxTransferId = 2
    MaxPending = 1
INVARIANTS
  ReplayAgrees
  SnapshotAccepted
PROPERTIES
  LateActionsSeeWhatTheySaw
  ImplementsFileMap
CHECK_DEADLOCK FALSE
