SPECIFICATION FairSession
CONSTANTS
  Capacity = 3
  ChannelCount = 0
  ValueCount = 0
  Requested = {}
  MaxSends = 0
  Calls <- MCReferenceCalls
  Answers = {"scalar", "text", "empty", "bytes"}
  GuestDoes = {"throw", "uncaught"}
  Collects = {"alloc", "reference"}
  RecordParts = 1
  MaxRequests = 2
  MaxCalls = 4
INVARIANTS
  FramesInPlace
  RequestsAccounted
PROPERTIES
  AcceptedIsDelivered
CHECK_DEADLOCK FALSE
