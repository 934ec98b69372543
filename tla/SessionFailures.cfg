SPECIFICATION FairSession
CONSTANTS
  Capacity = 3
  ChannelCount = 0
  ValueCount = 0
  Requested = {}
  MaxSends = 0
  Calls <- MCTextCalls
  Answers = {"scalar", "record", "failure", "cancelled"}
  GuestDoes = {"throw", "trap"}
  Collects = {"alloc", "concat", "raise", "record"}
  RecordParts = 2
  MaxRequests = 3
  MaxCalls = 4
INVARIANTS
  RaisedWhereItHappened
  SessionRestorable
  ArgumentsOfOwnCall
CHECK_DEADLOCK FALSE
