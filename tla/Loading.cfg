CONSTANTS
    MaxObjects = 5
    Artifacts <- MCArtifacts
SPECIFICATION Spec
INVARIANTS
  TypeSafety
  FlowIsExact
  LinkingAgrees
  InitializersInOrder
CHECK_DEADLOCK FALSE
