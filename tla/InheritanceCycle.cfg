SPECIFICATION Spec
INVARIANTS OrderingConsistent
CHECK_DEADLOCK FALSE
CONSTANTS
  MaxContracts = 6
  MaxArtifacts = 1
  MockIds = {}
