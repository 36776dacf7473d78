SPECIFICATION Spec
INVARIANTS ReportExact ConflictsExplained
PROPERTIES FailureSticks
CHECK_DEADLOCK FALSE
CONSTANTS
  MaxContracts = 5
  MaxArtifacts = 2
  MockIds = {4}
