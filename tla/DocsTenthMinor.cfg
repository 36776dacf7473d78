SPECIFICATION Spec
INVARIANTS RefusalJustified
CHECK_DEADLOCK FALSE
CONSTANTS
  Minors = {9, 10}
  MaxPatch = 1
  MaxJobs = 4
