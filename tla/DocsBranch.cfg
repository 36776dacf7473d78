SPECIFICATION FairSpec
INVARIANTS RefusalJustified RejectionJustified
PROPERTIES NeverOlder ReleaseDocumented
CHECK_DEADLOCK FALSE
CONSTANTS
  Minors = {8, 9}
  MaxPatch = 1
  MaxJobs = 4
