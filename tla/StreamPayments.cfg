SPECIFICATION Spec
INVARIANTS
  TypeOK
  AccruedOnce
  PaymentSchedule
  CoverageTwins
  PayloadsAccepted
  WithinApproval
  Solvent
  LedgerMatchesEvents
PROPERTY ImplementsVesting
CONSTANTS
  MaxStreams = 2
  MaxTime = 5
  Holdings = 9
  Outflows = {5}
  PaymentAmount = 4
  PaymentStart = 2
  PaymentEnd = 4
  CoverageAusdc = 5
  CoverageAave = 3
  CoverageDuration = 2
  OtherStreams <- MCOtherStreams
CHECK_DEADLOCK FALSE
