SPECIFICATION Undisturbed
PROPERTY PaidInFull
CONSTANTS
  MaxStreams = 2
  MaxTime = 6
  Holdings = 12
  Outflows = {}
  PaymentAmount = 4
  PaymentStart = 2
  PaymentEnd = 4
  CoverageAusdc = 5
  CoverageAave = 3
  CoverageDuration = 2
  OtherStreams <- MCNoStreams
CHECK_DEADLOCK FALSE
