SPECIFICATION Spec
PROPERTY OnlyTightens
CONSTANTS
  Broadcasts <- MCLongTail
  Printouts <- MCNone
  OtherProposals <- MCMkr
  Targets = {"0x33d7", "MKR"}
  MaxProposals = 2
  Delay = 1
  Grace = 1
  MaxTime = 2
CHECK_DEADLOCK FALSE
