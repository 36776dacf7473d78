SPECIFICATION Spec
INVARIANTS
  TypeOK
  NeverRefused
  SameHashSameActions
PROPERTIES
  ImplementsAtomicProposals
  NothingElseChanges
  TightensWithoutFebruary
CONSTANTS
  Broadcasts <- MCBroadcasts
  Printouts <- MCPrintouts
  OtherProposals <- MCDpiMkr
  Targets = {"0x33d7", "0xeca5", "0x60bC", "MKR", "DPI"}
  MaxProposals = 2
  Delay = 1
  Grace = 0
  MaxTime = 2
CHECK_DEADLOCK FALSE
