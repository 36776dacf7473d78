SPECIFICATION GeneratedSpec
INVARIANTS KeysIncreasing SearchSound SetIndexesMatch NoOrphanValue Exact RevertsOnlyUnfit
PROPERTIES
  ImplementsHistory OldKeysFixed PastFixed LookupReturns
  SetImplementsPlain SetOnlyLastMoves MapImplementsPlain
CHECK_DEADLOCK FALSE
CONSTANTS
  MaxKey = 5
  MaxValue = 1
  MaxBlock = 7
  Sqrt <- MCSqrt
  WordMax = 2
  AddressMax = 1
  MaxIndex = 3
  MaxEntry = 3
  Unit = 2
  Word = 8
  Operands = {1, 3, 85}
