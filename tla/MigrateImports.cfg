SPECIFICATION Spec
INVARIANTS Damage OnePerRun NoneLeft
PROPERTY OnlyGiven
CHECK_DEADLOCK FALSE
CONSTANTS
  Tree <- MCTree
  Sol = {"contracts/lib/A.sol", "test/T.sol"}
  Other = {"contracts/notes.md"}
  Arguments <- MCArguments
  Texts <- MCTexts
  MaxRuns = 4
  MaxKills = 1
