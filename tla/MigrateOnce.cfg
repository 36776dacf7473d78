SPECIFICATION Spec
INVARIANT MigratedAtOnce
CHECK_DEADLOCK FALSE
CONSTANTS
  Tree <- MCTree
  Sol = {"contracts/lib/A.sol", "test/T.sol"}
  Other = {"contracts/notes.md"}
  Arguments <- MCArguments
  Texts <- MCTexts
  MaxRuns = 1
  MaxKills = 0
