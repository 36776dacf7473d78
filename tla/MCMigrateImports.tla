--------------------------- MODULE MCMigrateImports ---------------------------
(* Two files of the user's: one in a directory below "contracts", and a    *)
(* test beside it, which a run without arguments does not reach.           *)
EXTENDS MigrateImports

MCTree == [d \in {"contracts", "contracts/lib", "test"} |->
             CASE d = "contracts" -> <<"contracts/notes.md", "contracts/lib">>
               [] d = "contracts/lib" -> <<"contracts/lib/A.sol">>
               [] OTHER -> <<"test/T.sol">>]

MCArguments ==
  {<<>>, <<"test">>, <<"test", "contracts">>, <<"contracts/lib/A.sol", "contracts/notes.md">>,
   <<"contracts/lib", "nowhere">>}

Old == refTo(plain, file("payment", "PaymentSplitter"))
OldUp == refTo(upgradeable, getUpgradeablePath(file("utils", "PaymentSplitter")))
OldProxy == refTo(plain, file("proxy", "UpgradeableProxy"))
New == refTo(plain, file("finance", "PaymentSplitter"))

MCTexts == {<<>>, <<New, Old, OldUp>>, <<Old, text, Old>>, <<OldUp, OldUp, OldUp>>,
            <<OldProxy, Old>>, <<text, OldProxy, OldUp, New>>}
=============================================================================
