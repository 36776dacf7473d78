----------------------------- MODULE RiskPayloads -----------------------------
(***************************************************************************)
(* The risk payloads of src/src/payloads: for each, the configurator calls *)
(* its execute() makes, in order, with the constants of the contract.      *)
(* They are absolute values: a payload does not read what it overwrites.   *)
(***************************************************************************)
EXTENDS LendingPoolConfigurator

DaiLTDecemberPayload ==
  << configureReserveAsCollateral("DAI", 7500, 8700, 10400) >>

UsdcLTDecemberPayload ==
  << configureReserveAsCollateral("USDC", 8000, 8750, 10450) >>

\* Mutants: a threshold in the place of a loan-to-value, a bonus mistyped.
LTTailCrvThreshold ==
  << configureReserveAsCollateral("ENS", 4700, 5700, 10800),
     configureReserveAsCollateral("MKR", 6200, 6700, 10750),
     configureReserveAsCollateral("SNX", 4600, 6200, 10750),
     configureReserveAsCollateral("CRV", 5800, 5800, 10800) >>
LTTailSnxBonus ==
  << configureReserveAsCollateral("ENS", 4700, 5700, 10800),
     configureReserveAsCollateral("MKR", 6200, 6700, 10750),
     configureReserveAsCollateral("SNX", 4600, 6200, 10570),
     configureReserveAsCollateral("CRV", 5200, 5800, 10800) >>

LTTailDecemberPayload ==
  << configureReserveAsCollateral("ENS", 4700, 5700, 10800),
     configureReserveAsCollateral("MKR", 6200, 6700, 10750),
     configureReserveAsCollateral("SNX", 4600, 6200, 10750),
     configureReserveAsCollateral("CRV", 5200, 5800, 10800) >>

MKRPayloadFeb26 ==
  << configureReserveAsCollateral("MKR", 5900, 6400, 10750) >>

AaveV2FreezeDPIPayload == << freezeReserve("DPI") >>

RiskPayloadCode ==
  {DaiLTDecemberPayload, UsdcLTDecemberPayload, LTTailDecemberPayload,
   MKRPayloadFeb26, AaveV2FreezeDPIPayload}

\* A reserve that is not frozen.
reserve(ltv, threshold, bonus) ==
  [ltv |-> ltv, liquidationThreshold |-> threshold, liquidationBonus |-> bonus,
   isFrozen |-> FALSE]

\* The reserves before any of them, as their comments give it ("65 -> 62").
\* Of DPI they give nothing; no payload reads or sets its three values.
CommentedConfigs ==
  [asset \in Assets |->
     CASE asset = "DAI"  -> reserve(7700, 9000, 10400)
       [] asset = "USDC" -> reserve(8700, 8900, 10450)
       [] asset = "ENS"  -> reserve(5000, 6000, 10800)
       [] asset = "MKR"  -> reserve(6500, 7000, 10750)
       [] asset = "SNX"  -> reserve(4900, 6500, 10750)
       [] asset = "CRV"  -> reserve(5500, 6100, 10800)
       [] asset = "DPI"  -> reserve(0, 0, 0)]
=============================================================================
