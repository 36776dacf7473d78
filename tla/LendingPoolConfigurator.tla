------------------------ MODULE LendingPoolConfigurator -----------------------
(***************************************************************************)
(* The Aave V2 POOL_CONFIGURATOR as the risk payloads use it.  The         *)
(* contract is deployed elsewhere; its two operations are those the        *)
(* payloads call, its checks the ones every call has to pass: the caller   *)
(* is the pool admin (the executor the proposals name), the loan-to-value  *)
(* is at most the liquidation threshold, and liquidating at the threshold  *)
(* with the bonus stays within the collateral.  Percentages have four      *)
(* digits: 10000 is 100%.                                                  *)
(***************************************************************************)
EXTENDS Integers, Sequences

Assets == {"DAI", "USDC", "ENS", "MKR", "SNX", "CRV", "DPI"}
PERCENTAGE_FACTOR == 10000
POOL_ADMIN == "SHORT_EXECUTOR"

(* The part of a reserve's configuration that the payloads and their tests *)
(* are about.                                                              *)
Config == [ltv: 0 .. PERCENTAGE_FACTOR,
           liquidationThreshold: 0 .. PERCENTAGE_FACTOR,
           liquidationBonus: 0 .. 2 * PERCENTAGE_FACTOR, isFrozen: BOOLEAN]

(* Calls.                                                                  *)
configureReserveAsCollateral(asset, ltv, threshold, bonus) ==
  [op |-> "configure", asset |-> asset,
   ltv |-> ltv, liquidationThreshold |-> threshold, liquidationBonus |-> bonus]
freezeReserve(asset) ==
  [op |-> "freeze", asset |-> asset,
   ltv |-> 0, liquidationThreshold |-> 0, liquidationBonus |-> 0]

percentMul(value, percentage) ==
  (value * percentage + PERCENTAGE_FACTOR \div 2) \div PERCENTAGE_FACTOR

Valid(call) ==
  \/ call.op = "freeze"
  \/ /\ call.ltv <= call.liquidationThreshold
     /\ call.liquidationThreshold > 0
     /\ call.liquidationBonus > PERCENTAGE_FACTOR
     /\ percentMul(call.liquidationThreshold, call.liquidationBonus) <= PERCENTAGE_FACTOR

\* Mutant: anybody may configure a reserve.
AcceptedFromAnyone(call, sender) == Valid(call)

Accepted(call, sender) == sender = POOL_ADMIN /\ Valid(call)

\* The reserves after an accepted call.
Applied(configs, call) ==
  IF call.op = "freeze"
  THEN [configs EXCEPT ![call.asset].isFrozen = TRUE]
  ELSE [configs EXCEPT ![call.asset] =
         [@ EXCEPT !.ltv = call.ltv,
                   !.liquidationThreshold = call.liquidationThreshold,
                   !.liquidationBonus = call.liquidationBonus]]
=============================================================================
