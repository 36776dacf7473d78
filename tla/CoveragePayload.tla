---------------------------- MODULE CoveragePayload ---------------------------
(***************************************************************************)
(* The contract ProposalPayload of                                         *)
(* src/src/payloads/V2CoveragePaymentPayload.sol: two streams to Chaos     *)
(* Labs over the same STREAMS_DURATION, aUSDC from the COLLECTOR and AAVE  *)
(* from the ECOSYSTEM_RESERVE.  Each approved amount is rounded down to a  *)
(* multiple of the duration, for the reserve refuses a remainder.          *)
(***************************************************************************)
EXTENDS Integers

CONSTANTS
  AUSDC_STREAM_AMOUNT,  \* 175000e6 in the contract
  AAVE_STREAM_AMOUNT,   \* 1242e18
  STREAMS_DURATION      \* 150 days

CHAOS_RECIPIENT == "CHAOS_RECIPIENT"

\* Mutants: the amount as approved, and rounded up.
unroundedUSDC == AUSDC_STREAM_AMOUNT
roundedUpAave == (AAVE_STREAM_AMOUNT \div STREAMS_DURATION + 1) * STREAMS_DURATION

\* The deposits, rounded as the reserve demands.
actualAmountUSDC == (AUSDC_STREAM_AMOUNT \div STREAMS_DURATION) * STREAMS_DURATION
actualAmountAave == (AAVE_STREAM_AMOUNT \div STREAMS_DURATION) * STREAMS_DURATION

\* The first createStream call of execute() at block time t.
usdcStream(t) ==
  [collector |-> "COLLECTOR", recipient |-> CHAOS_RECIPIENT,
   deposit |-> actualAmountUSDC, tokenAddress |-> "USDC_A_TOKEN",
   startTime |-> t, stopTime |-> t + STREAMS_DURATION]

\* Mutant: both streams on the first reserve.
aaveStreamOnCollector(t) ==
  [collector |-> "COLLECTOR", recipient |-> CHAOS_RECIPIENT,
   deposit |-> actualAmountAave, tokenAddress |-> "AAVE_TOKEN",
   startTime |-> t, stopTime |-> t + STREAMS_DURATION]

\* The second one.
aaveStream(t) ==
  [collector |-> "ECOSYSTEM_RESERVE", recipient |-> CHAOS_RECIPIENT,
   deposit |-> actualAmountAave, tokenAddress |-> "AAVE_TOKEN",
   startTime |-> t, stopTime |-> t + STREAMS_DURATION]
=============================================================================
