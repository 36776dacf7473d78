---------------------------- MODULE PaymentPayload ----------------------------
(***************************************************************************)
(* The contract ProposalPayload of                                         *)
(* src/src/payloads/PaymentProposalPayload.sol: one stream of aUSDC from   *)
(* the COLLECTOR to Chaos Labs that begins STREAMS_START after execution   *)
(* and is over STREAMS_END after execution.                                *)
(***************************************************************************)
EXTENDS Integers

CONSTANTS
  AUSDC_STREAM_AMOUNT,  \* 500000e6 + 12352000 in the contract
  STREAMS_START,        \* 180 days
  STREAMS_END           \* 360 days

CHAOS_RECIPIENT == "CHAOS_RECIPIENT"

\* Mutants: the stream ends STREAMS_END after its start, or begins at once.
executeEndAfterStart(t) ==
  [collector |-> "COLLECTOR", recipient |-> CHAOS_RECIPIENT,
   deposit |-> AUSDC_STREAM_AMOUNT, tokenAddress |-> "USDC_A_TOKEN",
   startTime |-> t + STREAMS_START, stopTime |-> t + STREAMS_START + STREAMS_END]
executeAtOnce(t) ==
  [collector |-> "COLLECTOR", recipient |-> CHAOS_RECIPIENT,
   deposit |-> AUSDC_STREAM_AMOUNT, tokenAddress |-> "USDC_A_TOKEN",
   startTime |-> t, stopTime |-> t + STREAMS_END]

\* The createStream call execute() makes at block time t.
execute(t) ==
  [collector |-> "COLLECTOR", recipient |-> CHAOS_RECIPIENT,
   deposit |-> AUSDC_STREAM_AMOUNT, tokenAddress |-> "USDC_A_TOKEN",
   startTime |-> t + STREAMS_START, stopTime |-> t + STREAMS_END]
=============================================================================
