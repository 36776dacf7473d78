--------------------------- MODULE ContractConstants --------------------------
(***************************************************************************)
(* The constants as the two payment contracts fix them, in token base      *)
(* units and seconds.  They are beyond the integers TLC computes with, so  *)
(* what StreamPayments assumes of its parameters is proved of them, in     *)
(* StreamPaymentsProofs.                                                   *)
(***************************************************************************)
EXTENDS Integers

days == 86400
million == 1000000
w == 100000000000000
ether == w * 10000

\* PaymentProposalPayload.sol
payment == 500000 * million + 12352000
paymentStart == 180 * days
paymentEnd == 360 * days

\* V2CoveragePaymentPayload.sol
coverageAusdc == 175000 * million
coverageAave == 1242 * ether
coverageDuration == 150 * days

ContractCoverage == INSTANCE CoveragePayload WITH
  AUSDC_STREAM_AMOUNT <- coverageAusdc,
  AAVE_STREAM_AMOUNT <- coverageAave, STREAMS_DURATION <- coverageDuration
===============================================================================
