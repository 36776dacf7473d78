--------------------------- MODULE MCStreamPayments ---------------------------
(* Small instances of StreamPayments for TLC.                              *)
EXTENDS StreamPayments

other(r, to, token, d, from, until) ==
  [collector |-> r, recipient |-> to, deposit |-> d,
   tokenAddress |-> token, startTime |-> from, stopTime |-> until]

\* One stream that is accepted until time 1, to somebody else; one with a
\* remainder and one that ends before it starts.
MCOtherStreams ==
  {other("COLLECTOR", "ELSEWHERE", "USDC_A_TOKEN", 3, 1, 4),
   other("COLLECTOR", "CHAOS_RECIPIENT", "USDC_A_TOKEN", 3, 1, 3),
   other("ECOSYSTEM_RESERVE", "CHAOS_RECIPIENT", "AAVE_TOKEN", 2, 3, 2)}

MCNoStreams == {}
=============================================================================
