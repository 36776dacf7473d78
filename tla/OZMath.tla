-------------------------------- MODULE OZMath --------------------------------
(***************************************************************************)
(* Math.log2 and Math.sqrt of contracts/utils/math/Math.sol, as            *)
(* Checkpoints.js uses them, for numbers below 2^16 (the higher shifts of  *)
(* log2 find nothing there).                                               *)
(***************************************************************************)
EXTENDS Integers, SequencesExt

\* One `if (value >> s > 0)` of log2.
shiftStep(acc, s) ==
  IF acc.value \div 2^s > 0
    THEN [value |-> acc.value \div 2^s, result |-> acc.result + s]
    ELSE acc

log2(n) ==
  FoldLeft(shiftStep, [value |-> n, result |-> 0], <<8, 4, 2, 1>>).result

newton(a, r) == (r + a \div r) \div 2

\* The first guess, seven iterations and the final rounding.
sqrt(a) ==
  IF a = 0 THEN 0
  ELSE LET guess == 2 ^ (log2(a) \div 2)
           r == FoldLeft(LAMBDA acc, i : newton(a, acc), guess, [i \in 1 .. 7 |-> i])
       IN IF r < a \div r THEN r ELSE a \div r
=============================================================================
