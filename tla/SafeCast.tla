------------------------------- MODULE SafeCast -------------------------------
(***************************************************************************)
(* The casts of the generated library SafeCast                             *)
(* (scripts/generate/templates/SafeCast.js), on words of Word bits with    *)
(* narrower types at each multiple of Unit bits: 256 and 8 in the code.    *)
(***************************************************************************)
EXTENDS Integers, Sequences

CONSTANTS Unit, Word

ASSUME CastWidthAssumption == Unit \in Nat \ {0} /\ Word \in Nat /\ Word > Unit

\* range(start, stop, step) of scripts/helpers.js, for stop > 0.
range(start, stop, step) ==
  IF start < stop
    THEN [i \in 1 .. (stop - start + step - 1) \div step |-> start + (i - 1) * step]
    ELSE <<>>

\* The widths of the narrower types. Their order, which range(..).reverse()
\* turns around, is that of the generated text.
LENGTHS == {range(Unit, Word, Unit)[i] : i \in 1 .. Len(range(Unit, Word, Unit))}

uintType(n) == [signed |-> FALSE, length |-> n]
intType(n) == [signed |-> TRUE, length |-> n]

maxOf(type) == IF type.signed THEN 2 ^ (type.length - 1) - 1 ELSE 2 ^ type.length - 1
minOf(type) == IF type.signed THEN -(2 ^ (type.length - 1)) ELSE 0
fits(v, type) == minOf(type) <= v /\ v <= maxOf(type)

\* Solidity's own conversion uintN(v) or intN(v): the low bits of v.
low(v, type) ==
  LET bits == v % 2 ^ type.length
  IN IF bits > maxOf(type) THEN bits - 2 ^ type.length ELSE bits

\* A call returns a value or reverts.
returns(v) == [reverts |-> FALSE, value |-> v]
reverts == [reverts |-> TRUE, value |-> 0]

\* From uint256.
toUintDownCast(v, n) ==
  IF v <= maxOf(uintType(n)) THEN returns(low(v, uintType(n))) ELSE reverts

\* Mutant: only the upper bound is tested.
toIntDownCastAbove(v, n) ==
  IF v <= maxOf(intType(n)) THEN returns(low(v, intType(n))) ELSE reverts

\* From int256: casts first, then compares what came out.
toIntDownCast(v, n) ==
  LET downcasted == low(v, intType(n))
  IN IF downcasted = v THEN returns(downcasted) ELSE reverts

\* Mutant: type(int256).max itself is refused.
toIntStrict(v, n) ==
  IF v < maxOf(intType(n)) THEN returns(low(v, intType(n))) ELSE reverts

\* uintN to intN
toInt(v, n) ==
  IF v <= maxOf(intType(n)) THEN returns(low(v, intType(n))) ELSE reverts

\* intN to uintN
toUint(v, n) ==
  IF v >= 0 THEN returns(low(v, uintType(n))) ELSE reverts
=============================================================================
