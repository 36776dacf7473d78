--------------------------- MODULE MCGeneratedMocks ---------------------------
(* Small words and arrays for the generated contracts, and Math.sqrt as in *)
(* contracts/utils/math/Math.sol.                                          *)
EXTENDS GeneratedMocks

M == INSTANCE OZMath
MCSqrt(n) == M!sqrt(n)

\* "If the number is not a perfect square, the value is rounded down": seven
\* Newton iterations from a power of two are enough.
ASSUME SqrtRoundsDown ==
  \A a \in 0 .. 20000 : LET r == MCSqrt(a) IN r * r <= a /\ a < (r + 1) * (r + 1)
=============================================================================
