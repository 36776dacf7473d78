----------------------------- MODULE SafeCastMock -----------------------------
(***************************************************************************)
(* A computation on small integers in the way the header of SafeCast.js    *)
(* recommends: the arithmetic on the full word, checked by the compiler,   *)
(* and the results cast down by the functions of SafeCastMock.js.          *)
(***************************************************************************)
EXTENDS SafeCast, FiniteSets

CONSTANT Operands    \* the second operands of the arithmetic

ASSUME OperandAssumption == Operands \subseteq Int

VARIABLES
  number,    \* the machine's value
  numType,   \* its type, or the type that was asked for when the call reverted
  exact,     \* the same computation on the integers
  reverted

nvars == <<number, numType, exact, reverted>>

FullTypes == {uintType(Word), intType(Word)}
NumTypes == {uintType(n) : n \in LENGTHS \union {Word}}
              \union {intType(n) : n \in LENGTHS \union {Word}}

CastInit ==
  /\ numType \in FullTypes
  /\ number \in minOf(numType) .. maxOf(numType)
  /\ exact = number
  /\ reverted = FALSE

\* The outcome of a call that was to give an object of type t.
Becomes(result, t) ==
  /\ reverted' = result.reverts
  /\ number' = IF result.reverts THEN number ELSE result.value
  /\ numType' = t

\* The argument of a downcast widens to the full word of its own sign.
ToUintDownCast(n) ==
  /\ ~reverted /\ ~numType.signed
  /\ Becomes(toUintDownCast(number, n), uintType(n))
  /\ UNCHANGED exact

ToIntDownCast(n) ==
  /\ ~reverted /\ numType.signed
  /\ Becomes(toIntDownCast(number, n), intType(n))
  /\ UNCHANGED exact

ToUint ==
  /\ ~reverted /\ numType.signed
  /\ Becomes(toUint(number, Word), uintType(Word))
  /\ UNCHANGED exact

ToInt ==
  /\ ~reverted /\ ~numType.signed
  /\ Becomes(toInt(number, Word), intType(Word))
  /\ UNCHANGED exact

\* value + c, value - c or value * c on the full word: the compiler's checks
\* revert when the result does not fit.
Compute(c) ==
  /\ ~reverted
  /\ LET full == [signed |-> numType.signed, length |-> Word]
         Results(v) == <<v + c, v - c, v * c>>
     IN /\ fits(c, full)
        /\ \E op \in 1 .. 3 :
             LET r == Results(number)[op]
             IN /\ Becomes(IF fits(r, full) THEN returns(r) ELSE reverts, full)
                /\ exact' = Results(exact)[op]

CastNext ==
  \/ \E n \in LENGTHS : ToUintDownCast(n) \/ ToIntDownCast(n)
  \/ ToUint \/ ToInt
  \/ \E c \in Operands : Compute(c)

CastSpec == CastInit /\ [][CastNext]_nvars

-----------------------------------------------------------------------------
(* Properties.                                                             *)

\* "by performing all math on uint256 and int256 and then downcasting": as
\* long as nothing reverted, the machine has the value that the computation
\* has on the integers, and that value fits its type, through any chain of
\* casts.
Exact == ~reverted => number = exact /\ numType \in NumTypes /\ fits(exact, numType)

\* A computation reverts only over a result that the type it asked for does
\* not have, never over one at the edge of the type.
RevertsOnlyUnfit == reverted => ~fits(exact, numType)
=============================================================================
