--------------------------- MODULE EnumerableSetMock ---------------------------
(***************************************************************************)
(* The contracts that EnumerableSetMock.js generates: one set, of one of   *)
(* the types, and every function of the library as a transaction or a      *)
(* call.  OperationResult and the return values are `response`.            *)
(***************************************************************************)
EXTENDS EnumerableSet

CONSTANT MaxIndex   \* bound on the index given to at

VARIABLES
  type,         \* the element type of this contract
  set,          \* _set
  response      \* what the last call returned; an at out of range reverts

svars == <<type, set, response>>

Answer(call, arg, ok, value) ==
  [call |-> call, arg |-> arg, ok |-> ok, value |-> value, all |-> <<>>]

SetInit ==
  /\ type \in Types
  /\ set = EmptySet
  /\ response = Answer("none", 0, FALSE, 0)

Add(v) ==
  /\ set' = add(type, set, v)
  /\ response' = Answer("add", v, ~contains(type, set, v), 0)
  /\ UNCHANGED type

Remove(v) ==
  /\ set' = remove(type, set, v)
  /\ response' = Answer("remove", v, contains(type, set, v), 0)
  /\ UNCHANGED type

Contains(v) ==
  /\ response' = Answer("contains", v, contains(type, set, v), 0)
  /\ UNCHANGED <<type, set>>

Length ==
  /\ response' = Answer("length", 0, TRUE, lengthOf(set))
  /\ UNCHANGED <<type, set>>

At(index) ==
  /\ response' = IF validIndex(set, index)
                 THEN Answer("at", index, TRUE, at(type, set, index))
                 ELSE Answer("at", index, FALSE, 0)
  /\ UNCHANGED <<type, set>>

AllValues ==
  /\ response' = [call |-> "values", arg |-> 0, ok |-> TRUE, value |-> 0,
                all |-> values(type, set)]
  /\ UNCHANGED <<type, set>>

SetNext ==
  \/ \E v \in ValuesOf(type) : Add(v) \/ Remove(v) \/ Contains(v)
  \/ Length
  \/ \E index \in 0 .. MaxIndex : At(index)
  \/ AllValues

SetSpec == SetInit /\ [][SetNext]_svars

-----------------------------------------------------------------------------
(* Properties.                                                             *)

\* The representation is an array of words and a total mapping, and a word
\* never holds more than the type does, so that fromBytes32 loses nothing.
SetTypeOK ==
  /\ type \in Types
  /\ IsSet(set)
  /\ \A i \in 1 .. Len(set.values) : set.values[i] \in ValuesOf(type)

\* The array and the mapping of a set agree after any sequence of adds and
\* removes, the swap with the last word included.
SetIndexesMatch == IndexesMatch(set)

\* "There are no guarantees on the ordering of values inside the array":
\* yet a caller that walks the set downwards by `at` and removes as it goes
\* skips nothing, as only the last word ever moves.
SetOnlyLastMoves == [][OnlyLastMoves(set, set')]_svars

\* The contract is a set that enumerates its members, for every type.
AsSet == INSTANCE PlainSet WITH Elements <- Words, list <- values(type, set)
SetImplementsPlain == AsSet!Spec
=============================================================================
