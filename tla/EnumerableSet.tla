----------------------------- MODULE EnumerableSet -----------------------------
(***************************************************************************)
(* The library that scripts/generate/templates/EnumerableSet.js generates: *)
(* a set in storage is an array of its words and a mapping from a word to  *)
(* its position, counted from 1 (0: not in the set).  The private          *)
(* functions work on words (_add is addWord, and so on); the template      *)
(* wraps them for each of its types with the conversions of conversion.js. *)
(***************************************************************************)
EXTENDS Integers, Sequences

CONSTANTS
  WordMax,      \* type(uint256).max
  AddressMax    \* type(uint160).max

ASSUME WordAssumption ==
  /\ WordMax \in Nat
  /\ AddressMax \in 0 .. WordMax

Words == 0 .. WordMax
Types == {"bytes32", "address", "uint256"}

\* The values of a type: only addresses are narrower than a word.
ValuesOf(type) == IF type = "address" THEN 0 .. AddressMax ELSE Words

toBytes32(type, value) ==
  IF type = "address" THEN value % (AddressMax + 1) ELSE value

fromBytes32(type, word) ==
  IF type = "address" THEN word % (AddressMax + 1) ELSE word

-----------------------------------------------------------------------------
(* The generic set of words.                                               *)

EmptySet == [values |-> <<>>, indexes |-> [w \in Words |-> 0]]

containsWord(s, w) == s.indexes[w] # 0
lengthOf(s) == Len(s.values)
validIndex(s, index) == index < Len(s.values)
wordAt(s, index) == s.values[index + 1]

addWord(s, w) ==
  IF containsWord(s, w) THEN s
  ELSE [values |-> Append(s.values, w),
        indexes |-> [s.indexes EXCEPT ![w] = Len(s.values) + 1]]

\* Mutant: the moved word keeps its old index.
moveLastOnly(s, i) == [s EXCEPT !.values[i] = s.values[Len(s.values)]]

\* The last word takes position i, and its index says so.
moveLast(s, i) ==
  IF i = Len(s.values) THEN s
  ELSE [values |-> [s.values EXCEPT ![i] = s.values[Len(s.values)]],
        indexes |-> [s.indexes EXCEPT ![s.values[Len(s.values)]] = i]]

\* Mutant: the index of the removed word is not deleted.
popKeepingIndex(s, w) ==
  [s EXCEPT !.values = SubSeq(s.values, 1, Len(s.values) - 1)]

pop(s, w) ==
  [values |-> SubSeq(s.values, 1, Len(s.values) - 1),
   indexes |-> [s.indexes EXCEPT ![w] = 0]]

\* Mutant: the words after the removed one move down.
removeInOrder(s, w) ==
  IF ~containsWord(s, w) THEN s
  ELSE LET i == s.indexes[w]
       IN [values |-> SubSeq(s.values, 1, i - 1)
                        \o SubSeq(s.values, i + 1, Len(s.values)),
           indexes |-> [x \in Words |->
                          IF x = w THEN 0
                          ELSE IF s.indexes[x] > i THEN s.indexes[x] - 1
                          ELSE s.indexes[x]]]

\* Swap and pop.
removeWord(s, w) ==
  IF containsWord(s, w) THEN pop(moveLast(s, s.indexes[w]), w) ELSE s

-----------------------------------------------------------------------------
(* The wrappers, for one type of values.                                   *)

add(type, s, value) == addWord(s, toBytes32(type, value))
remove(type, s, value) == removeWord(s, toBytes32(type, value))
contains(type, s, value) == containsWord(s, toBytes32(type, value))
at(type, s, index) == fromBytes32(type, wordAt(s, index))
values(type, s) == [i \in 1 .. Len(s.values) |-> fromBytes32(type, s.values[i])]

-----------------------------------------------------------------------------
(* Properties of one set.                                                  *)

IsSet(s) ==
  /\ s.values \in Seq(Words)
  /\ s.indexes \in [Words -> Nat]

\* The mapping is the inverse of the array: no word is listed twice, and
\* the index of a word that is not listed is 0.
IndexesMatch(s) ==
  /\ \A i \in 1 .. Len(s.values) : s.indexes[s.values[i]] = i
  /\ \A w \in Words : s.indexes[w] # 0 =>
       s.indexes[w] \in 1 .. Len(s.values) /\ s.values[s.indexes[w]] = w

\* From s to t no word changed its position, except that the last one may
\* have taken the place of a word that is gone.
OnlyLastMoves(s, t) ==
  \A i \in 1 .. Len(s.values) :
    \/ i <= Len(t.values) /\ t.values[i] = s.values[i]
    \/ i = Len(s.values)
    \/ i <= Len(t.values) /\ t.indexes[s.values[i]] = 0
                          /\ t.values[i] = s.values[Len(s.values)]
=============================================================================
