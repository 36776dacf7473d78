------------------------------- MODULE PlainSet -------------------------------
(***************************************************************************)
(* What an enumerable set promises: it lists each of its members once, in  *)
(* an order that any change may alter, and says of a change whether there  *)
(* was anything to change.                                                 *)
(***************************************************************************)
EXTENDS Integers, Sequences, FiniteSets

CONSTANT Elements

VARIABLES
  list,         \* the members, in the order they are enumerated
  response      \* what the last call returned

Members == {list[i] : i \in 1 .. Len(list)}

Answer(call, arg, ok, value) ==
  [call |-> call, arg |-> arg, ok |-> ok, value |-> value, all |-> <<>>]

Init == list = <<>> /\ response = Answer("none", 0, FALSE, 0)

\* The new list has the members M, in any order and once each.
Relist(M) ==
  /\ {list'[i] : i \in 1 .. Len(list')} = M
  /\ \A i, j \in 1 .. Len(list') : list'[i] = list'[j] => i = j

\* ok is what an add, a remove or a contains answers.
Add(v) ==
  /\ response' = Answer("add", v, v \notin Members, 0)
  /\ Relist(Members \cup {v})

Remove(v) ==
  /\ response' = Answer("remove", v, v \in Members, 0)
  /\ Relist(Members \ {v})

Contains(v) ==
  /\ response' = Answer("contains", v, v \in Members, 0)
  /\ UNCHANGED list

Length ==
  /\ response' = Answer("length", 0, TRUE, Cardinality(Members))
  /\ UNCHANGED list

\* Each position below the number of members has its member; no other does.
At ==
  /\ \/ \E i \in 1 .. Len(list) : response' = Answer("at", i - 1, TRUE, list[i])
     \/ /\ response'.arg >= Cardinality(Members)
        /\ response' = Answer("at", response'.arg, FALSE, 0)
  /\ UNCHANGED list

Enumerate ==
  /\ response' = [call |-> "values", arg |-> 0, ok |-> TRUE, value |-> 0,
                all |-> list]
  /\ UNCHANGED list

Next ==
  \/ \E v \in Elements : Add(v) \/ Remove(v) \/ Contains(v)
  \/ Length \/ At \/ Enumerate

Spec == Init /\ [][Next]_<<list, response>>
=============================================================================
