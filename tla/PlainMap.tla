------------------------------- MODULE PlainMap -------------------------------
(***************************************************************************)
(* What an enumerable map promises: a function with a finite domain, that  *)
(* lists its entries once each in an order any change may alter, and       *)
(* answers for a key exactly when the key is in the domain.                *)
(***************************************************************************)
EXTENDS Integers, Sequences, FiniteSets

CONSTANTS Keys, Values

VARIABLES
  list,         \* the keys, in the order they are enumerated
  map,          \* a value for each key of the list
  answer        \* what the last call returned

Members == {list[i] : i \in 1 .. Len(list)}

Answer(call, arg, ok, key, value) ==
  [call |-> call, arg |-> arg, ok |-> ok, key |-> key, value |-> value]

Init ==
  /\ list = <<>>
  /\ map = [k \in {} |-> 0]
  /\ answer = Answer("none", 0, FALSE, 0, 0)

Relist(M) ==
  /\ {list'[i] : i \in 1 .. Len(list')} = M
  /\ \A i, j \in 1 .. Len(list') : list'[i] = list'[j] => i = j

\* ok says whether the key is new.
Set(k, v) ==
  /\ answer' = Answer("set", k, k \notin Members, 0, 0)
  /\ Relist(Members \cup {k})
  /\ map' = [x \in Members \cup {k} |-> IF x = k THEN v ELSE map[x]]

Remove(k) ==
  /\ answer' = Answer("remove", k, k \in Members, 0, 0)
  /\ Relist(Members \ {k})
  /\ map' = [x \in Members \ {k} |-> map[x]]

Contains(k) == answer' = Answer("contains", k, k \in Members, 0, 0)

Length == answer' = Answer("length", 0, TRUE, 0, Cardinality(Members))

At ==
  \/ \E i \in 1 .. Len(list) :
       answer' = Answer("at", i - 1, TRUE, list[i], map[list[i]])
  \/ /\ answer'.arg >= Cardinality(Members)
     /\ answer' = Answer("at", answer'.arg, FALSE, 0, 0)

\* tryGet and get differ in what they do for a missing key: the first
\* answers, the second reverts.
Get(k) ==
  \E call \in {"tryGet", "get"} :
    answer' = IF k \in Members THEN Answer(call, k, TRUE, 0, map[k])
                               ELSE Answer(call, k, FALSE, 0, 0)

Next ==
  \/ \E k \in Keys, v \in Values : Set(k, v)
  \/ \E k \in Keys : Remove(k)
  \/ /\ \/ \E k \in Keys : Contains(k) \/ Get(k)
        \/ Length \/ At
     /\ UNCHANGED <<list, map>>

Spec == Init /\ [][Next]_<<list, map, answer>>
=============================================================================
