----------------------------- MODULE ValueHistory -----------------------------
(***************************************************************************)
(* What a history of checkpoints promises, whatever its representation: a  *)
(* set of points (key, value), one per key, that only grows or is         *)
(* corrected at its newest key, and three questions about it.  An answer   *)
(* is specified by what it must satisfy, not by how it is found.           *)
(***************************************************************************)
EXTENDS Integers

CONSTANTS
  Keys,         \* block numbers, or the keys of a trace
  Values        \* what is recorded

VARIABLES
  points,       \* the set of points recorded
  answer        \* what the last call returned

Calls == {"none", "push", "upper", "lower", "latest", "exists", "empty"}

\* v is the value of the newest point with a key at most k, 0 without one.
IsUpper(S, k, v) ==
  \/ /\ \A p \in S : p.key > k
     /\ v = 0
  \/ \E p \in S : /\ p.key <= k
                  /\ \A q \in S : q.key <= k => q.key <= p.key
                  /\ v = p.value

\* v is the value of the oldest point with a key at least k, 0 without one.
IsLower(S, k, v) ==
  \/ /\ \A p \in S : p.key < k
     /\ v = 0
  \/ \E p \in S : /\ p.key >= k
                  /\ \A q \in S : q.key >= k => q.key >= p.key
                  /\ v = p.value

\* The newest point of S has key k and value v; (0, 0) stands for no point.
IsLatest(S, k, v) ==
  \/ S = {} /\ k = 0 /\ v = 0
  \/ \E p \in S : /\ \A q \in S : q.key <= p.key
                  /\ k = p.key
                  /\ v = p.value

Pending == [call |-> "none", key |-> 0, value |-> 0]

Init == points = {} /\ answer = Pending

\* A question is under way.
Wait == answer' = Pending /\ UNCHANGED points

\* A point is recorded at a key no older than the newest one; what the call
\* returns is the value that was the latest until then.
Record(k, v) ==
  /\ \A p \in points : p.key <= k
  /\ points' = {p \in points : p.key # k} \cup {[key |-> k, value |-> v]}
  /\ \E l \in Keys, old \in Values :
       /\ IsLatest(points, l, old)
       /\ answer' = [call |-> "push", key |-> k, value |-> old]

Ask(k, v) ==
  /\ \/ IsUpper(points, k, v) /\ answer' = [call |-> "upper", key |-> k, value |-> v]
     \/ IsLower(points, k, v) /\ answer' = [call |-> "lower", key |-> k, value |-> v]
     \/ /\ IsLatest(points, k, v)
        /\ \/ answer' = [call |-> "latest", key |-> 0, value |-> v]
           \/ points # {} /\ answer' = [call |-> "exists", key |-> k, value |-> v]
           \/ points = {} /\ answer' = [call |-> "empty", key |-> 0, value |-> 0]
  /\ UNCHANGED points

Next ==
  \/ \E k \in Keys, v \in Values : Record(k, v) \/ Ask(k, v)
  \/ Wait

Spec == Init /\ [][Next]_<<points, answer>>
=============================================================================
