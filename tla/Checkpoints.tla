----------------------------- MODULE Checkpoints -----------------------------
(***************************************************************************)
(* The library that scripts/generate/templates/Checkpoints.js generates:   *)
(* one history of checkpoints in storage.  The template is instantiated    *)
(* three times (History, Trace224, Trace160); what the instances share is  *)
(* here, what only some have is in CheckpointsHistory and                  *)
(* CheckpointsTrace.                                                       *)
(*                                                                         *)
(* A lookup is a loop over storage; each iteration is a step.  An EVM call *)
(* runs to its end before another begins, so only the loop's own step is   *)
(* enabled while one runs.  A call that reverts changes nothing and is not *)
(* a step.  Positions are the code's, from 0.                              *)
(***************************************************************************)
EXTENDS Integers, Sequences

CONSTANTS
  MaxKey,       \* type(uint32).max for History, uint32 or uint96 for a trace
  MaxValue      \* type(uint224).max, or uint160

ASSUME WidthAssumption == MaxKey \in Nat /\ MaxValue \in Nat

Keys == 0 .. MaxKey
Values == 0 .. MaxValue
Checkpoint == [key: Keys, value: Values]

VARIABLES
  ckpts,        \* self._checkpoints
  search,       \* the locals of the running lookup
  answer        \* what the last call returned to its caller

cvars == <<ckpts, search, answer>>

Idle == [fn |-> "none", key |-> 0, low |-> 0, high |-> 0]
NoAnswer == [call |-> "none", key |-> 0, value |-> 0]

CheckpointsInit ==
  /\ ckpts = <<>>
  /\ search = Idle
  /\ answer = NoAnswer

length == Len(ckpts)

\* Raw storage: a slot past the end of the array was never written.
unsafeAccess(pos) ==
  IF pos < length THEN ckpts[pos + 1] ELSE [key |-> 0, value |-> 0]

average(a, b) == (a + b) \div 2

-----------------------------------------------------------------------------
(* Writing.                                                                *)

latestValue == IF length = 0 THEN 0 ELSE unsafeAccess(length - 1).value

\* Mutant: a second checkpoint at the same key.
insertedTwice(k, v) == Append(ckpts, [key |-> k, value |-> v])

\* The newest checkpoint, updated in place or followed by a new one.
inserted(k, v) ==
  IF length > 0 /\ unsafeAccess(length - 1).key = k
    THEN [ckpts EXCEPT ![length] = [key |-> k, value |-> v]]
    ELSE Append(ckpts, [key |-> k, value |-> v])

\* Mutant: without the require on the order of keys.
insertUnordered(k, v) ==
  /\ ckpts' = inserted(k, v)
  /\ answer' = [call |-> "push", key |-> k, value |-> latestValue]
  /\ UNCHANGED search

\* The call ends with the pair (last value, new value).
insert(k, v) ==
  /\ length > 0 => unsafeAccess(length - 1).key <= k
  /\ ckpts' = inserted(k, v)
  /\ answer' = [call |-> "push", key |-> k, value |-> latestValue]
  /\ UNCHANGED search

-----------------------------------------------------------------------------
(* Reading.                                                                *)

latest ==
  /\ search = Idle
  /\ answer' = [call |-> "latest", key |-> 0, value |-> latestValue]
  /\ UNCHANGED <<ckpts, search>>

latestCheckpoint ==
  /\ search = Idle
  /\ answer' = IF length = 0
                 THEN [call |-> "empty", key |-> 0, value |-> 0]
                 ELSE [call |-> "exists", key |-> unsafeAccess(length - 1).key,
                       value |-> unsafeAccess(length - 1).value]
  /\ UNCHANGED <<ckpts, search>>

\* A lookup enters its loop.
Begin(f, k, lo, hi) ==
  /\ search = Idle
  /\ search' = [fn |-> f, key |-> k, low |-> lo, high |-> hi]
  /\ answer' = NoAnswer
  /\ UNCHANGED ckpts

\* Mutant: the lower bound does not move past the middle.
upperStuck ==
  /\ search.fn = "upper"
  /\ search.low < search.high
  /\ LET mid == average(search.low, search.high)
     IN search' = IF unsafeAccess(mid).key > search.key
                    THEN [search EXCEPT !.high = mid]
                    ELSE [search EXCEPT !.low = mid]
  /\ UNCHANGED <<ckpts, answer>>

upperBinaryLookup ==
  /\ search.fn = "upper"
  /\ search.low < search.high
  /\ LET mid == average(search.low, search.high)
     IN search' = IF unsafeAccess(mid).key > search.key
                    THEN [search EXCEPT !.high = mid]
                    ELSE [search EXCEPT !.low = mid + 1]
  /\ UNCHANGED <<ckpts, answer>>

lowerBinaryLookup ==
  /\ search.fn = "lower"
  /\ search.low < search.high
  /\ LET mid == average(search.low, search.high)
     IN search' = IF unsafeAccess(mid).key < search.key
                    THEN [search EXCEPT !.low = mid + 1]
                    ELSE [search EXCEPT !.high = mid]
  /\ UNCHANGED <<ckpts, answer>>

\* Mutant: the checkpoint at the end position, not the one before it.
upperResultNext ==
  /\ search.fn = "upper"
  /\ search.low >= search.high
  /\ answer' = [call |-> "upper", key |-> search.key,
                value |-> unsafeAccess(search.high).value]
  /\ search' = Idle
  /\ UNCHANGED ckpts

\* The loop has ended at pos = high; the upper lookups return the checkpoint
\* before it, the lower one the checkpoint at it.
upperResult ==
  /\ search.fn = "upper"
  /\ search.low >= search.high
  /\ answer' = [call |-> "upper", key |-> search.key,
                value |-> IF search.high = 0 THEN 0
                          ELSE unsafeAccess(search.high - 1).value]
  /\ search' = Idle
  /\ UNCHANGED ckpts

lowerResult ==
  /\ search.fn = "lower"
  /\ search.low >= search.high
  /\ answer' = [call |-> "lower", key |-> search.key,
                value |-> IF search.high = length THEN 0
                          ELSE unsafeAccess(search.high).value]
  /\ search' = Idle
  /\ UNCHANGED ckpts

LookupStep ==
  \/ upperBinaryLookup \/ upperResult
  \/ lowerBinaryLookup \/ lowerResult

-----------------------------------------------------------------------------
(* Properties of every instance of the template.                           *)

Points == {ckpts[i] : i \in 1 .. Len(ckpts)}
History == INSTANCE ValueHistory WITH points <- Points

\* The representation has the widths the generated types give it.
TypeOK ==
  /\ ckpts \in Seq(Checkpoint)
  /\ search \in [fn: {"none", "upper", "lower"}, key: Keys,
                 low: Nat, high: Nat]
  /\ answer \in [call: History!Calls, key: Keys, value: Values]

\* "Checkpoints keys must be increasing": the array is strictly sorted, with
\* one checkpoint per key, however pushes at old and new keys follow each
\* other.  The binary searches are only right on a sorted array.
KeysIncreasing ==
  \A i, j \in 1 .. Len(ckpts) : i < j => ckpts[i].key < ckpts[j].key

\* _unsafeAccess has no bounds check: in the loop, the middle of the section
\* is always a position of the array ("high should not be greater than the
\* array's length"), and what the section leaves out is on the right side
\* of the key.
SearchSound ==
  search # Idle =>
    /\ search.low <= search.high
    /\ search.high <= Len(ckpts)
    /\ \A i \in 1 .. search.low :
         IF search.fn = "upper" THEN ckpts[i].key <= search.key
                                ELSE ckpts[i].key < search.key
    /\ \A i \in search.high + 1 .. Len(ckpts) :
         IF search.fn = "upper" THEN ckpts[i].key > search.key
                                ELSE ckpts[i].key >= search.key

\* Every iteration leaves at most half of the section, so that a lookup
\* costs a logarithmic number of storage reads.
SearchHalves ==
  [][search # Idle /\ search' # Idle
       => 2 * (search'.high - search'.low) <= search.high - search.low]_cvars

\* Every answer is the one the history of points gives, and points are only
\* added at the newest key.
ImplementsHistory == History!Spec
=============================================================================
