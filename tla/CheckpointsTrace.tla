--------------------------- MODULE CheckpointsTrace ---------------------------
(***************************************************************************)
(* Trace224 and Trace160: the flavours of Checkpoints whose keys the       *)
(* caller chooses, as CheckpointsMock.js exposes them.                     *)
(***************************************************************************)
EXTENDS Checkpoints

push(k, v) == search = Idle /\ insert(k, v)

lowerLookup(k) == Begin("lower", k, 0, length)

upperLookup(k) == Begin("upper", k, 0, length)

TraceNext ==
  \/ \E k \in Keys, v \in Values : push(k, v)
  \/ \E k \in Keys : lowerLookup(k) \/ upperLookup(k)
  \/ latest
  \/ latestCheckpoint
  \/ LookupStep

TraceSpec == CheckpointsInit /\ [][TraceNext]_cvars

\* An EVM call that was started is executed to its end.
TraceFair == TraceSpec /\ WF_cvars(LookupStep)

\* What was recorded is final once a newer key exists: no push changes the
\* answer to a lookup at an older key.
OldKeysFixed ==
  [][\A k \in Keys, v \in Values :
       /\ \E p \in Points : p.key > k
       /\ History!IsUpper(Points, k, v)
       => History!IsUpper(Points', k, v)]_cvars

\* Every lookup returns, whatever was pushed before.
LookupReturns == search # Idle ~> search = Idle
=============================================================================
