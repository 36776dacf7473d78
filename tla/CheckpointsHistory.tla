-------------------------- MODULE CheckpointsHistory --------------------------
(***************************************************************************)
(* History: the legacy flavour of Checkpoints, keyed by block.number cast  *)
(* to uint32, as CheckpointsMock.js exposes it.  The governance contracts  *)
(* push to it through `op` with the checked _add and _subtract of          *)
(* governance/utils/Votes.sol.                                             *)
(***************************************************************************)
EXTENDS Checkpoints

CONSTANTS
  MaxBlock,     \* bound on block.number; above MaxKey, the casts revert
  Sqrt(_)       \* Math.sqrt, from math/Math.sol

\* What the code needs of Math.sqrt: the pivot len - sqrt(len) is a position
\* of the array.
ASSUME SqrtAssumption ==
  /\ MaxBlock \in Nat
  /\ \A n \in 1 .. MaxKey + 1 : Sqrt(n) \in 1 .. n

VARIABLE block  \* block.number

hvars == <<ckpts, search, answer, block>>

HistoryInit == CheckpointsInit /\ block = 0

\* SafeCast.toUint32 and toUint224: the value, or a revert.
toUint32(n) == n \in Keys
toUint224(n) == n \in Values

\* Mutant: the block number is cut to its low bits instead of being checked.
pushTruncated(v) ==
  /\ search = Idle
  /\ toUint224(v)
  /\ insert(block % (MaxKey + 1), v)
  /\ UNCHANGED block

pushValue(v) ==
  /\ search = Idle
  /\ toUint32(block)
  /\ toUint224(v)
  /\ insert(block, v)
  /\ UNCHANGED block

\* push(self, op, delta) with op = Votes._add or Votes._subtract; checked
\* subtraction reverts below 0.
pushAdd(delta) == pushValue(latestValue + delta)
pushSubtract(delta) == latestValue >= delta /\ pushValue(latestValue - delta)

getAtBlock(blockNumber) ==
  /\ blockNumber < block
  /\ toUint32(blockNumber)
  /\ Begin("upper", blockNumber, 0, length)
  /\ UNCHANGED block

\* Mutant: the cut section ends one position early.
recentOneOff(blockNumber) ==
  /\ blockNumber < block
  /\ toUint32(blockNumber)
  /\ LET mid == length - Sqrt(length)
     IN \/ length <= 5 /\ Begin("upper", blockNumber, 0, length)
        \/ /\ length > 5
           /\ \/ /\ blockNumber < unsafeAccess(mid).key
                 /\ Begin("upper", blockNumber, 0, mid - 1)
              \/ /\ blockNumber >= unsafeAccess(mid).key
                 /\ Begin("upper", blockNumber, mid + 1, length)
  /\ UNCHANGED block

\* The section is first cut at the last sqrt(len) checkpoints.
getAtProbablyRecentBlock(blockNumber) ==
  /\ blockNumber < block
  /\ toUint32(blockNumber)
  /\ LET mid == length - Sqrt(length)
     IN \/ length <= 5 /\ Begin("upper", blockNumber, 0, length)
        \/ /\ length > 5
           /\ \/ /\ blockNumber < unsafeAccess(mid).key
                 /\ Begin("upper", blockNumber, 0, mid)
              \/ /\ blockNumber >= unsafeAccess(mid).key
                 /\ Begin("upper", blockNumber, mid + 1, length)
  /\ UNCHANGED block

\* The chain moves on between calls.
Mine ==
  /\ search = Idle
  /\ block < MaxBlock
  /\ block' = block + 1
  /\ UNCHANGED cvars

HistoryNext ==
  \/ \E v \in 0 .. MaxValue + 1 : pushValue(v) \/ pushAdd(v) \/ pushSubtract(v)
  \/ \E b \in 0 .. MaxBlock : getAtBlock(b) \/ getAtProbablyRecentBlock(b)
  \/ Mine
  \/ (latest \/ latestCheckpoint \/ LookupStep) /\ UNCHANGED block

HistorySpec == HistoryInit /\ [][HistoryNext]_hvars

\* The past of a governance vote is immutable: the value at a block that is
\* over never changes, not even for later pushes, nor when the block number
\* outgrows its 32 bits.
PastFixed ==
  [][\A k \in Keys, v \in Values :
       k < block /\ History!IsUpper(Points, k, v)
         => History!IsUpper(Points', k, v)]_hvars

\* The `require` on the order of keys never refuses a push at the current
\* block: no checkpoint is in the future.
NoFutureCheckpoint == \A i \in 1 .. Len(ckpts) : ckpts[i].key <= block
=============================================================================
