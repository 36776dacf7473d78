---------------------------- MODULE GeneratedMocks ----------------------------
(***************************************************************************)
(* The contracts that scripts/generate/run.js generates, each with one     *)
(* object of its library.  One of them is deployed; the variables of the   *)
(* others stay as they are at first.                                       *)
(***************************************************************************)
EXTENDS CheckpointsTrace, CheckpointsHistory, EnumerableSetMock, EnumerableMapMock,
        SafeCastMock

VARIABLE contract     \* the contract that is deployed

\* CheckpointsTraceMock stands for Checkpoints224Mock and Checkpoints160Mock.
Contracts == {"SafeCastMock", "EnumerableSetMock", "EnumerableMapMock",
              "CheckpointsMock", "CheckpointsTraceMock"}

GeneratedInit ==
  /\ contract \in Contracts
  /\ HistoryInit
  /\ SetInit
  /\ contract # "EnumerableSetMock" => type = "bytes32"
  /\ MapInit
  /\ contract # "EnumerableMapMock" => types = [key |-> "bytes32", value |-> "bytes32"]
  /\ CastInit
  /\ contract # "SafeCastMock" => numType = uintType(Word) /\ number = 0

GeneratedNext ==
  /\ UNCHANGED contract
  /\ \/ contract = "SafeCastMock" /\ CastNext /\ UNCHANGED <<svars, mvars, hvars>>
     \/ contract = "EnumerableSetMock" /\ SetNext /\ UNCHANGED <<nvars, mvars, hvars>>
     \/ contract = "EnumerableMapMock" /\ MapNext /\ UNCHANGED <<nvars, svars, hvars>>
     \/ contract = "CheckpointsMock" /\ HistoryNext /\ UNCHANGED <<nvars, svars, mvars>>
     \/ contract = "CheckpointsTraceMock" /\ TraceNext
        /\ UNCHANGED <<nvars, svars, mvars, block>>

\* An EVM call that was started is executed to its end.
GeneratedSpec ==
  /\ GeneratedInit
  /\ [][GeneratedNext]_<<contract, nvars, svars, mvars, hvars>>
  /\ WF_cvars(LookupStep /\ UNCHANGED <<contract, block, nvars, svars, mvars>>)
=============================================================================
