--------------------------- MODULE InheritanceProofs ---------------------------
(***************************************************************************)
(* Proofs about the inheritance check, for any number of contracts and     *)
(* artifacts.                                                              *)
(***************************************************************************)
EXTENDS InheritanceOrdering, FiniteSetTheorems, TLAPS

Ids == 1 .. Len(contracts)
ReadIds == {c \in 1 .. read : ~contracts[c].mock}

\* What solc guarantees of the chains: ids of the artifact, each once.
ChainOK(chain, n) ==
  /\ chain \in Seq(Nat)
  /\ \A i \in 1 .. Len(chain) : chain[i] \in 1 .. n
  /\ Distinct(chain)

ContractsOK ==
  /\ contracts \in Seq([mock: BOOLEAN, chain: Seq(Nat)])
  /\ \A c \in Ids : ChainOK(contracts[c].chain, Len(contracts))

\* What the script has gathered is what it has read so far.
Gathered ==
  /\ read \in 0 .. Len(contracts)
  /\ linearized = {contracts[c].chain : c \in ReadIds}
  /\ \A e : e \in graph <=> \E c \in ReadIds : e \in edges(contracts[c].chain)

ReportOf == {[pair |-> p, chains |-> shown(p)] : p \in twoCycles}

\* The report is about the whole artifact, and never dropped before the next.
Reported ==
  /\ phase \in {"open", "read", "reported", "done"}
  /\ phase = "open" => read = 0
  /\ phase \in {"open", "read"} => conflicts = {}
  /\ phase \in {"reported", "done"} => read = Len(contracts) /\ conflicts = ReportOf
  /\ conflicts # {} => exitCode = 1

IInv == ContractsOK /\ Gathered /\ Reported

-----------------------------------------------------------------------------
(* Chains.                                                                 *)

LEMMA BeforeIsOrder ==
  ASSUME NEW chain, NEW n, ChainOK(chain, n), NEW x, NEW y
  PROVE  /\ Before(chain, x, y) => x \in 1 .. n /\ y \in 1 .. n /\ x # y
         /\ Before(chain, x, y) => x \in Members(chain) /\ y \in Members(chain)
         /\ x \in Members(chain) /\ y \in Members(chain) /\ x # y
              => Before(chain, x, y) \/ Before(chain, y, x)
         /\ <<x, y>> \in edges(chain) <=> Before(chain, x, y)
  <1>0. Len(chain) \in Nat
    BY DEF ChainOK
  <1>1. Before(chain, x, y) => x \in 1 .. n /\ y \in 1 .. n /\ x # y
    BY <1>0 DEF Before, ChainOK, Distinct
  <1>2. Before(chain, x, y) => x \in Members(chain) /\ y \in Members(chain)
    BY DEF Before, Members
  <1>3. ASSUME x \in Members(chain), y \in Members(chain), x # y
        PROVE  Before(chain, x, y) \/ Before(chain, y, x)
    <2>1. PICK i \in 1 .. Len(chain) : chain[i] = x
      BY <1>3 DEF Members
    <2>2. PICK j \in 1 .. Len(chain) : chain[j] = y
      BY <1>3 DEF Members
    <2>3. i < j \/ j < i
      BY <1>0, <1>3, <2>1, <2>2
    <2> QED BY <2>1, <2>2, <2>3 DEF Before
  <1>4. <<x, y>> \in edges(chain) <=> Before(chain, x, y)
    BY <1>2 DEF edges
  <1> QED BY <1>1, <1>2, <1>3, <1>4

LEMMA EdgesArePairs ==
  ASSUME NEW chain, NEW e \in edges(chain)
  PROVE  e = <<e[1], e[2]>>
  BY DEF edges

\* An edge each way is a conflict, and nothing else is one.
LEMMA ConflictMeans ==
  ASSUME ContractsOK, Gathered, NEW x, NEW y
  PROVE  /\ <<x, y>> \in graph <=> \E c \in ReadIds : Before(contracts[c].chain, x, y)
         /\ {x, y} \in twoCycles <=> <<x, y>> \in graph /\ <<y, x>> \in graph
  <1>1. \A c \in ReadIds : ChainOK(contracts[c].chain, Len(contracts))
    BY DEF ContractsOK, Gathered, ReadIds, Ids
  <1>2. \A a, b : <<a, b>> \in graph <=> \E c \in ReadIds : Before(contracts[c].chain, a, b)
    BY <1>1, BeforeIsOrder DEF Gathered
  <1>3. ASSUME <<x, y>> \in graph, <<y, x>> \in graph
        PROVE  {x, y} \in twoCycles
    <2> DEFINE e == <<x, y>>
    <2>1. e \in graph /\ <<e[2], e[1]>> \in graph /\ {x, y} = {e[1], e[2]}
      BY <1>3
    <2> QED BY <2>1 DEF twoCycles
  <1>4. ASSUME {x, y} \in twoCycles
        PROVE  <<x, y>> \in graph /\ <<y, x>> \in graph
    <2>1. PICK e \in graph : <<e[2], e[1]>> \in graph /\ {x, y} = {e[1], e[2]}
      BY <1>4 DEF twoCycles
    <2>2. PICK c \in ReadIds : e \in edges(contracts[c].chain)
      BY <2>1 DEF Gathered
    <2>3. e = <<e[1], e[2]>>
      BY <2>2, EdgesArePairs
    <2>4. (x = e[1] /\ y = e[2]) \/ (x = e[2] /\ y = e[1]) \/ (x = y /\ e[1] = e[2])
      BY <2>1
    <2>5. e[1] # e[2]
      <3>1. <<e[1], e[2]>> \in edges(contracts[c].chain)
        BY <2>2, <2>3
      <3>2. Before(contracts[c].chain, e[1], e[2])
        BY <1>1, <3>1, BeforeIsOrder
      <3> QED BY <1>1, <3>2, BeforeIsOrder
    <2> QED BY <2>1, <2>3, <2>4, <2>5
  <1> QED BY <1>2, <1>3, <1>4

-----------------------------------------------------------------------------
(* The steps.                                                              *)

LEMMA InitInv == Init => IInv
  BY DEF Init, IInv, ContractsOK, Ids, Gathered, ReadIds, Reported

LEMMA HeadThenTail ==
  ASSUME NEW h \in Nat, NEW q \in Seq(Nat)
  PROVE  /\ <<h>> \o q \in Seq(Nat)
         /\ Len(<<h>> \o q) = Len(q) + 1
         /\ (<<h>> \o q)[1] = h
         /\ \A i \in 2 .. Len(q) + 1 : (<<h>> \o q)[i] = q[i - 1] /\ i - 1 \in 1 .. Len(q)
  <1>1. <<h>> \in Seq(Nat) /\ Len(<<h>>) = 1 /\ <<h>>[1] = h /\ Len(q) \in Nat
    OBVIOUS
  <1>2. <<h>> \o q \in Seq(Nat) /\ Len(<<h>> \o q) = Len(q) + 1
    BY <1>1
  <1>3. (<<h>> \o q)[1] = h
    BY <1>1
  <1>4. ASSUME NEW i \in 2 .. Len(q) + 1
        PROVE  (<<h>> \o q)[i] = q[i - 1] /\ i - 1 \in 1 .. Len(q)
    BY <1>1
  <1> QED BY <1>2, <1>3, <1>4

LEMMA CompileStep ==
  ASSUME IInv, NEW mock \in BOOLEAN, NEW bases \in BaseLists(Len(contracts)),
         Compile(mock, bases)
  PROVE  IInv'
  <1> DEFINE n == Len(contracts)
             S == Inherited(bases)
  <1>0. /\ n \in Nat /\ contracts \in Seq([mock: BOOLEAN, chain: Seq(Nat)])
        /\ \A c \in 1 .. n : ChainOK(contracts[c].chain, n)
    BY DEF IInv, ContractsOK, Ids
  <1>1. \A i \in 1 .. Len(bases) : bases[i] \in 1 .. n
    <2>1. CASE bases = <<>>
      BY <2>1
    <2>2. ASSUME NEW a \in 1 .. n, bases = <<a>>
          PROVE  \A i \in 1 .. Len(bases) : bases[i] \in 1 .. n
      BY <2>2
    <2>3. ASSUME NEW a \in 1 .. n, NEW b \in 1 .. n, bases = <<a, b>>
          PROVE  \A i \in 1 .. Len(bases) : bases[i] \in 1 .. n
      <3>1. \A i \in 1 .. Len(bases) : i = 1 \/ i = 2
        BY <2>3
      <3> QED BY <2>3, <3>1
    <2> QED BY <2>1, <2>2, <2>3 DEF BaseLists
  <1>2. S \subseteq 1 .. n
    BY <1>0, <1>1 DEF Inherited, Members, ChainOK
  <1>3. Cardinality(S) \in Nat
    <2>1. IsFiniteSet(1 .. n)
      BY <1>0, FS_Interval
    <2>2. IsFiniteSet(S)
      BY <1>2, <2>1, FS_Subset
    <2> QED BY <2>2, FS_CardinalityType
  <1>4. PICK order \in Arrangements(S) :
          contracts' = Append(contracts, [mock |-> mock, chain |-> <<n + 1>> \o order])
    BY DEF Compile
  <1> DEFINE k == Cardinality(S)
             chain == <<n + 1>> \o order
  <1>5. order \in [1 .. k -> S] /\ Distinct(order) /\ order \in Seq(Nat) /\ Len(order) = k
    <2>1. order \in [1 .. k -> S] /\ Distinct(order)
      BY <1>4 DEF Arrangements
    <2>2. \A i \in 1 .. k : order[i] \in Nat
      BY <1>2, <2>1
    <2>3. order \in [1 .. k -> Nat]
      BY <2>1, <2>2
    <2>4. order \in Seq(Nat)
      BY <1>3, <2>3
    <2>5. Len(order) = k
      BY <1>3, <2>1
    <2> QED BY <2>1, <2>4, <2>5
  <1>6. chain \in Seq(Nat) /\ Len(chain) = k + 1 /\ chain[1] = n + 1
        /\ \A i \in 2 .. k + 1 : chain[i] = order[i - 1] /\ i - 1 \in 1 .. k
    BY <1>0, <1>3, <1>5, HeadThenTail
  <1> HIDE DEF chain
  <1>7. ChainOK(chain, n + 1)
    <2>1. \A i \in 2 .. k + 1 : chain[i] \in 1 .. n
      BY <1>2, <1>5, <1>6
    <2>2. \A i \in 1 .. k + 1 : i = 1 \/ i \in 2 .. k + 1
      BY <1>3
    <2>3. \A i \in 1 .. k + 1 : chain[i] \in 1 .. n + 1
      BY <1>0, <1>6, <2>1, <2>2
    <2>4. \A i, j \in 2 .. k + 1 : chain[i] = chain[j] => i = j
      BY <1>3, <1>5, <1>6 DEF Distinct
    <2>5. \A i \in 2 .. k + 1 : chain[i] # chain[1]
      BY <1>0, <1>6, <2>1
    <2>6. Distinct(chain)
      BY <1>6, <2>2, <2>4, <2>5 DEF Distinct
    <2> QED BY <1>6, <2>3, <2>6 DEF ChainOK
  <1>8. /\ contracts' \in Seq([mock: BOOLEAN, chain: Seq(Nat)])
        /\ Len(contracts') = n + 1
        /\ \A c \in 1 .. n : contracts'[c] = contracts[c]
        /\ contracts'[n + 1].chain = chain
    <2>1. contracts' = Append(contracts, [mock |-> mock, chain |-> chain])
      BY <1>4 DEF chain
    <2>2. [mock |-> mock, chain |-> chain] \in [mock: BOOLEAN, chain: Seq(Nat)]
      BY <1>6
    <2> QED BY <1>0, <2>1, <2>2
  <1>9. ContractsOK'
    <2>1. \A c \in 1 .. n : ChainOK(contracts[c].chain, n + 1)
      BY <1>0 DEF ChainOK
    <2>2. \A c \in 1 .. n + 1 : c \in 1 .. n \/ c = n + 1
      BY <1>0
    <2> QED BY <1>7, <1>8, <2>1, <2>2 DEF ContractsOK, Ids
  <1>10. Gathered' /\ Reported'
    <2>1. /\ phase = "open" /\ read = 0 /\ read' = 0 /\ phase' = phase
          /\ graph' = graph /\ linearized' = linearized /\ conflicts' = conflicts
          /\ exitCode' = exitCode /\ conflicts = {}
      BY DEF Compile, IInv, Reported
    <2>2. ReadIds = {} /\ ReadIds' = {}
      BY <2>1 DEF ReadIds
    <2>3. Gathered'
      BY <1>0, <1>8, <2>1, <2>2 DEF IInv, Gathered
    <2> QED BY <2>1, <2>3 DEF Reported
  <1> QED BY <1>9, <1>10 DEF IInv

LEMMA ReadStep ==
  ASSUME IInv, ReadContract
  PROVE  IInv'
  <1> DEFINE c == read + 1
  <1>1. read \in Nat /\ c \in 1 .. Len(contracts) /\ c \in 1 .. c /\ c \notin 1 .. read
    BY DEF IInv, ContractsOK, Gathered, ReadContract
  <1>2. ContractsOK'
    BY DEF IInv, ContractsOK, Ids, ReadContract
  <1>3. Reported'
    BY DEF IInv, Reported, ReadContract
  <1>4. read' = c /\ contracts' = contracts /\ \A d : d \in 1 .. c <=> d \in 1 .. read \/ d = c
    BY <1>1 DEF ReadContract
  <1>5. CASE contracts[c].mock
    <2>1. ReadIds' = ReadIds
      BY <1>4, <1>5 DEF ReadIds
    <2>2. graph' = graph /\ linearized' = linearized
      BY <1>5 DEF ReadContract
    <2>3. Gathered'
      BY <1>1, <1>4, <2>1, <2>2 DEF IInv, Gathered
    <2> QED BY <1>2, <1>3, <2>3 DEF IInv
  <1>6. CASE ~contracts[c].mock
    <2>1. ReadIds' = ReadIds \cup {c}
      BY <1>4, <1>6 DEF ReadIds
    <2>2. /\ graph' = graph \cup edges(contracts[c].chain)
          /\ linearized' = linearized \cup {contracts[c].chain}
      BY <1>6 DEF ReadContract
    <2>3. linearized' = {contracts[d].chain : d \in ReadIds \cup {c}}
      BY <2>2 DEF IInv, Gathered
    <2>4. \A e : e \in graph' <=> \E d \in ReadIds \cup {c} : e \in edges(contracts[d].chain)
      BY <2>2 DEF IInv, Gathered
    <2>5. Gathered'
      <3>1. read' \in 0 .. Len(contracts')
        BY <1>1, <1>4
      <3>2. linearized' = {contracts'[d].chain : d \in ReadIds'}
        BY <1>4, <2>1, <2>3
      <3>3. \A e : e \in graph' <=> \E d \in ReadIds' : e \in edges(contracts'[d].chain)
        BY <1>4, <2>1, <2>4
      <3> QED BY <3>1, <3>2, <3>3 DEF Gathered, edges, Before, Members
    <2> QED BY <1>2, <1>3, <2>5 DEF IInv
  <1> QED BY <1>5, <1>6

LEMMA KeptGathering ==
  ASSUME ContractsOK, Gathered, UNCHANGED <<contracts, read, graph, linearized>>
  PROVE  ContractsOK' /\ Gathered'
  <1>1. ContractsOK'
    BY DEF ContractsOK, Ids
  <1>2. ReadIds' = ReadIds
    BY DEF ReadIds
  <1>3. read' \in 0 .. Len(contracts')
    BY DEF Gathered
  <1>4. linearized' = {contracts'[c].chain : c \in ReadIds'}
    BY <1>2 DEF Gathered
  <1>5. \A e : e \in graph' <=> \E c \in ReadIds' : e \in edges(contracts'[c].chain)
    BY <1>2 DEF Gathered
  <1> QED BY <1>1, <1>3, <1>4, <1>5 DEF Gathered, edges, Before, Members

LEMMA OtherSteps ==
  ASSUME IInv, Require \/ Report \/ NextArtifact \/ Finish \/ UNCHANGED vars
  PROVE  IInv'
  <1>1. CASE Require
    <2>1. ContractsOK' /\ Gathered'
      BY <1>1, KeptGathering DEF IInv, Require
    <2>2. Reported'
      BY <1>1 DEF IInv, Reported, Require
    <2> QED BY <2>1, <2>2 DEF IInv
  <1>2. CASE Report
    <2>1. ContractsOK' /\ Gathered'
      BY <1>2, KeptGathering DEF IInv, Report
    <2>2. conflicts' = ReportOf /\ ReportOf' = ReportOf
      BY <1>2 DEF Report, ReportOf, shown, twoCycles, Members
    <2>3. Reported'
      BY <1>2, <2>2 DEF IInv, Reported, Report
    <2> QED BY <2>1, <2>3 DEF IInv
  <1>3. CASE NextArtifact
    <2>1. ContractsOK' /\ Gathered'
      BY <1>3 DEF ContractsOK, Ids, Gathered, ReadIds, NextArtifact
    <2>2. Reported'
      BY <1>3 DEF IInv, Reported, NextArtifact
    <2> QED BY <2>1, <2>2 DEF IInv
  <1>4. CASE Finish \/ UNCHANGED vars
    <2>1. ContractsOK' /\ Gathered'
      BY <1>4, KeptGathering DEF IInv, Finish, vars
    <2>2. ReportOf' = ReportOf
      BY <1>4 DEF Finish, vars, ReportOf, shown, twoCycles, Members
    <2>3. Reported'
      BY <1>4, <2>2 DEF IInv, Reported, Finish, vars
    <2> QED BY <2>1, <2>3 DEF IInv
  <1> QED BY <1>1, <1>2, <1>3, <1>4

LEMMA StepInv == IInv /\ [Next]_vars => IInv'
  BY CompileStep, ReadStep, OtherSteps DEF Next

LEMMA Safe == Spec => []IInv
  BY InitInv, StepInv, PTL DEF Spec

-----------------------------------------------------------------------------
(* What a report is worth.                                                 *)

LEMMA ReportedPairs ==
  ASSUME IInv, phase \in {"reported", "done"}, NEW x, NEW y
  PROVE  /\ Opposed(x, y) <=> {x, y} \in twoCycles
         /\ {x, y} \in twoCycles <=> \E r \in conflicts : r.pair = {x, y}
  <1>1. ReadIds = Checked
    BY DEF IInv, Reported, ReadIds, Checked
  <1>2. {x, y} \in twoCycles <=> <<x, y>> \in graph /\ <<y, x>> \in graph
    BY ConflictMeans DEF IInv
  <1>3. /\ <<x, y>> \in graph <=> \E c \in Checked : Before(contracts[c].chain, x, y)
        /\ <<y, x>> \in graph <=> \E c \in Checked : Before(contracts[c].chain, y, x)
    BY <1>1, ConflictMeans DEF IInv
  <1>4. Opposed(x, y) <=> {x, y} \in twoCycles
    BY <1>2, <1>3 DEF Opposed
  <1>5. {x, y} \in twoCycles <=> \E r \in conflicts : r.pair = {x, y}
    <2>1. conflicts = ReportOf
      BY DEF IInv, Reported
    <2>2. ASSUME {x, y} \in twoCycles
          PROVE  \E r \in conflicts : r.pair = {x, y}
      <3> DEFINE r == [pair |-> {x, y}, chains |-> shown({x, y})]
      <3>1. r \in ReportOf /\ r.pair = {x, y}
        BY <2>2 DEF ReportOf
      <3> QED BY <2>1, <3>1
    <2>3. ASSUME NEW r \in conflicts, r.pair = {x, y}
          PROVE  {x, y} \in twoCycles
      BY <2>1, <2>3 DEF ReportOf
    <2> QED BY <2>2, <2>3
  <1> QED BY <1>4, <1>5

LEMMA InvReportExact == IInv => ReportExact
  <1> SUFFICES ASSUME IInv, phase \in {"reported", "done"}
               PROVE  /\ \A x, y \in 1 .. Len(contracts) :
                           Opposed(x, y) <=> \E r \in conflicts : r.pair = {x, y}
                      /\ conflicts # {} => exitCode = 1
    BY DEF ReportExact
  <1> QED BY ReportedPairs DEF IInv, Reported

LEMMA InvConflictsExplained == IInv => ConflictsExplained
  <1> SUFFICES ASSUME IInv, NEW r \in conflicts, NEW x \in r.pair, NEW y \in r.pair, x # y
               PROVE  \E chain \in r.chains : Before(chain, x, y)
    BY DEF ConflictsExplained
  <1>1. phase \in {"reported", "done"} /\ conflicts = ReportOf
    BY DEF IInv, Reported
  <1>2. PICK p \in twoCycles : r.pair = p /\ r.chains = shown(p)
    BY <1>1 DEF ReportOf
  <1>3. p = {x, y}
    <2>1. PICK e \in graph : p = {e[1], e[2]}
      BY DEF twoCycles
    <2> QED BY <1>2, <2>1
  <1>4. <<x, y>> \in graph
    BY <1>2, <1>3, ConflictMeans DEF IInv
  <1>5. PICK c \in ReadIds : Before(contracts[c].chain, x, y)
    BY <1>4, ConflictMeans DEF IInv
  <1>6. contracts[c].chain \in linearized
    BY DEF IInv, Gathered
  <1>7. x \in Members(contracts[c].chain) /\ y \in Members(contracts[c].chain)
    BY <1>5 DEF Before, Members
  <1> QED BY <1>2, <1>3, <1>5, <1>6, <1>7 DEF shown

LEMMA InvJoinedIsRanked == IInv => JoinedIsRanked
  <1> SUFFICES ASSUME IInv, phase \in {"reported", "done"}, conflicts = {},
                      NEW top \in linearized,
                      \A ch \in linearized : Members(ch) \ {ch[1]} \subseteq Members(top),
                      NEW chain \in linearized,
                      NEW x \in 1 .. Len(contracts), NEW y \in 1 .. Len(contracts),
                      Before(chain, x, y)
               PROVE  /\ y \in Members(top)
                      /\ x \in Members(top) => Before(top, x, y)
    BY DEF JoinedIsRanked
  <1>1. PICK c \in ReadIds : chain = contracts[c].chain
    BY DEF IInv, Gathered
  <1>2. PICK t \in ReadIds : top = contracts[t].chain
    BY DEF IInv, Gathered
  <1>3. ChainOK(chain, Len(contracts)) /\ ChainOK(top, Len(contracts))
    BY <1>1, <1>2 DEF IInv, ContractsOK, Gathered, ReadIds, Ids
  <1>4. y \in Members(top)
    <2>1. PICK i \in 1 .. Len(chain), j \in 1 .. Len(chain) : i < j /\ chain[j] = y
      BY DEF Before
    <2>2. 1 \in 1 .. Len(chain) /\ j # 1
      BY <1>3, <2>1 DEF ChainOK
    <2>3. y \in Members(chain) /\ y # chain[1]
      BY <1>3, <2>1, <2>2 DEF Members, ChainOK, Distinct
    <2> QED BY <2>3
  <1>5. ASSUME x \in Members(top), ~Before(top, x, y)
        PROVE  FALSE
    <2>1. Before(top, y, x)
      BY <1>3, <1>4, <1>5, BeforeIsOrder
    <2>2. <<x, y>> \in graph /\ <<y, x>> \in graph
      BY <1>1, <1>2, <2>1, ConflictMeans DEF IInv
    <2>3. \E r \in conflicts : r.pair = {x, y}
      BY <2>2, ConflictMeans, ReportedPairs DEF IInv
    <2> QED BY <2>3
  <1> QED BY <1>4, <1>5

\* Whatever the contracts and however many artifacts: the report names
\* exactly the pairs that two chains of the artifact order in opposite ways,
\* and the process fails if there are any.
THEOREM CheckCorrect == Spec => []ReportExact
  BY Safe, InvReportExact, PTL

\* Each conflict is printed with a chain for either order of its pair.
THEOREM ConflictsShown == Spec => []ConflictsExplained
  BY Safe, InvConflictsExplained, PTL

\* Where one contract joins all that have heirs, a clean report means that
\* the whole artifact has one order.
THEOREM CleanMeansRanked == Spec => []JoinedIsRanked
  BY Safe, InvJoinedIsRanked, PTL

\* A conflict in any artifact fails the check for good.
THEOREM CheckFails == Spec => FailureSticks
  <1>1. [Next]_vars => [exitCode = 1 => exitCode' = 1]_vars
    BY DEF Next, Compile, Require, ReadContract, Report, NextArtifact, Finish, vars
  <1> QED BY <1>1, PTL DEF Spec, FailureSticks
=============================================================================
