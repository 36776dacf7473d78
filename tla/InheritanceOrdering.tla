-------------------------- MODULE InheritanceOrdering --------------------------
(***************************************************************************)
(* scripts/checks/inheritance-ordering.js: for each build artifact, read   *)
(* the linearization of every contract outside mocks into a directed graph *)
(* and report the pairs that two contracts order in opposite ways.  The    *)
(* compiler (solc) is external: what the script relies on is that the      *)
(* linearization of a contract starts with it, has each of its bases once, *)
(* and keeps the order of its bases' own linearizations.                   *)
(***************************************************************************)
EXTENDS Integers, Sequences, FiniteSets

CONSTANTS
  MaxContracts,   \* bound on the contracts of an artifact
  MaxArtifacts,   \* bound on the artifacts given on the command line
  MockIds         \* the contracts whose source may be under /mocks/

ASSUME BoundAssumption ==
  /\ MaxContracts \in Nat
  /\ MaxArtifacts \in Nat
  /\ MockIds \subseteq 1 .. MaxContracts

VARIABLES
  phase,          \* where the script is
  artifact,       \* how many artifacts were opened
  contracts,      \* the artifact: for each id, its source is a mock, its chain
  read,           \* how many contracts of the artifact were read
  graph,          \* the edges of the graph
  linearized,     \* the chains read
  conflicts,      \* the conflicts reported for this artifact
  exitCode        \* process.exitCode

vars == <<phase, artifact, contracts, read, graph, linearized, conflicts, exitCode>>

Members(chain) == {chain[i] : i \in 1 .. Len(chain)}

\* x comes before y in the chain: x is the more derived one.
Before(chain, x, y) ==
  \E i, j \in 1 .. Len(chain) : i < j /\ chain[i] = x /\ chain[j] = y

Distinct(chain) ==
  \A i, j \in 1 .. Len(chain) : chain[i] = chain[j] => i = j

-----------------------------------------------------------------------------
(* The compiler.                                                           *)

\* The direct bases of a contract, from the most base-like to the most
\* derived, as in the source; at most two.
BaseLists(n) == {<<>>} \cup {<<a>> : a \in 1 .. n}
                \cup {<<a, b>> : a \in 1 .. n, b \in 1 .. n}

Inherited(bases) ==
  UNION {Members(contracts[bases[i]].chain) : i \in 1 .. Len(bases)}

Arrangements(S) == {f \in [1 .. Cardinality(S) -> S] : Distinct(f)}

\* The chain keeps the order of each base's chain, and has the most derived
\* of the bases first.
Linearizes(chain, bases) ==
  /\ \A i \in 1 .. Len(bases) : \A x, y \in Members(contracts[bases[i]].chain) :
       Before(contracts[bases[i]].chain, x, y) => Before(chain, x, y)
  /\ \A i, j \in 1 .. Len(bases) : i < j => Before(chain, bases[j], bases[i])

\* The compiler adds a contract to the artifact.
Compile(mock, bases) ==
  /\ phase = "open"
  /\ Len(contracts) < MaxContracts
  /\ mock => Len(contracts) + 1 \in MockIds
  /\ \E order \in Arrangements(Inherited(bases)) :
       LET chain == <<Len(contracts) + 1>> \o order
       IN /\ Linearizes(chain, bases)
          /\ contracts' = Append(contracts, [mock |-> mock, chain |-> chain])
  /\ UNCHANGED <<phase, artifact, read, graph, linearized, conflicts, exitCode>>

-----------------------------------------------------------------------------
(* The script.                                                             *)

Init ==
  /\ phase = "open" /\ artifact = 1
  /\ contracts = <<>> /\ read = 0
  /\ graph = {} /\ linearized = {} /\ conflicts = {}
  /\ exitCode = 0

\* require(artifact)
Require ==
  /\ phase = "open"
  /\ phase' = "read"
  /\ UNCHANGED <<artifact, contracts, read, graph, linearized, conflicts, exitCode>>

\* Mutant: only neighbours are linked.
edgesAdjacent(chain) == {<<chain[i], chain[i + 1]>> : i \in 1 .. Len(chain) - 1}

\* An edge from each contract of the chain to every one after it.
edges(chain) ==
  {e \in Members(chain) \X Members(chain) : Before(chain, e[1], e[2])}

\* Mutant: the edges of mocks are in the graph.
readMocks ==
  /\ phase = "read" /\ read < Len(contracts)
  /\ read' = read + 1
  /\ graph' = graph \cup edges(contracts[read + 1].chain)
  /\ linearized' = IF contracts[read + 1].mock THEN linearized
                   ELSE linearized \cup {contracts[read + 1].chain}
  /\ UNCHANGED <<phase, artifact, contracts, conflicts, exitCode>>

ReadContract ==
  /\ phase = "read" /\ read < Len(contracts)
  /\ read' = read + 1
  /\ \/ /\ contracts[read + 1].mock
        /\ UNCHANGED <<graph, linearized>>
     \/ /\ ~contracts[read + 1].mock
        /\ graph' = graph \cup edges(contracts[read + 1].chain)
        /\ linearized' = linearized \cup {contracts[read + 1].chain}
  /\ UNCHANGED <<phase, artifact, contracts, conflicts, exitCode>>

\* The pairs that have an edge each way.
twoCycles == {{e[1], e[2]} : e \in {d \in graph : <<d[2], d[1]>> \in graph}}

\* The chains printed for a conflict.
shown(pair) == {chain \in linearized : pair \subseteq Members(chain)}

\* Mutant: the exit code is that of the last artifact.
reportLast ==
  /\ phase = "read" /\ read = Len(contracts)
  /\ conflicts' = {[pair |-> p, chains |-> shown(p)] : p \in twoCycles}
  /\ exitCode' = IF conflicts' = {} THEN 0 ELSE 1
  /\ phase' = "reported"
  /\ UNCHANGED <<artifact, contracts, read, graph, linearized>>

Report ==
  /\ phase = "read" /\ read = Len(contracts)
  /\ conflicts' = {[pair |-> p, chains |-> shown(p)] : p \in twoCycles}
  /\ exitCode' = IF conflicts' = {} THEN exitCode ELSE 1
  /\ phase' = "reported"
  /\ UNCHANGED <<artifact, contracts, read, graph, linearized>>

\* The next artifact has a graph of its own.
NextArtifact ==
  /\ phase = "reported" /\ artifact < MaxArtifacts
  /\ artifact' = artifact + 1
  /\ phase' = "open"
  /\ contracts' = <<>> /\ read' = 0
  /\ graph' = {} /\ linearized' = {} /\ conflicts' = {}
  /\ UNCHANGED exitCode

Finish ==
  /\ phase = "reported"
  /\ phase' = "done"
  /\ UNCHANGED <<artifact, contracts, read, graph, linearized, conflicts, exitCode>>

Next ==
  \/ \E mock \in BOOLEAN, bases \in BaseLists(Len(contracts)) : Compile(mock, bases)
  \/ Require \/ ReadContract \/ Report \/ NextArtifact \/ Finish

Spec == Init /\ [][Next]_vars

-----------------------------------------------------------------------------
(* Properties.                                                             *)

Checked == {c \in 1 .. Len(contracts) : ~contracts[c].mock}

\* Two contracts outside mocks order x and y in opposite ways.
Opposed(x, y) ==
  \E c, d \in Checked : /\ Before(contracts[c].chain, x, y)
                        /\ Before(contracts[d].chain, y, x)

\* The report is complete and has no false alarm: it names the pairs that
\* two contracts outside mocks order in opposite ways, and no other pair,
\* and the process fails once there is one in any artifact.
ReportExact ==
  phase \in {"reported", "done"} =>
    /\ \A x, y \in 1 .. Len(contracts) :
         Opposed(x, y) <=> \E r \in conflicts : r.pair = {x, y}
    /\ conflicts # {} => exitCode = 1

\* The printed chains explain each conflict: one of them at least orders the
\* pair one way and one the other way.
ConflictsExplained ==
  \A r \in conflicts : \A x, y \in r.pair : x # y =>
    \E chain \in r.chains : Before(chain, x, y)

\* An artifact without a conflict never hides the one of an earlier artifact.
FailureSticks == [][exitCode = 1 => exitCode' = 1]_vars

\* Where one contract inherits from every contract that has heirs, the
\* absence of cycles of length 2 is enough: its chain, after the contracts
\* nothing precedes, is an order that every chain follows.
JoinedIsRanked ==
  phase \in {"reported", "done"} /\ conflicts = {} =>
    \A top \in linearized :
      (\A chain \in linearized : Members(chain) \ {chain[1]} \subseteq Members(top))
      => \A chain \in linearized, x, y \in 1 .. Len(contracts) :
           Before(chain, x, y) =>
             /\ y \in Members(top)
             /\ x \in Members(top) => Before(top, x, y)

\* What the script prints when it reports nothing: "Contract ordering is
\* consistent", on the ground that "we are only interested in cycles of
\* lengths 2 (needs proof)": some order of the contracts agrees with every
\* chain, that is, any set of contracts has one that no other precedes.
OrderingConsistent ==
  phase = "reported" /\ exitCode = 0 =>
    \A S \in SUBSET (1 .. Len(contracts)) \ {{}} :
      \E x \in S : \A y \in S, chain \in linearized : ~Before(chain, y, x)
=============================================================================
