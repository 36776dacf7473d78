---------------------------- MODULE MigrateImports ----------------------------
(***************************************************************************)
(* scripts/migrate-imports.js, which users run over their own contracts    *)
(* when they upgrade: it lists the Solidity files at the paths it is given *)
(* and below, which are those below "contracts" only if it is given none,  *)
(* and rewrites in one file after the other the paths of the contracts     *)
(* that moved.  The process may be killed at any point and run again, over *)
(* other paths; a kill in the middle of fs.writeFile leaves the start of   *)
(* the new text.                                                           *)
(*                                                                         *)
(* A text is a sequence of references to the package and of other text.    *)
(* Every row of the script's table pairs a path with a path that no row    *)
(* renames; the rows here are one of each sort.                            *)
(***************************************************************************)
EXTENDS Integers, Sequences, SequencesExt, FiniteSets

CONSTANTS
  Tree,       \* the paths in each directory
  Sol,        \* the paths of the Solidity files
  Other,      \* the paths of other files
  Arguments,  \* the arguments that a run may get, of which there may be none
  Texts,      \* the texts that a file may have at first
  MaxRuns,    \* bound on the runs of the script
  MaxKills    \* bound on the runs that are killed

Files == Sol \union Other
AllPaths == DOMAIN Tree \union Files

\* C holds all that is below the directories it holds.
Closed(C) == \A dir \in C \intersect DOMAIN Tree : Range(Tree[dir]) \subseteq C

\* A Solidity file is nothing else, and directories hold what there is.
\* An argument may be a path where nothing is.
ASSUME TreeAssumption ==
  /\ Sol \intersect (DOMAIN Tree \union Other) = {}
  /\ \A dir \in DOMAIN Tree : Tree[dir] \in Seq(AllPaths)
  /\ \A args \in Arguments : args \in Seq(Range(args))

ASSUME TextAssumption == \A t \in Texts : t \in Seq(Range(t))

\* What a run lists: its arguments, or "contracts" when it gets none.
Given == {IF args = <<>> THEN <<"contracts">> ELSE args : args \in Arguments}

\* The Solidity files among these paths or in directories below them.
Below ==
  [args \in Given |->
     {f \in Sol : \A C \in SUBSET AllPaths :
                    Range(args) \intersect AllPaths \subseteq C /\ Closed(C) => f \in C}]

plain == "@openzeppelin/contracts"
upgradeable == "@openzeppelin/contracts-upgradeable"
file(dir, name) == [dir |-> dir, name |-> <<name>>]
refTo(package, f) == [package |-> package, dir |-> f.dir, name |-> f.name]
text == refTo("", file("", ""))

pathUpdates == <<
  <<file("math", "Math"), file("utils/math", "Math")>>,
  <<file("payment", "PaymentSplitter"), file("finance", "PaymentSplitter")>>,
  <<file("utils", "PaymentSplitter"), file("finance", "PaymentSplitter")>>,
  <<file("proxy", "UpgradeableProxy"), file("proxy/ERC1967", "ERC1967Proxy")>> >>

getUpgradeablePath(f) == [f EXCEPT !.name = Append(@, "Upgradeable")]

\* What the rows rename, in the plain and in the upgradeable package.
renames ==
  {<<refTo(plain, pathUpdates[i][1]), refTo(plain, pathUpdates[i][2])>> :
     i \in 1 .. Len(pathUpdates)}
  \union
  {<<refTo(upgradeable, getUpgradeablePath(pathUpdates[i][1])),
     refTo(upgradeable, getUpgradeablePath(pathUpdates[i][2]))>> : i \in 1 .. Len(pathUpdates)}

OldRefs == {r[1] : r \in renames}
newRef(ref) == (CHOOSE r \in renames : r[1] = ref)[2]

\* No row renames what another row has written, so their order is nothing.
ASSUME RowsApart == \A r \in renames : r[2] \notin OldRefs

\* String.replace with a string replaces its first occurrence.
replaced(source, i) ==
  source[i] \in OldRefs /\ \A h \in 1 .. i - 1 : source[h] # source[i]

\* Mutant: stops at the first row that changes the text.
updateFirst(source) ==
  LET first == SelectInSeq(source, LAMBDA ref : ref \in OldRefs)
  IN [i \in 1 .. Len(source) |-> IF i = first THEN newRef(source[i]) ELSE source[i]]

\* Mutant: the package of the upgradeable row is lost.
updateToPlain(source) ==
  [i \in 1 .. Len(source) |->
     IF replaced(source, i) THEN [newRef(source[i]) EXCEPT !.package = plain] ELSE source[i]]

updateImportPaths(source) ==
  [i \in 1 .. Len(source) |-> IF replaced(source, i) THEN newRef(source[i]) ELSE source[i]]

-----------------------------------------------------------------------------

VARIABLES
  disk,       \* the text of each file
  original,   \* the text it had before the first run
  pc,
  given,      \* the paths that the run was given
  queue,      \* the paths to look at
  files,      \* the Solidity files found, then those still to update
  updated,    \* the files the run has updated
  passes,     \* history: how many runs over each file came to their end
  runs, kills \* how many runs came to their end, and how many were killed

counts == <<passes, runs, kills>>
vars == <<disk, original, pc, given, queue, files, updated, counts>>

Init ==
  /\ original \in [Files -> Texts] /\ disk = original
  /\ pc = "idle"
  /\ given = <<>> /\ queue = <<>> /\ files = <<>> /\ updated = <<>>
  /\ passes = [f \in Sol |-> 0] /\ runs = 0 /\ kills = 0

Running == pc \in {"list", "update", "write"}

\* Mutant: lists "contracts" as well as the arguments.
mainAlso ==
  /\ ~Running
  /\ runs + kills < MaxRuns
  /\ given' \in Given /\ queue' = <<"contracts">> \o given'
  /\ files' = <<>> /\ updated' = <<>>
  /\ pc' = "list"
  /\ UNCHANGED <<disk, original, counts>>

main ==
  /\ ~Running
  /\ runs + kills < MaxRuns
  /\ given' \in Given /\ queue' = given'
  /\ files' = <<>> /\ updated' = <<>>
  /\ pc' = "list"
  /\ UNCHANGED <<disk, original, counts>>

\* Mutant: lists no directory but those given.
listFlat ==
  /\ pc = "list" /\ queue # <<>> /\ Head(queue) \in AllPaths
  /\ LET top == Head(queue)
     IN /\ files' = IF top \in Sol THEN Append(files, top) ELSE files
        /\ queue' = IF top \in DOMAIN Tree /\ top \in Range(given)
                      THEN Tail(queue) \o Tree[top] ELSE Tail(queue)
  /\ UNCHANGED <<disk, original, pc, given, updated, counts>>

\* The body of the loop of listFilesRecursively.
listNext ==
  /\ pc = "list" /\ queue # <<>> /\ Head(queue) \in AllPaths
  /\ LET top == Head(queue)
     IN /\ files' = IF top \in Sol THEN Append(files, top) ELSE files
        /\ queue' = IF top \in DOMAIN Tree THEN Tail(queue) \o Tree[top] ELSE Tail(queue)
  /\ UNCHANGED <<disk, original, pc, given, updated, counts>>

\* There is nothing at a path: fs.stat rejects, which ends the process.
fail ==
  /\ pc = "list" /\ queue # <<>> /\ Head(queue) \notin AllPaths
  /\ pc' = "failed"
  /\ UNCHANGED <<disk, original, given, queue, files, updated, counts>>

listed ==
  /\ pc = "list" /\ queue = <<>>
  /\ pc' = "update"
  /\ UNCHANGED <<disk, original, given, queue, files, updated, counts>>

\* updateFile: the new text is on the disk for certain once it is written.
updateFile ==
  /\ pc = "update" /\ files # <<>>
  /\ LET f == Head(files)
     IN IF updateImportPaths(disk[f]) = disk[f]
          THEN files' = Tail(files) /\ UNCHANGED <<disk, pc>>
          ELSE /\ disk' = [disk EXCEPT ![f] = updateImportPaths(disk[f])]
               /\ pc' = "write" /\ UNCHANGED files
  /\ UNCHANGED <<original, given, queue, updated, counts>>

written ==
  /\ pc = "write"
  /\ updated' = Append(updated, Head(files))
  /\ files' = Tail(files)
  /\ pc' = "update"
  /\ UNCHANGED <<disk, original, given, queue, counts>>

\* The run prints what it updated.
report ==
  /\ pc = "update" /\ files = <<>>
  /\ pc' = "done" /\ runs' = runs + 1
  /\ passes' = [f \in Sol |-> IF f \in Below[given] THEN passes[f] + 1 ELSE passes[f]]
  /\ UNCHANGED <<disk, original, given, queue, files, updated, kills>>

kill ==
  /\ Running /\ kills < MaxKills
  /\ pc' = "killed" /\ kills' = kills + 1
  /\ IF pc = "write"
       THEN \E torn \in Prefixes(disk[Head(files)]) : disk' = [disk EXCEPT ![Head(files)] = torn]
       ELSE UNCHANGED disk
  /\ UNCHANGED <<original, given, queue, files, updated, passes, runs>>

Script == listNext \/ fail \/ listed \/ updateFile \/ written \/ report
Next == main \/ Script \/ kill
Spec == Init /\ [][Next]_vars

-----------------------------------------------------------------------------
(* Properties.                                                             *)

occurrences(s, ref) == Cardinality({i \in 1 .. Len(s) : s[i] = ref})

\* Nothing is lost of a text but the old paths, which stand replaced by their
\* new ones.
Intact(f) ==
  /\ Len(disk[f]) = Len(original[f])
  /\ \A i \in 1 .. Len(disk[f]) :
       disk[f][i] = original[f][i] \/ <<original[f][i], disk[f][i]>> \in renames

\* The runs, killed and repeated at will, damage no more files than they were
\* killed, and no file that is not Solidity.
Damage ==
  /\ Cardinality({f \in Sol : ~Intact(f)}) <= kills
  /\ \A f \in Other : disk[f] = original[f]

\* Each run that ends has replaced one occurrence of every old path in every
\* file at its paths and below, so a path that stands k times in a text takes
\* k runs over the file, whatever runs there are over others.
OnePerRun ==
  \A f \in Sol, ref \in OldRefs :
    LET k == occurrences(original[f], ref) - passes[f]
    IN occurrences(disk[f], ref) <= IF k > 0 THEN k ELSE 0

\* "No files were updated" is printed only when no old path is left in the
\* files at the paths of the run and below.
NoneLeft ==
  pc = "done" /\ updated = <<>> =>
    \A f \in Below[given], ref \in OldRefs : occurrences(disk[f], ref) = 0

\* No run writes a file that is not at its paths or below, be it by a write
\* that a kill tears.
OnlyGiven == [][\A f \in Files : disk'[f] # disk[f] => f \in Below[given]]_vars

\* CHANGELOG.md: the script "will migrate import statements automatically".
\* A run that came to its end would have left no old path in its files.
MigratedAtOnce ==
  pc = "done" => \A f \in Below[given], ref \in OldRefs : occurrences(disk[f], ref) = 0
=============================================================================
