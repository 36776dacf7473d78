------------------------- MODULE MigrateImportsProofs -------------------------
(***************************************************************************)
(* What TLAPS proves of MigrateImports, for any files in any directories,  *)
(* any texts, and any runs over any paths, of which any are killed.        *)
(*                                                                         *)
(* A run touches the files at its paths and below, all of them and no      *)
(* other.  While it lists, these are two facts about the sets of paths     *)
(* that hold all that is below what they hold: such a set holds the        *)
(* Solidity files of the run if it holds what is queued and found          *)
(* (Reaching), and it holds what is queued if it holds the paths of the    *)
(* run (Within).                                                           *)
(***************************************************************************)
EXTENDS MigrateImports, SequenceTheorems, FiniteSetTheorems, TLAPS

\* What a text may come to consist of.
Word == (UNION {Range(t) : t \in Texts}) \union {r[2] : r \in renames}

\* What may be queued.
Path == AllPaths \union UNION {Range(args) : args \in Given}

Typed ==
  /\ original \in [Files -> Seq(Word)] /\ disk \in [Files -> Seq(Word)]
  /\ pc # "idle" => given \in Given
  /\ queue \in Seq(Path) /\ files \in Seq(Sol) /\ updated \in Seq(Sol)
  /\ passes \in [Sol -> Nat] /\ runs \in Nat /\ kills \in Nat
  /\ pc = "write" => files # <<>>

\* The files that were damaged, by a kill each.
Torn == {f \in Sol : ~Intact(f)}
FewTorn == IsFiniteSet(Torn) /\ Cardinality(Torn) <= kills
OthersKept == \A f \in Other : disk[f] = original[f]

Reaching ==
  pc = "list" =>
    \A C \in SUBSET AllPaths :
      Closed(C) /\ Range(queue) \intersect AllPaths \subseteq C /\ Range(files) \subseteq C
        => Below[given] \subseteq C

Within ==
  /\ pc \in {"list", "update", "write"} => Range(files) \subseteq Below[given]
  /\ pc = "list" =>
       \A C \in SUBSET AllPaths :
         Closed(C) /\ Range(given) \intersect AllPaths \subseteq C
           => Range(queue) \intersect AllPaths \subseteq C

\* How many old paths are left after n runs, at most.
left(f, ref, n) == IF occurrences(original[f], ref) > n THEN occurrences(original[f], ref) - n ELSE 0

\* What the run has yet to look at.
ToDo == IF pc = "write" THEN Range(Tail(files)) ELSE Range(files)

Fewer ==
  \A f \in Sol, ref \in OldRefs :
    /\ occurrences(disk[f], ref) <= left(f, ref, passes[f])
    /\ pc \in {"update", "write"} /\ f \in Below[given] \ ToDo =>
         occurrences(disk[f], ref) <= left(f, ref, passes[f] + 1)

\* A run that has updated nothing has left nothing that it looked at.
FoundNothing ==
  updated = <<>> /\ pc \in {"update", "done"} =>
    \A f \in Below[given] \ ToDo, ref \in OldRefs : occurrences(disk[f], ref) = 0

\* A run that is done has looked at every file.
NothingToDo == pc = "done" => files = <<>>

MInv ==
  /\ Typed /\ FewTorn /\ OthersKept /\ Reaching /\ Within /\ Fewer /\ FoundNothing /\ NothingToDo
-----------------------------------------------------------------------------
(* Texts and the paths in them.                                            *)

LEMMA Least ==
  ASSUME NEW S \in SUBSET Nat, S # {}
  PROVE  \E n \in S : \A m \in S : n <= m
<1>1. PICK n \in S : \A m \in S : <<m, n>> \notin OpToRel(<, Nat)
  BY NatLessThanWellFounded, WFMin
<1>2. \A m \in S : ~(m < n)
  BY <1>1 DEF OpToRel
<1> QED
  BY <1>2

LEMMA Renamed ==
  ASSUME NEW ref \in OldRefs
  PROVE  /\ <<ref, newRef(ref)>> \in renames
         /\ newRef(ref) \in Word /\ newRef(ref) \notin OldRefs
<1>1. \A row \in renames : row = <<row[1], row[2]>>
  BY DEF renames
<1>2. PICK row \in renames : row[1] = ref
  BY DEF OldRefs
<1> DEFINE chosen == CHOOSE x \in renames : x[1] = ref
<1>3. chosen \in renames /\ chosen[1] = ref
  BY <1>2
<1>4. newRef(ref) = chosen[2]
  BY DEF newRef
<1> HIDE DEF chosen
<1>5. <<ref, newRef(ref)>> \in renames
  BY <1>1, <1>3, <1>4
<1>6. newRef(ref) \notin OldRefs
  BY <1>3, <1>4, RowsApart
<1>7. newRef(ref) \in Word
  <2>1. newRef(ref) \in {r[2] : r \in renames}
    BY <1>3, <1>4
  <2> QED
    BY <2>1 DEF Word
<1> QED
  BY <1>5, <1>6, <1>7

LEMMA RenamedIsNew == \A a, b : <<a, b>> \in renames => b \notin OldRefs
BY RowsApart

LEMMA OccurrencesCount ==
  ASSUME NEW S, NEW s \in Seq(S), NEW ref
  PROVE  /\ IsFiniteSet({i \in 1 .. Len(s) : s[i] = ref})
         /\ occurrences(s, ref) \in Nat
         /\ occurrences(s, ref) = 0 <=> \A i \in 1 .. Len(s) : s[i] # ref
<1> DEFINE at == {i \in 1 .. Len(s) : s[i] = ref}
<1>1. IsFiniteSet(1 .. Len(s))
  BY FS_Interval, LenProperties
<1>2. IsFiniteSet(at)
  BY <1>1, FS_Subset
<1>3. Cardinality(at) \in Nat
  BY <1>2, FS_CardinalityType
<1>4. Cardinality(at) = 0 <=> at = {}
  BY <1>2, FS_EmptySet
<1> QED
  BY <1>2, <1>3, <1>4 DEF occurrences

LEMMA FewerInPrefix ==
  ASSUME NEW S, NEW s \in Seq(S), NEW t \in Prefixes(s), NEW ref
  PROVE  t \in Seq(S) /\ occurrences(t, ref) <= occurrences(s, ref)
<1>1. PICK l \in 0 .. Len(s) : t = SubSeq(s, 1, l)
  BY DEF Prefixes
<1>2. t \in Seq(S) /\ Len(t) = l /\ \A i \in 1 .. l : t[i] = s[i]
  BY <1>1
<1>3. {i \in 1 .. Len(t) : t[i] = ref} \subseteq {i \in 1 .. Len(s) : s[i] = ref}
  BY <1>2
<1>4. occurrences(t, ref) <= occurrences(s, ref)
  BY <1>3, OccurrencesCount, FS_Subset DEF occurrences
<1> QED
  BY <1>2, <1>4

LEMMA UpdatedText ==
  ASSUME NEW s \in Seq(Word)
  PROVE  /\ updateImportPaths(s) \in Seq(Word) /\ Len(updateImportPaths(s)) = Len(s)
         /\ \A i \in 1 .. Len(s) :
              updateImportPaths(s)[i] = IF replaced(s, i) THEN newRef(s[i]) ELSE s[i]
<1>1. ASSUME NEW i \in 1 .. Len(s)
      PROVE  (IF replaced(s, i) THEN newRef(s[i]) ELSE s[i]) \in Word
  <2>1. s[i] \in Word
    OBVIOUS
  <2>2. replaced(s, i) => newRef(s[i]) \in Word
    BY Renamed DEF replaced
  <2> QED
    BY <2>1, <2>2
<1> DEFINE u == [i \in 1 .. Len(s) |-> IF replaced(s, i) THEN newRef(s[i]) ELSE s[i]]
<1>2. u \in [1 .. Len(s) -> Word] /\ Len(s) \in Nat
  BY <1>1
<1>3. u \in Seq(Word) /\ Len(u) = Len(s)
  BY <1>2
<1> QED
  BY <1>3 DEF updateImportPaths

(* The first of an old path is found and replaced.                         *)
LEMMA FirstIsReplaced ==
  ASSUME NEW s \in Seq(Word), NEW ref \in OldRefs, occurrences(s, ref) # 0
  PROVE  \E i \in 1 .. Len(s) : s[i] = ref /\ replaced(s, i)
<1> DEFINE at == {i \in 1 .. Len(s) : s[i] = ref}
<1>1. at # {}
  BY OccurrencesCount
<1>2. at \in SUBSET Nat
  BY LenProperties
<1>3. PICK i \in at : \A m \in at : i <= m
  <2> HIDE DEF at
  <2> QED
    BY <1>1, <1>2, Least
<1>4. ASSUME NEW h \in 1 .. i - 1
      PROVE  s[h] # s[i]
  <2>1. i \in 1 .. Len(s) /\ h \in 1 .. Len(s) /\ ~(i <= h)
    BY <1>3, LenProperties
  <2> QED
    BY <1>3, <2>1
<1> QED
  BY <1>3, <1>4 DEF replaced

LEMMA OneFewer ==
  ASSUME NEW s \in Seq(Word), NEW ref \in OldRefs
  PROVE  /\ occurrences(s, ref) = 0 => occurrences(updateImportPaths(s), ref) = 0
         /\ occurrences(s, ref) > 0 =>
              occurrences(updateImportPaths(s), ref) <= occurrences(s, ref) - 1
<1> DEFINE u == updateImportPaths(s)
           at == {i \in 1 .. Len(s) : s[i] = ref}
           then == {i \in 1 .. Len(u) : u[i] = ref}
<1>1. /\ u \in Seq(Word) /\ Len(u) = Len(s)
      /\ \A i \in 1 .. Len(s) : u[i] = IF replaced(s, i) THEN newRef(s[i]) ELSE s[i]
  BY UpdatedText
<1> HIDE DEF u
<1>2. \A i \in then : i \in at /\ ~replaced(s, i)
  BY <1>1, Renamed DEF replaced
<1>3. IsFiniteSet(at) /\ Cardinality(at) \in Nat
  BY OccurrencesCount DEF occurrences
<1>4. ASSUME occurrences(s, ref) = 0
      PROVE  occurrences(u, ref) = 0
  <2>1. at = {}
    BY <1>4, OccurrencesCount
  <2>2. then = {}
    BY <1>2, <2>1
  <2> QED
    BY <2>2, FS_EmptySet DEF occurrences
<1>5. ASSUME occurrences(s, ref) > 0
      PROVE  occurrences(u, ref) <= occurrences(s, ref) - 1
  <2>1. PICK i \in at : replaced(s, i)
    BY <1>5, FirstIsReplaced
  <2>2. IsFiniteSet(at \ {i}) /\ Cardinality(at \ {i}) = Cardinality(at) - 1
    BY <1>3, FS_RemoveElement
  <2>3. then \in SUBSET (at \ {i})
    BY <1>2, <2>1
  <2>4. Cardinality(then) <= Cardinality(at \ {i})
    BY <2>2, <2>3, FS_Subset
  <2> QED
    BY <2>2, <2>4 DEF occurrences
<1> QED
  BY <1>4, <1>5 DEF u

LEMMA UnchangedHasNone ==
  ASSUME NEW s \in Seq(Word), updateImportPaths(s) = s, NEW ref \in OldRefs
  PROVE  occurrences(s, ref) = 0
<1> SUFFICES ASSUME occurrences(s, ref) # 0
             PROVE  FALSE
  OBVIOUS
<1>1. PICK i \in 1 .. Len(s) : s[i] = ref /\ replaced(s, i)
  BY FirstIsReplaced
<1>2. s[i] = newRef(s[i])
  BY <1>1, UpdatedText
<1> QED
  BY <1>1, <1>2, Renamed

LEMMA HeadAndTail ==
  ASSUME NEW S, NEW s \in Seq(S), s # <<>>
  PROVE  /\ Head(s) \in S /\ Tail(s) \in Seq(S)
         /\ Range(s) = {Head(s)} \union Range(Tail(s))
<1>1. /\ Tail(s) \in Seq(S) /\ Len(Tail(s)) = Len(s) - 1 /\ Len(s) \in Nat \ {0}
      /\ \A i \in 1 .. Len(s) - 1 : Tail(s)[i] = s[i + 1]
      /\ Head(s) = s[1] /\ Head(s) \in S
  BY EmptySeq, HeadTailProperties
<1>2. Range(s) = {s[i] : i \in 1 .. Len(s)}
  BY RangeEquality
<1>3. Range(Tail(s)) = {Tail(s)[i] : i \in 1 .. Len(s) - 1}
  BY <1>1, RangeEquality
<1>4. \A i \in 1 .. Len(s) : i = 1 \/ (i - 1 \in 1 .. Len(s) - 1 /\ s[i] = Tail(s)[i - 1])
  BY <1>1
<1>5. \A i \in 1 .. Len(s) - 1 : i + 1 \in 1 .. Len(s) /\ Tail(s)[i] = s[i + 1]
  BY <1>1
<1>6. 1 \in 1 .. Len(s)
  BY <1>1
<1>7. ASSUME NEW x \in Range(s)
      PROVE  x \in {Head(s)} \union Range(Tail(s))
  <2>1. PICK i \in 1 .. Len(s) : x = s[i]
    BY <1>2
  <2> QED
    BY <1>1, <1>3, <1>4, <2>1
<1>8. {Head(s)} \union Range(Tail(s)) \subseteq Range(s)
  BY <1>1, <1>2, <1>3, <1>5, <1>6, Zenon
<1> QED
  BY <1>1, <1>7, <1>8

LEMMA JoinedRange ==
  ASSUME NEW S, NEW s \in Seq(S), NEW t \in Seq(S)
  PROVE  /\ s \o t \in Seq(S)
         /\ \A x : x \in Range(s \o t) <=> x \in Range(s) \/ x \in Range(t)
<1>1. s \o t \in Seq(S)
  BY ConcatProperties
<1>2. Range(s \o t) = Range(s) \union Range(t)
  BY RangeConcatenation
<1> QED
  BY <1>1, <1>2, Zenon

LEMMA AppendedRange ==
  ASSUME NEW S, NEW s \in Seq(S), NEW e \in S
  PROVE  Append(s, e) \in Seq(S) /\ Append(s, e) # <<>> /\ Range(s) \union {e} = Range(Append(s, e))
<1>1. <<e>> \in Seq(S) /\ Range(<<e>>) = {e}
  BY DEF Range
<1>2. Append(s, e) = s \o <<e>> /\ Append(s, e) \in Seq(S) /\ Append(s, e) # <<>>
  BY AppendProperties, AppendIsConcat
<1>3. Range(s \o <<e>>) = Range(s) \union Range(<<e>>)
  BY <1>1, RangeConcatenation
<1> QED
  BY <1>1, <1>2, <1>3, Zenon
-----------------------------------------------------------------------------
(* The invariant.                                                          *)

LEMMA GivenIs ==
  ASSUME NEW args \in Given
  PROVE  args \in Seq(Path)
<1>1. PICK a \in Arguments : args = IF a = <<>> THEN <<"contracts">> ELSE a
  BY DEF Given
<1>2. args \in Seq(Range(args))
  <2>1. CASE a = <<>>
    <3>1. args = <<"contracts">> /\ Range(<<"contracts">>) = {"contracts"}
      BY <1>1, <2>1 DEF Range
    <3> QED
      BY <3>1
  <2>2. CASE a # <<>>
    BY <1>1, <2>2, TreeAssumption
  <2> QED
    BY <2>1, <2>2
<1>3. Range(args) \subseteq Path
  BY DEF Path
<1> QED
  BY <1>2, <1>3, SeqMonotonic

LEMMA BelowIs ==
  ASSUME NEW args \in Given
  PROVE  /\ Below[args] \subseteq Sol
         /\ \A f \in Sol :
              f \in Below[args] <=>
                \A C \in SUBSET AllPaths :
                  Closed(C) /\ Range(args) \intersect AllPaths \subseteq C => f \in C
BY DEF Below

LEMMA LeftIs ==
  ASSUME Typed, NEW f \in Sol, NEW ref \in OldRefs
  PROVE  /\ original[f] \in Seq(Word) /\ disk[f] \in Seq(Word)
         /\ occurrences(original[f], ref) \in Nat /\ occurrences(disk[f], ref) \in Nat
         /\ left(f, ref, passes[f]) \in Nat
         /\ left(f, ref, passes[f] + 1) =
              IF left(f, ref, passes[f]) > 0 THEN left(f, ref, passes[f]) - 1 ELSE 0
<1>1. original[f] \in Seq(Word) /\ disk[f] \in Seq(Word) /\ passes[f] \in Nat
  BY DEF Typed, Files
<1>2. occurrences(original[f], ref) \in Nat /\ occurrences(disk[f], ref) \in Nat
  BY <1>1, OccurrencesCount
<1> QED
  BY <1>1, <1>2 DEF left

LEMMA InitMInv == Init => MInv
<1> SUFFICES ASSUME Init
             PROVE  MInv
  OBVIOUS
<1>1. /\ original \in [Files -> Texts] /\ disk = original
      /\ pc = "idle" /\ queue = <<>> /\ files = <<>> /\ updated = <<>>
      /\ passes = [f \in Sol |-> 0] /\ runs = 0 /\ kills = 0
  BY DEF Init
<1>2. \A t \in Texts : t \in Seq(Word)
  <2>1. ASSUME NEW t \in Texts
        PROVE  t \in Seq(Range(t)) /\ Range(t) \subseteq Word
    BY <2>1, TextAssumption DEF Word
  <2> QED
    BY <2>1, SeqMonotonic
<1>3. original \in [Files -> Seq(Word)]
  BY <1>1, <1>2
<1>4. Typed
  BY <1>1, <1>3, EmptySeq DEF Typed
<1>5. FewTorn
  <2>1. Torn = {}
    BY <1>1 DEF Torn, Intact
  <2> QED
    BY <1>1, <2>1, FS_EmptySet DEF FewTorn
<1>6. OthersKept
  BY <1>1 DEF OthersKept
<1>7. Fewer
  <2> SUFFICES ASSUME NEW f \in Sol, NEW ref \in OldRefs
               PROVE  occurrences(disk[f], ref) <= left(f, ref, passes[f])
    BY <1>1 DEF Fewer
  <2> QED
    BY <1>1, <1>4, LeftIs DEF left
<1> QED
  BY <1>1, <1>4, <1>5, <1>6, <1>7 DEF MInv, Reaching, Within, FoundNothing, NothingToDo

(* While a run lists, no file is touched.                                  *)
LEMMA ListingKeeps ==
  ASSUME MInv, UNCHANGED <<disk, original, counts>>, pc' \in {"list", "failed"}
  PROVE  FewTorn' /\ OthersKept' /\ Fewer' /\ FoundNothing' /\ NothingToDo'
<1>1. FewTorn'
  BY DEF MInv, FewTorn, Torn, Intact, counts
<1>2. OthersKept'
  BY DEF MInv, OthersKept
<1>3. Fewer' /\ FoundNothing' /\ NothingToDo'
  BY DEF MInv, Fewer, FoundNothing, NothingToDo, left, counts
<1> QED
  BY <1>1, <1>2, <1>3

LEMMA MainKeeps ==
  ASSUME MInv, main
  PROVE  MInv'
<1>1. /\ ~Running /\ pc' = "list" /\ files' = <<>> /\ updated' = <<>>
      /\ given' \in Given /\ queue' = given'
      /\ UNCHANGED <<disk, original, counts>>
  BY DEF main
<1>2. queue' \in Seq(Path)
  BY <1>1, GivenIs
<1>3. <<>> \in Seq(Sol) /\ Range(<<>>) = {}
  BY EmptySeq DEF Range
<1>4. Typed'
  <2>1. original' \in [Files -> Seq(Word)] /\ disk' \in [Files -> Seq(Word)]
        /\ passes' \in [Sol -> Nat] /\ runs' \in Nat /\ kills' \in Nat
    BY <1>1 DEF MInv, Typed, counts
  <2> QED
    BY <1>1, <1>2, <1>3, <2>1 DEF Typed
<1>5. FewTorn' /\ OthersKept' /\ Fewer' /\ FoundNothing' /\ NothingToDo'
  BY <1>1, ListingKeeps
<1>6. Reaching'
  <2> SUFFICES ASSUME NEW C \in SUBSET AllPaths, Closed(C),
                      Range(queue') \intersect AllPaths \subseteq C
               PROVE  Below[given'] \subseteq C
    BY DEF Reaching
  <2> QED
    BY <1>1, BelowIs
<1>7. Within'
  BY <1>1, <1>3 DEF Within
<1> QED
  BY <1>4, <1>5, <1>6, <1>7 DEF MInv

LEMMA ListNextKeeps ==
  ASSUME MInv, listNext
  PROVE  MInv'
<1> DEFINE top == Head(queue)
<1>1. /\ pc = "list" /\ queue # <<>> /\ top \in AllPaths
      /\ files' = IF top \in Sol THEN Append(files, top) ELSE files
      /\ queue' = IF top \in DOMAIN Tree THEN Tail(queue) \o Tree[top] ELSE Tail(queue)
      /\ UNCHANGED <<disk, original, pc, given, updated, counts>>
  BY DEF listNext
<1>2. Tail(queue) \in Seq(Path) /\ Range(queue) = {top} \union Range(Tail(queue))
  BY <1>1, HeadAndTail DEF MInv, Typed
<1>3. given \in Given
  BY <1>1 DEF MInv, Typed
<1> HIDE DEF top
<1>4. /\ files' \in Seq(Sol)
      /\ Range(files') = IF top \in Sol THEN Range(files) \union {top} ELSE Range(files)
  <2>1. files \in Seq(Sol)
    BY DEF MInv, Typed
  <2>2. CASE top \in Sol
    BY <1>1, <2>1, <2>2, AppendedRange
  <2>3. CASE top \notin Sol
    BY <1>1, <2>1, <2>3
  <2> QED
    BY <2>2, <2>3
<1>5. /\ queue' \in Seq(Path)
      /\ top \in DOMAIN Tree => Range(queue') = Range(Tail(queue)) \union Range(Tree[top])
      /\ top \notin DOMAIN Tree => Range(queue') = Range(Tail(queue))
  <2>1. CASE top \in DOMAIN Tree
    <3>1. Tree[top] \in Seq(Path)
      BY <2>1, TreeAssumption, SeqMonotonic DEF Path
    <3>2. queue' = Tail(queue) \o Tree[top]
      BY <1>1, <2>1
    <3> QED
      BY <1>2, <2>1, <3>1, <3>2, JoinedRange
  <2>2. CASE top \notin DOMAIN Tree
    BY <1>1, <1>2, <2>2
  <2> QED
    BY <2>1, <2>2
<1>6. Typed'
  BY <1>1, <1>4, <1>5 DEF MInv, Typed, counts
<1>7. FewTorn' /\ OthersKept' /\ Fewer' /\ FoundNothing' /\ NothingToDo'
  BY <1>1, ListingKeeps
<1>8. Reaching'
  <2> SUFFICES ASSUME NEW C \in SUBSET AllPaths, Closed(C),
                      Range(queue') \intersect AllPaths \subseteq C, Range(files') \subseteq C
               PROVE  Below[given] \subseteq C
    BY <1>1 DEF Reaching
  <2> DEFINE D == C \union {top}
  <2>1. top \in DOMAIN Tree => Range(Tree[top]) \subseteq C
    <3>1. top \in DOMAIN Tree => Range(Tree[top]) \subseteq AllPaths
      BY TreeAssumption, RangeOfSeq
    <3> QED
      BY <1>5, <3>1
  <2>2. D \in SUBSET AllPaths /\ Closed(D)
    BY <1>1, <2>1 DEF Closed
  <2>3. Range(queue) \intersect AllPaths \subseteq D /\ Range(files) \subseteq D
    BY <1>2, <1>4, <1>5
  <2>4. Below[given] \subseteq D
    BY <1>1, <2>2, <2>3 DEF MInv, Reaching
  <2>5. Below[given] \subseteq Sol
    BY <1>3, BelowIs
  <2> QED
    BY <1>4, <2>4, <2>5
<1>9. Within'
  <2>1. ASSUME NEW C \in SUBSET AllPaths, Closed(C), Range(given) \intersect AllPaths \subseteq C
        PROVE  top \in C /\ Range(queue') \intersect AllPaths \subseteq C
    <3>1. Range(queue) \intersect AllPaths \subseteq C
      BY <1>1, <2>1 DEF MInv, Within
    <3>2. top \in C
      BY <1>1, <1>2, <3>1
    <3>3. top \in DOMAIN Tree => Range(Tree[top]) \subseteq C
      BY <2>1, <3>2 DEF Closed
    <3> QED
      BY <1>2, <1>5, <3>1, <3>2, <3>3
  <2>2. top \in Sol => top \in Below[given]
    BY <1>3, <2>1, BelowIs
  <2>3. Range(files') \subseteq Below[given]
    BY <1>1, <1>4, <2>2 DEF MInv, Within
  <2> QED
    BY <1>1, <2>1, <2>3 DEF Within
<1> QED
  BY <1>6, <1>7, <1>8, <1>9 DEF MInv

LEMMA FailKeeps ==
  ASSUME MInv, fail
  PROVE  MInv'
<1>1. /\ pc = "list" /\ pc' = "failed"
      /\ UNCHANGED <<disk, original, given, queue, files, updated, counts>>
  BY DEF fail
<1>2. Typed'
  BY <1>1 DEF MInv, Typed, counts
<1>3. FewTorn' /\ OthersKept' /\ Fewer' /\ FoundNothing' /\ NothingToDo'
  BY <1>1, ListingKeeps
<1> QED
  BY <1>1, <1>2, <1>3 DEF MInv, Reaching, Within

LEMMA ListedKeeps ==
  ASSUME MInv, listed
  PROVE  MInv'
<1>1. /\ pc = "list" /\ queue = <<>> /\ pc' = "update"
      /\ UNCHANGED <<disk, original, given, queue, files, updated, counts>>
  BY DEF listed
<1>2. Typed'
  BY <1>1 DEF MInv, Typed, counts
<1>3. Below[given] \subseteq Range(files)
  <2>1. Range(queue) = {}
    BY <1>1 DEF Range
  <2>2. Range(files) \subseteq Sol
    BY RangeOfSeq DEF MInv, Typed
  <2>3. Range(files) \in SUBSET AllPaths /\ Closed(Range(files))
    BY <2>2, TreeAssumption DEF AllPaths, Files, Closed
  <2> QED
    BY <1>1, <2>1, <2>3 DEF MInv, Reaching
<1>4. FewTorn' /\ OthersKept'
  BY <1>1 DEF MInv, FewTorn, Torn, Intact, OthersKept, counts
<1>5. \A f \in Below[given'] : f \in ToDo'
  BY <1>1, <1>3 DEF ToDo
<1>6. Fewer' /\ FoundNothing'
  BY <1>1, <1>5 DEF MInv, Fewer, FoundNothing, left, counts
<1>7. Within'
  BY <1>1 DEF MInv, Within
<1> QED
  BY <1>1, <1>2, <1>4, <1>6, <1>7 DEF MInv, Reaching, NothingToDo

LEMMA Overwritten ==
  ASSUME Typed, NEW f \in Sol, NEW t \in Seq(Word), disk' = [disk EXCEPT ![f] = t]
  PROVE  /\ disk' \in [Files -> Seq(Word)] /\ disk'[f] = t
         /\ \A g \in Files : g # f => disk'[g] = disk[g]
         /\ OthersKept => \A g \in Other : disk'[g] = original[g]
<1> DEFINE T == Seq(Word)
<1>1. disk \in [Files -> T] /\ f \in Files /\ t \in T
  BY DEF Typed, Files
<1> HIDE DEF T
<1>2. disk' \in [Files -> T] /\ disk'[f] = t /\ \A g \in Files : g # f => disk'[g] = disk[g]
  BY <1>1
<1>3. OthersKept => \A g \in Other : disk'[g] = original[g]
  BY <1>2, TreeAssumption DEF OthersKept, Files
<1> QED
  BY <1>2, <1>3 DEF T

LEMMA UpdateKeepsIntact ==
  ASSUME Typed, NEW f \in Sol, Intact(f), UNCHANGED original,
         disk'[f] = updateImportPaths(disk[f])
  PROVE  Intact(f)'
<1> DEFINE before == original[f]
           s == disk[f]
           u == disk'[f]
<1>1. before \in Seq(Word) /\ s \in Seq(Word) /\ Len(s) = Len(before)
  BY DEF Typed, Files, Intact
<1>2. \A i \in 1 .. Len(s) : s[i] = before[i] \/ <<before[i], s[i]>> \in renames
  BY DEF Intact
<1>3. /\ Len(u) = Len(s)
      /\ \A i \in 1 .. Len(s) : u[i] = IF replaced(s, i) THEN newRef(s[i]) ELSE s[i]
  BY <1>1, UpdatedText
<1> SUFFICES /\ Len(u) = Len(before)
             /\ \A i \in 1 .. Len(u) : u[i] = before[i] \/ <<before[i], u[i]>> \in renames
  BY DEF Intact
<1> HIDE DEF before, s, u
<1>4. ASSUME NEW i \in 1 .. Len(u)
      PROVE  u[i] = before[i] \/ <<before[i], u[i]>> \in renames
  <2>1. i \in 1 .. Len(s)
    BY <1>3
  <2>2. CASE replaced(s, i)
    <3>1. s[i] \in OldRefs /\ u[i] = newRef(s[i])
      BY <1>3, <2>1, <2>2 DEF replaced
    <3>2. s[i] = before[i]
      BY <1>2, <2>1, <3>1, RenamedIsNew
    <3> QED
      BY <3>1, <3>2, Renamed
  <2>3. CASE ~replaced(s, i)
    BY <1>2, <1>3, <2>1, <2>3
  <2> QED
    BY <2>2, <2>3
<1> QED
  BY <1>1, <1>3, <1>4

LEMMA UpdateFileKeeps ==
  ASSUME MInv, updateFile
  PROVE  MInv'
<1> DEFINE f == Head(files)
<1>1. /\ pc = "update" /\ files # <<>>
      /\ UNCHANGED <<original, given, queue, updated, passes, runs, kills>>
      /\ \/ /\ updateImportPaths(disk[f]) = disk[f]
            /\ files' = Tail(files) /\ UNCHANGED <<disk, pc>>
         \/ /\ disk' = [disk EXCEPT ![f] = updateImportPaths(disk[f])]
            /\ pc' = "write" /\ UNCHANGED files
  BY DEF updateFile, counts
<1>2. /\ f \in Sol /\ Tail(files) \in Seq(Sol)
      /\ Range(files) = {f} \union Range(Tail(files))
  BY <1>1, HeadAndTail DEF MInv, Typed
<1> HIDE DEF f
<1>3. Typed /\ disk[f] \in Seq(Word) /\ updateImportPaths(disk[f]) \in Seq(Word)
  BY <1>2, UpdatedText DEF MInv, Typed, Files
<1>4. /\ ToDo = Range(files) /\ ToDo' = Range(Tail(files))
      /\ \A g \in Sol : g \in Below[given] \ ToDo' => g = f \/ g \notin ToDo
  BY <1>1, <1>2 DEF ToDo
<1>5. CASE /\ updateImportPaths(disk[f]) = disk[f]
           /\ files' = Tail(files) /\ UNCHANGED <<disk, pc>>
  <2>1. Typed'
    BY <1>1, <1>2, <1>5 DEF MInv, Typed
  <2>2. FewTorn' /\ OthersKept'
    BY <1>1, <1>5 DEF MInv, FewTorn, Torn, Intact, OthersKept
  <2>3. \A ref \in OldRefs : occurrences(disk[f], ref) = 0
    BY <1>3, <1>5, UnchangedHasNone
  <2>4. Fewer'
    <3> SUFFICES ASSUME NEW g \in Sol, NEW ref \in OldRefs
                 PROVE  /\ occurrences(disk[g], ref) <= left(g, ref, passes[g])
                        /\ g \in Below[given] \ ToDo' =>
                             occurrences(disk[g], ref) <= left(g, ref, passes[g] + 1)
      BY <1>1, <1>5 DEF Fewer, left
    <3>1. /\ occurrences(disk[g], ref) <= left(g, ref, passes[g])
          /\ g \in Below[given] \ ToDo => occurrences(disk[g], ref) <= left(g, ref, passes[g] + 1)
      BY <1>1 DEF MInv, Fewer
    <3>2. g = f => occurrences(disk[g], ref) <= left(g, ref, passes[g] + 1)
      BY <1>3, <2>3, LeftIs
    <3> QED
      BY <1>4, <3>1, <3>2
  <2>5. FoundNothing'
    <3> SUFFICES ASSUME updated = <<>>, NEW g \in Below[given] \ ToDo', NEW ref \in OldRefs
                 PROVE  occurrences(disk[g], ref) = 0
      BY <1>1, <1>5 DEF FoundNothing
    <3>1. g = f \/ g \in Below[given] \ ToDo
      BY <1>2, <1>4
    <3> QED
      BY <1>1, <2>3, <3>1 DEF MInv, FoundNothing
  <2>6. Within'
    BY <1>1, <1>2, <1>5 DEF MInv, Within
  <2>7. Reaching' /\ NothingToDo'
    BY <1>1, <1>5 DEF MInv, Reaching, NothingToDo
  <2> QED
    BY <2>1, <2>2, <2>4, <2>5, <2>6, <2>7 DEF MInv
<1>6. CASE /\ disk' = [disk EXCEPT ![f] = updateImportPaths(disk[f])]
           /\ pc' = "write" /\ UNCHANGED files
  <2>1. /\ disk' \in [Files -> Seq(Word)] /\ disk'[f] = updateImportPaths(disk[f])
        /\ \A g \in Files : g # f => disk'[g] = disk[g]
        /\ OthersKept'
    BY <1>1, <1>2, <1>3, <1>6, Overwritten DEF MInv, OthersKept
  <2>2. Typed'
    BY <1>1, <1>3, <1>6, <2>1 DEF Typed
  <2>3. Torn' \subseteq Torn
    <3>1. ASSUME NEW g \in Sol, Intact(g)
          PROVE  Intact(g)'
      <4>1. CASE g = f
        BY <1>1, <1>3, <2>1, <3>1, <4>1, UpdateKeepsIntact
      <4>2. CASE g # f
        BY <1>1, <2>1, <3>1, <4>2 DEF Intact, Files
      <4> QED
        BY <4>1, <4>2
    <3> QED
      BY <3>1 DEF Torn
  <2>4. FewTorn'
    <3>1. Cardinality(Torn) \in Nat /\ IsFiniteSet(Torn') /\ Cardinality(Torn') <= Cardinality(Torn)
          /\ Cardinality(Torn') \in Nat
      BY <2>3, FS_Subset, FS_CardinalityType DEF MInv, FewTorn
    <3> QED
      BY <1>1, <1>3, <3>1 DEF MInv, FewTorn, Typed
  <2>5. Fewer'
    <3> SUFFICES ASSUME NEW g \in Sol, NEW ref \in OldRefs
                 PROVE  /\ occurrences(disk'[g], ref) <= left(g, ref, passes[g])
                        /\ g \in Below[given] \ ToDo' =>
                             occurrences(disk'[g], ref) <= left(g, ref, passes[g] + 1)
      BY <1>1, <1>6 DEF Fewer, left
    <3>1. /\ occurrences(disk[g], ref) <= left(g, ref, passes[g])
          /\ g \in Below[given] \ ToDo => occurrences(disk[g], ref) <= left(g, ref, passes[g] + 1)
      BY <1>1 DEF MInv, Fewer
    <3>2. CASE g = f
      <4>1. occurrences(disk'[g], ref) \in Nat
        BY <1>3, <2>1, <3>2, OccurrencesCount
      <4> QED
        BY <1>3, <2>1, <3>1, <3>2, <4>1, LeftIs, OneFewer
    <3>3. CASE g # f
      BY <1>4, <2>1, <3>1, <3>3 DEF Files
    <3> QED
      BY <3>2, <3>3
  <2> QED
    BY <1>1, <1>6, <2>1, <2>2, <2>4, <2>5 DEF MInv, Reaching, Within, FoundNothing, NothingToDo
<1> QED
  BY <1>1, <1>5, <1>6

LEMMA WrittenKeeps ==
  ASSUME MInv, written
  PROVE  MInv'
<1>1. /\ pc = "write" /\ pc' = "update" /\ files' = Tail(files)
      /\ updated' = Append(updated, Head(files))
      /\ UNCHANGED <<disk, original, given, queue, passes, runs, kills>>
  BY DEF written, counts
<1>2. /\ Head(files) \in Sol /\ Tail(files) \in Seq(Sol)
      /\ Range(files) = {Head(files)} \union Range(Tail(files))
      /\ updated' \in Seq(Sol) /\ updated' # <<>>
  BY <1>1, HeadAndTail, AppendedRange DEF MInv, Typed
<1>3. Typed'
  BY <1>1, <1>2 DEF MInv, Typed
<1>4. FewTorn' /\ OthersKept'
  BY <1>1 DEF MInv, FewTorn, Torn, Intact, OthersKept
<1>5. ToDo' = ToDo
  BY <1>1 DEF ToDo
<1>6. Fewer'
  BY <1>1, <1>5 DEF MInv, Fewer, left
<1>7. Within'
  BY <1>1, <1>2 DEF MInv, Within
<1>8. Reaching' /\ FoundNothing' /\ NothingToDo'
  BY <1>1, <1>2 DEF Reaching, FoundNothing, NothingToDo
<1> QED
  BY <1>3, <1>4, <1>6, <1>7, <1>8 DEF MInv

LEMMA ReportKeeps ==
  ASSUME MInv, report
  PROVE  MInv'
<1>1. /\ pc = "update" /\ files = <<>> /\ pc' = "done" /\ runs' = runs + 1
      /\ passes' = [f \in Sol |-> IF f \in Below[given] THEN passes[f] + 1 ELSE passes[f]]
      /\ UNCHANGED <<disk, original, given, queue, files, updated, kills>>
  BY DEF report
<1>2. Typed'
  BY <1>1 DEF MInv, Typed
<1>3. FewTorn' /\ OthersKept'
  BY <1>1 DEF MInv, FewTorn, Torn, Intact, OthersKept
<1>4. ToDo = {} /\ ToDo' = ToDo
  BY <1>1 DEF ToDo, Range
<1>5. Fewer'
  <2> SUFFICES ASSUME NEW f \in Sol, NEW ref \in OldRefs
               PROVE  occurrences(disk[f], ref) <= left(f, ref, passes'[f])
    BY <1>1 DEF Fewer, left
  <2>1. passes'[f] = IF f \in Below[given] THEN passes[f] + 1 ELSE passes[f]
    BY <1>1
  <2> QED
    BY <1>1, <1>4, <2>1 DEF MInv, Fewer
<1>6. FoundNothing'
  BY <1>1, <1>4 DEF MInv, FoundNothing
<1>7. Reaching' /\ Within' /\ NothingToDo'
  BY <1>1 DEF Reaching, Within, NothingToDo
<1> QED
  BY <1>2, <1>3, <1>5, <1>6, <1>7 DEF MInv

(* A kill damages the file that is being written, or none.                 *)
LEMMA KillKeeps ==
  ASSUME MInv, kill
  PROVE  MInv'
<1>1. /\ Running /\ pc' = "killed" /\ kills' = kills + 1
      /\ UNCHANGED <<original, given, queue, files, updated, passes, runs>>
  BY DEF kill
<1>2. Typed /\ kills \in Nat
  BY DEF MInv, Typed
<1>3. IsFiniteSet(Torn) /\ Cardinality(Torn) \in Nat /\ Cardinality(Torn) <= kills
  BY FS_CardinalityType DEF MInv, FewTorn
<1>4. ASSUME NEW g, Torn' \subseteq Torn \union {g}
      PROVE  FewTorn'
  <2>1. /\ IsFiniteSet(Torn \union {g})
        /\ Cardinality(Torn \union {g}) <= Cardinality(Torn) + 1
        /\ Cardinality(Torn \union {g}) \in Nat
    BY <1>3, FS_AddElement, FS_CardinalityType
  <2>2. IsFiniteSet(Torn') /\ Cardinality(Torn') <= Cardinality(Torn \union {g})
    BY <1>4, <2>1, FS_Subset
  <2>3. Cardinality(Torn') \in Nat
    BY <2>2, FS_CardinalityType
  <2> QED
    BY <1>1, <1>2, <1>3, <2>1, <2>2, <2>3 DEF FewTorn
<1>5. ASSUME Typed', OthersKept',
             \A f \in Sol, ref \in OldRefs : occurrences(disk'[f], ref) <= left(f, ref, passes[f])
      PROVE  Typed' /\ OthersKept' /\ Reaching' /\ Within' /\ Fewer' /\ FoundNothing' /\ NothingToDo'
  BY <1>1, <1>5 DEF Reaching, Within, Fewer, FoundNothing, NothingToDo, left
<1>6. CASE pc # "write"
  <2>1. disk' = disk
    BY <1>6 DEF kill
  <2>2. Typed' /\ OthersKept'
    BY <1>1, <1>2, <2>1 DEF MInv, Typed, OthersKept, Running
  <2>3. Torn' \subseteq Torn \union {0}
    BY <1>1, <2>1 DEF Torn, Intact
  <2>4. \A f \in Sol, ref \in OldRefs : occurrences(disk'[f], ref) <= left(f, ref, passes[f])
    BY <2>1 DEF MInv, Fewer
  <2> QED
    BY <1>4, <1>5, <2>2, <2>3, <2>4 DEF MInv
<1>7. CASE pc = "write"
  <2> DEFINE f == Head(files)
  <2>1. f \in Sol
    BY <1>7, HeadAndTail DEF MInv, Typed
  <2>2. PICK torn \in Prefixes(disk[f]) : disk' = [disk EXCEPT ![f] = torn]
    BY <1>7 DEF kill
  <2> HIDE DEF f
  <2>3. disk[f] \in Seq(Word)
    BY <1>2, <2>1 DEF Typed, Files
  <2>4. /\ torn \in Seq(Word)
        /\ \A ref : occurrences(torn, ref) <= occurrences(disk[f], ref)
    BY <2>3, FewerInPrefix
  <2>5. /\ disk' \in [Files -> Seq(Word)] /\ disk'[f] = torn
        /\ \A g \in Files : g # f => disk'[g] = disk[g]
        /\ OthersKept'
    BY <1>1, <1>2, <2>1, <2>2, <2>4, Overwritten DEF MInv, OthersKept
  <2>6. Typed'
    BY <1>1, <1>2, <2>5 DEF Typed, Running
  <2>7. Torn' \subseteq Torn \union {f}
    BY <1>1, <2>5 DEF Torn, Intact, Files
  <2>8. ASSUME NEW g \in Sol, NEW ref \in OldRefs
        PROVE  occurrences(disk'[g], ref) <= left(g, ref, passes[g])
    <3>1. occurrences(disk[g], ref) <= left(g, ref, passes[g])
      BY DEF MInv, Fewer
    <3>2. CASE g = f
      <4>1. occurrences(torn, ref) \in Nat /\ occurrences(disk[f], ref) \in Nat
            /\ left(f, ref, passes[f]) \in Nat
        BY <1>2, <2>1, <2>3, <2>4, OccurrencesCount, LeftIs
      <4> QED
        BY <2>4, <2>5, <3>1, <3>2, <4>1
    <3>3. CASE g # f
      BY <2>5, <3>1, <3>3 DEF Files
    <3> QED
      BY <3>2, <3>3
  <2> QED
    BY <1>4, <1>5, <2>5, <2>6, <2>7, <2>8 DEF MInv
<1> QED
  BY <1>6, <1>7

LEMMA NextMInv == MInv /\ [Next]_vars => MInv'
<1>1. ASSUME MInv, UNCHANGED vars
      PROVE  MInv'
  <2>1. Typed'
    BY <1>1 DEF vars, counts, MInv, Typed
  <2>2. FewTorn' /\ OthersKept'
    BY <1>1 DEF vars, counts, MInv, FewTorn, Torn, Intact, OthersKept
  <2>3. ToDo' = ToDo
    BY <1>1 DEF vars, counts, ToDo
  <2>4. Reaching' /\ Within' /\ NothingToDo'
    BY <1>1 DEF vars, counts, MInv, Reaching, Within, NothingToDo
  <2>5. Fewer' /\ FoundNothing'
    BY <1>1, <2>3 DEF vars, counts, MInv, Fewer, FoundNothing, left
  <2> QED
    BY <2>1, <2>2, <2>4, <2>5 DEF MInv
<1> QED
  BY <1>1, MainKeeps, ListNextKeeps, FailKeeps, ListedKeeps, UpdateFileKeeps, WrittenKeeps, ReportKeeps,
     KillKeeps
  DEF Next, Script

(* However the runs are killed and repeated, the files stay as the         *)
(* invariant says.                                                         *)
THEOREM MigrationInvariant == Spec => []MInv
BY InitMInv, NextMInv, PTL DEF Spec
-----------------------------------------------------------------------------
(* What users rely on.                                                     *)

(* No more files are damaged than runs were killed, and none that is not   *)
(* Solidity: everything else in a text stays, or is a path replaced by its *)
(* new one.                                                                *)
THEOREM DamageByKillsOnly == Spec => []Damage
<1>1. MInv => Damage
  BY DEF MInv, FewTorn, Torn, OthersKept, Damage
<1> QED
  BY <1>1, MigrationInvariant, PTL

(* Every run that ends replaces one occurrence of every old path in every  *)
(* Solidity file at its paths and below, whatever was killed before and    *)
(* whatever paths other runs were given.                                   *)
THEOREM EachRunReplacesOne == Spec => []OnePerRun
<1>1. ASSUME MInv
      PROVE  OnePerRun
  <2> SUFFICES ASSUME NEW f \in Sol, NEW ref \in OldRefs
               PROVE  LET k == occurrences(original[f], ref) - passes[f]
                      IN  occurrences(disk[f], ref) <= IF k > 0 THEN k ELSE 0
    BY DEF OnePerRun
  <2>1. occurrences(original[f], ref) \in Nat /\ passes[f] \in Nat
    BY <1>1, LeftIs DEF MInv, Typed
  <2>2. occurrences(disk[f], ref) <= left(f, ref, passes[f])
    BY <1>1 DEF MInv, Fewer
  <2> QED
    BY <2>1, <2>2 DEF left
<1> QED
  BY <1>1, MigrationInvariant, PTL

(* A run that reports that no files were updated has left no old path in   *)
(* the files at its paths and below.                                       *)
THEOREM NothingUpdatedNothingLeft == Spec => []NoneLeft
<1>1. ASSUME MInv
      PROVE  NoneLeft
  <2> SUFFICES ASSUME pc = "done", updated = <<>>, NEW f \in Below[given], NEW ref \in OldRefs
               PROVE  occurrences(disk[f], ref) = 0
    BY DEF NoneLeft
  <2>1. f \notin ToDo
    BY <1>1 DEF MInv, NothingToDo, ToDo, Range
  <2> QED
    BY <1>1, <2>1 DEF MInv, FoundNothing
<1> QED
  BY <1>1, MigrationInvariant, PTL

(* A run writes no file but the Solidity files at its paths and below.     *)
THEOREM OnlyGivenFiles == Spec => OnlyGiven
<1>1. ASSUME MInv, [Next]_vars, NEW f \in Files, disk'[f] # disk[f]
      PROVE  f \in Below[given]
  <2>1. updateFile \/ kill
    BY <1>1 DEF Next, Script, main, listNext, fail, listed, written, report, vars
  <2>2. ASSUME pc \in {"update", "write"}, files # <<>>,
               NEW t, disk' = [disk EXCEPT ![Head(files)] = t]
        PROVE  f \in Below[given]
    <3>1. disk \in [Files -> Seq(Word)] /\ files \in Seq(Sol)
      BY <1>1 DEF MInv, Typed
    <3>2. f = Head(files)
      BY <1>1, <2>2, <3>1
    <3>3. f \in Range(files)
      BY <2>2, <3>1, <3>2, HeadAndTail
    <3> QED
      BY <1>1, <2>2, <3>3 DEF MInv, Within
  <2>3. CASE updateFile
    BY <1>1, <2>2, <2>3 DEF updateFile
  <2>4. CASE kill
    <3>1. pc = "write"
      BY <1>1, <2>4 DEF kill
    <3>2. files # <<>>
      BY <1>1, <3>1 DEF MInv, Typed
    <3>3. PICK torn \in Prefixes(disk[Head(files)]) : disk' = [disk EXCEPT ![Head(files)] = torn]
      BY <2>4, <3>1 DEF kill
    <3> QED
      BY <2>2, <3>1, <3>2, <3>3
  <2> QED
    BY <2>1, <2>3, <2>4
<1>2. MInv /\ [Next]_vars => [\A f \in Files : disk'[f] # disk[f] => f \in Below[given]]_vars
  BY <1>1
<1> QED
  BY <1>2, MigrationInvariant, PTL DEF Spec, OnlyGiven
===============================================================================
