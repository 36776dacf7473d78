--------------------------- MODULE DocsBranchProofs ---------------------------
(***************************************************************************)
(* What TLAPS proves of DocsBranch, for any number of jobs, in whatever    *)
(* order they start, commit and push.                                      *)
(*                                                                         *)
(* None of the properties is inductive.  What a rejected job committed on  *)
(* is a prefix of the published docs only because no local branch exists   *)
(* before something is published, but for the one of a local job that has  *)
(* not pushed yet, of which there is one at most.  And what is pushed is   *)
(* of no earlier patch only because jobs that do not overlap work on what  *)
(* is released.                                                            *)
(***************************************************************************)
EXTENDS DocsBranch, SequenceTheorems, TLAPS

DocsCommit == [job: Nat, minor: Minors, patch: Nat]
Job == [clone: {"ci", "local"}, minor: Minors, patch: Nat, pre: BOOLEAN,
        pc: {"start", "committed"} \cup Ended, branch: Seq(DocsCommit)]

Typed ==
  /\ released \in [Minors -> [patch: Nat, pre: BOOLEAN]]
  /\ docs \in Seq(DocsCommit) /\ local \in Seq(DocsCommit)
  /\ jobs \in Seq(Job)
  /\ overlapped \in BOOLEAN

\* A commit, or a job, is of a patch that was released.
Known(c) == c.patch <= released[c.minor].patch

Active(j) == jobs[j].pc \notin Ended

\* One run at a time in the maintainer's clone.
OneLocal ==
  \A j, k \in 1 .. Len(jobs) :
    /\ Active(j) /\ jobs[j].clone = "local"
    /\ Active(k) /\ jobs[k].clone = "local"
    => j = k

\* Until jobs overlap, one is active, and it works on what is released.
InTurn ==
  ~overlapped =>
    \A j \in 1 .. Len(jobs) : Active(j) =>
      /\ \A k \in 1 .. Len(jobs) : Active(k) => j = k
      /\ jobs[j].patch = released[jobs[j].minor].patch

\* What a job committed on is published, if anything is, but perhaps its own
\* commit.
Based(j) ==
  LET branch == jobs[j].branch
      base == Front(branch)
  IN  /\ branch # <<>>
      /\ IsPrefix(base, docs)
      /\ Last(branch).minor = jobs[j].minor /\ Last(branch).patch = jobs[j].patch
      /\ base # <<>> =>
           /\ ~older(Last(branch).minor, Last(base).minor)
           /\ Last(branch).minor = Last(base).minor /\ Last(branch).patch < Last(base).patch
                => overlapped

\* A local branch without a published one is that of a job about to push.
LocalFollows ==
  docs = <<>> /\ local # <<>> =>
    \E j \in 1 .. Len(jobs) : jobs[j].clone = "local" /\ jobs[j].pc = "committed"

DocsKnown == \A i \in 1 .. Len(docs) : Known(docs[i])
LocalKnown == \A i \in 1 .. Len(local) : Known(local[i])
JobsKnown == \A j \in 1 .. Len(jobs) : Known(jobs[j])
AllBased ==
  \A j \in 1 .. Len(jobs) : jobs[j].pc \in {"committed", "rejected"} => Based(j)

DInv ==
  /\ Typed /\ DocsKnown /\ LocalKnown /\ JobsKnown
  /\ OneLocal /\ InTurn /\ AllBased /\ LocalFollows
-----------------------------------------------------------------------------
(* Branches as sequences of commits.                                       *)

LEMMA FirstCommits ==
  ASSUME NEW S, NEW s \in Seq(S), NEW n \in Nat, n <= Len(s)
  PROVE  /\ SubSeq(s, 1, n) \in Seq(S) /\ Len(SubSeq(s, 1, n)) = n
         /\ \A i \in 1 .. n : SubSeq(s, 1, n)[i] = s[i]
OBVIOUS

LEMMA PrefixByCommit ==
  ASSUME NEW S, NEW s \in Seq(S), NEW t \in Seq(S)
  PROVE  IsPrefix(s, t) <=> Len(s) <= Len(t) /\ \A i \in 1 .. Len(s) : s[i] = t[i]
<1>1. ASSUME Len(s) <= Len(t)
      PROVE  /\ SubSeq(s, 1, Len(s)) = s
             /\ SubSeq(t, 1, Len(s)) \in Seq(S)
             /\ Len(SubSeq(t, 1, Len(s))) = Len(s)
             /\ \A i \in 1 .. Len(s) : SubSeq(t, 1, Len(s))[i] = t[i]
  BY <1>1
<1>2. ASSUME NEW u \in Seq(S), Len(u) = Len(s), \A i \in 1 .. Len(s) : s[i] = u[i]
      PROVE  s = u
  BY <1>2
<1> QED
  BY <1>1, <1>2 DEF IsPrefix

LEMMA PrefixIsOrder ==
  ASSUME NEW S, NEW s \in Seq(S), NEW t \in Seq(S), NEW u \in Seq(S)
  PROVE  /\ IsPrefix(s, s)
         /\ IsPrefix(<<>>, s)
         /\ IsPrefix(s, t) /\ IsPrefix(t, u) => IsPrefix(s, u)
<1>1. IsPrefix(s, s)
  BY PrefixByCommit
<1>2. IsPrefix(<<>>, s)
  <2> DEFINE none == <<>>
  <2>1. none \in Seq(S) /\ Len(none) = 0
    OBVIOUS
  <2> HIDE DEF none
  <2>2. Len(none) <= Len(s) /\ \A i \in 1 .. Len(none) : none[i] = s[i]
    BY <2>1
  <2>3. IsPrefix(none, s)
    BY <2>1, <2>2, PrefixByCommit
  <2> QED
    BY <2>3 DEF none
<1>3. ASSUME IsPrefix(s, t), IsPrefix(t, u)
      PROVE  IsPrefix(s, u)
  <2>1. Len(s) <= Len(t) /\ \A i \in 1 .. Len(s) : s[i] = t[i]
    BY <1>3, PrefixByCommit
  <2>2. Len(t) <= Len(u) /\ \A i \in 1 .. Len(t) : t[i] = u[i]
    BY <1>3, PrefixByCommit
  <2>3. Len(s) <= Len(u) /\ \A i \in 1 .. Len(s) : s[i] = u[i]
    BY <2>1, <2>2
  <2> QED
    BY <2>3, PrefixByCommit
<1> QED
  BY <1>1, <1>2, <1>3

LEMMA OneCommitMore ==
  ASSUME NEW S, NEW s \in Seq(S), NEW e \in S
  PROVE  /\ Append(s, e) \in Seq(S) /\ Append(s, e) # <<>>
         /\ Front(Append(s, e)) = s /\ Last(Append(s, e)) = e
         /\ IsPrefix(s, Append(s, e))
         /\ \A i \in 1 .. Len(Append(s, e)) :
              Append(s, e)[i] = e \/ (i \in 1 .. Len(s) /\ Append(s, e)[i] = s[i])
<1> DEFINE t == Append(s, e)
<1>1. /\ t \in Seq(S) /\ t # <<>> /\ Len(t) = Len(s) + 1 /\ t[Len(t)] = e
      /\ \A i \in 1 .. Len(s) : t[i] = s[i]
      /\ SubSeq(t, 1, Len(s)) = s
  OBVIOUS
<1> HIDE DEF t
<1>2. Front(t) = s /\ Last(t) = e
  BY <1>1 DEF Front, Last
<1>3. IsPrefix(s, t)
  BY <1>1, PrefixByCommit
<1>4. \A i \in 1 .. Len(t) : t[i] = e \/ (i \in 1 .. Len(s) /\ t[i] = s[i])
  BY <1>1
<1> QED
  BY <1>1, <1>2, <1>3, <1>4 DEF t

LEMMA FrontOfBranch ==
  ASSUME NEW S, NEW branch \in Seq(S), branch # <<>>
  PROVE  /\ Front(branch) \in Seq(S) /\ Len(Front(branch)) = Len(branch) - 1
         /\ \A i \in 1 .. Len(branch) - 1 : Front(branch)[i] = branch[i]
<1>1. Len(branch) - 1 \in Nat /\ Len(branch) - 1 <= Len(branch)
  BY EmptySeq
<1> QED
  BY <1>1, FirstCommits DEF Front

(* A branch whose base is published is pushed onto its base, or was pushed *)
(* before, or does not fit because more than its base is published.        *)
LEMMA PushOrRace ==
  ASSUME NEW S, NEW published \in Seq(S), NEW branch \in Seq(S), branch # <<>>,
         IsPrefix(Front(branch), published)
  PROVE  /\ IsPrefix(published, branch) =>
              published = Front(branch) \/ published = branch
         /\ ~IsPrefix(published, branch) => IsStrictPrefix(Front(branch), published)
<1>1. /\ Front(branch) \in Seq(S) /\ Len(Front(branch)) = Len(branch) - 1
      /\ \A i \in 1 .. Len(branch) - 1 : Front(branch)[i] = branch[i]
  BY FrontOfBranch
<1>2. /\ Len(branch) - 1 <= Len(published)
      /\ \A i \in 1 .. Len(branch) - 1 : branch[i] = published[i]
  BY <1>1, PrefixByCommit
<1>3. ASSUME IsPrefix(published, branch)
      PROVE  published = Front(branch) \/ published = branch
  <2>1. Len(published) <= Len(branch) /\ \A i \in 1 .. Len(published) : published[i] = branch[i]
    BY <1>3, PrefixByCommit
  <2>2. CASE Len(published) = Len(branch)
    BY <2>1, <2>2
  <2>3. CASE Len(published) = Len(branch) - 1
    BY <1>1, <1>2, <2>3
  <2> QED
    BY <1>2, <2>1, <2>2, <2>3
<1>4. ASSUME ~IsPrefix(published, branch)
      PROVE  Front(branch) # published
  <2>1. ASSUME Front(branch) = published
        PROVE  IsPrefix(published, branch)
    BY <1>1, <2>1, PrefixByCommit
  <2> QED
    BY <1>4, <2>1
<1> QED
  BY <1>3, <1>4 DEF IsStrictPrefix
-----------------------------------------------------------------------------
(* Minor versions as strings.                                              *)

\* All minors have one digit, or all have two.
OneWidth == Minors \subseteq 0 .. 9 \/ Minors \subseteq 10 .. 99

LEMMA TwoDigits ==
  ASSUME NEW a \in Nat, NEW b \in Nat
  PROVE  a < b <=> \/ a \div 10 < b \div 10
                   \/ a \div 10 = b \div 10 /\ a % 10 < b % 10
<1>1. \A n \in Nat : n \div 10 \in Int /\ n % 10 \in Int
  OBVIOUS
<1>2. \A n \in Nat : n - (n \div 10) * 10 = n % 10
  OBVIOUS
<1>3. \A n \in Nat : 0 <= n % 10 /\ n % 10 < 10
  OBVIOUS
<1> DEFINE p == a \div 10
           q == a % 10
           u == b \div 10
           v == b % 10
<1>4. /\ p \in Int /\ q \in Int /\ a - p * 10 = q /\ 0 <= q /\ q < 10
      /\ u \in Int /\ v \in Int /\ b - u * 10 = v /\ 0 <= v /\ v < 10
  BY <1>1, <1>2, <1>3
<1> HIDE DEF p, q, u, v
<1>5. a < b <=> p < u \/ (p = u /\ q < v)
  BY <1>4
<1> QED
  BY <1>5 DEF p, q, u, v

\* The comparison of the script, on the strings s and t.
Precedes(s, t) ==
  \/ IsStrictPrefix(s, t)
  \/ \E i \in 1 .. Len(s) : /\ i <= Len(t)
                            /\ SubSeq(s, 1, i - 1) = SubSeq(t, 1, i - 1)
                            /\ s[i] < t[i]

LEMMA SameLengthPrefix ==
  ASSUME NEW s \in Seq(Int), NEW t \in Seq(Int), Len(s) = Len(t)
  PROVE  ~IsStrictPrefix(s, t)
<1>1. ASSUME IsPrefix(s, t)
      PROVE  s = t
  BY <1>1, PrefixByCommit, SeqEqual
<1> QED
  BY <1>1 DEF IsStrictPrefix

LEMMA StringsOfOne ==
  ASSUME NEW s \in Seq(Int), NEW t \in Seq(Int), Len(s) = 1, Len(t) = 1
  PROVE  Precedes(s, t) <=> s[1] < t[1]
<1>1. SubSeq(s, 1, 0) = <<>> /\ SubSeq(t, 1, 0) = <<>>
  BY SubSeqEmpty
<1>2. \A i \in 1 .. Len(s) : i = 1 /\ i - 1 = 0 /\ i <= Len(t)
  OBVIOUS
<1>3. 1 \in 1 .. Len(s)
  OBVIOUS
<1> QED
  BY <1>1, <1>2, <1>3, SameLengthPrefix, Zenon DEF Precedes

LEMMA StringsOfTwo ==
  ASSUME NEW s \in Seq(Int), NEW t \in Seq(Int), Len(s) = 2, Len(t) = 2
  PROVE  Precedes(s, t) <=> s[1] < t[1] \/ (s[1] = t[1] /\ s[2] < t[2])
<1>1. SubSeq(s, 1, 0) = <<>> /\ SubSeq(t, 1, 0) = <<>>
  BY SubSeqEmpty
<1>2. SubSeq(s, 1, 1) = SubSeq(t, 1, 1) <=> s[1] = t[1]
  <2>1. /\ SubSeq(s, 1, 1) \in Seq(Int) /\ SubSeq(t, 1, 1) \in Seq(Int)
        /\ Len(SubSeq(s, 1, 1)) = 1 /\ Len(SubSeq(t, 1, 1)) = 1
        /\ \A i \in 1 .. 1 : SubSeq(s, 1, 1)[i] = s[i] /\ SubSeq(t, 1, 1)[i] = t[i]
    BY FirstCommits
  <2>2. s[1] = t[1] => SubSeq(s, 1, 1) = SubSeq(t, 1, 1)
    BY <2>1, SeqEqual
  <2> QED
    BY <2>1, <2>2
<1>3. \A i \in 1 .. Len(s) : /\ i <= Len(t)
                             /\ (i = 1 /\ i - 1 = 0) \/ (i = 2 /\ i - 1 = 1)
  OBVIOUS
<1>4. /\ 1 \in 1 .. Len(s) /\ 2 \in 1 .. Len(s) /\ 1 <= Len(t) /\ 2 <= Len(t)
      /\ 1 - 1 = 0 /\ 2 - 1 = 1
  OBVIOUS
<1> QED
  BY <1>1, <1>2, <1>3, <1>4, SameLengthPrefix, Zenon DEF Precedes

(* Among minors of one width, the strings are in the order of the numbers. *)
LEMMA StringOrder ==
  ASSUME OneWidth, NEW a \in Minors, NEW b \in Minors
  PROVE  older(a, b) <=> a < b
<1>1. CASE a \in 0 .. 9 /\ b \in 0 .. 9
  <2> DEFINE s == <<a>>
             t == <<b>>
  <2>1. digits(a) = s /\ digits(b) = t
    BY <1>1 DEF digits
  <2>2. /\ s \in Seq(Int) /\ Len(s) = 1 /\ s[1] = a
        /\ t \in Seq(Int) /\ Len(t) = 1 /\ t[1] = b
    BY <1>1
  <2> HIDE DEF s, t
  <2> QED
    BY <2>1, <2>2, StringsOfOne DEF older, Precedes
<1>2. CASE a \in 10 .. 99 /\ b \in 10 .. 99
  <2> DEFINE s == <<a \div 10, a % 10>>
             t == <<b \div 10, b % 10>>
  <2>1. digits(a) = s /\ digits(b) = t
    BY <1>2 DEF digits
  <2>2. /\ s \in Seq(Int) /\ Len(s) = 2 /\ s[1] = a \div 10 /\ s[2] = a % 10
        /\ t \in Seq(Int) /\ Len(t) = 2 /\ t[1] = b \div 10 /\ t[2] = b % 10
    BY <1>2
  <2> HIDE DEF s, t
  <2>3. Precedes(s, t) <=> s[1] < t[1] \/ (s[1] = t[1] /\ s[2] < t[2])
    BY <2>2, StringsOfTwo
  <2>4. older(a, b) <=> Precedes(s, t)
    BY <2>1 DEF older, Precedes
  <2>5. a \in Nat /\ b \in Nat
    BY <1>2
  <2> QED
    BY <2>2, <2>3, <2>4, <2>5, TwoDigits
<1> QED
  BY <1>1, <1>2 DEF OneWidth
-----------------------------------------------------------------------------
(* The invariant.                                                          *)

\* Job j goes on, and no other.
Moved(j) ==
  /\ jobs' \in Seq(Job) /\ Len(jobs') = Len(jobs)
  /\ \A k \in 1 .. Len(jobs) : k # j => jobs'[k] = jobs[k]
  /\ jobs'[j].clone = jobs[j].clone
  /\ jobs'[j].minor = jobs[j].minor /\ jobs'[j].patch = jobs[j].patch

LEMMA FieldsTyped ==
  ASSUME Typed
  PROVE  /\ \A i \in 1 .. Len(docs) : docs[i].minor \in Minors /\ docs[i].patch \in Nat
         /\ \A i \in 1 .. Len(local) : local[i].minor \in Minors /\ local[i].patch \in Nat
         /\ \A j \in 1 .. Len(jobs) : /\ jobs[j] \in Job
                                      /\ jobs[j].clone \in {"ci", "local"}
                                      /\ jobs[j].minor \in Minors /\ jobs[j].patch \in Nat
                                      /\ jobs[j].branch \in Seq(DocsCommit)
         /\ \A m \in Minors : released[m].patch \in Nat
<1>1. \A i \in 1 .. Len(docs) : docs[i] \in DocsCommit
  BY DEF Typed
<1>2. \A i \in 1 .. Len(local) : local[i] \in DocsCommit
  BY DEF Typed
<1>3. \A j \in 1 .. Len(jobs) : jobs[j] \in Job
  BY DEF Typed
<1>4. \A m \in Minors : released[m].patch \in Nat
  BY DEF Typed
<1> QED
  BY <1>1, <1>2, <1>3, <1>4 DEF DocsCommit, Job

LEMMA JobReplaced ==
  ASSUME Typed, NEW j \in 1 .. Len(jobs), NEW job \in Job,
         jobs' = [jobs EXCEPT ![j] = job],
         job.clone = jobs[j].clone, job.minor = jobs[j].minor, job.patch = jobs[j].patch
  PROVE  Moved(j) /\ jobs'[j] = job
<1>1. jobs \in Seq(Job)
  BY DEF Typed
<1>2. /\ jobs' \in Seq(Job) /\ Len(jobs') = Len(jobs) /\ jobs'[j] = job
      /\ \A k \in 1 .. Len(jobs) : k # j => jobs'[k] = jobs[k]
  BY <1>1
<1> QED
  BY <1>2 DEF Moved

LEMMA MinorsAreNumbers == \A m \in Minors : m \in Int
BY VersionAssumption

LEMMA CommitTyped ==
  \A c \in DocsCommit : c.minor \in Minors /\ c.minor \in Int /\ c.patch \in Nat
BY MinorsAreNumbers DEF DocsCommit

LEMMA MovesTo ==
  ASSUME Typed, NEW j \in 1 .. Len(jobs), NEW p \in {"start", "committed"} \cup Ended,
         To(j, p)
  PROVE  Moved(j) /\ jobs'[j].pc = p /\ jobs'[j].branch = jobs[j].branch
<1> DEFINE job == [jobs[j] EXCEPT !.pc = p]
<1>1. jobs \in Seq(Job) /\ jobs[j] \in Job
  BY DEF Typed
<1>2. jobs' = [jobs EXCEPT ![j] = job]
  BY <1>1 DEF To
<1>3. /\ job \in Job /\ job.clone = jobs[j].clone /\ job.minor = jobs[j].minor
      /\ job.patch = jobs[j].patch /\ job.pc = p /\ job.branch = jobs[j].branch
  BY <1>1 DEF Job
<1> HIDE DEF job
<1> QED
  BY <1>2, <1>3, JobReplaced

LEMMA MovesToCommitted ==
  ASSUME Typed, NEW j \in 1 .. Len(jobs), NEW b \in Seq(DocsCommit),
         jobs' = [jobs EXCEPT ![j].pc = "committed", ![j].branch = b]
  PROVE  Moved(j) /\ jobs'[j].pc = "committed" /\ jobs'[j].branch = b
<1> DEFINE job == [jobs[j] EXCEPT !.pc = "committed", !.branch = b]
           D == 1 .. Len(jobs)
<1>1. jobs \in Seq(Job) /\ jobs[j] \in Job /\ jobs \in [D -> Job]
  BY DEF Typed
<1>2. /\ job \in Job /\ job.clone = jobs[j].clone /\ job.minor = jobs[j].minor
      /\ job.patch = jobs[j].patch /\ job.pc = "committed" /\ job.branch = b
  BY <1>1 DEF Job
<1>3. jobs' = [jobs EXCEPT ![j] = job]
  <2>1. j \in D
    OBVIOUS
  <2> HIDE DEF D
  <2> QED
    BY <1>1, <2>1
<1> HIDE DEF job
<1> QED
  BY <1>2, <1>3, JobReplaced

(* What is left to show of a step of a script.                             *)
LEMMA ScriptKeeps ==
  ASSUME DInv, NEW j \in 1 .. Len(jobs), Active(j), Moved(j),
         released' = released, overlapped' = overlapped,
         docs' \in Seq(DocsCommit), local' \in Seq(DocsCommit), IsPrefix(docs, docs'),
         DocsKnown', LocalKnown',
         jobs'[j].pc \in {"committed", "rejected"} => Based(j)',
         LocalFollows'
  PROVE  DInv'
<1> USE DEF DInv
<1>1. Typed'
  BY DEF Typed, Moved
<1>2. ASSUME NEW k \in 1 .. Len(jobs)
      PROVE  /\ jobs'[k].clone = jobs[k].clone
             /\ jobs'[k].minor = jobs[k].minor /\ jobs'[k].patch = jobs[k].patch
             /\ Active(k)' => Active(k)
  <2>1. CASE k = j
    BY <2>1 DEF Moved
  <2>2. CASE k # j
    BY <2>2 DEF Moved, Active
  <2> QED
    BY <2>1, <2>2
<1>3. Len(jobs') = Len(jobs)
  BY DEF Moved
<1>4. OneLocal'
  BY <1>2, <1>3 DEF OneLocal
<1>5. InTurn'
  BY <1>2, <1>3 DEF InTurn
<1>6. JobsKnown'
  BY <1>2, <1>3 DEF JobsKnown, Known
<1>7. ASSUME NEW k \in 1 .. Len(jobs), jobs'[k].pc \in {"committed", "rejected"}, k # j
      PROVE  Based(k)'
  <2>1. jobs'[k] = jobs[k] /\ Based(k)
    BY <1>7 DEF Moved, AllBased
  <2>2. jobs[k].branch \in Seq(DocsCommit) /\ jobs[k].branch # <<>>
    BY <2>1, FieldsTyped DEF Based
  <2>3. Front(jobs[k].branch) \in Seq(DocsCommit)
    BY <2>2, FrontOfBranch
  <2>4. IsPrefix(Front(jobs[k].branch), docs')
    <3>1. docs \in Seq(DocsCommit) /\ IsPrefix(Front(jobs[k].branch), docs)
      BY <2>1 DEF Based, Typed
    <3> QED
      BY <2>3, <3>1, PrefixIsOrder
  <2> QED
    BY <2>1, <2>4 DEF Based
<1>8. AllBased'
  BY <1>3, <1>7 DEF AllBased
<1> QED
  BY <1>1, <1>4, <1>5, <1>6, <1>8

(* A run starts.                                                           *)
LEMMA StartKeeps ==
  ASSUME DInv, NEW clone \in {"ci", "local"}, NEW m \in Minors, NEW patch \in Nat,
         NEW pre \in BOOLEAN, Start(clone, m, patch, pre),
         clone = "local" => ~Running("local"),
         released' \in [Minors -> [patch: Nat, pre: BOOLEAN]],
         \A n \in Minors : released[n].patch <= released'[n].patch,
         patch = released'[m].patch,
         docs' = docs, local' = local
  PROVE  DInv'
<1> DEFINE new == [clone |-> clone, minor |-> m, patch |-> patch, pre |-> pre,
                   pc |-> "start", branch |-> <<>>]
<1>1. new \in Job /\ jobs \in Seq(Job)
  BY EmptySeq DEF Job, DInv, Typed
<1>2. /\ new.clone = clone /\ new.minor = m /\ new.patch = patch /\ new.pc = "start"
      /\ jobs' = Append(jobs, new)
  BY DEF Start
<1> HIDE DEF new
<1>3. /\ jobs' \in Seq(Job) /\ Len(jobs') = Len(jobs) + 1 /\ jobs'[Len(jobs')] = new
      /\ \A k \in 1 .. Len(jobs) : jobs'[k] = jobs[k]
      /\ \A k \in 1 .. Len(jobs') : k \in 1 .. Len(jobs) \/ k = Len(jobs')
  BY <1>1, <1>2
<1>4. overlapped' = (overlapped \/ ~Quiet)
  BY DEF Start
<1> USE DEF DInv
<1>5. Typed'
  BY <1>3, <1>4 DEF Typed
<1>6. ASSUME NEW n \in Minors, NEW p \in Nat, p <= released[n].patch
      PROVE  p <= released'[n].patch
  <2>1. released[n].patch \in Nat /\ released'[n].patch \in Nat
    BY <1>5 DEF Typed
  <2> QED
    BY <1>6, <2>1
<1>7. DocsKnown'
  BY <1>6, FieldsTyped DEF DocsKnown, Known
<1>8. LocalKnown'
  BY <1>6, FieldsTyped DEF LocalKnown, Known
<1>9. JobsKnown'
  <2>1. \A k \in 1 .. Len(jobs) : jobs[k].patch <= released'[jobs[k].minor].patch
    BY <1>6, FieldsTyped DEF JobsKnown, Known
  <2>2. new.patch <= released'[new.minor].patch
    BY <1>2
  <2> QED
    BY <1>3, <2>1, <2>2 DEF JobsKnown, Known
<1>10. OneLocal'
  <2>1. ASSUME NEW k \in 1 .. Len(jobs), jobs[k].clone = "local", Active(k)
        PROVE  new.clone # "local"
    BY <1>2, <2>1 DEF Running, Active
  <2>2. \A k \in 1 .. Len(jobs) : Active(k)' <=> Active(k)
    BY <1>3 DEF Active
  <2>3. ASSUME NEW k \in 1 .. Len(jobs'), jobs'[k].clone = "local", Active(k)',
               NEW l \in 1 .. Len(jobs'), jobs'[l].clone = "local", Active(l)'
        PROVE  k = l
    <3>1. CASE k \in 1 .. Len(jobs) /\ l \in 1 .. Len(jobs)
      BY <1>3, <2>2, <2>3, <3>1 DEF OneLocal
    <3>2. CASE k \in 1 .. Len(jobs) /\ l = Len(jobs')
      BY <1>3, <2>1, <2>2, <2>3, <3>2
    <3>3. CASE l \in 1 .. Len(jobs) /\ k = Len(jobs')
      BY <1>3, <2>1, <2>2, <2>3, <3>3
    <3> QED
      BY <1>3, <3>1, <3>2, <3>3
  <2> QED
    BY <2>3 DEF OneLocal
<1>11. InTurn'
  <2> SUFFICES ASSUME ~overlapped', NEW j \in 1 .. Len(jobs'), Active(j)'
               PROVE  /\ \A k \in 1 .. Len(jobs') : Active(k)' => j = k
                      /\ jobs'[j].patch = released'[jobs'[j].minor].patch
    BY DEF InTurn
  <2>1. \A k \in 1 .. Len(jobs) : ~Active(k)'
    BY <1>3, <1>4 DEF Quiet, Active
  <2>2. j = Len(jobs') /\ \A k \in 1 .. Len(jobs') : Active(k)' => k = Len(jobs')
    BY <1>3, <2>1
  <2> QED
    BY <1>2, <1>3, <2>2
<1>12. AllBased'
  <2> SUFFICES ASSUME NEW k \in 1 .. Len(jobs'), jobs'[k].pc \in {"committed", "rejected"}
               PROVE  Based(k)'
    BY DEF AllBased
  <2>1. k \in 1 .. Len(jobs) /\ jobs'[k] = jobs[k]
    BY <1>2, <1>3
  <2>2. Based(k)
    BY <2>1 DEF AllBased
  <2> QED
    BY <1>4, <2>1, <2>2 DEF Based
<1>13. LocalFollows'
  <2> SUFFICES ASSUME docs' = <<>>, local' # <<>>
               PROVE  \E k \in 1 .. Len(jobs') : jobs'[k].clone = "local"
                                                 /\ jobs'[k].pc = "committed"
    BY DEF LocalFollows
  <2>1. PICK k \in 1 .. Len(jobs) : jobs[k].clone = "local" /\ jobs[k].pc = "committed"
    BY DEF LocalFollows
  <2>2. k \in 1 .. Len(jobs') /\ jobs'[k] = jobs[k]
    BY <1>3
  <2> QED
    BY <2>1, <2>2
<1> QED
  BY <1>5, <1>7, <1>8, <1>9, <1>10, <1>11, <1>12, <1>13

(* The runs that end without a commit.  The maintainer's clone is left     *)
(* with its own docs branch or the published one.                          *)
LEMMA EndKeeps ==
  ASSUME DInv, NEW j \in 1 .. Len(jobs), jobs[j].pc = "start",
         NEW p \in {"prerelease", "refused", "conflict", "failed"}, To(j, p),
         UNCHANGED <<released, docs, overlapped>>,
         local' \in {local, docs}
  PROVE  DInv'
<1> USE DEF DInv
<1>1. Active(j) /\ p \in Ended
  BY DEF Active, Ended
<1>2. Moved(j) /\ jobs'[j].pc = p
  BY <1>1, MovesTo
<1>3. docs \in Seq(DocsCommit) /\ local' \in Seq(DocsCommit) /\ IsPrefix(docs, docs')
  BY PrefixIsOrder DEF Typed
<1>4. DocsKnown' /\ LocalKnown'
  BY DEF DocsKnown, LocalKnown, Known
<1>5. LocalFollows'
  <2> SUFFICES ASSUME docs' = <<>>, local' # <<>>
               PROVE  \E k \in 1 .. Len(jobs') : jobs'[k].clone = "local"
                                                 /\ jobs'[k].pc = "committed"
    BY DEF LocalFollows
  <2>1. PICK k \in 1 .. Len(jobs) : jobs[k].clone = "local" /\ jobs[k].pc = "committed"
    BY DEF LocalFollows
  <2>2. k # j
    BY <2>1
  <2> QED
    BY <1>2, <2>1, <2>2 DEF Moved
<1> QED
  BY <1>1, <1>2, <1>3, <1>4, <1>5, ScriptKeeps

\* The branch that job j finds: the one of its clone and of the remote, or
\* none.
Finds(j, base) == refs(j) = {base} \/ (refs(j) = {} /\ base = <<>>)

LEMMA FoundIsPublished ==
  ASSUME DInv, NEW j \in 1 .. Len(jobs), jobs[j].pc = "start", NEW base, Finds(j, base)
  PROVE  /\ base \in {docs, local} \cup {<<>>}
         /\ base \in Seq(DocsCommit)
         /\ IsPrefix(base, docs)
         /\ jobs[j].clone = "local" => IsPrefix(local, base)
         /\ \A i \in 1 .. Len(base) : Known(base[i])
<1> USE DEF DInv
<1>1. /\ docs \in Seq(DocsCommit) /\ local \in Seq(DocsCommit) /\ <<>> \in Seq(DocsCommit)
      /\ Len(<<>>) = 0
  BY EmptySeq DEF Typed
<1>2. base \in {docs, local} \cup {<<>>}
  BY DEF Finds, refs
<1>3. docs # <<>> => base = docs
  BY DEF Finds, refs
<1>4. jobs[j].clone = "local" /\ local # <<>> => base = local
  BY DEF Finds, refs
<1>5. jobs[j].clone # "local" => base \in {docs, <<>>}
  BY DEF Finds, refs
<1>6. IsPrefix(base, docs)
  <2>1. CASE base = <<>> \/ base = docs
    BY <1>1, <2>1, PrefixIsOrder
  <2>2. CASE base # <<>> /\ base # docs
    <3>1. docs = <<>> /\ base = local /\ jobs[j].clone = "local"
      BY <1>2, <1>3, <1>5, <2>2
    <3>2. PICK k \in 1 .. Len(jobs) : jobs[k].clone = "local" /\ jobs[k].pc = "committed"
      BY <2>2, <3>1 DEF LocalFollows
    <3>3. Active(j) /\ Active(k)
      BY <3>2 DEF Active, Ended
    <3> QED
      BY <3>1, <3>2, <3>3 DEF OneLocal
  <2> QED
    BY <2>1, <2>2
<1>7. jobs[j].clone = "local" => IsPrefix(local, base)
  BY <1>1, <1>2, <1>4, PrefixIsOrder
<1>8. \A i \in 1 .. Len(base) : Known(base[i])
  <2>1. CASE base = <<>>
    BY <1>1, <2>1
  <2>2. CASE base = docs
    BY <2>2 DEF DocsKnown
  <2>3. CASE base = local
    BY <2>3 DEF LocalKnown
  <2> QED
    BY <1>2, <2>1, <2>2, <2>3
<1> QED
  BY <1>1, <1>2, <1>6, <1>7, <1>8

LEMMA CommitKeeps ==
  ASSUME DInv, NEW j \in 1 .. Len(jobs), jobs[j].pc = "start", NEW base, Finds(j, base),
         base # <<>> => ~older(jobs[j].minor, Last(base).minor),
         CommitOn(j, base)
  PROVE  DInv' /\ (local' = local \/ IsPrefix(local, local'))
<1> USE DEF DInv
<1> DEFINE new == [job |-> j, minor |-> jobs[j].minor, patch |-> jobs[j].patch]
           branch == Append(base, new)
<1>1. new \in DocsCommit
  BY FieldsTyped DEF DocsCommit
<1>2. /\ jobs' = [jobs EXCEPT ![j].pc = "committed", ![j].branch = branch]
      /\ local' = IF jobs[j].clone = "local" THEN branch ELSE local
      /\ UNCHANGED <<released, docs, overlapped>>
  BY DEF CommitOn
<1>3. new.minor = jobs[j].minor /\ new.patch = jobs[j].patch
  OBVIOUS
<1> HIDE DEF new
<1>4. /\ base \in Seq(DocsCommit) /\ IsPrefix(base, docs)
      /\ jobs[j].clone = "local" => IsPrefix(local, base)
      /\ \A i \in 1 .. Len(base) : Known(base[i])
  BY FoundIsPublished
<1>5. /\ branch \in Seq(DocsCommit) /\ branch # <<>>
      /\ Front(branch) = base /\ Last(branch) = new /\ IsPrefix(base, branch)
      /\ \A i \in 1 .. Len(branch) :
           branch[i] = new \/ (i \in 1 .. Len(base) /\ branch[i] = base[i])
  BY <1>1, <1>4, OneCommitMore
<1> HIDE DEF branch
<1>6. Moved(j) /\ jobs'[j].pc = "committed" /\ jobs'[j].branch = branch
  BY <1>2, <1>5, MovesToCommitted
<1>7. /\ docs' \in Seq(DocsCommit) /\ local' \in Seq(DocsCommit)
      /\ IsPrefix(docs, docs')
  BY <1>2, <1>5, PrefixIsOrder DEF Typed
<1>8. Known(new)
  BY <1>3 DEF JobsKnown, Known
<1>9. DocsKnown' /\ LocalKnown'
  <2>1. \A i \in 1 .. Len(branch) : Known(branch[i])
    BY <1>4, <1>5, <1>8
  <2>2. \A i \in 1 .. Len(local') : Known(local'[i])
    BY <1>2, <2>1 DEF LocalKnown
  <2> QED
    BY <1>2, <2>2 DEF DocsKnown, LocalKnown, Known
<1>10. Based(j)'
  <2>1. ASSUME base # <<>>, new.minor = Last(base).minor, new.patch < Last(base).patch
        PROVE  overlapped
    <3>1. Len(base) \in 1 .. Len(base)
      BY <1>4, <2>1, EmptySeq
    <3>2. Known(Last(base)) /\ Last(base) \in DocsCommit
      BY <1>4, <3>1 DEF Last
    <3>3. Active(j)
      BY DEF Active, Ended
    <3>4. ~overlapped => new.patch = released[new.minor].patch
      BY <1>3, <3>3 DEF InTurn
    <3>5. /\ new.patch \in Nat /\ Last(base).patch \in Nat
          /\ released[new.minor].patch \in Nat
      BY <1>1, <3>2, FieldsTyped DEF DocsCommit
    <3> QED
      BY <2>1, <3>2, <3>4, <3>5 DEF Known
  <2>2. base # <<>> => ~older(new.minor, Last(base).minor)
    BY <1>3
  <2>3. jobs'[j].minor = new.minor /\ jobs'[j].patch = new.patch
    BY <1>3, <1>6 DEF Moved
  <2> QED
    BY <1>2, <1>4, <1>5, <1>6, <2>1, <2>2, <2>3 DEF Based
<1>11. LocalFollows'
  <2> SUFFICES ASSUME docs' = <<>>, local' # <<>>
               PROVE  \E k \in 1 .. Len(jobs') : jobs'[k].clone = "local"
                                                 /\ jobs'[k].pc = "committed"
    BY DEF LocalFollows
  <2>1. CASE jobs[j].clone = "local"
    BY <1>6, <2>1 DEF Moved
  <2>2. CASE jobs[j].clone # "local"
    <3>1. PICK k \in 1 .. Len(jobs) : jobs[k].clone = "local" /\ jobs[k].pc = "committed"
      BY <1>2, <2>2 DEF LocalFollows
    <3> QED
      BY <1>6, <2>2, <3>1 DEF Moved
  <2> QED
    BY <2>1, <2>2
<1>12. Active(j)
  BY DEF Active, Ended
<1>13. DInv'
  BY <1>2, <1>6, <1>7, <1>9, <1>10, <1>11, <1>12, ScriptKeeps
<1>14. local' = local \/ IsPrefix(local, local')
  BY <1>2, <1>4, <1>5, PrefixIsOrder DEF Typed
<1> QED
  BY <1>13, <1>14

LEMMA PushKeeps ==
  ASSUME DInv, NEW j \in 1 .. Len(jobs), PushAll(j)
  PROVE  DInv'
<1> USE DEF DInv
<1> DEFINE branch == jobs[j].branch
<1>1. /\ jobs[j].pc = "committed" /\ Active(j)
      /\ UNCHANGED <<released, local, overlapped>>
  BY DEF PushAll, Active, Ended
<1>2. Based(j)
  BY <1>1 DEF AllBased
<1>3. branch \in Seq(DocsCommit) /\ branch # <<>> /\ docs \in Seq(DocsCommit)
  BY <1>2, FieldsTyped DEF Based, Typed
<1>4. CASE accepts(j) /\ docs' = branch /\ To(j, "published")
  <2>1. Moved(j) /\ jobs'[j].pc = "published"
    BY <1>4, MovesTo DEF Ended
  <2>2. IsPrefix(docs, docs')
    BY <1>4 DEF accepts
  <2>3. DocsKnown'
    <3>1. /\ Front(branch) \in Seq(DocsCommit) /\ Len(Front(branch)) = Len(branch) - 1
          /\ \A i \in 1 .. Len(branch) - 1 : Front(branch)[i] = branch[i]
      BY <1>3, FrontOfBranch
    <3>2. /\ Len(branch) - 1 <= Len(docs)
          /\ \A i \in 1 .. Len(branch) - 1 : branch[i] = docs[i]
      BY <1>2, <1>3, <3>1, PrefixByCommit DEF Based
    <3>3. Known(branch[Len(branch)])
      BY <1>2 DEF Based, Last, JobsKnown, Known
    <3>4. \A i \in 1 .. Len(branch) : Known(branch[i])
      <4>1. ASSUME NEW i \in 1 .. Len(branch) - 1
            PROVE  Known(branch[i])
        <5>1. i \in 1 .. Len(docs) /\ branch[i] = docs[i]
          BY <1>3, <3>2
        <5> QED
          BY <5>1 DEF DocsKnown
      <4>2. \A i \in 1 .. Len(branch) : i \in 1 .. Len(branch) - 1 \/ i = Len(branch)
        BY <1>3
      <4> QED
        BY <3>3, <4>1, <4>2
    <3> QED
      BY <1>1, <1>4, <3>4 DEF DocsKnown, Known
  <2>4. LocalKnown'
    BY <1>1 DEF LocalKnown, Known
  <2>5. LocalFollows'
    BY <1>3, <1>4 DEF LocalFollows
  <2>6. docs' \in Seq(DocsCommit) /\ local' \in Seq(DocsCommit)
    BY <1>1, <1>3, <1>4 DEF Typed
  <2> QED
    BY <1>1, <2>1, <2>2, <2>3, <2>4, <2>5, <2>6, ScriptKeeps
<1>5. CASE ~accepts(j) /\ UNCHANGED docs /\ To(j, "rejected")
  <2>1. Moved(j) /\ jobs'[j].pc = "rejected" /\ jobs'[j].branch = branch
    BY <1>5, MovesTo DEF Ended
  <2>2. IsPrefix(docs, docs')
    BY <1>3, <1>5, PrefixIsOrder
  <2>3. DocsKnown' /\ LocalKnown'
    BY <1>1, <1>5 DEF DocsKnown, LocalKnown, Known
  <2>4. Based(j)'
    BY <1>1, <1>2, <1>5, <2>1 DEF Based, Moved
  <2>5. docs # <<>>
    <3>1. IsPrefix(<<>>, branch)
      BY <1>3, PrefixIsOrder
    <3> QED
      BY <1>5, <3>1 DEF accepts
  <2>6. LocalFollows'
    BY <1>5, <2>5 DEF LocalFollows
  <2>7. docs' \in Seq(DocsCommit) /\ local' \in Seq(DocsCommit)
    BY <1>1, <1>3, <1>5 DEF Typed
  <2> QED
    BY <1>1, <2>1, <2>2, <2>3, <2>4, <2>6, <2>7, ScriptKeeps
<1> QED
  BY <1>4, <1>5 DEF PushAll

(* Every step starts a run or takes one further.                           *)
LEMMA StartsOrMoves ==
  ASSUME DInv, Next
  PROVE  /\ DInv'
         /\ \/ /\ UNCHANGED <<docs, local>> /\ Len(jobs') = Len(jobs) + 1
               /\ \A k \in 1 .. Len(jobs) : jobs'[k] = jobs[k]
               /\ jobs'[Len(jobs')].pc = "start"
            \/ \E j \in 1 .. Len(jobs) : Script(j) /\ Moved(j)
<1> USE DEF DInv
<1>1. ASSUME NEW clone, NEW m, NEW patch, NEW pre, Start(clone, m, patch, pre)
      PROVE  /\ Len(jobs') = Len(jobs) + 1
             /\ \A k \in 1 .. Len(jobs) : jobs'[k] = jobs[k]
             /\ jobs'[Len(jobs')].pc = "start"
  <2> DEFINE new == [clone |-> clone, minor |-> m, patch |-> patch, pre |-> pre,
                     pc |-> "start", branch |-> <<>>]
  <2>1. jobs \in Seq(Job) /\ jobs' = Append(jobs, new) /\ new.pc = "start"
    BY <1>1 DEF Start, Typed
  <2> HIDE DEF new
  <2> QED
    BY <2>1
<1>2. ASSUME NEW m \in Minors, PushRelease(m)
      PROVE  DInv' /\ UNCHANGED <<docs, local>> /\ \E patch, pre : Start("ci", m, patch, pre)
  <2>1. released \in [Minors -> [patch: Nat, pre: BOOLEAN]] /\ released[m].patch \in Nat
    BY DEF Typed
  <2>2. PICK next \in {[patch |-> released[m].patch, pre |-> TRUE],
                       [patch |-> released[m].patch, pre |-> FALSE],
                       [patch |-> released[m].patch + 1, pre |-> FALSE]} :
          /\ released' = [released EXCEPT ![m] = next]
          /\ Start("ci", m, next.patch, next.pre)
          /\ UNCHANGED <<docs, local>>
    BY <1>2 DEF PushRelease
  <2>3. /\ next \in [patch: Nat, pre: BOOLEAN]
        /\ next.patch \in Nat /\ next.pre \in BOOLEAN /\ released[m].patch <= next.patch
    <3>1. ASSUME NEW p \in Nat, NEW b \in BOOLEAN, next = [patch |-> p, pre |-> b],
                 released[m].patch <= p
          PROVE  /\ next \in [patch: Nat, pre: BOOLEAN]
                 /\ next.patch = p /\ next.pre = b
      BY <3>1
    <3>2. \/ next = [patch |-> released[m].patch, pre |-> TRUE]
          \/ next = [patch |-> released[m].patch, pre |-> FALSE]
          \/ next = [patch |-> released[m].patch + 1, pre |-> FALSE]
      BY Zenon
    <3>3. PICK n \in Nat : n = released[m].patch
      BY <2>1
    <3>4. n + 1 \in Nat /\ n <= n /\ n <= n + 1
      OBVIOUS
    <3> QED
      BY <3>1, <3>2, <3>3, <3>4
  <2> HIDE DEF DInv
  <2>4. /\ released' \in [Minors -> [patch: Nat, pre: BOOLEAN]]
        /\ released'[m] = next /\ \A n \in Minors : n # m => released'[n] = released[n]
    <3> DEFINE D == Minors
               T == [patch: Nat, pre: BOOLEAN]
    <3>1. released \in [D -> T] /\ m \in D /\ next \in T /\ released' = [released EXCEPT ![m] = next]
      BY <2>1, <2>2, <2>3
    <3> HIDE DEF D, T
    <3>2. released' \in [D -> T] /\ released'[m] = next /\ \A n \in D : n # m => released'[n] = released[n]
      BY <3>1
    <3> QED
      BY <3>2 DEF D, T
  <2>5. \A n \in Minors : released[n].patch <= released'[n].patch
    <3>1. \A n \in Minors : released[n].patch \in Nat
      BY <2>1
    <3> QED
      BY <2>3, <2>4, <3>1
  <2>6. DInv'
    BY <2>2, <2>3, <2>4, <2>5, StartKeeps
  <2> QED
    BY <2>2, <2>6
<1>3. ASSUME NEW m \in Minors, RunLocally(m)
      PROVE  DInv' /\ UNCHANGED <<docs, local>> /\ \E patch, pre : Start("local", m, patch, pre)
  <2>1. released \in [Minors -> [patch: Nat, pre: BOOLEAN]]
    BY DEF Typed
  <2>2. released[m].patch \in Nat /\ released[m].pre \in BOOLEAN
    BY <2>1
  <2>3. \A n \in Minors : released[n].patch <= released[n].patch
    <3>1. \A n \in Minors : released[n].patch \in Nat
      BY <2>1
    <3> QED
      BY <3>1
  <2> HIDE DEF DInv
  <2> QED
    BY <1>3, <2>1, <2>2, <2>3, StartKeeps DEF RunLocally
<1>4. ASSUME NEW j \in 1 .. Len(jobs), Script(j)
      PROVE  DInv' /\ Moved(j)
  <2>1. CASE Prerelease(j)
    BY <2>1, EndKeeps, MovesTo DEF Prerelease, Ended
  <2>2. CASE Conflict(j)
    BY <2>2, EndKeeps, MovesTo DEF Conflict, Ended
  <2>3. CASE Refuse(j)
    BY <2>3, EndKeeps, MovesTo DEF Refuse, Ended
  <2>4. CASE Unchanged(j)
    <3>1. PICK ref \in refs(j) : local' = IF jobs[j].clone = "local" THEN ref ELSE local
      BY <2>4 DEF Unchanged
    <3>2. local' \in {local, docs}
      BY <3>1 DEF refs
    <3> QED
      BY <2>4, <3>2, EndKeeps, MovesTo DEF Unchanged, Ended
  <2>5. CASE Commit(j)
    <3>1. PICK base : /\ Finds(j, base) /\ CommitOn(j, base)
                      /\ base # <<>> => ~older(jobs[j].minor, Last(base).minor)
      BY <2>5 DEF Commit, Finds
    <3>2. base \in Seq(DocsCommit) /\ jobs[j].pc = "start"
      BY <2>5, <3>1, FoundIsPublished DEF Commit
    <3>3. DInv'
      BY <3>1, <3>2, CommitKeeps
    <3>4. Moved(j)
      <4> DEFINE new == [job |-> j, minor |-> jobs[j].minor, patch |-> jobs[j].patch]
                 branch == Append(base, new)
      <4>1. new \in DocsCommit
        BY FieldsTyped DEF DocsCommit
      <4>2. jobs' = [jobs EXCEPT ![j].pc = "committed", ![j].branch = branch]
        BY <3>1 DEF CommitOn
      <4> HIDE DEF new
      <4>3. branch \in Seq(DocsCommit)
        BY <3>2, <4>1, OneCommitMore
      <4> HIDE DEF branch
      <4> QED
        BY <4>2, <4>3, MovesToCommitted
    <3> QED
      BY <3>3, <3>4
  <2>6. CASE PushAll(j)
    <3>1. Moved(j)
      BY <2>6, MovesTo DEF PushAll, Ended
    <3> QED
      BY <2>6, <3>1, PushKeeps
  <2> QED
    BY <1>4, <2>1, <2>2, <2>3, <2>4, <2>5, <2>6 DEF Script
<1> QED
  BY <1>1, <1>2, <1>3, <1>4 DEF Next

LEMMA InitDInv == Init => DInv
<1> SUFFICES ASSUME Init
             PROVE  DInv
  OBVIOUS
<1>1. /\ docs = <<>> /\ local = <<>> /\ jobs = <<>> /\ overlapped = FALSE
      /\ released = [m \in Minors |-> NoRelease]
  BY DEF Init
<1>2. released \in [Minors -> [patch: Nat, pre: BOOLEAN]]
  BY <1>1 DEF NoRelease
<1>3. Typed
  BY <1>1, <1>2, EmptySeq DEF Typed
<1>4. Len(docs) = 0 /\ Len(local) = 0 /\ Len(jobs) = 0
  BY <1>1
<1> QED
  BY <1>1, <1>3, <1>4
  DEF DInv, DocsKnown, LocalKnown, JobsKnown, OneLocal, InTurn, AllBased, LocalFollows

LEMMA NextDInv == DInv /\ [Next]_vars => DInv'
<1>1. ASSUME DInv, UNCHANGED vars
      PROVE  DInv'
  BY <1>1
  DEF vars, DInv, Typed, DocsKnown, LocalKnown, JobsKnown, Known, OneLocal, InTurn, Active,
      AllBased, Based, LocalFollows
<1> QED
  BY <1>1, StartsOrMoves

(* However jobs start, commit and push, the docs, the clones, the jobs and *)
(* the releases keep the relations above.                                  *)
THEOREM DocsInvariant == Spec => []DInv
BY InitDInv, NextDInv, PTL DEF Spec
-----------------------------------------------------------------------------
(* What is published, refused and rejected.                                *)

(* What a step does to the docs branches, and where rejected and refused   *)
(* jobs come from.                                                         *)
LEMMA StepOfDocs ==
  ASSUME DInv, Next
  PROVE  /\ docs \in Seq(DocsCommit) /\ docs' \in Seq(DocsCommit)
         /\ local \in Seq(DocsCommit) /\ local' \in Seq(DocsCommit)
         /\ docs' = docs
            \/ \E j \in 1 .. Len(jobs) : PushAll(j) /\ accepts(j) /\ docs' = jobs[j].branch
         /\ IsPrefix(docs, docs') /\ IsPrefix(local, local')
         /\ \A k \in 1 .. Len(jobs') : jobs'[k].pc \in {"rejected", "refused"} =>
              /\ k \in 1 .. Len(jobs)
              /\ \/ jobs'[k] = jobs[k]
                 \/ PushAll(k) /\ ~accepts(k) /\ docs' = docs /\ jobs'[k].branch = jobs[k].branch
                 \/ Refuse(k) /\ jobs'[k].minor = jobs[k].minor
<1>1. /\ docs \in Seq(DocsCommit) /\ docs' \in Seq(DocsCommit)
      /\ local \in Seq(DocsCommit) /\ local' \in Seq(DocsCommit)
      /\ jobs \in Seq(Job)
  BY StartsOrMoves DEF DInv, Typed
<1>2. IsPrefix(docs, docs) /\ IsPrefix(local, local)
  BY <1>1, PrefixIsOrder
<1>3. CASE /\ UNCHANGED <<docs, local>> /\ Len(jobs') = Len(jobs) + 1
           /\ \A k \in 1 .. Len(jobs) : jobs'[k] = jobs[k]
           /\ jobs'[Len(jobs')].pc = "start"
  <2>1. \A k \in 1 .. Len(jobs') : k \in 1 .. Len(jobs) \/ k = Len(jobs')
    BY <1>1, <1>3
  <2> QED
    BY <1>1, <1>2, <1>3, <2>1
<1>4. ASSUME NEW j \in 1 .. Len(jobs), Script(j), Moved(j)
      PROVE  /\ docs' = docs
                \/ \E k \in 1 .. Len(jobs) : PushAll(k) /\ accepts(k) /\ docs' = jobs[k].branch
             /\ IsPrefix(docs, docs') /\ IsPrefix(local, local')
             /\ jobs'[j].pc \in {"rejected", "refused"} =>
                 \/ PushAll(j) /\ ~accepts(j) /\ docs' = docs /\ jobs'[j].branch = jobs[j].branch
                 \/ Refuse(j)
  <2> USE DEF DInv
  <2>1. CASE Prerelease(j)
    BY <1>2, <2>1, MovesTo DEF Prerelease, Ended
  <2>2. CASE Conflict(j)
    BY <1>2, <2>2, MovesTo DEF Conflict, Ended
  <2>3. CASE Refuse(j)
    BY <1>2, <2>3 DEF Refuse
  <2>4. CASE Unchanged(j)
    <3>1. PICK ref : Finds(j, ref) /\ local' = IF jobs[j].clone = "local" THEN ref ELSE local
      BY <2>4 DEF Unchanged, Finds
    <3>2. IsPrefix(local, local')
      BY <1>2, <2>4, <3>1, FoundIsPublished DEF Unchanged
    <3>3. jobs'[j].pc = "failed" /\ docs' = docs
      BY <2>4, MovesTo DEF Unchanged, Ended
    <3> QED
      BY <1>2, <3>2, <3>3
  <2>5. CASE Commit(j)
    <3>1. PICK base : /\ Finds(j, base) /\ CommitOn(j, base)
                      /\ base # <<>> => ~older(jobs[j].minor, Last(base).minor)
      BY <2>5 DEF Commit, Finds
    <3>2. IsPrefix(local, local')
      BY <1>2, <2>5, <3>1, CommitKeeps DEF Commit
    <3>3. docs' = docs /\ jobs'[j].pc = "committed"
      <4> DEFINE new == [job |-> j, minor |-> jobs[j].minor, patch |-> jobs[j].patch]
                 branch == Append(base, new)
      <4>1. new \in DocsCommit
        BY FieldsTyped DEF DocsCommit
      <4>2. jobs' = [jobs EXCEPT ![j].pc = "committed", ![j].branch = branch] /\ docs' = docs
        BY <3>1 DEF CommitOn
      <4> HIDE DEF new
      <4>3. branch \in Seq(DocsCommit)
        BY <2>5, <3>1, <4>1, FoundIsPublished, OneCommitMore DEF Commit
      <4> HIDE DEF branch
      <4> QED
        BY <4>2, <4>3, MovesToCommitted
    <3> QED
      BY <1>2, <3>2, <3>3
  <2>6. CASE PushAll(j)
    <3>1. CASE accepts(j) /\ docs' = jobs[j].branch /\ To(j, "published")
      BY <1>2, <2>6, <3>1, MovesTo DEF PushAll, accepts, Ended
    <3>2. CASE ~accepts(j) /\ UNCHANGED docs /\ To(j, "rejected")
      BY <1>2, <2>6, <3>2, MovesTo DEF PushAll, Ended
    <3> QED
      BY <2>6, <3>1, <3>2 DEF PushAll
  <2> QED
    BY <1>4, <2>1, <2>2, <2>3, <2>4, <2>5, <2>6 DEF Script
<1>5. CASE \E j \in 1 .. Len(jobs) : Script(j) /\ Moved(j)
  <2>1. PICK j \in 1 .. Len(jobs) : Script(j) /\ Moved(j)
    BY <1>5
  <2>2. /\ Len(jobs') = Len(jobs) /\ jobs'[j].minor = jobs[j].minor
        /\ \A k \in 1 .. Len(jobs) : k # j => jobs'[k] = jobs[k]
    BY <2>1 DEF Moved
  <2> QED
    BY <1>1, <1>4, <2>1, <2>2
<1> QED
  BY <1>3, <1>5, StartsOrMoves

(* While all minors have as many digits, the docs of a later minor are     *)
(* never replaced by those of an earlier one, and those of a later patch   *)
(* only once jobs have overlapped.                                         *)
THEOREM PublishedNeverOlder ==
  ASSUME OneWidth
  PROVE  Spec => NeverOlder
<1>1. ASSUME DInv, Next, docs # <<>>
      PROVE  /\ Last(docs').minor >= Last(docs).minor
             /\ Last(docs').minor = Last(docs).minor /\ Last(docs').patch < Last(docs).patch
                  => overlapped
  <2>1. docs \in Seq(DocsCommit) /\ docs' \in Seq(DocsCommit) /\ docs' # <<>>
    <3>1. Len(docs) <= Len(docs') /\ docs \in Seq(DocsCommit) /\ docs' \in Seq(DocsCommit)
      BY <1>1, StepOfDocs, PrefixByCommit
    <3> QED
      BY <1>1, <3>1, EmptySeq
  <2>2. Last(docs) \in DocsCommit /\ Last(docs') \in DocsCommit
    BY <1>1, <2>1, EmptySeq DEF Last
  <2>3. /\ Last(docs).minor \in Minors /\ Last(docs').minor \in Minors
        /\ Last(docs).minor \in Int /\ Last(docs').minor \in Int
        /\ Last(docs).patch \in Nat /\ Last(docs').patch \in Nat
    BY <2>2, CommitTyped
  <2>4. CASE docs' = docs
    BY <2>3, <2>4
  <2>5. CASE \E j \in 1 .. Len(jobs) : PushAll(j) /\ accepts(j) /\ docs' = jobs[j].branch
    <3>1. PICK j \in 1 .. Len(jobs) : PushAll(j) /\ accepts(j) /\ docs' = jobs[j].branch
      BY <2>5
    <3>2. Based(j)
      BY <1>1, <3>1 DEF PushAll, DInv, AllBased
    <3>3. docs = Front(docs') \/ docs = docs'
      BY <2>1, <3>1, <3>2, PushOrRace DEF Based, accepts
    <3>4. CASE docs = Front(docs')
      <4>1. ~older(Last(docs').minor, Last(docs).minor)
        BY <1>1, <3>1, <3>2, <3>4 DEF Based
      <4>2. ~(Last(docs').minor < Last(docs).minor)
        BY <2>3, <4>1, StringOrder
      <4> QED
        BY <1>1, <2>3, <3>1, <3>2, <3>4, <4>2 DEF Based
    <3> QED
      BY <2>4, <3>3, <3>4
  <2> QED
    BY <1>1, <2>4, <2>5, StepOfDocs
<1>2. DInv /\ [Next]_vars =>
        [docs # <<>> =>
           /\ Last(docs').minor >= Last(docs).minor
           /\ Last(docs').minor = Last(docs).minor /\ Last(docs').patch < Last(docs).patch
                => overlapped]_vars
  BY <1>1
<1> QED
  BY <1>2, DocsInvariant, PTL DEF Spec, NeverOlder

LEMMA StrictlyBefore ==
  ASSUME NEW S, NEW s \in Seq(S), NEW t \in Seq(S), NEW u \in Seq(S),
         IsStrictPrefix(s, t), IsPrefix(t, u)
  PROVE  IsStrictPrefix(s, u)
<1>1. IsPrefix(s, t) /\ s # t
  BY DEF IsStrictPrefix
<1>2. IsPrefix(s, u)
  BY <1>1, PrefixIsOrder
<1>3. ASSUME s = u
      PROVE  FALSE
  <2>1. Len(s) <= Len(t) /\ Len(t) <= Len(s) /\ \A i \in 1 .. Len(s) : s[i] = t[i]
    BY <1>1, <1>3, PrefixByCommit
  <2> QED
    BY <1>1, <2>1, SeqEqual
<1> QED
  BY <1>2, <1>3 DEF IsStrictPrefix

(* A job whose push is rejected has lost a race: what it committed on is   *)
(* published, and more on top of it.                                       *)
THEOREM RejectedLostARace == Spec => []RejectionJustified
<1>1. Init => RejectionJustified
  BY DEF Init, RejectionJustified
<1>2. ASSUME DInv, RejectionJustified, Next
      PROVE  RejectionJustified'
  <2> SUFFICES ASSUME NEW k \in 1 .. Len(jobs'), jobs'[k].pc = "rejected"
               PROVE  IsStrictPrefix(Front(jobs'[k].branch), docs')
    BY DEF RejectionJustified
  <2>1. /\ k \in 1 .. Len(jobs) /\ IsPrefix(docs, docs')
        /\ docs \in Seq(DocsCommit) /\ docs' \in Seq(DocsCommit)
    BY <1>2, StepOfDocs
  <2>2. DInv'
    BY <1>2, StartsOrMoves
  <2>3. Based(k)' /\ jobs'[k].branch \in Seq(DocsCommit)
    <3>1. AllBased' /\ Typed' /\ k \in 1 .. Len(jobs')
      BY <2>2 DEF DInv
    <3>2. jobs'[k] \in Job
      BY <3>1 DEF Typed
    <3> QED
      BY <3>1, <3>2 DEF AllBased, Job
  <2>4. Front(jobs'[k].branch) \in Seq(DocsCommit)
    BY <2>3, FrontOfBranch DEF Based
  <2>5. CASE jobs'[k] = jobs[k]
    <3>1. IsStrictPrefix(Front(jobs[k].branch), docs)
      BY <1>2, <2>1, <2>5 DEF RejectionJustified
    <3> QED
      BY <2>1, <2>4, <2>5, <3>1, StrictlyBefore
  <2>6. CASE PushAll(k) /\ ~accepts(k) /\ docs' = docs /\ jobs'[k].branch = jobs[k].branch
    BY <2>1, <2>3, <2>6, PushOrRace DEF Based, accepts
  <2>7. CASE Refuse(k)
    BY <1>2, <2>1, <2>7, MovesTo DEF Refuse, DInv, Ended
  <2> QED
    BY <1>2, <2>5, <2>6, <2>7, StepOfDocs
<1>3. RejectionJustified /\ UNCHANGED vars => RejectionJustified'
  BY DEF vars, RejectionJustified
<1> QED
  BY <1>1, <1>2, <1>3, DocsInvariant, PTL DEF Spec

\* The docs of a minor after m are on a branch.
Holds(branch, m) == \E i \in 1 .. Len(branch) : branch[i].minor > m

RefusedSaw ==
  \A j \in 1 .. Len(jobs) : jobs[j].pc = "refused" =>
    Holds(docs, jobs[j].minor) \/ Holds(local, jobs[j].minor)

LEMMA StillHolds ==
  ASSUME NEW S, NEW s \in Seq(S), NEW t \in Seq(S), IsPrefix(s, t), NEW m, Holds(s, m)
  PROVE  Holds(t, m)
<1>1. Len(s) <= Len(t) /\ \A i \in 1 .. Len(s) : s[i] = t[i]
  BY PrefixByCommit
<1>2. \A i \in 1 .. Len(s) : i \in 1 .. Len(t)
  BY <1>1
<1> QED
  BY <1>1, <1>2 DEF Holds

LEMMA HeldByBoth ==
  ASSUME NEW S, NEW s \in Seq(S), NEW t \in Seq(S), NEW m, Holds(s, m) \/ Holds(t, m)
  PROVE  Holds(s \o t, m)
<1>1. /\ Len(s \o t) = Len(s) + Len(t)
      /\ \A i \in 1 .. Len(s) : (s \o t)[i] = s[i]
      /\ \A i \in 1 .. Len(t) : (s \o t)[Len(s) + i] = t[i]
  OBVIOUS
<1>2. \A i \in 1 .. Len(s) : i \in 1 .. Len(s \o t)
  BY <1>1
<1>3. \A i \in 1 .. Len(t) : Len(s) + i \in 1 .. Len(s \o t)
  BY <1>1
<1> QED
  BY <1>1, <1>2, <1>3, Zenon DEF Holds

(* While all minors have as many digits, a job that gives up because a     *)
(* newer version is published is right.                                    *)
THEOREM RefusedForALaterMinor ==
  ASSUME OneWidth
  PROVE  Spec => []RefusalJustified
<1>1. Init => RefusedSaw
  BY DEF Init, RefusedSaw
<1>2. ASSUME DInv, Next, NEW j \in 1 .. Len(jobs), Refuse(j)
      PROVE  Holds(docs, jobs[j].minor) \/ Holds(local, jobs[j].minor)
  <2>1. PICK ref \in {docs, local} : ref # <<>> /\ older(jobs[j].minor, Last(ref).minor)
    BY <1>2 DEF Refuse, refs
  <2>2. ref \in Seq(DocsCommit) /\ Len(ref) \in 1 .. Len(ref)
    BY <1>2, <2>1, EmptySeq DEF DInv, Typed
  <2>3. /\ Last(ref) = ref[Len(ref)]
        /\ ref[Len(ref)].minor \in Minors /\ ref[Len(ref)].minor \in Int
    BY <2>2, CommitTyped DEF Last
  <2>4. jobs[j].minor \in Minors
    BY <1>2, FieldsTyped DEF DInv
  <2>5. jobs[j].minor < ref[Len(ref)].minor
    BY <2>1, <2>3, <2>4, StringOrder
  <2>6. jobs[j].minor \in Int
    BY <2>4, MinorsAreNumbers
  <2>7. ref[Len(ref)].minor > jobs[j].minor
    BY <2>3, <2>5, <2>6
  <2> QED
    BY <2>1, <2>2, <2>7 DEF Holds
<1>3. ASSUME DInv, RefusedSaw, Next
      PROVE  RefusedSaw'
  <2> SUFFICES ASSUME NEW k \in 1 .. Len(jobs'), jobs'[k].pc = "refused"
               PROVE  Holds(docs', jobs'[k].minor) \/ Holds(local', jobs'[k].minor)
    BY DEF RefusedSaw
  <2>1. k \in 1 .. Len(jobs)
    BY <1>3, StepOfDocs
  <2>2. ASSUME jobs'[k].minor = jobs[k].minor,
               Holds(docs, jobs[k].minor) \/ Holds(local, jobs[k].minor)
        PROVE  Holds(docs', jobs'[k].minor) \/ Holds(local', jobs'[k].minor)
    BY <1>3, <2>2, StepOfDocs, StillHolds
  <2>3. CASE jobs'[k] = jobs[k]
    BY <1>3, <2>1, <2>2, <2>3 DEF RefusedSaw
  <2>4. CASE PushAll(k) /\ ~accepts(k)
    <3>1. jobs[k].pc = "committed" /\ To(k, "rejected")
      BY <2>4 DEF PushAll
    <3> QED
      BY <1>3, <2>1, <3>1, MovesTo DEF DInv, Ended
  <2>5. CASE Refuse(k) /\ jobs'[k].minor = jobs[k].minor
    BY <1>2, <1>3, <2>1, <2>2, <2>5
  <2> QED
    BY <1>3, <2>3, <2>4, <2>5, StepOfDocs
<1>4. RefusedSaw /\ UNCHANGED vars => RefusedSaw'
  BY DEF vars, RefusedSaw, Holds
<1>5. DInv /\ RefusedSaw => RefusalJustified
  BY HeldByBoth DEF DInv, Typed, RefusedSaw, RefusalJustified, Holds
<1> QED
  BY <1>1, <1>3, <1>4, <1>5, DocsInvariant, PTL DEF Spec
===============================================================================
