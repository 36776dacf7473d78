------------------------------ MODULE DocsBranch ------------------------------
(***************************************************************************)
(* scripts/update-docs-branch.js and the workflow that runs it: each push  *)
(* to a branch release-v4.<minor> starts a job that commits the docs of    *)
(* that release to docs-v4.x, then pushes all its branches.  Jobs have     *)
(* clones of their own and run at the same time; the remote refuses a push *)
(* that is not a fast-forward.  A maintainer may also run the script in a  *)
(* working clone, where the local docs branch stays from run to run.       *)
(***************************************************************************)
EXTENDS Integers, Sequences, SequencesExt, FiniteSets

CONSTANTS
  Minors,       \* the minor versions released, below 100
  MaxPatch,     \* bound on the patch version
  MaxJobs       \* bound on the runs of the script

ASSUME VersionAssumption ==
  /\ Minors \subseteq 0 .. 99
  /\ MaxPatch \in Nat

VARIABLES
  released,     \* the version in package.json at the head of each release branch
  docs,         \* the commits of docs-v4.x at the remote; empty: no branch
  local,        \* the same branch in the maintainer's clone
  jobs,         \* the runs of the script, in the order they started
  overlapped    \* whether a run has ever started before the others had ended

vars == <<released, docs, local, jobs, overlapped>>

NoRelease == [patch |-> 0, pre |-> TRUE]

Ended == {"published", "prerelease", "refused", "conflict", "rejected", "failed"}
Running(clone) == \E j \in 1 .. Len(jobs) : jobs[j].clone = clone /\ jobs[j].pc \notin Ended
Quiet == \A j \in 1 .. Len(jobs) : jobs[j].pc \in Ended

Init ==
  /\ released = [m \in Minors |-> NoRelease]
  /\ docs = <<>> /\ local = <<>> /\ jobs = <<>>
  /\ overlapped = FALSE

\* A run on the release branch of minor m, as its head is now.
Start(clone, m, patch, pre) ==
  /\ Len(jobs) < MaxJobs
  /\ overlapped' = (overlapped \/ ~Quiet)
  /\ jobs' = Append(jobs, [clone |-> clone, minor |-> m, patch |-> patch, pre |-> pre,
                           pc |-> "start", branch |-> <<>>])

\* A release candidate, the final release after it, or the next patch is
\* pushed, which starts the workflow.
PushRelease(m) ==
  \E next \in {[patch |-> released[m].patch, pre |-> TRUE],
               [patch |-> released[m].patch, pre |-> FALSE],
               [patch |-> released[m].patch + 1, pre |-> FALSE]} :
    /\ next.patch <= MaxPatch
    /\ IF released[m].pre THEN next.patch = released[m].patch
                          ELSE next.patch = released[m].patch + 1
    /\ released' = [released EXCEPT ![m] = next]
    /\ Start("ci", m, next.patch, next.pre)
    /\ UNCHANGED <<docs, local>>

\* The script in the maintainer's clone, one run at a time.
RunLocally(m) ==
  /\ ~Running("local")
  /\ Start("local", m, released[m].patch, released[m].pre)
  /\ UNCHANGED <<released, docs, local>>

-----------------------------------------------------------------------------
(* The script.                                                             *)

To(j, pc) == jobs' = [jobs EXCEPT ![j].pc = pc]

\* The regular expressions give the minors as strings.
digits(n) == IF n < 10 THEN <<n>> ELSE <<n \div 10, n % 10>>

\* Mutant: an equal minor is refused as well.
olderOrEqual(minor, published) == minor <= published

\* Mutant: nothing is too old.
neverOlder(minor, published) == FALSE

\* current.minor < publishedMinor, on strings.
older(minor, published) ==
  LET s == digits(minor)
      t == digits(published)
  IN \/ IsStrictPrefix(s, t)
     \/ \E i \in 1 .. Len(s) : /\ i <= Len(t)
                               /\ SubSeq(s, 1, i - 1) = SubSeq(t, 1, i - 1)
                               /\ s[i] < t[i]

\* package.json has no prerelease version.
final(j) == ~jobs[j].pre

Prerelease(j) ==
  /\ jobs[j].pc = "start"
  /\ ~final(j)
  /\ To(j, "prerelease")
  /\ UNCHANGED <<released, docs, local, overlapped>>

\* Mutant: only the first ref is looked at.
firstRef(j) ==
  IF jobs[j].clone = "local" /\ local # <<>> THEN {local} ELSE {docs} \ {<<>>}

\* The docs branches that the clone knows after the fetch: the remote one,
\* and its own.
refs(j) ==
  {docs, IF jobs[j].clone = "local" THEN local ELSE <<>>} \ {<<>>}

Conflict(j) ==
  /\ jobs[j].pc = "start" /\ final(j)
  /\ Cardinality(refs(j)) > 1
  /\ To(j, "conflict")
  /\ UNCHANGED <<released, docs, local, overlapped>>

Refuse(j) ==
  /\ jobs[j].pc = "start" /\ final(j)
  /\ \E ref \in refs(j) : /\ refs(j) = {ref}
                          /\ older(jobs[j].minor, Last(ref).minor)
  /\ To(j, "refused")
  /\ UNCHANGED <<released, docs, local, overlapped>>

\* A commit on top of the published one, or the first of a new branch.
CommitOn(j, base) ==
  LET branch == Append(base, [job |-> j, minor |-> jobs[j].minor, patch |-> jobs[j].patch])
  IN /\ jobs' = [jobs EXCEPT ![j].pc = "committed", ![j].branch = branch]
     /\ local' = IF jobs[j].clone = "local" THEN branch ELSE local
     /\ UNCHANGED <<released, docs, overlapped>>

\* The commit ref holds the very release of job j.
sameRelease(j, ref) == Last(ref).minor = jobs[j].minor /\ Last(ref).patch = jobs[j].patch

\* git commit fails where there is nothing to commit; by then the script has
\* checked the docs branch out.
Unchanged(j) ==
  /\ jobs[j].pc = "start" /\ final(j)
  /\ \E ref \in refs(j) : /\ refs(j) = {ref}
                          /\ sameRelease(j, ref)
                          /\ local' = IF jobs[j].clone = "local" THEN ref ELSE local
  /\ To(j, "failed")
  /\ UNCHANGED <<released, docs, overlapped>>

Commit(j) ==
  /\ jobs[j].pc = "start" /\ final(j)
  /\ \/ refs(j) = {} /\ CommitOn(j, <<>>)
     \/ \E ref \in refs(j) : /\ refs(j) = {ref}
                             /\ ~older(jobs[j].minor, Last(ref).minor)
                             /\ ~sameRelease(j, ref)
                             /\ CommitOn(j, ref)

\* The remote takes a fast-forward only.
accepts(j) == IsPrefix(docs, jobs[j].branch)

\* git push --all, by the workflow or by the maintainer's hand
PushAll(j) ==
  /\ jobs[j].pc = "committed"
  /\ \/ accepts(j) /\ docs' = jobs[j].branch /\ To(j, "published")
     \/ ~accepts(j) /\ UNCHANGED docs /\ To(j, "rejected")
  /\ UNCHANGED <<released, local, overlapped>>

Script(j) ==
  Prerelease(j) \/ Conflict(j) \/ Refuse(j) \/ Unchanged(j) \/ Commit(j) \/ PushAll(j)

Next ==
  \/ \E m \in Minors : PushRelease(m) \/ RunLocally(m)
  \/ \E j \in 1 .. Len(jobs) : Script(j)

Spec == Init /\ [][Next]_vars

\* Every job of the workflow that started runs to its end; a maintainer may
\* walk away.
Fairness ==
  \A j \in 1 .. MaxJobs : WF_vars(j <= Len(jobs) /\ jobs[j].clone = "ci" /\ Script(j))
FairSpec == Spec /\ Fairness

-----------------------------------------------------------------------------
(* Properties.                                                             *)

\* The published docs are never replaced by those of an earlier minor, not
\* even by a job that looked before they were published; and by those of an
\* earlier patch only when jobs have overlapped.
NeverOlder ==
  [][docs # <<>> =>
       /\ Last(docs').minor >= Last(docs).minor
       /\ Last(docs').minor = Last(docs).minor /\ Last(docs').patch < Last(docs).patch
            => overlapped]_vars

\* "Refusing to update docs: newer version is published": a job that gives
\* up with these words has seen the docs of a later minor.
RefusalJustified ==
  \A j \in 1 .. Len(jobs) : jobs[j].pc = "refused" =>
    \E i \in 1 .. Len(docs \o local) : (docs \o local)[i].minor > jobs[j].minor

\* A push is rejected only to a job that lost a race: the docs branch has
\* grown since the job looked, on top of what it saw.
RejectionJustified ==
  \A j \in 1 .. Len(jobs) : jobs[j].pc = "rejected" =>
    IsStrictPrefix(Front(jobs[j].branch), docs)

\* Unless jobs have overlapped, the docs of every final release get
\* published by its workflow, or those of a later one are.
ReleaseDocumented ==
  \A m \in Minors, p \in 0 .. MaxPatch :
    released[m] = [patch |-> p, pre |-> FALSE]
      ~> \/ overlapped
         \/ \E i \in 1 .. Len(docs) :
              docs[i].minor > m \/ (docs[i].minor = m /\ docs[i].patch >= p)
=============================================================================
