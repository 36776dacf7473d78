# A formal model of the Chaos Labs Aave payloads

The repository holds Solidity *payloads* that Aave governance executes on
Ethereum, the Forge scripts that deploy them and propose them, and fork tests.
The contracts are short and each is executed once or a few times, long after it
was written, by other people's transactions, on other people's contracts. What
can go wrong is therefore mostly in between: *when* a payload is executed,
*after what*, *how often*, and what the contracts it calls make of its
constants.

The repository also carries the OpenZeppelin contracts with the JavaScript that
generates, checks, documents and migrates them. That is the other half of this
directory: the storage libraries that templates generate (checkpoints, sets,
maps, casts), the check of inheritance orders, the jobs that publish the docs,
and the script that rewrites users' imports. What is hard there is of other
kinds: binary searches without bounds checks, two structures in storage that
must agree, jobs racing for one branch, a process killed halfway.

All of it is modelled in TLA+, checked with TLC on small instances, and the
central properties are proved with TLAPS.

Paths below are relative to the repository root (`PROJECT.json` counts from one
level up). Solidity's `src/payloads` is the directory `src/payloads` of the
repository. `OZ/` stands for `lib/openzeppelin-contracts/`, and `T/` for
`OZ/scripts/generate/templates/`.

## 1. Inventory

### Payment payload — `src/payloads/PaymentProposalPayload.sol`
* *State*: none of its own; constants (recipient, amount, 180 and 360 days).
* *Operation*: `execute()`, external and unguarded, delegatecalled by the
  governance executor: one `createStream` on the COLLECTOR, with start and stop
  relative to the block of execution.
* *Hard*: the deposit has to be a multiple of the duration; execution may be
  late or repeated; the reserve may be spent meanwhile.
* *Correct when*: the stream is accepted at any time; nothing is paid in the
  first six months; everything is paid or due after twelve.

### V2 coverage payload — `src/payloads/V2CoveragePaymentPayload.sol`
* *Operation*: `execute()`: rounds two approved amounts down to multiples of
  150 days and creates two streams, aUSDC on the COLLECTOR and AAVE on the
  ECOSYSTEM_RESERVE, in one transaction.
* *Hard*: the rounding; one stream without the other.
* *Correct when*: both streams or none, over the same period, for at most the
  approved amount and almost all of it.

### Reserve streams — `src/external/aave/IStreamable.sol`, `IAaveEcosystemReserveController.sol`
* *State*: for each reserve a mapping of streams, the next stream id, and its
  ERC20 balances. The contracts are external: the repository has the interfaces,
  and comments and tests that say how they behave.
* *Operations*: `createStream`, `withdrawFromStream`, `cancelStream`,
  `transfer` (outflows decided by governance), the views `balanceOf`, `deltaOf`.
* *Hard*: withdrawals in any split, interleaved with cancellation, time,
  outflows and other proposals' streams, from balances nobody set aside.
* *Correct when*: each unit is paid at most once and not before it vested, and
  a closed stream is settled.

### Risk payloads — `Dai/Usdc/LTTail`, `MKRPayload-Feb26`, `AaveV2FreezeDPIPayload`
* *State*: none of their own; percentages as constants. The reserves'
  configurations are in the (external) pool configurator.
* *Operation*: `execute()`: one to four configurator calls that overwrite a
  reserve's loan-to-value, threshold and bonus, or freeze it.
* *Hard*: partial failure; absolute values that were chosen against the reserves
  of one day; only the pool admin may make these calls, so they work under
  delegatecall only.
* *Correct when*: all calls or none; none refused; only what is announced
  changes, and only towards safety.

### Proposal scripts — `script/*.s.sol`, `script/specific/*.s.sol`, `Makefile`
* *State*: none: nothing remembers what was deployed, printed or submitted.
* *Operations*: deploy a payload; build a proposal of one payload or several
  (seven copies of the same library in four files) and either broadcast
  `GOV.create` or print its calldata for somebody to send.
* *Hard*: copies that may diverge; the same proposal submitted twice; addresses
  typed in as literals, where there may be no code.
* *Correct when*: what is printed and what is broadcast are the same proposal,
  and every action of it delegatecalls.

### Governance and executor (external)
Submission, vote, queue, cancellation, a window for execution, and the
execution itself: each action in order, in one transaction, all or nothing.

### Checkpoints — `T/Checkpoints.js`, `T/CheckpointsMock.js`
* *State*: an array of (key, value) in storage; the locals of a running lookup.
* *Operations*: `push` (also with an operation on the latest value, as `Votes`
  does), `latest`, `latestCheckpoint`, `length`, `lowerLookup`, `upperLookup`,
  `getAtBlock`, `getAtProbablyRecentBlock`. The template makes one legacy
  library keyed by the block number and two with keys of the caller.
* *Hard*: storage is read without bounds checks; the search of recent blocks
  starts at `len - sqrt(len)`; a key out of order breaks answers long after.
* *Correct when*: keys increase, a search never excludes the position it looks
  for and ends, and what was the value at a past block stays it.

### Enumerable sets and maps — `T/EnumerableSet.js`, `T/EnumerableMap.js`, their mocks, `T/conversion.js`
* *State*: an array of words and the position of each; for a map, values too.
* *Operations*: `add`, `remove`, `contains`, `length`, `at`, `values`; `set`,
  `remove`, `contains`, `length`, `at`, `tryGet`, `get` (with or without a
  message); each wrapped for three types, or five pairs of types.
* *Hard*: removal moves the last member into the gap; 0 is both a value and the
  absence of one.
* *Correct when*: it is a set, or a map, that enumerates itself.

### Casts — `T/SafeCast.js`, `T/SafeCastMock.js`, `OZ/scripts/helpers.js`
* *Operations*: downcasts within a sign at 31 widths, and between the signs.
* *Correct when*: a chain of casts and checked arithmetic is exact or reverts,
  and reverts only where the result does not fit.

### Inheritance check — `OZ/scripts/checks/inheritance-ordering.js`
* *State*: a graph, the chains read, the exit code; for each artifact anew, but
  for the exit code.
* *Operations*: open an artifact, read a contract (mocks are left out), report
  the pairs with an edge each way, finish.
* *Hard*: false alarms from mocks, missed pairs, the code of an earlier artifact;
  contradictions around cycles longer than 2.

### Docs branch — `OZ/scripts/update-docs-branch.js`, `OZ/.github/workflows/docs.yml`
* *State*: `docs-v4.x` at the remote and in clones, the release branches.
* *Operations*: a push to a release branch starts a job: refuse a prerelease,
  fetch, refuse conflicting branches or an older version, commit, push all.
* *Hard*: jobs of several releases at the same time, between whose look and push
  anything may be published; no job is retried.

### Import migration — `OZ/scripts/migrate-imports.js`
* *State*: the user's files; the list of paths in memory.
* *Operations*: list the Solidity files at the paths given and below, or below
  `contracts` if none is given; rewrite each; report what was updated. A path
  where nothing is ends the process.
* *Hard*: killed in the middle and run again, perhaps over other paths; several
  occurrences of one path.
* *Correct when*: a run writes nothing outside its paths, loses nothing there but
  by a kill, and says that nothing was to be updated only when no old path is
  left there.

### Interaction
The parts of the generated libraries share code by inclusion: a map holds a set
of its keys, histories use casts and `Math.sqrt`. The OpenZeppelin scripts meet
only in the repository they work on. On the payloads' side, a script deploys a payload; a script, or whoever sends the printed calldata,
submits a proposal; governance queues it; anyone has the executor execute it in
its window; the executor delegatecalls `execute()`; that calls the reserve
controller or the configurator; recipients then withdraw from the streams. The
only state that parts share is on the external contracts: the streams and
balances of the two reserves, the configurations, and the proposals.

### Not modelled
* `Counter.s.sol` (forge template), the submodules (empty), and the Makefile as
  such: the models let every script run at any time, in any order and
  repeatedly, which includes whatever the Makefile runs.
* The Solidity contracts of OpenZeppelin, which no payload or script imports,
  except what the generated libraries need of them: `Math.average`, `log2`,
  `sqrt` and the arithmetic with which `Votes` pushes.
* `OZ/scripts/release/*` (a version or a date substituted in text, once),
  `compareGasReports.js` (statistics and tables), `gen-nav.js`, `docs/helpers.js`,
  `prepare-docs-solc.js`, `format-lines.js` (layout), `hardhat.config.js`,
  `hardhat/*`, `.mocharc.js`, `.solcover.js`, `remove-ignored-artifacts.js`
  (settings and filters of file lists). They keep no state, nothing runs beside
  them, and what could be wrong is wording.

## 2. Modules

| module | what it is | code |
| --- | --- | --- |
| `PaymentPayload`, `CoveragePayload` | the `createStream` calls of the two contracts, as functions of the block time; the contracts' constants are CONSTANTS | the two payment payloads |
| `EcosystemReserve` | the two reserves, their streams and the token ledgers; one action per operation | the two interfaces; external behaviour |
| `StreamPayments` | both payloads executed against the reserves, the environment, and the properties | `execute()` of both; the recipient of the tests |
| `Vesting` | abstract specification of a stream: grants that vest linearly, pay at most what vested, close settled | – |
| `ContractConstants` | the contracts' actual amounts and seconds | the constants of both |
| `RiskPayloads` | five payloads as sequences of configurator calls | the five risk payloads |
| `LendingPoolConfigurator` | the two configurator operations and their checks | external |
| `ProposalScripts` | the libraries and each script's `run()` | `script/` |
| `RiskProposals` | deployment, submission, queueing and execution of the risk proposals, call by call | scripts; external governance |
| `AtomicProposals` | abstract specification: reserves change only by whole proposals, once each, in their window | – |
| `Checkpoints`, `CheckpointsTrace`, `CheckpointsHistory` | one history in storage: what the instances of the template share, and what only the traces, or only the legacy one, have | `T/Checkpoints.js`, `T/CheckpointsMock.js` |
| `ValueHistory` | abstract specification: a set of points and what must be answered about it | – |
| `OZMath` | `Math.log2` and `Math.sqrt` | `OZ/contracts/utils/math/Math.sol` |
| `EnumerableSet`, `EnumerableMap` | the libraries, as operators on words and their wrappers by type | the two templates |
| `EnumerableSetMock`, `EnumerableMapMock` | the contracts around them, one action per function | the two mock templates |
| `PlainSet`, `PlainMap` | abstract specifications of a set and a map that list their members | – |
| `SafeCast`, `SafeCastMock` | the casts, and computations that use them | the two templates |
| `GeneratedMocks` | all of these contracts, one of them deployed | `OZ/scripts/generate/run.js` |
| `InheritanceOrdering` | the compiler's linearizations and the check over them | the script |
| `DocsBranch` | the workflow's jobs, a maintainer's clone, and the branch they race for | script and workflow |
| `MigrateImports` | the migration, kills and repetitions over a tree of files | the script |
| `MCStreamPayments`, `MCRiskProposals`, `MCGeneratedMocks`, `MCMigrateImports` | small instances for TLC | – |
| `StreamPaymentsProofs`, `StreamLedgerProofs`, `RiskProposalsProofs`, `CheckpointsProofs`, `GeneratedProofs`, `InheritanceProofs`, `DocsBranchProofs`, `MigrateImportsProofs` | theorems and proofs | – |

### Payment side
`streams[r][id]` is the mapping of reserve `r`, with the fields of `struct
Stream` (`sender` is always `r`). `now` is the block time in units of any fixed
length. `terms` is what the CreateStream event announced, `received` what the
WithdrawFromStream and CancelStream events add up to; `origin` records which
payload created a stream and when. `terms`, `received` and `origin` are history:
no action reads them to decide anything (`ReserveStep` only bounds the amounts it tries
by the deposit).

A transaction of the executor is one action: the EVM runs it without
interruption. `ExecuteCoverage` chains two `createStream`s through intermediate
slots, and is enabled only if both are accepted — either refused undoes both.
`ExecuteOther` creates streams of other proposals, some of which are refused.
`WithdrawFromStream` takes *every* possible amount, not only the full balance.

What is assumed of the reserve, and from where: a remainder is refused
(`PaymentProposalPayload.sol:22-25`); `balanceOf` accrues at `ratePerSecond`
between start and stop, less what was withdrawn
(`PaymentProposalPayload.t.sol:127-149`); withdrawing 0 throws (`:123`); a
transfer that exceeds the reserve's balance reverts; a finished or cancelled
stream is deleted; ids are not reused; recipient and admin may cancel.

### Risk side
A transaction is a sequence of steps: `execute` or `CallDirectly` starts it,
`ConfiguratorCall` makes one call if it is `Accepted`, `NextAction` moves to the
next target, `Commit` ends it, and `Revert` — possible at any step, since gas
may run out anywhere — restores the reserves it found. Nothing else happens in
between (`Idle`). `CodeAt` of an address that was not deployed is empty: a
delegatecall there *succeeds*, which is why the literal payload addresses of the
scripts matter. `Shown` is what the chain shows between transactions.
`CommentedConfigs`, the reserves at the start, are the values the payloads'
comments name ("65 -> 62").

### Generated libraries
`ckpts` is `self._checkpoints`, `search` the locals of a running lookup, `answer`
what the last call returned. A lookup is `Begin` (with the range the function
starts from), then `upperBinaryLookup` or `lowerBinaryLookup` for each iteration,
then `upperResult` or `lowerResult`. An EVM call is not interrupted, so nothing
else is enabled while `search` is not `Idle`. `unsafeAccess` beyond the end
reads 0, as storage does. A call that reverts changes nothing and is not a step.

A set is a record of the array `values` and the mapping `indexes` (from 1; 0: not
in the set), as in the code; a map holds such a set of keys and a mapping of
values. The private functions `_add`, `_remove`, … are `addWord`, `removeWord`, …;
`_remove` is split at its two steps, `moveLast` and `pop`. The conversions take
and widen words modulo the width of `address`. Views are actions too: they
change `response` or `reply` only, so that the refinements speak of answers.

In `SafeCastMock`, `number` is what the machine computes and `exact` the same
computation on the integers, a history variable.

### Scripts of OpenZeppelin
`InheritanceOrdering`: `Compile` adds a contract whose chain starts with itself
and keeps the order of its bases' chains, which is all that the script relies on
(and a weaker constraint than C3, so more chains are checked). Bases are chosen
among earlier contracts, at most two each.

`DocsBranch`: a commit is known by the job that made it and its version; a branch
is the sequence of its commits. A job reads `docs` when it looks (fetch, checks
and commit are one step: they act on the clone alone once the fetch is done) and
the remote accepts its push only as an extension of what is then published.
The local clone keeps its docs branch from one run to the next. A run whose
release is already the latest published fails at `git commit` (`Unchanged`).
`overlapped` is a history variable.

`MigrateImports`: a text is a sequence of references and of other text; a row of
the table replaces the first occurrence of its path in the plain and in the
upgradeable package. `given` are the paths of the run: its arguments, or
`contracts` when there is none. `Below[given]` is the code's result stated without
its loop: the Solidity files that belong to every set of paths that holds those
given and, with a directory, what it lists. `fail` is the rejected `fs.stat` of a
path where nothing is. `kill` is possible before any step; in the middle of
`fs.writeFile` it leaves any prefix of the new text. `passes` is a history
variable: how many runs over a file came to their end.

## 3. Properties and runs

**StreamPayments** (200,250 states). Two streams per reserve, six points in
time, payments of 4 over a period of 2 that begins 2 later, coverage of 5 and 3
over 2 (both leave a remainder to round), 9 tokens per reserve and outflows of
5. That is enough for a payload executed twice, for both payloads on one
reserve, for overcommitted reserves (4+4 promised and 5 spent of 9),
for every split of a deposit, and for a stream that is still open
after its stop.
* `AccruedOnce` — what was paid plus what is due is what vested; `balanceOf`
  never underflows.
* `PaymentSchedule` — nothing in the first part, everything by the end, counted
  from the execution whenever that was.
* `CoverageTwins` — never one coverage stream without the other.
* `PayloadsAccepted` — no call of a payload is refused at any time.
* `WithinApproval` — rounding costs less than one unit per time unit.
* `Solvent` — unescrowed deposits can only fail by overcommitment: as long as
  promises and outflows stay within what the reserve held, every stream can be
  paid to its end.
* `LedgerMatchesEvents` — balances agree with events, tokens are conserved.
* `ImplementsVesting` — refinement to `Vesting`, for all streams.

**StreamPaymentsLive** — `PaidInFull`: under the fairness below, the recipient of
the tests gets what each execution was approved for. Up to seven points in time, so
that executions at time 0, 1 and 2 (coverage: up to 4) have room to finish.

**StreamPaymentsYear** (violation expected) — `OverTwelveMonths`: the comment
"Stream of $0.5 million in aUSDC over 12 months"
(`PaymentProposalPayload.sol:38`) taken at its word. The code streams the amount
in months 7 to 12; the tests agree with the code, so the comment misleads.

**RiskProposals** (2,656,736 states). At most two proposals, from all
broadcasts (among them the one at `DeployMainnetProposal.s.sol:80`, whose target
never has code), all printed calldata, and the DPI and MKR payloads; a delay of
one and a window of one point in time, of three, so that a proposal may be too
early, in time, retried in time, and too late; deployments, direct calls and failures
anywhere. Two proposals suffice for a proposal submitted twice, for printed and
broadcast twins, and for one executed between another's failure and its retry.
* `NeverRefused` — an executing proposal meets no refusal.
* `SameHashSameActions` — proposals with the same IPFS document have the same
  actions, whichever copy of the library made them.
* `ImplementsAtomicProposals` — refinement to `AtomicProposals`.
* `NothingElseChanges` — the bonus ("//unchanged") stays, only DPI is frozen.
* `TightensWithoutFebruary` — no execution, in whatever order and repeated, raises
  a loan-to-value or a threshold, but of MKR once its payload of February is
  deployed.

**RiskStaleMkr** (violation expected) — `OnlyTightens`, the same without the
exception, with the MKR proposal of February and the long tail proposal: executed in this order, MKR's
loan-to-value goes 59 -> 62 where the comment says "65 -> 62"
(`LTTailDecemberPayload.sol:18`). The values are absolute, nothing in payload or
scripts excludes the order, and no test runs one payload after the other.

**GeneratedMocks** (129,752 states). One of the generated contracts is deployed
and called in any sequence. Checkpoints at six keys, so that the search of recent
blocks leaves its shortcut (more than five checkpoints), and block numbers up to
two beyond the widest key, where the casts revert. Three words, two of them
addresses: a set of three is the least in which a removal from the front, from
the middle and from the end differ; every type and pair of types. Casts at the
widths 2, 4, 6 of 8 bits, from every value of the full word, with 1, 3 and 85 as
operands. `Sqrt` is the code's own; that it rounds down is checked for all
numbers to 20000.
* `KeysIncreasing`, `SearchSound` — the array is in order, and a search never
  excludes the position it is to find, nor leaves the array.
* `ImplementsHistory` — refinement to `ValueHistory`: every answer is the one
  that the recorded points determine.
* `PastFixed`, `OldKeysFixed` — the value at a past block, or at a key before the
  newest, never changes: votes cannot be rewritten.
* `LookupReturns` — every lookup ends.
* `SetIndexesMatch`, `SetImplementsPlain` — the two structures of a set agree,
  and are a set; all answers included.
* `SetOnlyLastMoves` — a caller that walks a set downwards and removes as it goes
  skips nothing.
* `NoOrphanValue`, `MapImplementsPlain` — a removed key leaves no value; the map
  is a map, for a stored 0 too.
* `Exact`, `RevertsOnlyUnfit` — a computation with casts has the value it has on
  the integers, or reverts over a result that does not fit its type.

**InheritanceOrdering** (42,819 states). Every inheritance graph of up to five
contracts, one of which may be a mock, and two artifacts. Four contracts make
the smallest conflict (two bases, two heirs in opposite order), the fifth is the
mock or a contract between them.
* `ReportExact` — the pairs reported are the ones ordered in opposite ways by two
  contracts outside mocks, no more and no fewer.
* `ConflictsExplained` — the printed chains show both orders.
* `FailureSticks` — a later artifact does not hide the failure.

**InheritanceCycle** (violation expected) — `OrderingConsistent`: "Contract
ordering is consistent." (`inheritance-ordering.js:49`), on the ground of "We are
only interested int cycles of lengths 2 (needs proof)" (`:31`). Six contracts:
<<4,2,1>>, <<5,3,2>>, <<6,1,3>> agree on every pair, and no order agrees with all
three. `JoinedIsRanked` (theorem `CleanMeansRanked`) is the case in which the comment holds.

**DocsBranch** (56,686 states). Two minors, two patches, release candidates, four
runs of the script at any time, in workflow jobs or in the maintainer's clone:
enough for a race of two, the loser's successor, and a local branch that is
ahead of, behind or beside the remote one.
* `NeverOlder` — docs of an earlier minor never follow those of a later one;
  those of an earlier patch only if jobs overlapped.
* `RefusalJustified`, `RejectionJustified` — a job gives up only over a newer
  minor, and is rejected only for a lost race.
* `ReleaseDocumented` — without overlap, every final release gets documented, or
  a later one does. With overlap it need not: the loser is not retried.

**DocsTenthMinor** (violation expected) — `RefusalJustified` with the minors 9 and
10: the script compares them as strings (`update-docs-branch.js:42`), so after
the docs of 4.9 those of 4.10 are refused with "newer version is published".

**MigrateImports** (910,500 states). Two Solidity files, one in a subdirectory of
`contracts` and one in `test`, and another file; six texts with a path once,
twice, three times, and from several rows; runs without arguments, over `test`
alone, over both directories, over two files, and over a path where nothing is;
up to four runs, one killed.
* `Damage` — a kill damages one file at most, and only by cutting it off.
* `OnePerRun` — each complete run replaces one occurrence of each old path in each
  Solidity file at its paths and below; what runs over other paths do in between
  does not matter, nor how often a run lists the file.
* `NoneLeft` — it reports "No files were updated" only when no old path is left in
  those files. In others there may be: the message says nothing of its paths.
* `OnlyGiven` — it writes no other file, not even by a write that is cut off; a
  run over `test` leaves `contracts` alone.

**MigrateOnce** (violation expected) — `MigratedAtOnce`: the script "will migrate
import statements automatically" (`OZ/CHANGELOG.md:305`), which names one command.
A run that is done, and was not killed, has left an old path in a file that it
reports as updated: `String.replace` replaces the first of two occurrences
(`migrate-imports.js:146`).

Every run has `CHECK_DEADLOCK FALSE`: the bounds on time, stream ids,
proposals, blocks, jobs and runs end each behaviour, where the real system goes
on, and a script that is done stops. Bounds: `MaxTime`, `MaxStreams`,
`MaxProposals`, `MaxBlock`, `MaxIndex`, `MaxEntry`, `MaxContracts`,
`MaxArtifacts`, `MaxPatch`, `MaxJobs`, `MaxRuns`, `MaxKills`; each is named where
it is declared. No symmetry is used: reserves, tokens, addresses and words play
different parts.

### Fairness
Safety runs state none. `Undisturbed` assumes weak fairness of time (blocks keep
coming) and of `WithdrawAll` for each stream: the recipient of the tests
withdraws its whole balance again and again (`PaymentProposalPayload.t.sol:116-150`). It also
leaves out cancellation, outflows and other streams: with them the promise is
not kept by the code (`Solvent` says exactly how far it goes). Fairness of
governance is never assumed: `PaidInFull` speaks of payloads that *were*
executed. It promises no date either, only that the recipient, who may be late,
gets everything.

`GeneratedSpec` assumes that a call that was started is executed to its end, as
the EVM does (weak fairness of the lookup's steps): no call is assumed to be made.
`FairSpec` of `DocsBranch` assumes that each job of the workflow runs to its end,
one way or another. A maintainer's run may be abandoned at any point, and
nothing is assumed about when releases are pushed. The other specifications of
the scripts state no fairness: only safety is checked of them.

## 4. Proofs

All theorems hold for every value of the constants that satisfies the named
assumptions (`ReserveAssumption`, `PaymentAssumption`, `CoverageAssumption`,
`OtherStreamsAssumption`, `RiskAssumption`, `ActionsAssumption`, `TreeAssumption`,
`TextAssumption`, …), so for any number of streams, any amounts and durations, and
any other proposals. Each is declared with its constants and evaluated by TLC.
`ActionsAssumption` says that a proposal's actions are an array and that all name
`execute()`, which is what every library writes; `TreeAssumption` that directories
list what there is, and that a Solidity file is neither a directory nor
anything else; where the files are, and which of them a run is given, is open.

*Streams* (`StreamPaymentsProofs`). The properties are not inductive: a stream
owes the right amount only because its stored rate times its duration is its
deposit, which holds only because `createStream` refused remainders, and because
`received` and `remainingBalance` move together. `IInv` adds to the types four
facts about each id (`StreamInv`): before it is handed out it has no stream and
no history (`Fresh`); what was announced was acceptable, and no more was paid
than has vested (`Announced`); a live stream is what was announced, less what
was received (`Live`); and a payload's stream is the one that payload's call
describes at the time of its execution (`Traced`). The lemmas on quotients (`ExactQuotient`,
`RoundedDown`, `TimesMonotone`, `QuotientOfMultiple`) carry the arithmetic, one
lemma per action the induction. From it: `TypeCorrect`, `NothingOwedTwice`,
`AlwaysAccepted`, `PaymentOnTime`, `CoverageApproved`.

*Refinement* (`StreamPaymentsProofs`). `StreamsImplementVesting`: each creation is
`MakeGrants` (of two grants for the coverage payload), a withdrawal is `Pay` or,
if it empties the stream, `Settle`; a cancellation is `Settle`; a tick is `Pass`;
an outflow is a stutter. The floor in `Vested` meets `rate * deltaOf` because the
deposit is a multiple of the duration.

*Risk proposals* (`RiskProposalsProofs`). `PayloadCallsValid`: every call of the
five payloads passes the configurator's checks. `LibrariesDelegate`: whatever
addresses and hash they are given, the libraries make only delegatecalls.
`ProposalsNeverRefused`: if that holds of all proposals (the hypothesis
`EverybodyDelegates`; of the scripts' it is a theorem, of others it must be
assumed), no call of an executing proposal is refused. The invariant `RInv`
keeps that stored actions, those of the transaction too, are proposed ones.
`ScriptsAgree`: the two copies of each library function make the same proposal of
the same arguments, and no two scripts name one document for different actions.
`OneDocumentOneProposal`: if that holds of all proposals (the hypothesis
`HashesAgree`), it holds of those on GOV; the invariant `Matched` says that GOV
keeps the document and the actions of a proposal together. `ScriptsNeverRefused` and
`ScriptsNameOneDocument` discharge both hypotheses for the repository's scripts,
whichever are in use: only others' proposals are assumed anything of.

*Reserves* (`RiskProposalsProofs`). A step changes `configs` by a known call, by a
revert, or not (`ReserveMoves`), and what the chain shows changes only by a
commit, from `tx.saved` to `configs` (`OnlyCommitShows`). So it is enough to keep
an invariant of both records: `CInv` says that they keep the commented bonuses
and freeze DPI only, hence `OnlyAnnouncedChanges`; `Tightening` says that each
reserve is either as commented or as the payloads leave it, and that a
transaction moves it only towards the latter. It speaks of MKR only while the MKR
payload of February is not deployed (`Steady`), since a deployed payload may be
called at any time; code stays where it is (`StillSteady`). Hence
`SafeWithoutFebruary`, without hypotheses; `RiskStaleMkr` shows that the
exception is needed. `RiskTypeCorrect` adds the bounds of time and
proposals (`Books`) and that a call writes percentages in range (`InRange`).

*Atomicity* (`RiskProposalsProofs`). `ProposalsAreAtomic`: a commit of the
executor is `Execute`, everything else `Prepare`. `AtomicProposals` does not run a
proposal's calls but says what they leave (`Outcome`): a reserve has the values of
the latest call that configures it, and is frozen if any call says so. The
invariant `XInv` relates a transaction in progress to that: what it has made so
far is the outcome, on `tx.saved`, of the places before the next call (`Running`);
the executor runs a queued proposal within its window (`Authorized`); a payload
that is called directly never gets past its first call (`Refusing`), and so cannot
commit. `OutcomeGrows` is the step: one more call, later than all others, has the
effect of that call. An address without code has no places, which is why a
proposal that names it does nothing and is executed.

*Ledgers* (`StreamLedgerProofs`). `Solvent`, `LedgerMatchesEvents` and
`CoverageTwins` sum or count over the streams of a reserve. What a sum over a set
is, and how it changes when one term does, is proved first by induction over the
size of the set; the library's induction theorem takes an operator, so the
induction runs over a set of naturals instead (`Induction`). `Solvent` is not
inductive: that promises are covered says nothing of what is left after a payment.
`Ledgers` is: tokens sum to what there was; the recipient's balance is the sum of
what the streams paid it; and a reserve still has at least what it held, less what
its streams paid and what governance spent. With `IInv`, by which a stream never receives more than its deposit,
`CanPayToTheEnd` and `LedgersAgree` follow. `Spent` counts the outflows by
governance, so that the hypothesis of `Solvent` is about what reserves promise and
spend, not about what they have. For `CoverageInPairs` the streams of an execution
are counted on both reserves at once: each execution adds one to either.

*Checkpoints* (`CheckpointsProofs`). That keys increase is inductive only with
the types; that a search is right needs both, and that everything below `low` is
not beyond the key and everything from `high` on is. `IInv` has these three parts;
each action keeps it and refines `ValueHistory`, for all widths and lengths:
`TraceCorrect`, `TraceImplementsHistory`, and for the legacy history, whose
invariant adds that no checkpoint is of a future block, `HistoryCorrect` and
`HistoryImplementsHistory`. All that is needed of `Sqrt` is that it lies between
1 and its argument, so the pivot may be anywhere. `TraceHalves` bounds the number
of iterations; `TraceOldKeysFixed` and `HistoryPastFixed` make the past immutable.

*Sets and maps* (`GeneratedProofs`). `IndexesMatch` is inductive with the types:
adding and removing a word is one lemma each, of which the case where the removed
word is the last is separate. From it the members of the array are the words with
an index, each once, which makes a set refine `PlainSet`: `SetCorrect`,
`SetMoves`, `SetRefines`. A map adds that words without a key have no value:
`MapCorrect`, `MapMoves`, `MapRefines`. The conversions are inverse on the words
that a typed contract can store, which the type invariants carry.

*Casts* (`GeneratedProofs`). The bounds of a type are powers of two, of which the
prover knows nothing. That they grow, double and are positive comes from counting
the subsets of an interval (`PowerOfTwo`, `PowersGrow`, `PowerDoubles`), for which
the library has theorems. Then the low bits of a number are the number exactly
where it fits (`LowIsExact`), and each cast is right (`CastsAreRight`). `CastInv`
says that the machine's number is the integers' until it reverts, and that once it
has, the integers' does not fit the type that was asked for: `CastsAreExact`,
`RevertsAreDue`, for a word of any width and any narrower types.

*Inheritance* (`InheritanceProofs`). The invariant says what the graph holds
after `read` contracts: exactly the orders of the chains read, mocks left out. At
the report these are all, hence `CheckCorrect` and `ConflictsShown` for any
number of contracts and artifacts; `CleanMeansRanked` is proved from the absence
of 2-cycles through the joining contract. `CheckFails` needs no invariant.

*Docs branch* (`DocsBranchProofs`). What a rejected job committed on is a part of
the published docs only because no local branch exists before something is
published, but for that of a local job that has not pushed, of which there is one
at most (`OneLocal`, `LocalFollows`); each branch is then what was published, and
a commit (`AllBased`). No patch goes backwards only because jobs that do not
overlap work on what is released (`InTurn`). `DInv` joins these; from it
`PublishedNeverOlder`, `RejectedLostARace` and
`RefusedForALaterMinor`, for any number of jobs. The first and the last need that
minors compare as strings as they do as numbers: `OneWidth`, all of one digit or
all of two, which `DocsTenthMinor` shows to be needed.

*Import migration* (`MigrateImportsProofs`). That a run finds exactly the Solidity
files at its paths and below is two facts about its queue, stated without
recursion by sets of paths that hold, with a directory, all that it lists. Such a
set holds the run's Solidity files once it holds what is queued and found
(`Reaching`: nothing is missed); and it holds what is queued once it holds the
paths given (`Within`: nothing else is found). `MInv` adds that what was
written is the original with paths replaced, but for one file per kill (`FewTorn`),
and how many old paths are left in a file after so many complete runs over it
(`Fewer`). From it `DamageByKillsOnly`, `EachRunReplacesOne`,
`NothingUpdatedNothingLeft` and `OnlyGivenFiles`, for any tree, any texts, any
arguments, any number of runs and kills.

*Constants* (`StreamPaymentsProofs`, of the numbers in `ContractConstants`). TLC's integers are too small for 1242e18, so
what the assumptions ask is proved of the contracts' numbers:
`PaymentIsMultiple` (32151 units a second, and 500000e6 alone would be refused),
`CoverageNeedsRounding`, `RoundingIsSmall` (1.12 aUSDC and 4320000 wei of AAVE
are withheld). The prover folds products of literals in machine words and would
overflow on that amount; the module therefore never lets the two factors of
`ether` meet in one step, and carries the division by hand.

*Only model-checked*: liveness (`PaidInFull`, `LookupReturns`,
`ReleaseDocumented`), which the prover does not do (`TraceHalves` proves the
variant on which the second rests). What the histories ask of `Sqrt` is an
assumption, which TLC evaluates for the code's own. Every other property of a
passing run is a theorem.

## 5. What is abstracted

* Amounts and time are small naturals; widths of integers are not modelled:
  the largest product in a payload, about 1.3e21, is far from 2^256.
* aTokens are plain ERC20s. The tests tolerate one unit of rounding per aToken
  transfer; the model has none, and interest accrues to nobody.
* `approve` and reentrancy through a token: the payloads use neither.
* Votes and voting power are the choice whether a proposal is queued; the
  executor's refusal to queue two identical actions for the same time is left
  out, which only adds behaviours.
* Words are small, and `address` is two of three words; nothing in the libraries
  depends on widths but the casts, which run at 8 bits with types of 2, 4 and 6.
  `OZMath` treats numbers below 2^16.
* Gas, events and the text of a revert. A `get` with and without a message is one
  action.
* Compilation, `npm run prepare-docs`, and Git beyond the branches named. The
  job's steps after its fetch are one step, since they act on its clone only.
* A push to a release branch that leaves the version as it is: the job it starts
  ends as `Unchanged` does, or as the earlier job of that version would have.
* Of the migration's table, one row of each sort; every other row is alike. An
  editor that saves between the script's read and write is left out.
* Formatting of calldata: printed and sent calldata is the proposal it encodes.

## 6. Plan

Done: the reserves with both payment payloads, their abstract specification and
proofs; the contract constants; scripts, risk payloads and proposals with their
abstract specification and proofs; the generated libraries with theirs; the
inheritance check, the docs branch and the import migration with theirs.

What could come next:
1. A governance module shared by both sides, taken out of `RiskProposals`, with
   the payment payloads executed through it, call by call; then `CoverageTwins`
   and `ProposalsAreAtomic` of its steps.
2. The variant of `PaidInFull`: with each withdrawal what the recipient can still
   be paid falls, as a safety property.
