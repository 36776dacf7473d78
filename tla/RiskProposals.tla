---------------------------- MODULE RiskProposals -----------------------------
(***************************************************************************)
(* The risk proposals from the scripts to the reserves: payloads are       *)
(* deployed, proposals are broadcast, or printed and sent by somebody,     *)
(* queued after the vote, and executed by the SHORT_EXECUTOR, which        *)
(* delegatecalls each target's execute(); this in turn calls the           *)
(* configurator.  Anybody may also call a payload's execute() directly.    *)
(*                                                                         *)
(* A transaction makes its configurator calls one by one.  It may fail at  *)
(* any of them, because the configurator refuses or because the caller     *)
(* gave too little gas; then everything it did is undone and the proposal  *)
(* stays queued, to be tried again until its window closes.  Nothing else  *)
(* happens while a transaction runs.                                       *)
(***************************************************************************)
EXTENDS RiskPayloads, ProposalScripts

CONSTANTS
  Broadcasts,     \* what the broadcasting scripts in use propose
  Printouts,      \* the calldata that the printing scripts in use print
  OtherProposals, \* proposals of other origin
  Targets,        \* the addresses where a payload may be deployed
  MaxProposals,   \* bound: proposals submitted
  Delay, Grace,   \* of the executor
  MaxTime         \* bound: time

ASSUME RiskAssumption ==
  /\ MaxProposals \in Nat /\ Delay \in Nat /\ Grace \in Nat /\ MaxTime \in Nat
  /\ Targets \subseteq {"0x33d7", "0xeca5", "0x60bC", "MKR", "DPI"}

\* The arguments of GOV.create are arrays, and all call execute().
ASSUME ActionsAssumption ==
  \A proposal \in Broadcasts \cup Printouts \cup OtherProposals :
    LET actions == proposal.actions
    IN /\ actions \in Seq({actions[k] : k \in DOMAIN actions})
       /\ \A k \in DOMAIN actions : actions[k].signature = "execute()"

\* The payload that is deployed at each address, sooner or later, if at all.
IntendedCode(target) ==
  CASE target = "0x33d7" -> LTTailDecemberPayload
    [] target = "0xeca5" -> UsdcLTDecemberPayload
    [] target = "0x60bC" -> DaiLTDecemberPayload
    [] target = "MKR"    -> MKRPayloadFeb26
    [] target = "DPI"    -> AaveV2FreezeDPIPayload

VARIABLES
  now,
  deployed,   \* the addresses that have code
  printed,    \* calldata printed so far
  proposals,  \* GOV's proposals, in the order of their ids
  configs,    \* the reserves
  tx          \* the transaction in progress

vars == <<now, deployed, printed, proposals, configs, tx>>

\* by: who sent it; id: the proposal it executes; actions: those it runs;
\* at, done: the action it is at and the calls of it that are made; saved:
\* the reserves at its start.
NoTx == [by |-> "nobody", id |-> 0, actions |-> << >>, at |-> 1, done |-> 0,
         saved |-> CommentedConfigs]

Idle == tx = NoTx

Init ==
  /\ now = 0
  /\ deployed = {}
  /\ printed = {}
  /\ proposals = << >>
  /\ configs = CommentedConfigs
  /\ tx = NoTx
-----------------------------------------------------------------------------
(* Before the vote.                                                        *)

\* new ProposalPayload(), by one of the payload scripts.
DeployPayload(target) ==
  /\ Idle /\ target \notin deployed
  /\ deployed' = deployed \cup {target}
  /\ UNCHANGED <<now, printed, proposals, configs, tx>>

\* GOV.create: a proposal has at least one action.
create(proposal) ==
  /\ proposal.created /\ proposal.actions # << >>
  /\ Len(proposals) < MaxProposals                  \* bound MaxProposals
  /\ proposals' = Append(proposals,
       [actions |-> proposal.actions, ipfsHash |-> proposal.ipfsHash,
        state |-> "Pending", eta |-> 0])
  /\ UNCHANGED <<now, deployed, printed, configs, tx>>

\* A script prints calldata; the require fails or it returns the bytes.
EmitCalldata(calldata) ==
  /\ Idle /\ calldata.created
  /\ printed' = printed \cup {calldata}
  /\ UNCHANGED <<now, deployed, proposals, configs, tx>>

\* A proposal reaches GOV from a script, from printed calldata, or from
\* elsewhere.  Nothing tells whether the same one was submitted before.
Submit ==
  Idle /\ \E proposal \in Broadcasts \cup printed \cup OtherProposals : create(proposal)

SetState(i, state, eta) ==
  /\ proposals' = [proposals EXCEPT ![i].state = state, ![i].eta = eta]
  /\ UNCHANGED <<now, deployed, printed>>

\* The vote has passed.
queue(i) ==
  /\ Idle /\ proposals[i].state = "Pending"
  /\ SetState(i, "Queued", now + Delay)
  /\ UNCHANGED <<configs, tx>>

cancel(i) ==
  /\ Idle /\ proposals[i].state \in {"Pending", "Queued"}
  /\ SetState(i, "Canceled", proposals[i].eta)
  /\ UNCHANGED <<configs, tx>>

Tick ==
  /\ Idle /\ now < MaxTime                          \* bound MaxTime
  /\ now' = now + 1
  /\ UNCHANGED <<deployed, printed, proposals, configs, tx>>
-----------------------------------------------------------------------------
(* Transactions.                                                           *)

\* What runs at an address: nothing where there is no code, and then the
\* delegatecall succeeds.
CodeAt(target) == IF target \in deployed THEN IntendedCode(target) ELSE << >>

CodesAt(actions) == [k \in DOMAIN actions |-> CodeAt(actions[k].target)]

Started(by, id, actions) ==
  [by |-> by, id |-> id, actions |-> actions, at |-> 1, done |-> 0, saved |-> configs]

\* Mutant: a proposal is executed that is not queued.
executeUnqueued(i) ==
  /\ Idle /\ proposals[i].eta <= now /\ now <= proposals[i].eta + Grace
  /\ tx' = Started("executor", i, proposals[i].actions)
  /\ UNCHANGED <<now, deployed, printed, proposals, configs>>

\* GOV.execute of a queued proposal within its window.
execute(i) ==
  /\ Idle /\ proposals[i].state = "Queued"
  /\ proposals[i].eta <= now /\ now <= proposals[i].eta + Grace
  /\ tx' = Started("executor", i, proposals[i].actions)
  /\ UNCHANGED <<now, deployed, printed, proposals, configs>>

\* execute() of a deployed payload, called by anybody.
CallDirectly(target) ==
  /\ Idle /\ target \in deployed
  /\ tx' = Started("anybody", 0, <<[Action(target) EXCEPT !.withDelegatecall = FALSE]>>)
  /\ UNCHANGED <<now, deployed, printed, proposals, configs>>

AtAction == tx.at \in DOMAIN tx.actions

\* The configurator call that is next, if any, and its msg.sender: the
\* executor inside a delegatecall, else the payload.
AtCall == AtAction /\ tx.done < Len(CodeAt(tx.actions[tx.at].target))
nextCall == CodeAt(tx.actions[tx.at].target)[tx.done + 1]
msgSender ==
  IF tx.actions[tx.at].withDelegatecall THEN POOL_ADMIN ELSE tx.actions[tx.at].target

\* The next configurator call succeeds.
ConfiguratorCall ==
  /\ AtCall
  /\ Accepted(nextCall, msgSender)
  /\ configs' = Applied(configs, nextCall)
  /\ tx' = [tx EXCEPT !.done = @ + 1]
  /\ UNCHANGED <<now, deployed, printed, proposals>>

\* An execute() returns, and the next action begins.
NextAction ==
  /\ AtAction /\ ~AtCall
  /\ tx' = [tx EXCEPT !.at = @ + 1, !.done = 0]
  /\ UNCHANGED <<now, deployed, printed, proposals, configs>>

\* Mutant: a failed transaction keeps what it did.
RevertPartly ==
  /\ ~Idle
  /\ tx' = NoTx
  /\ UNCHANGED <<now, deployed, printed, proposals, configs>>

\* It is refused, or gas runs out: the transaction never happened.
Revert ==
  /\ ~Idle
  /\ configs' = tx.saved
  /\ tx' = NoTx
  /\ UNCHANGED <<now, deployed, printed, proposals>>

\* All actions are done.
Commit ==
  /\ ~Idle /\ ~AtAction
  /\ tx' = NoTx
  /\ IF tx.by = "executor"
     THEN SetState(tx.id, "Executed", proposals[tx.id].eta)
     ELSE UNCHANGED <<now, deployed, printed, proposals>>
  /\ UNCHANGED configs

Next ==
  \/ \E target \in Targets : DeployPayload(target) \/ CallDirectly(target)
  \/ \E calldata \in Printouts : EmitCalldata(calldata)
  \/ Submit
  \/ \E i \in DOMAIN proposals : queue(i) \/ cancel(i) \/ execute(i)
  \/ Tick
  \/ ConfiguratorCall \/ NextAction \/ Revert \/ Commit

Spec == Init /\ [][Next]_vars
-----------------------------------------------------------------------------
(* Properties.                                                             *)

\* What is on chain between transactions.
Shown == IF Idle THEN configs ELSE tx.saved

ProposalState == {"Pending", "Queued", "Canceled", "Executed"}

TypeOK ==
  /\ now \in 0 .. MaxTime
  /\ deployed \subseteq Targets
  /\ printed \subseteq Printouts
  /\ Len(proposals) <= MaxProposals
  /\ \A i \in DOMAIN proposals :
       /\ proposals[i].state \in ProposalState
       /\ proposals[i].eta \in 0 .. MaxTime + Delay
  /\ configs \in [Assets -> Config]
  /\ tx.saved \in [Assets -> Config]
  /\ tx.by = "executor" => proposals[tx.id].state = "Queued"

(* Every proposal that the scripts make does what it says or nothing: the  *)
(* configurator never refuses a call of an executing proposal, whatever    *)
(* was executed before, so that only too little gas can fail it.           *)
NeverRefused ==
  tx.by = "executor" /\ AtCall => Accepted(nextCall, msgSender)

(* One document, one proposal: the printed calldata that somebody sends    *)
(* and the broadcast make proposals with the same actions.                 *)
SameHashSameActions ==
  \A i, j \in DOMAIN proposals :
    proposals[i].ipfsHash = proposals[j].ipfsHash =>
      proposals[i].actions = proposals[j].actions

\* A proposal as AtomicProposals sees it.
Exists(i) == i \in DOMAIN proposals
StateOf(i) == IF Exists(i) THEN proposals[i].state ELSE "none"
EtaOf(i) == IF Exists(i) THEN proposals[i].eta ELSE 0
CallsOf(i) == IF Exists(i) THEN CodesAt(proposals[i].actions) ELSE << >>

(* The reserves change as AtomicProposals says: only when a queued         *)
(* proposal is executed in its window, by all of its calls or none.        *)
ReservesAtomic == INSTANCE AtomicProposals WITH
  Ids <- 1 .. MaxProposals,
  configs <- Shown,
  state <- [i \in 1 .. MaxProposals |-> StateOf(i)],
  eta <- [i \in 1 .. MaxProposals |-> EtaOf(i)],
  calls <- [i \in 1 .. MaxProposals |-> CallsOf(i)]

ImplementsAtomicProposals == ReservesAtomic!Spec

Lowers(asset) ==
  /\ Shown'[asset].ltv <= Shown[asset].ltv
  /\ Shown'[asset].liquidationThreshold <= Shown[asset].liquidationThreshold

(* The payloads only make the protocol safer: no execution raises a        *)
(* loan-to-value or a liquidation threshold ("50 -> 47", "60 -> 57").      *)
OnlyTightens == [][\A asset \in Assets : Lowers(asset)]_vars

(* So it is, in whatever order they are executed and repeated, of every    *)
(* reserve but MKR, and of MKR as long as nobody has deployed its payload  *)
(* of February.                                                            *)
TightensWithoutFebruary ==
  [][\A asset \in Assets : asset # "MKR" \/ "MKR" \notin deployed => Lowers(asset)]_vars

(* And they change nothing else: the bonus stays ("//unchanged"), and only *)
(* the DPI payload freezes, and only DPI.                                  *)
NothingElseChanges ==
  [][\A asset \in Assets :
       /\ Shown'[asset].liquidationBonus = Shown[asset].liquidationBonus
       /\ asset # "DPI" => Shown'[asset].isFrozen = Shown[asset].isFrozen]_vars
=============================================================================
