-------------------------- MODULE RiskProposalsProofs -------------------------
(***************************************************************************)
(* What TLAPS proves of the risk proposals: whatever scripts are run, in   *)
(* whatever order proposals are submitted, queued, retried and executed,   *)
(* no call of an executing proposal is refused by the configurator, what   *)
(* the chain shows changes only as the payloads announce, and only by      *)
(* whole proposals, each executed once and in its window.  Two facts carry *)
(* the first: every call of every payload is valid by its constants, and   *)
(* every proposal delegatecalls, so that the configurator sees its admin.  *)
(* That the scripts' libraries make only such proposals is proved for all  *)
(* addresses and hashes; of proposals of other origin it is a hypothesis.  *)
(***************************************************************************)
EXTENDS RiskProposals, TLAPS

\* Every action of the proposal is a delegatecall.
Delegates(proposal) ==
  /\ \A k \in DOMAIN proposal.actions : proposal.actions[k].withDelegatecall = TRUE

\* The hypothesis: nobody proposes a payload as a plain call.
EverybodyDelegates ==
  \A proposal \in Broadcasts \cup Printouts \cup OtherProposals : Delegates(proposal)

Known == Broadcasts \cup Printouts \cup OtherProposals
KnownActions == {proposal.actions : proposal \in Known}

\* A proposal as GOV keeps it: its actions are ones that were proposed.
Stored == [actions: KnownActions, ipfsHash: {proposal.ipfsHash : proposal \in Known},
           state: ProposalState, eta: Nat]

RInv ==
  /\ now \in Nat
  /\ deployed \subseteq Targets
  /\ printed \subseteq Printouts
  /\ proposals \in Seq(Stored)
  /\ tx.by = "executor" => tx.actions \in KnownActions /\ tx.id \in DOMAIN proposals
  /\ tx.done \in Nat
-----------------------------------------------------------------------------
(* Each payload's constants make valid calls: the loan-to-value is at most *)
(* the threshold, the threshold with the bonus at most 100%.               *)
THEOREM PayloadCallsValid ==
  \A code \in RiskPayloadCode : \A k \in 1 .. Len(code) : Valid(code[k])
<1> USE DEF Valid, percentMul, PERCENTAGE_FACTOR, configureReserveAsCollateral, freezeReserve
<1>1. \A k \in 1 .. Len(DaiLTDecemberPayload) : Valid(DaiLTDecemberPayload[k])
  BY DEF DaiLTDecemberPayload
<1>2. \A k \in 1 .. Len(UsdcLTDecemberPayload) : Valid(UsdcLTDecemberPayload[k])
  BY DEF UsdcLTDecemberPayload
<1>3. \A k \in 1 .. Len(LTTailDecemberPayload) : Valid(LTTailDecemberPayload[k])
  <2>1. Len(LTTailDecemberPayload) = 4
    BY DEF LTTailDecemberPayload
  <2>2. Valid(LTTailDecemberPayload[1]) /\ Valid(LTTailDecemberPayload[2])
    BY DEF LTTailDecemberPayload
  <2>3. Valid(LTTailDecemberPayload[3]) /\ Valid(LTTailDecemberPayload[4])
    BY DEF LTTailDecemberPayload
  <2>4. \A k \in 1 .. 4 : k = 1 \/ k = 2 \/ k = 3 \/ k = 4
    OBVIOUS
  <2> QED
    BY <2>1, <2>2, <2>3, <2>4
<1>4. \A k \in 1 .. Len(MKRPayloadFeb26) : Valid(MKRPayloadFeb26[k])
  BY DEF MKRPayloadFeb26
<1>5. \A k \in 1 .. Len(AaveV2FreezeDPIPayload) : Valid(AaveV2FreezeDPIPayload[k])
  BY DEF AaveV2FreezeDPIPayload
<1> HIDE DEF Valid, percentMul, PERCENTAGE_FACTOR, configureReserveAsCollateral, freezeReserve
<1> QED
  BY <1>1, <1>2, <1>3, <1>4, <1>5 DEF RiskPayloadCode

(* The libraries of the scripts, broadcasting or printing, for one payload *)
(* or several, only ever make delegatecalls: for all addresses and hashes. *)
THEOREM LibrariesDelegate ==
  /\ \A payload, ipfsHash :
       /\ Delegates(_deployMainnetProposal(payload, ipfsHash))
       /\ Delegates(_deployL1Proposal(payload, ipfsHash))
  /\ \A payloads, ipfsHash :
       /\ Delegates(_deployMainnetMultiProposals(payloads, ipfsHash))
       /\ Delegates(_deployMultiProposal(payloads, ipfsHash))
<1>1. Delegates(Refused)
  BY DEF Delegates, Refused
<1>2. ASSUME NEW payload, NEW ipfsHash
      PROVE  Delegates(Proposal(<<Action(payload)>>, ipfsHash))
  BY DEF Delegates, Proposal, Action
<1>3. ASSUME NEW payloads, NEW ipfsHash
      PROVE  Delegates(Proposal([i \in DOMAIN payloads |-> Action(payloads[i])], ipfsHash))
  BY DEF Delegates, Proposal, Action
<1>4. ASSUME NEW payload, NEW ipfsHash
      PROVE  /\ Delegates(_deployMainnetProposal(payload, ipfsHash))
             /\ Delegates(_deployL1Proposal(payload, ipfsHash))
  BY <1>1, <1>2 DEF _deployMainnetProposal, _deployL1Proposal
<1>5. ASSUME NEW payloads, NEW ipfsHash
      PROVE  /\ Delegates(_deployMainnetMultiProposals(payloads, ipfsHash))
             /\ Delegates(_deployMultiProposal(payloads, ipfsHash))
  BY <1>1, <1>3 DEF _deployMainnetMultiProposals, _deployMultiProposal
<1> QED
  BY <1>4, <1>5
-----------------------------------------------------------------------------
(* The five payloads, and no other code, run at the targets.               *)
LEMMA IntendedIsKnown == \A target \in Targets : IntendedCode(target) \in RiskPayloadCode
<1> SUFFICES ASSUME NEW target \in Targets PROVE IntendedCode(target) \in RiskPayloadCode
  OBVIOUS
<1>1. target \in {"0x33d7", "0xeca5", "0x60bC", "MKR", "DPI"}
  BY RiskAssumption
<1> QED
  BY <1>1 DEF IntendedCode, RiskPayloadCode

\* A payload has a number of calls.
LEMMA CodeLengths == \A code \in RiskPayloadCode : Len(code) \in Nat
BY DEF RiskPayloadCode, DaiLTDecemberPayload, UsdcLTDecemberPayload,
       LTTailDecemberPayload, MKRPayloadFeb26, AaveV2FreezeDPIPayload

\* At first nothing is stored and nothing runs.
LEMMA InitRInv == Init => RInv
BY DEF Init, RInv, NoTx

(* Changing the state or the eta of a proposal leaves its actions.         *)
LEMMA SetStateKeeps ==
  ASSUME RInv, NEW i \in DOMAIN proposals, NEW state \in ProposalState, NEW eta \in Nat,
         SetState(i, state, eta)
  PROVE  proposals' \in Seq(Stored) /\ DOMAIN proposals' = DOMAIN proposals
<1> DEFINE new == [proposals[i] EXCEPT !.state = state, !.eta = eta]
<1>1. proposals \in Seq(Stored) /\ proposals[i] \in Stored
  BY DEF RInv
<1>2. new \in Stored
  BY <1>1 DEF Stored
<1>3. proposals' = [proposals EXCEPT ![i] = new]
  BY <1>1 DEF SetState, Stored
<1> HIDE DEF new
<1> QED
  BY ONLY <1>1, <1>2, <1>3, i \in DOMAIN proposals

\* What is stored and what runs comes from proposals that were made.
LEMMA NextRInv == RInv /\ [Next]_vars => RInv'
<1> SUFFICES ASSUME RInv, [Next]_vars PROVE RInv'
  OBVIOUS
<1>1. CASE \E target \in Targets : DeployPayload(target)
  BY <1>1 DEF RInv, DeployPayload
<1>2. CASE \E target \in Targets : CallDirectly(target)
  BY <1>2 DEF RInv, CallDirectly, Started
<1>3. CASE \E calldata \in Printouts : EmitCalldata(calldata)
  BY <1>3 DEF RInv, EmitCalldata
<1>4. CASE Submit
  <2>1. PICK proposal \in Known : create(proposal)
    BY <1>4 DEF Submit, Known, RInv
  <2>2. [actions |-> proposal.actions, ipfsHash |-> proposal.ipfsHash,
         state |-> "Pending", eta |-> 0] \in Stored
    BY DEF Stored, KnownActions, ProposalState
  <2> QED
    BY <2>1, <2>2 DEF RInv, create
<1>5. ASSUME NEW i \in DOMAIN proposals, queue(i) \/ cancel(i) \/ execute(i)
      PROVE  RInv'
  <2>1. proposals[i] \in Stored
    BY DEF RInv
  <2>2. CASE queue(i)
    <3>1. now + Delay \in Nat /\ "Queued" \in ProposalState
      BY RiskAssumption DEF RInv, ProposalState
    <3>2. proposals' \in Seq(Stored) /\ DOMAIN proposals' = DOMAIN proposals
      BY <2>2, <3>1, SetStateKeeps DEF queue
    <3> QED
      BY <2>2, <3>2 DEF RInv, queue, SetState
  <2>3. CASE cancel(i)
    <3>1. proposals[i].eta \in Nat /\ "Canceled" \in ProposalState
      BY <2>1 DEF Stored, ProposalState
    <3>2. proposals' \in Seq(Stored) /\ DOMAIN proposals' = DOMAIN proposals
      BY <2>3, <3>1, SetStateKeeps DEF cancel
    <3> QED
      BY <2>3, <3>2 DEF RInv, cancel, SetState
  <2>4. CASE execute(i)
    BY <2>1, <2>4 DEF RInv, execute, Started, Stored
  <2> QED
    BY <1>5, <2>2, <2>3, <2>4
<1>6. CASE Tick
  BY <1>6 DEF RInv, Tick
<1>7. CASE ConfiguratorCall
  BY <1>7 DEF RInv, ConfiguratorCall
<1>8. CASE NextAction
  BY <1>8 DEF RInv, NextAction
<1>9. CASE Revert
  BY <1>9 DEF RInv, Revert, NoTx
<1>10. CASE Commit
  <2>1. CASE tx.by = "executor"
    <3>1. tx.id \in DOMAIN proposals /\ proposals[tx.id] \in Stored
      BY <2>1 DEF RInv
    <3>2. proposals[tx.id].eta \in Nat /\ "Executed" \in ProposalState
      BY <3>1 DEF Stored, ProposalState
    <3>3. proposals' \in Seq(Stored)
      BY <1>10, <2>1, <3>1, <3>2, SetStateKeeps DEF Commit
    <3> QED
      BY <1>10, <2>1, <3>3 DEF RInv, Commit, SetState, NoTx
  <2>2. CASE tx.by # "executor"
    BY <1>10, <2>2 DEF RInv, Commit, NoTx
  <2> QED
    BY <2>1, <2>2
<1>11. CASE UNCHANGED vars
  BY <1>11 DEF RInv, vars
<1> QED
  BY <1>1, <1>2, <1>3, <1>4, <1>5, <1>6, <1>7, <1>8, <1>9, <1>10, <1>11 DEF Next
-----------------------------------------------------------------------------
(* Wherever a call is next, it is one of the payload's at that address, if *)
(* that is deployed: only deployed payloads make calls.                    *)
LEMMA NextCallKnown ==
  ASSUME RInv, AtCall
  PROVE  \E target \in Targets : \E k \in 1 .. Len(IntendedCode(target)) :
           target \in deployed /\ nextCall = IntendedCode(target)[k]
<1> DEFINE target == tx.actions[tx.at].target
           code == CodeAt(target)
<1>1. tx.done \in Nat /\ tx.done < Len(code)
  BY DEF RInv, AtCall
<1>2. target \in deployed
  <2>1. CASE target \notin deployed
    <3>1. Len(code) = 0
      BY <2>1 DEF CodeAt
    <3> QED
      BY <1>1, <3>1
  <2> QED
    BY <2>1
<1>3. target \in Targets
  BY <1>2 DEF RInv
<1>4. code = IntendedCode(target)
  BY <1>2 DEF CodeAt
<1>5. IntendedCode(target) \in RiskPayloadCode
  BY <1>3, IntendedIsKnown
<1>6. nextCall = code[tx.done + 1]
  BY DEF nextCall, target, code
<1> HIDE DEF target, code
<1>7. tx.done + 1 \in 1 .. Len(code)
  BY <1>1, <1>4, <1>5, CodeLengths
<1> QED
  BY <1>2, <1>3, <1>4, <1>6, <1>7

\* The call that is next has valid percentages.
LEMMA NextCallValid == RInv /\ AtCall => Valid(nextCall)
BY NextCallKnown, IntendedIsKnown, PayloadCallsValid

(* Under the hypothesis, the caller of an executing proposal is the admin. *)
LEMMA SenderIsAdmin ==
  EverybodyDelegates /\ RInv /\ tx.by = "executor" /\ AtAction => msgSender = POOL_ADMIN
BY DEF EverybodyDelegates, Delegates, RInv, KnownActions, Known, AtAction, msgSender

(* NeverRefused, for all scripts, proposals, delays and bounds: once a     *)
(* proposal made of delegatecalls is queued, the configurator accepts each *)
(* of its calls at whatever time, in whatever order and however often it   *)
(* and the others are executed.                                            *)
THEOREM ProposalsNeverRefused == EverybodyDelegates => (Spec => []NeverRefused)
<1>1. EverybodyDelegates /\ RInv => NeverRefused
  BY NextCallValid, SenderIsAdmin DEF NeverRefused, Accepted, AtCall
<1> SUFFICES ASSUME EverybodyDelegates PROVE Spec => []NeverRefused
  OBVIOUS
<1>2. RInv => NeverRefused
  BY <1>1
<1> QED
  BY <1>2, InitRInv, NextRInv, PTL DEF Spec
-----------------------------------------------------------------------------
(* One document, one proposal.  The hypothesis: of the proposals that are  *)
(* made, no two name the same document and differ in their actions.        *)
HashesAgree ==
  \A p, q \in Known : p.ipfsHash = q.ipfsHash => p.actions = q.actions

\* GOV keeps the document and the actions of a proposal together.
Matched ==
  \A i \in DOMAIN proposals : \E p \in Known :
    proposals[i].ipfsHash = p.ipfsHash /\ proposals[i].actions = p.actions

ScriptProposals ==
  {MainnetProposal, MainnetCalldata, LongTailProposal, LongTailCalldata,
   MultiProposal, MultiCalldata, DaiAndUsdcProposal}

(* The scripts satisfy the hypothesis: the copies of the library make the  *)
(* same proposal of the same arguments, and the literals of any two        *)
(* scripts that name the same document are the same.                       *)
THEOREM ScriptsAgree ==
  /\ \A payload, ipfsHash :
       _deployL1Proposal(payload, ipfsHash) = _deployMainnetProposal(payload, ipfsHash)
  /\ \A payloads, ipfsHash :
       _deployMultiProposal(payloads, ipfsHash)
         = _deployMainnetMultiProposals(payloads, ipfsHash)
  /\ \A p, q \in ScriptProposals : p.ipfsHash = q.ipfsHash => p.actions = q.actions
<1>1. \A payload, ipfsHash :
        _deployL1Proposal(payload, ipfsHash) = _deployMainnetProposal(payload, ipfsHash)
  BY DEF _deployL1Proposal, _deployMainnetProposal
<1>2. \A payloads, ipfsHash :
        _deployMultiProposal(payloads, ipfsHash)
          = _deployMainnetMultiProposals(payloads, ipfsHash)
  BY DEF _deployMultiProposal, _deployMainnetMultiProposals
<1>3. ScriptProposals = {MainnetProposal, LongTailProposal, MultiProposal}
  <2>1. LongTailCalldata = LongTailProposal /\ MainnetCalldata = LongTailProposal
    BY <1>1 DEF LongTailCalldata, LongTailProposal, MainnetCalldata
  <2>2. MultiCalldata = MultiProposal /\ DaiAndUsdcProposal = MultiProposal
    BY <1>2 DEF MultiCalldata, MultiProposal, DaiAndUsdcProposal
  <2> QED
    BY <2>1, <2>2 DEF ScriptProposals
<1>4. MainnetProposal.ipfsHash = "0x5d05" /\ LongTailProposal.ipfsHash = "0x31cc"
  BY DEF MainnetProposal, LongTailProposal, _deployMainnetProposal, Proposal, ZERO
<1>5. MultiProposal.ipfsHash = "0x9259"
  <2> DEFINE payloads == <<"0xeca5", "0x60bC">>
  <2>1. \A i \in DOMAIN payloads : payloads[i] # ZERO
    BY DEF ZERO
  <2> QED
    BY <2>1 DEF MultiProposal, _deployMainnetMultiProposals, Proposal, ZERO
<1> QED
  BY <1>1, <1>2, <1>3, <1>4, <1>5

\* A change of a proposal's state leaves its document and actions alone.
LEMMA SetStateMatched ==
  ASSUME RInv, Matched, NEW i \in DOMAIN proposals, NEW state, NEW eta,
         SetState(i, state, eta)
  PROVE  Matched'
<1>1. DOMAIN proposals' = DOMAIN proposals
  BY DEF SetState
<1>2. ASSUME NEW j \in DOMAIN proposals
      PROVE  /\ proposals'[j].ipfsHash = proposals[j].ipfsHash
             /\ proposals'[j].actions = proposals[j].actions
  <2>1. proposals[j] \in Stored /\ proposals[i] \in Stored
    BY DEF RInv
  <2> QED
    BY <2>1 DEF SetState, Stored
<1> QED
  BY <1>1, <1>2 DEF Matched

\* No step separates a document from its actions.
LEMMA NextMatched == RInv /\ Matched /\ [Next]_vars => Matched'
<1> SUFFICES ASSUME RInv, Matched, [Next]_vars PROVE Matched'
  OBVIOUS
<1>1. CASE UNCHANGED proposals
  BY <1>1 DEF Matched
<1>2. CASE Submit
  <2>1. PICK proposal \in Known : create(proposal)
    BY <1>2 DEF Submit, Known, RInv
  <2> DEFINE new == [actions |-> proposal.actions, ipfsHash |-> proposal.ipfsHash,
                     state |-> "Pending", eta |-> 0]
  <2>2. proposals' = Append(proposals, new) /\ proposals \in Seq(Stored)
    BY <2>1 DEF create, RInv
  <2>3. new.ipfsHash = proposal.ipfsHash /\ new.actions = proposal.actions
    OBVIOUS
  <2> HIDE DEF new
  <2>4. ASSUME NEW i \in DOMAIN proposals'
        PROVE  (i \in DOMAIN proposals /\ proposals'[i] = proposals[i]) \/ proposals'[i] = new
    BY <2>2
  <2> QED
    BY <2>3, <2>4 DEF Matched
<1>3. CASE \E i \in DOMAIN proposals : queue(i) \/ cancel(i)
  BY <1>3, SetStateMatched DEF queue, cancel
<1>4. CASE Commit /\ tx.by = "executor"
  BY <1>4, SetStateMatched DEF Commit, RInv
<1>5. CASE Commit /\ tx.by # "executor"
  BY <1>1, <1>5 DEF Commit
<1> QED
  BY <1>1, <1>2, <1>3, <1>4, <1>5
     DEF Next, vars, DeployPayload, CallDirectly, EmitCalldata, execute, Tick,
         ConfiguratorCall, NextAction, Revert

(* SameHashSameActions, for all delays, bounds and ways to submit, if the  *)
(* proposals that are made agree, as those of the scripts do.              *)
THEOREM OneDocumentOneProposal == HashesAgree => (Spec => []SameHashSameActions)
<1> SUFFICES ASSUME HashesAgree PROVE Spec => []SameHashSameActions
  OBVIOUS
<1>1. Init => Matched
  BY DEF Init, Matched
<1>2. Matched => SameHashSameActions
  BY DEF Matched, HashesAgree, SameHashSameActions
<1> QED
  BY <1>1, <1>2, InitRInv, NextRInv, NextMatched, PTL DEF Spec

(* The two hypotheses hold of the repository's scripts, whichever of them  *)
(* are in use and printed or broadcast: what remains to ask is of others'  *)
(* proposals.                                                              *)
OnlyScripts == Broadcasts \cup Printouts \subseteq ScriptProposals

(* No call of a script's proposal is refused, if those of other origin     *)
(* delegatecall too.                                                       *)
THEOREM ScriptsNeverRefused ==
  OnlyScripts /\ (\A proposal \in OtherProposals : Delegates(proposal))
    => (Spec => []NeverRefused)
<1>1. \A proposal \in ScriptProposals : Delegates(proposal)
  BY LibrariesDelegate
  DEF ScriptProposals, MainnetProposal, MainnetCalldata, LongTailProposal, LongTailCalldata,
      MultiProposal, MultiCalldata, DaiAndUsdcProposal
<1>2. OnlyScripts /\ (\A proposal \in OtherProposals : Delegates(proposal))
        => EverybodyDelegates
  BY <1>1 DEF OnlyScripts, EverybodyDelegates
<1> QED
  BY <1>2, ProposalsNeverRefused

(* The scripts name one document for one list of actions, sent from the    *)
(* console or broadcast, if nobody else names theirs for different ones.   *)
THEOREM ScriptsNameOneDocument ==
  OnlyScripts
  /\ (\A p \in OtherProposals, q \in Known : p.ipfsHash = q.ipfsHash => p.actions = q.actions)
    => (Spec => []SameHashSameActions)
<1>1. OnlyScripts
      /\ (\A p \in OtherProposals, q \in Known : p.ipfsHash = q.ipfsHash => p.actions = q.actions)
        => HashesAgree
  BY ScriptsAgree DEF OnlyScripts, HashesAgree, Known
<1> QED
  BY <1>1, OneDocumentOneProposal
-----------------------------------------------------------------------------
(* What the risk proposals do to the reserves, proved for any scripts,     *)
(* proposals, delays and failures: nothing but what the payloads announce  *)
(* changes, and no loan-to-value and no threshold is ever raised, but      *)
(* those of MKR where its payload of February is deployed.                 *)
(*                                                                         *)
(* Both follow from two facts about the reserves (those on chain and those *)
(* a transaction would fall back to): what the calls of the payloads write *)
(* to a reserve, and that a transaction only shows when it commits.        *)

Reserve == [ltv: Nat, liquidationThreshold: Nat, liquidationBonus: Nat,
            isFrozen: BOOLEAN]

\* tx has the fields of a transaction.
Shaped == tx = [by |-> tx.by, id |-> tx.id, actions |-> tx.actions, at |-> tx.at,
                done |-> tx.done, saved |-> tx.saved]

\* The reserves keep their bonus, and all but DPI are not frozen.
Kept(c) ==
  /\ c \in [Assets -> Reserve]
  /\ \A asset \in Assets :
       /\ c[asset].liquidationBonus = CommentedConfigs[asset].liquidationBonus
       /\ asset # "DPI" => c[asset].isFrozen = FALSE

\* What the payloads but MKRPayloadFeb26 write to a reserve, if anything.
TightLtv ==
  [asset \in Assets |->
     CASE asset = "DAI" -> 7500 [] asset = "USDC" -> 8000 [] asset = "ENS" -> 4700
       [] asset = "MKR" -> 6200 [] asset = "SNX" -> 4600 [] asset = "CRV" -> 5200
       [] asset = "DPI" -> 0]
TightThreshold ==
  [asset \in Assets |->
     CASE asset = "DAI" -> 8700 [] asset = "USDC" -> 8750 [] asset = "ENS" -> 5700
       [] asset = "MKR" -> 6700 [] asset = "SNX" -> 6200 [] asset = "CRV" -> 5800
       [] asset = "DPI" -> 0]

Loose(entry, asset) ==
  /\ entry.ltv = CommentedConfigs[asset].ltv
  /\ entry.liquidationThreshold = CommentedConfigs[asset].liquidationThreshold
Tight(entry, asset) ==
  /\ entry.ltv = TightLtv[asset]
  /\ entry.liquidationThreshold = TightThreshold[asset]

\* What no deployed payload raises.
Steady(asset) == asset # "MKR" \/ "MKR" \notin deployed

\* Each such reserve is as it was before the payloads or as they leave it, and
\* a transaction moves it, if at all, to what they leave.
Tightening ==
  \A asset \in Assets : Steady(asset) =>
    /\ Loose(tx.saved[asset], asset) \/ Tight(tx.saved[asset], asset)
    /\ \/ Tight(configs[asset], asset)
       \/ /\ Loose(configs[asset], asset)
          /\ Loose(tx.saved[asset], asset)

CInv == RInv /\ Shaped /\ Kept(configs) /\ Kept(tx.saved)
-----------------------------------------------------------------------------
(* The calls of the payloads.                                              *)

\* A call that keeps bonuses, and freezes DPI only.
Keeps(call) ==
  /\ call.asset \in Assets
  /\ \/ call.op = "freeze" /\ call.asset = "DPI"
     \/ /\ call.op = "configure"
        /\ call.ltv \in Nat /\ call.liquidationThreshold \in Nat
        /\ call.liquidationBonus = CommentedConfigs[call.asset].liquidationBonus

\* A call that freezes, or writes the table's values.
Tightens(call) ==
  /\ call.asset \in Assets
  /\ \/ call.op = "freeze"
     \/ /\ call.op = "configure"
        /\ call.ltv = TightLtv[call.asset]
        /\ call.liquidationThreshold = TightThreshold[call.asset]

(* What the comments give is a bonus for each reserve, and values that the *)
(* table does not exceed.                                                  *)
LEMMA CommentedFacts ==
  /\ Kept(CommentedConfigs)
  /\ \A asset \in Assets :
       /\ Loose(CommentedConfigs[asset], asset)
       /\ TightLtv[asset] \in Nat /\ TightThreshold[asset] \in Nat
       /\ TightLtv[asset] <= CommentedConfigs[asset].ltv
       /\ TightThreshold[asset] <= CommentedConfigs[asset].liquidationThreshold
<1>1. ASSUME NEW asset \in Assets
      PROVE  /\ CommentedConfigs[asset] \in Reserve
             /\ CommentedConfigs[asset].isFrozen = FALSE
             /\ TightLtv[asset] \in Nat /\ TightThreshold[asset] \in Nat
             /\ TightLtv[asset] <= CommentedConfigs[asset].ltv
             /\ TightThreshold[asset] <= CommentedConfigs[asset].liquidationThreshold
  <2>1. \/ asset = "DAI" \/ asset = "USDC" \/ asset = "ENS" \/ asset = "MKR"
        \/ asset = "SNX" \/ asset = "CRV" \/ asset = "DPI"
    BY DEF Assets
  <2>2. /\ CommentedConfigs[asset] \in Reserve
        /\ CommentedConfigs[asset].isFrozen = FALSE
    BY SMT, <2>1 DEF CommentedConfigs, Reserve, reserve
  <2>3. TightLtv[asset] \in Nat /\ TightThreshold[asset] \in Nat
    BY <2>1 DEF TightLtv, TightThreshold
  <2>4. TightLtv[asset] <= CommentedConfigs[asset].ltv
    BY SMT, <2>1 DEF CommentedConfigs, reserve, TightLtv
  <2>5. TightThreshold[asset] <= CommentedConfigs[asset].liquidationThreshold
    BY SMT, <2>1 DEF CommentedConfigs, reserve, TightThreshold
  <2> QED
    BY <2>2, <2>3, <2>4, <2>5
<1>2. CommentedConfigs \in [Assets -> Reserve]
  BY SMT DEF CommentedConfigs, reserve, Reserve, Assets
<1> QED
  BY <1>1, <1>2 DEF Kept, Loose

(* Every call of every payload keeps bonuses; every call of every payload  *)
(* but the one of February writes the table's values.                      *)
LEMMA PayloadCallsKeep ==
  \A code \in RiskPayloadCode : \A k \in 1 .. Len(code) : Keeps(code[k])
<1> USE DEF Keeps, Assets, CommentedConfigs, reserve, configureReserveAsCollateral, freezeReserve
<1>1. \A k \in 1 .. Len(DaiLTDecemberPayload) : Keeps(DaiLTDecemberPayload[k])
  BY DEF DaiLTDecemberPayload
<1>2. \A k \in 1 .. Len(UsdcLTDecemberPayload) : Keeps(UsdcLTDecemberPayload[k])
  BY DEF UsdcLTDecemberPayload
<1>3. \A k \in 1 .. Len(LTTailDecemberPayload) : Keeps(LTTailDecemberPayload[k])
  <2>1. Len(LTTailDecemberPayload) = 4
    BY DEF LTTailDecemberPayload
  <2>2. Keeps(LTTailDecemberPayload[1]) /\ Keeps(LTTailDecemberPayload[2])
    BY DEF LTTailDecemberPayload
  <2>3. Keeps(LTTailDecemberPayload[3]) /\ Keeps(LTTailDecemberPayload[4])
    BY DEF LTTailDecemberPayload
  <2>4. \A k \in 1 .. 4 : k = 1 \/ k = 2 \/ k = 3 \/ k = 4
    OBVIOUS
  <2> QED
    BY <2>1, <2>2, <2>3, <2>4
<1>4. \A k \in 1 .. Len(MKRPayloadFeb26) : Keeps(MKRPayloadFeb26[k])
  BY DEF MKRPayloadFeb26
<1>5. \A k \in 1 .. Len(AaveV2FreezeDPIPayload) : Keeps(AaveV2FreezeDPIPayload[k])
  BY DEF AaveV2FreezeDPIPayload
<1> HIDE DEF Keeps, Assets, CommentedConfigs, reserve, configureReserveAsCollateral,
             freezeReserve
<1> QED
  BY <1>1, <1>2, <1>3, <1>4, <1>5 DEF RiskPayloadCode

\* Every payload but that of February sets the tight values.
LEMMA PayloadCallsTighten ==
  \A code \in RiskPayloadCode \ {MKRPayloadFeb26} :
    \A k \in 1 .. Len(code) : Tightens(code[k])
<1> USE DEF Tightens, Assets, TightLtv, TightThreshold, configureReserveAsCollateral,
            freezeReserve
<1>1. \A k \in 1 .. Len(DaiLTDecemberPayload) : Tightens(DaiLTDecemberPayload[k])
  BY DEF DaiLTDecemberPayload
<1>2. \A k \in 1 .. Len(UsdcLTDecemberPayload) : Tightens(UsdcLTDecemberPayload[k])
  BY DEF UsdcLTDecemberPayload
<1>3. \A k \in 1 .. Len(LTTailDecemberPayload) : Tightens(LTTailDecemberPayload[k])
  <2>1. Len(LTTailDecemberPayload) = 4
    BY DEF LTTailDecemberPayload
  <2>2. Tightens(LTTailDecemberPayload[1]) /\ Tightens(LTTailDecemberPayload[2])
    BY DEF LTTailDecemberPayload
  <2>3. Tightens(LTTailDecemberPayload[3]) /\ Tightens(LTTailDecemberPayload[4])
    BY DEF LTTailDecemberPayload
  <2>4. \A k \in 1 .. 4 : k = 1 \/ k = 2 \/ k = 3 \/ k = 4
    OBVIOUS
  <2> QED
    BY <2>1, <2>2, <2>3, <2>4
<1>4. \A k \in 1 .. Len(AaveV2FreezeDPIPayload) : Tightens(AaveV2FreezeDPIPayload[k])
  BY DEF AaveV2FreezeDPIPayload
<1> HIDE DEF Tightens, Assets, TightLtv, TightThreshold, configureReserveAsCollateral,
             freezeReserve
<1> QED
  BY <1>1, <1>2, <1>3, <1>4 DEF RiskPayloadCode
-----------------------------------------------------------------------------
(* What one call does to the reserves.                                     *)

\* A call that keeps what is announced, applied to reserves that keep it.
LEMMA AppliedKept ==
  ASSUME NEW c, Kept(c), NEW call, Keeps(call)
  PROVE  Kept(Applied(c, call))
<1>1. c \in [Assets -> Reserve] /\ call.asset \in Assets /\ c[call.asset] \in Reserve
  BY DEF Kept, Keeps
<1>2. CASE call.op = "freeze"
  <2>1. Applied(c, call) = [c EXCEPT ![call.asset].isFrozen = TRUE]
    BY <1>2 DEF Applied
  <2>2. call.asset = "DPI"
    BY <1>2 DEF Keeps
  <2> DEFINE frozen == [c[call.asset] EXCEPT !.isFrozen = TRUE]
  <2>3. Applied(c, call) = [c EXCEPT ![call.asset] = frozen]
    BY <1>1, <2>1
  <2>4. frozen \in Reserve /\ frozen.liquidationBonus = c[call.asset].liquidationBonus
    BY <1>1 DEF Reserve
  <2> HIDE DEF frozen
  <2> QED
    BY <1>1, <2>2, <2>3, <2>4 DEF Kept
<1>3. CASE call.op # "freeze"
  <2> DEFINE new == [c[call.asset] EXCEPT !.ltv = call.ltv,
                       !.liquidationThreshold = call.liquidationThreshold,
                       !.liquidationBonus = call.liquidationBonus]
  <2>1. Applied(c, call) = [c EXCEPT ![call.asset] = new]
    BY <1>1, <1>3 DEF Applied
  <2>2. /\ call.ltv \in Nat /\ call.liquidationThreshold \in Nat
        /\ call.liquidationBonus = CommentedConfigs[call.asset].liquidationBonus
        /\ CommentedConfigs[call.asset].liquidationBonus \in Nat
    BY <1>1, <1>3, CommentedFacts DEF Keeps, Kept, Reserve
  <2>3. /\ new \in Reserve
        /\ new.liquidationBonus = CommentedConfigs[call.asset].liquidationBonus
        /\ new.isFrozen = c[call.asset].isFrozen
    BY <1>1, <2>2 DEF Reserve
  <2> HIDE DEF new
  <2> QED
    BY <1>1, <2>1, <2>3 DEF Kept
<1> QED
  BY <1>2, <1>3

\* A call that tightens tightens its reserve, and every call leaves the others
\* alone.
LEMMA AppliedTight ==
  ASSUME NEW c, Kept(c), NEW call, call.asset \in Assets, NEW asset \in Assets,
         Tightens(call) \/ call.asset # asset
  PROVE  \/ Tight(Applied(c, call)[asset], asset)
         \/ /\ Applied(c, call)[asset].ltv = c[asset].ltv
            /\ Applied(c, call)[asset].liquidationThreshold
                 = c[asset].liquidationThreshold
<1>1. c \in [Assets -> Reserve] /\ c[call.asset] \in Reserve
  BY DEF Kept
<1>2. CASE call.asset # asset
  BY <1>1, <1>2 DEF Applied
<1>3. CASE call.op = "freeze"
  BY <1>1, <1>3 DEF Applied, Reserve
<1>4. CASE call.op # "freeze" /\ Tightens(call)
  <2>1. /\ call.ltv = TightLtv[call.asset]
        /\ call.liquidationThreshold = TightThreshold[call.asset]
    BY <1>4 DEF Tightens
  <2> QED
    BY <1>1, <1>4, <2>1 DEF Applied, Reserve, Tight
<1> QED
  BY <1>2, <1>3, <1>4
-----------------------------------------------------------------------------
(* What a step does to the reserves on chain, and to those a transaction   *)
(* would fall back to.                                                     *)
LEMMA ReserveMoves ==
  ASSUME RInv, Shaped, [Next]_vars
  PROVE  /\ Shaped'
         /\ \/ /\ configs' = configs
               /\ tx'.saved \in {tx.saved, configs, CommentedConfigs}
            \/ /\ configs' = tx.saved
               /\ tx'.saved = CommentedConfigs
            \/ /\ AtCall
               /\ configs' = Applied(configs, nextCall)
               /\ tx'.saved = tx.saved
<1>1. CASE UNCHANGED <<configs, tx>>
  BY <1>1 DEF Shaped
<1>2. CASE \E i \in DOMAIN proposals : execute(i)
  BY <1>2 DEF execute, Started, Shaped
<1>3. CASE \E target \in Targets : CallDirectly(target)
  BY <1>3 DEF CallDirectly, Started, Shaped
<1>4. CASE ConfiguratorCall
  BY <1>4 DEF ConfiguratorCall, Shaped
<1>5. CASE NextAction
  BY <1>5 DEF NextAction, Shaped
<1>6. CASE Revert
  BY <1>6 DEF Revert, NoTx, Shaped
<1>7. CASE Commit
  BY <1>7 DEF Commit, NoTx, Shaped
<1> QED
  BY <1>1, <1>2, <1>3, <1>4, <1>5, <1>6, <1>7
     DEF Next, vars, DeployPayload, EmitCalldata, Submit, create, queue, cancel, Tick

(* What the chain shows changes by a commit only.                          *)
LEMMA OnlyCommitShows ==
  ASSUME Shaped, [Next]_vars
  PROVE  Shown' = Shown \/ (Commit /\ Shown = tx.saved /\ Shown' = configs)
<1>1. CASE UNCHANGED <<configs, tx>>
  BY <1>1 DEF Shown, Idle
<1>2. CASE \E i \in DOMAIN proposals : execute(i)
  BY <1>2 DEF execute, Started, Shown, Idle, NoTx
<1>3. CASE \E target \in Targets : CallDirectly(target)
  BY <1>3 DEF CallDirectly, Started, Shown, Idle, NoTx
<1>4. CASE ConfiguratorCall \/ NextAction
  <2>1. AtAction /\ tx'.actions = tx.actions /\ tx'.saved = tx.saved
    BY <1>4 DEF ConfiguratorCall, NextAction, AtCall, Shaped
  <2>2. tx.actions # << >>
    BY <2>1 DEF AtAction
  <2>3. ~Idle /\ ~Idle'
    BY <2>1, <2>2 DEF Idle, NoTx
  <2> QED
    BY <2>1, <2>3 DEF Shown
<1>5. CASE Revert
  BY <1>5 DEF Revert, Shown, Idle
<1>6. CASE Commit
  BY <1>6 DEF Commit, Shown, Idle
<1> QED
  BY <1>1, <1>2, <1>3, <1>4, <1>5, <1>6
     DEF Next, vars, DeployPayload, EmitCalldata, Submit, create, queue, cancel, Tick
-----------------------------------------------------------------------------
LEMMA InitCInv == Init => CInv
<1> SUFFICES ASSUME Init PROVE CInv
  OBVIOUS
<1>1. configs = CommentedConfigs /\ tx.saved = CommentedConfigs /\ Shaped
  BY DEF Init, NoTx, Shaped
<1> QED
  BY <1>1, InitRInv, CommentedFacts DEF CInv

\* No step changes a bonus or freezes a reserve other than DPI.
LEMMA NextCInv == CInv /\ [Next]_vars => CInv'
<1> SUFFICES ASSUME CInv, [Next]_vars PROVE CInv'
  OBVIOUS
<1> USE DEF CInv
<1>1. RInv'
  BY NextRInv
<1>2. AtCall => Keeps(nextCall)
  BY NextCallKnown, IntendedIsKnown, PayloadCallsKeep
<1>3. AtCall => Kept(Applied(configs, nextCall))
  BY <1>2, AppliedKept
<1>4. Kept(CommentedConfigs)
  BY CommentedFacts
<1>5. /\ configs' \in {configs, tx.saved} \/ (AtCall /\ configs' = Applied(configs, nextCall))
      /\ tx'.saved \in {tx.saved, configs, CommentedConfigs}
      /\ Shaped'
  BY ReserveMoves
<1>6. \A c, d : c = d /\ Kept(c) => Kept(d)
  OBVIOUS
<1>7. Kept(configs') /\ Kept(tx'.saved)
  BY <1>3, <1>4, <1>5, <1>6
<1> QED
  BY <1>1, <1>5, <1>7 DEF Kept

(* NothingElseChanges, for all scripts, proposals, delays and bounds: no   *)
(* execution, in whatever order and however it fails, changes a bonus or   *)
(* freezes a reserve other than DPI.                                       *)
THEOREM OnlyAnnouncedChanges == Spec => NothingElseChanges
<1> DEFINE Same ==
      \A asset \in Assets :
        /\ Shown'[asset].liquidationBonus = Shown[asset].liquidationBonus
        /\ asset # "DPI" => Shown'[asset].isFrozen = Shown[asset].isFrozen
<1>1. CInv /\ [Next]_vars => [Same]_vars
  <2> SUFFICES ASSUME CInv, [Next]_vars PROVE Same
    OBVIOUS
  <2>1. Shown' = Shown \/ (Shown = tx.saved /\ Shown' = configs)
    BY OnlyCommitShows DEF CInv
  <2> QED
    BY <2>1 DEF CInv, Kept
<1> QED
  BY <1>1, InitCInv, NextCInv, PTL DEF Spec, NothingElseChanges
-----------------------------------------------------------------------------
(* Without the payload of February.                                        *)

\* The call that is next tightens, or is one to MKR where the payload of
\* February is deployed.
LEMMA NextCallTightens ==
  ASSUME RInv, AtCall, NEW asset \in Assets, Steady(asset)
  PROVE  nextCall.asset \in Assets /\ (Tightens(nextCall) \/ nextCall.asset # asset)
<1>1. PICK target \in Targets : \E k \in 1 .. Len(IntendedCode(target)) :
        target \in deployed /\ nextCall = IntendedCode(target)[k]
  BY NextCallKnown
<1>2. target \in {"0x33d7", "0xeca5", "0x60bC", "MKR", "DPI"}
  BY RiskAssumption
<1>3. CASE target = "MKR"
  <2>1. asset # "MKR"
    BY <1>1, <1>3 DEF Steady
  <2>2. nextCall.asset = "MKR"
    BY <1>1, <1>3 DEF IntendedCode, MKRPayloadFeb26, configureReserveAsCollateral
  <2> QED
    BY <2>1, <2>2 DEF Assets
<1>4. CASE target # "MKR"
  <2>1. /\ LTTailDecemberPayload # MKRPayloadFeb26
        /\ UsdcLTDecemberPayload # MKRPayloadFeb26
        /\ DaiLTDecemberPayload # MKRPayloadFeb26
        /\ AaveV2FreezeDPIPayload # MKRPayloadFeb26
    <3>1. MKRPayloadFeb26[1].asset = "MKR" /\ LTTailDecemberPayload[1].asset = "ENS"
      BY DEF MKRPayloadFeb26, LTTailDecemberPayload, configureReserveAsCollateral
    <3>2. /\ UsdcLTDecemberPayload[1].asset = "USDC"
          /\ DaiLTDecemberPayload[1].asset = "DAI"
          /\ AaveV2FreezeDPIPayload[1].asset = "DPI"
      BY DEF UsdcLTDecemberPayload, DaiLTDecemberPayload, AaveV2FreezeDPIPayload,
             configureReserveAsCollateral, freezeReserve
    <3> QED
      BY <3>1, <3>2
  <2>2. IntendedCode(target) \in RiskPayloadCode \ {MKRPayloadFeb26}
    BY <1>2, <1>4, <2>1 DEF IntendedCode, RiskPayloadCode
  <2> QED
    BY <1>1, <2>2, PayloadCallsTighten DEF Tightens
<1> QED
  BY <1>3, <1>4

\* Code stays where it is deployed.
LEMMA StillSteady ==
  ASSUME [Next]_vars, NEW asset, Steady(asset)'
  PROVE  Steady(asset)
<1>1. deployed \subseteq deployed'
  BY DEF Next, vars, DeployPayload, CallDirectly, EmitCalldata, Submit, create, queue, cancel,
         execute, SetState, Tick, ConfiguratorCall, NextAction, Revert, Commit
<1> QED
  BY <1>1 DEF Steady

\* No step moves such a reserve but towards the tight values.
LEMMA NextTightening ==
  ASSUME CInv, Tightening, [Next]_vars
  PROVE  Tightening'
<1> SUFFICES ASSUME NEW asset \in Assets, Steady(asset)'
             PROVE  /\ Loose(tx'.saved[asset], asset) \/ Tight(tx'.saved[asset], asset)
                    /\ \/ Tight(configs'[asset], asset)
                       \/ /\ Loose(configs'[asset], asset)
                          /\ Loose(tx'.saved[asset], asset)
  BY DEF Tightening
<1>1. Steady(asset)
  BY StillSteady
<1>2. /\ Loose(tx.saved[asset], asset) \/ Tight(tx.saved[asset], asset)
      /\ \/ Tight(configs[asset], asset)
         \/ Loose(configs[asset], asset) /\ Loose(tx.saved[asset], asset)
  BY <1>1 DEF Tightening
<1>3. Loose(CommentedConfigs[asset], asset)
  BY CommentedFacts
<1>4. CASE configs' = configs /\ tx'.saved \in {tx.saved, configs, CommentedConfigs}
  BY <1>2, <1>3, <1>4
<1>5. CASE configs' = tx.saved /\ tx'.saved = CommentedConfigs
  BY <1>2, <1>3, <1>5
<1>6. CASE AtCall /\ configs' = Applied(configs, nextCall) /\ tx'.saved = tx.saved
  <2>1. nextCall.asset \in Assets /\ (Tightens(nextCall) \/ nextCall.asset # asset)
    BY <1>1, <1>6, NextCallTightens DEF CInv
  <2>2. \/ Tight(configs'[asset], asset)
        \/ /\ configs'[asset].ltv = configs[asset].ltv
           /\ configs'[asset].liquidationThreshold = configs[asset].liquidationThreshold
    BY <1>6, <2>1, AppliedTight DEF CInv
  <2> QED
    BY <1>2, <1>6, <2>2 DEF Loose, Tight
<1> QED
  BY <1>4, <1>5, <1>6, ReserveMoves DEF CInv

(* TightensWithoutFebruary, for all scripts, proposals, delays and bounds: *)
(* no reserve is loosened but MKR, and MKR only where its payload of       *)
(* February is deployed, which the run with it shows to be possible.       *)
THEOREM SafeWithoutFebruary == Spec => TightensWithoutFebruary
<1> DEFINE Safer ==
      \A asset \in Assets : asset # "MKR" \/ "MKR" \notin deployed => Lowers(asset)
<1>1. Init => Tightening
  <2>1. Init => configs = CommentedConfigs /\ tx.saved = CommentedConfigs
    BY DEF Init, NoTx
  <2>2. \A asset \in Assets : Loose(CommentedConfigs[asset], asset)
    BY CommentedFacts
  <2> QED
    BY <2>1, <2>2 DEF Tightening
<1>2. CInv /\ Tightening /\ [Next]_vars => Tightening'
  BY NextTightening
<1>3. CInv /\ Tightening /\ [Next]_vars => [Safer]_vars
  <2> SUFFICES ASSUME CInv, Tightening, [Next]_vars, NEW asset \in Assets, Steady(asset)
               PROVE  Lowers(asset)
    BY DEF Steady
  <2>1. Shown' = Shown \/ (Shown = tx.saved /\ Shown' = configs)
    BY OnlyCommitShows DEF CInv
  <2>2. /\ configs[asset].ltv \in Nat /\ configs[asset].liquidationThreshold \in Nat
        /\ tx.saved[asset].ltv \in Nat /\ tx.saved[asset].liquidationThreshold \in Nat
    BY DEF CInv, Kept, Reserve
  <2>3. Shown = configs \/ Shown = tx.saved
    BY DEF Shown
  <2>4. CASE Shown' = Shown
    BY <2>2, <2>3, <2>4 DEF Lowers
  <2>5. CASE Shown = tx.saved /\ Shown' = configs
    <3>1. /\ configs[asset].ltv <= tx.saved[asset].ltv
          /\ configs[asset].liquidationThreshold <= tx.saved[asset].liquidationThreshold
      BY <2>2, CommentedFacts DEF Tightening, Loose, Tight
    <3> QED
      BY <2>5, <3>1 DEF Lowers
  <2> QED
    BY <2>1, <2>4, <2>5
<1> QED
  BY <1>1, <1>2, <1>3, InitCInv, NextCInv, PTL DEF Spec, TightensWithoutFebruary
-----------------------------------------------------------------------------
(* Types.  A call writes percentages that a configuration can hold.        *)
InRange(call) ==
  /\ call.asset \in Assets
  /\ \/ call.op = "freeze"
     \/ /\ call.op = "configure"
        /\ call.ltv \in Nat /\ call.ltv <= PERCENTAGE_FACTOR
        /\ call.liquidationThreshold \in Nat
        /\ call.liquidationThreshold <= PERCENTAGE_FACTOR
        /\ call.liquidationBonus \in Nat
        /\ call.liquidationBonus <= 2 * PERCENTAGE_FACTOR

\* Each call names an asset and percentages that a reserve can have.
LEMMA PayloadCallsInRange ==
  \A code \in RiskPayloadCode : \A k \in 1 .. Len(code) : InRange(code[k])
<1> USE DEF InRange, Assets, PERCENTAGE_FACTOR, configureReserveAsCollateral, freezeReserve
<1>1. \A k \in 1 .. Len(DaiLTDecemberPayload) : InRange(DaiLTDecemberPayload[k])
  BY DEF DaiLTDecemberPayload
<1>2. \A k \in 1 .. Len(UsdcLTDecemberPayload) : InRange(UsdcLTDecemberPayload[k])
  BY DEF UsdcLTDecemberPayload
<1>3. \A k \in 1 .. Len(LTTailDecemberPayload) : InRange(LTTailDecemberPayload[k])
  <2>1. Len(LTTailDecemberPayload) = 4
    BY DEF LTTailDecemberPayload
  <2>2. InRange(LTTailDecemberPayload[1]) /\ InRange(LTTailDecemberPayload[2])
    BY DEF LTTailDecemberPayload
  <2>3. InRange(LTTailDecemberPayload[3]) /\ InRange(LTTailDecemberPayload[4])
    BY DEF LTTailDecemberPayload
  <2>4. \A k \in 1 .. 4 : k = 1 \/ k = 2 \/ k = 3 \/ k = 4
    OBVIOUS
  <2> QED
    BY <2>1, <2>2, <2>3, <2>4
<1>4. \A k \in 1 .. Len(MKRPayloadFeb26) : InRange(MKRPayloadFeb26[k])
  BY DEF MKRPayloadFeb26
<1>5. \A k \in 1 .. Len(AaveV2FreezeDPIPayload) : InRange(AaveV2FreezeDPIPayload[k])
  BY DEF AaveV2FreezeDPIPayload
<1> HIDE DEF InRange, Assets, PERCENTAGE_FACTOR, configureReserveAsCollateral, freezeReserve
<1> QED
  BY <1>1, <1>2, <1>3, <1>4, <1>5 DEF RiskPayloadCode

\* The reserves at the start are well typed.
LEMMA CommentedTyped == CommentedConfigs \in [Assets -> Config]
BY SMT DEF CommentedConfigs, reserve, Config, PERCENTAGE_FACTOR, Assets

\* A call in range keeps the reserves well typed.
LEMMA AppliedTyped ==
  ASSUME NEW c \in [Assets -> Config], NEW call, InRange(call)
  PROVE  Applied(c, call) \in [Assets -> Config]
<1>1. call.asset \in Assets /\ c[call.asset] \in Config
  BY DEF InRange
<1>2. CASE call.op = "freeze"
  <2> DEFINE frozen == [c[call.asset] EXCEPT !.isFrozen = TRUE]
  <2>1. Applied(c, call) = [c EXCEPT ![call.asset] = frozen]
    BY <1>1, <1>2 DEF Applied
  <2>2. frozen \in Config
    BY <1>1 DEF Config
  <2> HIDE DEF frozen
  <2> QED
    BY <1>1, <2>1, <2>2
<1>3. CASE call.op # "freeze"
  <2> DEFINE new == [c[call.asset] EXCEPT !.ltv = call.ltv,
                       !.liquidationThreshold = call.liquidationThreshold,
                       !.liquidationBonus = call.liquidationBonus]
  <2>1. Applied(c, call) = [c EXCEPT ![call.asset] = new]
    BY <1>1, <1>3 DEF Applied
  <2>2. /\ call.ltv \in 0 .. PERCENTAGE_FACTOR
        /\ call.liquidationThreshold \in 0 .. PERCENTAGE_FACTOR
        /\ call.liquidationBonus \in 0 .. 2 * PERCENTAGE_FACTOR
    <3>1. PERCENTAGE_FACTOR \in Nat
      BY DEF PERCENTAGE_FACTOR
    <3> QED
      BY <1>3, <3>1 DEF InRange
  <2>3. new \in Config
    BY <1>1, <2>2 DEF Config
  <2> HIDE DEF new
  <2> QED
    BY <1>1, <2>1, <2>3
<1> QED
  BY <1>2, <1>3

(* The proposals and the clock stay in their bounds, and what is executed  *)
(* by the executor stays queued until the execution is over.               *)
Books ==
  /\ now \in 0 .. MaxTime
  /\ Len(proposals) <= MaxProposals
  /\ \A i \in DOMAIN proposals :
       /\ proposals[i].state \in ProposalState
       /\ proposals[i].eta \in 0 .. MaxTime + Delay
  /\ tx.by = "executor" => proposals[tx.id].state = "Queued"

\* A change of a proposal's state keeps the books.
LEMMA SetStateBooks ==
  ASSUME RInv, Books, NEW i \in DOMAIN proposals, NEW state \in ProposalState,
         NEW eta \in 0 .. MaxTime + Delay, SetState(i, state, eta), tx'.by # "executor"
  PROVE  Books'
<1>1. /\ proposals \in Seq(Stored) /\ proposals[i] \in Stored
      /\ now' = now /\ DOMAIN proposals' = DOMAIN proposals
      /\ Len(proposals') = Len(proposals)
  BY DEF RInv, SetState
<1>2. ASSUME NEW j \in DOMAIN proposals
      PROVE  /\ proposals'[j].state \in ProposalState
             /\ proposals'[j].eta \in 0 .. MaxTime + Delay
  <2>1. proposals[j] \in Stored
    BY DEF RInv
  <2>2. CASE j = i
    BY <1>1, <2>2 DEF SetState, Stored
  <2>3. CASE j # i
    BY <1>1, <2>3 DEF SetState, Books
  <2> QED
    BY <2>2, <2>3
<1> QED
  BY <1>1, <1>2 DEF Books

\* No step leaves the bounds of time and of proposals.
LEMMA NextBooks == RInv /\ Shaped /\ Books /\ [Next]_vars => Books'
<1> SUFFICES ASSUME RInv, Shaped, Books, [Next]_vars PROVE Books'
  OBVIOUS
<1>0. /\ MaxTime \in Nat /\ Delay \in Nat /\ MaxProposals \in Nat /\ now \in Nat
      /\ Idle => tx.by # "executor"
      /\ NoTx.by # "executor"
  BY RiskAssumption DEF Books, Idle, NoTx
<1>1. CASE UNCHANGED <<now, proposals>> /\ tx'.by \in {tx.by, "nobody", "anybody"}
           /\ tx'.id = tx.id
  BY <1>1 DEF Books
<1>2. CASE UNCHANGED <<now, proposals>> /\ tx'.by # "executor"
  BY <1>2 DEF Books
<1>3. CASE Submit
  <2>1. PICK proposal \in Known : create(proposal)
    BY <1>3 DEF Submit, Known, RInv
  <2> DEFINE new == [actions |-> proposal.actions, ipfsHash |-> proposal.ipfsHash,
                     state |-> "Pending", eta |-> 0]
  <2>2. /\ proposals' = Append(proposals, new) /\ proposals \in Seq(Stored)
        /\ Len(proposals) < MaxProposals /\ now' = now /\ tx' = tx
    BY <2>1 DEF create, RInv
  <2>3. new.state \in ProposalState /\ new.eta \in 0 .. MaxTime + Delay
    BY <1>0 DEF ProposalState
  <2> HIDE DEF new
  <2>4. /\ Len(proposals') <= MaxProposals
        /\ \A i \in DOMAIN proposals' :
             (i \in DOMAIN proposals /\ proposals'[i] = proposals[i]) \/ proposals'[i] = new
    BY <1>0, <2>2
  <2>5. tx'.by # "executor"
    BY <1>0, <1>3, <2>2 DEF Submit
  <2> QED
    BY <2>2, <2>3, <2>4, <2>5 DEF Books
<1>4. ASSUME NEW i \in DOMAIN proposals, queue(i)
      PROVE  Books'
  <2>1. now + Delay \in 0 .. MaxTime + Delay /\ "Queued" \in ProposalState
    BY <1>0 DEF Books, ProposalState
  <2>2. tx'.by # "executor"
    BY <1>0, <1>4 DEF queue
  <2> QED
    BY <1>4, <2>1, <2>2, SetStateBooks DEF queue
<1>5. ASSUME NEW i \in DOMAIN proposals, cancel(i)
      PROVE  Books'
  <2>1. proposals[i].eta \in 0 .. MaxTime + Delay /\ "Canceled" \in ProposalState
    BY DEF Books, ProposalState
  <2>2. tx'.by # "executor"
    BY <1>0, <1>5 DEF cancel
  <2> QED
    BY <1>5, <2>1, <2>2, SetStateBooks DEF cancel
<1>6. ASSUME NEW i \in DOMAIN proposals, execute(i)
      PROVE  Books'
  <2>1. tx'.by = "executor" /\ tx'.id = i /\ proposals[i].state = "Queued"
        /\ UNCHANGED <<now, proposals>>
    BY <1>6 DEF execute, Started
  <2> QED
    BY <2>1 DEF Books
<1>7. CASE Tick
  <2>1. now' \in 0 .. MaxTime
    BY <1>0, <1>7 DEF Tick
  <2> QED
    BY <1>7, <2>1 DEF Tick, Books
<1>8. CASE Commit
  <2>1. tx'.by # "executor"
    BY <1>0, <1>8 DEF Commit
  <2>2. CASE tx.by = "executor"
    <3>1. tx.id \in DOMAIN proposals /\ "Executed" \in ProposalState
      BY <2>2 DEF RInv, ProposalState
    <3>2. proposals[tx.id].eta \in 0 .. MaxTime + Delay
      BY <3>1 DEF Books
    <3> QED
      BY <1>8, <2>1, <2>2, <3>1, <3>2, SetStateBooks DEF Commit
  <2>3. CASE tx.by # "executor"
    BY <1>2, <1>8, <2>1, <2>3 DEF Commit
  <2> QED
    BY <2>2, <2>3
<1>9. CASE ConfiguratorCall \/ NextAction
  <2>1. tx'.by = tx.by /\ tx'.id = tx.id /\ UNCHANGED <<now, proposals>>
    BY <1>9 DEF ConfiguratorCall, NextAction, Shaped
  <2> QED
    BY <1>1, <2>1
<1>10. CASE Revert
  BY <1>0, <1>2, <1>10 DEF Revert
<1>11. CASE \E target \in Targets : CallDirectly(target)
  BY <1>2, <1>11 DEF CallDirectly, Started
<1>12. CASE UNCHANGED <<now, proposals, tx>>
  BY <1>1, <1>12
<1> QED
  BY <1>3, <1>4, <1>5, <1>6, <1>7, <1>8, <1>9, <1>10, <1>11, <1>12
     DEF Next, vars, DeployPayload, EmitCalldata

TInv ==
  /\ CInv /\ Books
  /\ configs \in [Assets -> Config]
  /\ tx.saved \in [Assets -> Config]

\* The types and what they rest on, at first and after each step.
LEMMA InitTInv == Init => TInv
<1> SUFFICES ASSUME Init PROVE TInv
  OBVIOUS
<1>1. Books
  BY RiskAssumption DEF Init, NoTx, Books
<1> QED
  BY <1>1, InitCInv, CommentedTyped DEF Init, NoTx, TInv

LEMMA NextTInv == TInv /\ [Next]_vars => TInv'
<1> SUFFICES ASSUME TInv, [Next]_vars PROVE TInv'
  OBVIOUS
<1> USE DEF TInv
<1>1. CInv' /\ Books'
  BY NextCInv, NextBooks DEF CInv
<1>2. AtCall => InRange(nextCall)
  BY NextCallKnown, IntendedIsKnown, PayloadCallsInRange DEF CInv
<1>3. AtCall => Applied(configs, nextCall) \in [Assets -> Config]
  BY <1>2, AppliedTyped
<1>4. /\ configs' \in {configs, tx.saved} \/ (AtCall /\ configs' = Applied(configs, nextCall))
      /\ tx'.saved \in {tx.saved, configs, CommentedConfigs}
  BY ReserveMoves DEF CInv
<1> QED
  BY <1>1, <1>3, <1>4, CommentedTyped

(* TypeOK, for all scripts, proposals, delays and bounds: percentages stay *)
(* in their range, and a proposal that is being executed is still queued.  *)
THEOREM RiskTypeCorrect == Spec => []TypeOK
<1>1. TInv => TypeOK
  BY DEF TInv, CInv, RInv, Books, TypeOK
<1> QED
  BY <1>1, InitTInv, NextTInv, PTL DEF Spec
-----------------------------------------------------------------------------
(* The transactions implement what AtomicProposals promises. While one     *)
(* runs, the reserves are what the calls made so far make of those at its  *)
(* start; when it commits, it has made all calls of the proposal.          *)

\* A place is a pair of numbers, in the calls of a target.
LEMMA PlacesTyped ==
  ASSUME NEW codes, DOMAIN codes \subseteq Nat,
         \A k \in DOMAIN codes : DOMAIN codes[k] \subseteq Nat
  PROVE  \A p \in ReservesAtomic!Places(codes) :
           /\ p = <<p[1], p[2]>> /\ p[1] \in Nat /\ p[2] \in Nat
           /\ p[1] \in DOMAIN codes /\ p[2] \in DOMAIN codes[p[1]]
<1> SUFFICES ASSUME NEW p \in ReservesAtomic!Places(codes)
             PROVE  /\ p = <<p[1], p[2]>> /\ p[1] \in Nat /\ p[2] \in Nat
                    /\ p[1] \in DOMAIN codes /\ p[2] \in DOMAIN codes[p[1]]
  OBVIOUS
<1>1. PICK k \in DOMAIN codes : p \in {k} \X DOMAIN codes[k]
  BY DEF ReservesAtomic!Places
<1>2. p = <<p[1], p[2]>> /\ p[1] = k /\ p[2] \in DOMAIN codes[k]
  BY <1>1
<1> QED
  BY <1>1, <1>2

\* What comes after all other places is the latest.
LEMMA LatestOfAll ==
  ASSUME NEW S, NEW p \in S, p[1] \in Int, p[2] \in Int,
         \A q \in S \ {p} : ReservesAtomic!Before(q, p),
         \A q \in S : q[1] \in Int /\ q[2] \in Int
  PROVE  ReservesAtomic!Latest(S) = p
<1>1. \A q \in S : (\A r \in S \ {q} : ReservesAtomic!Before(r, q)) => q = p
  BY DEF ReservesAtomic!Before
<1> QED
  BY <1>1 DEF ReservesAtomic!Latest

\* The fields of a configuration determine it.
LEMMA SameConfig ==
  ASSUME NEW r \in Config
  PROVE  r = [ltv |-> r.ltv, liquidationThreshold |-> r.liquidationThreshold,
              liquidationBonus |-> r.liquidationBonus, isFrozen |-> r.isFrozen]
BY DEF Config

\* What one call does to each field of each reserve.
LEMMA AppliedFields ==
  ASSUME NEW c \in [Assets -> Config], NEW call, call.asset \in Assets, NEW asset \in Assets
  PROVE  LET new == Applied(c, call)[asset]
             configures == call.op # "freeze" /\ call.asset = asset
         IN /\ new.ltv = IF configures THEN call.ltv ELSE c[asset].ltv
            /\ new.liquidationThreshold =
                 IF configures THEN call.liquidationThreshold
                               ELSE c[asset].liquidationThreshold
            /\ new.liquidationBonus =
                 IF configures THEN call.liquidationBonus ELSE c[asset].liquidationBonus
            /\ new.isFrozen =
                 IF call.op = "freeze" /\ call.asset = asset THEN TRUE ELSE c[asset].isFrozen
<1>1. c[call.asset] \in Config /\ c[asset] \in Config
  OBVIOUS
<1>2. CASE call.op = "freeze"
  <2> DEFINE frozen == [c[call.asset] EXCEPT !.isFrozen = TRUE]
  <2>1. Applied(c, call) = [c EXCEPT ![call.asset] = frozen]
    BY <1>1, <1>2 DEF Applied
  <2>2. /\ frozen.ltv = c[call.asset].ltv
        /\ frozen.liquidationThreshold = c[call.asset].liquidationThreshold
        /\ frozen.liquidationBonus = c[call.asset].liquidationBonus
        /\ frozen.isFrozen = TRUE
    BY <1>1 DEF Config
  <2> HIDE DEF frozen
  <2> QED
    BY <1>2, <2>1, <2>2
<1>3. CASE call.op # "freeze"
  <2> DEFINE set == [c[call.asset] EXCEPT !.ltv = call.ltv,
                       !.liquidationThreshold = call.liquidationThreshold,
                       !.liquidationBonus = call.liquidationBonus]
  <2>1. Applied(c, call) = [c EXCEPT ![call.asset] = set]
    BY <1>1, <1>3 DEF Applied
  <2>2. /\ set.ltv = call.ltv
        /\ set.liquidationThreshold = call.liquidationThreshold
        /\ set.liquidationBonus = call.liquidationBonus
        /\ set.isFrozen = c[call.asset].isFrozen
    BY <1>1 DEF Config
  <2> HIDE DEF set
  <2> QED
    BY <1>3, <2>1, <2>2
<1> QED
  BY <1>2, <1>3

\* One more call, after all others, has the effect of that call.
LEMMA OutcomeGrows ==
  ASSUME NEW reserves, NEW codes, NEW P, NEW p,
         ReservesAtomic!Outcome(reserves, codes, P) \in [Assets -> Config],
         InRange(ReservesAtomic!CallAt(codes, p)),
         ReservesAtomic!CallAt(codes, p).op \in {"configure", "freeze"},
         p[1] \in Int, p[2] \in Int, \A q \in P : q[1] \in Int /\ q[2] \in Int,
         \A q \in P : ReservesAtomic!Before(q, p)
  PROVE  Applied(ReservesAtomic!Outcome(reserves, codes, P), ReservesAtomic!CallAt(codes, p))
           = ReservesAtomic!Outcome(reserves, codes, P \cup {p})
<1> DEFINE call == ReservesAtomic!CallAt(codes, p)
           before == ReservesAtomic!Outcome(reserves, codes, P)
           after == ReservesAtomic!Outcome(reserves, codes, P \cup {p})
           Doing(op, asset, S) == ReservesAtomic!Doing(op, asset, codes, S)
<1>1. Applied(before, call) \in [Assets -> Config]
  BY AppliedTyped
<1>2. \A S, op, asset : Doing(op, asset, S) =
        {q \in S : ReservesAtomic!CallAt(codes, q).op = op
                   /\ ReservesAtomic!CallAt(codes, q).asset = asset}
  BY DEF ReservesAtomic!Doing
<1>3. ASSUME NEW op, NEW asset
      PROVE  Doing(op, asset, P \cup {p}) =
               IF call.op = op /\ call.asset = asset
                 THEN Doing(op, asset, P) \cup {p} ELSE Doing(op, asset, P)
  <2>1. \A S, q : q \in Doing(op, asset, S) <=>
          /\ q \in S /\ ReservesAtomic!CallAt(codes, q).op = op
          /\ ReservesAtomic!CallAt(codes, q).asset = asset
    BY <1>2
  <2> HIDE DEF Doing
  <2>2. CASE call.op = op /\ call.asset = asset
    <3>1. \A q : q \in Doing(op, asset, P \cup {p}) <=> q \in Doing(op, asset, P) \cup {p}
      BY <2>1, <2>2
    <3> QED
      BY <2>2, <3>1
  <2>3. CASE ~(call.op = op /\ call.asset = asset)
    <3>1. \A q : q \in Doing(op, asset, P \cup {p}) <=> q \in Doing(op, asset, P)
      BY <2>1, <2>3
    <3> QED
      BY <2>3, <3>1
  <2> QED
    BY <2>2, <2>3
<1>4. ASSUME NEW op, NEW asset, call.op = op, call.asset = asset
      PROVE  ReservesAtomic!Latest(Doing(op, asset, P \cup {p})) = p
  <2>1. Doing(op, asset, P \cup {p}) \subseteq P \cup {p} /\ p \in Doing(op, asset, P \cup {p})
    BY <1>2, <1>4
  <2> HIDE DEF Doing
  <2> QED
    BY <2>1, LatestOfAll
<1>5. call.asset \in Assets /\ before \in [Assets -> Config]
  BY DEF InRange
<1>6. DOMAIN after = Assets
  BY DEF ReservesAtomic!Outcome
<1>7. ASSUME NEW asset \in Assets
      PROVE  Applied(before, call)[asset] = after[asset]
  <2> DEFINE new == Applied(before, call)[asset]
             Values(S) == IF Doing("configure", asset, S) = {} THEN reserves[asset]
                          ELSE ReservesAtomic!CallAt(codes,
                                 ReservesAtomic!Latest(Doing("configure", asset, S)))
             Frozen(S) == IF Doing("freeze", asset, S) = {}
                            THEN reserves[asset].isFrozen ELSE TRUE
             Entry(S) == [ltv |-> Values(S).ltv,
                          liquidationThreshold |-> Values(S).liquidationThreshold,
                          liquidationBonus |-> Values(S).liquidationBonus,
                          isFrozen |-> Frozen(S)]
  <2>1. before[asset] = Entry(P) /\ after[asset] = Entry(P \cup {p})
    BY DEF ReservesAtomic!Outcome
  <2> HIDE DEF before, after, Values, Frozen, Doing
  <2>2. /\ before[asset].ltv = Values(P).ltv
        /\ before[asset].liquidationThreshold = Values(P).liquidationThreshold
        /\ before[asset].liquidationBonus = Values(P).liquidationBonus
        /\ before[asset].isFrozen = Frozen(P)
    BY <2>1
  <2> USE DEF Values, Frozen
  <2>3. Values(P \cup {p}) = IF call.op # "freeze" /\ call.asset = asset THEN call ELSE Values(P)
    <3>1. CASE call.op # "freeze" /\ call.asset = asset
      <4>1. call.op = "configure"
        BY <3>1
      <4>2. Doing("configure", asset, P \cup {p}) # {}
        <5>1. Doing("configure", asset, P \cup {p}) = Doing("configure", asset, P) \cup {p}
          BY <1>3, <3>1, <4>1
        <5> QED
          BY <5>1
      <4> QED
        BY <1>4, <3>1, <4>1, <4>2
    <3>2. CASE ~(call.op # "freeze" /\ call.asset = asset)
      <4>1. Doing("configure", asset, P \cup {p}) = Doing("configure", asset, P)
        BY <1>3, <3>2
      <4> QED
        BY <3>2, <4>1
    <3> QED
      BY <3>1, <3>2
  <2>4. Frozen(P \cup {p}) = IF call.op = "freeze" /\ call.asset = asset THEN TRUE ELSE Frozen(P)
    <3> HIDE DEF Doing
    <3> QED
      BY <1>3
  <2> HIDE DEF call, Values, Frozen
  <2> DEFINE configures == call.op # "freeze" /\ call.asset = asset
             freezes == call.op = "freeze" /\ call.asset = asset
  <2>5. /\ new.ltv = IF configures THEN call.ltv ELSE before[asset].ltv
        /\ new.liquidationThreshold =
             IF configures THEN call.liquidationThreshold ELSE before[asset].liquidationThreshold
        /\ new.liquidationBonus =
             IF configures THEN call.liquidationBonus ELSE before[asset].liquidationBonus
        /\ new.isFrozen = IF freezes THEN TRUE ELSE before[asset].isFrozen
    BY <1>5, AppliedFields
  <2>6. new \in Config
    BY <1>1
  <2>7. Values(P \cup {p}) = (IF configures THEN call ELSE Values(P))
        /\ Frozen(P \cup {p}) = (IF freezes THEN TRUE ELSE Frozen(P))
    BY <2>3, <2>4
  <2> HIDE DEF new, configures, freezes
  <2>8. /\ new.ltv = Values(P \cup {p}).ltv
        /\ new.liquidationThreshold = Values(P \cup {p}).liquidationThreshold
        /\ new.liquidationBonus = Values(P \cup {p}).liquidationBonus
    BY <2>2, <2>5, <2>7
  <2>9. new.isFrozen = Frozen(P \cup {p})
    <3>1. CASE freezes
      <4>1. new.isFrozen = TRUE /\ Frozen(P \cup {p}) = TRUE
        BY ONLY <2>5, <2>7, <3>1
      <4> QED
        BY ONLY <4>1
    <3>2. CASE ~freezes
      <4>1. new.isFrozen = before[asset].isFrozen /\ Frozen(P \cup {p}) = Frozen(P)
        BY ONLY <2>5, <2>7, <3>2
      <4> QED
        BY ONLY <2>2, <4>1
    <3> QED
      BY ONLY <3>1, <3>2
  <2>10. new = Entry(P \cup {p})
    BY <2>6, <2>8, <2>9, SameConfig, Zenon
  <2> QED
    BY <2>1, <2>10 DEF new
<1> HIDE DEF before, call
<1>8. DOMAIN Applied(before, call) = Assets
  BY <1>1
<1> QED
  BY <1>1, <1>6, <1>7, <1>8 DEF before, call, ReservesAtomic!Outcome

\* No call changes nothing.
LEMMA OutcomeOfNone ==
  ASSUME NEW c \in [Assets -> Config], NEW codes
  PROVE  ReservesAtomic!Outcome(c, codes, {}) = c
<1> DEFINE Written(asset) == ReservesAtomic!Doing("configure", asset, codes, {})
           Values(asset) == IF Written(asset) = {} THEN c[asset]
                            ELSE ReservesAtomic!CallAt(codes, ReservesAtomic!Latest(Written(asset)))
           Frozen(asset) == IF ReservesAtomic!Doing("freeze", asset, codes, {}) = {}
                            THEN c[asset].isFrozen ELSE TRUE
           Entry(asset) == [ltv |-> Values(asset).ltv,
                            liquidationThreshold |-> Values(asset).liquidationThreshold,
                            liquidationBonus |-> Values(asset).liquidationBonus,
                            isFrozen |-> Frozen(asset)]
<1>1. ReservesAtomic!Outcome(c, codes, {}) = [asset \in Assets |-> Entry(asset)]
  BY DEF ReservesAtomic!Outcome
<1>2. ASSUME NEW asset \in Assets
      PROVE  Entry(asset) = c[asset]
  <2>1. \A op : ReservesAtomic!Doing(op, asset, codes, {}) = {}
    BY DEF ReservesAtomic!Doing
  <2>2. Values(asset) = c[asset]
    BY <2>1
  <2>3. Frozen(asset) = c[asset].isFrozen
    BY <2>1
  <2>4. c[asset] \in Config
    OBVIOUS
  <2> HIDE DEF Values, Frozen
  <2> QED
    BY <2>2, <2>3, <2>4, SameConfig, Zenon
<1> HIDE DEF Entry
<1> QED
  BY <1>1, <1>2
-----------------------------------------------------------------------------
(* What the targets of actions run where d is the set of addresses that    *)
(* have code, and which of those calls are made before action at, and in   *)
(* it, up to its done-th call.                                             *)
Codes(d, actions) ==
  [k \in DOMAIN actions |-> IF actions[k].target \in d THEN IntendedCode(actions[k].target)
                                                       ELSE << >>]
Made(codes, at, done) ==
  {p \in ReservesAtomic!Places(codes) : p[1] < at \/ (p[1] = at /\ p[2] <= done)}

IsArray(actions) == actions \in Seq({actions[k] : k \in DOMAIN actions})

\* The codes of an array of actions, each a payload or empty.
LEMMA CodesTyped ==
  ASSUME NEW d \in SUBSET Targets, NEW actions, IsArray(actions)
  PROVE  LET codes == Codes(d, actions)
         IN /\ DOMAIN codes = 1 .. Len(actions) /\ Len(actions) \in Nat
            /\ \A k \in DOMAIN codes :
                 /\ Len(codes[k]) \in Nat /\ DOMAIN codes[k] = 1 .. Len(codes[k])
                 /\ \A m \in 1 .. Len(codes[k]) : InRange(codes[k][m])
<1> DEFINE codes == Codes(d, actions)
<1>1. DOMAIN codes = 1 .. Len(actions) /\ Len(actions) \in Nat
  BY DEF Codes, IsArray
<1>2. \A code \in RiskPayloadCode : DOMAIN code = 1 .. Len(code)
  BY DEF RiskPayloadCode, DaiLTDecemberPayload, UsdcLTDecemberPayload,
         LTTailDecemberPayload, MKRPayloadFeb26, AaveV2FreezeDPIPayload
<1>3. ASSUME NEW k \in DOMAIN codes
      PROVE  /\ Len(codes[k]) \in Nat /\ DOMAIN codes[k] = 1 .. Len(codes[k])
             /\ \A m \in 1 .. Len(codes[k]) : InRange(codes[k][m])
  <2>1. codes[k] = << >> \/ codes[k] \in RiskPayloadCode
    BY IntendedIsKnown DEF Codes
  <2> HIDE DEF codes
  <2>2. CASE codes[k] = << >>
    BY <2>2
  <2>3. CASE codes[k] \in RiskPayloadCode
    BY <1>2, <2>3, CodeLengths, PayloadCallsInRange
  <2> QED
    BY <2>1, <2>2, <2>3
<1> QED
  BY <1>1, <1>3

\* A place in the codes is a pair of positive numbers.
LEMMA PlacesOfCodes ==
  ASSUME NEW d \in SUBSET Targets, NEW actions, IsArray(actions)
  PROVE  LET codes == Codes(d, actions)
         IN \A p \in ReservesAtomic!Places(codes) :
              /\ p = <<p[1], p[2]>> /\ p[1] \in 1 .. Len(actions)
              /\ p[2] \in 1 .. Len(codes[p[1]]) /\ Len(codes[p[1]]) \in Nat
<1> DEFINE codes == Codes(d, actions)
<1>1. /\ DOMAIN codes = 1 .. Len(actions) /\ Len(actions) \in Nat
      /\ \A k \in DOMAIN codes : Len(codes[k]) \in Nat /\ DOMAIN codes[k] = 1 .. Len(codes[k])
  BY CodesTyped
<1> HIDE DEF codes
<1>2. DOMAIN codes \subseteq Nat /\ \A k \in DOMAIN codes : DOMAIN codes[k] \subseteq Nat
  BY <1>1
<1>3. \A p \in ReservesAtomic!Places(codes) :
        /\ p = <<p[1], p[2]>>
        /\ p[1] \in DOMAIN codes /\ p[2] \in DOMAIN codes[p[1]]
  BY <1>2, PlacesTyped
<1> QED
  BY <1>1, <1>3 DEF codes

\* What is made: nothing at first, everything after the last action, one
\* call more by a call, and no more by the step to the next action.
LEMMA MadeTyped ==
  ASSUME NEW d \in SUBSET Targets, NEW actions, IsArray(actions)
  PROVE  LET codes == Codes(d, actions)
         IN /\ DOMAIN actions = 1 .. Len(actions) /\ Len(actions) \in Nat
            /\ \A p \in ReservesAtomic!Places(codes) :
                 /\ p = <<p[1], p[2]>> /\ p[1] \in Int /\ p[2] \in Int
                 /\ 1 <= p[1] /\ 1 <= p[2]
                 /\ p[1] \in DOMAIN actions /\ p[2] <= Len(codes[p[1]])
            /\ \A k \in DOMAIN actions : \A m \in 1 .. Len(codes[k]) :
                 <<k, m>> \in ReservesAtomic!Places(codes)
            /\ \A a, n, p : p \in Made(codes, a, n) <=>
                 /\ p \in ReservesAtomic!Places(codes)
                 /\ p[1] < a \/ (p[1] = a /\ p[2] <= n)
<1> DEFINE codes == Codes(d, actions)
           All == ReservesAtomic!Places(codes)
<1>1. /\ DOMAIN codes = 1 .. Len(actions) /\ Len(actions) \in Nat
      /\ \A k \in DOMAIN codes : Len(codes[k]) \in Nat /\ DOMAIN codes[k] = 1 .. Len(codes[k])
  BY CodesTyped
<1>2. DOMAIN actions = 1 .. Len(actions)
  BY DEF IsArray
<1>3. \A p \in All :
        /\ p = <<p[1], p[2]>> /\ p[1] \in 1 .. Len(actions)
        /\ p[2] \in 1 .. Len(codes[p[1]]) /\ Len(codes[p[1]]) \in Nat
  BY PlacesOfCodes
<1>4. \A k \in DOMAIN codes : \A m \in DOMAIN codes[k] : <<k, m>> \in All
  BY DEF ReservesAtomic!Places
<1>5. \A a, n, p : p \in Made(codes, a, n) <=> p \in All /\ (p[1] < a \/ (p[1] = a /\ p[2] <= n))
  BY DEF Made
<1> HIDE DEF codes, All
<1>6. \A p \in All :
        /\ p = <<p[1], p[2]>> /\ p[1] \in Int /\ p[2] \in Int
        /\ 1 <= p[1] /\ 1 <= p[2]
        /\ p[1] \in DOMAIN actions /\ p[2] <= Len(codes[p[1]])
  BY <1>1, <1>2, <1>3
<1>7. \A k \in DOMAIN actions : \A m \in 1 .. Len(codes[k]) : <<k, m>> \in All
  BY <1>1, <1>2, <1>4
<1> QED
  BY <1>1, <1>2, <1>5, <1>6, <1>7 DEF codes, All

\* When a transaction starts, nothing is made.
LEMMA MadeAtFirst ==
  ASSUME NEW d \in SUBSET Targets, NEW actions, IsArray(actions)
  PROVE  Made(Codes(d, actions), 1, 0) = {}
<1> DEFINE codes == Codes(d, actions)
           All == ReservesAtomic!Places(codes)
<1>1. \A p \in All : p[1] \in Int /\ p[2] \in Int /\ 1 <= p[1] /\ 1 <= p[2]
  BY MadeTyped
<1>2. Made(codes, 1, 0) = {p \in All : p[1] < 1 \/ (p[1] = 1 /\ p[2] <= 0)}
  BY DEF Made
<1> HIDE DEF codes, All
<1>3. Made(codes, 1, 0) = {}
  BY <1>1, <1>2
<1> QED
  BY <1>3 DEF codes

\* A call adds its own place.
LEMMA MadeByCall ==
  ASSUME NEW d \in SUBSET Targets, NEW actions, IsArray(actions),
         NEW at \in DOMAIN actions, NEW done \in Nat, done < Len(Codes(d, actions)[at])
  PROVE  LET made == Made(Codes(d, actions), at, done)
         IN /\ Made(Codes(d, actions), at, done + 1) = made \cup {<<at, done + 1>>}
            /\ \A q \in made : ReservesAtomic!Before(q, <<at, done + 1>>)
<1> DEFINE codes == Codes(d, actions)
           All == ReservesAtomic!Places(codes)
<1>1. /\ at \in Int /\ Len(codes[at]) \in Nat
  BY MadeTyped, CodesTyped
<1>2. done + 1 \in 1 .. Len(codes[at])
  BY <1>1
<1>3. <<at, done + 1>> \in All
  BY <1>2, MadeTyped
<1>4. \A p \in All : p[1] \in Int /\ p[2] \in Int /\ p = <<p[1], p[2]>>
  BY MadeTyped
<1>5. \A a, n, p : p \in Made(codes, a, n) <=> p \in All /\ (p[1] < a \/ (p[1] = a /\ p[2] <= n))
  BY MadeTyped
<1> HIDE DEF codes, All
<1>6. \A p : p \in Made(codes, at, done + 1)
             <=> p \in Made(codes, at, done) \/ p = <<at, done + 1>>
  BY <1>1, <1>3, <1>4, <1>5
<1>7. \A q \in Made(codes, at, done) : ReservesAtomic!Before(q, <<at, done + 1>>)
  BY <1>1, <1>4, <1>5 DEF ReservesAtomic!Before
<1> QED
  BY <1>6, <1>7 DEF codes

\* When an action's calls are done, the next action adds no place.
LEMMA MadeByAction ==
  ASSUME NEW d \in SUBSET Targets, NEW actions, IsArray(actions),
         NEW at \in DOMAIN actions, NEW done \in Nat, ~(done < Len(Codes(d, actions)[at]))
  PROVE  Made(Codes(d, actions), at + 1, 0) = Made(Codes(d, actions), at, done)
<1> DEFINE codes == Codes(d, actions)
           All == ReservesAtomic!Places(codes)
<1>1. at \in Int /\ Len(codes[at]) \in Nat
  BY MadeTyped, CodesTyped
<1>2. \A p \in All : /\ p[1] \in Int /\ p[2] \in Int /\ p[2] >= 1
                     /\ p[1] = at => p[2] <= Len(codes[at])
  BY MadeTyped
<1>3. \A a, n, p : p \in Made(codes, a, n) <=> p \in All /\ (p[1] < a \/ (p[1] = a /\ p[2] <= n))
  BY MadeTyped
<1>4. ~(done < Len(codes[at]))
  OBVIOUS
<1> HIDE DEF codes, All
<1>5. \A p : p \in Made(codes, at + 1, 0) <=> p \in Made(codes, at, done)
  BY <1>1, <1>2, <1>3, <1>4
<1>6. Made(codes, at + 1, 0) = Made(codes, at, done)
  BY <1>5 DEF Made
<1> QED
  BY <1>6 DEF codes

\* After the last action, everything is made.
LEMMA MadeAtLast ==
  ASSUME NEW d \in SUBSET Targets, NEW actions, IsArray(actions),
         NEW at \in Nat \ {0}, at \notin DOMAIN actions, NEW done
  PROVE  Made(Codes(d, actions), at, done) = ReservesAtomic!Places(Codes(d, actions))
<1> DEFINE codes == Codes(d, actions)
           All == ReservesAtomic!Places(codes)
<1>1. \A p \in All : p[1] < at
  <2>1. DOMAIN actions = 1 .. Len(actions) /\ Len(actions) \in Nat
    BY MadeTyped
  <2>2. \A p \in All : p[1] \in DOMAIN actions
    BY MadeTyped
  <2> HIDE DEF All
  <2> QED
    BY <2>1, <2>2
<1>2. \A a, n, p : p \in Made(codes, a, n) <=> p \in All /\ (p[1] < a \/ (p[1] = a /\ p[2] <= n))
  BY MadeTyped
<1> HIDE DEF codes, All
<1>3. \A p : p \in Made(codes, at, done) <=> p \in All
  BY <1>1, <1>2
<1>4. Made(codes, at, done) \subseteq All /\ All \subseteq Made(codes, at, done)
  BY <1>3
<1>5. Made(codes, at, done) = All
  BY <1>4
<1> QED
  BY <1>5 DEF codes, All
-----------------------------------------------------------------------------
(* The transaction in progress: what it has made of the reserves, what it  *)
(* executes, and that a payload called directly never gets past its first  *)
(* call.                                                                   *)
Running ==
  ~Idle =>
    /\ tx.by \in {"executor", "anybody"}
    /\ IsArray(tx.actions)
    /\ tx.at \in Nat \ {0}
    /\ configs = LET codes == Codes(deployed, tx.actions)
                 IN ReservesAtomic!Outcome(tx.saved, codes, Made(codes, tx.at, tx.done))

Authorized ==
  tx.by = "executor" =>
    /\ tx.actions = proposals[tx.id].actions
    /\ proposals[tx.id].eta <= now /\ now <= proposals[tx.id].eta + Grace

Refusing ==
  tx.by = "anybody" =>
    /\ IsArray(tx.actions) /\ Len(tx.actions) = 1
    /\ tx.actions[1].target \in deployed
    /\ tx.actions[1].withDelegatecall = FALSE
    /\ tx.at = 1 /\ tx.done = 0

XInv == TInv /\ Running /\ Authorized /\ Refusing

\* At first no transaction runs.
LEMMA InitXInv == Init => XInv
<1> SUFFICES ASSUME Init PROVE XInv
  OBVIOUS
<1>1. tx = NoTx /\ tx.by = "nobody"
  BY DEF Init, NoTx
<1>2. Running /\ Authorized /\ Refusing
  BY <1>1 DEF Running, Authorized, Refusing, Idle
<1> QED
  BY <1>2, InitTInv DEF XInv

\* The actions of a direct call.
LEMMA DirectAction ==
  ASSUME NEW target \in Targets
  PROVE  LET actions == <<[Action(target) EXCEPT !.withDelegatecall = FALSE]>>
         IN /\ IsArray(actions) /\ Len(actions) = 1
            /\ actions[1].target = target /\ actions[1].withDelegatecall = FALSE
<1> DEFINE action == [Action(target) EXCEPT !.withDelegatecall = FALSE]
<1>1. action.target = target /\ action.withDelegatecall = FALSE
  BY DEF Action
<1> HIDE DEF action
<1>2. IsArray(<<action>>) /\ Len(<<action>>) = 1 /\ <<action>>[1] = action
  BY DEF IsArray
<1> QED
  BY <1>1, <1>2 DEF action

\* The actions of a stored proposal.
LEMMA StoredActions ==
  ASSUME RInv, NEW i \in DOMAIN proposals
  PROVE  IsArray(proposals[i].actions)
<1>1. proposals[i] \in Stored
  BY DEF RInv
<1>2. proposals[i].actions \in KnownActions
  BY <1>1 DEF Stored
<1> QED
  BY <1>2, ActionsAssumption DEF KnownActions, Known, IsArray

\* A payload that is called directly is at its first call, and that call
\* does not come from the admin: it cannot succeed, nor be left out.
LEMMA DirectIsStuck ==
  ASSUME RInv, Refusing, tx.by = "anybody"
  PROVE  AtCall /\ msgSender # POOL_ADMIN
<1> DEFINE target == tx.actions[1].target
<1>1. target \in deployed /\ target \in Targets
  BY DEF Refusing, RInv
<1>2. 1 \in DOMAIN tx.actions /\ tx.at = 1 /\ tx.done = 0
  BY DEF Refusing, IsArray
<1>3. CodeAt(target) \in RiskPayloadCode
  BY <1>1, IntendedIsKnown DEF CodeAt
<1>4. \A code \in RiskPayloadCode : 0 < Len(code)
  <2>1. /\ Len(DaiLTDecemberPayload) = 1 /\ Len(UsdcLTDecemberPayload) = 1
        /\ Len(MKRPayloadFeb26) = 1 /\ Len(AaveV2FreezeDPIPayload) = 1
    BY DEF DaiLTDecemberPayload, UsdcLTDecemberPayload, MKRPayloadFeb26,
           AaveV2FreezeDPIPayload
  <2>2. Len(LTTailDecemberPayload) = 4
    BY DEF LTTailDecemberPayload
  <2> QED
    BY <2>1, <2>2 DEF RiskPayloadCode
<1>5. AtCall
  BY <1>2, <1>3, <1>4 DEF AtCall, AtAction
<1>6. msgSender = target
  BY <1>2 DEF msgSender, Refusing
<1>7. target # "SHORT_EXECUTOR"
  <2>1. target \in {"0x33d7", "0xeca5", "0x60bC", "MKR", "DPI"}
    BY <1>1, RiskAssumption
  <2> HIDE DEF target
  <2> QED
    BY <2>1
<1> QED
  BY <1>5, <1>6, <1>7 DEF POOL_ADMIN

\* A transaction starts with nothing made.
LEMMA StartRuns ==
  ASSUME XInv, Idle, NEW by \in {"executor", "anybody"}, NEW id, NEW actions, IsArray(actions),
         tx' = Started(by, id, actions), UNCHANGED <<deployed, configs>>
  PROVE  Running' /\ ~Idle'
<1>1. /\ tx'.by = by /\ tx'.actions = actions /\ tx'.at = 1 /\ tx'.done = 0
      /\ tx'.saved = configs
  BY DEF Started
<1>2. deployed \in SUBSET Targets /\ configs \in [Assets -> Config]
  BY DEF XInv, TInv, CInv, RInv
<1> DEFINE codes == Codes(deployed, actions)
<1>3. Made(codes, 1, 0) = {}
  BY <1>2, MadeAtFirst
<1>4. configs = ReservesAtomic!Outcome(configs, codes, Made(codes, 1, 0))
  BY <1>2, <1>3, OutcomeOfNone
<1> HIDE DEF codes
<1>5. IsArray(tx'.actions) /\ tx'.by \in {"executor", "anybody"} /\ tx'.at \in Nat \ {0}
  BY <1>1
<1>6. configs' = ReservesAtomic!Outcome(tx'.saved, codes, Made(codes, tx'.at, tx'.done))
      /\ codes = Codes(deployed', tx'.actions)
  BY <1>1, <1>4 DEF codes
<1>7. Running'
  BY ONLY <1>5, <1>6 DEF Running
<1>8. ~Idle'
  BY <1>1 DEF Idle, NoTx
<1> QED
  BY <1>7, <1>8

\* The call that is next is at the place that is next.
LEMMA CallRuns ==
  ASSUME XInv, AtCall, Accepted(nextCall, msgSender),
         configs' = Applied(configs, nextCall), tx' = [tx EXCEPT !.done = @ + 1],
         UNCHANGED deployed
  PROVE  Running'
<1> DEFINE codes == Codes(deployed, tx.actions)
           made == Made(codes, tx.at, tx.done)
           p == <<tx.at, tx.done + 1>>
<1>1. ~Idle
  <2>1. tx.actions # << >>
    BY DEF AtCall, AtAction
  <2> QED
    BY <2>1 DEF Idle, NoTx
<1>2. /\ tx.by \in {"executor", "anybody"} /\ IsArray(tx.actions) /\ tx.at \in Nat \ {0}
      /\ configs = ReservesAtomic!Outcome(tx.saved, codes, made)
      /\ tx.done \in Nat /\ deployed \in SUBSET Targets /\ configs \in [Assets -> Config]
  BY <1>1 DEF XInv, Running, TInv, CInv, RInv
<1>3. /\ tx'.by = tx.by /\ tx'.actions = tx.actions /\ tx'.at = tx.at
      /\ tx'.done = tx.done + 1 /\ tx'.saved = tx.saved
  BY DEF XInv, TInv, CInv, Shaped
<1>4. codes[tx.at] = CodeAt(tx.actions[tx.at].target) /\ tx.at \in DOMAIN tx.actions
  BY DEF Codes, CodeAt, AtCall, AtAction
<1>5. tx.done < Len(codes[tx.at])
  BY <1>4 DEF AtCall
<1>6. nextCall = ReservesAtomic!CallAt(codes, p)
  BY <1>4 DEF nextCall, ReservesAtomic!CallAt
<1>7. /\ Made(codes, tx.at, tx.done + 1) = made \cup {p}
      /\ \A q \in made : ReservesAtomic!Before(q, p)
  BY <1>2, <1>4, <1>5, MadeByCall
<1>8. InRange(ReservesAtomic!CallAt(codes, p))
      /\ ReservesAtomic!CallAt(codes, p).op \in {"configure", "freeze"}
  <2>1. InRange(nextCall)
    BY NextCallKnown, IntendedIsKnown, PayloadCallsInRange DEF XInv, TInv, CInv
  <2> QED
    BY <1>6, <2>1 DEF InRange
<1>9. \A q \in made : q[1] \in Int /\ q[2] \in Int
  <2>1. Len(tx.actions) \in Nat
    BY <1>2, CodesTyped
  <2> QED
    BY <1>2, <2>1, PlacesOfCodes DEF Made
<1>10. p[1] \in Int /\ p[2] \in Int
  BY <1>2
<1> HIDE DEF codes, made, p
<1>11. Applied(configs, nextCall) = ReservesAtomic!Outcome(tx.saved, codes, made \cup {p})
  BY <1>2, <1>6, <1>7, <1>8, <1>9, <1>10, OutcomeGrows
<1>12. configs' = ReservesAtomic!Outcome(tx.saved, codes, Made(codes, tx.at, tx.done + 1))
  BY <1>7, <1>11
<1> QED
  BY <1>2, <1>3, <1>12 DEF Running, codes

\* The step to the next action makes nothing.
LEMMA ActionRuns ==
  ASSUME XInv, AtAction, ~AtCall, tx' = [tx EXCEPT !.at = @ + 1, !.done = 0],
         UNCHANGED <<deployed, configs>>
  PROVE  Running'
<1> DEFINE codes == Codes(deployed, tx.actions)
<1>1. ~Idle
  <2>1. tx.actions # << >>
    BY DEF AtAction
  <2> QED
    BY <2>1 DEF Idle, NoTx
<1>2. /\ tx.by \in {"executor", "anybody"} /\ IsArray(tx.actions) /\ tx.at \in Nat \ {0}
      /\ configs = ReservesAtomic!Outcome(tx.saved, codes, Made(codes, tx.at, tx.done))
      /\ tx.done \in Nat /\ deployed \in SUBSET Targets
  BY <1>1 DEF XInv, Running, TInv, CInv, RInv
<1>3. /\ tx'.by = tx.by /\ tx'.actions = tx.actions /\ tx'.at = tx.at + 1
      /\ tx'.done = 0 /\ tx'.saved = tx.saved
  BY DEF XInv, TInv, CInv, Shaped
<1>4. codes[tx.at] = CodeAt(tx.actions[tx.at].target) /\ tx.at \in DOMAIN tx.actions
  BY DEF Codes, CodeAt, AtAction
<1>5. ~(tx.done < Len(codes[tx.at]))
  BY <1>4 DEF AtCall
<1>6. Made(codes, tx.at + 1, 0) = Made(codes, tx.at, tx.done)
  BY <1>2, <1>4, <1>5, MadeByAction
<1> HIDE DEF codes
<1>7. configs' = ReservesAtomic!Outcome(tx.saved, codes, Made(codes, tx.at + 1, 0))
  BY <1>2, <1>6
<1>8. IsArray(tx'.actions) /\ tx'.by \in {"executor", "anybody"} /\ tx'.at \in Nat \ {0}
  BY <1>2, <1>3
<1>9. configs' = ReservesAtomic!Outcome(tx'.saved, codes, Made(codes, tx'.at, tx'.done))
      /\ codes = Codes(deployed', tx'.actions)
  BY <1>3, <1>7 DEF codes
<1> QED
  BY ONLY <1>8, <1>9 DEF Running

\* Every step of a transaction keeps to it, and nothing else happens meanwhile.
LEMMA NextXInv == XInv /\ [Next]_vars => XInv'
<1> SUFFICES ASSUME XInv, [Next]_vars PROVE Running' /\ Authorized' /\ Refusing'
  BY NextTInv DEF XInv
<1>1. CASE Idle'
  <2>1. tx'.by = "nobody"
    BY <1>1 DEF Idle, NoTx
  <2> QED
    BY <1>1, <2>1 DEF Running, Authorized, Refusing
<1>2. ASSUME NEW i \in DOMAIN proposals, execute(i)
      PROVE  Running' /\ Authorized' /\ Refusing'
  <2>1. /\ Idle /\ proposals[i].eta <= now /\ now <= proposals[i].eta + Grace
        /\ tx' = Started("executor", i, proposals[i].actions)
        /\ UNCHANGED <<now, deployed, printed, proposals, configs>>
    BY <1>2 DEF execute
  <2>2. IsArray(proposals[i].actions)
    BY StoredActions DEF XInv, TInv, CInv
  <2>3. Running'
    BY <2>1, <2>2, StartRuns
  <2>4. tx'.by = "executor" /\ tx'.id = i /\ tx'.actions = proposals[i].actions
    BY <2>1 DEF Started
  <2> QED
    BY <2>1, <2>3, <2>4 DEF Authorized, Refusing
<1>3. ASSUME NEW target \in Targets, CallDirectly(target)
      PROVE  Running' /\ Authorized' /\ Refusing'
  <2> DEFINE actions == <<[Action(target) EXCEPT !.withDelegatecall = FALSE]>>
  <2>1. /\ Idle /\ target \in deployed /\ tx' = Started("anybody", 0, actions)
        /\ UNCHANGED <<now, deployed, printed, proposals, configs>>
    BY <1>3 DEF CallDirectly
  <2>2. /\ IsArray(actions) /\ Len(actions) = 1
        /\ actions[1].target = target /\ actions[1].withDelegatecall = FALSE
    BY DirectAction
  <2> HIDE DEF actions
  <2>3. Running'
    BY <2>1, <2>2, StartRuns
  <2>4. tx'.by = "anybody" /\ tx'.actions = actions /\ tx'.at = 1 /\ tx'.done = 0
    BY <2>1 DEF Started
  <2> QED
    BY <2>1, <2>2, <2>3, <2>4 DEF Authorized, Refusing
<1>4. CASE ConfiguratorCall \/ NextAction
  <2>1. tx.by # "anybody"
    <3>1. ASSUME tx.by = "anybody" PROVE FALSE
      <4>1. AtCall /\ msgSender # POOL_ADMIN
        BY <3>1, DirectIsStuck DEF XInv, TInv, CInv
      <4> QED
        BY <1>4, <4>1 DEF ConfiguratorCall, NextAction, Accepted
    <3> QED
      BY <3>1
  <2>2. Running'
    <3>1. CASE ConfiguratorCall
      BY <3>1, CallRuns DEF ConfiguratorCall
    <3>2. CASE NextAction
      BY <3>2, ActionRuns DEF NextAction
    <3> QED
      BY <1>4, <3>1, <3>2
  <2>3. /\ tx'.by = tx.by /\ tx'.id = tx.id /\ tx'.actions = tx.actions
        /\ UNCHANGED <<now, deployed, proposals>>
    BY <1>4 DEF ConfiguratorCall, NextAction, XInv, TInv, CInv, Shaped
  <2> QED
    BY <2>1, <2>2, <2>3 DEF XInv, Authorized, Refusing
<1>5. CASE Revert \/ Commit
  BY <1>1, <1>5 DEF Revert, Commit, Idle, NoTx
<1>6. CASE Idle /\ UNCHANGED tx
  BY <1>1, <1>6 DEF Idle, NoTx
<1>7. CASE UNCHANGED vars
  BY <1>7 DEF vars, XInv, Running, Authorized, Refusing, Idle, NoTx
<1> QED
  BY <1>2, <1>3, <1>4, <1>5, <1>6, <1>7
     DEF Next, DeployPayload, EmitCalldata, Submit, create, queue, cancel, Tick
-----------------------------------------------------------------------------
(* The refinement. Until a transaction commits, the chain shows the        *)
(* reserves it started from; only the executor's can commit, and then      *)
(* everything is made.                                                     *)
LEMMA CommitExecutes ==
  ASSUME XInv, Commit, NEW i, i = tx.id
  PROVE  i \in 1 .. MaxProposals /\ ReservesAtomic!Execute(i)
<1> DEFINE codes == Codes(deployed, tx.actions)
<1>1. tx.by = "executor"
  <2>1. tx.by \in {"executor", "anybody"}
    BY DEF Commit, XInv, Running
  <2>2. ASSUME tx.by = "anybody" PROVE FALSE
    BY <2>2, DirectIsStuck DEF Commit, XInv, TInv, CInv, AtCall
  <2> QED
    BY <2>1, <2>2
<1>2. /\ i \in DOMAIN proposals /\ proposals[i] \in Stored /\ proposals[i].state = "Queued"
      /\ tx.actions = proposals[i].actions
      /\ proposals[i].eta <= now /\ now <= proposals[i].eta + Grace
      /\ proposals \in Seq(Stored) /\ Len(proposals) <= MaxProposals /\ MaxProposals \in Nat
  BY <1>1, RiskAssumption DEF XInv, TInv, CInv, RInv, Books, Authorized
<1>3. i \in 1 .. MaxProposals
  BY <1>2
<1>4. /\ ~Idle /\ tx.at \notin DOMAIN tx.actions /\ tx.at \in Nat \ {0}
      /\ IsArray(tx.actions) /\ deployed \in SUBSET Targets
      /\ configs = ReservesAtomic!Outcome(tx.saved, codes, Made(codes, tx.at, tx.done))
  BY DEF Commit, AtAction, XInv, Running, TInv, CInv, RInv
<1>5. configs = ReservesAtomic!Outcome(tx.saved, codes, ReservesAtomic!Places(codes))
  BY <1>4, MadeAtLast
<1>6. /\ tx' = NoTx /\ Idle' /\ UNCHANGED <<now, deployed, printed, configs>>
      /\ proposals' = [proposals EXCEPT ![i].state = "Executed", ![i].eta = proposals[i].eta]
  BY <1>1 DEF Commit, SetState, Idle
<1>7. Shown = tx.saved /\ Shown' = configs
  BY <1>4, <1>6 DEF Shown
<1>8. CodesAt(proposals[i].actions) = codes
  BY <1>2 DEF CodesAt, CodeAt, Codes
<1>9. /\ DOMAIN proposals' = DOMAIN proposals
      /\ proposals'[i].state = "Executed" /\ proposals'[i].eta = proposals[i].eta
      /\ proposals'[i].actions = proposals[i].actions
      /\ \A j \in DOMAIN proposals \ {i} : proposals'[j] = proposals[j]
  BY <1>2, <1>6 DEF Stored
<1> HIDE DEF codes
<1>10. StateOf(i) = "Queued" /\ StateOf(i)' = "Executed"
       /\ EtaOf(i) = proposals[i].eta /\ CallsOf(i) = codes
  <2>1. Exists(i) /\ Exists(i)'
    BY <1>2, <1>9 DEF Exists
  <2>2. CallsOf(i) = codes
    BY <1>8, <2>1, Zenon DEF CallsOf
  <2>3. StateOf(i) = "Queued" /\ EtaOf(i) = proposals[i].eta
    BY <1>2, <2>1, Zenon DEF StateOf, EtaOf
  <2>4. StateOf(i)' = "Executed"
    BY <1>6, <1>9, <2>1 DEF StateOf
  <2> QED
    BY <2>2, <2>3, <2>4
<1>11. ASSUME NEW j \in (1 .. MaxProposals) \ {i}
       PROVE  StateOf(j)' = StateOf(j)
  BY <1>9 DEF StateOf, Exists
<1>12. ASSUME NEW j \in 1 .. MaxProposals
       PROVE  EtaOf(j)' = EtaOf(j)
  BY <1>9 DEF EtaOf, Exists
<1>13. ASSUME NEW j \in 1 .. MaxProposals
       PROVE  CallsOf(j)' = CallsOf(j)
  <2>1. j \in DOMAIN proposals => proposals'[j].actions = proposals[j].actions
    BY <1>9
  <2>2. \A a : [k \in DOMAIN a |-> IF a[k].target \in deployed' THEN IntendedCode(a[k].target)
                                                              ELSE << >>]
             = [k \in DOMAIN a |-> IF a[k].target \in deployed THEN IntendedCode(a[k].target)
                                                              ELSE << >>]
    BY <1>6
  <2> QED
    BY <1>9, <2>1, <2>2 DEF CallsOf, Exists, CodesAt, CodeAt
<1>14. ReservesAtomic!Execute(i)
  <2> DEFINE state == [j \in 1 .. MaxProposals |-> StateOf(j)]
             eta == [j \in 1 .. MaxProposals |-> EtaOf(j)]
             calls == [j \in 1 .. MaxProposals |-> CallsOf(j)]
  <2>1. state[i] = "Queued" /\ eta[i] <= now /\ now <= eta[i] + Grace
    BY <1>2, <1>3, <1>10
  <2>2. Shown' = ReservesAtomic!Outcome(Shown, calls[i], ReservesAtomic!Places(calls[i]))
    BY <1>3, <1>5, <1>7, <1>10, Zenon
  <2>3. state'[i] = "Executed"
    BY <1>3, <1>10
  <2>4. \A j \in (1 .. MaxProposals) \ {i} : state'[j] = state[j]
    BY <1>11
  <2>5. eta' = eta /\ calls' = calls /\ now' = now
    BY <1>6, <1>12, <1>13
  <2> QED
    BY <2>1, <2>2, <2>3, <2>4, <2>5, Zenon DEF ReservesAtomic!Execute
<1> QED
  BY <1>3, <1>14

\* A proposal that is queued or canceled was not executed and is not.
LEMMA SetStatePrepares ==
  ASSUME RInv, NEW i \in DOMAIN proposals, NEW state, NEW eta, SetState(i, state, eta),
         state # "Executed", proposals[i].state # "Executed", NEW j \in 1 .. MaxProposals
  PROVE  StateOf(j) = "Executed" <=> StateOf(j)' = "Executed"
<1>1. proposals \in Seq(Stored) /\ proposals[i] \in Stored
  BY DEF RInv
<1>2. DOMAIN proposals' = DOMAIN proposals /\ proposals'[i].state = state
      /\ \A k \in DOMAIN proposals \ {i} : proposals'[k] = proposals[k]
  BY <1>1 DEF SetState, Stored
<1>3. CASE j = i
  BY <1>2, <1>3 DEF StateOf, Exists
<1>4. CASE j # i
  BY <1>2, <1>4 DEF StateOf, Exists
<1> QED
  BY <1>3, <1>4

\* Whatever does not commit changes nothing that AtomicProposals shows.
LEMMA OthersPrepare ==
  ASSUME XInv, [Next]_vars, ~Commit
  PROVE  ReservesAtomic!Prepare
<1>1. Shown' = Shown
  BY OnlyCommitShows DEF XInv, TInv, CInv
<1>2. RInv
  BY DEF XInv, TInv, CInv
<1>3. ASSUME NEW j \in 1 .. MaxProposals
      PROVE  StateOf(j) = "Executed" <=> StateOf(j)' = "Executed"
  <2>1. CASE UNCHANGED proposals
    BY <2>1 DEF StateOf, Exists
  <2>2. CASE Submit
    <3>1. PICK new : proposals' = Append(proposals, new) /\ new.state = "Pending"
      BY <2>2 DEF Submit, create
    <3>2. proposals \in Seq(Stored)
      BY <1>2 DEF RInv
    <3>3. /\ \A k \in DOMAIN proposals : k \in DOMAIN proposals' /\ proposals'[k] = proposals[k]
          /\ \A k \in DOMAIN proposals' \ DOMAIN proposals : proposals'[k].state = "Pending"
      BY <3>1, <3>2
    <3> QED
      BY <3>3 DEF StateOf, Exists
  <2>3. ASSUME NEW i \in DOMAIN proposals, queue(i)
        PROVE  StateOf(j) = "Executed" <=> StateOf(j)' = "Executed"
    BY <1>2, <2>3, SetStatePrepares DEF queue
  <2>4. ASSUME NEW i \in DOMAIN proposals, cancel(i)
        PROVE  StateOf(j) = "Executed" <=> StateOf(j)' = "Executed"
    BY <1>2, <2>4, SetStatePrepares DEF cancel
  <2> QED
    BY <2>1, <2>2, <2>3, <2>4
       DEF Next, vars, DeployPayload, CallDirectly, EmitCalldata, execute, Tick,
           ConfiguratorCall, NextAction, Revert
<1>4. \A j \in 1 .. MaxProposals :
        [k \in 1 .. MaxProposals |-> StateOf(k)][j] = "Executed"
          <=> [k \in 1 .. MaxProposals |-> StateOf(k)]'[j] = "Executed"
  BY <1>3
<1> QED
  BY <1>1, <1>4, Zenon DEF ReservesAtomic!Prepare

(* ImplementsAtomicProposals, for all scripts, proposals, delays, windows  *)
(* and bounds: whatever fails and is tried again, the reserves change only *)
(* when a queued proposal is executed within its window, and then as if    *)
(* all its calls were made at once.                                        *)
THEOREM ProposalsAreAtomic == Spec => ImplementsAtomicProposals
<1>1. Init => ReservesAtomic!Init
  <2> SUFFICES ASSUME Init PROVE ReservesAtomic!Init
    OBVIOUS
  <2>1. \A i \in 1 .. MaxProposals : StateOf(i) = "none"
    BY DEF Init, StateOf, Exists
  <2> QED
    BY <2>1 DEF ReservesAtomic!Init
<1>2. XInv /\ [Next]_vars => [ReservesAtomic!Next]_ReservesAtomic!vars
  <2> SUFFICES ASSUME XInv, [Next]_vars PROVE ReservesAtomic!Next
    OBVIOUS
  <2>1. CASE Commit
    <3>1. PICK i : i = tx.id
      OBVIOUS
    <3>2. i \in 1 .. MaxProposals /\ ReservesAtomic!Execute(i)
      BY <2>1, <3>1, CommitExecutes
    <3> QED
      BY <3>2 DEF ReservesAtomic!Next
  <2>2. CASE ~Commit
    BY <2>2, OthersPrepare DEF ReservesAtomic!Next
  <2> QED
    BY <2>1, <2>2
<1> QED
  BY <1>1, <1>2, InitXInv, NextXInv, PTL
     DEF Spec, ImplementsAtomicProposals, ReservesAtomic!Spec
=============================================================================
