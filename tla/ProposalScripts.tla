---------------------------- MODULE ProposalScripts ---------------------------
(***************************************************************************)
(* The scripts of src/script that make a governance proposal out of        *)
(* payload addresses and an IPFS hash: the libraries that broadcast it     *)
(* (GOV.create) and those that only print the calldata of that call, which *)
(* somebody then sends.  They are separate copies of the same code.        *)
(* Addresses and hashes are given by the first digits of the scripts'      *)
(* literals.                                                               *)
(***************************************************************************)
EXTENDS Integers, Sequences

ZERO == "0x0"     \* address(0), bytes32(0)

(* What a script does: it is refused by a require, or reaches GOV.create   *)
(* with a proposal.                                                        *)
Refused == [created |-> FALSE, actions |-> << >>, ipfsHash |-> ZERO]
Proposal(actions, ipfsHash) ==
  [created |-> TRUE, actions |-> actions, ipfsHash |-> ipfsHash]

\* targets[i], signatures[i], withDelegatecalls[i]; values and calldatas
\* are empty in every script.
Action(payload) ==
  [target |-> payload, signature |-> "execute()", withDelegatecall |-> TRUE]

\* The single payload libraries: DeployMainnetProposal, EmitMainnetProposal.
_deployMainnetProposal(payload, ipfsHash) ==
  IF payload = ZERO \/ ipfsHash = ZERO THEN Refused
  ELSE Proposal(<<Action(payload)>>, ipfsHash)

\* Mutant: the printed calldata calls the payload instead of delegating to it.
emitPlainCall(payload, ipfsHash) ==
  IF payload = ZERO \/ ipfsHash = ZERO THEN Refused
  ELSE Proposal(<<[Action(payload) EXCEPT !.withDelegatecall = FALSE]>>, ipfsHash)

_deployL1Proposal(payload, ipfsHash) ==
  IF payload = ZERO \/ ipfsHash = ZERO THEN Refused
  ELSE Proposal(<<Action(payload)>>, ipfsHash)

\* The libraries for several payloads, in the order of the array.
_deployMainnetMultiProposals(payloads, ipfsHash) ==
  IF ipfsHash = ZERO \/ (\E i \in DOMAIN payloads : payloads[i] = ZERO) THEN Refused
  ELSE Proposal([i \in DOMAIN payloads |-> Action(payloads[i])], ipfsHash)

\* Mutant: the array is filled from its end.
emitReversed(payloads, ipfsHash) ==
  IF ipfsHash = ZERO \/ (\E i \in DOMAIN payloads : payloads[i] = ZERO) THEN Refused
  ELSE Proposal([i \in DOMAIN payloads |-> Action(payloads[Len(payloads) + 1 - i])],
               ipfsHash)

_deployMultiProposal(payloads, ipfsHash) ==
  IF ipfsHash = ZERO \/ (\E i \in DOMAIN payloads : payloads[i] = ZERO) THEN Refused
  ELSE Proposal([i \in DOMAIN payloads |-> Action(payloads[i])], ipfsHash)

(* The scripts' run(): what each broadcasts, and what each prints.         *)
MainnetProposal == _deployMainnetProposal("0x691B", "0x5d05")
MainnetCalldata == _deployL1Proposal("0x33d7", "0x31cc")
LongTailProposal == _deployMainnetProposal("0x33d7", "0x31cc")
LongTailCalldata == _deployL1Proposal("0x33d7", "0x31cc")
MultiProposal == _deployMainnetMultiProposals(<<"0xeca5", "0x60bC">>, "0x9259")
MultiCalldata == _deployMultiProposal(<<"0xeca5", "0x60bC">>, "0x9259")
DaiAndUsdcProposal == _deployMainnetMultiProposals(<<"0xeca5", "0x60bC">>, "0x9259")
=============================================================================
