---------------------------- MODULE MCRiskProposals ---------------------------
(* Small instances of RiskProposals for TLC.                               *)
EXTENDS RiskProposals

\* A proposal that delegatecalls one payload, as DPI's and MKR's were made
\* without a script.
direct(target) == Proposal(<<Action(target)>>, target)

MCBroadcasts == {MainnetProposal, LongTailProposal, MultiProposal, DaiAndUsdcProposal}
MCPrintouts == {MainnetCalldata, LongTailCalldata, MultiCalldata}
MCLongTail == {LongTailProposal}
MCDpi == {direct("DPI")}
MCMkr == {direct("MKR")}
MCDpiMkr == MCDpi \cup MCMkr
MCNone == {}
=============================================================================
