--------------------------- MODULE EcosystemReserve ---------------------------
(***************************************************************************)
(* The two token reserves the payment payloads stream from: the COLLECTOR  *)
(* and the ECOSYSTEM_RESERVE, each a contract with the IStreamable         *)
(* interface (src/src/external/aave/IStreamable.sol) driven through the    *)
(* controller IAaveEcosystemReserveController.  The contracts themselves   *)
(* are deployed elsewhere; what the payloads, their comments and their     *)
(* tests rely on is modelled here:                                         *)
(*                                                                         *)
(*   - a stream is accepted only if its deposit is a multiple of its       *)
(*     duration (PaymentProposalPayload.sol:22-25, "handle remainder       *)
(*     condition"), so that ratePerSecond * duration = deposit;            *)
(*   - balanceOf grows by ratePerSecond per second between startTime and   *)
(*     stopTime, less what was withdrawn (PaymentProposalPayload.t.sol:    *)
(*     127-149);                                                           *)
(*   - withdrawing 0 throws (PaymentProposalPayload.t.sol:123);            *)
(*   - deposits are not escrowed: a withdrawal is an ERC20 transfer from   *)
(*     whatever the reserve holds at that moment;                          *)
(*   - a stream whose remainingBalance reaches 0, or that is cancelled, is *)
(*     deleted, and stream ids are never reused.                           *)
(*                                                                         *)
(* One time unit stands for any fixed number of seconds.                   *)
(***************************************************************************)
EXTENDS Integers

CONSTANTS
  MaxStreams,   \* bound: stream ids a reserve can hand out
  MaxTime,      \* bound: block time
  Holdings,     \* initial holding of each reserve, in the token it streams
  Outflows      \* amounts that governance may transfer out of a reserve

Reserves == {"COLLECTOR", "ECOSYSTEM_RESERVE"}
Tokens == {"USDC_A_TOKEN", "AAVE_TOKEN"}
Holders == Reserves \cup {"CHAOS_RECIPIENT", "ELSEWHERE"}
StreamIds == 1 .. MaxStreams

\* The stream ids are 1 .. MaxStreams; every amount and time is a natural.
ASSUME ReserveAssumption ==
  /\ MaxStreams \in Nat
  /\ MaxTime \in Nat
  /\ Holdings \in Nat
  /\ Outflows \subseteq Nat \ {0}

(* struct Stream; sender is always the reserve that keeps the record.      *)
Stream == [deposit: Nat, ratePerSecond: Nat, remainingBalance: Nat,
           startTime: Nat, stopTime: Nat, recipient: Holders,
           tokenAddress: Tokens, isEntity: BOOLEAN]

\* A mapping slot never written, or deleted.
EmptyStream == [deposit |-> 0, ratePerSecond |-> 0, remainingBalance |-> 0,
                startTime |-> 0, stopTime |-> 0, recipient |-> "ELSEWHERE",
                tokenAddress |-> "AAVE_TOKEN", isEntity |-> FALSE]

(* The arguments of createStream.                                          *)
StreamCall == [collector: Reserves, recipient: Holders, deposit: Nat,
               tokenAddress: Tokens, startTime: Nat, stopTime: Nat]

VARIABLES
  now,           \* block.timestamp
  streams,       \* streams[r][id], the mapping of reserve r
  nextStreamId,  \* nextStreamId[r]
  balances,      \* balances[token][holder], the ERC20 ledgers
  terms,         \* the stream as announced by its CreateStream event
  received       \* what a stream paid: its WithdrawFromStream amounts and
                 \* the recipientBalance of its CancelStream event

reserveVars == <<now, streams, nextStreamId, balances, terms, received>>
-----------------------------------------------------------------------------
(* View functions.                                                         *)

\* Mutant: the clock of a stream runs on after its stop.
deltaOfUncapped(s, t) == IF t <= s.startTime THEN 0 ELSE t - s.startTime

\* Time elapsed on the stream, deltaOf(streamId).
deltaOf(s, t) ==
  IF t <= s.startTime THEN 0
  ELSE IF t < s.stopTime THEN t - s.startTime
  ELSE s.stopTime - s.startTime

\* balanceOf(streamId, recipient): accrued and not yet withdrawn.
recipientBalance(s, t) ==
  deltaOf(s, t) * s.ratePerSecond - (s.deposit - s.remainingBalance)

\* The id was handed out, whether or not the stream still exists.
Created(r, id) == id < nextStreamId[r]
-----------------------------------------------------------------------------
(* createStream.                                                           *)

\* Mutant: a remainder is accepted.
AcceptsRemainder(c, t) ==
  /\ c.recipient # c.collector
  /\ c.deposit > 0
  /\ c.startTime >= t
  /\ c.stopTime > c.startTime
  /\ c.deposit >= c.stopTime - c.startTime

\* The requires of createStream that do not depend on the stored streams.
\* The check of the remainder is what the payload's comments are about.
Accepts(c, t) ==
  /\ c.recipient # c.collector
  /\ c.deposit > 0
  /\ c.startTime >= t
  /\ c.stopTime > c.startTime
  /\ c.deposit >= c.stopTime - c.startTime
  /\ c.deposit % (c.stopTime - c.startTime) = 0

NewStream(c) ==
  [deposit |-> c.deposit,
   ratePerSecond |-> c.deposit \div (c.stopTime - c.startTime),
   remainingBalance |-> c.deposit,
   startTime |-> c.startTime, stopTime |-> c.stopTime,
   recipient |-> c.recipient, tokenAddress |-> c.tokenAddress,
   isEntity |-> TRUE]

\* What one createStream reads and writes, so that a payload can chain calls.
Slots == [streams |-> streams, nextStreamId |-> nextStreamId, terms |-> terms]

createStream(st, c) ==
  LET id == st.nextStreamId[c.collector]
  IN  [streams |-> [st.streams EXCEPT ![c.collector][id] = NewStream(c)],
       nextStreamId |-> [st.nextStreamId EXCEPT ![c.collector] = id + 1],
       terms |-> [st.terms EXCEPT ![c.collector][id] = NewStream(c)]]

CanCreate(st, c) ==
  /\ st.nextStreamId[c.collector] \in StreamIds     \* bound MaxStreams
  /\ Accepts(c, now)

Store(st) ==
  /\ streams' = st.streams
  /\ nextStreamId' = st.nextStreamId
  /\ terms' = st.terms
  /\ UNCHANGED <<now, balances, received>>
-----------------------------------------------------------------------------
(* The operations on existing streams, the outflows and the clock.         *)

\* Mutant: the reserve spends what it does not hold.
AlwaysTransfers(token, from, amount) == TRUE

\* ERC20 transfer: reverts when the sender does not hold the amount.
CanTransfer(token, from, amount) == balances[token][from] >= amount

transfer(token, from, to, amount) ==
  balances' = [balances EXCEPT ![token][from] = @ - amount,
                               ![token][to] = @ + amount]

\* Mutant: remainingBalance is left as it was.
WithdrawUncounted(r, id, amount) ==
  LET s == streams[r][id]
  IN  /\ s.isEntity
      /\ amount > 0
      /\ amount <= recipientBalance(s, now)
      /\ CanTransfer(s.tokenAddress, r, amount)
      /\ transfer(s.tokenAddress, r, s.recipient, amount)
      /\ received' = [received EXCEPT ![r][id] = @ + amount]
      /\ UNCHANGED <<now, streams, nextStreamId, terms>>

\* withdrawFromStream(streamId, amount), by the recipient or by the admin.
WithdrawFromStream(r, id, amount) ==
  LET s == streams[r][id]
      left == s.remainingBalance - amount
  IN  /\ s.isEntity
      /\ amount > 0
      /\ amount <= recipientBalance(s, now)
      /\ CanTransfer(s.tokenAddress, r, amount)
      /\ streams' = [streams EXCEPT ![r][id] =
           IF left = 0 THEN EmptyStream
           ELSE [s EXCEPT !.remainingBalance = left]]
      /\ transfer(s.tokenAddress, r, s.recipient, amount)
      /\ received' = [received EXCEPT ![r][id] = @ + amount]
      /\ UNCHANGED <<now, nextStreamId, terms>>

\* Mutant: a cancelled stream pays out all that remains of it.
CancelPaysAll(r, id) ==
  LET s == streams[r][id]
  IN  /\ s.isEntity
      /\ CanTransfer(s.tokenAddress, r, s.remainingBalance)
      /\ streams' = [streams EXCEPT ![r][id] = EmptyStream]
      /\ transfer(s.tokenAddress, r, s.recipient, s.remainingBalance)
      /\ received' = [received EXCEPT ![r][id] = @ + recipientBalance(s, now)]
      /\ UNCHANGED <<now, nextStreamId, terms>>

\* cancelStream(streamId), by the recipient or by the admin: what accrued
\* goes to the recipient, the rest was never moved out of the reserve.
CancelStream(r, id) ==
  LET s == streams[r][id]
      due == recipientBalance(s, now)
  IN  /\ s.isEntity
      /\ CanTransfer(s.tokenAddress, r, due)
      /\ streams' = [streams EXCEPT ![r][id] = EmptyStream]
      /\ transfer(s.tokenAddress, r, s.recipient, due)
      /\ received' = [received EXCEPT ![r][id] = @ + due]
      /\ UNCHANGED <<now, nextStreamId, terms>>

\* transfer(collector, token, recipient, amount) of the controller:
\* governance spends from the reserve, whatever the streams still owe.
TransferOut(r, token, amount) ==
  /\ CanTransfer(token, r, amount)
  /\ transfer(token, r, "ELSEWHERE", amount)
  /\ UNCHANGED <<now, streams, nextStreamId, terms, received>>

\* The next block.
Tick ==
  /\ now < MaxTime                                  \* bound MaxTime
  /\ now' = now + 1
  /\ UNCHANGED <<streams, nextStreamId, balances, terms, received>>
-----------------------------------------------------------------------------
HomeToken(r) == IF r = "COLLECTOR" THEN "USDC_A_TOKEN" ELSE "AAVE_TOKEN"

ReserveInit ==
  /\ now = 0
  /\ streams = [r \in Reserves |-> [id \in StreamIds |-> EmptyStream]]
  /\ nextStreamId = [r \in Reserves |-> 1]
  /\ balances = [token \in Tokens |-> [h \in Holders |->
       IF h \in Reserves /\ HomeToken(h) = token THEN Holdings ELSE 0]]
  /\ terms = streams
  /\ received = [r \in Reserves |-> [id \in StreamIds |-> 0]]

\* The steps of the reserves that no payload takes part in.
ReserveStep ==
  \/ \E r \in Reserves, id \in StreamIds :
       \/ \E amount \in 1 .. terms[r][id].deposit :
            WithdrawFromStream(r, id, amount)
       \/ CancelStream(r, id)
  \/ \E r \in Reserves, token \in Tokens, amount \in Outflows :
       TransferOut(r, token, amount)
  \/ Tick
=============================================================================
