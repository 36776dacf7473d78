---------------------------- MODULE StreamPayments ----------------------------
(***************************************************************************)
(* The two payment proposals at work: the governance executor delegate-    *)
(* calls their payloads, each of which creates streams on the reserves in  *)
(* one transaction, while time passes, the recipient and the admin         *)
(* withdraw or cancel, governance spends from the same reserves and other  *)
(* proposals create other streams.                                         *)
(*                                                                         *)
(* Nothing in a payload stops a second execution: a proposal submitted     *)
(* twice (the deploy scripts keep no record) creates its streams twice.    *)
(* The model lets each payload be executed as often as the bound on stream *)
(* ids allows.                                                             *)
(***************************************************************************)
EXTENDS EcosystemReserve, FiniteSetsExt

CONSTANTS
  PaymentAmount, PaymentStart, PaymentEnd,            \* PaymentPayload
  CoverageAusdc, CoverageAave, CoverageDuration,      \* CoveragePayload
  OtherStreams   \* createStream calls that other proposals send, valid or not

Payment == INSTANCE PaymentPayload WITH
  AUSDC_STREAM_AMOUNT <- PaymentAmount,
  STREAMS_START <- PaymentStart, STREAMS_END <- PaymentEnd

Coverage == INSTANCE CoveragePayload WITH
  AUSDC_STREAM_AMOUNT <- CoverageAusdc,
  AAVE_STREAM_AMOUNT <- CoverageAave, STREAMS_DURATION <- CoverageDuration

\* What the authors chose the constants for: a positive payment that is a
\* multiple of its duration (PaymentProposalPayload.sol:22-25), coverage
\* amounts of at least one unit per time unit.
ASSUME PaymentAssumption ==
  /\ PaymentAmount \in Nat \ {0}
  /\ PaymentStart \in Nat
  /\ PaymentEnd \in Nat
  /\ PaymentStart < PaymentEnd
  /\ PaymentAmount % (PaymentEnd - PaymentStart) = 0

ASSUME CoverageAssumption ==
  /\ CoverageDuration \in Nat \ {0}
  /\ CoverageAusdc \in Nat
  /\ CoverageAave \in Nat
  /\ CoverageAusdc >= CoverageDuration
  /\ CoverageAave >= CoverageDuration

ASSUME OtherStreamsAssumption == OtherStreams \subseteq StreamCall

\* The proposals that create streams; "none" where no stream was created.
Origins == {"none", "payment", "coverage", "other"}

VARIABLE
  origin   \* for each stream, the proposal that created it, and when

vars == <<reserveVars, origin>>

Init ==
  /\ ReserveInit
  /\ origin = [r \in Reserves |-> [id \in StreamIds |-> [by |-> "none", at |-> 0]]]

\* The origin of the stream that call c creates.
Marked(org, st, c, proposal) ==
  [org EXCEPT ![c.collector][st.nextStreamId[c.collector]] =
     [by |-> proposal, at |-> now]]
-----------------------------------------------------------------------------
(* The executor's transactions.                                            *)

\* execute() of PaymentProposalPayload.sol.
ExecutePayment ==
  LET call == Payment!execute(now)
  IN  /\ CanCreate(Slots, call)
      /\ Store(createStream(Slots, call))
      /\ origin' = Marked(origin, Slots, call, "payment")

\* execute() of V2CoveragePaymentPayload.sol: two calls, one transaction.
ExecuteCoverage ==
  LET first == Coverage!usdcStream(now)
      second == Coverage!aaveStream(now)
      between == createStream(Slots, first)
  IN  /\ CanCreate(Slots, first)
      /\ CanCreate(between, second)
      /\ Store(createStream(between, second))
      /\ origin' = Marked(Marked(origin, Slots, first, "coverage"),
                          between, second, "coverage")

\* A stream that another proposal creates on one of the reserves.
ExecuteOther ==
  \E call \in OtherStreams :
    /\ CanCreate(Slots, call)
    /\ Store(createStream(Slots, call))
    /\ origin' = Marked(origin, Slots, call, "other")

Environment == ReserveStep /\ UNCHANGED origin

Next == ExecutePayment \/ ExecuteCoverage \/ ExecuteOther \/ Environment

Spec == Init /\ [][Next]_vars
-----------------------------------------------------------------------------
(* The recipient of the tests: it withdraws all of balanceOf, again and    *)
(* again, and governance neither cancels nor spends.                       *)

WithdrawAll(r, id) ==
  /\ WithdrawFromStream(r, id, recipientBalance(streams[r][id], now))
  /\ UNCHANGED origin

PassTime == Tick /\ UNCHANGED origin

UndisturbedNext ==
  \/ ExecutePayment
  \/ ExecuteCoverage
  \/ \E r \in Reserves, id \in StreamIds : WithdrawAll(r, id)
  \/ PassTime

\* Blocks keep coming, and the recipient keeps withdrawing.
Undisturbed ==
  /\ Init /\ [][UndisturbedNext]_vars
  /\ WF_vars(PassTime)
  /\ \A r \in Reserves, id \in StreamIds : WF_vars(WithdrawAll(r, id))
-----------------------------------------------------------------------------
(* Properties.                                                             *)

TypeOK ==
  /\ now \in 0 .. MaxTime
  /\ streams \in [Reserves -> [StreamIds -> Stream]]
  /\ nextStreamId \in [Reserves -> 1 .. MaxStreams + 1]
  /\ balances \in [Tokens -> [Holders -> Nat]]
  /\ terms \in [Reserves -> [StreamIds -> Stream]]
  /\ received \in [Reserves -> [StreamIds -> Nat]]
  /\ origin \in [Reserves -> [StreamIds -> [by: Origins, at: Nat]]]

(* A live stream owes exactly what has vested and was not yet withdrawn:   *)
(* however the recipient splits its withdrawals, balanceOf never           *)
(* underflows and never reaches into the part that has not vested.         *)
AccruedOnce ==
  \A r \in Reserves, id \in StreamIds :
    LET s == streams[r][id]
        due == recipientBalance(s, now)
    IN  s.isEntity => /\ due >= 0 /\ due <= s.remainingBalance
                      /\ received[r][id] + due = s.ratePerSecond * deltaOf(s, now)

(* The payment is executed at some time t; whatever happens in between,    *)
(* nothing is paid up to t + STREAMS_START (testNoPaymentInitial6Months)   *)
(* and from t + STREAMS_END on the whole amount is paid or can be withdrawn*)
(* (the final check of testExecute), unless the stream was cancelled.      *)
PaymentSchedule ==
  \A id \in StreamIds :
    LET s == streams["COLLECTOR"][id]
        paid == received["COLLECTOR"][id]
        t == origin["COLLECTOR"][id].at
    IN  origin["COLLECTOR"][id].by = "payment" =>
          /\ now <= t + PaymentStart => paid = 0
          /\ now >= t + PaymentEnd /\ s.isEntity =>
               paid + recipientBalance(s, now) = PaymentAmount

(* "Stream of $0.5 million in aUSDC over 12 months"                        *)
(* (PaymentProposalPayload.sol:38): a payment executed at t and not        *)
(* cancelled has paid, or owes, the share of the 12 months that has passed.*)
(* The code streams in the second half of them only.                       *)
OverTwelveMonths ==
  \A id \in StreamIds :
    LET s == streams["COLLECTOR"][id]
        t == origin["COLLECTOR"][id].at
    IN  origin["COLLECTOR"][id].by = "payment" /\ s.isEntity /\ now <= t + PaymentEnd =>
          received["COLLECTOR"][id] + recipientBalance(s, now) =
            (PaymentAmount * (now - t)) \div PaymentEnd

(* Each execution of the coverage proposal leaves one stream on either     *)
(* reserve, over the same period: never one without the other.             *)
CoverageTwins ==
  LET side(r, t) == {id \in StreamIds :
                       /\ origin[r][id] = [by |-> "coverage", at |-> t]
                       /\ terms[r][id].startTime = t
                       /\ terms[r][id].stopTime = t + CoverageDuration}
      marked(r, t) == {id \in StreamIds :
                         origin[r][id] = [by |-> "coverage", at |-> t]}
  IN  \A t \in 0 .. now :
        /\ Cardinality(side("COLLECTOR", t)) = Cardinality(side("ECOSYSTEM_RESERVE", t))
        /\ \A r \in Reserves : side(r, t) = marked(r, t)

(* At whatever time governance executes a payload, no createStream of it   *)
(* is refused: the rounding in the code always leaves an acceptable deposit*)
PayloadsAccepted ==
  /\ Accepts(Payment!execute(now), now)
  /\ Accepts(Coverage!usdcStream(now), now)
  /\ Accepts(Coverage!aaveStream(now), now)

(* What a coverage stream promises is at most the approved amount, and     *)
(* short of it by less than one unit per time unit.                        *)
WithinApproval ==
  \A r \in Reserves, id \in StreamIds :
    LET approved == IF r = "COLLECTOR" THEN CoverageAusdc ELSE CoverageAave
    IN  origin[r][id].by = "coverage" =>
          /\ terms[r][id].deposit <= approved
          /\ approved - terms[r][id].deposit < CoverageDuration
          /\ terms[r][id].tokenAddress = HomeToken(r)

(* The streams of r in a token, and sums over them.                        *)
StreamsIn(r, token) ==
  {id \in StreamIds : Created(r, id) /\ terms[r][id].tokenAddress = token}
Promised(r, token) ==
  MapThenSumSet(LAMBDA id : terms[r][id].deposit, StreamsIn(r, token))
Outstanding(r, token) ==
  MapThenSumSet(LAMBDA id : streams[r][id].remainingBalance, StreamsIn(r, token))
PaidBy(r, token) ==
  MapThenSumSet(LAMBDA id : received[r][id], StreamsIn(r, token))
InitialHolding(r, token) == IF HomeToken(r) = token THEN Holdings ELSE 0

(* What the events say the streams of r paid to one holder.                *)
PaidTo(h, r, token) ==
  MapThenSumSet(LAMBDA id : received[r][id],
                {id \in StreamsIn(r, token) : terms[r][id].recipient = h})

(* What governance spent from the reserves: the holdings elsewhere that no *)
(* stream paid.                                                            *)
Spent(token) ==
  balances[token]["ELSEWHERE"] - PaidTo("ELSEWHERE", "COLLECTOR", token)
                               - PaidTo("ELSEWHERE", "ECOSYSTEM_RESERVE", token)

(* Deposits are not escrowed, and this is all that can go wrong with it:   *)
(* while what was promised and what governance spent stay within what the  *)
(* reserve held, it holds enough to pay every stream to its end.           *)
Solvent ==
  \A r \in Reserves, token \in Tokens :
    Promised(r, token) + Spent(token) <= InitialHolding(r, token)
      => balances[token][r] >= Outstanding(r, token)

(* The token ledgers and the events agree: the recipient holds what the    *)
(* events say the streams paid it, and no token appears or vanishes.       *)
LedgerMatchesEvents ==
  \A token \in Tokens :
    /\ balances[token]["CHAOS_RECIPIENT"] =
         PaidTo("CHAOS_RECIPIENT", "COLLECTOR", token)
           + PaidTo("CHAOS_RECIPIENT", "ECOSYSTEM_RESERVE", token)
    /\ MapThenSumSet(LAMBDA h : balances[token][h], Holders) = Holdings

(* Every stream, of whatever proposal, is a grant of Vesting: its terms    *)
(* never change, its payments follow them, and it ends settled.            *)
StreamVesting == INSTANCE Vesting WITH
  Grants <- Reserves \X StreamIds,
  deposit <- [g \in Reserves \X StreamIds |-> terms[g[1]][g[2]].deposit],
  start <- [g \in Reserves \X StreamIds |-> terms[g[1]][g[2]].startTime],
  stop <- [g \in Reserves \X StreamIds |-> terms[g[1]][g[2]].stopTime],
  paid <- [g \in Reserves \X StreamIds |-> received[g[1]][g[2]]],
  made <- {g \in Reserves \X StreamIds : Created(g[1], g[2])},
  open <- {g \in Reserves \X StreamIds : streams[g[1]][g[2]].isEntity}

ImplementsVesting == StreamVesting!Spec

(* Left undisturbed, what was approved is paid, whenever it is executed, if *)
(* its period ends within the bounded time: the whole payment, and the      *)
(* coverage but for less than one unit per time unit (the final checks of   *)
(* testExecute, testExecuteUsdc and testExecuteAave).                       *)
PaidInFull ==
  \A r \in Reserves, id \in StreamIds, t \in 0 .. MaxTime :
    /\ t + PaymentEnd <= MaxTime =>
         (origin[r][id] = [by |-> "payment", at |-> t]
            ~> received[r][id] = PaymentAmount)
    /\ t + CoverageDuration <= MaxTime =>
         (origin[r][id] = [by |-> "coverage", at |-> t]
            ~> LET approved == IF r = "COLLECTOR" THEN CoverageAusdc ELSE CoverageAave
               IN  approved - received[r][id] < CoverageDuration)
=============================================================================
