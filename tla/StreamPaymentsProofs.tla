------------------------- MODULE StreamPaymentsProofs -------------------------
(***************************************************************************)
(* What TLAPS proves of StreamPayments, for every value of the constants   *)
(* that the assumptions of EcosystemReserve and StreamPayments allow.      *)
(*                                                                         *)
(* AccruedOnce is not inductive: that balanceOf stays between 0 and the    *)
(* remaining balance needs to know that the rate times the duration is the *)
(* deposit, that a stored stream differs from its event in the remaining   *)
(* balance only, and that nothing was paid ahead of the schedule, also by  *)
(* the streams that are already deleted.  Even TypeOK needs that much: a   *)
(* withdrawal leaves a natural remaining balance only because of it.       *)
(***************************************************************************)
EXTENDS StreamPayments, ContractConstants, TLAPS

(* A stream that createStream accepted.                                    *)
WellFormed(s) ==
  /\ s \in Stream
  /\ s.isEntity
  /\ s.startTime < s.stopTime
  /\ s.deposit > 0
  /\ s.deposit = s.ratePerSecond * (s.stopTime - s.startTime)
  /\ s.remainingBalance = s.deposit

\* An id not handed out yet has no stream and no history.
Fresh(r, id) ==
  ~Created(r, id) => /\ ~streams[r][id].isEntity
                     /\ received[r][id] = 0
                     /\ origin[r][id].by = "none"

\* No stream, live or closed, has paid more than had vested.
Announced(r, id) ==
  Created(r, id) =>
    /\ WellFormed(terms[r][id])
    /\ received[r][id] <= terms[r][id].ratePerSecond * deltaOf(terms[r][id], now)

\* A live stream is its event, less what was withdrawn.
Live(r, id) ==
  streams[r][id].isEntity =>
    /\ received[r][id] < terms[r][id].deposit
    /\ streams[r][id] = [terms[r][id] EXCEPT
         !.remainingBalance = terms[r][id].deposit - received[r][id]]

\* The stream of a payload is the one its call describes.
Traced(r, id) ==
  LET o == origin[r][id]
  IN  /\ o.by = "payment" =>
           /\ r = "COLLECTOR"
           /\ terms[r][id] = NewStream(Payment!execute(o.at))
      /\ o.by = "coverage" =>
           terms[r][id] = NewStream(IF r = "COLLECTOR"
                                    THEN Coverage!usdcStream(o.at)
                                    ELSE Coverage!aaveStream(o.at))

StreamInv(r, id) ==
  Fresh(r, id) /\ Announced(r, id) /\ Live(r, id) /\ Traced(r, id)

IInv == TypeOK /\ \A r \in Reserves, id \in StreamIds : StreamInv(r, id)
-----------------------------------------------------------------------------
(* Arithmetic.                                                             *)

(* A number without remainder is its quotient times the divisor: why the   *)
(* reserve's check makes rate * duration = deposit.                        *)
LEMMA ExactQuotient ==
  ASSUME NEW d \in Nat, NEW k \in Nat \ {0}, d % k = 0
  PROVE  d \div k \in Nat /\ d = (d \div k) * k
OBVIOUS

(* Rounding down to a multiple, as the coverage payload does, gives a      *)
(* multiple, at most the number and short of it by less than the divisor.  *)
LEMMA RoundedDown ==
  ASSUME NEW d \in Nat, NEW k \in Nat \ {0}
  PROVE  LET m == (d \div k) * k
         IN  m \in Nat /\ m <= d /\ d - m < k /\ m % k = 0 /\ (d >= k => m >= k)
OBVIOUS

(* Multiplication is monotone.                                             *)
LEMMA TimesMonotone ==
  ASSUME NEW a \in Nat, NEW b \in Nat, NEW c \in Nat, b <= c
  PROVE  a * b \in Nat /\ a * c \in Nat /\ a * b <= a * c
OBVIOUS

(* An exact multiple divides back.                                         *)
LEMMA QuotientOfMultiple ==
  ASSUME NEW r \in Nat, NEW k \in Nat \ {0}, NEW x \in Nat
  PROVE  ((r * k) * x) \div k = r * x
OBVIOUS
-----------------------------------------------------------------------------
(* Streams.                                                                *)

(* The clock of a stream is a natural, never exceeds its duration, and     *)
(* does not go back; it stands at 0 up to the start and is full at the stop*)
LEMMA DeltaFacts ==
  ASSUME NEW s, WellFormed(s), NEW t \in Nat, NEW u \in Nat, t <= u
  PROVE  /\ deltaOf(s, t) \in Nat
         /\ deltaOf(s, t) <= s.stopTime - s.startTime
         /\ deltaOf(s, t) <= deltaOf(s, u)
         /\ t <= s.startTime => deltaOf(s, t) = 0
         /\ t >= s.stopTime => deltaOf(s, t) = s.stopTime - s.startTime
BY DEF WellFormed, Stream, deltaOf

(* What vests is a natural, grows with time and ends at the deposit.       *)
LEMMA VestingFacts ==
  ASSUME NEW s, WellFormed(s), NEW t \in Nat, NEW u \in Nat, t <= u
  PROVE  /\ s.ratePerSecond * deltaOf(s, t) \in Nat
         /\ s.ratePerSecond * deltaOf(s, t) <= s.deposit
         /\ s.ratePerSecond * deltaOf(s, t) <= s.ratePerSecond * deltaOf(s, u)
         /\ t <= s.startTime => s.ratePerSecond * deltaOf(s, t) = 0
         /\ t >= s.stopTime => s.ratePerSecond * deltaOf(s, t) = s.deposit
<1> DEFINE d == s.stopTime - s.startTime
<1>1. s.ratePerSecond \in Nat /\ d \in Nat /\ s.deposit = s.ratePerSecond * d
  BY DEF WellFormed, Stream
<1>2. /\ deltaOf(s, t) \in Nat /\ deltaOf(s, u) \in Nat
      /\ deltaOf(s, t) <= d /\ deltaOf(s, t) <= deltaOf(s, u)
      /\ t <= s.startTime => deltaOf(s, t) = 0
      /\ t >= s.stopTime => deltaOf(s, t) = d
  BY DeltaFacts
<1> QED
  BY <1>1, <1>2, TimesMonotone

(* What createStream stores for a call it accepts is well formed.          *)
LEMMA AcceptedIsWellFormed ==
  ASSUME NEW c \in StreamCall, NEW t \in Nat, Accepts(c, t)
  PROVE  WellFormed(NewStream(c))
<1> DEFINE k == c.stopTime - c.startTime
<1>1. k \in Nat \ {0} /\ c.deposit \in Nat /\ c.deposit % k = 0
  BY DEF StreamCall, Accepts
<1>2. c.deposit \div k \in Nat /\ c.deposit = (c.deposit \div k) * k
  BY <1>1, ExactQuotient
<1>3. NewStream(c) \in Stream
  BY <1>2 DEF NewStream, Stream, StreamCall
<1> QED
  BY <1>2, <1>3 DEF NewStream, WellFormed, Accepts, StreamCall

(* The calls of the payloads are calls.                                    *)
LEMMA PayloadCalls ==
  ASSUME NEW t \in Nat
  PROVE  /\ Payment!execute(t) \in StreamCall
         /\ Coverage!usdcStream(t) \in StreamCall
         /\ Coverage!aaveStream(t) \in StreamCall
<1>1. Coverage!actualAmountUSDC \in Nat /\ Coverage!actualAmountAave \in Nat
  BY RoundedDown, CoverageAssumption
     DEF Coverage!actualAmountUSDC, Coverage!actualAmountAave
<1> QED
  BY <1>1, PaymentAssumption, CoverageAssumption
     DEF StreamCall, Reserves, Holders, Tokens,
         Payment!execute, Coverage!usdcStream, Coverage!aaveStream,
         Payment!CHAOS_RECIPIENT, Coverage!CHAOS_RECIPIENT

(* Whenever governance executes a payload, the reserve accepts its streams:*)
(* the payment by the choice of its constants, the coverage by its rounding*)
LEMMA PayloadsAreAccepted ==
  ASSUME NEW t \in Nat
  PROVE  /\ Accepts(Payment!execute(t), t)
         /\ Accepts(Coverage!usdcStream(t), t)
         /\ Accepts(Coverage!aaveStream(t), t)
<1>1. Accepts(Payment!execute(t), t)
  <2> DEFINE k == PaymentEnd - PaymentStart
  <2>1. k \in Nat \ {0} /\ PaymentAmount % k = 0 /\ PaymentAmount >= k
    <3>1. k \in Nat \ {0} /\ PaymentAmount \in Nat \ {0} /\ PaymentAmount % k = 0
      BY PaymentAssumption
    <3>2. PaymentAmount = (PaymentAmount \div k) * k /\ PaymentAmount \div k \in Nat
      BY <3>1, ExactQuotient
    <3>3. PaymentAmount \div k >= 1
      BY <3>1, <3>2
    <3> QED
      BY <3>1, <3>2, <3>3, TimesMonotone
  <2>2. (t + PaymentEnd) - (t + PaymentStart) = k
    BY PaymentAssumption
  <2> QED
    BY <2>1, <2>2, PaymentAssumption
       DEF Accepts, Payment!execute, Payment!CHAOS_RECIPIENT
<1>2. ASSUME NEW d \in Nat, d >= CoverageDuration
      PROVE  LET m == (d \div CoverageDuration) * CoverageDuration
             IN  /\ m \in Nat /\ m > 0 /\ m >= CoverageDuration
                 /\ m % ((t + CoverageDuration) - t) = 0
  <2>1. (t + CoverageDuration) - t = CoverageDuration
    BY CoverageAssumption
  <2> QED
    BY <1>2, <2>1, RoundedDown, CoverageAssumption
<1>3. Accepts(Coverage!usdcStream(t), t)
  BY <1>2, CoverageAssumption
     DEF Accepts, Coverage!usdcStream, Coverage!actualAmountUSDC, Coverage!CHAOS_RECIPIENT
<1>4. Accepts(Coverage!aaveStream(t), t)
  BY <1>2, CoverageAssumption
     DEF Accepts, Coverage!aaveStream, Coverage!actualAmountAave, Coverage!CHAOS_RECIPIENT
<1> QED
  BY <1>1, <1>3, <1>4
-----------------------------------------------------------------------------
(* One stream.                                                             *)

(* What a live stream owes: never negative, never more than remains of it, *)
(* and what it owes and what it paid are together what has vested.         *)
LEMMA DueFacts ==
  ASSUME TypeOK, NEW r \in Reserves, NEW id \in StreamIds,
         StreamInv(r, id), streams[r][id].isEntity
  PROVE  LET s == streams[r][id]
             due == recipientBalance(s, now)
         IN  /\ due \in Nat
             /\ due <= s.remainingBalance
             /\ received[r][id] + due = s.ratePerSecond * deltaOf(s, now)
             /\ s.remainingBalance = terms[r][id].deposit - received[r][id]
             /\ s.ratePerSecond * deltaOf(s, now)
                  = terms[r][id].ratePerSecond * deltaOf(terms[r][id], now)
             /\ s.recipient = terms[r][id].recipient
             /\ s.tokenAddress = terms[r][id].tokenAddress
<1> DEFINE s == streams[r][id]
           a == terms[r][id]
           vested == a.ratePerSecond * deltaOf(a, now)
<1>1. Created(r, id)
  BY DEF StreamInv, Fresh
<1>2. WellFormed(a) /\ received[r][id] <= vested
  BY <1>1 DEF StreamInv, Announced
<1>3. now \in Nat /\ received[r][id] \in Nat
  BY ReserveAssumption DEF TypeOK
<1>4. vested \in Nat /\ vested <= a.deposit /\ deltaOf(a, now) \in Nat
  BY <1>2, <1>3, VestingFacts, DeltaFacts
<1>5. a \in Stream /\ s = [a EXCEPT !.remainingBalance = a.deposit - received[r][id]]
  BY <1>2 DEF StreamInv, Live, WellFormed
<1>6. /\ s.remainingBalance = a.deposit - received[r][id]
      /\ s.deposit = a.deposit /\ s.ratePerSecond = a.ratePerSecond
      /\ s.recipient = a.recipient /\ s.tokenAddress = a.tokenAddress
      /\ deltaOf(s, now) = deltaOf(a, now)
  BY <1>5 DEF Stream, deltaOf
<1>7. a.ratePerSecond \in Nat /\ a.deposit \in Nat
  BY <1>5 DEF Stream
<1>8. recipientBalance(s, now) = vested - received[r][id]
  BY <1>3, <1>4, <1>6, <1>7 DEF recipientBalance
<1> QED
  BY <1>2, <1>3, <1>4, <1>6, <1>7, <1>8

(* A stream that a step leaves alone keeps its invariant as time passes.   *)
LEMMA Untouched ==
  ASSUME TypeOK, NEW r \in Reserves, NEW id \in StreamIds, StreamInv(r, id),
         streams'[r][id] = streams[r][id], terms'[r][id] = terms[r][id],
         received'[r][id] = received[r][id], origin'[r][id] = origin[r][id],
         Created(r, id)' <=> Created(r, id), now' \in Nat, now <= now'
  PROVE  StreamInv(r, id)'
<1>1. Fresh(r, id)' /\ Live(r, id)' /\ Traced(r, id)'
  BY DEF StreamInv, Fresh, Live, Traced
<1>2. ASSUME Created(r, id)
      PROVE  /\ WellFormed(terms[r][id])
             /\ received[r][id] <= terms[r][id].ratePerSecond * deltaOf(terms[r][id], now')
  <2>1. /\ WellFormed(terms[r][id])
        /\ received[r][id] <= terms[r][id].ratePerSecond * deltaOf(terms[r][id], now)
    BY <1>2 DEF StreamInv, Announced
  <2>2. now \in Nat /\ received[r][id] \in Nat
    BY ReserveAssumption DEF TypeOK
  <2>3. /\ terms[r][id].ratePerSecond * deltaOf(terms[r][id], now) \in Nat
        /\ terms[r][id].ratePerSecond * deltaOf(terms[r][id], now') \in Nat
        /\ terms[r][id].ratePerSecond * deltaOf(terms[r][id], now)
             <= terms[r][id].ratePerSecond * deltaOf(terms[r][id], now')
    BY <2>1, <2>2, VestingFacts
  <2> QED
    BY <2>1, <2>2, <2>3
<1>3. Announced(r, id)'
  BY <1>2 DEF Announced
<1> QED
  BY <1>1, <1>3 DEF StreamInv

(* A stream just created satisfies it.                                     *)
LEMMA JustCreated ==
  ASSUME NEW r \in Reserves, NEW id \in StreamIds, NEW a,
         WellFormed(a), now' \in Nat,
         streams'[r][id] = a, terms'[r][id] = a, received'[r][id] = 0, Created(r, id)', Traced(r, id)'
  PROVE  StreamInv(r, id)'
<1>1. a.ratePerSecond * deltaOf(a, now') \in Nat
  BY VestingFacts
<1>2. a \in Stream /\ a.deposit > 0 /\ a.remainingBalance = a.deposit
  BY DEF WellFormed
<1>3. a = [a EXCEPT !.remainingBalance = a.deposit - 0]
  BY <1>2 DEF Stream
<1>4. Fresh(r, id)'
  BY DEF Fresh
<1>5. Announced(r, id)'
  BY <1>1 DEF Announced
<1>6. Live(r, id)'
  BY <1>2, <1>3 DEF Live
<1> QED
  BY <1>4, <1>5, <1>6 DEF StreamInv

(* So does one that just paid part of what it owed, or paid and ended.     *)
LEMMA JustPaid ==
  ASSUME TypeOK, NEW r \in Reserves, NEW id \in StreamIds, StreamInv(r, id),
         streams[r][id].isEntity, NEW amount \in Nat,
         amount <= recipientBalance(streams[r][id], now),
         now' = now, terms'[r][id] = terms[r][id], origin'[r][id] = origin[r][id],
         Created(r, id)' <=> Created(r, id),
         received'[r][id] = received[r][id] + amount,
         \/ streams'[r][id] = EmptyStream
         \/ /\ amount < streams[r][id].remainingBalance
            /\ streams'[r][id] = [streams[r][id] EXCEPT
                 !.remainingBalance = streams[r][id].remainingBalance - amount]
  PROVE  StreamInv(r, id)'
<1> DEFINE s == streams[r][id]
           a == terms[r][id]
           due == recipientBalance(s, now)
           vested == a.ratePerSecond * deltaOf(a, now)
<1>1. /\ due \in Nat /\ due <= s.remainingBalance
      /\ received[r][id] + due = vested
      /\ s.remainingBalance = a.deposit - received[r][id]
  BY DueFacts
<1>2. Created(r, id) /\ WellFormed(a) /\ a \in Stream
  BY DEF StreamInv, Fresh, Announced, WellFormed
<1>3. received[r][id] \in Nat /\ a.deposit \in Nat /\ now \in Nat
  BY <1>2, ReserveAssumption DEF TypeOK, Stream
<1>4. vested \in Nat
  BY <1>2, <1>3, VestingFacts
<1>5. Fresh(r, id)' /\ Traced(r, id)'
  BY <1>2 DEF StreamInv, Fresh, Traced
<1>6. Announced(r, id)'
  BY <1>1, <1>2, <1>3, <1>4 DEF Announced
<1>7. Live(r, id)'
  <2>1. CASE streams'[r][id] = EmptyStream
    BY <2>1 DEF Live, EmptyStream
  <2>2. CASE /\ amount < s.remainingBalance
             /\ streams'[r][id] = [s EXCEPT !.remainingBalance = s.remainingBalance - amount]
    <3>1. s = [a EXCEPT !.remainingBalance = a.deposit - received[r][id]]
      BY DEF StreamInv, Live
    <3>2. s.remainingBalance - amount = a.deposit - received'[r][id]
      BY <1>1, <1>3
    <3>5. \A x, y : [[a EXCEPT !.remainingBalance = x] EXCEPT !.remainingBalance = y]
                     = [a EXCEPT !.remainingBalance = y]
      BY <1>2 DEF Stream
    <3>4. streams'[r][id] = [a EXCEPT !.remainingBalance = a.deposit - received'[r][id]]
      BY <2>2, <3>1, <3>2, <3>5
    <3>3. received'[r][id] < a.deposit
      BY <1>1, <1>3, <2>2
    <3> QED
      BY <3>3, <3>4 DEF Live
  <2> QED
    BY <2>1, <2>2
<1> QED
  BY <1>5, <1>6, <1>7 DEF StreamInv
-----------------------------------------------------------------------------
(* The transactions.                                                       *)

\* The types of what createStream reads and writes.
SlotsOK(st) ==
  /\ st.streams \in [Reserves -> [StreamIds -> Stream]]
  /\ st.nextStreamId \in [Reserves -> 1 .. MaxStreams + 1]
  /\ st.terms \in [Reserves -> [StreamIds -> Stream]]

(* One createStream writes one fresh slot of one reserve and nothing else. *)
LEMMA OneCreation ==
  ASSUME NEW st, SlotsOK(st), NEW c \in StreamCall, CanCreate(st, c), now \in Nat
  PROVE  LET next == createStream(st, c)
             fresh == st.nextStreamId[c.collector]
         IN  /\ SlotsOK(next)
             /\ WellFormed(NewStream(c))
             /\ fresh \in StreamIds
             /\ next.nextStreamId[c.collector] = fresh + 1
             /\ next.streams[c.collector][fresh] = NewStream(c)
             /\ next.terms[c.collector][fresh] = NewStream(c)
             /\ \A r \in Reserves : r # c.collector =>
                  /\ next.nextStreamId[r] = st.nextStreamId[r]
                  /\ next.streams[r] = st.streams[r]
                  /\ next.terms[r] = st.terms[r]
             /\ \A id \in StreamIds : id # fresh =>
                  /\ next.streams[c.collector][id] = st.streams[c.collector][id]
                  /\ next.terms[c.collector][id] = st.terms[c.collector][id]
<1> DEFINE fresh == st.nextStreamId[c.collector]
<1>1. WellFormed(NewStream(c)) /\ NewStream(c) \in Stream
  BY AcceptedIsWellFormed DEF CanCreate, WellFormed
<1>2. c.collector \in Reserves /\ fresh \in StreamIds
  BY DEF StreamCall, CanCreate
<1>3. fresh + 1 \in 1 .. MaxStreams + 1
  BY <1>2, ReserveAssumption DEF StreamIds
<1> QED
  BY <1>1, <1>2, <1>3 DEF createStream, SlotsOK

(* The two ways a transaction can leave reserve r.                         *)
ReserveUntouched(r) ==
  /\ nextStreamId'[r] = nextStreamId[r]
  /\ streams'[r] = streams[r] /\ terms'[r] = terms[r] /\ origin'[r] = origin[r]

OneStreamAdded(r) ==
  /\ nextStreamId[r] \in StreamIds
  /\ nextStreamId'[r] = nextStreamId[r] + 1
  /\ \A id \in StreamIds :
       IF id = nextStreamId[r]
       THEN /\ WellFormed(streams'[r][id])
            /\ now <= streams'[r][id].startTime
            /\ terms'[r][id] = streams'[r][id]
            /\ Traced(r, id)'
       ELSE /\ streams'[r][id] = streams[r][id]
            /\ terms'[r][id] = terms[r][id]
            /\ origin'[r][id] = origin[r][id]

(* A transaction that adds one stream to a reserve, or to both.            *)
AddsStreams ==
  /\ SlotsOK([streams |-> streams', nextStreamId |-> nextStreamId', terms |-> terms'])
  /\ UNCHANGED <<now, balances, received>>
  /\ origin' \in [Reserves -> [StreamIds -> [by: Origins, at: Nat]]]
  /\ \A r \in Reserves : ReserveUntouched(r) \/ OneStreamAdded(r)
  /\ \E r \in Reserves : OneStreamAdded(r)

(* It preserves the invariant.                                             *)
LEMMA CreationStep ==
  ASSUME IInv, AddsStreams
  PROVE  IInv'
<1> USE DEF AddsStreams
<1>1. TypeOK'
  BY DEF IInv, TypeOK, SlotsOK
<1>2. ASSUME NEW r \in Reserves, NEW id \in StreamIds
      PROVE  StreamInv(r, id)'
  <2>1. TypeOK /\ StreamInv(r, id) /\ now \in Nat /\ now' = now
    BY ReserveAssumption DEF IInv, TypeOK
  <2>2. nextStreamId[r] \in Nat /\ id \in Nat
    BY <2>1, ReserveAssumption DEF TypeOK, StreamIds
  <2>3. CASE ReserveUntouched(r)
    BY <2>1, <2>3, Untouched DEF Created, ReserveUntouched
  <2>4. CASE OneStreamAdded(r) /\ id # nextStreamId[r]
    <3>1. nextStreamId'[r] = nextStreamId[r] + 1
      BY <2>4 DEF OneStreamAdded
    <3>2. Created(r, id)' <=> Created(r, id)
      BY ONLY <2>2, <2>4, <3>1 DEF Created
    <3>3. /\ streams'[r][id] = streams[r][id] /\ terms'[r][id] = terms[r][id]
          /\ origin'[r][id] = origin[r][id] /\ received'[r][id] = received[r][id]
      BY <2>4 DEF OneStreamAdded
    <3> QED
      BY <2>1, <3>2, <3>3, Untouched
  <2>5. CASE OneStreamAdded(r) /\ id = nextStreamId[r]
    <3>1. nextStreamId'[r] = nextStreamId[r] + 1
      BY <2>5 DEF OneStreamAdded
    <3>2. ~Created(r, id) /\ Created(r, id)'
      BY ONLY <2>2, <2>5, <3>1 DEF Created
    <3>3. received'[r][id] = 0
      BY <2>1, <3>2 DEF StreamInv, Fresh
    <3>4. /\ WellFormed(streams'[r][id]) /\ terms'[r][id] = streams'[r][id]
          /\ Traced(r, id)'
      BY <2>5 DEF OneStreamAdded
    <3> QED
      BY <2>1, <3>2, <3>3, <3>4, JustCreated
  <2> QED
    BY <2>3, <2>4, <2>5
<1> QED
  BY <1>1, <1>2 DEF IInv

(* A transaction of one createStream.                                      *)
LEMMA SingleCreation ==
  ASSUME IInv, NEW c \in StreamCall, NEW who \in Origins \ {"coverage"},
         CanCreate(Slots, c), Store(createStream(Slots, c)),
         origin' = Marked(origin, Slots, c, who),
         who = "payment" => c = Payment!execute(now)
  PROVE  AddsStreams
<1> DEFINE k == c.collector
           n == nextStreamId[k]
<1>1. now \in Nat /\ SlotsOK(Slots) /\ TypeOK /\ k \in Reserves
  BY ReserveAssumption DEF IInv, TypeOK, Slots, SlotsOK, StreamCall
<1>2. /\ streams' = createStream(Slots, c).streams
      /\ nextStreamId' = createStream(Slots, c).nextStreamId
      /\ terms' = createStream(Slots, c).terms
      /\ UNCHANGED <<now, balances, received>>
      /\ origin' = [origin EXCEPT ![k][n] = [by |-> who, at |-> now]]
  BY DEF Store, Marked, Slots
<1>3. /\ SlotsOK([streams |-> streams', nextStreamId |-> nextStreamId', terms |-> terms'])
      /\ WellFormed(NewStream(c)) /\ now <= NewStream(c).startTime
      /\ n \in StreamIds /\ nextStreamId'[k] = n + 1
      /\ streams'[k][n] = NewStream(c) /\ terms'[k][n] = NewStream(c)
      /\ \A r \in Reserves : r # k =>
           /\ nextStreamId'[r] = nextStreamId[r]
           /\ streams'[r] = streams[r] /\ terms'[r] = terms[r]
      /\ \A id \in StreamIds : id # n =>
           streams'[k][id] = streams[k][id] /\ terms'[k][id] = terms[k][id]
  <2>1. now <= NewStream(c).startTime
    BY <1>1 DEF CanCreate, Accepts, NewStream, StreamCall
  <2> QED
    BY <1>1, <1>2, <2>1, OneCreation DEF Slots, SlotsOK
<1>4. /\ origin' \in [Reserves -> [StreamIds -> [by: Origins, at: Nat]]]
      /\ origin'[k][n] = [by |-> who, at |-> now]
      /\ \A r \in Reserves : r # k => origin'[r] = origin[r]
      /\ \A id \in StreamIds : id # n => origin'[k][id] = origin[k][id]
  BY <1>1, <1>2, <1>3 DEF TypeOK
<1>5. OneStreamAdded(k)
  <2>1. ASSUME NEW id \in StreamIds, id = n PROVE Traced(k, id)'
    BY <1>3, <1>4, <2>1 DEF Traced, Payment!execute
  <2> QED
    BY <1>3, <1>4, <2>1 DEF OneStreamAdded
<1>6. \A r \in Reserves : r # k => ReserveUntouched(r)
  BY <1>3, <1>4 DEF ReserveUntouched
<1> QED
  BY <1>1, <1>2, <1>3, <1>4, <1>5, <1>6 DEF AddsStreams

(* execute() of the payment payload, and of any other proposal.            *)
LEMMA PaymentStep == IInv /\ ExecutePayment => AddsStreams
<1>1. ASSUME IInv PROVE Payment!execute(now) \in StreamCall
  BY <1>1, PayloadCalls, ReserveAssumption DEF IInv, TypeOK
<1> QED
  BY <1>1, SingleCreation DEF ExecutePayment, Origins

LEMMA OtherStep == IInv /\ ExecuteOther => AddsStreams
<1> SUFFICES ASSUME IInv, NEW c \in OtherStreams,
                    CanCreate(Slots, c), Store(createStream(Slots, c)),
                    origin' = Marked(origin, Slots, c, "other")
             PROVE  AddsStreams
  BY DEF ExecuteOther
<1>1. c \in StreamCall
  BY OtherStreamsAssumption
<1> QED
  BY <1>1, SingleCreation DEF Origins

(* execute() of the coverage payload: both calls, one after the other.     *)
LEMMA CoverageStep == IInv /\ ExecuteCoverage => AddsStreams
<1> SUFFICES ASSUME IInv, ExecuteCoverage PROVE AddsStreams
  OBVIOUS
<1> DEFINE C == "COLLECTOR"
           E == "ECOSYSTEM_RESERVE"
           c1 == Coverage!usdcStream(now)
           c2 == Coverage!aaveStream(now)
           between == createStream(Slots, c1)
           after == createStream(between, c2)
           m == nextStreamId[C]
           n == nextStreamId[E]
           mark == [by |-> "coverage", at |-> now]
<1>1. now \in Nat /\ SlotsOK(Slots) /\ TypeOK
  BY ReserveAssumption DEF IInv, TypeOK, Slots, SlotsOK
<1>2. /\ c1 \in StreamCall /\ c1.collector = C
      /\ c2 \in StreamCall /\ c2.collector = E
  BY <1>1, PayloadCalls DEF Coverage!usdcStream, Coverage!aaveStream
<1>3. CanCreate(Slots, c1) /\ CanCreate(between, c2) /\ Store(after)
      /\ origin' = Marked(Marked(origin, Slots, c1, "coverage"), between, c2, "coverage")
  BY DEF ExecuteCoverage
<1>4. /\ SlotsOK(between) /\ WellFormed(NewStream(c1)) /\ m \in StreamIds
      /\ between.nextStreamId[C] = m + 1 /\ between.nextStreamId[E] = n
      /\ between.streams[C][m] = NewStream(c1) /\ between.terms[C][m] = NewStream(c1)
      /\ between.streams[E] = streams[E] /\ between.terms[E] = terms[E]
      /\ \A id \in StreamIds : id # m =>
           between.streams[C][id] = streams[C][id] /\ between.terms[C][id] = terms[C][id]
  BY <1>1, <1>2, <1>3, OneCreation DEF Slots, Reserves
<1>5. /\ SlotsOK(after) /\ WellFormed(NewStream(c2)) /\ n \in StreamIds
      /\ after.nextStreamId[E] = n + 1 /\ after.nextStreamId[C] = m + 1
      /\ after.streams[E][n] = NewStream(c2) /\ after.terms[E][n] = NewStream(c2)
      /\ after.streams[C] = between.streams[C] /\ after.terms[C] = between.terms[C]
      /\ \A id \in StreamIds : id # n =>
           after.streams[E][id] = streams[E][id] /\ after.terms[E][id] = terms[E][id]
  BY <1>1, <1>2, <1>3, <1>4, OneCreation DEF Reserves
<1>6. /\ streams' = after.streams /\ nextStreamId' = after.nextStreamId
      /\ terms' = after.terms /\ UNCHANGED <<now, balances, received>>
  BY <1>3 DEF Store
<1>7. origin' = [[origin EXCEPT ![C][m] = mark] EXCEPT ![E][n] = mark]
  BY <1>2, <1>3, <1>4 DEF Marked, Slots
<1>8. /\ origin' \in [Reserves -> [StreamIds -> [by: Origins, at: Nat]]]
      /\ origin'[C][m] = mark /\ origin'[E][n] = mark
      /\ \A id \in StreamIds : id # m => origin'[C][id] = origin[C][id]
      /\ \A id \in StreamIds : id # n => origin'[E][id] = origin[E][id]
  BY <1>1, <1>4, <1>5, <1>7 DEF TypeOK, Origins, Reserves
<1>9. now <= NewStream(c1).startTime /\ now <= NewStream(c2).startTime
  BY <1>1, <1>2, <1>3 DEF CanCreate, Accepts, NewStream, StreamCall
<1>10. OneStreamAdded(C)
  <2>1. ASSUME NEW id \in StreamIds, id = m PROVE Traced(C, id)'
    BY <1>4, <1>5, <1>6, <1>8, <2>1 DEF Traced
  <2> QED
    BY <1>4, <1>5, <1>6, <1>8, <1>9, <2>1 DEF OneStreamAdded
<1>11. OneStreamAdded(E)
  <2>1. ASSUME NEW id \in StreamIds, id = n PROVE Traced(E, id)'
    BY <1>4, <1>5, <1>6, <1>8, <2>1 DEF Traced
  <2> QED
    BY <1>4, <1>5, <1>6, <1>8, <1>9, <2>1 DEF OneStreamAdded
<1>12. SlotsOK([streams |-> streams', nextStreamId |-> nextStreamId', terms |-> terms'])
  BY <1>5, <1>6 DEF SlotsOK
<1> QED
  BY <1>6, <1>8, <1>10, <1>11, <1>12 DEF Reserves, AddsStreams
-----------------------------------------------------------------------------
(* The reserves' own steps.                                                *)

(* A transfer of what is held leaves natural balances.                     *)
LEMMA TransferTyped ==
  ASSUME balances \in [Tokens -> [Holders -> Nat]],
         NEW token \in Tokens, NEW from \in Holders, NEW to \in Holders,
         NEW amount \in Nat, CanTransfer(token, from, amount),
         transfer(token, from, to, amount)
  PROVE  balances' \in [Tokens -> [Holders -> Nat]]
BY DEF CanTransfer, transfer

(* A payment of at most what the stream owes, after which the stream lives *)
(* on with less or is deleted, preserves the invariant.                    *)
LEMMA PaymentOfStream ==
  ASSUME IInv, NEW r \in Reserves, NEW id \in StreamIds, streams[r][id].isEntity,
         NEW amount \in Nat, amount <= recipientBalance(streams[r][id], now),
         CanTransfer(streams[r][id].tokenAddress, r, amount),
         transfer(streams[r][id].tokenAddress, r, streams[r][id].recipient, amount),
         NEW after,
         streams' = [streams EXCEPT ![r][id] = after],
         \/ after = EmptyStream
         \/ /\ amount < streams[r][id].remainingBalance
            /\ after = [streams[r][id] EXCEPT
                 !.remainingBalance = streams[r][id].remainingBalance - amount],
         received' = [received EXCEPT ![r][id] = @ + amount],
         UNCHANGED <<now, nextStreamId, terms, origin>>
  PROVE  IInv'
<1>1. TypeOK /\ StreamInv(r, id) /\ now \in Nat
  BY ReserveAssumption DEF IInv, TypeOK
<1>2. streams[r][id] \in Stream
  BY <1>1 DEF TypeOK
<1>3. after \in Stream
  <2>1. EmptyStream \in Stream
    BY DEF EmptyStream, Stream, Holders, Tokens
  <2>2. \A x \in Nat : [streams[r][id] EXCEPT !.remainingBalance = x] \in Stream
    BY <1>2 DEF Stream
  <2>3. ASSUME amount < streams[r][id].remainingBalance
        PROVE  streams[r][id].remainingBalance - amount \in Nat
    <3>1. streams[r][id].remainingBalance \in Nat
      BY <1>2 DEF Stream
    <3> QED
      BY <2>3, <3>1
  <2> QED
    BY <2>1, <2>2, <2>3
<1>4. streams' \in [Reserves -> [StreamIds -> Stream]]
  BY <1>1, <1>3 DEF TypeOK
<1>5. received' \in [Reserves -> [StreamIds -> Nat]]
  BY <1>1 DEF TypeOK
<1>6. balances' \in [Tokens -> [Holders -> Nat]]
  BY <1>1, <1>2, TransferTyped DEF TypeOK, Stream, Holders
<1>7. TypeOK'
  BY <1>1, <1>4, <1>5, <1>6 DEF TypeOK
<1>8. /\ streams'[r][id] = after
      /\ received'[r][id] = received[r][id] + amount
      /\ terms'[r][id] = terms[r][id] /\ origin'[r][id] = origin[r][id]
      /\ now' = now
      /\ Created(r, id)' <=> Created(r, id)
  BY <1>1 DEF TypeOK, Created
<1>9. StreamInv(r, id)'
  BY <1>1, <1>8, JustPaid
<1>10. ASSUME NEW q \in Reserves, NEW i \in StreamIds, q # r \/ i # id
       PROVE  StreamInv(q, i)'
  <2>1. /\ streams'[q][i] = streams[q][i] /\ received'[q][i] = received[q][i]
        /\ terms'[q][i] = terms[q][i] /\ origin'[q][i] = origin[q][i]
        /\ Created(q, i)' <=> Created(q, i)
        /\ now' \in Nat /\ now <= now'
    BY <1>1, <1>10 DEF TypeOK, Created
  <2>2. StreamInv(q, i)
    BY DEF IInv
  <2> QED
    BY <1>1, <2>1, <2>2, Untouched
<1> QED
  BY <1>7, <1>9, <1>10 DEF IInv

LEMMA WithdrawStep ==
  ASSUME IInv, NEW r \in Reserves, NEW id \in StreamIds, NEW amount \in Nat,
         WithdrawFromStream(r, id, amount), UNCHANGED origin
  PROVE  IInv'
<1> DEFINE s == streams[r][id]
           left == s.remainingBalance - amount
           after == IF left = 0 THEN EmptyStream ELSE [s EXCEPT !.remainingBalance = left]
<1>1. /\ s.isEntity /\ amount <= recipientBalance(s, now)
      /\ CanTransfer(s.tokenAddress, r, amount)
      /\ streams' = [streams EXCEPT ![r][id] = after]
      /\ transfer(s.tokenAddress, r, s.recipient, amount)
      /\ received' = [received EXCEPT ![r][id] = @ + amount]
      /\ UNCHANGED <<now, nextStreamId, terms, origin>>
  BY DEF WithdrawFromStream
<1>2. TypeOK /\ StreamInv(r, id)
  BY DEF IInv
<1>3. /\ recipientBalance(s, now) \in Nat
      /\ recipientBalance(s, now) <= s.remainingBalance
      /\ s.remainingBalance \in Nat
  BY <1>1, <1>2, DueFacts DEF TypeOK, Stream
<1>4. left = 0 \/ amount < s.remainingBalance
  BY <1>1, <1>3
<1>5. \/ after = EmptyStream
      \/ /\ amount < s.remainingBalance
         /\ after = [s EXCEPT !.remainingBalance = s.remainingBalance - amount]
  BY <1>4
<1> QED
  BY <1>1, <1>5, PaymentOfStream

LEMMA CancelStep ==
  ASSUME IInv, NEW r \in Reserves, NEW id \in StreamIds,
         CancelStream(r, id), UNCHANGED origin
  PROVE  IInv'
<1>1. TypeOK /\ StreamInv(r, id) /\ streams[r][id].isEntity
  BY DEF IInv, CancelStream
<1>2. recipientBalance(streams[r][id], now) \in Nat
  BY <1>1, DueFacts
<1> DEFINE s == streams[r][id]
           due == recipientBalance(s, now)
<1>3. /\ CanTransfer(s.tokenAddress, r, due)
      /\ streams' = [streams EXCEPT ![r][id] = EmptyStream]
      /\ transfer(s.tokenAddress, r, s.recipient, due)
      /\ received' = [received EXCEPT ![r][id] = @ + due]
      /\ UNCHANGED <<now, nextStreamId, terms, origin>>
  BY DEF CancelStream
<1>4. due <= recipientBalance(streams[r][id], now)
  BY <1>2
<1> HIDE DEF due
<1> QED
  BY <1>1, <1>2, <1>3, <1>4, PaymentOfStream DEF due

LEMMA TransferOutStep ==
  ASSUME IInv, NEW r \in Reserves, NEW token \in Tokens, NEW amount \in Outflows,
         TransferOut(r, token, amount), UNCHANGED origin
  PROVE  IInv'
<1>1. balances' \in [Tokens -> [Holders -> Nat]]
  BY TransferTyped, ReserveAssumption DEF IInv, TypeOK, TransferOut, Holders
<1>2. TypeOK' /\ TypeOK
  BY <1>1 DEF IInv, TypeOK, TransferOut
<1>3. ASSUME NEW q \in Reserves, NEW i \in StreamIds PROVE StreamInv(q, i)'
  BY <1>2, Untouched, ReserveAssumption DEF IInv, TypeOK, TransferOut, Created
<1> QED
  BY <1>2, <1>3 DEF IInv

LEMMA TickStep == IInv /\ PassTime => IInv'
<1> SUFFICES ASSUME IInv, PassTime PROVE IInv'
  OBVIOUS
<1>1. TypeOK /\ TypeOK'
  BY ReserveAssumption DEF IInv, TypeOK, PassTime, Tick
<1>2. now' \in Nat /\ now <= now'
  BY <1>1, ReserveAssumption DEF TypeOK, PassTime, Tick
<1>3. ASSUME NEW q \in Reserves, NEW i \in StreamIds PROVE StreamInv(q, i)'
  BY <1>1, <1>2, Untouched DEF IInv, PassTime, Tick, Created
<1> QED
  BY <1>1, <1>3 DEF IInv
-----------------------------------------------------------------------------
(* The theorems.                                                           *)

LEMMA InitIInv == Init => IInv
<1> SUFFICES ASSUME Init PROVE IInv
  OBVIOUS
<1>1. EmptyStream \in Stream
  BY DEF EmptyStream, Stream, Holders, Tokens
<1>2. TypeOK
  BY <1>1, ReserveAssumption DEF Init, ReserveInit, TypeOK, Origins, Reserves, Tokens, Holders
<1>3. ASSUME NEW r \in Reserves, NEW id \in StreamIds PROVE StreamInv(r, id)
  <2>1. /\ ~Created(r, id) /\ ~streams[r][id].isEntity
        /\ received[r][id] = 0 /\ origin[r][id].by = "none"
    BY ReserveAssumption DEF Init, ReserveInit, Created, EmptyStream, StreamIds
  <2> QED
    BY <2>1 DEF StreamInv, Fresh, Announced, Live, Traced
<1> QED
  BY <1>2, <1>3 DEF IInv

LEMMA NextIInv == IInv /\ [Next]_vars => IInv'
<1> SUFFICES ASSUME IInv, [Next]_vars PROVE IInv'
  OBVIOUS
<1>1. CASE ExecutePayment
  BY <1>1, PaymentStep, CreationStep
<1>2. CASE ExecuteCoverage
  BY <1>2, CoverageStep, CreationStep
<1>3. CASE ExecuteOther
  BY <1>3, OtherStep, CreationStep
<1>4. CASE Environment
  <2>1. CASE \E r \in Reserves, id \in StreamIds, amount \in Nat :
               WithdrawFromStream(r, id, amount)
    BY <1>4, <2>1, WithdrawStep DEF Environment
  <2>2. CASE \E r \in Reserves, id \in StreamIds : CancelStream(r, id)
    BY <1>4, <2>2, CancelStep DEF Environment
  <2>3. CASE \E r \in Reserves, token \in Tokens, amount \in Outflows :
               TransferOut(r, token, amount)
    BY <1>4, <2>3, TransferOutStep DEF Environment
  <2>4. CASE Tick
    BY <1>4, <2>4, TickStep DEF Environment, PassTime
  <2>5. \A r \in Reserves, id \in StreamIds : 1 .. terms[r][id].deposit \subseteq Nat
    OBVIOUS
  <2> QED
    BY <1>4, <2>1, <2>2, <2>3, <2>4, <2>5 DEF Environment, ReserveStep
<1>5. CASE UNCHANGED vars
  BY <1>5 DEF vars, reserveVars, IInv, TypeOK, StreamInv, Fresh, Announced, Live,
              Traced, Created
<1> QED
  BY <1>1, <1>2, <1>3, <1>4, <1>5 DEF Next

(* Every reachable state satisfies the inductive invariant.                *)
THEOREM Invariance == Spec => []IInv
BY InitIInv, NextIInv, PTL DEF Spec

(* Types: in particular no balance, remaining balance or payment is ever   *)
(* negative, whatever the order of withdrawals, cancellations and spending.*)
THEOREM TypeCorrect == Spec => []TypeOK
<1>1. IInv => TypeOK
  BY DEF IInv
<1> QED
  BY <1>1, Invariance, PTL

(* balanceOf never underflows and never exceeds what remains, and what was *)
(* withdrawn and what is still owed are together what has vested.          *)
THEOREM NothingOwedTwice == Spec => []AccruedOnce
<1>1. IInv => AccruedOnce
  BY DueFacts DEF IInv, AccruedOnce
<1> QED
  BY <1>1, Invariance, PTL

(* The reserve accepts the streams of both payloads whenever they execute. *)
THEOREM AlwaysAccepted == Spec => []PayloadsAccepted
<1>1. IInv => PayloadsAccepted
  BY PayloadsAreAccepted, ReserveAssumption DEF IInv, TypeOK, PayloadsAccepted
<1> QED
  BY <1>1, Invariance, PTL

(* The payment pays nothing for STREAMS_START and owes or has paid all of  *)
(* AUSDC_STREAM_AMOUNT from STREAMS_END on.                                *)
THEOREM PaymentOnTime == Spec => []PaymentSchedule
<1>1. ASSUME IInv, NEW id \in StreamIds, origin["COLLECTOR"][id].by = "payment"
      PROVE  LET s == streams["COLLECTOR"][id]
                 paid == received["COLLECTOR"][id]
                 t == origin["COLLECTOR"][id].at
             IN  /\ now <= t + PaymentStart => paid = 0
                 /\ now >= t + PaymentEnd /\ s.isEntity =>
                      paid + recipientBalance(s, now) = PaymentAmount
  <2> DEFINE C == "COLLECTOR"
             a == terms[C][id]
             t == origin[C][id].at
             vested == a.ratePerSecond * deltaOf(a, now)
  <2>1. C \in Reserves /\ TypeOK /\ StreamInv(C, id) /\ now \in Nat
    BY <1>1, ReserveAssumption DEF IInv, TypeOK, Reserves
  <2>2. Created(C, id)
    BY <1>1, <2>1 DEF StreamInv, Fresh
  <2>3. WellFormed(a) /\ received[C][id] <= vested /\ received[C][id] \in Nat
    BY <2>1, <2>2 DEF StreamInv, Announced, TypeOK
  <2>4. /\ a.deposit = PaymentAmount
        /\ a.startTime = t + PaymentStart /\ a.stopTime = t + PaymentEnd
    BY <1>1, <2>1 DEF StreamInv, Traced, NewStream, Payment!execute
  <2>5. /\ vested \in Nat
        /\ now <= a.startTime => vested = 0
        /\ now >= a.stopTime => vested = PaymentAmount
    BY <2>1, <2>3, <2>4, VestingFacts
  <2>6. streams[C][id].isEntity =>
          received[C][id] + recipientBalance(streams[C][id], now) = vested
    BY <2>1, DueFacts
  <2> QED
    BY <2>3, <2>4, <2>5, <2>6
<1>2. IInv => PaymentSchedule
  BY <1>1 DEF PaymentSchedule
<1> QED
  BY <1>2, Invariance, PTL

(* A coverage stream promises the approved token and amount, short of it   *)
(* by less than one unit per second.                                       *)
THEOREM CoverageApproved == Spec => []WithinApproval
<1>1. ASSUME IInv, NEW r \in Reserves, NEW id \in StreamIds,
             origin[r][id].by = "coverage"
      PROVE  LET approved == IF r = "COLLECTOR" THEN CoverageAusdc ELSE CoverageAave
             IN  /\ terms[r][id].deposit <= approved
                 /\ approved - terms[r][id].deposit < CoverageDuration
                 /\ terms[r][id].tokenAddress = HomeToken(r)
  <2> DEFINE t == origin[r][id].at
  <2>1. terms[r][id] = NewStream(IF r = "COLLECTOR" THEN Coverage!usdcStream(t)
                                 ELSE Coverage!aaveStream(t))
    BY <1>1 DEF IInv, StreamInv, Traced
  <2>2. ASSUME NEW d \in Nat
        PROVE  LET m == (d \div CoverageDuration) * CoverageDuration
               IN  m <= d /\ d - m < CoverageDuration
    BY RoundedDown, CoverageAssumption
  <2>3. CASE r = "COLLECTOR"
    BY <2>1, <2>2, <2>3, CoverageAssumption
       DEF NewStream, HomeToken, Coverage!usdcStream, Coverage!actualAmountUSDC
  <2>4. CASE r # "COLLECTOR"
    BY <2>1, <2>2, <2>4, CoverageAssumption
       DEF NewStream, HomeToken, Coverage!aaveStream, Coverage!actualAmountAave
  <2> QED
    BY <2>3, <2>4
<1>2. IInv => WithinApproval
  BY <1>1 DEF WithinApproval
<1> QED
  BY <1>2, Invariance, PTL
-----------------------------------------------------------------------------
(* The streams implement Vesting: every initial state of StreamPayments    *)
(* maps to one of Vesting, and every step to a step or a stutter.  Grant   *)
(* <<r, id>> stands for stream id of reserve r; it is made when the id is  *)
(* handed out and open while the stream exists.                            *)

AllGrants == Reserves \X StreamIds

(* What Vesting calls vested is the rate times the clock of the stream:    *)
(* rounding the rate down loses nothing, for the deposit is a multiple.    *)
LEMMA VestedByRate ==
  ASSUME NEW s, WellFormed(s), NEW t \in Nat
  PROVE  s.ratePerSecond * deltaOf(s, t) =
           IF t <= s.startTime THEN 0
           ELSE IF t >= s.stopTime THEN s.deposit
           ELSE (s.deposit * (t - s.startTime)) \div (s.stopTime - s.startTime)
<1>1. /\ s.ratePerSecond \in Nat /\ s.startTime \in Nat /\ s.stopTime \in Nat
      /\ s.stopTime - s.startTime \in Nat \ {0}
      /\ s.deposit = s.ratePerSecond * (s.stopTime - s.startTime)
  BY DEF WellFormed, Stream
<1>2. CASE t <= s.startTime \/ t >= s.stopTime
  BY <1>1, <1>2, VestingFacts
<1>3. CASE ~(t <= s.startTime \/ t >= s.stopTime)
  <2>1. t - s.startTime \in Nat /\ deltaOf(s, t) = t - s.startTime
    BY <1>1, <1>3 DEF deltaOf
  <2> QED
    BY <1>1, <1>3, <2>1, QuotientOfMultiple
<1> QED
  BY <1>2, <1>3

LEMMA VestedOfStream ==
  ASSUME IInv, NEW r \in Reserves, NEW id \in StreamIds, Created(r, id)
  PROVE  StreamVesting!Vested(<<r, id>>) =
           terms[r][id].ratePerSecond * deltaOf(terms[r][id], now)
<1>1. WellFormed(terms[r][id]) /\ now \in Nat
  BY ReserveAssumption DEF IInv, StreamInv, Announced, TypeOK
<1>2. <<r, id>> \in AllGrants
  BY DEF AllGrants
<1> QED
  BY <1>1, <1>2, VestedByRate DEF StreamVesting!Vested, AllGrants

(* A transaction that creates streams makes grants.                        *)
LEMMA CreationMakesGrants ==
  ASSUME IInv, AddsStreams
  PROVE  \E new \in SUBSET AllGrants : StreamVesting!MakeGrants(new)
<1> PICK new \in SUBSET AllGrants :
      \A g \in AllGrants :
        g \in new <=> OneStreamAdded(g[1]) /\ g[2] = nextStreamId[g[1]]
  <2>1. {g \in AllGrants : OneStreamAdded(g[1]) /\ g[2] = nextStreamId[g[1]]}
          \in SUBSET AllGrants
    OBVIOUS
  <2> QED
    BY <2>1
<1> DEFINE grantsMade == {g \in AllGrants : Created(g[1], g[2])}
           grantsOpen == {g \in AllGrants : streams[g[1]][g[2]].isEntity}
<1>1. /\ \A r \in Reserves : nextStreamId[r] \in Nat
      /\ \A id \in StreamIds : id \in Nat
      /\ now \in Nat
      /\ UNCHANGED <<now, received>>
  BY ReserveAssumption DEF IInv, TypeOK, StreamIds, AddsStreams
<1>2. ASSUME NEW r \in Reserves, NEW id \in StreamIds, <<r, id>> \in new
      PROVE  /\ ~Created(r, id) /\ ~streams[r][id].isEntity
             /\ Created(r, id)' /\ streams'[r][id].isEntity
             /\ terms'[r][id].deposit > 0
             /\ now <= terms'[r][id].startTime
             /\ terms'[r][id].startTime < terms'[r][id].stopTime
  <2>1. OneStreamAdded(r) /\ id = nextStreamId[r]
    BY <1>2
  <2>2. /\ nextStreamId'[r] = nextStreamId[r] + 1
        /\ WellFormed(streams'[r][id]) /\ terms'[r][id] = streams'[r][id]
        /\ now <= streams'[r][id].startTime
    BY <2>1 DEF OneStreamAdded
  <2>3. ~Created(r, id) /\ Created(r, id)'
    BY ONLY <1>1, <2>1, <2>2 DEF Created
  <2> QED
    BY <2>2, <2>3 DEF WellFormed, IInv, StreamInv, Fresh
<1>3. ASSUME NEW r \in Reserves, NEW id \in StreamIds, <<r, id>> \notin new
      PROVE  /\ Created(r, id)' <=> Created(r, id)
             /\ streams'[r][id] = streams[r][id]
             /\ terms'[r][id] = terms[r][id]
  <2>1. CASE ReserveUntouched(r)
    BY <2>1 DEF ReserveUntouched, Created
  <2>2. CASE OneStreamAdded(r)
    <3>1. id # nextStreamId[r]
      BY <1>3, <2>2 DEF AllGrants
    <3>2. /\ nextStreamId'[r] = nextStreamId[r] + 1
          /\ streams'[r][id] = streams[r][id] /\ terms'[r][id] = terms[r][id]
      BY <2>2, <3>1 DEF OneStreamAdded
    <3>3. Created(r, id)' <=> Created(r, id)
      BY ONLY <1>1, <3>1, <3>2 DEF Created
    <3> QED
      BY <3>2, <3>3
  <2> QED
    BY <2>1, <2>2 DEF AddsStreams
<1>4. new # {}
  <2>1. PICK r \in Reserves : OneStreamAdded(r)
    BY DEF AddsStreams
  <2>2. <<r, nextStreamId[r]>> \in new
    BY <2>1 DEF OneStreamAdded, AllGrants
  <2> QED
    BY <2>2
<1>5. new \subseteq AllGrants /\ new \cap grantsMade = {}
  BY <1>2 DEF AllGrants
<1>6. grantsMade' = grantsMade \cup new
  BY <1>2, <1>3 DEF AllGrants
<1>7. grantsOpen' = grantsOpen \cup new
  BY <1>2, <1>3 DEF AllGrants
<1>8. \A g \in new : /\ terms'[g[1]][g[2]].deposit > 0
                     /\ now <= terms'[g[1]][g[2]].startTime
                     /\ terms'[g[1]][g[2]].startTime < terms'[g[1]][g[2]].stopTime
  BY <1>2 DEF AllGrants
<1>9. \A g \in AllGrants \ new : terms'[g[1]][g[2]] = terms[g[1]][g[2]]
  BY <1>3 DEF AllGrants
<1>10. StreamVesting!MakeGrants(new)
  BY <1>1, <1>4, <1>5, <1>6, <1>7, <1>8, <1>9
     DEF StreamVesting!MakeGrants, AllGrants
<1> QED
  BY <1>10

(* A withdrawal is a payment of the grant, or settles it.                  *)
LEMMA WithdrawPays ==
  ASSUME IInv, NEW r \in Reserves, NEW id \in StreamIds, NEW amount \in Nat,
         WithdrawFromStream(r, id, amount)
  PROVE  StreamVesting!Pay(<<r, id>>) \/ StreamVesting!Settle(<<r, id>>)
<1> DEFINE g == <<r, id>>
           s == streams[r][id]
           due == recipientBalance(s, now)
           vested == terms[r][id].ratePerSecond * deltaOf(terms[r][id], now)
           left == s.remainingBalance - amount
<1>1. /\ s.isEntity /\ amount > 0 /\ amount <= due
      /\ streams' = [streams EXCEPT ![r][id] =
           IF left = 0 THEN EmptyStream ELSE [s EXCEPT !.remainingBalance = left]]
      /\ received' = [received EXCEPT ![r][id] = @ + amount]
      /\ UNCHANGED <<now, nextStreamId, terms>>
  BY DEF WithdrawFromStream
<1>2. TypeOK /\ StreamInv(r, id) /\ g \in AllGrants
  BY DEF IInv, AllGrants
<1>3. Created(r, id) /\ WellFormed(terms[r][id])
  BY <1>1, <1>2 DEF StreamInv, Fresh, Announced
<1>4. StreamVesting!Vested(g) = vested
  BY <1>3, VestedOfStream
<1>5. /\ due \in Nat /\ due <= s.remainingBalance
      /\ received[r][id] + due = vested
      /\ s.remainingBalance = terms[r][id].deposit - received[r][id]
  BY <1>1, <1>2, DueFacts
<1>6. received[r][id] \in Nat /\ terms[r][id].deposit \in Nat /\ s \in Stream
  BY <1>2 DEF TypeOK, Stream
<1>7. /\ received'[r][id] = received[r][id] + amount
      /\ \A h \in AllGrants \ {g} :
           /\ received'[h[1]][h[2]] = received[h[1]][h[2]]
           /\ streams'[h[1]][h[2]] = streams[h[1]][h[2]]
  BY <1>1, <1>2 DEF TypeOK, AllGrants
<1>8. {h \in AllGrants : Created(h[1], h[2])}' = {h \in AllGrants : Created(h[1], h[2])}
  BY <1>1 DEF Created
<1>9. CASE left = 0
  <2>1. ~streams'[r][id].isEntity
    BY <1>1, <1>2, <1>9 DEF TypeOK, EmptyStream
  <2>2. received'[r][id] = vested
    BY <1>1, <1>5, <1>6, <1>7, <1>9
  <2>3. {h \in AllGrants : streams[h[1]][h[2]].isEntity}'
          = {h \in AllGrants : streams[h[1]][h[2]].isEntity} \ {g}
    BY <1>7, <2>1
  <2> QED
    BY <1>1, <1>2, <1>4, <1>7, <1>8, <2>2, <2>3 DEF StreamVesting!Settle, AllGrants
<1>10. CASE left # 0
  <2>1. streams'[r][id].isEntity
    BY <1>1, <1>2, <1>6, <1>10 DEF TypeOK, Stream
  <2>2. /\ received[r][id] < received'[r][id]
        /\ received'[r][id] <= vested
        /\ received'[r][id] < terms[r][id].deposit
    BY <1>1, <1>5, <1>6, <1>7, <1>10
  <2>3. {h \in AllGrants : streams[h[1]][h[2]].isEntity}'
          = {h \in AllGrants : streams[h[1]][h[2]].isEntity}
    BY <1>1, <1>7, <2>1
  <2> QED
    BY <1>1, <1>2, <1>4, <1>7, <1>8, <2>2, <2>3 DEF StreamVesting!Pay, AllGrants
<1> QED
  BY <1>9, <1>10

(* A cancellation settles the grant.                                       *)
LEMMA CancelSettles ==
  ASSUME IInv, NEW r \in Reserves, NEW id \in StreamIds, CancelStream(r, id)
  PROVE  StreamVesting!Settle(<<r, id>>)
<1> DEFINE g == <<r, id>>
           s == streams[r][id]
           due == recipientBalance(s, now)
           vested == terms[r][id].ratePerSecond * deltaOf(terms[r][id], now)
<1>1. /\ s.isEntity
      /\ streams' = [streams EXCEPT ![r][id] = EmptyStream]
      /\ received' = [received EXCEPT ![r][id] = @ + due]
      /\ UNCHANGED <<now, nextStreamId, terms>>
  BY DEF CancelStream
<1>2. TypeOK /\ StreamInv(r, id) /\ g \in AllGrants
  BY DEF IInv, AllGrants
<1>3. Created(r, id) /\ StreamVesting!Vested(g) = vested
  BY <1>1, <1>2, VestedOfStream DEF StreamInv, Fresh
<1>4. received[r][id] + due = vested
  BY <1>1, <1>2, DueFacts
<1>5. /\ received'[r][id] = vested /\ ~streams'[r][id].isEntity
      /\ \A h \in AllGrants \ {g} :
           /\ received'[h[1]][h[2]] = received[h[1]][h[2]]
           /\ streams'[h[1]][h[2]] = streams[h[1]][h[2]]
  BY <1>1, <1>2, <1>4 DEF TypeOK, AllGrants, EmptyStream
<1>6. {h \in AllGrants : Created(h[1], h[2])}' = {h \in AllGrants : Created(h[1], h[2])}
  BY <1>1 DEF Created
<1>7. {h \in AllGrants : streams[h[1]][h[2]].isEntity}'
        = {h \in AllGrants : streams[h[1]][h[2]].isEntity} \ {g}
  BY <1>5
<1> QED
  BY <1>1, <1>2, <1>3, <1>5, <1>6, <1>7 DEF StreamVesting!Settle, AllGrants

LEMMA InitRefines == Init => StreamVesting!Init
<1> SUFFICES ASSUME Init PROVE StreamVesting!Init
  OBVIOUS
<1>1. \A r \in Reserves, id \in StreamIds :
        ~Created(r, id) /\ ~streams[r][id].isEntity /\ received[r][id] = 0
  BY ReserveAssumption DEF Init, ReserveInit, Created, EmptyStream, StreamIds
<1> QED
  BY <1>1 DEF StreamVesting!Init

LEMMA NextRefines == IInv /\ [Next]_vars => [StreamVesting!Next]_StreamVesting!vars
<1> SUFFICES ASSUME IInv, [Next]_vars
             PROVE  StreamVesting!Next \/ UNCHANGED StreamVesting!vars
  OBVIOUS
<1>1. CASE ExecutePayment \/ ExecuteCoverage \/ ExecuteOther
  <2>1. AddsStreams
    BY <1>1, PaymentStep, CoverageStep, OtherStep
  <2> QED
    BY <2>1, CreationMakesGrants DEF StreamVesting!Next, AllGrants
<1>2. CASE Environment
  <2>1. CASE \E r \in Reserves, id \in StreamIds, amount \in Nat :
               WithdrawFromStream(r, id, amount)
    <3>1. PICK r \in Reserves, id \in StreamIds, amount \in Nat :
            WithdrawFromStream(r, id, amount)
      BY <2>1
    <3>2. StreamVesting!Pay(<<r, id>>) \/ StreamVesting!Settle(<<r, id>>)
      BY <3>1, WithdrawPays
    <3> QED
      BY <3>2 DEF StreamVesting!Next
  <2>2. CASE \E r \in Reserves, id \in StreamIds : CancelStream(r, id)
    <3>1. PICK r \in Reserves, id \in StreamIds : CancelStream(r, id)
      BY <2>2
    <3>2. StreamVesting!Settle(<<r, id>>)
      BY <3>1, CancelSettles
    <3> QED
      BY <3>2 DEF StreamVesting!Next
  <2>3. CASE \E r \in Reserves, token \in Tokens, amount \in Outflows :
               TransferOut(r, token, amount)
    BY <2>3 DEF TransferOut, StreamVesting!vars, Created
  <2>4. CASE Tick
    BY <2>4, ReserveAssumption
       DEF Tick, IInv, TypeOK, StreamVesting!Next, StreamVesting!Pass, Created
  <2>5. \A r \in Reserves, id \in StreamIds : 1 .. terms[r][id].deposit \subseteq Nat
    OBVIOUS
  <2> QED
    BY <1>2, <2>1, <2>2, <2>3, <2>4, <2>5 DEF Environment, ReserveStep
<1>3. CASE UNCHANGED vars
  BY <1>3 DEF vars, reserveVars, StreamVesting!vars, Created
<1> QED
  BY <1>1, <1>2, <1>3 DEF Next

(* The streams of both payloads, and of everybody else, implement Vesting: *)
(* terms never change, payments never run ahead, and every end settles.    *)
THEOREM StreamsImplementVesting == Spec => ImplementsVesting
BY InitRefines, NextRefines, Invariance, PTL
   DEF Spec, ImplementsVesting, StreamVesting!Spec
-----------------------------------------------------------------------------
(* The constants of the contracts satisfy what the model assumes of its    *)
(* parameters.  The amount of AAVE is beyond the 63 bits in which tlapm    *)
(* folds constant arithmetic: no step below expands ether and its factor w *)
(* together.                                                               *)

(* The extra 12352000 base units make the payment a multiple of its 180    *)
(* days, as the comment of the contract computes: 32151 base units of aUSDC*)
(* a second.  500000 aUSDC alone would not be, and the stream refused.     *)
THEOREM PaymentIsMultiple ==
  /\ payment = 32151 * (paymentEnd - paymentStart)
  /\ payment % (paymentEnd - paymentStart) = 0
  /\ (500000 * million) % (paymentEnd - paymentStart) # 0
BY SMT DEF payment, paymentStart, paymentEnd, days, million

(* Both coverage amounts exceed the 12960000 seconds of the stream, so that*)
(* rounding leaves a positive rate, and neither is a multiple of it, so    *)
(* that without rounding the reserve would refuse both streams.            *)
THEOREM CoverageNeedsRounding ==
  /\ coverageAusdc >= coverageDuration /\ coverageAusdc % coverageDuration = 1120000
  /\ coverageAave >= coverageDuration /\ coverageAave % coverageDuration = 4320000
<1>1. coverageDuration = 12960000
  BY SMT DEF coverageDuration, days
<1>2. /\ coverageAusdc >= coverageDuration
      /\ coverageAusdc % coverageDuration = 1120000
  <2>1. coverageAusdc = 13503 * 12960000 + 1120000
    BY SMT DEF coverageAusdc, million
  <2>2. coverageAusdc >= coverageDuration
    BY <1>1, <2>1, SMT
  <2>3. coverageAusdc % coverageDuration = 1120000
    BY <1>1, <2>1, SMT
  <2> QED
    BY <2>2, <2>3
<1>3. /\ coverageAave >= coverageDuration
      /\ coverageAave % coverageDuration = 4320000
  <2> DEFINE x == 1242 * w
  <2>1. x = 95833333333333 * 1296 + 432
    BY SMT DEF w
  <2>2. coverageAave = x * 10000
    <3>1. w \in Nat
      BY SMT DEF w
    <3> QED
      BY <3>1, SMT DEF coverageAave, ether
  <2> HIDE DEF x
  <2>3. x \in Nat /\ x >= 1296 /\ x % 1296 = 432
    <3>1. x = 124200000000000000
      BY <2>1, SMT
    <3> QED
      BY <3>1, SMT
  <2>4. \A n \in Nat : (n * 10000) % 12960000 = (n % 1296) * 10000
    BY SMT
  <2>5. coverageAave >= coverageDuration
    BY <1>1, <2>2, <2>3, SMT
  <2>6. coverageAave % coverageDuration = 4320000
    BY <1>1, <2>2, <2>3, <2>4, SMT
  <2> QED
    BY <2>5, <2>6
<1> QED
  BY <1>2, <1>3

(* What rounding costs Chaos Labs: 1.12 aUSDC, and 4320000 of the 10^18    *)
(* base units of one AAVE.                                                 *)
THEOREM RoundingIsSmall ==
  /\ coverageAusdc - ContractCoverage!actualAmountUSDC = 1120000
  /\ coverageAave - ContractCoverage!actualAmountAave = 4320000
<1>1. coverageDuration = 12960000
  BY SMT DEF coverageDuration, days
<1>2. \A a \in Nat : a - (a \div 12960000) * 12960000 = a % 12960000
  BY SMT
<1>3. coverageAusdc \in Nat
  BY SMT DEF coverageAusdc, million
<1>4. coverageAave \in Nat
  <2>1. w \in Nat
    BY SMT DEF w
  <2> QED
    BY <2>1, SMT DEF coverageAave, ether
<1>5. coverageAusdc - ContractCoverage!actualAmountUSDC = 1120000
  BY <1>1, <1>2, <1>3, CoverageNeedsRounding, SMT DEF ContractCoverage!actualAmountUSDC
<1>6. coverageAave - ContractCoverage!actualAmountAave = 4320000
  BY <1>1, <1>2, <1>4, CoverageNeedsRounding, SMT DEF ContractCoverage!actualAmountAave
<1> QED
  BY <1>5, <1>6
=============================================================================
