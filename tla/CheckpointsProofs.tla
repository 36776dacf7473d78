-------------------------- MODULE CheckpointsProofs --------------------------
(***************************************************************************)
(* Proofs about the Checkpoints library, for every key and value width and *)
(* every Math.sqrt with the range SqrtAssumption gives it.                 *)
(***************************************************************************)
EXTENDS CheckpointsTrace, CheckpointsHistory, TLAPS

\* What every call keeps: the array is typed and sorted, and a running
\* search has excluded only what it may exclude.
IInv == TypeOK /\ KeysIncreasing /\ SearchSound

-----------------------------------------------------------------------------
(* The array after _insert.                                                *)

LEMMA InsertedShape ==
  ASSUME NEW k \in Keys, NEW v \in Values,
         ckpts \in Seq(Checkpoint), KeysIncreasing,
         length > 0 => unsafeAccess(length - 1).key <= k,
         NEW s, s = inserted(k, v)
  PROVE  /\ s \in Seq(Checkpoint)
         /\ Len(s) \in 1 .. Len(ckpts) + 1
         /\ Len(s) >= Len(ckpts)
         /\ s[Len(s)] = [key |-> k, value |-> v]
         /\ \A i \in 1 .. Len(s) - 1 : i \in 1 .. Len(ckpts) /\ s[i] = ckpts[i] /\ ckpts[i].key < k
         /\ Len(s) = Len(ckpts) => ckpts[Len(ckpts)].key = k
  <1> DEFINE n == Len(ckpts)
             new == [key |-> k, value |-> v]
  <1>0. n \in Nat /\ new \in Checkpoint /\ new = [key |-> k, value |-> v]
    BY DEF Checkpoint
  <1>a. \A i \in 1 .. n : ckpts[i] \in Checkpoint
    OBVIOUS
  <1>1. \A i \in 1 .. n : ckpts[i].key \in Int
    BY <1>a, WidthAssumption DEF Checkpoint, Keys
  <1>2. n > 0 => unsafeAccess(n - 1) = ckpts[n]
    BY <1>0 DEF unsafeAccess, length
  <1>3. CASE n > 0 /\ ckpts[n].key = k
    <2>1. s = [ckpts EXCEPT ![n] = new]
      BY <1>2, <1>3 DEF inserted, length
    <2>2. s \in Seq(Checkpoint) /\ Len(s) = n /\ s[n] = new
      BY <1>0, <1>3, <2>1
    <2>3. \A i \in 1 .. n - 1 : s[i] = ckpts[i]
      BY <1>0, <2>1
    <2>4. \A i \in 1 .. n - 1 : ckpts[i].key < k
      BY <1>0, <1>1, <1>3 DEF KeysIncreasing
    <2> QED BY <1>0, <1>3, <2>2, <2>3, <2>4
  <1>4. CASE ~(n > 0 /\ ckpts[n].key = k)
    <2>1. s = Append(ckpts, new)
      BY <1>2, <1>4 DEF inserted, length
    <2>2. s \in Seq(Checkpoint) /\ Len(s) = n + 1 /\ s[n + 1] = new
      BY <1>0, <2>1
    <2>3. \A i \in 1 .. n : s[i] = ckpts[i]
      BY <1>0, <2>1
    <2>4. n > 0 => ckpts[n].key < k
      BY <1>0, <1>1, <1>2, <1>4, WidthAssumption DEF length, Keys
    <2>5. \A i \in 1 .. n : ckpts[i].key < k
      BY <1>0, <1>1, <2>4, WidthAssumption DEF KeysIncreasing, Keys
    <2> QED BY <1>0, <2>2, <2>3, <2>5
  <1> QED BY <1>3, <1>4

LEMMA Widths == Keys \subseteq Int /\ Values \subseteq Int /\ 0 \in Keys /\ 0 \in Values
  BY WidthAssumption DEF Keys, Values

LEMMA Elements ==
  ASSUME ckpts \in Seq(Checkpoint)
  PROVE  /\ Len(ckpts) \in Nat
         /\ \A i \in 1 .. Len(ckpts) : /\ ckpts[i] \in Checkpoint
                                       /\ ckpts[i].key \in Keys
                                       /\ ckpts[i].value \in Values
         /\ Len(ckpts) > 0 => unsafeAccess(length - 1) = ckpts[Len(ckpts)]
  <1>1. Len(ckpts) \in Nat /\ \A i \in 1 .. Len(ckpts) : ckpts[i] \in Checkpoint
    OBVIOUS
  <1>2. \A i \in 1 .. Len(ckpts) : ckpts[i].key \in Keys /\ ckpts[i].value \in Values
    BY <1>1 DEF Checkpoint
  <1>3. Len(ckpts) > 0 => unsafeAccess(length - 1) = ckpts[Len(ckpts)]
    BY <1>1 DEF unsafeAccess, length
  <1> QED BY <1>1, <1>2, <1>3

LEMMA LatestTyped ==
  ASSUME ckpts \in Seq(Checkpoint)
  PROVE  latestValue \in Values
  BY Elements, Widths DEF latestValue, length

-----------------------------------------------------------------------------
(* A push.                                                                 *)

LEMMA InsertKeepsInv ==
  ASSUME IInv, search = Idle, NEW k \in Keys, NEW v \in Values, insert(k, v)
  PROVE  IInv'
  <1> DEFINE s == ckpts'
  <1>1. /\ s \in Seq(Checkpoint)
        /\ Len(s) \in 1 .. Len(ckpts) + 1
        /\ s[Len(s)] = [key |-> k, value |-> v]
        /\ \A i \in 1 .. Len(s) - 1 : i \in 1 .. Len(ckpts) /\ s[i] = ckpts[i] /\ ckpts[i].key < k
    BY InsertedShape DEF IInv, TypeOK, insert
  <1>2. TypeOK'
    BY <1>1, LatestTyped, Widths DEF IInv, TypeOK, insert, History!Calls
  <1>3. KeysIncreasing'
    <2> SUFFICES ASSUME NEW i \in 1 .. Len(s), NEW j \in 1 .. Len(s), i < j
                 PROVE  s[i].key < s[j].key
      BY DEF KeysIncreasing
    <2>0. Len(s) \in Nat /\ ckpts \in Seq(Checkpoint)
      BY <1>1, Elements DEF IInv, TypeOK
    <2>1. i \in 1 .. Len(s) - 1 /\ s[i] = ckpts[i] /\ ckpts[i].key < k
      BY <1>1, <2>0
    <2>2. CASE j = Len(s)
      BY <1>1, <2>1, <2>2
    <2>3. CASE j # Len(s)
      <3>1. j \in 1 .. Len(s) - 1
        BY <2>0, <2>3
      <3>2. s[j] = ckpts[j] /\ i \in 1 .. Len(ckpts) /\ j \in 1 .. Len(ckpts)
        BY <1>1, <2>1, <3>1
      <3> QED BY <2>1, <3>2 DEF IInv, KeysIncreasing
    <2> QED BY <2>2, <2>3
  <1>4. SearchSound'
    BY DEF insert, SearchSound, Idle
  <1> QED BY <1>2, <1>3, <1>4 DEF IInv

LEMMA LatestIsNewest ==
  ASSUME ckpts \in Seq(Checkpoint), KeysIncreasing
  PROVE  \E l \in Keys : /\ History!IsLatest(Points, l, latestValue)
                         /\ length > 0 => l = unsafeAccess(length - 1).key
                         /\ length = 0 => l = 0
  <1> DEFINE n == Len(ckpts)
  <1>1. CASE n = 0
    <2>1. Points = {} /\ latestValue = 0
      BY <1>1 DEF Points, latestValue, length
    <2> QED BY <1>1, <2>1, Widths DEF History!IsLatest, length
  <1>2. CASE n # 0
    <2>1. n \in 1 .. n /\ unsafeAccess(length - 1) = ckpts[n]
      BY <1>2, Elements
    <2>2. ckpts[n] \in Points /\ latestValue = ckpts[n].value
      BY <1>2, <2>1 DEF Points, latestValue, length
    <2>3. ASSUME NEW i \in 1 .. n
          PROVE  ckpts[i].key <= ckpts[n].key
      <3>1. n \in Nat /\ ckpts[i].key \in Int /\ ckpts[n].key \in Int
        BY <2>1, Elements, Widths
      <3>2. i < n => ckpts[i].key < ckpts[n].key
        BY <2>1 DEF KeysIncreasing
      <3> QED BY <3>1, <3>2
    <2>4. History!IsLatest(Points, ckpts[n].key, latestValue)
      BY <2>2, <2>3 DEF History!IsLatest, Points
    <2> QED BY <1>2, <2>1, <2>4, Elements DEF length
  <1> QED BY <1>1, <1>2

LEMMA InsertRecords ==
  ASSUME IInv, NEW k \in Keys, NEW v \in Values, insert(k, v)
  PROVE  History!Record(k, v)
  <1> DEFINE s == ckpts'
  <1>0. ckpts \in Seq(Checkpoint) /\ KeysIncreasing
    BY DEF IInv, TypeOK
  <1>1. /\ s \in Seq(Checkpoint)
        /\ Len(s) \in 1 .. Len(ckpts) + 1
        /\ Len(s) >= Len(ckpts)
        /\ s[Len(s)] = [key |-> k, value |-> v]
        /\ \A i \in 1 .. Len(s) - 1 : i \in 1 .. Len(ckpts) /\ s[i] = ckpts[i] /\ ckpts[i].key < k
        /\ Len(s) = Len(ckpts) => ckpts[Len(ckpts)].key = k
    BY <1>0, InsertedShape DEF insert
  <1>2. \A p \in Points : p.key <= k
    <2>1. \A i \in 1 .. Len(ckpts) : i \in 1 .. Len(s) - 1 \/ (i = Len(ckpts) /\ Len(s) = Len(ckpts))
      BY <1>0, <1>1, Elements
    <2>2. ASSUME NEW i \in 1 .. Len(ckpts)
          PROVE  ckpts[i].key <= k
      <3>1. ckpts[i].key \in Int /\ k \in Int
        BY <1>0, Elements, Widths
      <3>2. CASE i \in 1 .. Len(s) - 1
        <4>1. ckpts[i].key < k
          BY <1>1, <3>2
        <4> QED BY <3>1, <4>1
      <3>3. CASE i = Len(ckpts) /\ Len(s) = Len(ckpts)
        BY <1>1, <3>1, <3>3
      <3> QED BY <2>1, <3>2, <3>3
    <2> QED BY <2>2 DEF Points
  <1>3. Points' = {p \in Points : p.key # k} \cup {[key |-> k, value |-> v]}
    <2>0. Len(s) \in Nat /\ Len(ckpts) \in Nat /\ k \in Int
      BY <1>0, <1>1, Elements, Widths
    <2>1. Points' = {s[i] : i \in 1 .. Len(s)}
      BY DEF Points
    <2>2. ASSUME NEW i \in 1 .. Len(s)
          PROVE  s[i] \in {p \in Points : p.key # k} \cup {[key |-> k, value |-> v]}
      <3>1. CASE i = Len(s)
        BY <1>1, <3>1
      <3>2. CASE i # Len(s)
        <4>1. i \in 1 .. Len(s) - 1
          BY <2>0, <3>2
        <4>2. i \in 1 .. Len(ckpts) /\ s[i] = ckpts[i] /\ ckpts[i].key < k
          BY <1>1, <4>1
        <4>3. ckpts[i].key # k /\ ckpts[i] \in Points
          BY <1>0, <2>0, <4>2, Elements, Widths DEF Points
        <4> QED BY <4>2, <4>3
      <3> QED BY <3>1, <3>2
    <2>3. [key |-> k, value |-> v] \in Points'
      BY <1>1, <2>0, <2>1
    <2>4. ASSUME NEW i \in 1 .. Len(ckpts), ckpts[i].key # k
          PROVE  ckpts[i] \in Points'
      <3>1. i \in 1 .. Len(s) - 1
        BY <1>1, <2>0, <2>4
      <3>2. i \in 1 .. Len(s) /\ s[i] = ckpts[i]
        BY <1>1, <2>0, <3>1
      <3> QED BY <2>1, <3>2
    <2> QED BY <2>1, <2>2, <2>3, <2>4 DEF Points
  <1>4. \E l \in Keys, old \in Values :
          /\ History!IsLatest(Points, l, old)
          /\ answer' = [call |-> "push", key |-> k, value |-> old]
    BY <1>0, LatestIsNewest, LatestTyped DEF insert
  <1> QED BY <1>2, <1>3, <1>4 DEF History!Record

-----------------------------------------------------------------------------
(* A lookup.                                                               *)

LEMMA BeginKeepsInv ==
  ASSUME IInv, NEW f \in {"upper", "lower"}, NEW k \in Keys,
         NEW lo \in Nat, NEW hi \in Nat, Begin(f, k, lo, hi),
         lo <= hi, hi <= Len(ckpts),
         \A i \in 1 .. lo : IF f = "upper" THEN ckpts[i].key <= k ELSE ckpts[i].key < k,
         \A i \in hi + 1 .. Len(ckpts) : IF f = "upper" THEN ckpts[i].key > k ELSE ckpts[i].key >= k
  PROVE  IInv'
  <1>1. TypeOK'
    BY Widths DEF IInv, TypeOK, Begin, NoAnswer, History!Calls
  <1>2. KeysIncreasing'
    BY DEF IInv, KeysIncreasing, Begin
  <1>3. SearchSound'
    BY DEF SearchSound, Begin
  <1> QED BY <1>1, <1>2, <1>3 DEF IInv

\* The middle of a section that is not empty is a position in it.
LEMMA Middle ==
  ASSUME NEW lo \in Nat, NEW hi \in Nat, lo < hi
  PROVE  /\ average(lo, hi) \in Nat
         /\ lo <= average(lo, hi)
         /\ average(lo, hi) < hi
         /\ 2 * (average(lo, hi) - lo) <= hi - lo
         /\ 2 * (hi - (average(lo, hi) + 1)) <= hi - lo
  BY DEF average

LEMMA UpperKeepsInv ==
  ASSUME IInv, upperBinaryLookup
  PROVE  /\ IInv'
         /\ 2 * (search'.high - search'.low) <= search.high - search.low
  <1> DEFINE lo == search.low
             hi == search.high
             mid == average(lo, hi)
             n == Len(ckpts)
  <1>0. /\ lo \in Nat /\ hi \in Nat /\ search.key \in Keys /\ n \in Nat
        /\ search # Idle /\ search.fn = "upper" /\ lo < hi /\ hi <= n
        /\ search \in [fn: {"none", "upper", "lower"}, key: Keys, low: Nat, high: Nat]
        /\ \A i \in 1 .. lo : ckpts[i].key <= search.key
        /\ \A i \in hi + 1 .. n : ckpts[i].key > search.key
    BY Elements DEF IInv, TypeOK, SearchSound, upperBinaryLookup, Idle
  <1>1. /\ mid \in Nat /\ lo <= mid /\ mid < hi
        /\ 2 * (mid - lo) <= hi - lo /\ 2 * (hi - (mid + 1)) <= hi - lo
    BY <1>0, Middle
  <1>2. unsafeAccess(mid) = ckpts[mid + 1] /\ mid + 1 \in 1 .. n
    BY <1>0, <1>1 DEF unsafeAccess, length
  <1>3. /\ \A i \in 1 .. n : ckpts[i].key \in Int
        /\ search.key \in Int
        /\ \A i, j \in 1 .. n : i < j => ckpts[i].key < ckpts[j].key
    BY <1>0, Elements, Widths DEF IInv, TypeOK, KeysIncreasing
  <1>4. UNCHANGED <<ckpts, answer>>
    BY DEF upperBinaryLookup
  <1>a. search' = IF ckpts[mid + 1].key > search.key
                    THEN [search EXCEPT !.high = mid]
                    ELSE [search EXCEPT !.low = mid + 1]
    BY <1>2 DEF upperBinaryLookup
  <1>5. KeysIncreasing'
    BY <1>4 DEF IInv, KeysIncreasing
  <1>b. /\ search \in [fn: {"none", "upper", "lower"}, key: Keys, low: Nat, high: Nat]
        /\ mid \in Nat /\ mid + 1 \in Nat
    BY <1>0, <1>1
  <1> HIDE DEF mid, lo, hi
  <1>6. CASE ckpts[mid + 1].key > search.key
    <2>1. /\ search' = [search EXCEPT !.high = mid]
          /\ search'.fn = "upper" /\ search'.key = search.key /\ search'.low = lo /\ search'.high = mid
      BY <1>0, <1>6, <1>a DEF lo
    <2>a. search' \in [fn: {"none", "upper", "lower"}, key: Keys, low: Nat, high: Nat]
      BY <1>b, <2>1
    <2>2. TypeOK'
      BY <1>4, <2>a DEF IInv, TypeOK
    <2>3. \A i \in mid + 1 .. n : ckpts[i].key > search.key
      <3> SUFFICES ASSUME NEW i \in mid + 1 .. n PROVE ckpts[i].key > search.key
        OBVIOUS
      <3>1. i \in 1 .. n /\ (i = mid + 1 \/ mid + 1 < i)
        BY <1>0, <1>1
      <3> QED BY <1>2, <1>3, <1>6, <3>1
    <2>4. SearchSound'
      BY <1>0, <1>1, <1>4, <2>1, <2>3 DEF SearchSound
    <2> QED BY <1>1, <1>5, <2>1, <2>2, <2>4 DEF IInv, lo, hi
  <1>7. CASE ~(ckpts[mid + 1].key > search.key)
    <2>1. /\ search' = [search EXCEPT !.low = mid + 1]
          /\ search'.fn = "upper" /\ search'.key = search.key /\ search'.low = mid + 1 /\ search'.high = hi
      BY <1>0, <1>7, <1>a DEF hi
    <2>a. search' \in [fn: {"none", "upper", "lower"}, key: Keys, low: Nat, high: Nat]
      BY <1>b, <2>1
    <2>2. TypeOK'
      BY <1>4, <2>a DEF IInv, TypeOK
    <2>3. \A i \in 1 .. mid + 1 : ckpts[i].key <= search.key
      <3> SUFFICES ASSUME NEW i \in 1 .. mid + 1 PROVE ckpts[i].key <= search.key
        OBVIOUS
      <3>1. i \in 1 .. n /\ (i = mid + 1 \/ i < mid + 1)
        BY <1>0, <1>1
      <3> QED BY <1>2, <1>3, <1>7, <3>1
    <2>4. SearchSound'
      BY <1>0, <1>1, <1>4, <2>1, <2>3 DEF SearchSound
    <2> QED BY <1>1, <1>5, <2>1, <2>2, <2>4 DEF IInv, lo, hi
  <1> QED BY <1>6, <1>7

LEMMA LowerKeepsInv ==
  ASSUME IInv, lowerBinaryLookup
  PROVE  /\ IInv'
         /\ 2 * (search'.high - search'.low) <= search.high - search.low
  <1> DEFINE lo == search.low
             hi == search.high
             mid == average(lo, hi)
             n == Len(ckpts)
  <1>0. /\ lo \in Nat /\ hi \in Nat /\ search.key \in Keys /\ n \in Nat
        /\ search # Idle /\ search.fn = "lower" /\ lo < hi /\ hi <= n
        /\ search \in [fn: {"none", "upper", "lower"}, key: Keys, low: Nat, high: Nat]
        /\ \A i \in 1 .. lo : ckpts[i].key < search.key
        /\ \A i \in hi + 1 .. n : ckpts[i].key >= search.key
    BY Elements DEF IInv, TypeOK, SearchSound, lowerBinaryLookup, Idle
  <1>1. /\ mid \in Nat /\ lo <= mid /\ mid < hi
        /\ 2 * (mid - lo) <= hi - lo /\ 2 * (hi - (mid + 1)) <= hi - lo
    BY <1>0, Middle
  <1>2. unsafeAccess(mid) = ckpts[mid + 1] /\ mid + 1 \in 1 .. n
    BY <1>0, <1>1 DEF unsafeAccess, length
  <1>3. /\ \A i \in 1 .. n : ckpts[i].key \in Int
        /\ search.key \in Int
        /\ \A i, j \in 1 .. n : i < j => ckpts[i].key < ckpts[j].key
    BY <1>0, Elements, Widths DEF IInv, TypeOK, KeysIncreasing
  <1>4. UNCHANGED <<ckpts, answer>>
    BY DEF lowerBinaryLookup
  <1>a. search' = IF ckpts[mid + 1].key < search.key
                    THEN [search EXCEPT !.low = mid + 1]
                    ELSE [search EXCEPT !.high = mid]
    BY <1>2 DEF lowerBinaryLookup
  <1>5. KeysIncreasing'
    BY <1>4 DEF IInv, KeysIncreasing
  <1>b. /\ search \in [fn: {"none", "upper", "lower"}, key: Keys, low: Nat, high: Nat]
        /\ mid \in Nat /\ mid + 1 \in Nat
    BY <1>0, <1>1
  <1> HIDE DEF mid, lo, hi
  <1>6. CASE ~(ckpts[mid + 1].key < search.key)
    <2>1. /\ search' = [search EXCEPT !.high = mid]
          /\ search'.fn = "lower" /\ search'.key = search.key /\ search'.low = lo /\ search'.high = mid
      BY <1>0, <1>6, <1>a DEF lo
    <2>a. search' \in [fn: {"none", "upper", "lower"}, key: Keys, low: Nat, high: Nat]
      BY <1>b, <2>1
    <2>2. TypeOK'
      BY <1>4, <2>a DEF IInv, TypeOK
    <2>3. \A i \in mid + 1 .. n : ckpts[i].key >= search.key
      <3> SUFFICES ASSUME NEW i \in mid + 1 .. n PROVE ckpts[i].key >= search.key
        OBVIOUS
      <3>1. i \in 1 .. n /\ (i = mid + 1 \/ mid + 1 < i)
        BY <1>0, <1>1
      <3> QED BY <1>2, <1>3, <1>6, <3>1
    <2>4. SearchSound'
      BY <1>0, <1>1, <1>4, <2>1, <2>3 DEF SearchSound
    <2> QED BY <1>1, <1>5, <2>1, <2>2, <2>4 DEF IInv, lo, hi
  <1>7. CASE ckpts[mid + 1].key < search.key
    <2>1. /\ search' = [search EXCEPT !.low = mid + 1]
          /\ search'.fn = "lower" /\ search'.key = search.key /\ search'.low = mid + 1 /\ search'.high = hi
      BY <1>0, <1>7, <1>a DEF hi
    <2>a. search' \in [fn: {"none", "upper", "lower"}, key: Keys, low: Nat, high: Nat]
      BY <1>b, <2>1
    <2>2. TypeOK'
      BY <1>4, <2>a DEF IInv, TypeOK
    <2>3. \A i \in 1 .. mid + 1 : ckpts[i].key < search.key
      <3> SUFFICES ASSUME NEW i \in 1 .. mid + 1 PROVE ckpts[i].key < search.key
        OBVIOUS
      <3>1. i \in 1 .. n /\ (i = mid + 1 \/ i < mid + 1)
        BY <1>0, <1>1
      <3> QED BY <1>2, <1>3, <1>7, <3>1
    <2>4. SearchSound'
      BY <1>0, <1>1, <1>4, <2>1, <2>3 DEF SearchSound
    <2> QED BY <1>1, <1>5, <2>1, <2>2, <2>4 DEF IInv, lo, hi
  <1> QED BY <1>6, <1>7

LEMMA ResultKeepsInv ==
  ASSUME IInv, upperResult \/ lowerResult
  PROVE  IInv'
  <1>0. /\ ckpts' = ckpts /\ search' = Idle /\ ckpts \in Seq(Checkpoint)
        /\ search.key \in Keys /\ search.high \in Nat /\ search.high <= Len(ckpts)
    BY DEF IInv, TypeOK, SearchSound, upperResult, lowerResult, Idle
  <1>1. \A pos \in Nat : unsafeAccess(pos).value \in Values
    BY <1>0, Elements, Widths DEF unsafeAccess, length
  <1>2. answer' \in [call: History!Calls, key: Keys, value: Values]
    <2>1. CASE upperResult
      BY <1>0, <1>1, <2>1, Widths DEF upperResult, History!Calls
    <2>2. CASE lowerResult
      BY <1>0, <1>1, <2>2, Widths DEF lowerResult, History!Calls
    <2> QED BY <2>1, <2>2
  <1>3. TypeOK'
    BY <1>0, <1>2, Widths DEF TypeOK, Idle
  <1>4. KeysIncreasing' /\ SearchSound'
    BY <1>0 DEF IInv, KeysIncreasing, SearchSound
  <1> QED BY <1>3, <1>4 DEF IInv

LEMMA LatestKeepsInv ==
  ASSUME IInv, latest \/ latestCheckpoint
  PROVE  IInv'
  <1>0. ckpts' = ckpts /\ search' = search /\ ckpts \in Seq(Checkpoint)
    BY DEF IInv, TypeOK, latest, latestCheckpoint
  <1>1. length > 0 => unsafeAccess(length - 1).key \in Keys /\ unsafeAccess(length - 1).value \in Values
    BY <1>0, Elements DEF length
  <1>2. answer' \in [call: History!Calls, key: Keys, value: Values]
    BY <1>0, <1>1, Elements, LatestTyped, Widths DEF latest, latestCheckpoint, length, History!Calls
  <1>3. TypeOK'
    BY <1>0, <1>2 DEF IInv, TypeOK
  <1>4. KeysIncreasing' /\ SearchSound'
    BY <1>0 DEF IInv, KeysIncreasing, SearchSound
  <1> QED BY <1>3, <1>4 DEF IInv

\* The upper lookups return the value the history has at the key.
LEMMA UpperAnswers ==
  ASSUME IInv, upperResult
  PROVE  History!Next
  <1> DEFINE pos == search.high
             v == IF pos = 0 THEN 0 ELSE unsafeAccess(pos - 1).value
  <1>0. /\ ckpts \in Seq(Checkpoint) /\ pos \in Nat /\ pos <= Len(ckpts)
        /\ search.key \in Keys
        /\ \A i \in 1 .. pos : ckpts[i].key <= search.key
        /\ \A i \in pos + 1 .. Len(ckpts) : ckpts[i].key > search.key
    BY DEF IInv, TypeOK, SearchSound, upperResult, Idle
  <1>1. pos > 0 => unsafeAccess(pos - 1) = ckpts[pos] /\ pos \in 1 .. Len(ckpts)
    BY <1>0, Elements DEF unsafeAccess, length
  <1>2. v \in Values
    BY <1>0, <1>1, Elements, Widths
  <1>3. History!IsUpper(Points, search.key, v)
    <2>1. CASE pos = 0
      BY <1>0, <2>1 DEF History!IsUpper, Points
    <2>2. CASE pos # 0
      <3>1. ckpts[pos] \in Points /\ ckpts[pos].key <= search.key /\ v = ckpts[pos].value
        BY <1>0, <1>1, <2>2 DEF Points
      <3>2. ASSUME NEW i \in 1 .. Len(ckpts), ckpts[i].key <= search.key
            PROVE  ckpts[i].key <= ckpts[pos].key
        <4>0. pos \in 1 .. Len(ckpts)
          BY <1>0, <1>1, <2>2
        <4>1. /\ Len(ckpts) \in Nat /\ ckpts[i].key \in Int /\ ckpts[pos].key \in Int
              /\ search.key \in Int /\ pos \in 1 .. Len(ckpts)
          BY <1>0, <4>0, Elements, Widths
        <4>2. ~(i \in pos + 1 .. Len(ckpts))
          BY <1>0, <3>2, <4>1
        <4>3. i = pos \/ i < pos
          BY <1>0, <4>1, <4>2
        <4>4. i < pos => ckpts[i].key < ckpts[pos].key
          BY <4>1 DEF IInv, KeysIncreasing
        <4> QED BY <4>1, <4>3, <4>4
      <3> QED BY <3>1, <3>2 DEF History!IsUpper, Points
    <2> QED BY <2>1, <2>2
  <1>4. /\ answer' = [call |-> "upper", key |-> search.key, value |-> v]
        /\ Points' = Points
    BY DEF upperResult, Points
  <1>5. History!Ask(search.key, v)
    BY <1>3, <1>4 DEF History!Ask
  <1> QED BY <1>0, <1>2, <1>5 DEF History!Next

\* So does the lower lookup.
LEMMA LowerAnswers ==
  ASSUME IInv, lowerResult
  PROVE  History!Next
  <1> DEFINE pos == search.high
             v == IF pos = length THEN 0 ELSE unsafeAccess(pos).value
  <1>0. /\ ckpts \in Seq(Checkpoint) /\ pos \in Nat /\ pos <= Len(ckpts)
        /\ search.key \in Keys /\ search.low \in Nat /\ search.low = pos
        /\ \A i \in 1 .. pos : ckpts[i].key < search.key
        /\ \A i \in pos + 1 .. Len(ckpts) : ckpts[i].key >= search.key
    BY DEF IInv, TypeOK, SearchSound, lowerResult, Idle
  <1>1. pos # Len(ckpts) => unsafeAccess(pos) = ckpts[pos + 1] /\ pos + 1 \in 1 .. Len(ckpts)
    BY <1>0, Elements DEF unsafeAccess, length
  <1>2. v \in Values
    BY <1>0, <1>1, Elements, Widths DEF length
  <1>3. History!IsLower(Points, search.key, v)
    <2>1. CASE pos = Len(ckpts)
      BY <1>0, <2>1 DEF History!IsLower, Points, length
    <2>2. CASE pos # Len(ckpts)
      <3>1. /\ ckpts[pos + 1] \in Points /\ v = ckpts[pos + 1].value
            /\ ckpts[pos + 1].key >= search.key
        BY <1>0, <1>1, <2>2 DEF Points, length
      <3>2. ASSUME NEW i \in 1 .. Len(ckpts), ckpts[i].key >= search.key
            PROVE  ckpts[i].key >= ckpts[pos + 1].key
        <4>1. /\ Len(ckpts) \in Nat /\ ckpts[i].key \in Int /\ ckpts[pos + 1].key \in Int
              /\ search.key \in Int /\ pos + 1 \in 1 .. Len(ckpts)
          BY <1>0, <1>1, <2>2, Elements, Widths
        <4>2. ~(i \in 1 .. pos)
          BY <1>0, <3>2, <4>1
        <4>3. i = pos + 1 \/ pos + 1 < i
          BY <1>0, <4>1, <4>2
        <4>4. pos + 1 < i => ckpts[pos + 1].key < ckpts[i].key
          BY <4>1 DEF IInv, KeysIncreasing
        <4> QED BY <4>1, <4>3, <4>4
      <3> QED BY <3>1, <3>2 DEF History!IsLower, Points
    <2> QED BY <2>1, <2>2
  <1>4. /\ answer' = [call |-> "lower", key |-> search.key, value |-> v]
        /\ Points' = Points
    BY DEF lowerResult, Points
  <1>5. History!Ask(search.key, v)
    BY <1>3, <1>4 DEF History!Ask
  <1> QED BY <1>0, <1>2, <1>5 DEF History!Next

LEMMA LatestAnswers ==
  ASSUME IInv, latest \/ latestCheckpoint
  PROVE  History!Next
  <1>0. ckpts \in Seq(Checkpoint) /\ KeysIncreasing
    BY DEF IInv, TypeOK
  <1>1. PICK l \in Keys : /\ History!IsLatest(Points, l, latestValue)
                          /\ length > 0 => l = unsafeAccess(length - 1).key
                          /\ length = 0 => l = 0
    BY <1>0, LatestIsNewest
  <1>2. Points' = Points /\ latestValue \in Values /\ length \in Nat
    BY <1>0, LatestTyped, Elements DEF latest, latestCheckpoint, Points, length
  <1>3. (Points = {}) <=> (length = 0)
    <2>1. length = 0 => Points = {}
      BY <1>2 DEF Points, length
    <2>2. length # 0 => ckpts[1] \in Points
      BY <1>2 DEF Points, length
    <2> QED BY <2>1, <2>2
  <1>4. History!Ask(l, latestValue)
    <2>1. CASE latest
      BY <1>1, <1>2, <2>1 DEF latest, History!Ask
    <2>2. CASE latestCheckpoint
      BY <1>1, <1>2, <1>3, <2>2 DEF latestCheckpoint, latestValue, History!Ask
    <2> QED BY <2>1, <2>2
  <1> QED BY <1>1, <1>2, <1>4 DEF History!Next

-----------------------------------------------------------------------------
(* The parts every flavour shares.                                         *)

LEMMA InitKeeps == CheckpointsInit => IInv /\ History!Init
  <1> SUFFICES ASSUME CheckpointsInit PROVE IInv /\ History!Init
    OBVIOUS
  <1>1. TypeOK
    BY Widths DEF CheckpointsInit, TypeOK, Idle, NoAnswer, History!Calls
  <1>2. KeysIncreasing /\ SearchSound
    BY DEF CheckpointsInit, KeysIncreasing, SearchSound
  <1>3. History!Init
    BY DEF CheckpointsInit, History!Init, History!Pending, Points, NoAnswer
  <1> QED BY <1>1, <1>2, <1>3 DEF IInv

LEMMA StepKeeps ==
  ASSUME IInv, latest \/ latestCheckpoint \/ LookupStep
  PROVE  IInv' /\ Points' = Points /\ (History!Next \/ UNCHANGED <<Points, answer>>)
  <1>1. Points' = Points
    BY DEF LookupStep, latest, latestCheckpoint, upperBinaryLookup, lowerBinaryLookup,
           upperResult, lowerResult, Points
  <1>2. CASE latest \/ latestCheckpoint
    BY <1>1, <1>2, LatestKeepsInv, LatestAnswers
  <1>3. CASE upperBinaryLookup \/ lowerBinaryLookup
    BY <1>1, <1>3, UpperKeepsInv, LowerKeepsInv DEF upperBinaryLookup, lowerBinaryLookup
  <1>4. CASE upperResult \/ lowerResult
    BY <1>1, <1>4, ResultKeepsInv, UpperAnswers, LowerAnswers
  <1> QED BY <1>2, <1>3, <1>4 DEF LookupStep

LEMMA BeginWaits ==
  ASSUME NEW f, NEW k, NEW lo, NEW hi, Begin(f, k, lo, hi)
  PROVE  Points' = Points /\ History!Next
  BY DEF Begin, Points, History!Next, History!Wait, History!Pending, NoAnswer

\* A lookup over the whole array leaves nothing out.
LEMMA BeginWhole ==
  ASSUME IInv, NEW f \in {"upper", "lower"}, NEW k \in Keys, Begin(f, k, 0, length)
  PROVE  IInv'
  <1>1. length \in Nat /\ Len(ckpts) = length
    BY Elements DEF length, IInv, TypeOK
  <1> QED BY <1>1, BeginKeepsInv

LEMMA StutterKeeps ==
  ASSUME IInv, UNCHANGED cvars
  PROVE  IInv' /\ Points' = Points
  BY DEF IInv, TypeOK, KeysIncreasing, SearchSound, Points, cvars

\* A push leaves the history as it was at every older key.
LEMMA InsertKeepsOlder ==
  ASSUME IInv, NEW k \in Keys, NEW v \in Values, insert(k, v),
         NEW q \in Keys, NEW w \in Values, q < k, History!IsUpper(Points, q, w)
  PROVE  History!IsUpper(Points', q, w)
  <1>0. /\ \A p \in Points : p.key \in Int
        /\ k \in Int /\ q \in Int
    BY Elements, Widths DEF Points, IInv, TypeOK
  <1>1. Points' = {p \in Points : p.key # k} \cup {[key |-> k, value |-> v]}
    BY InsertRecords DEF History!Record
  <1> DEFINE S == Points
             T == Points'
  <1>2. \A p \in T : p.key <= q => p \in S
    BY <1>0, <1>1
  <1>3. \A p \in S : p.key <= q => p \in T
    BY <1>0, <1>1
  <1>4. \A p \in T : p.key \in Int
    BY <1>0, <1>1
  <1> HIDE DEF S, T
  <1>5. History!IsUpper(S, q, w)
    BY DEF S
  <1>6. CASE (\A p \in S : p.key > q) /\ w = 0
    <2>1. \A p \in T : p.key > q
      BY <1>0, <1>2, <1>4, <1>6 DEF S
    <2> QED BY <1>6, <2>1 DEF History!IsUpper, T
  <1>7. CASE \E p \in S : /\ p.key <= q
                          /\ \A r \in S : r.key <= q => r.key <= p.key
                          /\ w = p.value
    BY <1>2, <1>3, <1>7 DEF History!IsUpper, T
  <1> QED BY <1>5, <1>6, <1>7 DEF History!IsUpper

-----------------------------------------------------------------------------
(* Traces.                                                                 *)

LEMMA TraceStep ==
  ASSUME IInv, [TraceNext]_cvars
  PROVE  /\ IInv'
         /\ History!Next \/ UNCHANGED <<Points, answer>>
  <1>1. CASE \E k \in Keys, v \in Values : push(k, v)
    BY <1>1, InsertKeepsInv, InsertRecords DEF push, History!Next
  <1>2. CASE \E k \in Keys : lowerLookup(k) \/ upperLookup(k)
    BY <1>2, BeginWhole, BeginWaits DEF lowerLookup, upperLookup
  <1>3. CASE latest \/ latestCheckpoint \/ LookupStep
    BY <1>3, StepKeeps
  <1>4. CASE UNCHANGED cvars
    BY <1>4, StutterKeeps DEF cvars
  <1> QED BY <1>1, <1>2, <1>3, <1>4 DEF TraceNext

\* The array of a trace is sorted, and its searches stay inside it and
\* exclude only what they may.
THEOREM TraceCorrect == TraceSpec => [](TypeOK /\ KeysIncreasing /\ SearchSound)
  <1>1. CheckpointsInit => IInv
    BY InitKeeps
  <1>2. IInv /\ [TraceNext]_cvars => IInv'
    BY TraceStep
  <1>3. IInv => TypeOK /\ KeysIncreasing /\ SearchSound
    BY DEF IInv
  <1> QED BY <1>1, <1>2, <1>3, PTL DEF TraceSpec

\* Every lookup of a trace answers as the history of points does.
THEOREM TraceImplementsHistory == TraceSpec => ImplementsHistory
  <1>1. CheckpointsInit => IInv /\ History!Init
    BY InitKeeps
  <1>2. IInv /\ [TraceNext]_cvars => IInv' /\ [History!Next]_<<Points, answer>>
    BY TraceStep
  <1> QED BY <1>1, <1>2, PTL DEF TraceSpec, ImplementsHistory, History!Spec

\* Lookups cost a logarithmic number of reads.
THEOREM TraceHalves == TraceSpec => SearchHalves
  <1>1. CheckpointsInit => IInv
    BY InitKeeps
  <1>2. ASSUME IInv, TraceNext, search # Idle, search' # Idle
        PROVE  2 * (search'.high - search'.low) <= search.high - search.low
    <2>1. upperBinaryLookup \/ lowerBinaryLookup
      BY <1>2 DEF TraceNext, push, lowerLookup, upperLookup, Begin, latest,
                  latestCheckpoint, LookupStep, upperResult, lowerResult
    <2> QED BY <1>2, <2>1, UpperKeepsInv, LowerKeepsInv
  <1>3. IInv /\ [TraceNext]_cvars
          => IInv' /\ [search # Idle /\ search' # Idle
               => 2 * (search'.high - search'.low) <= search.high - search.low]_cvars
    BY <1>2, TraceStep
  <1> QED BY <1>1, <1>3, PTL DEF TraceSpec, SearchHalves

\* What a trace answers at a key is final once a newer key was pushed.
THEOREM TraceOldKeysFixed == TraceSpec => OldKeysFixed
  <1>1. CheckpointsInit => IInv
    BY InitKeeps
  <1>2. ASSUME IInv, TraceNext, NEW q \in Keys, NEW w \in Values,
               \E p \in Points : p.key > q, History!IsUpper(Points, q, w)
        PROVE  History!IsUpper(Points', q, w)
    <2>1. CASE \E k \in Keys, v \in Values : push(k, v)
      <3>1. PICK k \in Keys, v \in Values : insert(k, v)
        BY <2>1 DEF push
      <3>2. \A p \in Points : p.key <= k
        BY <1>2, <3>1, InsertRecords DEF History!Record
      <3>3. q < k
        <4>1. PICK p \in Points : p.key > q
          BY <1>2
        <4>2. p.key \in Int /\ k \in Int /\ q \in Int
          BY <1>2, Elements, Widths DEF Points, IInv, TypeOK
        <4> QED BY <3>2, <4>1, <4>2
      <3> QED BY <1>2, <3>1, <3>3, InsertKeepsOlder
    <2>2. CASE \E k \in Keys : lowerLookup(k) \/ upperLookup(k)
      BY <1>2, <2>2, BeginWaits DEF lowerLookup, upperLookup
    <2>3. CASE latest \/ latestCheckpoint \/ LookupStep
      BY <1>2, <2>3, StepKeeps
    <2> QED BY <1>2, <2>1, <2>2, <2>3 DEF TraceNext
  <1>3. IInv /\ [TraceNext]_cvars
          => IInv' /\ [\A k \in Keys, v \in Values :
                         /\ \E p \in Points : p.key > k
                         /\ History!IsUpper(Points, k, v)
                         => History!IsUpper(Points', k, v)]_cvars
    BY <1>2, TraceStep
  <1> QED BY <1>1, <1>3, PTL DEF TraceSpec, OldKeysFixed

-----------------------------------------------------------------------------
(* The legacy History.                                                     *)

\* Keys are distinct naturals in order, so there are at most MaxKey + 1 of
\* them: the argument of Math.sqrt is in the range the assumption covers.
Spread == \A i \in 1 .. Len(ckpts) : ckpts[i].key >= i - 1

HInv == IInv /\ block \in Nat /\ NoFutureCheckpoint /\ Spread

LEMMA PushValueStep ==
  ASSUME HInv, NEW v, pushValue(v)
  PROVE  /\ block \in Keys /\ v \in Values /\ insert(block, v) /\ search = Idle
         /\ HInv' /\ History!Next
  <1>1. /\ block \in Keys /\ v \in Values /\ insert(block, v) /\ search = Idle
        /\ block' = block
    BY DEF pushValue, toUint32, toUint224
  <1>2. IInv' /\ History!Next
    BY <1>1, InsertKeepsInv, InsertRecords DEF HInv, History!Next
  <1> DEFINE s == ckpts'
  <1>3. /\ s \in Seq(Checkpoint)
        /\ Len(s) \in 1 .. Len(ckpts) + 1
        /\ Len(s) >= Len(ckpts)
        /\ s[Len(s)] = [key |-> block, value |-> v]
        /\ \A i \in 1 .. Len(s) - 1 : /\ i \in 1 .. Len(ckpts)
                                      /\ s[i] = ckpts[i]
                                      /\ ckpts[i].key < block
    BY <1>1, InsertedShape DEF HInv, IInv, TypeOK, insert
  <1>4. \A i \in 1 .. Len(s) : i = Len(s) \/ i \in 1 .. Len(s) - 1
    BY <1>3
  <1>5. /\ Len(s) \in Nat /\ Len(ckpts) \in Nat /\ block \in Int
        /\ \A i \in 1 .. Len(s) : s[i].key \in Int
    <2>1. \A i \in 1 .. Len(s) : s[i] \in Checkpoint
      BY <1>3
    <2>2. \A i \in 1 .. Len(s) : s[i].key \in Int
      BY <2>1, Widths DEF Checkpoint
    <2>3. Len(s) \in Nat /\ Len(ckpts) \in Nat
      BY <1>3, Elements DEF HInv, IInv, TypeOK
    <2> QED BY <1>1, <2>2, <2>3, Widths
  <1>a. Len(s) \in Nat /\ Len(s) >= 1
    BY <1>3, <1>5
  <1> HIDE DEF s
  <1>6. NoFutureCheckpoint'
    <2>1. ASSUME NEW i \in 1 .. Len(s)
          PROVE  s[i].key <= block
      <3>1. CASE i = Len(s)
        BY <1>3, <1>5, <3>1
      <3>2. CASE i \in 1 .. Len(s) - 1
        <4>1. s[i].key < block
          BY <1>3, <3>2
        <4> QED BY <1>5, <4>1
      <3> QED BY <1>4, <3>1, <3>2
    <2> QED BY <1>1, <2>1 DEF NoFutureCheckpoint, s
  <1>7. Spread'
    <2>1. \A i \in 1 .. Len(ckpts) : ckpts[i].key >= i - 1
      BY DEF HInv, Spread
    <2>2. \A i \in 1 .. Len(s) - 1 : s[i].key >= i - 1
      BY <1>3, <2>1
    <2>3. s[Len(s)].key >= Len(s) - 1
      <3>1. CASE Len(s) = 1
        BY <1>1, <1>3, <3>1, Widths DEF Keys
      <3>2. CASE Len(s) # 1
        <4> DEFINE m == Len(s) - 1
        <4>0. \A l \in Nat : l >= 1 /\ l # 1 => l - 1 \in 1 .. l - 1
          OBVIOUS
        <4>1. m \in 1 .. Len(s) - 1
          BY <1>a, <3>2, <4>0
        <4> HIDE DEF m
        <4>2. m \in 1 .. Len(ckpts) /\ ckpts[m].key < block
          BY <1>3, <4>1
        <4>3. ckpts[m].key >= m - 1 /\ ckpts[m].key \in Int
          <5>1. ckpts[m].key \in Keys
            BY <4>2, Elements DEF HInv, IInv, TypeOK
          <5> QED BY <2>1, <4>2, <5>1, Widths
        <4>4. s[Len(s)].key = block
          BY <1>3
        <4> QED BY <1>5, <4>1, <4>2, <4>3, <4>4 DEF m
      <3> QED BY <3>1, <3>2
    <2> QED BY <1>4, <2>2, <2>3 DEF Spread, s
  <1> QED BY <1>1, <1>2, <1>6, <1>7 DEF HInv

\* The section cut at the last sqrt(len) checkpoints leaves nothing out.
LEMMA RecentKeepsInv ==
  ASSUME HInv, NEW b \in 0 .. MaxBlock, getAtProbablyRecentBlock(b)
  PROVE  IInv'
  <1> DEFINE n == Len(ckpts)
             mid == length - Sqrt(length)
  <1>0. /\ n \in Nat /\ length = n /\ b \in Keys /\ IInv
        /\ \A i \in 1 .. n : ckpts[i].key \in Keys
        /\ \A i, j \in 1 .. n : i < j => ckpts[i].key < ckpts[j].key
    BY Elements DEF HInv, IInv, TypeOK, KeysIncreasing, length,
                    getAtProbablyRecentBlock, toUint32
  <1>1. CASE length <= 5
    <2>1. Begin("upper", b, 0, length)
      BY <1>0, <1>1 DEF getAtProbablyRecentBlock
    <2> QED BY <1>0, <2>1, BeginWhole
  <1>2. CASE length > 5
    <2>1. mid \in 0 .. n - 1
      <3>1. ckpts[n].key >= n - 1 /\ ckpts[n].key <= MaxKey
        BY <1>0, <1>2, WidthAssumption DEF HInv, Spread, Keys
      <3>2. n \in 1 .. MaxKey + 1
        BY <1>0, <1>2, <3>1, WidthAssumption DEF Keys
      <3>3. Sqrt(n) \in 1 .. n
        BY <3>2, SqrtAssumption
      <3> QED BY <1>0, <3>3
    <2>2. unsafeAccess(mid) = ckpts[mid + 1] /\ mid + 1 \in 1 .. n
      BY <1>0, <2>1 DEF unsafeAccess
    <2>3. \A i \in 1 .. n : ckpts[i].key \in Int /\ b \in Int
      BY <1>0, Widths
    <2>4. \/ b < ckpts[mid + 1].key /\ Begin("upper", b, 0, mid)
          \/ b >= ckpts[mid + 1].key /\ Begin("upper", b, mid + 1, length)
      BY <1>0, <1>2, <2>2 DEF getAtProbablyRecentBlock
    <2> HIDE DEF mid
    <2>5. CASE b < ckpts[mid + 1].key /\ Begin("upper", b, 0, mid)
      <3>1. ASSUME NEW i \in mid + 1 .. n
            PROVE  ckpts[i].key > b
        <4>1. i \in 1 .. n /\ (i = mid + 1 \/ mid + 1 < i)
          BY <1>0, <2>1
        <4> QED BY <1>0, <2>2, <2>3, <2>5, <4>1
      <3> QED BY <1>0, <2>1, <2>5, <3>1, BeginKeepsInv
    <2>6. CASE b >= ckpts[mid + 1].key /\ Begin("upper", b, mid + 1, length)
      <3>1. ASSUME NEW i \in 1 .. mid + 1
            PROVE  ckpts[i].key <= b
        <4>1. i \in 1 .. n /\ (i = mid + 1 \/ i < mid + 1)
          BY <1>0, <2>1
        <4> QED BY <1>0, <2>2, <2>3, <2>6, <4>1
      <3> QED BY <1>0, <2>1, <2>6, <3>1, BeginKeepsInv
    <2> QED BY <2>4, <2>5, <2>6
  <1> QED BY <1>0, <1>1, <1>2

LEMMA LookupBegins ==
  ASSUME NEW b, getAtBlock(b) \/ getAtProbablyRecentBlock(b)
  PROVE  Points' = Points /\ History!Next /\ block' = block /\ ckpts' = ckpts
  <1>1. \E k, lo, hi : Begin("upper", k, lo, hi)
    BY DEF getAtBlock, getAtProbablyRecentBlock
  <1>2. ckpts' = ckpts
    BY <1>1 DEF Begin
  <1> QED BY <1>1, <1>2, BeginWaits DEF getAtBlock, getAtProbablyRecentBlock

LEMMA HistoryStep ==
  ASSUME HInv, [HistoryNext]_hvars
  PROVE  /\ HInv'
         /\ History!Next \/ UNCHANGED <<Points, answer>>
  <1>0. ckpts' = ckpts /\ block' \in Nat /\ block' >= block => NoFutureCheckpoint' /\ Spread'
    <2> SUFFICES ASSUME ckpts' = ckpts, block' \in Nat, block' >= block
                 PROVE  NoFutureCheckpoint' /\ Spread'
      OBVIOUS
    <2>1. \A i \in 1 .. Len(ckpts) : ckpts[i].key \in Int
      BY Elements, Widths DEF HInv, IInv, TypeOK
    <2>2. \A i \in 1 .. Len(ckpts) : ckpts[i].key <= block /\ block \in Int
      BY DEF HInv, NoFutureCheckpoint
    <2>3. NoFutureCheckpoint'
      BY <2>1, <2>2 DEF NoFutureCheckpoint
    <2> QED BY <2>3 DEF HInv, Spread
  <1>1. CASE \E v : pushValue(v)
    BY <1>1, PushValueStep
  <1>2. CASE \E b \in 0 .. MaxBlock : getAtBlock(b)
    <2>1. PICK b \in 0 .. MaxBlock : getAtBlock(b)
      BY <1>2
    <2>2. b \in Keys /\ Begin("upper", b, 0, length)
      BY <2>1 DEF getAtBlock, toUint32
    <2>3. IInv'
      BY <2>2, BeginWhole DEF HInv
    <2> QED BY <1>0, <2>1, <2>3, LookupBegins DEF HInv
  <1>3. CASE \E b \in 0 .. MaxBlock : getAtProbablyRecentBlock(b)
    BY <1>0, <1>3, RecentKeepsInv, LookupBegins DEF HInv
  <1>4. CASE Mine
    BY <1>0, <1>4, StutterKeeps DEF HInv, Mine, cvars
  <1>5. CASE (latest \/ latestCheckpoint \/ LookupStep) /\ UNCHANGED block
    <2>1. ckpts' = ckpts
      BY <1>5 DEF LookupStep, latest, latestCheckpoint, upperBinaryLookup,
                  lowerBinaryLookup, upperResult, lowerResult
    <2> QED BY <1>0, <1>5, <2>1, StepKeeps DEF HInv
  <1>6. CASE UNCHANGED hvars
    BY <1>0, <1>6, StutterKeeps DEF HInv, hvars, cvars
  <1> QED BY <1>1, <1>2, <1>3, <1>4, <1>5, <1>6 DEF HistoryNext, pushAdd, pushSubtract

LEMMA HistoryStarts == HistoryInit => HInv /\ History!Init
  BY InitKeeps DEF HistoryInit, HInv, CheckpointsInit, NoFutureCheckpoint, Spread

\* The array of a governance history is sorted and never ahead of the
\* chain, and its searches, the one that starts near the end included,
\* stay inside it and exclude only what they may.
THEOREM HistoryCorrect ==
  HistorySpec => [](TypeOK /\ KeysIncreasing /\ SearchSound /\ NoFutureCheckpoint)
  <1>1. HInv /\ [HistoryNext]_hvars => HInv'
    BY HistoryStep
  <1>2. HInv => TypeOK /\ KeysIncreasing /\ SearchSound /\ NoFutureCheckpoint
    BY DEF HInv, IInv
  <1> QED BY HistoryStarts, <1>1, <1>2, PTL DEF HistorySpec

\* Every lookup of a history answers as the history of points does.
THEOREM HistoryImplementsHistory == HistorySpec => ImplementsHistory
  <1>1. HInv /\ [HistoryNext]_hvars => HInv' /\ [History!Next]_<<Points, answer>>
    BY HistoryStep
  <1> QED BY HistoryStarts, <1>1, PTL DEF HistorySpec, ImplementsHistory, History!Spec

\* The past is immutable: the value at a block that is over never changes.
THEOREM HistoryPastFixed == HistorySpec => PastFixed
  <1>1. ASSUME HInv, HistoryNext, NEW q \in Keys, NEW w \in Values,
               q < block, History!IsUpper(Points, q, w)
        PROVE  History!IsUpper(Points', q, w)
    <2>1. CASE \E v : pushValue(v)
      BY <1>1, <2>1, PushValueStep, InsertKeepsOlder DEF HInv
    <2>2. CASE \E b \in 0 .. MaxBlock : getAtBlock(b) \/ getAtProbablyRecentBlock(b)
      BY <1>1, <2>2, LookupBegins
    <2>3. CASE Mine
      BY <1>1, <2>3 DEF Mine, cvars, Points
    <2>4. CASE latest \/ latestCheckpoint \/ LookupStep
      BY <1>1, <2>4, StepKeeps DEF HInv
    <2> QED BY <1>1, <2>1, <2>2, <2>3, <2>4 DEF HistoryNext, pushAdd, pushSubtract
  <1>2. HInv /\ [HistoryNext]_hvars
          => HInv' /\ [\A k \in Keys, v \in Values :
                         k < block /\ History!IsUpper(Points, k, v)
                           => History!IsUpper(Points', k, v)]_hvars
    BY <1>1, HistoryStep
  <1> QED BY HistoryStarts, <1>2, PTL DEF HistorySpec, PastFixed
=============================================================================
