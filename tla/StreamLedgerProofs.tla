-------------------------- MODULE StreamLedgerProofs --------------------------
(***************************************************************************)
(* What TLAPS proves of StreamPayments about counting: how many coverage   *)
(* streams there are, and what the token ledgers, the events and the       *)
(* promises sum up to.                                                     *)
(*                                                                         *)
(* The sums of the model range over the streams of a reserve, however many *)
(* those are.  The first part shows what MapThenSumSet computes, by        *)
(* induction over the size of the set.                                     *)
(***************************************************************************)
EXTENDS StreamPaymentsProofs, FiniteSetTheorems

(* A set of naturals has a least element, by the library's well-           *)
(* foundedness.                                                            *)
LEMMA Least ==
  ASSUME NEW S \in SUBSET Nat, S # {}
  PROVE  \E n \in S : \A m \in S : n <= m
<1>1. PICK n \in S : \A m \in S : <<m, n>> \notin OpToRel(<, Nat)
  BY NatLessThanWellFounded, WFMin
<1>2. \A m \in S : ~(m < n)
  BY <1>1 DEF OpToRel
<1> QED
  BY <1>2

(* Induction over the naturals, for a set instead of a predicate.          *)
LEMMA Induction ==
  ASSUME NEW S, 0 \in S, \A n \in Nat : n \in S => n + 1 \in S
  PROVE  Nat \subseteq S
<1> SUFFICES ASSUME Nat \ S # {} PROVE FALSE
  OBVIOUS
<1>1. PICK n \in Nat \ S : \A m \in Nat \ S : n <= m
  BY Least, Nat \ S \in SUBSET Nat
<1>2. n # 0 /\ n - 1 \in Nat /\ n - 1 < n
  BY <1>1
<1>3. n - 1 \in S
  BY <1>1, <1>2
<1>4. n - 1 + 1 \in S
  BY <1>2, <1>3
<1> QED
  BY <1>1, <1>4
-----------------------------------------------------------------------------
Sum(f, S) == MapThenSumSet(LAMBDA x : f[x], S)

one(s) == CHOOSE x \in s : TRUE

\* What MapThenSumSet computes, for every subset of S.
Sums(it, f, S) ==
  it = [s \in SUBSET S |-> IF s = {} THEN 0 ELSE f[one(s)] + it[s \ {one(s)}]]

(* Taking the chosen element out leaves a set with one element fewer.      *)
LEMMA SmallerSet ==
  ASSUME NEW s, IsFiniteSet(s), s # {}
  PROVE  /\ one(s) \in s
         /\ IsFiniteSet(s \ {one(s)}) /\ Cardinality(s \ {one(s)}) = Cardinality(s) - 1
         /\ Cardinality(s) \in Nat /\ Cardinality(s) - 1 \in Nat
<1>1. one(s) \in s
  BY DEF one
<1>2. /\ IsFiniteSet(s \ {one(s)})
      /\ Cardinality(s \ {one(s)}) = Cardinality(s) - 1
  BY <1>1, FS_RemoveElement
<1>3. Cardinality(s) \in Nat /\ Cardinality(s \ {one(s)}) \in Nat
  BY <1>2, FS_CardinalityType
<1> QED
  BY <1>1, <1>2, <1>3

(* There is such a function for every finite set: by induction over the    *)
(* size.                                                                   *)
LEMMA SumsExist ==
  ASSUME NEW f, NEW S, IsFiniteSet(S)
  PROVE  \E it : Sums(it, f, S)
<1> DEFINE UpTo(n) == {s \in SUBSET S : Cardinality(s) <= n}
           Is(it, n) == it = [s \in UpTo(n) |-> IF s = {} THEN 0
                                                ELSE f[one(s)] + it[s \ {one(s)}]]
           N == {n \in Nat : \E it : Is(it, n)}
<1>1. \A s \in SUBSET S : IsFiniteSet(s) /\ Cardinality(s) \in Nat
  BY FS_Subset, FS_CardinalityType
<1>2. 0 \in N
  <2> DEFINE it == [s \in UpTo(0) |-> 0]
  <2>1. \A s \in UpTo(0) : s = {}
    <3>1. \A s \in UpTo(0) : Cardinality(s) = 0 /\ IsFiniteSet(s)
      BY <1>1
    <3> QED
      BY <3>1, FS_EmptySet
  <2>2. Is(it, 0)
    BY <2>1
  <2> QED
    BY <2>2
<1>3. ASSUME NEW n \in Nat, n \in N
      PROVE  n + 1 \in N
  <2>1. PICK it : Is(it, n)
    BY <1>3
  <2> DEFINE jt == [s \in UpTo(n + 1) |-> IF s = {} THEN 0
                                          ELSE f[one(s)] + it[s \ {one(s)}]]
  <2>2. ASSUME NEW s \in UpTo(n + 1), s # {}
        PROVE  s \ {one(s)} \in UpTo(n) /\ jt[s \ {one(s)}] = it[s \ {one(s)}]
    <3>1. s \ {one(s)} \in UpTo(n)
      BY <1>1, <2>2, SmallerSet
    <3>2. UpTo(n) \subseteq UpTo(n + 1)
      BY <1>1
    <3> QED
      BY <2>1, <3>1, <3>2
  <2> DEFINE kt == [s \in UpTo(n + 1) |-> IF s = {} THEN 0
                                          ELSE f[one(s)] + jt[s \ {one(s)}]]
  <2>3. \A s \in UpTo(n + 1) : s # {} => jt[s \ {one(s)}] = it[s \ {one(s)}]
    BY <2>2
  <2>4. jt = kt
    BY <2>3
  <2>5. Is(jt, n + 1)
    BY <2>4
  <2>6. n + 1 \in Nat
    OBVIOUS
  <2> QED
    BY <2>5, <2>6
<1>4. Nat \subseteq N
  <2> HIDE DEF N
  <2> QED
    BY <1>2, <1>3, Induction
<1>5. PICK it : Is(it, Cardinality(S))
  BY <1>1, <1>4
<1>6. UpTo(Cardinality(S)) = SUBSET S
  BY FS_Subset
<1>7. Sums(it, f, S)
  BY <1>5, <1>6 DEF Sums
<1> QED
  BY <1>7

(* So MapThenSumSet computes it.                                           *)
LEMMA SumIs ==
  ASSUME NEW f, NEW S, IsFiniteSet(S)
  PROVE  \E it : Sums(it, f, S) /\ Sum(f, S) = it[S]
<1>1. Sum(f, S) = (CHOOSE it : Sums(it, f, S))[S]
  BY DEF Sum, MapThenSumSet, MapThenFoldSet, Sums, one
<1>2. Sums(CHOOSE it : Sums(it, f, S), f, S)
  BY SumsExist
<1> QED
  BY <1>1, <1>2

(* Sums over a set depend on what is summed only.                          *)
LEMMA SumsAgree ==
  ASSUME NEW f, NEW S, NEW it, Sums(it, f, S), NEW g, NEW T, NEW jt, Sums(jt, g, T),
         NEW U, IsFiniteSet(U), U \subseteq S, U \subseteq T, \A x \in U : f[x] = g[x]
  PROVE  it[U] = jt[U]
<1> DEFINE N == {n \in Nat : \A s \in SUBSET U : Cardinality(s) = n => it[s] = jt[s]}
<1>1. \A s \in SUBSET U : IsFiniteSet(s) /\ Cardinality(s) \in Nat
  BY FS_Subset, FS_CardinalityType
<1>2. \A s \in SUBSET U :
        /\ it[s] = IF s = {} THEN 0 ELSE f[one(s)] + it[s \ {one(s)}]
        /\ jt[s] = IF s = {} THEN 0 ELSE g[one(s)] + jt[s \ {one(s)}]
  BY DEF Sums
<1>3. 0 \in N
  BY <1>1, <1>2, FS_EmptySet
<1>4. ASSUME NEW n \in Nat, n \in N
      PROVE  n + 1 \in N
  <2> SUFFICES ASSUME NEW s \in SUBSET U, Cardinality(s) = n + 1
               PROVE  it[s] = jt[s]
    OBVIOUS
  <2>1. s # {}
    BY FS_EmptySet
  <2>2. one(s) \in U /\ Cardinality(s \ {one(s)}) = n
    BY <1>1, <2>1, SmallerSet
  <2>3. it[s \ {one(s)}] = jt[s \ {one(s)}]
    BY <1>4, <2>2
  <2> QED
    BY <1>2, <2>1, <2>2, <2>3
<1>5. Nat \subseteq N
  <2> HIDE DEF N
  <2> QED
    BY <1>3, <1>4, Induction
<1> QED
  BY <1>1, <1>5

(* The order in which elements are chosen does not matter: first the type. *)
LEMMA SumsNatural ==
  ASSUME NEW f, NEW S, IsFiniteSet(S), \A x \in S : f[x] \in Nat, NEW it, Sums(it, f, S)
  PROVE  \A s \in SUBSET S : it[s] \in Nat
<1> DEFINE N == {n \in Nat : \A s \in SUBSET S : Cardinality(s) = n => it[s] \in Nat}
<1>1. \A s \in SUBSET S : IsFiniteSet(s) /\ Cardinality(s) \in Nat
  BY FS_Subset, FS_CardinalityType
<1>2. \A s \in SUBSET S : it[s] = IF s = {} THEN 0 ELSE f[one(s)] + it[s \ {one(s)}]
  BY DEF Sums
<1>3. 0 \in N
  BY <1>1, <1>2, FS_EmptySet
<1>4. ASSUME NEW n \in Nat, n \in N
      PROVE  n + 1 \in N
  <2> SUFFICES ASSUME NEW s \in SUBSET S, Cardinality(s) = n + 1
               PROVE  it[s] \in Nat
    OBVIOUS
  <2>1. s # {}
    BY FS_EmptySet
  <2>2. one(s) \in S /\ Cardinality(s \ {one(s)}) = n
    BY <1>1, <2>1, SmallerSet
  <2>3. it[s \ {one(s)}] \in Nat
    BY <1>4, <2>2
  <2> QED
    BY <1>2, <2>1, <2>2, <2>3
<1>5. Nat \subseteq N
  <2> HIDE DEF N
  <2> QED
    BY <1>3, <1>4, Induction
<1> QED
  BY <1>1, <1>5

(* So a sum can be taken apart at any of its elements.                     *)
LEMMA SumsSplit ==
  ASSUME NEW f, NEW S, IsFiniteSet(S), \A x \in S : f[x] \in Nat, NEW it, Sums(it, f, S)
  PROVE  \A s \in SUBSET S : \A x \in s : it[s] = f[x] + it[s \ {x}]
<1> DEFINE Ok(s) == \A x \in s : it[s] = f[x] + it[s \ {x}]
           N == {n \in Nat : \A s \in SUBSET S : Cardinality(s) = n => Ok(s)}
<1>1. \A s \in SUBSET S : IsFiniteSet(s) /\ Cardinality(s) \in Nat
  BY FS_Subset, FS_CardinalityType
<1>2. \A s \in SUBSET S : it[s] = IF s = {} THEN 0 ELSE f[one(s)] + it[s \ {one(s)}]
  BY DEF Sums
<1>3. 0 \in N
  BY <1>1, FS_EmptySet
<1>4. ASSUME NEW n \in Nat, n \in N
      PROVE  n + 1 \in N
  <2>1. \A s \in SUBSET S : Cardinality(s) = n => Ok(s)
    BY <1>4
  <2> SUFFICES ASSUME NEW s \in SUBSET S, Cardinality(s) = n + 1, NEW x \in s
               PROVE  it[s] = f[x] + it[s \ {x}]
    OBVIOUS
  <2> DEFINE c == one(s)
             t == s \ {c}
             u == s \ {x}
  <2>2. c \in s /\ it[s] = f[c] + it[t]
    <3>1. it[s] = IF s = {} THEN 0 ELSE f[one(s)] + it[s \ {one(s)}]
      BY <1>2
    <3>2. c \in s
      BY <1>1, SmallerSet
    <3> QED
      BY <3>1, <3>2
  <2> HIDE DEF c
  <2>3. x # c => c \in u /\ x \in t /\ t \ {x} = u \ {c}
    BY <2>2
  <2>4. t \in SUBSET S /\ u \in SUBSET S /\ Cardinality(t) = n /\ Cardinality(u) = n
    <3>1. ASSUME NEW y \in s
          PROVE  s \ {y} \in SUBSET S /\ Cardinality(s \ {y}) = n
      BY <1>1, FS_RemoveElement
    <3>2. Cardinality(s \ {c}) = n /\ Cardinality(s \ {x}) = n
      BY <2>2, <3>1
    <3> QED
      BY <3>2
  <2>5. t \ {x} \in SUBSET S
    OBVIOUS
  <2>6. x = c => t = u
    OBVIOUS
  <2> HIDE DEF t, u
  <2>7. x # c => it[t] = f[x] + it[t \ {x}] /\ it[u] = f[c] + it[t \ {x}]
    <3>1. Ok(t) /\ Ok(u)
      BY <2>1, <2>4
    <3> QED
      BY <2>3, <3>1
  <2>8. it[t \ {x}] \in Nat /\ f[x] \in Nat /\ f[c] \in Nat
    BY <2>2, <2>5, SumsNatural
  <2>9. it[s] = f[x] + it[u]
    <3>1. CASE x = c
      BY <2>2, <2>6, <3>1
    <3>2. CASE x # c
      <4>1. it[s] = f[c] + (f[x] + it[t \ {x}])
        BY <2>2, <2>7, <3>2
      <4>2. f[x] + it[u] = f[x] + (f[c] + it[t \ {x}])
        BY <2>7, <3>2
      <4> QED
        BY <2>8, <4>1, <4>2
    <3> QED
      BY <3>1, <3>2
  <2> QED
    BY <2>9 DEF u
<1>5. Nat \subseteq N
  <2> HIDE DEF N
  <2> QED
    BY <1>3, <1>4, Induction
<1> QED
  BY <1>1, <1>5

(* A sum over a finite set, taken apart at any element.                    *)
LEMMA SumSplit ==
  ASSUME NEW f, NEW S, IsFiniteSet(S), \A x \in S : f[x] \in Nat, NEW x \in S
  PROVE  Sum(f, S) = f[x] + Sum(f, S \ {x})
<1> DEFINE R == S \ {x}
<1>1. IsFiniteSet(R)
  BY FS_RemoveElement
<1>2. PICK it : Sums(it, f, S) /\ Sum(f, S) = it[S]
  BY SumIs
<1>3. PICK jt : Sums(jt, f, R) /\ Sum(f, R) = jt[R]
  BY <1>1, SumIs
<1>4. it[R] = jt[R]
  <2>1. R \subseteq S /\ R \subseteq R /\ \A y \in R : f[y] = f[y]
    OBVIOUS
  <2> HIDE DEF R
  <2> QED
    BY <1>1, <1>2, <1>3, <2>1, SumsAgree
<1>5. it[S] = f[x] + it[R]
  BY <1>2, SumsSplit
<1> QED
  BY <1>2, <1>3, <1>4, <1>5

(* A sum of naturals is a natural.                                         *)
LEMMA SumNat ==
  ASSUME NEW f, NEW S, IsFiniteSet(S), \A x \in S : f[x] \in Nat
  PROVE  Sum(f, S) \in Nat
<1>1. PICK it : Sums(it, f, S) /\ Sum(f, S) = it[S]
  BY SumIs
<1> QED
  BY <1>1, SumsNatural

(* The empty sum is 0.                                                     *)
LEMMA SumEmpty ==
  ASSUME NEW f
  PROVE  Sum(f, {}) = 0
<1>1. PICK it : Sums(it, f, {}) /\ Sum(f, {}) = it[{}]
  BY SumIs, FS_EmptySet
<1> QED
  BY <1>1 DEF Sums

(* The sums of the same terms are the same.                                *)
LEMMA SumSame ==
  ASSUME NEW f, NEW g, NEW S, IsFiniteSet(S), \A x \in S : f[x] = g[x]
  PROVE  Sum(f, S) = Sum(g, S)
<1>1. PICK it : Sums(it, f, S) /\ Sum(f, S) = it[S]
  BY SumIs
<1>2. PICK jt : Sums(jt, g, S) /\ Sum(g, S) = jt[S]
  BY SumIs
<1> QED
  BY <1>1, <1>2, SumsAgree

(* One term more.                                                          *)
LEMMA SumAdd ==
  ASSUME NEW f, NEW S, IsFiniteSet(S), NEW y, y \notin S, \A x \in S \union {y} : f[x] \in Nat
  PROVE  Sum(f, S \union {y}) = Sum(f, S) + f[y]
<1>1. IsFiniteSet(S \union {y})
  BY FS_AddElement
<1>2. Sum(f, S \union {y}) = f[y] + Sum(f, (S \union {y}) \ {y})
  BY <1>1, SumSplit
<1>3. (S \union {y}) \ {y} = S
  OBVIOUS
<1>4. Sum(f, S) \in Nat /\ f[y] \in Nat
  BY SumNat
<1> QED
  BY <1>2, <1>3, <1>4

(* One term changed.                                                       *)
LEMMA SumChanged ==
  ASSUME NEW f, NEW g, NEW S, IsFiniteSet(S), \A x \in S : f[x] \in Nat /\ g[x] \in Nat,
         NEW y \in S, \A x \in S \ {y} : f[x] = g[x]
  PROVE  Sum(g, S) = Sum(f, S) - f[y] + g[y]
<1>1. IsFiniteSet(S \ {y})
  BY FS_RemoveElement
<1>2. Sum(f, S) = f[y] + Sum(f, S \ {y}) /\ Sum(g, S) = g[y] + Sum(g, S \ {y})
  BY SumSplit
<1>3. Sum(f, S \ {y}) = Sum(g, S \ {y})
  BY <1>1, SumSame
<1>4. Sum(f, S \ {y}) \in Nat /\ f[y] \in Nat /\ g[y] \in Nat
  BY <1>1, SumNat
<1> QED
  BY <1>2, <1>3, <1>4

(* What holds of the terms holds of the sums.                              *)
LEMMA SumBound ==
  ASSUME NEW f, NEW g, NEW h, NEW S, IsFiniteSet(S),
         \A x \in S : f[x] \in Nat /\ g[x] \in Nat /\ h[x] \in Nat /\ f[x] + g[x] <= h[x]
  PROVE  Sum(f, S) + Sum(g, S) <= Sum(h, S)
<1> DEFINE Ok(s) == Sum(f, s) + Sum(g, s) <= Sum(h, s)
           N == {n \in Nat : \A s \in SUBSET S : Cardinality(s) = n => Ok(s)}
<1>1. \A s \in SUBSET S : IsFiniteSet(s) /\ Cardinality(s) \in Nat
  BY FS_Subset, FS_CardinalityType
<1>2. 0 \in N
  <2>1. ASSUME NEW s \in SUBSET S, Cardinality(s) = 0
        PROVE  Ok(s)
    <3>1. s = {}
      BY <1>1, <2>1, FS_EmptySet
    <3>2. Sum(f, s) = 0 /\ Sum(g, s) = 0 /\ Sum(h, s) = 0
      BY <3>1, SumEmpty
    <3> QED
      BY <3>2
  <2> HIDE DEF Ok
  <2> QED
    BY <2>1
<1>3. ASSUME NEW n \in Nat, n \in N
      PROVE  n + 1 \in N
  <2>1. ASSUME NEW s \in SUBSET S, Cardinality(s) = n + 1
        PROVE  Ok(s)
    <3>1. PICK y \in s : TRUE
      BY <2>1, FS_EmptySet
    <3> DEFINE r == s \ {y}
    <3>2. r \in SUBSET S /\ Cardinality(r) = n
      <4>1. IsFiniteSet(s)
        BY <1>1
      <4>2. Cardinality(r) = Cardinality(s) - 1
        BY <3>1, <4>1, FS_RemoveElement
      <4> QED
        BY <2>1, <4>2
    <3>3. Ok(r)
      <4> HIDE DEF Ok, r
      <4> QED
        BY <1>3, <3>2
    <3>4. /\ Sum(f, s) = f[y] + Sum(f, r)
          /\ Sum(g, s) = g[y] + Sum(g, r)
          /\ Sum(h, s) = h[y] + Sum(h, r)
      BY <1>1, SumSplit
    <3>5. Sum(f, r) \in Nat /\ Sum(g, r) \in Nat /\ Sum(h, r) \in Nat
      BY <1>1, <3>2, SumNat
    <3>6. f[y] \in Nat /\ g[y] \in Nat /\ h[y] \in Nat /\ f[y] + g[y] <= h[y]
      OBVIOUS
    <3> HIDE DEF r
    <3> QED
      BY <3>3, <3>4, <3>5, <3>6
  <2> HIDE DEF Ok
  <2> QED
    BY <2>1
<1>4. Nat \subseteq N
  <2> HIDE DEF N
  <2> QED
    BY <1>2, <1>3, Induction
<1>5. S \in SUBSET S /\ Cardinality(S) \in Nat
  BY <1>1
<1>6. Ok(S)
  <2> HIDE DEF Ok
  <2> QED
    BY <1>4, <1>5
<1> QED
  BY <1>6
-----------------------------------------------------------------------------
(* The sums of the model.                                                  *)

(* The ids of the streams are finitely many.                               *)
LEMMA IdsFinite ==
  /\ IsFiniteSet(StreamIds)
  /\ \A S \in SUBSET StreamIds : IsFiniteSet(S)
<1>1. IsFiniteSet(StreamIds)
  BY FS_Interval, ReserveAssumption DEF StreamIds
<1> QED
  BY <1>1, FS_Subset

PaidIn(r, S) == Sum(received[r], S)
PaidIds(h, r, token) == {id \in StreamsIn(r, token) : terms[r][id].recipient = h}
DepositOf(r) == [id \in StreamIds |-> terms[r][id].deposit]
RemainingOf(r) == [id \in StreamIds |-> streams[r][id].remainingBalance]

(* The sums over payments, and over the holders of a token.                *)
LEMMA PaidAsSum ==
  ASSUME NEW r, NEW token
  PROVE  /\ PaidBy(r, token) = PaidIn(r, StreamsIn(r, token))
         /\ \A h : PaidTo(h, r, token) = PaidIn(r, PaidIds(h, r, token))
         /\ MapThenSumSet(LAMBDA h : balances[token][h], Holders)
              = Sum(balances[token], Holders)
BY DEF PaidBy, PaidTo, PaidIn, PaidIds, Sum

(* The sum of the deposits.                                                *)
LEMMA DepositsAsSum ==
  ASSUME NEW r, NEW token
  PROVE  Promised(r, token) = Sum(DepositOf(r), StreamsIn(r, token))
<1> DEFINE S == StreamsIn(r, token)
           P(it) == it = [s \in SUBSET S |->
                      IF s = {} THEN 0
                      ELSE terms[r][one(s)].deposit + it[s \ {one(s)}]]
<1>1. Promised(r, token) = (CHOOSE it : P(it))[S]
  BY DEF Promised, MapThenSumSet, MapThenFoldSet, one
<1>2. \A it : P(it) <=> Sums(it, DepositOf(r), S)
  <2>1. ASSUME NEW s \in SUBSET S, s # {}
        PROVE  terms[r][one(s)].deposit = DepositOf(r)[one(s)]
    <3>1. one(s) \in StreamIds
      BY <2>1 DEF one, StreamsIn
    <3> QED
      BY <3>1 DEF DepositOf
  <2> QED
    BY <2>1 DEF Sums
<1>3. IsFiniteSet(S)
  BY IdsFinite DEF StreamsIn
<1> HIDE DEF P, S
<1>4. PICK it : Sums(it, DepositOf(r), S)
  BY <1>3, SumsExist
<1>5. P(CHOOSE jt : P(jt))
  BY <1>2, <1>4
<1>6. PICK kt : Sums(kt, DepositOf(r), S) /\ Sum(DepositOf(r), S) = kt[S]
  BY <1>3, SumIs
<1>7. Sums(CHOOSE jt : P(jt), DepositOf(r), S)
  BY <1>2, <1>5
<1>8. (CHOOSE jt : P(jt))[S] = kt[S]
  BY <1>3, <1>6, <1>7, SumsAgree
<1> QED
  BY <1>1, <1>6, <1>8 DEF S

(* The sum of what remains to be paid.                                     *)
LEMMA RemaindersAsSum ==
  ASSUME NEW r, NEW token
  PROVE  Outstanding(r, token) = Sum(RemainingOf(r), StreamsIn(r, token))
<1> DEFINE S == StreamsIn(r, token)
           P(it) == it = [s \in SUBSET S |->
                      IF s = {} THEN 0
                      ELSE streams[r][one(s)].remainingBalance + it[s \ {one(s)}]]
<1>1. Outstanding(r, token) = (CHOOSE it : P(it))[S]
  BY DEF Outstanding, MapThenSumSet, MapThenFoldSet, one
<1>2. \A it : P(it) <=> Sums(it, RemainingOf(r), S)
  <2>1. ASSUME NEW s \in SUBSET S, s # {}
        PROVE  streams[r][one(s)].remainingBalance = RemainingOf(r)[one(s)]
    <3>1. one(s) \in StreamIds
      BY <2>1 DEF one, StreamsIn
    <3> QED
      BY <3>1 DEF RemainingOf
  <2> QED
    BY <2>1 DEF Sums
<1>3. IsFiniteSet(S)
  BY IdsFinite DEF StreamsIn
<1> HIDE DEF P, S
<1>4. PICK it : Sums(it, RemainingOf(r), S)
  BY <1>3, SumsExist
<1>5. P(CHOOSE jt : P(jt))
  BY <1>2, <1>4
<1>6. PICK kt : Sums(kt, RemainingOf(r), S) /\ Sum(RemainingOf(r), S) = kt[S]
  BY <1>3, SumIs
<1>7. Sums(CHOOSE jt : P(jt), RemainingOf(r), S)
  BY <1>2, <1>5
<1>8. (CHOOSE jt : P(jt))[S] = kt[S]
  BY <1>3, <1>6, <1>7, SumsAgree
<1> QED
  BY <1>1, <1>6, <1>8 DEF S

(* The four holders, one by one.                                           *)
Total(b) == b["COLLECTOR"] + b["ECOSYSTEM_RESERVE"] + b["CHAOS_RECIPIENT"] + b["ELSEWHERE"]

(* Their sum, spelled out.                                                 *)
LEMMA SumOfHolders ==
  ASSUME NEW b \in [Holders -> Nat]
  PROVE  Sum(b, Holders) = Total(b)
<1> DEFINE S1 == {"ELSEWHERE"}
           S2 == S1 \union {"CHAOS_RECIPIENT"}
           S3 == S2 \union {"ECOSYSTEM_RESERVE"}
           S4 == S3 \union {"COLLECTOR"}
<1>1. Holders = S4 /\ S1 = {} \union {"ELSEWHERE"}
  BY DEF Holders, Reserves
<1>2. /\ IsFiniteSet({}) /\ IsFiniteSet(S1) /\ IsFiniteSet(S2) /\ IsFiniteSet(S3)
  BY FS_EmptySet, FS_AddElement
<1>3. \A h \in Holders : b[h] \in Nat
  OBVIOUS
<1>4. Sum(b, S1) = b["ELSEWHERE"]
  <2>1. Sum(b, {} \union {"ELSEWHERE"}) = Sum(b, {}) + b["ELSEWHERE"]
    BY <1>1, <1>2, <1>3, SumAdd
  <2> QED
    BY <1>1, <1>3, <2>1, SumEmpty
<1>5. Sum(b, S2) = Sum(b, S1) + b["CHAOS_RECIPIENT"]
  BY <1>1, <1>2, <1>3, SumAdd
<1>6. Sum(b, S3) = Sum(b, S2) + b["ECOSYSTEM_RESERVE"]
  BY <1>1, <1>2, <1>3, SumAdd
<1>7. Sum(b, S4) = Sum(b, S3) + b["COLLECTOR"]
  BY <1>1, <1>2, <1>3, SumAdd
<1>8. /\ b["ELSEWHERE"] \in Nat /\ b["CHAOS_RECIPIENT"] \in Nat
      /\ b["ECOSYSTEM_RESERVE"] \in Nat /\ b["COLLECTOR"] \in Nat
  BY DEF Holders, Reserves
<1> HIDE DEF S1, S2, S3, S4
<1> QED
  BY <1>1, <1>4, <1>5, <1>6, <1>7, <1>8 DEF Total
-----------------------------------------------------------------------------
(* The ledgers.  Solvent is not inductive: it says nothing of a reserve    *)
(* that has promised too much, which may yet hold enough again when such a *)
(* stream ends.  What is inductive is that nothing leaves a reserve except *)
(* through its streams and through governance.                             *)

CHAOS == "CHAOS_RECIPIENT"

LedgerInv(token) ==
  /\ Total(balances[token]) = Holdings
  /\ balances[token][CHAOS] =
       PaidTo(CHAOS, "COLLECTOR", token) + PaidTo(CHAOS, "ECOSYSTEM_RESERVE", token)
  /\ \A r \in Reserves :
       balances[token][r] + PaidBy(r, token) + Spent(token) >= InitialHolding(r, token)

(* What was paid is a natural, by whatever stream and to whomever.         *)
LEMMA PaidNat ==
  ASSUME TypeOK, NEW r \in Reserves, NEW token, NEW h
  PROVE  PaidBy(r, token) \in Nat /\ PaidTo(h, r, token) \in Nat
<1>1. ASSUME NEW S \in SUBSET StreamIds
      PROVE  PaidIn(r, S) \in Nat
  <2>1. IsFiniteSet(S) /\ \A id \in S : received[r][id] \in Nat
    BY IdsFinite DEF TypeOK
  <2> QED
    BY <2>1, SumNat DEF PaidIn
<1>2. /\ StreamsIn(r, token) \in SUBSET StreamIds
      /\ PaidIds(h, r, token) \in SUBSET StreamIds
  BY DEF StreamsIn, PaidIds
<1> QED
  BY <1>1, <1>2, PaidAsSum

(* The sums of the next state.                                             *)
LEMMA PaidAsSumNext ==
  ASSUME NEW r, NEW token
  PROVE  /\ PaidBy(r, token)' = Sum(received'[r], StreamsIn(r, token)')
         /\ \A h : PaidTo(h, r, token)' = Sum(received'[r], PaidIds(h, r, token)')
<1>1. PaidBy(r, token)' = PaidIn(r, StreamsIn(r, token))'
  BY DEF PaidBy, PaidIn, Sum, MapThenSumSet, MapThenFoldSet
<1>2. ASSUME NEW h PROVE PaidTo(h, r, token)' = PaidIn(r, PaidIds(h, r, token))'
  BY DEF PaidTo, PaidIn, PaidIds, Sum, MapThenSumSet, MapThenFoldSet
<1>3. PaidIn(r, StreamsIn(r, token))' = Sum(received'[r], StreamsIn(r, token)')
  BY DEF PaidIn
<1>4. ASSUME NEW h
      PROVE  PaidIn(r, PaidIds(h, r, token))' = Sum(received'[r], PaidIds(h, r, token)')
  BY DEF PaidIn
<1> QED
  BY <1>1, <1>2, <1>3, <1>4

(* The sums stay when neither the streams' terms nor the payments change.  *)
LEMMA PaidUnchanged ==
  ASSUME UNCHANGED <<received, terms, nextStreamId>>, NEW r, NEW token
  PROVE  /\ PaidBy(r, token)' = PaidBy(r, token)
         /\ \A h : PaidTo(h, r, token)' = PaidTo(h, r, token)
<1>1. StreamsIn(r, token)' = StreamsIn(r, token)
  BY DEF StreamsIn, Created
<1>2. \A h : PaidIds(h, r, token)' = PaidIds(h, r, token)
  BY <1>1 DEF PaidIds
<1> QED
  BY <1>1, <1>2, PaidAsSum, PaidAsSumNext DEF PaidIn

(* A stream just created has paid nothing yet.                             *)
LEMMA PaidAtCreation ==
  ASSUME IInv, AddsStreams, NEW r \in Reserves, NEW token
  PROVE  /\ PaidBy(r, token)' = PaidBy(r, token)
         /\ \A h : PaidTo(h, r, token)' = PaidTo(h, r, token)
<1>1. TypeOK /\ received' = received /\ received \in [Reserves -> [StreamIds -> Nat]]
  BY DEF AddsStreams, IInv, TypeOK
<1>2. CASE ReserveUntouched(r)
  <2>1. StreamsIn(r, token)' = StreamsIn(r, token)
    BY <1>2 DEF StreamsIn, Created, ReserveUntouched
  <2>2. \A h : PaidIds(h, r, token)' = PaidIds(h, r, token)
    BY <1>2, <2>1 DEF PaidIds, ReserveUntouched
  <2> QED
    BY <1>1, <2>1, <2>2, PaidAsSum, PaidAsSumNext DEF PaidIn
<1>3. CASE OneStreamAdded(r)
  <2> DEFINE n == nextStreamId[r]
  <2>1. n \in StreamIds /\ nextStreamId'[r] = n + 1 /\ n \in Nat
    BY <1>1, <1>3, ReserveAssumption DEF OneStreamAdded, TypeOK
  <2>2. \A id \in StreamIds : id # n => terms'[r][id] = terms[r][id]
    BY <1>3 DEF OneStreamAdded
  <2>3. received[r][n] = 0 /\ ~Created(r, n)
    <3>1. ~Created(r, n)
      BY <2>1 DEF Created
    <3> QED
      BY <2>1, <3>1 DEF IInv, StreamInv, Fresh
  <2>4. ASSUME NEW id \in StreamIds, id # n
        PROVE  Created(r, id)' <=> Created(r, id)
    <3>1. id \in Nat
      BY ReserveAssumption DEF StreamIds
    <3> QED
      BY <2>1, <2>4, <3>1 DEF Created
  <2>5. ASSUME NEW S \in SUBSET StreamIds, NEW T \in SUBSET StreamIds, n \notin S,
               \A id \in StreamIds : id # n => (id \in T <=> id \in S)
        PROVE  Sum(received'[r], T) = PaidIn(r, S)
    <3>1. IsFiniteSet(S) /\ \A id \in StreamIds : received[r][id] \in Nat
      BY <1>1, IdsFinite
    <3>2. CASE n \in T
      <4>1. T = S \union {n}
        BY <2>5, <3>2
      <4>2. Sum(received[r], S \union {n}) = Sum(received[r], S) + received[r][n]
        BY <2>1, <2>5, <3>1, SumAdd
      <4>3. Sum(received[r], S) \in Nat
        BY <3>1, SumNat
      <4> QED
        BY <1>1, <2>3, <4>1, <4>2, <4>3 DEF PaidIn
    <3>3. CASE n \notin T
      <4>1. T = S
        BY <2>5, <3>3
      <4> QED
        BY <1>1, <4>1 DEF PaidIn
    <3> QED
      BY <3>2, <3>3
  <2>6. Sum(received'[r], StreamsIn(r, token)') = PaidIn(r, StreamsIn(r, token))
    <3>1. StreamsIn(r, token) \in SUBSET StreamIds /\ StreamsIn(r, token)' \in SUBSET StreamIds
      BY DEF StreamsIn
    <3>2. n \notin StreamsIn(r, token)
      BY <2>3 DEF StreamsIn
    <3>3. \A id \in StreamIds : id # n =>
            (id \in StreamsIn(r, token)' <=> id \in StreamsIn(r, token))
      BY <2>2, <2>4 DEF StreamsIn
    <3> HIDE DEF n
    <3> QED
      BY <2>5, <3>1, <3>2, <3>3
  <2>7. ASSUME NEW h
        PROVE  Sum(received'[r], PaidIds(h, r, token)') = PaidIn(r, PaidIds(h, r, token))
    <3>1. /\ PaidIds(h, r, token) \in SUBSET StreamIds
          /\ PaidIds(h, r, token)' \in SUBSET StreamIds
      BY DEF PaidIds, StreamsIn
    <3>2. n \notin PaidIds(h, r, token)
      BY <2>3 DEF PaidIds, StreamsIn
    <3>3. \A id \in StreamIds : id # n =>
            (id \in PaidIds(h, r, token)' <=> id \in PaidIds(h, r, token))
      BY <2>2, <2>4 DEF PaidIds, StreamsIn
    <3> HIDE DEF n
    <3> QED
      BY <2>5, <3>1, <3>2, <3>3
  <2> QED
    BY <2>6, <2>7, PaidAsSum, PaidAsSumNext
<1> QED
  BY <1>2, <1>3 DEF AddsStreams

\* A stream pays: what withdrawals and cancellations have in common.
Pays(r, id, amount) ==
  /\ streams[r][id].isEntity
  /\ transfer(streams[r][id].tokenAddress, r, streams[r][id].recipient, amount)
  /\ received' = [received EXCEPT ![r][id] = @ + amount]
  /\ UNCHANGED <<nextStreamId, terms>>

(* A payment shows in the sums that count its stream, and in no other.     *)
LEMMA PaidAtPayment ==
  ASSUME IInv, NEW r \in Reserves, NEW id \in StreamIds,
         NEW amount \in Nat, Pays(r, id, amount), NEW q \in Reserves, NEW token, NEW h
  PROVE  /\ PaidBy(q, token)' = PaidBy(q, token)
              + (IF q = r /\ token = streams[r][id].tokenAddress THEN amount ELSE 0)
         /\ PaidTo(h, q, token)' = PaidTo(h, q, token)
              + (IF /\ q = r /\ token = streams[r][id].tokenAddress
                    /\ h = streams[r][id].recipient
                 THEN amount ELSE 0)
<1>1. /\ TypeOK /\ StreamInv(r, id) /\ received \in [Reserves -> [StreamIds -> Nat]]
      /\ received' \in [Reserves -> [StreamIds -> Nat]]
      /\ streams[r][id].isEntity
  BY DEF IInv, TypeOK, Pays
<1>2. Created(r, id)
  BY <1>1 DEF StreamInv, Fresh
<1>3. /\ streams[r][id].recipient = terms[r][id].recipient
      /\ streams[r][id].tokenAddress = terms[r][id].tokenAddress
  BY <1>1, DueFacts
<1>4. ASSUME NEW S \in SUBSET StreamIds
      PROVE  Sum(received'[q], S)
               = PaidIn(q, S) + (IF q = r /\ id \in S THEN amount ELSE 0)
  <2> DEFINE f == received[q]
             g == received'[q]
  <2>1. \A i \in S : f[i] \in Nat /\ g[i] \in Nat
    BY <1>1
  <2>2. q = r => g[id] = f[id] + amount
    BY <1>1 DEF Pays
  <2>3. \A i \in S : q # r \/ i # id => g[i] = f[i]
    BY <1>1 DEF Pays
  <2>4. IsFiniteSet(S)
    BY IdsFinite
  <2> HIDE DEF f, g
  <2>5. Sum(f, S) \in Nat
    BY <2>1, <2>4, SumNat
  <2>6. CASE q = r /\ id \in S
    <3>1. Sum(g, S) = Sum(f, S) - f[id] + g[id]
      BY <2>1, <2>3, <2>4, <2>6, SumChanged
    <3>2. f[id] \in Nat /\ g[id] = f[id] + amount
      BY <2>1, <2>2, <2>6
    <3> QED
      BY <2>5, <2>6, <3>1, <3>2 DEF PaidIn, f, g
  <2>7. CASE ~(q = r /\ id \in S)
    <3>1. Sum(f, S) = Sum(g, S)
      BY <2>3, <2>4, <2>7, SumSame
    <3> QED
      BY <2>5, <2>7, <3>1 DEF PaidIn, f, g
  <2> QED
    BY <2>6, <2>7
<1>5. /\ StreamsIn(q, token)' = StreamsIn(q, token)
      /\ StreamsIn(q, token) \in SUBSET StreamIds
      /\ q = r => (id \in StreamsIn(q, token) <=> token = streams[r][id].tokenAddress)
  BY <1>2, <1>3 DEF StreamsIn, Created, Pays
<1>6. /\ PaidIds(h, q, token)' = PaidIds(h, q, token)
      /\ PaidIds(h, q, token) \in SUBSET StreamIds
      /\ q = r => (id \in PaidIds(h, q, token) <=> /\ token = streams[r][id].tokenAddress
                                                   /\ h = streams[r][id].recipient)
  BY <1>3, <1>5 DEF PaidIds, Pays
<1>7. PaidBy(q, token)' = PaidBy(q, token)
        + (IF q = r /\ token = streams[r][id].tokenAddress THEN amount ELSE 0)
  BY <1>4, <1>5, PaidAsSum, PaidAsSumNext
<1>8. PaidTo(h, q, token)' = PaidTo(h, q, token)
               + (IF /\ q = r /\ token = streams[r][id].tokenAddress
                     /\ h = streams[r][id].recipient
                  THEN amount ELSE 0)
  <2> DEFINE S == PaidIds(h, q, token)
  <2>1. /\ S \in SUBSET StreamIds
        /\ PaidTo(h, q, token)' = Sum(received'[q], S)
        /\ PaidTo(h, q, token) = PaidIn(q, S)
    BY <1>6, PaidAsSum, PaidAsSumNext
  <2>2. q = r => (id \in S <=> /\ token = streams[r][id].tokenAddress
                               /\ h = streams[r][id].recipient)
    BY <1>6
  <2> HIDE DEF S
  <2>3. Sum(received'[q], S) = PaidIn(q, S) + (IF q = r /\ id \in S THEN amount ELSE 0)
    BY <1>4, <2>1
  <2> QED
    BY <2>1, <2>2, <2>3
<1> QED
  BY <1>7, <1>8

(* What a transfer does to each holder.                                    *)
LEMMA TransferMoves ==
  ASSUME TypeOK, NEW token \in Tokens, NEW from \in Holders, NEW to \in Holders,
         NEW amount \in Nat, transfer(token, from, to, amount)
  PROVE  /\ \A other \in Tokens : other # token => balances'[other] = balances[other]
         /\ \A h \in Holders :
              balances'[token][h] = balances[token][h] - (IF h = from THEN amount ELSE 0)
                                                       + (IF h = to THEN amount ELSE 0)
         /\ Total(balances'[token]) = Total(balances[token])
<1>1. balances \in [Tokens -> [Holders -> Nat]]
  BY DEF TypeOK
<1>2. \A other \in Tokens : other # token => balances'[other] = balances[other]
  BY <1>1 DEF transfer
<1>3. \A h \in Holders :
        balances'[token][h] = balances[token][h] - (IF h = from THEN amount ELSE 0)
                                                 + (IF h = to THEN amount ELSE 0)
  BY <1>1 DEF transfer
<1>4. \A h \in Holders : balances[token][h] \in Nat
  BY <1>1
<1>5. Holders = {"COLLECTOR", "ECOSYSTEM_RESERVE", CHAOS, "ELSEWHERE"}
  BY DEF Holders, Reserves, CHAOS
<1>6. Total(balances'[token]) = Total(balances[token])
  BY <1>3, <1>4, <1>5 DEF Total, CHAOS
<1> QED
  BY <1>2, <1>3, <1>6

(* A step that leaves the ledger and the sums leaves the invariant.        *)
LEMMA LedgerUnchanged ==
  ASSUME NEW token, LedgerInv(token), balances'[token] = balances[token],
         \A r \in Reserves : PaidBy(r, token)' = PaidBy(r, token),
         \A h : \A r \in Reserves : PaidTo(h, r, token)' = PaidTo(h, r, token)
  PROVE  LedgerInv(token)'
<1>1. "COLLECTOR" \in Reserves /\ "ECOSYSTEM_RESERVE" \in Reserves
  BY DEF Reserves
<1>2. Spent(token)' = Spent(token)
  BY <1>1 DEF Spent
<1> QED
  BY <1>1, <1>2 DEF LedgerInv, InitialHolding, HomeToken

(* A payment of a stream moves the same amount in the ledger and in the    *)
(* events.                                                                 *)
LEMMA LedgerAtPayment ==
  ASSUME IInv, NEW token \in Tokens, LedgerInv(token),
         NEW r \in Reserves, NEW id \in StreamIds, NEW amount \in Nat, Pays(r, id, amount)
  PROVE  LedgerInv(token)'
<1> DEFINE s == streams[r][id]
           C == "COLLECTOR"
           E == "ECOSYSTEM_RESERVE"
<1>1. TypeOK /\ s.tokenAddress \in Tokens /\ s.recipient \in Holders /\ r \in Holders
  <2>1. TypeOK /\ s \in Stream
    BY DEF IInv, TypeOK
  <2>2. s.tokenAddress \in Tokens /\ s.recipient \in Holders
    BY <2>1 DEF Stream
  <2> QED
    BY <2>1, <2>2 DEF Holders
<1>2. Reserves = {C, E} /\ Reserves \subseteq Holders /\ CHAOS \in Holders
      /\ "ELSEWHERE" \in Holders
      /\ CHAOS \notin Reserves /\ "ELSEWHERE" \notin Reserves
  BY DEF Reserves, Holders, CHAOS
<1>3. /\ \A other \in Tokens : other # s.tokenAddress => balances'[other] = balances[other]
      /\ \A h \in Holders :
           balances'[s.tokenAddress][h]
             = balances[s.tokenAddress][h] - (IF h = r THEN amount ELSE 0)
                                           + (IF h = s.recipient THEN amount ELSE 0)
      /\ Total(balances'[s.tokenAddress]) = Total(balances[s.tokenAddress])
  <2>1. transfer(s.tokenAddress, r, s.recipient, amount)
    BY DEF Pays
  <2> HIDE DEF s
  <2> QED
    BY <1>1, <2>1, TransferMoves
<1>4. \A q \in Reserves :
        /\ PaidBy(q, token)' = PaidBy(q, token)
             + (IF q = r /\ token = streams[r][id].tokenAddress THEN amount ELSE 0)
        /\ \A h : PaidTo(h, q, token)' = PaidTo(h, q, token)
             + (IF /\ q = r /\ token = streams[r][id].tokenAddress
                   /\ h = streams[r][id].recipient
                THEN amount ELSE 0)
  <2> SUFFICES ASSUME NEW q \in Reserves, NEW h
               PROVE  /\ PaidBy(q, token)' = PaidBy(q, token)
                           + (IF q = r /\ token = streams[r][id].tokenAddress
                              THEN amount ELSE 0)
                      /\ PaidTo(h, q, token)' = PaidTo(h, q, token)
                           + (IF /\ q = r /\ token = streams[r][id].tokenAddress
                                 /\ h = streams[r][id].recipient
                              THEN amount ELSE 0)
    OBVIOUS
  <2> QED
    BY PaidAtPayment
<1>5. \A q \in Reserves : PaidBy(q, token) \in Nat /\ \A h : PaidTo(h, q, token) \in Nat
  BY <1>1, PaidNat
<1>6. \A h \in Holders : balances[token][h] \in Nat
  BY <1>1 DEF TypeOK
<1>7. CASE token # s.tokenAddress
  <2>1. \A q \in Reserves : PaidBy(q, token)' = PaidBy(q, token)
    BY <1>4, <1>5, <1>7
  <2>2. \A h : \A q \in Reserves : PaidTo(h, q, token)' = PaidTo(h, q, token)
    BY <1>4, <1>5, <1>7
  <2>3. balances'[token] = balances[token]
    BY <1>3, <1>7
  <2> QED
    BY <2>1, <2>2, <2>3, LedgerUnchanged
<1>8. CASE token = s.tokenAddress
  <2>1. \A q \in Reserves : PaidBy(q, token)' = PaidBy(q, token) + (IF q = r THEN amount ELSE 0)
    BY <1>4, <1>8
  <2>2. ASSUME NEW h
        PROVE  PaidTo(h, C, token)' + PaidTo(h, E, token)'
                 = PaidTo(h, C, token) + PaidTo(h, E, token)
                   + (IF h = s.recipient THEN amount ELSE 0)
    <3>1. /\ PaidTo(h, C, token) \in Nat /\ PaidTo(h, E, token) \in Nat
          /\ PaidTo(h, C, token)' = PaidTo(h, C, token)
               + (IF C = r /\ h = s.recipient THEN amount ELSE 0)
          /\ PaidTo(h, E, token)' = PaidTo(h, E, token)
               + (IF E = r /\ h = s.recipient THEN amount ELSE 0)
      BY <1>2, <1>4, <1>5, <1>8
    <3>2. (C = r /\ E # r) \/ (C # r /\ E = r)
      BY <1>2
    <3> QED
      BY <3>1, <3>2
  <2>3. \A h \in Holders :
          balances'[token][h] = balances[token][h] - (IF h = r THEN amount ELSE 0)
                                                   + (IF h = s.recipient THEN amount ELSE 0)
    BY <1>3, <1>8
  <2>4. Total(balances'[token]) = Holdings
    BY <1>3, <1>8 DEF LedgerInv
  <2>5. balances'[token][CHAOS] = PaidTo(CHAOS, C, token)' + PaidTo(CHAOS, E, token)'
    BY <1>2, <1>5, <1>6, <2>2, <2>3 DEF LedgerInv
  <2>6. Spent(token)' = Spent(token) /\ Spent(token) \in Int
    <3>1. Spent(token)' = balances'[token]["ELSEWHERE"]
            - PaidTo("ELSEWHERE", C, token)' - PaidTo("ELSEWHERE", E, token)'
      BY DEF Spent
    <3>2. Spent(token) = balances[token]["ELSEWHERE"]
            - PaidTo("ELSEWHERE", C, token) - PaidTo("ELSEWHERE", E, token)
      BY DEF Spent
    <3>3. \A h : PaidTo(h, C, token) \in Nat /\ PaidTo(h, E, token) \in Nat
      BY <1>2, <1>5
    <3>4. balances[token]["ELSEWHERE"] \in Nat
      BY <1>2, <1>6
    <3>5. balances'[token]["ELSEWHERE"] = balances[token]["ELSEWHERE"]
            + (IF "ELSEWHERE" = s.recipient THEN amount ELSE 0)
      BY <1>2, <2>3, <3>4
    <3>6. PaidTo("ELSEWHERE", C, token)' + PaidTo("ELSEWHERE", E, token)'
            = PaidTo("ELSEWHERE", C, token) + PaidTo("ELSEWHERE", E, token)
              + (IF "ELSEWHERE" = s.recipient THEN amount ELSE 0)
      BY <2>2
    <3>7. PaidTo("ELSEWHERE", C, token)' \in Nat /\ PaidTo("ELSEWHERE", E, token)' \in Nat
      BY <1>2, <1>4, <1>5
    <3> QED
      BY <3>1, <3>2, <3>3, <3>4, <3>5, <3>6, <3>7
  <2>7. ASSUME NEW q \in Reserves
        PROVE  balances'[token][q] + PaidBy(q, token)' + Spent(token)'
                 >= InitialHolding(q, token)
    <3>1. balances[token][q] + PaidBy(q, token) + Spent(token) >= InitialHolding(q, token)
      BY DEF LedgerInv
    <3>2. balances[token][q] \in Nat /\ PaidBy(q, token) \in Nat
          /\ InitialHolding(q, token) \in Nat
      BY <1>2, <1>5, <1>6, ReserveAssumption DEF InitialHolding
    <3>3. balances'[token][q] = balances[token][q] - (IF q = r THEN amount ELSE 0)
                                 + (IF q = s.recipient THEN amount ELSE 0)
      BY <1>2, <2>3
    <3>4. PaidBy(q, token)' = PaidBy(q, token) + (IF q = r THEN amount ELSE 0)
      BY <2>1
    <3> QED
      BY <2>6, <3>1, <3>2, <3>3, <3>4
  <2> QED
    BY <2>4, <2>5, <2>7 DEF LedgerInv, InitialHolding, HomeToken
<1> QED
  BY <1>7, <1>8

(* What governance spends leaves the reserve for elsewhere.                *)
LEMMA LedgerAtTransferOut ==
  ASSUME IInv, NEW token \in Tokens, LedgerInv(token),
         NEW r \in Reserves, NEW t \in Tokens, NEW amount \in Outflows,
         TransferOut(r, t, amount)
  PROVE  LedgerInv(token)'
<1> DEFINE C == "COLLECTOR"
           E == "ECOSYSTEM_RESERVE"
<1>1. TypeOK /\ amount \in Nat /\ transfer(t, r, "ELSEWHERE", amount)
      /\ UNCHANGED <<received, terms, nextStreamId>>
  BY ReserveAssumption DEF IInv, TransferOut
<1>2. Reserves = {C, E} /\ Reserves \subseteq Holders /\ CHAOS \in Holders
      /\ "ELSEWHERE" \in Holders
      /\ CHAOS \notin Reserves /\ "ELSEWHERE" \notin Reserves /\ CHAOS # "ELSEWHERE"
  BY DEF Reserves, Holders, CHAOS
<1>3. /\ \A other \in Tokens : other # t => balances'[other] = balances[other]
      /\ \A h \in Holders :
           balances'[t][h] = balances[t][h] - (IF h = r THEN amount ELSE 0)
                                            + (IF h = "ELSEWHERE" THEN amount ELSE 0)
      /\ Total(balances'[t]) = Total(balances[t])
  BY <1>1, <1>2, TransferMoves
<1>4. /\ \A q \in Reserves : PaidBy(q, token)' = PaidBy(q, token)
      /\ \A h : \A q \in Reserves : PaidTo(h, q, token)' = PaidTo(h, q, token)
  BY <1>1, PaidUnchanged
<1>5. \A q \in Reserves : PaidBy(q, token) \in Nat /\ \A h : PaidTo(h, q, token) \in Nat
  BY <1>1, PaidNat
<1>6. \A h \in Holders : balances[token][h] \in Nat
  BY <1>1 DEF TypeOK
<1>7. CASE token # t
  BY <1>3, <1>4, <1>7, LedgerUnchanged
<1>8. CASE token = t
  <2>1. Total(balances'[token]) = Holdings
    BY <1>3, <1>8 DEF LedgerInv
  <2>2. balances'[token][CHAOS] = balances[token][CHAOS]
    BY <1>2, <1>3, <1>6, <1>8
  <2>3. balances'[token][CHAOS] = PaidTo(CHAOS, C, token)' + PaidTo(CHAOS, E, token)'
    BY <1>2, <1>4, <2>2 DEF LedgerInv
  <2>4. Spent(token)' = Spent(token) + amount /\ Spent(token) \in Int
    <3>1. \A h : /\ PaidTo(h, C, token) \in Nat /\ PaidTo(h, E, token) \in Nat
                 /\ PaidTo(h, C, token)' = PaidTo(h, C, token)
                 /\ PaidTo(h, E, token)' = PaidTo(h, E, token)
      BY <1>2, <1>4, <1>5
    <3>2. /\ balances[token]["ELSEWHERE"] \in Nat
          /\ balances'[token]["ELSEWHERE"] = balances[token]["ELSEWHERE"] + amount
      BY <1>1, <1>2, <1>3, <1>6, <1>8
    <3> QED
      BY <1>1, <3>1, <3>2 DEF Spent
  <2>5. ASSUME NEW q \in Reserves
        PROVE  balances'[token][q] + PaidBy(q, token)' + Spent(token)'
                 >= InitialHolding(q, token)
    <3>1. balances[token][q] + PaidBy(q, token) + Spent(token) >= InitialHolding(q, token)
      BY DEF LedgerInv
    <3>2. balances[token][q] \in Nat /\ PaidBy(q, token) \in Nat
          /\ InitialHolding(q, token) \in Nat
      BY <1>2, <1>5, <1>6, ReserveAssumption DEF InitialHolding
    <3>3. q \in Holders /\ q # "ELSEWHERE"
      BY <1>2
    <3>4. balances'[token][q] = balances[token][q] - (IF q = r THEN amount ELSE 0)
      BY <1>1, <1>3, <1>8, <3>2, <3>3
    <3>5. PaidBy(q, token)' = PaidBy(q, token)
      BY <1>4
    <3> QED
      BY <1>1, <2>4, <3>1, <3>2, <3>4, <3>5
  <2> QED
    BY <2>1, <2>3, <2>5 DEF LedgerInv, InitialHolding, HomeToken
<1> QED
  BY <1>7, <1>8

(* Initially no stream has paid and each reserve holds its own token.      *)
LEMMA InitLedger ==
  ASSUME Init, NEW token \in Tokens
  PROVE  LedgerInv(token)
<1>1. TypeOK
  BY InitIInv DEF IInv
<1>2. \A h : \A q \in Reserves : StreamsIn(q, token) = {} /\ PaidIds(h, q, token) = {}
  BY ReserveAssumption DEF Init, ReserveInit, StreamsIn, Created, PaidIds, StreamIds
<1>3. ASSUME NEW q \in Reserves
      PROVE  PaidBy(q, token) = 0 /\ \A h : PaidTo(h, q, token) = 0
  <2>1. PaidIn(q, {}) = 0
    BY SumEmpty DEF PaidIn
  <2>2. PaidBy(q, token) = 0
    BY <1>2, <2>1, PaidAsSum
  <2>3. ASSUME NEW h PROVE PaidTo(h, q, token) = 0
    BY <1>2, <2>1, PaidAsSum
  <2> QED
    BY <2>2, <2>3
<1>4. "COLLECTOR" \in Reserves /\ "ECOSYSTEM_RESERVE" \in Reserves
  BY DEF Reserves
<1>5. balances[token] = [h \in Holders |->
        IF h \in Reserves /\ HomeToken(h) = token THEN Holdings ELSE 0]
  BY DEF Init, ReserveInit
<1>6. Spent(token) = 0 /\ balances[token][CHAOS] = 0
  BY <1>3, <1>4, <1>5 DEF Spent, CHAOS, Holders, Reserves
<1>7. Total(balances[token]) = Holdings
  <2>1. token = "USDC_A_TOKEN" \/ token = "AAVE_TOKEN"
    BY DEF Tokens
  <2> QED
    BY <1>5, <2>1, ReserveAssumption DEF Total, CHAOS, Holders, Reserves, HomeToken
<1>8. ASSUME NEW r \in Reserves
      PROVE  balances[token][r] + PaidBy(r, token) + Spent(token) >= InitialHolding(r, token)
  BY <1>3, <1>5, <1>6, ReserveAssumption DEF InitialHolding, Holders
<1> QED
  BY <1>3, <1>4, <1>6, <1>7, <1>8 DEF LedgerInv

(* Every step keeps the ledgers.                                           *)
LEMMA NextLedger ==
  ASSUME IInv, [Next]_vars, NEW token \in Tokens, LedgerInv(token)
  PROVE  LedgerInv(token)'
<1>1. ASSUME AddsStreams
      PROVE  LedgerInv(token)'
  <2>1. balances' = balances
    BY <1>1 DEF AddsStreams
  <2> QED
    BY <1>1, <2>1, PaidAtCreation, LedgerUnchanged
<1>2. CASE ExecutePayment \/ ExecuteCoverage \/ ExecuteOther
  BY <1>1, <1>2, PaymentStep, CoverageStep, OtherStep
<1>3. CASE Environment
  <2>1. ASSUME NEW r \in Reserves, NEW id \in StreamIds, NEW amount \in Nat,
               WithdrawFromStream(r, id, amount)
        PROVE  LedgerInv(token)'
    <3>1. Pays(r, id, amount)
      BY <2>1 DEF WithdrawFromStream, Pays
    <3> QED
      BY <3>1, LedgerAtPayment
  <2>2. ASSUME NEW r \in Reserves, NEW id \in StreamIds, CancelStream(r, id)
        PROVE  LedgerInv(token)'
    <3> DEFINE due == recipientBalance(streams[r][id], now)
    <3>1. Pays(r, id, due) /\ streams[r][id].isEntity
      BY <2>2 DEF CancelStream, Pays
    <3>2. due \in Nat
      BY <3>1, DueFacts DEF IInv
    <3> HIDE DEF due
    <3> QED
      BY <3>1, <3>2, LedgerAtPayment
  <2>3. ASSUME NEW r \in Reserves, NEW t \in Tokens, NEW amount \in Outflows,
               TransferOut(r, t, amount)
        PROVE  LedgerInv(token)'
    BY <2>3, LedgerAtTransferOut
  <2>4. CASE Tick
    <3>1. balances' = balances /\ UNCHANGED <<received, terms, nextStreamId>>
      BY <2>4 DEF Tick
    <3> QED
      BY <3>1, PaidUnchanged, LedgerUnchanged
  <2>5. \A r \in Reserves, id \in StreamIds : 1 .. terms[r][id].deposit \subseteq Nat
    OBVIOUS
  <2> QED
    BY <1>3, <2>1, <2>2, <2>3, <2>4, <2>5 DEF Environment, ReserveStep
<1>4. CASE UNCHANGED vars
  <2>1. balances' = balances /\ UNCHANGED <<received, terms, nextStreamId>>
    BY <1>4 DEF vars, reserveVars
  <2> QED
    BY <2>1, PaidUnchanged, LedgerUnchanged
<1> QED
  BY <1>2, <1>3, <1>4 DEF Next

Ledgers == \A token \in Tokens : LedgerInv(token)

\* The slot of a stream that is over, or was never created, is empty.
SlotsCleared ==
  \A r \in Reserves, id \in StreamIds :
    ~streams[r][id].isEntity => streams[r][id].remainingBalance = 0

(* Every step keeps the empty slots empty, and empties those it deletes.   *)
LEMMA NextCleared ==
  ASSUME IInv, SlotsCleared, [Next]_vars
  PROVE  SlotsCleared'
<1>1. TypeOK
  BY DEF IInv
<1>2. ASSUME AddsStreams
      PROVE  SlotsCleared'
  <2> SUFFICES ASSUME NEW r \in Reserves, NEW id \in StreamIds, ~streams'[r][id].isEntity
               PROVE  streams'[r][id].remainingBalance = 0
    BY DEF SlotsCleared
  <2>1. streams'[r][id] = streams[r][id]
    <3>1. CASE ReserveUntouched(r)
      BY <3>1 DEF ReserveUntouched
    <3>2. CASE OneStreamAdded(r)
      BY <3>2 DEF OneStreamAdded, WellFormed
    <3> QED
      BY <1>2, <3>1, <3>2 DEF AddsStreams
  <2> QED
    BY <2>1 DEF SlotsCleared
<1>3. CASE ExecutePayment \/ ExecuteCoverage \/ ExecuteOther
  BY <1>2, <1>3, PaymentStep, CoverageStep, OtherStep
<1>4. ASSUME NEW r \in Reserves, NEW id \in StreamIds, NEW after,
             streams' = [streams EXCEPT ![r][id] = after],
             ~after.isEntity => after.remainingBalance = 0
      PROVE  SlotsCleared'
  BY <1>1, <1>4 DEF SlotsCleared, TypeOK
<1>5. EmptyStream.remainingBalance = 0
  BY DEF EmptyStream
<1>6. ASSUME NEW r \in Reserves, NEW id \in StreamIds, NEW amount,
             WithdrawFromStream(r, id, amount)
      PROVE  SlotsCleared'
  <2> DEFINE s == streams[r][id]
             left == s.remainingBalance - amount
             after == IF left = 0 THEN EmptyStream ELSE [s EXCEPT !.remainingBalance = left]
  <2>1. s \in Stream /\ s.isEntity
    BY <1>1, <1>6 DEF TypeOK, WithdrawFromStream
  <2>2. streams' = [streams EXCEPT ![r][id] = after]
    BY <1>6 DEF WithdrawFromStream
  <2>3. [s EXCEPT !.remainingBalance = left].isEntity
    BY <2>1 DEF Stream
  <2>4. ~after.isEntity => after.remainingBalance = 0
    BY <1>5, <2>3
  <2> HIDE DEF after
  <2> QED
    BY <1>4, <2>2, <2>4
<1>7. ASSUME NEW r \in Reserves, NEW id \in StreamIds, CancelStream(r, id)
      PROVE  SlotsCleared'
  BY <1>4, <1>5, <1>7 DEF CancelStream
<1>8. CASE UNCHANGED streams
  BY <1>8 DEF SlotsCleared
<1> QED
  BY <1>3, <1>6, <1>7, <1>8
     DEF Next, Environment, ReserveStep, TransferOut, Tick, vars, reserveVars

(* Every reachable state satisfies the invariant of the ledgers.           *)
LEMMA LedgersInvariant == Spec => [](IInv /\ Ledgers /\ SlotsCleared)
<1>1. Init => IInv /\ Ledgers /\ SlotsCleared
  <2>1. Init => SlotsCleared
    BY DEF Init, ReserveInit, SlotsCleared, EmptyStream
  <2> QED
    BY <2>1, InitIInv, InitLedger DEF Ledgers
<1>2. IInv /\ Ledgers /\ SlotsCleared /\ [Next]_vars => (IInv /\ Ledgers /\ SlotsCleared)'
  <2>1. ASSUME IInv, Ledgers, [Next]_vars, NEW token \in Tokens
        PROVE  LedgerInv(token)'
    BY <2>1, NextLedger DEF Ledgers
  <2> QED
    BY <2>1, NextIInv, NextCleared DEF Ledgers
<1> QED
  BY <1>1, <1>2, PTL DEF Spec

(* The recipient holds exactly what the events say the streams paid it,    *)
(* however they were split, cancelled or interleaved with other spending,  *)
(* and no token appears or vanishes.                                       *)
THEOREM LedgersAgree == Spec => []LedgerMatchesEvents
<1>1. ASSUME IInv, Ledgers, NEW token \in Tokens
      PROVE  /\ balances[token]["CHAOS_RECIPIENT"] =
                  PaidTo("CHAOS_RECIPIENT", "COLLECTOR", token)
                    + PaidTo("CHAOS_RECIPIENT", "ECOSYSTEM_RESERVE", token)
             /\ MapThenSumSet(LAMBDA h : balances[token][h], Holders) = Holdings
  <2>1. LedgerInv(token) /\ balances[token] \in [Holders -> Nat]
    BY <1>1 DEF Ledgers, IInv, TypeOK
  <2> QED
    BY <2>1, PaidAsSum, SumOfHolders DEF LedgerInv, CHAOS
<1>2. IInv /\ Ledgers => LedgerMatchesEvents
  BY <1>1 DEF LedgerMatchesEvents
<1> QED
  BY <1>2, LedgersInvariant, PTL

(* A reserve that promised and spent no more than it held can pay every    *)
(* stream to its end: nothing but its streams and governance takes from it,*)
(* and no stream takes more than its deposit.                              *)
THEOREM CanPayToTheEnd == Spec => []Solvent
<1>1. ASSUME IInv, Ledgers, SlotsCleared, NEW r \in Reserves, NEW token \in Tokens,
             Promised(r, token) + Spent(token) <= InitialHolding(r, token)
      PROVE  balances[token][r] >= Outstanding(r, token)
  <2> DEFINE S == StreamsIn(r, token)
  <2>1. TypeOK /\ IsFiniteSet(S) /\ S \subseteq StreamIds
    BY <1>1, IdsFinite DEF IInv, StreamsIn
  <2>2. ASSUME NEW id \in S
        PROVE  /\ received[r][id] \in Nat
               /\ RemainingOf(r)[id] \in Nat
               /\ DepositOf(r)[id] \in Nat
               /\ received[r][id] + RemainingOf(r)[id] <= DepositOf(r)[id]
    <3>1. id \in StreamIds /\ Created(r, id) /\ StreamInv(r, id) /\ now \in Nat
      BY <1>1, <2>1, ReserveAssumption DEF StreamsIn, IInv, TypeOK
    <3>2. /\ WellFormed(terms[r][id])
          /\ received[r][id] <= terms[r][id].ratePerSecond * deltaOf(terms[r][id], now)
      BY <3>1 DEF StreamInv, Announced
    <3>3. /\ terms[r][id].ratePerSecond * deltaOf(terms[r][id], now) \in Nat
          /\ terms[r][id].ratePerSecond * deltaOf(terms[r][id], now) <= terms[r][id].deposit
      BY <3>1, <3>2, VestingFacts
    <3>4. /\ received[r][id] \in Nat /\ streams[r][id] \in Stream
          /\ streams[r][id].remainingBalance \in Nat /\ terms[r][id].deposit \in Nat
      BY <2>1, <3>1 DEF TypeOK, Stream
    <3>5. streams[r][id].isEntity =>
            streams[r][id].remainingBalance = terms[r][id].deposit - received[r][id]
      BY <2>1, <3>1, DueFacts
    <3>6. ~streams[r][id].isEntity => streams[r][id].remainingBalance = 0
      BY <1>1, <3>1 DEF SlotsCleared
    <3> QED
      BY <3>1, <3>2, <3>3, <3>4, <3>5, <3>6 DEF DepositOf, RemainingOf
  <2>3. Sum(received[r], S) + Sum(RemainingOf(r), S) <= Sum(DepositOf(r), S)
    <3> HIDE DEF S
    <3> QED
      BY <2>1, <2>2, SumBound
  <2>4. PaidBy(r, token) + Outstanding(r, token) <= Promised(r, token)
    BY <2>3, PaidAsSum, DepositsAsSum, RemaindersAsSum DEF PaidIn
  <2>5. balances[token][r] + PaidBy(r, token) + Spent(token) >= InitialHolding(r, token)
    BY <1>1 DEF Ledgers, LedgerInv
  <2>6. Promised(r, token) \in Nat /\ Outstanding(r, token) \in Nat
    BY <2>1, <2>2, SumNat, DepositsAsSum, RemaindersAsSum
  <2>7. PaidBy(r, token) \in Nat /\ balances[token][r] \in Nat
    BY <2>1, PaidNat DEF TypeOK, Holders
  <2>8. Spent(token) \in Int /\ InitialHolding(r, token) \in Nat
    <3>1. \A h, q : q \in Reserves => PaidTo(h, q, token) \in Nat
      BY <2>1, PaidNat
    <3>2. balances[token]["ELSEWHERE"] \in Nat
      BY <2>1 DEF TypeOK, Holders
    <3> QED
      BY <3>1, <3>2, ReserveAssumption DEF Spent, InitialHolding, Reserves
  <2> QED
    BY <1>1, <2>4, <2>5, <2>6, <2>7, <2>8
<1>2. IInv /\ Ledgers /\ SlotsCleared => Solvent
  BY <1>1 DEF Solvent
<1> QED
  BY <1>2, LedgersInvariant, PTL
-----------------------------------------------------------------------------
(* The coverage streams.                                                   *)

Mark(t) == [by |-> "coverage", at |-> t]
Marks(r, t) == {id \in StreamIds : origin[r][id] = Mark(t)}

\* As many coverage streams executed at t on either reserve.
Twins == \A t \in Nat : Cardinality(Marks("COLLECTOR", t))
                          = Cardinality(Marks("ECOSYSTEM_RESERVE", t))

(* A transaction marks the ids it hands out, and those only.               *)
Claims(r, n, mark) ==
  /\ n \in StreamIds
  /\ origin[r][n].by = "none"
  /\ origin'[r][n] = mark
  /\ \A id \in StreamIds : id # n => origin'[r][id] = origin[r][id]

(* The next id of a reserve has no origin yet.                             *)
LEMMA NextIsFree ==
  ASSUME IInv, NEW r \in Reserves, nextStreamId[r] \in StreamIds
  PROVE  origin[r][nextStreamId[r]].by = "none"
<1>1. nextStreamId[r] \in Nat
  BY ReserveAssumption DEF StreamIds
<1>2. ~Created(r, nextStreamId[r])
  BY <1>1 DEF Created
<1> QED
  BY <1>2 DEF IInv, StreamInv, Fresh

(* A transaction of one createStream claims one id.                        *)
LEMMA SingleClaim ==
  ASSUME IInv, NEW c \in StreamCall, NEW who, CanCreate(Slots, c),
         origin' = Marked(origin, Slots, c, who)
  PROVE  /\ Claims(c.collector, nextStreamId[c.collector], [by |-> who, at |-> now])
         /\ \A r \in Reserves : r # c.collector => origin'[r] = origin[r]
<1> DEFINE k == c.collector
           n == nextStreamId[k]
           mark == [by |-> who, at |-> now]
<1>1. k \in Reserves /\ n \in StreamIds
  BY DEF StreamCall, CanCreate, Slots
<1>2. origin \in [Reserves -> [StreamIds -> [by: Origins, at: Nat]]]
  BY DEF IInv, TypeOK
<1>3. origin' = [origin EXCEPT ![k][n] = mark]
  BY DEF Marked, Slots
<1>4. origin[k][n].by = "none"
  BY <1>1, NextIsFree
<1> HIDE DEF mark, n, k
<1>5. /\ origin'[k][n] = mark
      /\ \A id \in StreamIds : id # n => origin'[k][id] = origin[k][id]
      /\ \A r \in Reserves : r # k => origin'[r] = origin[r]
  BY <1>1, <1>2, <1>3
<1> QED
  BY <1>1, <1>4, <1>5 DEF Claims, mark, n, k

(* The coverage proposal claims one id of either reserve.                  *)
LEMMA CoverageClaims ==
  ASSUME IInv, ExecuteCoverage
  PROVE  /\ Claims("COLLECTOR", nextStreamId["COLLECTOR"], Mark(now))
         /\ Claims("ECOSYSTEM_RESERVE", nextStreamId["ECOSYSTEM_RESERVE"], Mark(now))
<1> DEFINE C == "COLLECTOR"
           E == "ECOSYSTEM_RESERVE"
           c1 == Coverage!usdcStream(now)
           c2 == Coverage!aaveStream(now)
           between == createStream(Slots, c1)
           m == nextStreamId[C]
           n == nextStreamId[E]
<1>1. now \in Nat /\ SlotsOK(Slots) /\ TypeOK /\ C \in Reserves /\ E \in Reserves
  BY ReserveAssumption DEF IInv, TypeOK, Slots, SlotsOK, Reserves
<1>2. /\ c1 \in StreamCall /\ c1.collector = C
      /\ c2 \in StreamCall /\ c2.collector = E
  BY <1>1, PayloadCalls DEF Coverage!usdcStream, Coverage!aaveStream
<1>3. /\ CanCreate(Slots, c1) /\ CanCreate(between, c2)
      /\ origin' = Marked(Marked(origin, Slots, c1, "coverage"), between, c2, "coverage")
  BY DEF ExecuteCoverage
<1>4. m \in StreamIds /\ between.nextStreamId[E] = n
  BY <1>1, <1>2, <1>3, OneCreation DEF Slots, Reserves
<1>5. n \in StreamIds
  BY <1>2, <1>3, <1>4 DEF CanCreate
<1>6. origin' = [[origin EXCEPT ![C][m] = Mark(now)] EXCEPT ![E][n] = Mark(now)]
  BY <1>2, <1>3, <1>4 DEF Marked, Slots, Mark
<1>7. origin[C][m].by = "none" /\ origin[E][n].by = "none"
  BY <1>1, <1>4, <1>5, NextIsFree
<1>8. origin \in [Reserves -> [StreamIds -> [by: Origins, at: Nat]]] /\ C # E
  BY <1>1 DEF TypeOK
<1> HIDE DEF m, n, C, E
<1>9. /\ origin'[C][m] = Mark(now) /\ origin'[E][n] = Mark(now)
      /\ \A id \in StreamIds : id # m => origin'[C][id] = origin[C][id]
      /\ \A id \in StreamIds : id # n => origin'[E][id] = origin[E][id]
  BY <1>1, <1>4, <1>5, <1>6, <1>8
<1> QED
  BY <1>4, <1>5, <1>7, <1>9 DEF Claims, m, n, C, E

(* What a claim does to the number of coverage streams.                    *)
LEMMA ClaimCounts ==
  ASSUME NEW r, NEW n, NEW mark, Claims(r, n, mark), NEW t
  PROVE  Cardinality(Marks(r, t)') =
           Cardinality(Marks(r, t)) + (IF mark = Mark(t) THEN 1 ELSE 0)
<1>1. IsFiniteSet(Marks(r, t)) /\ Cardinality(Marks(r, t)) \in Nat
  BY IdsFinite, FS_CardinalityType DEF Marks
<1>2. n \notin Marks(r, t) /\ n \in StreamIds
  BY DEF Marks, Mark, Claims
<1>3. CASE mark = Mark(t)
  <2>1. Marks(r, t)' = Marks(r, t) \union {n}
    BY <1>2, <1>3 DEF Marks, Claims
  <2>2. Cardinality(Marks(r, t) \union {n}) = Cardinality(Marks(r, t)) + 1
    BY <1>1, <1>2, FS_AddElement
  <2> QED
    BY <1>3, <2>1, <2>2
<1>4. CASE mark # Mark(t)
  <2>1. Marks(r, t)' = Marks(r, t)
    BY <1>2, <1>4 DEF Marks, Claims
  <2> QED
    BY <1>1, <1>4, <2>1
<1> QED
  BY <1>3, <1>4

(* Every step keeps the pairs.                                             *)
LEMMA NextTwins ==
  ASSUME IInv, Twins, [Next]_vars
  PROVE  Twins'
<1> DEFINE C == "COLLECTOR"
           E == "ECOSYSTEM_RESERVE"
<1> SUFFICES ASSUME NEW t \in Nat
             PROVE  Cardinality(Marks(C, t)') = Cardinality(Marks(E, t)')
  BY DEF Twins
<1>1. Cardinality(Marks(C, t)) = Cardinality(Marks(E, t))
  BY DEF Twins
<1>2. ASSUME NEW r, origin'[r] = origin[r]
      PROVE  Marks(r, t)' = Marks(r, t)
  BY <1>2 DEF Marks
<1>3. Reserves = {C, E} /\ C # E
  BY DEF Reserves
<1>4. ASSUME NEW c \in StreamCall, NEW who \in {"payment", "other"}, CanCreate(Slots, c),
             origin' = Marked(origin, Slots, c, who)
      PROVE  Cardinality(Marks(C, t)') = Cardinality(Marks(E, t)')
  <2>1. /\ Claims(c.collector, nextStreamId[c.collector], [by |-> who, at |-> now])
        /\ \A r \in Reserves : r # c.collector => origin'[r] = origin[r]
    BY <1>4, SingleClaim
  <2>2. [by |-> who, at |-> now] # Mark(t)
    BY DEF Mark
  <2>3. Cardinality(Marks(c.collector, t)') = Cardinality(Marks(c.collector, t)) + 0
    BY <2>1, <2>2, ClaimCounts
  <2>4. Cardinality(Marks(c.collector, t)) \in Nat
    BY IdsFinite, FS_CardinalityType DEF Marks
  <2>5. \A r \in Reserves : Cardinality(Marks(r, t)') = Cardinality(Marks(r, t))
    BY <1>2, <2>1, <2>3, <2>4
  <2> QED
    BY <1>1, <1>3, <2>5
<1>5. CASE ExecutePayment
  <2>1. Payment!execute(now) \in StreamCall
    BY PayloadCalls, ReserveAssumption DEF IInv, TypeOK
  <2> QED
    BY <1>4, <1>5, <2>1 DEF ExecutePayment
<1>6. CASE ExecuteOther
  BY <1>4, <1>6, OtherStreamsAssumption DEF ExecuteOther
<1>7. CASE ExecuteCoverage
  <2>1. /\ Cardinality(Marks(C, t)') =
             Cardinality(Marks(C, t)) + (IF Mark(now) = Mark(t) THEN 1 ELSE 0)
        /\ Cardinality(Marks(E, t)') =
             Cardinality(Marks(E, t)) + (IF Mark(now) = Mark(t) THEN 1 ELSE 0)
    BY <1>7, CoverageClaims, ClaimCounts
  <2> QED
    BY <1>1, <2>1
<1>8. CASE UNCHANGED origin
  BY <1>1, <1>2, <1>8
<1> QED
  BY <1>5, <1>6, <1>7, <1>8 DEF Next, Environment, vars

(* Every execution of the coverage proposal leaves its two streams, one on *)
(* either reserve and over the same period, and nothing that happens to    *)
(* either, or any other proposal, undoes that.                             *)
THEOREM CoverageInPairs == Spec => []CoverageTwins
<1>1. Init => IInv /\ Twins
  <2>1. ASSUME Init, NEW r \in Reserves, NEW t PROVE Marks(r, t) = {}
    BY <2>1 DEF Init, Marks, Mark
  <2> QED
    BY <2>1, InitIInv DEF Twins, Reserves
<1>2. IInv /\ Twins /\ [Next]_vars => (IInv /\ Twins)'
  BY NextIInv, NextTwins
<1>3. Spec => [](IInv /\ Twins)
  BY <1>1, <1>2, PTL DEF Spec
<1>4. ASSUME IInv, NEW r \in Reserves, NEW t \in 0 .. now
      PROVE  Marks(r, t) = {id \in StreamIds :
                              /\ origin[r][id] = [by |-> "coverage", at |-> t]
                              /\ terms[r][id].startTime = t
                              /\ terms[r][id].stopTime = t + CoverageDuration}
  <2> SUFFICES ASSUME NEW id \in StreamIds, origin[r][id] = Mark(t)
               PROVE  /\ terms[r][id].startTime = t
                      /\ terms[r][id].stopTime = t + CoverageDuration
    BY DEF Marks, Mark
  <2>1. origin[r][id].by = "coverage" /\ origin[r][id].at = t
    BY DEF Mark
  <2>2. terms[r][id] = NewStream(IF r = "COLLECTOR" THEN Coverage!usdcStream(t)
                                 ELSE Coverage!aaveStream(t))
    BY <1>4, <2>1 DEF IInv, StreamInv, Traced
  <2> QED
    BY <2>2 DEF NewStream, Coverage!usdcStream, Coverage!aaveStream
<1>5. IInv /\ Twins => CoverageTwins
  <2> SUFFICES ASSUME IInv, Twins PROVE CoverageTwins
    OBVIOUS
  <2>1. "COLLECTOR" \in Reserves /\ "ECOSYSTEM_RESERVE" \in Reserves
    BY DEF Reserves
  <2>2. \A t \in 0 .. now : t \in Nat
    OBVIOUS
  <2> QED
    BY <1>4, <2>1, <2>2 DEF CoverageTwins, Twins, Marks, Mark
<1> QED
  BY <1>3, <1>5, PTL
=============================================================================
