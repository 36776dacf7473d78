--------------------------- MODULE GeneratedProofs ----------------------------
(***************************************************************************)
(* Proofs about the generated libraries: the enumerable set and the        *)
(* enumerable map, for words and addresses of any width, and the casts,    *)
(* for any word and any narrower types.                                    *)
(***************************************************************************)
EXTENDS EnumerableSetMock, EnumerableMapMock, SafeCastMock, FiniteSetTheorems, TLAPS

Listed(s) == {s.values[i] : i \in 1 .. Len(s.values)}
GoodSet(s) == IsSet(s) /\ IndexesMatch(s)

-----------------------------------------------------------------------------
(* The set of words.                                                       *)

LEMMA WordsTyped == Words \subseteq Int /\ 0 \in Words
  BY WordAssumption DEF Words

LEMMA ListedTyped ==
  ASSUME NEW s, GoodSet(s)
  PROVE  /\ Len(s.values) \in Nat
         /\ \A i \in 1 .. Len(s.values) : s.values[i] \in Words
         /\ \A w \in Words : s.indexes[w] \in Nat
  BY DEF GoodSet, IsSet

\* containsWord looks at the mapping, enumeration at the array: they agree.
LEMMA ContainsIsListed ==
  ASSUME NEW s, GoodSet(s), NEW w \in Words
  PROVE  containsWord(s, w) <=> w \in Listed(s)
  <1>1. ASSUME containsWord(s, w) PROVE w \in Listed(s)
    BY <1>1 DEF containsWord, Listed, GoodSet, IndexesMatch
  <1>2. ASSUME NEW i \in 1 .. Len(s.values), w = s.values[i]
        PROVE  containsWord(s, w)
    BY <1>2, ListedTyped DEF containsWord, GoodSet, IndexesMatch
  <1> QED BY <1>1, <1>2 DEF Listed

\* Nothing is listed twice.
LEMMA ListedOnce ==
  ASSUME NEW s, GoodSet(s)
  PROVE  /\ \A i, j \in 1 .. Len(s.values) : s.values[i] = s.values[j] => i = j
         /\ Cardinality(Listed(s)) = Len(s.values)
  <1>1. ASSUME NEW i \in 1 .. Len(s.values), NEW j \in 1 .. Len(s.values),
               s.values[i] = s.values[j]
        PROVE  i = j
    BY <1>1 DEF GoodSet, IndexesMatch
  <1> DEFINE f == [i \in 1 .. Len(s.values) |-> s.values[i]]
  <1>2. f \in Bijection(1 .. Len(s.values), Listed(s))
    BY <1>1 DEF Bijection, Injection, Surjection, IsInjective, Listed
  <1>3. ExistsBijection(1 .. Len(s.values), Listed(s))
    BY <1>2 DEF ExistsBijection
  <1> QED BY <1>1, <1>3, ListedTyped, FS_CountingElements

LEMMA AddWord ==
  ASSUME NEW s, GoodSet(s), NEW w \in Words, NEW t, t = addWord(s, w)
  PROVE  /\ GoodSet(t)
         /\ Listed(t) = Listed(s) \cup {w}
         /\ OnlyLastMoves(s, t)
  <1> DEFINE n == Len(s.values)
  <1>0. n \in Nat /\ s.values \in Seq(Words) /\ s.indexes \in [Words -> Nat]
    BY DEF GoodSet, IsSet
  <1>1. CASE containsWord(s, w)
    <2>1. t = s
      BY <1>1 DEF addWord
    <2> QED BY <1>0, <1>1, <2>1, ContainsIsListed DEF OnlyLastMoves
  <1>2. CASE ~containsWord(s, w)
    <2>1. t.values = Append(s.values, w) /\ t.indexes = [s.indexes EXCEPT ![w] = n + 1]
      BY <1>2 DEF addWord
    <2>2. /\ t.values \in Seq(Words)
          /\ Len(t.values) = n + 1
          /\ t.values[n + 1] = w
          /\ \A i \in 1 .. n : t.values[i] = s.values[i]
      BY <1>0, <2>1
    <2>3. /\ t.indexes \in [Words -> Nat]
          /\ t.indexes[w] = n + 1
          /\ \A x \in Words : x # w => t.indexes[x] = s.indexes[x]
      BY <1>0, <2>1
    <2>4. \A i \in 1 .. n : s.values[i] # w /\ s.indexes[s.values[i]] = i /\ s.values[i] \in Words
      BY <1>0, <1>2, ContainsIsListed DEF Listed, GoodSet, IndexesMatch
    <2>5. \A x \in Words : s.indexes[x] # 0 => s.indexes[x] \in 1 .. n /\ s.values[s.indexes[x]] = x
      BY DEF GoodSet, IndexesMatch
    <2>6. \A i \in 1 .. n + 1 : i \in 1 .. n \/ i = n + 1
      BY <1>0
    <2>7. \A i \in 1 .. n + 1 : t.indexes[t.values[i]] = i
      BY <2>2, <2>3, <2>4, <2>6
    <2>8. \A x \in Words : t.indexes[x] # 0 =>
            t.indexes[x] \in 1 .. n + 1 /\ t.values[t.indexes[x]] = x
      <3> SUFFICES ASSUME NEW x \in Words, t.indexes[x] # 0
                   PROVE  t.indexes[x] \in 1 .. n + 1 /\ t.values[t.indexes[x]] = x
        OBVIOUS
      <3>1. CASE x = w
        BY <1>0, <2>2, <2>3, <3>1
      <3>2. CASE x # w
        <4>1. t.indexes[x] \in 1 .. n /\ s.values[t.indexes[x]] = x
          BY <2>3, <2>5, <3>2
        <4>2. t.indexes[x] \in 1 .. n + 1 /\ t.values[t.indexes[x]] = s.values[t.indexes[x]]
          BY <1>0, <2>2, <4>1
        <4> QED BY <4>1, <4>2
      <3> QED BY <3>1, <3>2
    <2>9. Listed(t) = Listed(s) \cup {w}
      <3>1. \A i \in 1 .. n : i \in 1 .. n + 1
        BY <1>0
      <3>2. n + 1 \in 1 .. n + 1
        BY <1>0
      <3> QED BY <2>2, <2>6, <3>1, <3>2 DEF Listed
    <2>10. OnlyLastMoves(s, t)
      BY <1>0, <2>2 DEF OnlyLastMoves
    <2>11. IsSet(t)
      BY <2>2, <2>3 DEF IsSet
    <2>12. IndexesMatch(t)
      BY <2>2, <2>7, <2>8 DEF IndexesMatch
    <2> QED BY <2>9, <2>10, <2>11, <2>12 DEF GoodSet
  <1> QED BY <1>1, <1>2

LEMMA PrefixOf ==
  ASSUME NEW S, NEW q \in Seq(S), NEW k \in 0 .. Len(q)
  PROVE  /\ SubSeq(q, 1, k) \in Seq(S)
         /\ Len(SubSeq(q, 1, k)) = k
         /\ \A i \in 1 .. k : SubSeq(q, 1, k)[i] = q[i]
  <1>1. Len(q) \in Nat /\ k \in Nat /\ k <= Len(q)
    OBVIOUS
  <1>2. SubSeq(q, 1, k) \in Seq(S)
    BY <1>1
  <1>3. Len(SubSeq(q, 1, k)) = k
    BY <1>1
  <1>4. ASSUME NEW i \in 1 .. k
        PROVE  SubSeq(q, 1, k)[i] = q[i]
    BY <1>1
  <1> QED BY <1>2, <1>3, <1>4

\* Swap and pop, position by position: t is s without w.
SwapPopped(s, w, t) ==
  /\ s.indexes[w] \in 1 .. Len(s.values)
  /\ t.values \in Seq(Words)
  /\ Len(t.values) = Len(s.values) - 1
  /\ \A i \in 1 .. Len(s.values) - 1 :
       t.values[i] = IF i = s.indexes[w] THEN s.values[Len(s.values)] ELSE s.values[i]
  /\ t.indexes \in [Words -> Nat]
  /\ t.indexes[w] = 0
  /\ \A x \in Words : x # w =>
       t.indexes[x] = IF x = s.values[Len(s.values)] THEN s.indexes[w] ELSE s.indexes[x]

LEMMA RemoveShape ==
  ASSUME NEW s, GoodSet(s), NEW w \in Words, containsWord(s, w),
         NEW t, t = removeWord(s, w)
  PROVE  SwapPopped(s, w, t)
  <1> DEFINE n == Len(s.values)
             p == s.indexes[w]
             m == moveLast(s, p)
  <1>0. n \in Nat /\ s.values \in Seq(Words) /\ s.indexes \in [Words -> Nat]
    BY DEF GoodSet, IsSet
  <1>1. p \in 1 .. n /\ n >= 1 /\ s.values[p] = w /\ s.values[n] \in Words
    BY <1>0 DEF containsWord, GoodSet, IndexesMatch
  <1>2. t.values = SubSeq(m.values, 1, Len(m.values) - 1) /\ t.indexes = [m.indexes EXCEPT ![w] = 0]
    BY DEF removeWord, pop
  <1>3. /\ m.values \in Seq(Words)
        /\ Len(m.values) = n
        /\ \A i \in 1 .. n : m.values[i] = IF i = p THEN s.values[n] ELSE s.values[i]
        /\ m.indexes \in [Words -> Nat]
        /\ \A x \in Words : x # w =>
             m.indexes[x] = IF x = s.values[n] THEN p ELSE s.indexes[x]
    <2>1. CASE p = n
      <3>1. m = s
        BY <2>1 DEF moveLast
      <3> QED BY <1>0, <1>1, <2>1, <3>1
    <2>2. CASE p # n
      <3>1. m.values = [s.values EXCEPT ![p] = s.values[n]] /\ m.indexes = [s.indexes EXCEPT ![s.values[n]] = p]
        BY <2>2 DEF moveLast
      <3>2. /\ m.values \in Seq(Words)
            /\ Len(m.values) = n
            /\ \A i \in 1 .. n : m.values[i] = IF i = p THEN s.values[n] ELSE s.values[i]
        BY <1>0, <1>1, <3>1
      <3>3. /\ m.indexes \in [Words -> Nat]
            /\ \A x \in Words : m.indexes[x] = IF x = s.values[n] THEN p ELSE s.indexes[x]
        BY <1>0, <1>1, <3>1
      <3> QED BY <3>2, <3>3
    <2> QED BY <2>1, <2>2
  <1> HIDE DEF m
  <1>4. /\ t.values \in Seq(Words)
        /\ Len(t.values) = n - 1
        /\ \A i \in 1 .. n - 1 : t.values[i] = m.values[i]
    <2>1. n - 1 \in 0 .. Len(m.values) /\ Len(m.values) - 1 = n - 1
      BY <1>0, <1>1, <1>3
    <2> QED BY <1>2, <1>3, <2>1, PrefixOf
  <1>5. /\ t.indexes \in [Words -> Nat]
        /\ t.indexes[w] = 0
        /\ \A x \in Words : x # w => t.indexes[x] = m.indexes[x]
    BY <1>2, <1>3
  <1>6. \A i \in 1 .. n - 1 : i \in 1 .. n
    BY <1>0
  <1>7. \A i \in 1 .. n - 1 : t.values[i] = IF i = p THEN s.values[n] ELSE s.values[i]
    BY <1>3, <1>4, <1>6
  <1>8. \A x \in Words : x # w =>
          t.indexes[x] = IF x = s.values[n] THEN p ELSE s.indexes[x]
    BY <1>3, <1>5
  <1> QED BY <1>1, <1>4, <1>5, <1>7, <1>8 DEF SwapPopped

LEMMA RemoveWord ==
  ASSUME NEW s, GoodSet(s), NEW w \in Words, NEW t, t = removeWord(s, w)
  PROVE  /\ GoodSet(t)
         /\ Listed(t) = Listed(s) \ {w}
         /\ OnlyLastMoves(s, t)
  <1> DEFINE n == Len(s.values)
             p == s.indexes[w]
  <1>0. n \in Nat /\ \A i \in 1 .. n : s.values[i] \in Words /\ s.indexes[s.values[i]] = i
    BY DEF GoodSet, IsSet, IndexesMatch
  <1>1. CASE ~containsWord(s, w)
    <2>1. t = s
      BY <1>1 DEF removeWord
    <2> QED BY <1>0, <1>1, <2>1, ContainsIsListed DEF OnlyLastMoves
  <1>2. CASE containsWord(s, w)
    <2>1. /\ p \in 1 .. n
          /\ t.values \in Seq(Words)
          /\ Len(t.values) = n - 1
          /\ \A i \in 1 .. n - 1 :
               t.values[i] = IF i = p THEN s.values[n] ELSE s.values[i]
          /\ t.indexes \in [Words -> Nat]
          /\ t.indexes[w] = 0
          /\ \A x \in Words : x # w =>
               t.indexes[x] = IF x = s.values[n] THEN p ELSE s.indexes[x]
      <3>1. SwapPopped(s, w, t)
        BY <1>2, RemoveShape
      <3> QED BY <3>1 DEF SwapPopped
    <2>2. s.values[p] = w /\ \A i \in 1 .. n : s.values[i] = w => i = p
      BY <1>0, <1>2 DEF containsWord, GoodSet, IndexesMatch
    <2>3. n \in 1 .. n /\ \A i \in 1 .. n : i # n => i \in 1 .. n - 1
      BY <1>0, <2>1
    <2>4. \A i \in 1 .. n - 1 : i \in 1 .. n /\ i # n
      BY <1>0
    <2>5. ASSUME NEW i \in 1 .. n - 1
          PROVE  t.indexes[t.values[i]] = i
      <3>1. CASE i = p
        <4>1. t.values[i] = s.values[n] /\ p # n
          BY <2>1, <2>4, <3>1
        <4>2. s.values[n] \in Words /\ s.values[n] # w
          BY <1>0, <2>2, <2>3, <4>1
        <4>3. t.indexes[s.values[n]] = p
          BY <2>1, <4>2
        <4> QED BY <3>1, <4>1, <4>3
      <3>2. CASE i # p
        <4>0. i \in 1 .. n /\ i # n
          BY <2>4
        <4>1. t.values[i] = s.values[i] /\ s.values[i] # w
          BY <2>1, <2>2, <3>2, <4>0
        <4>2. s.indexes[s.values[i]] = i /\ s.indexes[s.values[n]] = n
          BY <1>0, <2>3, <4>0
        <4>3. s.values[i] \in Words /\ s.values[i] # s.values[n]
          BY <1>0, <4>0, <4>2
        <4>4. t.indexes[s.values[i]] = s.indexes[s.values[i]]
          BY <2>1, <4>1, <4>3
        <4> QED BY <4>1, <4>2, <4>4
      <3> QED BY <3>1, <3>2
    <2>6. ASSUME NEW x \in Words, t.indexes[x] # 0
          PROVE  t.indexes[x] \in 1 .. n - 1 /\ t.values[t.indexes[x]] = x
      <3>1. x # w
        BY <2>1, <2>6
      <3>2. CASE x = s.values[n]
        <4>1. p # n
          BY <2>2, <3>1, <3>2
        <4>2. p \in 1 .. n - 1 /\ t.indexes[x] = p
          BY <2>1, <2>3, <3>1, <3>2, <4>1
        <4>3. t.values[p] = s.values[n]
          BY <2>1, <4>2
        <4> QED BY <3>2, <4>2, <4>3
      <3>3. CASE x # s.values[n]
        <4>1. t.indexes[x] = s.indexes[x] /\ s.indexes[x] \in 1 .. n /\ s.values[s.indexes[x]] = x
          BY <2>1, <2>6, <3>1, <3>3 DEF GoodSet, IndexesMatch
        <4>2. s.indexes[x] # n /\ s.indexes[x] # p
          BY <2>2, <3>1, <3>3, <4>1
        <4>3. s.indexes[x] \in 1 .. n - 1
          BY <2>3, <4>1, <4>2
        <4>4. t.values[s.indexes[x]] = s.values[s.indexes[x]]
          BY <2>1, <4>2, <4>3
        <4> QED BY <4>1, <4>3, <4>4
      <3> QED BY <3>2, <3>3
    <2>7. Listed(t) = Listed(s) \ {w}
      <3>1. ASSUME NEW i \in 1 .. n - 1
            PROVE  t.values[i] \in Listed(s) \ {w}
        <4>1. CASE i = p
          <5>1. n # p /\ t.values[i] = s.values[n]
            BY <2>1, <2>4, <4>1
          <5> QED BY <2>2, <2>3, <5>1 DEF Listed
        <4>2. CASE i # p
          <5>1. i \in 1 .. n /\ t.values[i] = s.values[i]
            BY <2>1, <2>4, <4>2
          <5>2. s.values[i] # w
            BY <2>2, <4>2, <5>1
          <5> QED BY <5>1, <5>2 DEF Listed
        <4> QED BY <4>1, <4>2
      <3>2. ASSUME NEW i \in 1 .. n, s.values[i] # w
            PROVE  \E j \in 1 .. n - 1 : t.values[j] = s.values[i]
        <4>1. CASE i = n
          <5>1. p # n
            BY <2>2, <3>2, <4>1
          <5> QED BY <2>1, <2>3, <4>1, <5>1
        <4>2. CASE i # n
          BY <2>1, <2>2, <2>3, <3>2, <4>2
        <4> QED BY <4>1, <4>2
      <3>3. Len(t.values) = n - 1
        BY <2>1
      <3>4. Listed(t) \subseteq Listed(s) \ {w}
        BY <3>1, <3>3 DEF Listed
      <3>5. ASSUME NEW x \in Listed(s) \ {w}
            PROVE  x \in Listed(t)
        BY <3>2, <3>3 DEF Listed
      <3> QED BY <3>4, <3>5
    <2>8. OnlyLastMoves(s, t)
      <3> SUFFICES ASSUME NEW i \in 1 .. n, i # n
                   PROVE  \/ i <= n - 1 /\ t.values[i] = s.values[i]
                          \/ /\ i <= n - 1 /\ t.indexes[s.values[i]] = 0
                             /\ t.values[i] = s.values[n]
        BY <2>1 DEF OnlyLastMoves
      <3>1. i \in 1 .. n - 1 /\ i <= n - 1
        BY <1>0, <2>3
      <3>2. CASE i = p
        BY <2>1, <2>2, <3>1, <3>2
      <3>3. CASE i # p
        BY <2>1, <3>1, <3>3
      <3> QED BY <3>2, <3>3
    <2>9. IsSet(t) /\ IndexesMatch(t)
      BY <2>1, <2>5, <2>6 DEF IsSet, IndexesMatch
    <2> QED BY <2>7, <2>8, <2>9 DEF GoodSet
  <1> QED BY <1>1, <1>2

LEMMA EmptyIsGood == GoodSet(EmptySet) /\ Listed(EmptySet) = {}
  <1>1. EmptySet.values = <<>> /\ EmptySet.indexes = [w \in Words |-> 0]
    BY DEF EmptySet
  <1> QED BY <1>1 DEF GoodSet, IsSet, IndexesMatch, Listed
-----------------------------------------------------------------------------
(* The conversions lose nothing.                                           *)

LEMMA SmallModulo ==
  ASSUME NEW m \in Nat, NEW v \in 0 .. m
  PROVE  v % (m + 1) = v
  BY Z3

LEMMA Conversions ==
  ASSUME NEW ty \in Types, NEW v \in ValuesOf(ty)
  PROVE  /\ v \in Words
         /\ toBytes32(ty, v) = v
         /\ fromBytes32(ty, v) = v
  <1>1. CASE ty = "address"
    <2>1. AddressMax \in Nat /\ v \in 0 .. AddressMax /\ v \in 0 .. WordMax
      BY <1>1, WordAssumption DEF ValuesOf
    <2>2. v % (AddressMax + 1) = v
      BY <2>1, SmallModulo
    <2> QED BY <1>1, <2>1, <2>2 DEF toBytes32, fromBytes32, Words
  <1>2. CASE ty # "address"
    BY <1>2 DEF toBytes32, fromBytes32, ValuesOf
  <1> QED BY <1>1, <1>2

\* The enumeration a caller sees is the array of words.
LEMMA ValuesAreWords ==
  ASSUME NEW ty \in Types, NEW s, GoodSet(s),
         \A i \in 1 .. Len(s.values) : s.values[i] \in ValuesOf(ty)
  PROVE  values(ty, s) = s.values
  <1>1. Len(s.values) \in Nat /\ s.values \in Seq(Words)
    BY DEF GoodSet, IsSet
  <1>2. s.values = [i \in 1 .. Len(s.values) |-> s.values[i]]
    BY <1>1
  <1>3. \A i \in 1 .. Len(s.values) : fromBytes32(ty, s.values[i]) = s.values[i]
    BY Conversions
  <1> QED BY <1>2, <1>3 DEF values

-----------------------------------------------------------------------------
(* The set contract.                                                       *)

SetInv == SetTypeOK /\ SetIndexesMatch

\* The instances of the abstract modules have their own copy of FiniteSets.
LEMMA SameCardinality ==
  \A S : AsSet!Cardinality(S) = Cardinality(S) /\ AsMap!Cardinality(S) = Cardinality(S)
  BY DEF AsSet!Cardinality, AsMap!Cardinality, Cardinality

LEMMA SetInvMeans ==
  ASSUME SetInv
  PROVE  /\ type \in Types
         /\ GoodSet(set)
         /\ Listed(set) \subseteq ValuesOf(type)
         /\ values(type, set) = set.values
  <1>1. type \in Types /\ GoodSet(set) /\ \A i \in 1 .. Len(set.values) : set.values[i] \in ValuesOf(type)
    BY DEF SetInv, SetTypeOK, SetIndexesMatch, GoodSet
  <1> QED BY <1>1, ValuesAreWords DEF Listed

LEMMA SetInvFrom ==
  ASSUME type' \in Types, GoodSet(set'), Listed(set') \subseteq ValuesOf(type')
  PROVE  SetInv'
  BY DEF SetInv, SetTypeOK, SetIndexesMatch, GoodSet, Listed

LEMMA SetInitInv == SetInit => SetInv
  <1> SUFFICES ASSUME SetInit PROVE SetInv
    OBVIOUS
  <1>1. type \in Types /\ set = EmptySet
    BY DEF SetInit
  <1>2. set.values = <<>>
    BY <1>1 DEF EmptySet
  <1> QED BY <1>1, <1>2, EmptyIsGood DEF SetInv, SetTypeOK, SetIndexesMatch, GoodSet

LEMMA ContainsMeans ==
  ASSUME SetInv, NEW v \in ValuesOf(type)
  PROVE  /\ v \in Words
         /\ toBytes32(type, v) = v
         /\ AsSet!Members = Listed(set)
         /\ contains(type, set, v) = (v \in Listed(set))
  <1>1. v \in Words /\ toBytes32(type, v) = v
    BY SetInvMeans, Conversions
  <1>2. AsSet!Members = Listed(set)
    BY SetInvMeans DEF AsSet!Members, Listed
  <1>3. (set.indexes[v] # 0) = (v \in Listed(set))
    BY <1>1, SetInvMeans, ContainsIsListed DEF containsWord
  <1> QED BY <1>1, <1>2, <1>3 DEF contains, containsWord

LEMMA AddStep ==
  ASSUME SetInv, NEW v \in ValuesOf(type), Add(v)
  PROVE  /\ SetInv'
         /\ OnlyLastMoves(set, set')
         /\ AsSet!Add(v)
  <1>1. /\ type \in Types /\ type' = type /\ GoodSet(set)
        /\ Listed(set) \subseteq ValuesOf(type) /\ values(type, set) = set.values
    BY SetInvMeans DEF Add
  <1>2. /\ v \in Words /\ toBytes32(type, v) = v
        /\ AsSet!Members = Listed(set)
        /\ contains(type, set, v) = (v \in Listed(set))
    BY ContainsMeans
  <1>3. set' = addWord(set, v)
    BY <1>2 DEF Add, add
  <1>4. /\ GoodSet(set')
        /\ Listed(set') = Listed(set) \cup {v}
        /\ OnlyLastMoves(set, set')
    BY <1>1, <1>2, <1>3, AddWord
  <1>5. SetInv'
    BY <1>1, <1>4, SetInvFrom
  <1>6. values(type', set') = set'.values
    BY <1>1, <1>4, <1>5, ValuesAreWords DEF SetInv, SetTypeOK
  <1>7. AsSet!Relist(AsSet!Members \cup {v})
    BY <1>2, <1>4, <1>6, ListedOnce DEF AsSet!Relist, Listed
  <1>8. response' = AsSet!Answer("add", v, v \notin AsSet!Members, 0)
    BY <1>2 DEF Add, Answer, AsSet!Answer
  <1> QED BY <1>4, <1>5, <1>7, <1>8 DEF AsSet!Add

LEMMA RemoveStep ==
  ASSUME SetInv, NEW v \in ValuesOf(type), Remove(v)
  PROVE  /\ SetInv'
         /\ OnlyLastMoves(set, set')
         /\ AsSet!Remove(v)
  <1>1. /\ type \in Types /\ type' = type /\ GoodSet(set)
        /\ Listed(set) \subseteq ValuesOf(type) /\ values(type, set) = set.values
    BY SetInvMeans DEF Remove
  <1>2. /\ v \in Words /\ toBytes32(type, v) = v
        /\ AsSet!Members = Listed(set)
        /\ contains(type, set, v) = (v \in Listed(set))
    BY ContainsMeans
  <1>3. set' = removeWord(set, v)
    BY <1>2 DEF Remove, remove
  <1>4. /\ GoodSet(set')
        /\ Listed(set') = Listed(set) \ {v}
        /\ OnlyLastMoves(set, set')
    BY <1>1, <1>2, <1>3, RemoveWord
  <1>5. SetInv'
    BY <1>1, <1>4, SetInvFrom
  <1>6. values(type', set') = set'.values
    BY <1>1, <1>4, <1>5, ValuesAreWords DEF SetInv, SetTypeOK
  <1>7. AsSet!Relist(AsSet!Members \ {v})
    BY <1>2, <1>4, <1>6, ListedOnce DEF AsSet!Relist, Listed
  <1>8. response' = AsSet!Answer("remove", v, v \in AsSet!Members, 0)
    BY <1>2 DEF Remove, Answer, AsSet!Answer
  <1> QED BY <1>4, <1>5, <1>7, <1>8 DEF AsSet!Remove

LEMMA KeptSet ==
  ASSUME SetInv, type' = type, set' = set
  PROVE  /\ SetInv'
         /\ OnlyLastMoves(set, set')
         /\ values(type, set)' = values(type, set)
  <1>1. GoodSet(set)
    BY SetInvMeans
  <1>2. OnlyLastMoves(set, set')
    BY <1>1, ListedTyped DEF OnlyLastMoves
  <1>3. SetInv'
    BY DEF SetInv, SetTypeOK, SetIndexesMatch
  <1> QED BY <1>2, <1>3

LEMMA AtStep ==
  ASSUME SetInv, NEW index \in 0 .. MaxIndex, At(index)
  PROVE  AsSet!At
  <1> DEFINE n == Len(set.values)
  <1>1. /\ GoodSet(set) /\ values(type, set) = set.values /\ n \in Nat
        /\ AsSet!Members = Listed(set) /\ AsSet!Cardinality(AsSet!Members) = n
    BY SetInvMeans, ListedOnce, SameCardinality, ListedTyped DEF AsSet!Members, Listed
  <1>2. values(type, set)' = values(type, set)
    BY KeptSet DEF At
  <1>3. CASE index < n
    <2>1. index + 1 \in 1 .. n /\ (index + 1) - 1 = index
      BY <1>1, <1>3
    <2>2. at(type, set, index) = set.values[index + 1]
      BY <2>1, SetInvMeans, Conversions DEF at, wordAt, Listed
    <2>3. response' = AsSet!Answer("at", (index + 1) - 1, TRUE, set.values[index + 1])
      BY <1>3, <2>1, <2>2 DEF At, validIndex, Answer, AsSet!Answer
    <2> QED BY <1>1, <1>2, <2>1, <2>3 DEF AsSet!At
  <1>4. CASE ~(index < n)
    <2>1. response' = AsSet!Answer("at", index, FALSE, 0)
      BY <1>4 DEF At, validIndex, Answer, AsSet!Answer
    <2>2. response'.arg = index
      BY <2>1 DEF AsSet!Answer
    <2>3. index >= n
      BY <1>1, <1>4
    <2> QED BY <1>1, <1>2, <2>1, <2>2, <2>3 DEF AsSet!At
  <1> QED BY <1>3, <1>4

LEMMA SetStep ==
  ASSUME SetInv, [SetNext]_svars
  PROVE  /\ SetInv'
         /\ OnlyLastMoves(set, set')
         /\ [AsSet!Next]_<<values(type, set), response>>
  <1>1. ASSUME NEW v \in ValuesOf(type), Add(v) \/ Remove(v)
        PROVE  /\ SetInv' /\ OnlyLastMoves(set, set')
               /\ AsSet!Next
    BY <1>1, AddStep, RemoveStep, ContainsMeans DEF AsSet!Next
  <1>2. ASSUME NEW v \in ValuesOf(type), Contains(v)
        PROVE  AsSet!Next
    <2>1. /\ v \in Words /\ AsSet!Members = Listed(set)
          /\ contains(type, set, v) = (v \in Listed(set))
      BY ContainsMeans
    <2>2. AsSet!Contains(v)
      BY <1>2, <2>1, KeptSet DEF Contains, Answer, AsSet!Contains, AsSet!Answer
    <2> QED BY <2>1, <2>2 DEF AsSet!Next
  <1>3. ASSUME Length PROVE AsSet!Next
    <2>1. AsSet!Cardinality(AsSet!Members) = Len(set.values)
      BY SetInvMeans, ListedOnce, SameCardinality DEF AsSet!Members, Listed
    <2>2. values(type, set)' = values(type, set)
      BY <1>3, KeptSet DEF Length
    <2> QED BY <1>3, <2>1, <2>2
            DEF Length, lengthOf, Answer, AsSet!Next, AsSet!Length, AsSet!Answer
  <1>4. ASSUME NEW index \in 0 .. MaxIndex, At(index) PROVE AsSet!Next
    BY <1>4, AtStep DEF AsSet!Next
  <1>5. ASSUME AllValues PROVE AsSet!Next
    BY <1>5, KeptSet DEF AllValues, AsSet!Next, AsSet!Enumerate
  <1>6. CASE UNCHANGED svars
    BY <1>6, KeptSet DEF svars
  <1>7. ASSUME \/ \E v \in ValuesOf(type) : Contains(v)
               \/ Length
               \/ \E index \in 0 .. MaxIndex : At(index)
               \/ AllValues
        PROVE  type' = type /\ set' = set
    BY <1>7 DEF Contains, Length, At, AllValues
  <1> QED BY <1>1, <1>2, <1>3, <1>4, <1>5, <1>6, <1>7, KeptSet DEF SetNext

LEMMA SetSafe == SetSpec => []SetInv
  <1>1. SetInv /\ [SetNext]_svars => SetInv'
    BY SetStep
  <1> QED BY SetInitInv, <1>1, PTL DEF SetSpec

\* After any adds and removes, of values of any of the three types, the
\* array holds values of the type, and array and mapping are inverse.
THEOREM SetCorrect == SetSpec => [](SetTypeOK /\ SetIndexesMatch)
  <1>1. SetInv => SetTypeOK /\ SetIndexesMatch
    BY DEF SetInv
  <1> QED BY SetSafe, <1>1, PTL

\* Nothing but the last member ever changes its position.
THEOREM SetMoves == SetSpec => SetOnlyLastMoves
  <1>1. SetInv /\ [SetNext]_svars => [OnlyLastMoves(set, set')]_svars
    BY SetStep
  <1> QED BY SetSafe, <1>1, PTL DEF SetSpec, SetOnlyLastMoves

\* The array and the mapping together are a set that enumerates its members.
THEOREM SetRefines == SetSpec => SetImplementsPlain
  <1>1. SetInit => AsSet!Init
    <2> SUFFICES ASSUME SetInit PROVE AsSet!Init
      OBVIOUS
    <2>1. values(type, set) = <<>>
      BY SetInitInv, SetInvMeans DEF SetInit, EmptySet
    <2> QED BY <2>1 DEF SetInit, Answer, AsSet!Init, AsSet!Answer
  <1>2. SetInv /\ [SetNext]_svars => [AsSet!Next]_<<values(type, set), response>>
    BY SetStep
  <1> QED BY SetSafe, <1>1, <1>2, PTL DEF SetSpec, SetImplementsPlain, AsSet!Spec

-----------------------------------------------------------------------------
(* The map contract.                                                       *)

\* The keys are a good set of keys of the key type; the values are of the
\* value type, and 0 outside the keys.
GoodMap(t, m) ==
  /\ t \in MapTypes
  /\ GoodSet(m.keys)
  /\ Listed(m.keys) \subseteq ValuesOf(t.key)
  /\ m.values \in [Words -> ValuesOf(t.value)]
  /\ \A w \in Words : m.values[w] # 0 => w \in Listed(m.keys)

MapInv == GoodMap(types, map)

LEMMA MapTypesTyped ==
  ASSUME NEW t \in MapTypes
  PROVE  t.key \in Types /\ t.value \in Types
  BY DEF MapTypes, Types

LEMMA ZeroTyped ==
  ASSUME NEW ty \in Types
  PROVE  0 \in ValuesOf(ty) /\ ValuesOf(ty) \subseteq Words
  BY WordAssumption DEF ValuesOf, Words

LEMMA HasKeyMeans ==
  ASSUME NEW t, NEW m, GoodMap(t, m), NEW k \in ValuesOf(t.key)
  PROVE  /\ k \in Words
         /\ toBytes32(t.key, k) = k
         /\ hasKey(m, k) = (k \in Listed(m.keys))
         /\ mapContains(t, m, k) = (k \in Listed(m.keys))
  <1>1. k \in Words /\ toBytes32(t.key, k) = k
    BY MapTypesTyped, Conversions DEF GoodMap
  <1>2. (m.keys.indexes[k] # 0) = (k \in Listed(m.keys))
    BY <1>1, ContainsIsListed DEF GoodMap, containsWord
  <1>3. hasKey(m, k) = (k \in Listed(m.keys))
    BY <1>2 DEF hasKey, contains, toBytes32, containsWord
  <1> QED BY <1>1, <1>3 DEF mapContains

\* Both readers answer for a key exactly when it is present, a value of 0
\* included.
LEMMA ReadersMean ==
  ASSUME NEW t, NEW m, GoodMap(t, m), NEW k \in ValuesOf(t.key)
  PROVE  LET right == [ok |-> k \in Listed(m.keys),
                       value |-> IF k \in Listed(m.keys) THEN m.values[k] ELSE 0]
         IN  mapGet(t, m, k) = right /\ mapTryGet(t, m, k) = right
  <1> DEFINE in == k \in Listed(m.keys)
             right == [ok |-> in, value |-> IF in THEN m.values[k] ELSE 0]
  <1>1. k \in Words /\ toBytes32(t.key, k) = k /\ hasKey(m, k) = in
    BY HasKeyMeans
  <1>2. m.values[k] \in ValuesOf(t.value) /\ (~in => m.values[k] = 0)
    BY <1>1 DEF GoodMap
  <1>3. fromBytes32(t.value, m.values[k]) = m.values[k] /\ fromBytes32(t.value, 0) = 0
    BY <1>2, MapTypesTyped, ZeroTyped, Conversions DEF GoodMap
  <1>4. getWord(m, k) = right
    <2>1. CASE in
      BY <1>1, <2>1 DEF getWord
    <2>2. CASE ~in
      <3>1. in = FALSE
        BY <2>2
      <3> QED BY <1>1, <1>2, <3>1 DEF getWord
    <2> QED BY <2>1, <2>2
  <1>5. tryGetWord(m, k) = right
    <2>1. CASE in
      BY <1>1, <2>1 DEF tryGetWord
    <2>2. CASE ~in
      <3>1. in = FALSE
        BY <2>2
      <3> QED BY <1>1, <1>2, <3>1 DEF tryGetWord
    <2> QED BY <2>1, <2>2
  <1>6. [right EXCEPT !.value = fromBytes32(t.value, right.value)] = right
    BY <1>3
  <1>7. mapGet(t, m, k) = [right EXCEPT !.value = fromBytes32(t.value, right.value)]
    BY <1>1, <1>4 DEF mapGet
  <1>8. mapTryGet(t, m, k) = [right EXCEPT !.value = fromBytes32(t.value, right.value)]
    BY <1>1, <1>5 DEF mapTryGet
  <1> QED BY <1>6, <1>7, <1>8

LEMMA EntriesAre ==
  ASSUME NEW t, NEW m, GoodMap(t, m)
  PROVE  /\ keysOf(t, m) = m.keys.values
         /\ entriesOf(t, m) = [k \in Listed(m.keys) |-> m.values[k]]
  <1>1. keysOf(t, m) = m.keys.values
    BY MapTypesTyped, ValuesAreWords DEF GoodMap, Listed, keysOf
  <1>2. ASSUME NEW k \in Listed(m.keys)
        PROVE  mapGet(t, m, k).value = m.values[k]
    <2>1. k \in ValuesOf(t.key)
      BY DEF GoodMap
    <2> QED BY <2>1, ReadersMean
  <1> QED BY <1>1, <1>2 DEF Listed, entriesOf

\* The abstract state, in terms of the concrete one.
LEMMA Abstraction ==
  ASSUME MapInv
  PROVE  /\ keysOf(types, map) = map.keys.values
         /\ entriesOf(types, map) = [k \in Listed(map.keys) |-> map.values[k]]
         /\ AsMap!Members = Listed(map.keys)
  <1>1. /\ keysOf(types, map) = map.keys.values
        /\ entriesOf(types, map) = [k \in Listed(map.keys) |-> map.values[k]]
    BY EntriesAre DEF MapInv
  <1> QED BY <1>1 DEF AsMap!Members, Listed

LEMMA MapInitInv == MapInit => MapInv
  <1> SUFFICES ASSUME MapInit PROVE MapInv
    OBVIOUS
  <1>1. types \in MapTypes /\ map.keys = EmptySet /\ map.values = [w \in Words |-> 0]
    BY DEF MapInit, EmptyMap
  <1>2. 0 \in ValuesOf(types.value)
    BY <1>1, MapTypesTyped, ZeroTyped
  <1> QED BY <1>1, <1>2, EmptyIsGood DEF MapInv, GoodMap

LEMMA SetEntryStep ==
  ASSUME MapInv, NEW k \in ValuesOf(types.key), NEW v \in ValuesOf(types.value),
         Set(k, v)
  PROVE  /\ MapInv'
         /\ OnlyLastMoves(map.keys, map'.keys)
         /\ AsMap!Set(k, v)
  <1>1. GoodMap(types, map) /\ types' = types
    BY DEF MapInv, Set
  <1>2. /\ k \in Words /\ toBytes32(types.key, k) = k
        /\ mapContains(types, map, k) = (k \in Listed(map.keys))
    BY <1>1, HasKeyMeans
  <1>3. toBytes32(types.value, v) = v
    BY <1>1, MapTypesTyped, Conversions DEF GoodMap
  <1>4. map'.keys = addWord(map.keys, k) /\ map'.values = [map.values EXCEPT ![k] = v]
    BY <1>2, <1>3 DEF Set, mapSet, setWords, add, toBytes32
  <1>5. /\ GoodSet(map'.keys)
        /\ Listed(map'.keys) = Listed(map.keys) \cup {k}
        /\ OnlyLastMoves(map.keys, map'.keys)
    BY <1>1, <1>2, <1>4, AddWord DEF GoodMap
  <1>6. GoodMap(types', map')
    BY <1>1, <1>2, <1>4, <1>5 DEF GoodMap
  <1>7. AsMap!Relist(AsMap!Members \cup {k})
    <2>1. keysOf(types', map') = map'.keys.values
      BY <1>6, EntriesAre
    <2>2. \A i, j \in 1 .. Len(map'.keys.values) :
            map'.keys.values[i] = map'.keys.values[j] => i = j
      BY <1>5, ListedOnce
    <2>3. {map'.keys.values[i] : i \in 1 .. Len(map'.keys.values)} = AsMap!Members \cup {k}
      BY <1>5, Abstraction DEF Listed
    <2> QED BY <2>1, <2>2, <2>3 DEF AsMap!Relist
  <1>8. entriesOf(types', map') = [x \in AsMap!Members \cup {k} |->
                           IF x = k THEN v ELSE entriesOf(types, map)[x]]
    <2>1. entriesOf(types', map') = [x \in Listed(map.keys) \cup {k} |-> map'.values[x]]
      BY <1>5, <1>6, EntriesAre
    <2>2. \A x \in Listed(map.keys) : entriesOf(types, map)[x] = map.values[x] /\ x \in Words
      BY <1>1, Abstraction, MapTypesTyped, ZeroTyped DEF MapInv, GoodMap
    <2>3. \A x \in Listed(map.keys) \cup {k} :
            map'.values[x] = IF x = k THEN v ELSE entriesOf(types, map)[x]
      BY <1>1, <1>2, <1>4, <2>2 DEF GoodMap
    <2>4. AsMap!Members = Listed(map.keys)
      BY Abstraction
    <2> QED BY <2>1, <2>3, <2>4
  <1>9. reply' = AsMap!Answer("set", k, k \notin AsMap!Members, 0, 0)
    BY <1>2, Abstraction DEF Set, Reply, AsMap!Answer
  <1> QED BY <1>5, <1>6, <1>7, <1>8, <1>9 DEF MapInv, AsMap!Set

LEMMA RemoveEntryStep ==
  ASSUME MapInv, NEW k \in ValuesOf(types.key), RemoveEntry(k)
  PROVE  /\ MapInv'
         /\ OnlyLastMoves(map.keys, map'.keys)
         /\ AsMap!Remove(k)
  <1>1. GoodMap(types, map) /\ types' = types
    BY DEF MapInv, RemoveEntry
  <1>2. /\ k \in Words /\ toBytes32(types.key, k) = k
        /\ mapContains(types, map, k) = (k \in Listed(map.keys))
    BY <1>1, HasKeyMeans
  <1>3. 0 \in ValuesOf(types.value)
    BY <1>1, MapTypesTyped, ZeroTyped DEF GoodMap
  <1>4. map'.keys = removeWord(map.keys, k) /\ map'.values = [map.values EXCEPT ![k] = 0]
    BY <1>2 DEF RemoveEntry, mapRemove, removeKey, remove, toBytes32
  <1>5. /\ GoodSet(map'.keys)
        /\ Listed(map'.keys) = Listed(map.keys) \ {k}
        /\ OnlyLastMoves(map.keys, map'.keys)
    BY <1>1, <1>2, <1>4, RemoveWord DEF GoodMap
  <1>6. GoodMap(types', map')
    BY <1>1, <1>2, <1>3, <1>4, <1>5 DEF GoodMap
  <1>7. AsMap!Relist(AsMap!Members \ {k})
    <2>1. keysOf(types', map') = map'.keys.values
      BY <1>6, EntriesAre
    <2>2. \A i, j \in 1 .. Len(map'.keys.values) :
            map'.keys.values[i] = map'.keys.values[j] => i = j
      BY <1>5, ListedOnce
    <2>3. {map'.keys.values[i] : i \in 1 .. Len(map'.keys.values)} = AsMap!Members \ {k}
      BY <1>5, Abstraction DEF Listed
    <2> QED BY <2>1, <2>2, <2>3 DEF AsMap!Relist
  <1>8. entriesOf(types', map') = [x \in AsMap!Members \ {k} |-> entriesOf(types, map)[x]]
    <2>1. entriesOf(types', map') = [x \in Listed(map.keys) \ {k} |-> map'.values[x]]
      BY <1>5, <1>6, EntriesAre
    <2>2. \A x \in Listed(map.keys) : entriesOf(types, map)[x] = map.values[x] /\ x \in Words
      BY <1>1, Abstraction, MapTypesTyped, ZeroTyped DEF MapInv, GoodMap
    <2>3. \A x \in Listed(map.keys) \ {k} : map'.values[x] = entriesOf(types, map)[x]
      BY <1>1, <1>2, <1>4, <2>2 DEF GoodMap
    <2>4. AsMap!Members = Listed(map.keys)
      BY Abstraction
    <2> QED BY <2>1, <2>3, <2>4
  <1>9. reply' = AsMap!Answer("remove", k, k \in AsMap!Members, 0, 0)
    BY <1>2, Abstraction DEF RemoveEntry, Reply, AsMap!Answer
  <1> QED BY <1>5, <1>6, <1>7, <1>8, <1>9 DEF MapInv, AsMap!Remove

LEMMA KeptMap ==
  ASSUME MapInv, types' = types, map' = map
  PROVE  /\ MapInv'
         /\ OnlyLastMoves(map.keys, map'.keys)
         /\ keysOf(types, map)' = keysOf(types, map)
         /\ entriesOf(types', map') = entriesOf(types, map)
  <1>1. OnlyLastMoves(map.keys, map'.keys)
    BY ListedTyped DEF MapInv, GoodMap, OnlyLastMoves
  <1>2. MapInv'
    BY DEF MapInv
  <1> QED BY <1>1, <1>2

LEMMA ReadStep ==
  ASSUME MapInv, NEW k \in ValuesOf(types.key),
         ContainsKey(k) \/ TryGet(k) \/ Get(k)
  PROVE  AsMap!Contains(k) \/ AsMap!Get(k)
  <1>1. /\ GoodMap(types, map) /\ AsMap!Members = Listed(map.keys)
        /\ mapContains(types, map, k) = (k \in Listed(map.keys))
        /\ entriesOf(types, map) = [x \in Listed(map.keys) |-> map.values[x]]
    BY HasKeyMeans, Abstraction DEF MapInv
  <1> DEFINE right == [ok |-> k \in Listed(map.keys),
                       value |-> IF k \in Listed(map.keys) THEN map.values[k] ELSE 0]
  <1>2. mapGet(types, map, k) = right /\ mapTryGet(types, map, k) = right
    BY <1>1, ReadersMean
  <1>3. CASE ContainsKey(k)
    BY <1>1, <1>3 DEF ContainsKey, Reply, AsMap!Contains, AsMap!Answer
  <1>4. CASE TryGet(k)
    <2>1. reply' = Reply("tryGet", k, right.ok, 0, right.value)
      BY <1>2, <1>4 DEF TryGet
    <2>2. CASE k \in Listed(map.keys)
      <3>1. reply' = AsMap!Answer("tryGet", k, TRUE, 0, entriesOf(types, map)[k])
        BY <1>1, <2>1, <2>2 DEF Reply, AsMap!Answer
      <3> QED BY <1>1, <2>2, <3>1 DEF AsMap!Get
    <2>3. CASE k \notin Listed(map.keys)
      <3>0. (k \in Listed(map.keys)) = FALSE
        BY <2>3
      <3>1. reply' = AsMap!Answer("tryGet", k, FALSE, 0, 0)
        BY <1>1, <2>1, <3>0 DEF Reply, AsMap!Answer
      <3> QED BY <1>1, <2>3, <3>1 DEF AsMap!Get
    <2> QED BY <2>2, <2>3
  <1>5. CASE Get(k)
    <2>1. reply' = Reply("get", k, right.ok, 0, right.value)
      BY <1>2, <1>5 DEF Get
    <2>2. CASE k \in Listed(map.keys)
      <3>1. reply' = AsMap!Answer("get", k, TRUE, 0, entriesOf(types, map)[k])
        BY <1>1, <2>1, <2>2 DEF Reply, AsMap!Answer
      <3> QED BY <1>1, <2>2, <3>1 DEF AsMap!Get
    <2>3. CASE k \notin Listed(map.keys)
      <3>0. (k \in Listed(map.keys)) = FALSE
        BY <2>3
      <3>1. reply' = AsMap!Answer("get", k, FALSE, 0, 0)
        BY <1>1, <2>1, <3>0 DEF Reply, AsMap!Answer
      <3> QED BY <1>1, <2>3, <3>1 DEF AsMap!Get
    <2> QED BY <2>2, <2>3
  <1> QED BY <1>3, <1>4, <1>5

LEMMA EntryAtStep ==
  ASSUME MapInv, NEW index \in 0 .. MaxEntry, EntryAt(index)
  PROVE  AsMap!At
  <1> DEFINE n == Len(map.keys.values)
  <1>1. /\ GoodMap(types, map) /\ keysOf(types, map) = map.keys.values /\ n \in Nat
        /\ AsMap!Cardinality(AsMap!Members) = n
        /\ entriesOf(types, map) = [x \in Listed(map.keys) |-> map.values[x]]
    BY Abstraction, ListedOnce, ListedTyped, SameCardinality DEF MapInv, GoodMap
  <1>2. CASE index < n
    <2> DEFINE key == map.keys.values[index + 1]
    <2>1. index + 1 \in 1 .. n /\ (index + 1) - 1 = index
      BY <1>1, <1>2
    <2>2. key \in Listed(map.keys) /\ key \in ValuesOf(types.key) /\ key \in Words
      BY <1>1, <2>1, MapTypesTyped, ZeroTyped DEF GoodMap, Listed
    <2>3. fromBytes32(types.key, key) = key /\ fromBytes32(types.value, map.values[key]) = map.values[key]
      BY <1>1, <2>2, MapTypesTyped, Conversions DEF GoodMap
    <2>4. entryAt(map, index) = [key |-> key, value |-> map.values[key]]
      BY DEF entryAt, at, wordAt, fromBytes32
    <2>5. mapAt(types, map, index) = [key |-> key, value |-> map.values[key]]
      BY <2>3, <2>4 DEF mapAt
    <2>6. entriesOf(types, map)[key] = map.values[key]
      BY <1>1, <2>2
    <2>7. reply' = Reply("at", index, TRUE, key, map.values[key])
      <3>1. reply' = LET e == mapAt(types, map, index)
                     IN Reply("at", index, TRUE, e.key, e.value)
        BY <1>2 DEF EntryAt, validIndex
      <3> QED BY <2>5, <3>1
    <2>8. reply' = AsMap!Answer("at", (index + 1) - 1, TRUE, key, entriesOf(types, map)[key])
      BY <2>1, <2>6, <2>7 DEF Reply, AsMap!Answer
    <2> QED BY <1>1, <2>1, <2>8 DEF AsMap!At
  <1>3. CASE ~(index < n)
    <2>1. reply' = AsMap!Answer("at", index, FALSE, 0, 0) /\ index >= n
      BY <1>1, <1>3 DEF EntryAt, validIndex, Reply, AsMap!Answer
    <2>2. reply'.arg = index
      BY <2>1 DEF AsMap!Answer
    <2> QED BY <1>1, <2>1, <2>2 DEF AsMap!At
  <1> QED BY <1>2, <1>3

LEMMA MapStep ==
  ASSUME MapInv, [MapNext]_mvars
  PROVE  /\ MapInv'
         /\ OnlyLastMoves(map.keys, map'.keys)
         /\ [AsMap!Next]_<<keysOf(types, map), entriesOf(types, map), reply>>
  <1>0. types \in MapTypes /\ ValuesOf(types.key) \subseteq Words /\ ValuesOf(types.value) \subseteq Words
    BY MapTypesTyped, ZeroTyped DEF MapInv, GoodMap
  <1>1. ASSUME NEW k \in ValuesOf(types.key), NEW v \in ValuesOf(types.value), Set(k, v)
        PROVE  MapInv' /\ OnlyLastMoves(map.keys, map'.keys) /\ AsMap!Next
    BY <1>0, <1>1, SetEntryStep DEF AsMap!Next
  <1>2. ASSUME NEW k \in ValuesOf(types.key), RemoveEntry(k)
        PROVE  MapInv' /\ OnlyLastMoves(map.keys, map'.keys) /\ AsMap!Next
    BY <1>0, <1>2, RemoveEntryStep DEF AsMap!Next
  <1>3. ASSUME NEW k \in ValuesOf(types.key), ContainsKey(k) \/ TryGet(k) \/ Get(k)
        PROVE  /\ types' = types /\ map' = map
               /\ AsMap!Next
    <2>1. types' = types /\ map' = map
      BY <1>3 DEF ContainsKey, TryGet, Get
    <2>2. k \in Words /\ (AsMap!Contains(k) \/ AsMap!Get(k))
      BY <1>0, <1>3, ReadStep
    <2> QED BY <2>1, <2>2, KeptMap DEF AsMap!Next
  <1>4. ASSUME EntryCount
        PROVE  types' = types /\ map' = map /\ AsMap!Next
    <2>1. AsMap!Cardinality(AsMap!Members) = Len(map.keys.values)
      BY Abstraction, ListedOnce, SameCardinality DEF MapInv, GoodMap
    <2>2. types' = types /\ map' = map
      BY <1>4 DEF EntryCount
    <2>3. AsMap!Length
      BY <1>4, <2>1 DEF EntryCount, lengthOf, Reply, AsMap!Length, AsMap!Answer
    <2> QED BY <2>2, <2>3, KeptMap DEF AsMap!Next
  <1>5. ASSUME NEW index \in 0 .. MaxEntry, EntryAt(index)
        PROVE  types' = types /\ map' = map /\ AsMap!Next
    <2>1. types' = types /\ map' = map
      BY <1>5 DEF EntryAt
    <2> QED BY <1>5, <2>1, EntryAtStep, KeptMap DEF AsMap!Next
  <1>6. CASE UNCHANGED mvars
    BY <1>6, KeptMap DEF mvars
  <1> QED BY <1>1, <1>2, <1>3, <1>4, <1>5, <1>6, KeptMap DEF MapNext

LEMMA MapSafe == MapSpec => []MapInv
  <1>1. MapInv /\ [MapNext]_mvars => MapInv'
    BY MapStep
  <1> QED BY MapInitInv, <1>1, PTL DEF MapSpec

\* No value stays behind a removed key, and keys and positions are inverse.
THEOREM MapCorrect == MapSpec => [](NoOrphanValue /\ KeysMatch)
  <1>1. MapInv => NoOrphanValue /\ KeysMatch
    <2> SUFFICES ASSUME MapInv PROVE NoOrphanValue /\ KeysMatch
      OBVIOUS
    <2>1. KeysMatch
      BY DEF MapInv, GoodMap, GoodSet, KeysMatch
    <2>2. ASSUME NEW w \in Words, map.values[w] # 0
          PROVE  hasKey(map, w)
      <3>1. containsWord(map.keys, w)
        BY <2>2, ContainsIsListed DEF MapInv, GoodMap
      <3> QED BY <3>1 DEF hasKey, contains, toBytes32
    <2> QED BY <2>1, <2>2 DEF NoOrphanValue
  <1> QED BY MapSafe, <1>1, PTL

\* Nothing but the last entry ever changes its position.
THEOREM MapMoves == MapSpec => EntriesOnlyLastMoves
  <1>1. MapInv /\ [MapNext]_mvars => [OnlyLastMoves(map.keys, map'.keys)]_mvars
    BY MapStep
  <1> QED BY MapSafe, <1>1, PTL DEF MapSpec, EntriesOnlyLastMoves

\* The two structures together are a finite map that enumerates its entries.
THEOREM MapRefines == MapSpec => MapImplementsPlain
  <1>1. MapInit => AsMap!Init
    <2> SUFFICES ASSUME MapInit PROVE AsMap!Init
      OBVIOUS
    <2>1. map.keys = EmptySet /\ EmptySet.values = <<>>
      BY DEF MapInit, EmptyMap, EmptySet
    <2>2. keysOf(types, map) = <<>> /\ entriesOf(types, map) = [k \in {} |-> map.values[k]]
      BY <2>1, MapInitInv, Abstraction, EmptyIsGood
    <2>3. entriesOf(types, map) = [k \in {} |-> 0]
      BY <2>2
    <2> QED BY <2>2, <2>3 DEF MapInit, Reply, AsMap!Init, AsMap!Answer
  <1>2. MapInv /\ [MapNext]_mvars => [AsMap!Next]_<<keysOf(types, map), entriesOf(types, map), reply>>
    BY MapStep
  <1> QED BY MapSafe, <1>1, <1>2, PTL DEF MapSpec, MapImplementsPlain, AsMap!Spec

-----------------------------------------------------------------------------
(* The casts. Powers of two: what is needed of them follows from counting   *)
(* subsets, FS_SUBSET being the library's one fact that has a power in it.  *)

\* 2 ^ n is the number of subsets of 1 .. n.
LEMMA PowerOfTwo ==
  ASSUME NEW n \in Nat
  PROVE  /\ IsFiniteSet(SUBSET (1 .. n)) /\ IsFiniteSet(1 .. n)
         /\ 2 ^ n = Cardinality(SUBSET (1 .. n))
         /\ 2 ^ n \in Nat
<1>1. IsFiniteSet(1 .. n) /\ Cardinality(1 .. n) = n
  BY FS_Interval
<1>2. IsFiniteSet(SUBSET (1 .. n)) /\ Cardinality(SUBSET (1 .. n)) = 2 ^ Cardinality(1 .. n)
  BY <1>1, FS_SUBSET
<1> QED
  BY <1>1, <1>2, FS_CardinalityType

\* A longer interval has no fewer subsets.
LEMMA PowersGrow ==
  ASSUME NEW m \in Nat, NEW n \in Nat, m <= n
  PROVE  2 ^ m <= 2 ^ n
<1>1. 1 .. m \subseteq 1 .. n
  OBVIOUS
<1>2. SUBSET (1 .. m) \in SUBSET SUBSET (1 .. n)
  BY <1>1
<1>3. Cardinality(SUBSET (1 .. m)) <= Cardinality(SUBSET (1 .. n))
  BY <1>2, PowerOfTwo, FS_Subset
<1> QED
  BY <1>3, PowerOfTwo

\* Every interval has the empty subset.
LEMMA PowerPositive ==
  ASSUME NEW n \in Nat
  PROVE  2 ^ n > 0
<1> DEFINE Power == 2 ^ n
<1>1. {} \in SUBSET (1 .. n)
  OBVIOUS
<1>2. Cardinality(SUBSET (1 .. n)) # 0
  <2>1. IsFiniteSet(SUBSET (1 .. n))
    BY PowerOfTwo
  <2> QED
    BY <1>1, <2>1, FS_EmptySet
<1>3. Power \in Nat /\ Power # 0
  BY <1>2, PowerOfTwo
<1> HIDE DEF Power
<1>4. Power > 0
  BY <1>3
<1> QED
  BY <1>4 DEF Power

\* A further element doubles the number of subsets: each of them appears
\* once without it and once with it.
LEMMA OneMoreElement ==
  ASSUME NEW S, NEW x, IsFiniteSet(S), x \notin S
  PROVE  Cardinality(SUBSET (S \union {x})) = Cardinality(SUBSET S) + Cardinality(SUBSET S)
<1> DEFINE f == [s \in SUBSET S |-> s \union {x}]
           With == {s \union {x} : s \in SUBSET S}
           P == SUBSET S
           Q == SUBSET (S \union {x})
<1>1. \A s \in P : s \union {x} \in With
  OBVIOUS
<1>2. \A w \in With : \E s \in P : w = s \union {x}
  OBVIOUS
<1>3. IsFiniteSet(P)
  BY FS_SUBSET
<1>4. f \in Bijection(P, With)
  <2>1. \A s, t \in P : s \union {x} = t \union {x} => s = t
    <3>1. \A s \in P : x \notin s
      OBVIOUS
    <3>2. ASSUME NEW s \in P, NEW t \in P, s \union {x} = t \union {x}
          PROVE  s = t
      <4> HIDE DEF P
      <4>1. x \notin s /\ x \notin t
        BY <3>1
      <4>2. \A y : y \in s <=> y \in s \union {x} /\ y # x
        BY <4>1
      <4>3. \A y : y \in t <=> y \in t \union {x} /\ y # x
        BY <4>1
      <4>4. \A y : y \in s <=> y \in t
        BY <3>2, <4>2, <4>3, Zenon
      <4> QED
        BY <4>4
    <3> HIDE DEF P
    <3> QED
      BY <3>2
  <2>2. f \in [P -> With] /\ \A s \in P : f[s] = s \union {x}
    BY <1>1
  <2> HIDE DEF f, With, P
  <2>3. \A s, t \in P : f[s] = f[t] => s = t
    BY <2>1, <2>2, Zenon
  <2>4. \A w \in With : \E s \in P : f[s] = w
    BY <1>2, <2>2, Zenon
  <2> QED
    BY <2>2, <2>3, <2>4, Zenon DEF Bijection, Injection, Surjection, IsInjective
<1>5. IsFiniteSet(With) /\ Cardinality(With) = Cardinality(P)
  <2> HIDE DEF f, With, P
  <2> QED
    BY <1>3, <1>4, FS_Bijection DEF ExistsBijection
<1>6. \A w \in With : x \in w /\ w \in Q
  OBVIOUS
<1>7. \A s \in P : x \notin s /\ s \in Q
  OBVIOUS
<1>8. \A q \in Q : x \in q => q \ {x} \in P /\ q = (q \ {x}) \union {x}
  OBVIOUS
<1>9. \A q \in Q : x \notin q => q \in P
  OBVIOUS
<1> HIDE DEF f, With, P, Q
<1>10. Q = P \union With
  <2>1. ASSUME NEW q \in Q
        PROVE  q \in P \union With
    <3>1. CASE x \in q
      <4>1. (q \ {x}) \union {x} \in With
        BY <1>1, <1>8, <3>1
      <4> QED
        BY <1>8, <3>1, <4>1
    <3> QED
      BY <1>9, <3>1
  <2> QED
    BY <1>6, <1>7, <2>1
<1>11. P \cap With = {}
  BY <1>6, <1>7
<1>12. Cardinality(P \cap With) = 0
  BY <1>11, FS_EmptySet
<1>13. Cardinality(Q) = Cardinality(P) + Cardinality(With) - Cardinality(P \cap With)
  BY <1>3, <1>5, <1>10, FS_Union
<1>14. Cardinality(P) \in Nat
  BY <1>3, FS_CardinalityType
<1>15. Cardinality(Q) = Cardinality(P) + Cardinality(P)
  BY <1>5, <1>12, <1>13, <1>14
<1> QED
  BY <1>15 DEF P, Q

\* One more bit doubles the values of a type.
LEMMA PowerDoubles ==
  ASSUME NEW n \in Nat \ {0}
  PROVE  2 ^ n = 2 ^ (n - 1) + 2 ^ (n - 1)
<1>1. n - 1 \in Nat /\ n \notin 1 .. n - 1 /\ 1 .. n = (1 .. n - 1) \union {n}
  OBVIOUS
<1> DEFINE S == 1 .. n - 1
<1>2. 2 ^ (n - 1) = Cardinality(SUBSET S) /\ 2 ^ n = Cardinality(SUBSET (S \union {n}))
      /\ IsFiniteSet(S)
  BY <1>1, PowerOfTwo
<1>3. n \notin S
  BY <1>1
<1> HIDE DEF S
<1>4. Cardinality(SUBSET (S \union {n})) = Cardinality(SUBSET S) + Cardinality(SUBSET S)
  BY <1>2, <1>3, OneMoreElement
<1> QED
  BY <1>2, <1>4, Zenon

-----------------------------------------------------------------------------
(* The types.                                                              *)

\* The remainder that Solidity keeps of a value one turn around the circle.
LEMMA Remainder ==
  ASSUME NEW v \in Int, NEW m \in Nat \ {0}
  PROVE  /\ v % m \in 0 .. m - 1
         /\ 0 <= v /\ v < m => v % m = v
         /\ -m <= v /\ v < 0 => v % m = v + m
<1>1. v % m \in 0 .. m - 1
  OBVIOUS
<1>2. 0 <= v /\ v < m => v % m = v
  OBVIOUS
<1>3. -m <= v /\ v < 0 => v % m = v + m
  OBVIOUS
<1> QED
  BY <1>1, <1>2, <1>3

\* Division rounds down.
LEMMA Quotient ==
  ASSUME NEW a \in Nat, NEW b \in Nat \ {0}
  PROVE  a \div b \in Nat /\ (a \div b) * b <= a
<1>1. a = b * (a \div b) + (a % b)
  OBVIOUS
<1>2. a \div b \in Nat /\ a % b \in Nat
  OBVIOUS
<1> QED
  BY <1>1, <1>2

\* The lengths that range(8, 256, 8) lists are below the word's.
LEMMA WidthsInWord ==
  ASSUME NEW n \in LENGTHS
  PROVE  n \in 1 .. Word - 1
<1> DEFINE count == (Word - Unit + Unit - 1) \div Unit
<1>1. Unit \in Nat \ {0} /\ Word \in Nat /\ Word > Unit
  BY CastWidthAssumption
<1>2. count \in Nat /\ count * Unit <= Word - 1
  BY <1>1, Quotient, Word - Unit + Unit - 1 = Word - 1, Word - 1 \in Nat
<1>3. range(Unit, Word, Unit) = [i \in 1 .. count |-> Unit + (i - 1) * Unit]
  BY <1>1 DEF range
<1> HIDE DEF count
<1>4. Len(range(Unit, Word, Unit)) = count
  BY <1>2, <1>3
<1>5. PICK i \in 1 .. count : n = Unit + (i - 1) * Unit
  BY <1>3, <1>4 DEF LENGTHS
<1>6. n = i * Unit
  BY <1>1, <1>5
<1>7. i * Unit <= count * Unit /\ i * Unit >= Unit
  BY <1>1, <1>2
<1> QED
  BY <1>1, <1>2, <1>6, <1>7

\* So the types of the program are those of the widths 1 to Word.
LEMMA TypesOfTheProgram ==
  ASSUME NEW t \in NumTypes
  PROVE  \E n \in 1 .. Word : t = uintType(n) \/ t = intType(n)
<1>1. Word \in 1 .. Word
  BY CastWidthAssumption
<1>2. PICK n \in LENGTHS \union {Word} : t = uintType(n) \/ t = intType(n)
  BY DEF NumTypes
<1>3. n \in 1 .. Word
  BY <1>1, <1>2, WidthsInWord
<1> QED
  BY <1>2, <1>3

\* The least and the greatest value of a type, and the turn of the circle.
LEMMA TypeBounds ==
  ASSUME NEW t \in NumTypes
  PROVE  /\ minOf(t) \in Int /\ maxOf(t) \in Int /\ 2 ^ t.length \in Nat \ {0}
         /\ maxOf(t) - minOf(t) + 1 = 2 ^ t.length
         /\ minOf(t) <= 0 /\ 0 <= maxOf(t)
         /\ ~t.signed => minOf(t) = 0
         /\ maxOf(t) <= maxOf(uintType(Word))
<1>1. PICK n \in 1 .. Word : t = uintType(n) \/ t = intType(n)
  BY TypesOfTheProgram
<1>2. Word \in Nat /\ n \in Nat \ {0} /\ n - 1 \in Nat /\ n <= Word
  BY <1>1, CastWidthAssumption
<1> DEFINE all == 2 ^ n
           half == 2 ^ (n - 1)
           word == 2 ^ Word
<1>3. all \in Nat /\ half \in Nat /\ word \in Nat
  BY <1>2, PowerOfTwo
<1>4. all = half + half
  BY <1>2, PowerDoubles
<1>5. half > 0
  BY <1>2, PowerPositive
<1>6. all <= word
  BY <1>2, PowersGrow
<1>7. CASE t = uintType(n)
  <2>1. /\ minOf(t) = 0 /\ maxOf(t) = all - 1 /\ 2 ^ t.length = all /\ ~t.signed
        /\ maxOf(uintType(Word)) = word - 1
    BY <1>7 DEF minOf, maxOf, uintType
  <2> HIDE DEF all, half, word
  <2> QED
    BY <1>3, <1>4, <1>5, <1>6, <2>1
<1>8. CASE t = intType(n)
  <2>1. /\ minOf(t) = -half /\ maxOf(t) = half - 1 /\ 2 ^ t.length = all /\ t.signed
        /\ maxOf(uintType(Word)) = word - 1
    BY <1>8 DEF minOf, maxOf, intType, uintType
  <2> HIDE DEF all, half, word
  <2> QED
    BY <1>3, <1>4, <1>5, <1>6, <2>1
<1> QED
  BY <1>1, <1>7, <1>8

\* A conversion gives a value of its type, the value itself where it can.
LEMMA LowIsExact ==
  ASSUME NEW t \in NumTypes, NEW v \in Int
  PROVE  /\ low(v, t) \in Int /\ fits(low(v, t), t)
         /\ fits(v, t) => low(v, t) = v
<1> DEFINE all == 2 ^ t.length
           bits == v % all
           least == minOf(t)
           most == maxOf(t)
<1>1. /\ least \in Int /\ most \in Int /\ all \in Nat \ {0} /\ most - least + 1 = all
      /\ least <= 0 /\ 0 <= most
  BY TypeBounds
<1>2. /\ fits(v, t) <=> least <= v /\ v <= most
      /\ fits(low(v, t), t) <=> least <= low(v, t) /\ low(v, t) <= most
      /\ low(v, t) = IF bits > most THEN bits - all ELSE bits
  BY DEF fits, low
<1> HIDE DEF all, least, most
<1>3. /\ bits \in 0 .. all - 1
      /\ 0 <= v /\ v < all => bits = v
      /\ -all <= v /\ v < 0 => bits = v + all
  BY <1>1, Remainder
<1> HIDE DEF bits
<1> QED
  BY <1>1, <1>2, <1>3

-----------------------------------------------------------------------------
(* The computation.                                                        *)

\* The machine's value and the exact one agree as long as nothing reverted;
\* whatever happens, both are integers and the type is one of the program.
CastInv ==
  /\ number \in Int /\ exact \in Int
  /\ numType \in NumTypes
  /\ reverted \in BOOLEAN
  /\ ~reverted => number = exact /\ fits(exact, numType)
  /\ reverted => ~fits(exact, numType)

\* The types that the calls ask for.
LEMMA FullTypesAreTypes ==
  /\ uintType(Word) \in NumTypes /\ intType(Word) \in NumTypes
  /\ \A n \in LENGTHS : uintType(n) \in NumTypes /\ intType(n) \in NumTypes
BY DEF NumTypes

\* The result of an operation is right: the exact value r where it fits the
\* type asked for, and a revert where it does not.
Right(result, t, r) ==
  \/ result = returns(r) /\ fits(r, t)
  \/ result = reverts /\ ~fits(r, t)

\* A call whose result is right preserves the invariant.
LEMMA RightKeeps ==
  ASSUME CastInv, NEW t \in NumTypes, NEW result, NEW r \in Int,
         Becomes(result, t), Right(result, t, r), exact' = r
  PROVE  CastInv'
<1>1. numType' = t /\ exact' = r
  BY DEF Becomes
<1>2. CASE result = returns(r) /\ fits(r, t)
  <2>1. reverted' = FALSE /\ number' = r
    BY <1>2 DEF Becomes, returns
  <2> QED
    BY <1>1, <1>2, <2>1 DEF CastInv, fits
<1>3. CASE result = reverts /\ ~fits(r, t)
  <2>1. reverted' = TRUE /\ number' = number
    BY <1>3 DEF Becomes, reverts
  <2> QED
    BY <1>1, <1>3, <2>1 DEF CastInv, fits
<1> QED
  BY <1>2, <1>3 DEF Right

\* Each cast is right about an argument of the type it is written for.
LEMMA CastsAreRight ==
  ASSUME NEW s \in NumTypes, NEW v \in Int, fits(v, s), NEW n \in LENGTHS \union {Word}
  PROVE  /\ ~s.signed => Right(toUintDownCast(v, n), uintType(n), v)
         /\ Right(toIntDownCast(v, n), intType(n), v)
         /\ ~s.signed => Right(toInt(v, n), intType(n), v)
         /\ n = Word => Right(toUint(v, n), uintType(n), v)
<1>1. uintType(n) \in NumTypes /\ intType(n) \in NumTypes
  BY FullTypesAreTypes
<1>2. ~s.signed => v >= 0
  BY TypeBounds DEF fits
<1>3. ~s.signed => Right(toUintDownCast(v, n), uintType(n), v)
  <2>1. minOf(uintType(n)) = 0
    BY DEF minOf, uintType
  <2> QED
    BY <1>1, <1>2, <2>1, LowIsExact DEF Right, toUintDownCast, fits
<1>4. Right(toIntDownCast(v, n), intType(n), v)
  BY <1>1, LowIsExact DEF Right, toIntDownCast
<1>5. ~s.signed => Right(toInt(v, n), intType(n), v)
  BY <1>1, <1>2, LowIsExact, TypeBounds DEF Right, toInt, fits
<1>6. n = Word => Right(toUint(v, n), uintType(n), v)
  <2>1. minOf(uintType(n)) = 0
    BY DEF minOf, uintType
  <2>2. v <= maxOf(s) /\ maxOf(s) <= maxOf(uintType(Word)) /\ maxOf(s) \in Int
        /\ maxOf(uintType(n)) \in Int
    BY <1>1, TypeBounds DEF fits
  <2>3. ASSUME n = Word
        PROVE  fits(v, uintType(n)) <=> v >= 0
    BY <2>1, <2>2, <2>3 DEF fits
  <2>4. fits(v, uintType(n)) => low(v, uintType(n)) = v
    BY <1>1, LowIsExact
  <2> QED
    BY <2>3, <2>4 DEF Right, toUint
<1> QED
  BY <1>3, <1>4, <1>5, <1>6

\* A first value fits its full type.
LEMMA CastStart ==
  ASSUME CastInit
  PROVE  CastInv
<1>1. numType \in NumTypes
  BY FullTypesAreTypes DEF CastInit, FullTypes
<1>2. minOf(numType) \in Int /\ maxOf(numType) \in Int
  BY <1>1, TypeBounds
<1>3. number \in Int /\ fits(number, numType) /\ exact = number /\ reverted = FALSE
  BY <1>2 DEF CastInit, fits
<1> QED
  BY <1>1, <1>3 DEF CastInv

\* Every call of the contract has a right result.
LEMMA CastStep ==
  ASSUME CastInv, [CastNext]_nvars
  PROVE  CastInv'
<1>1. numType \in NumTypes /\ number \in Int /\ exact \in Int
  BY DEF CastInv
<1>2. ~reverted => number = exact /\ fits(number, numType)
  BY DEF CastInv
<1>3. Word \in LENGTHS \union {Word}
  OBVIOUS
<1>4. ASSUME NEW n \in LENGTHS, ToUintDownCast(n)
      PROVE  CastInv'
  BY <1>1, <1>2, <1>4, CastsAreRight, FullTypesAreTypes, RightKeeps DEF ToUintDownCast
<1>5. ASSUME NEW n \in LENGTHS, ToIntDownCast(n)
      PROVE  CastInv'
  BY <1>1, <1>2, <1>5, CastsAreRight, FullTypesAreTypes, RightKeeps DEF ToIntDownCast
<1>6. CASE ToUint
  BY <1>1, <1>2, <1>3, <1>6, CastsAreRight, FullTypesAreTypes, RightKeeps DEF ToUint
<1>7. CASE ToInt
  BY <1>1, <1>2, <1>3, <1>7, CastsAreRight, FullTypesAreTypes, RightKeeps DEF ToInt
<1>8. ASSUME NEW c \in Operands, Compute(c)
      PROVE  CastInv'
  <2> DEFINE full == [signed |-> numType.signed, length |-> Word]
             Results(v) == <<v + c, v - c, v * c>>
  <2>1. c \in Int
    BY OperandAssumption
  <2>2. full \in NumTypes
    <3>1. PICK n \in 1 .. Word : numType = uintType(n) \/ numType = intType(n)
      BY <1>1, TypesOfTheProgram
    <3>2. CASE numType = uintType(n)
      <4>1. full = uintType(Word)
        BY <3>2, [signed |-> FALSE, length |-> n].signed = FALSE DEF uintType
      <4> QED
        BY <4>1, FullTypesAreTypes
    <3>3. CASE numType = intType(n)
      <4>1. full = intType(Word)
        BY <3>3, [signed |-> TRUE, length |-> n].signed = TRUE DEF intType
      <4> QED
        BY <4>1, FullTypesAreTypes
    <3> QED
      BY <3>1, <3>2, <3>3
  <2>3. PICK op \in 1 .. 3 :
          /\ Becomes(IF fits(Results(number)[op], full) THEN returns(Results(number)[op])
                                                       ELSE reverts, full)
          /\ exact' = Results(exact)[op]
    BY <1>8 DEF Compute
  <2>4. number = exact
    BY <1>2, <1>8 DEF Compute
  <2> DEFINE r == Results(exact)[op]
  <2>5. r \in Int
    BY <1>1, <2>1
  <2>6. Becomes(IF fits(r, full) THEN returns(r) ELSE reverts, full) /\ exact' = r
    BY <2>3, <2>4
  <2> HIDE DEF r, full
  <2>7. Right(IF fits(r, full) THEN returns(r) ELSE reverts, full, r)
    BY DEF Right
  <2> QED
    BY <2>2, <2>5, <2>6, <2>7, RightKeeps
<1>9. CASE UNCHANGED nvars
  BY <1>9 DEF CastInv, nvars, fits
<1> QED
  BY <1>4, <1>5, <1>6, <1>7, <1>8, <1>9 DEF CastNext

\* CastInv is an invariant, for any word, widths and operands.
THEOREM CastInvariant == CastSpec => []CastInv
<1>1. CastInit => CastInv
  BY CastStart
<1>2. CastInv /\ [CastNext]_nvars => CastInv'
  BY CastStep
<1> QED
  BY <1>1, <1>2, PTL DEF CastSpec

\* Whatever the width of the word and of the narrower types, and whatever a
\* contract computes and casts, it has the exact result or has reverted.
THEOREM CastsAreExact == CastSpec => []Exact
<1>1. CastInv => Exact
  BY DEF CastInv, Exact
<1> QED
  BY <1>1, CastInvariant, PTL

\* No computation reverts whose result has the type it was asked for.
THEOREM RevertsAreDue == CastSpec => []RevertsOnlyUnfit
<1>1. CastInv => RevertsOnlyUnfit
  BY DEF CastInv, RevertsOnlyUnfit
<1> QED
  BY <1>1, CastInvariant, PTL
=============================================================================
