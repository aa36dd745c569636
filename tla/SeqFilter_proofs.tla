--------------------------- MODULE SeqFilter_proofs --------------------------
(***************************************************************************)
(* What Only does to the empty sequence, to one element, and to two        *)
(* sequences joined: all a proof needs that has a filtered sequence grow   *)
(* and shrink.  The definition counts; so do the proofs.                   *)
(***************************************************************************)
EXTENDS SeqFilter, SequenceTheorems, FiniteSetTheorems, TLAPS

-----------------------------------------------------------------------------
(* Ranks of places.                                                        *)

\* A later place has the greater rank.
LEMMA RankGrows ==
  ASSUME NEW I \in SUBSET Nat, IsFiniteSet(I), NEW i \in I, NEW j \in I, i < j
  PROVE  Rank(I, i) < Rank(I, j)
<1> DEFINE A == {k \in I : k <= i}
           B == {k \in I : k <= j}
<1>1. IsFiniteSet(A) /\ IsFiniteSet(B) /\ Cardinality(A) \in Nat /\ Cardinality(B) \in Nat
  BY FS_Subset, FS_CardinalityType
<1>2. j \notin A /\ A \cup {j} \subseteq B
  <2>1. i \in Nat /\ j \in Nat /\ \A k \in I : k \in Nat
    OBVIOUS
  <2>2. ~(j <= i) /\ j <= j /\ \A k \in I : k <= i => k <= j
    BY <2>1
  <2>3. QED BY <2>2
<1>3. IsFiniteSet(A \cup {j}) /\ Cardinality(A \cup {j}) = Cardinality(A) + 1
  BY <1>1, <1>2, FS_AddElement
<1>4. Cardinality(A \cup {j}) <= Cardinality(B)
  BY <1>1, <1>2, FS_Subset
<1> HIDE DEF A, B
<1>5. QED BY <1>1, <1>3, <1>4 DEF Rank, A, B

\* Ranks are the numbers up to the number of places.
LEMMA RankRange ==
  ASSUME NEW I \in SUBSET Nat, IsFiniteSet(I), NEW i \in I
  PROVE  Rank(I, i) \in 1..Cardinality(I)
<1> DEFINE A == {k \in I : k <= i}
<1>1. /\ IsFiniteSet(A) /\ Cardinality(A) \in Nat /\ Cardinality(I) \in Nat
      /\ Cardinality(A) <= Cardinality(I)
  BY FS_Subset, FS_CardinalityType
<1>2. i \in A
  OBVIOUS
<1>3. Cardinality(A) # 0
  BY <1>1, <1>2, FS_EmptySet
<1> HIDE DEF A
<1>4. QED BY <1>1, <1>3 DEF Rank, A

\* Each of these numbers is the rank of exactly one place.
LEMMA NthOfRank ==
  ASSUME NEW I \in SUBSET Nat, IsFiniteSet(I), NEW k \in 1..Cardinality(I)
  PROVE  /\ NthOf(I, k) \in I /\ Rank(I, NthOf(I, k)) = k
         /\ \A i \in I : Rank(I, i) = k => i = NthOf(I, k)
<1> DEFINE n == Cardinality(I)
           f == [i \in I |-> Rank(I, i)]
<1>1. n \in Nat
  BY FS_CardinalityType
<1>2. f \in [I -> 1..n]
  BY RankRange
<1>3. \A i, j \in I : f[i] = f[j] => i = j
  <2>1. ASSUME NEW i \in I, NEW j \in I, f[i] = f[j], i # j PROVE FALSE
    <3>1. (i < j \/ j < i) /\ Rank(I, i) \in Int /\ Rank(I, j) \in Int
      BY <2>1, RankRange
    <3>2. i < j => Rank(I, i) < Rank(I, j)
      BY RankGrows
    <3>3. j < i => Rank(I, j) < Rank(I, i)
      BY RankGrows
    <3>4. Rank(I, i) = Rank(I, j)
      BY <2>1
    <3>5. QED BY <3>1, <3>2, <3>3, <3>4, SMT
  <2>2. QED BY <2>1
<1>4. f \in Injection(I, 1..n)
  BY <1>2, <1>3 DEF Injection, IsInjective
<1>5. IsFiniteSet(1..n) /\ Cardinality(1..n) = n
  BY <1>1, FS_Interval
<1>6. f \in Surjection(I, 1..n)
  BY <1>4, <1>5, FS_Injection
<1>7. \E i \in I : Rank(I, i) = k
  BY <1>6 DEF Surjection
<1>8. NthOf(I, k) \in I /\ Rank(I, NthOf(I, k)) = k
  BY <1>7 DEF NthOf
<1>9. \A i \in I : Rank(I, i) = k => i = NthOf(I, k)
  BY <1>3, <1>8
<1>10. QED BY <1>8, <1>9

\* Of some positions one is the first.
LEMMA LeastPlace ==
  ASSUME NEW n \in Nat, NEW P \in SUBSET (1..n), P # {}
  PROVE  \E m \in P : \A j \in P : m <= j
<1>1. P \in SUBSET Nat /\ IsFiniteSet(P) /\ Cardinality(P) \in Nat
  <2>1. \A x \in 1..n : x \in Nat
    OBVIOUS
  <2>2. IsFiniteSet(1..n)
    BY FS_Interval, n \in Int, 1 \in Int
  <2>3. QED BY <2>1, <2>2, FS_Subset, FS_CardinalityType
<1>2. 1 \in 1..Cardinality(P)
  BY <1>1, FS_EmptySet
<1> DEFINE m == NthOf(P, 1)
<1>3. m \in P /\ Rank(P, m) = 1
  BY <1>1, <1>2, NthOfRank
<1> HIDE DEF m
<1>4. ASSUME NEW j \in P, j < m PROVE FALSE
  <2>1. Rank(P, j) < Rank(P, m)
    BY <1>1, <1>3, <1>4, RankGrows
  <2>2. Rank(P, j) \in 1..Cardinality(P)
    BY <1>1, RankRange
  <2>3. QED BY <1>1, <1>3, <2>1, <2>2
<1>5. \A j \in P : m <= j
  <2>1. \A j \in P : j \in Nat /\ m \in Nat
    BY <1>1, <1>3
  <2>2. QED BY <1>4, <2>1
<1>6. QED BY <1>3, <1>5

-----------------------------------------------------------------------------
(* The filtered sequence.                                                  *)

\* The places of a sequence are finitely many positions of it.
LEMMA PlacesFinite ==
  ASSUME NEW T, NEW s \in Seq(T), NEW S
  PROVE  /\ Places(s, S) \in SUBSET Nat /\ IsFiniteSet(Places(s, S))
         /\ Places(s, S) \subseteq 1..Len(s)
         /\ Cardinality(Places(s, S)) \in Nat
<1>1. Len(s) \in Nat /\ DOMAIN s = 1..Len(s)
  BY LenProperties
<1>2. Places(s, S) \subseteq 1..Len(s) /\ IsFiniteSet(1..Len(s))
  BY <1>1, FS_Interval DEF Places
<1>3. QED BY <1>1, <1>2, FS_Subset, FS_CardinalityType

\* What is left is a sequence of elements of the set.
LEMMA OnlyType ==
  ASSUME NEW T, NEW s \in Seq(T), NEW S
  PROVE  /\ Only(s, S) \in Seq(T) /\ Only(s, S) \in Seq(T \cap S)
         /\ Len(Only(s, S)) = Cardinality(Places(s, S))
         /\ DOMAIN Only(s, S) = 1..Cardinality(Places(s, S))
<1> DEFINE I == Places(s, S)
<1>1. I \in SUBSET Nat /\ IsFiniteSet(I) /\ Cardinality(I) \in Nat /\ I \subseteq 1..Len(s)
  BY PlacesFinite
<1>2. \A i \in I : s[i] \in T \cap S
  BY <1>1, ElementOfSeq DEF Places
<1>3. \A k \in 1..Cardinality(I) : s[NthOf(I, k)] \in T \cap S
  BY <1>1, <1>2, NthOfRank
<1>4. Only(s, S) = [k \in 1..Cardinality(I) |-> s[NthOf(I, k)]]
  BY DEF Only
<1> HIDE DEF I
<1>5. QED BY <1>1, <1>3, <1>4 DEF I

\* Nothing is left where nothing belongs to the set.
LEMMA OnlyNone ==
  ASSUME NEW T, NEW s \in Seq(T), NEW S, \A i \in 1..Len(s) : s[i] \notin S
  PROVE  Only(s, S) = <<>>
<1>1. Places(s, S) = {}
  BY LenProperties DEF Places
<1>2. Len(Only(s, S)) = 0
  BY <1>1, OnlyType, FS_EmptySet
<1>3. QED BY <1>2, OnlyType, EmptySeq

LEMMA OnlyEmpty == ASSUME NEW S PROVE Only(<<>>, S) = <<>>
<1>1. <<>> \in Seq({}) /\ Len(<<>>) = 0
  OBVIOUS
<1>2. \A i \in 1..Len(<<>>) : <<>>[i] \notin S
  BY <1>1
<1>3. QED BY <1>1, <1>2, OnlyNone, Zenon

\* One element is kept or not.
LEMMA OnlyOne ==
  ASSUME NEW x, NEW S
  PROVE  Only(<<x>>, S) = IF x \in S THEN <<x>> ELSE <<>>
<1>1. <<x>> \in Seq({x}) /\ Len(<<x>>) = 1 /\ <<x>>[1] = x
  OBVIOUS
<1>2. CASE x \notin S
  <2>1. \A i \in 1..Len(<<x>>) : <<x>>[i] \notin S
    BY <1>1, <1>2
  <2>2. Only(<<x>>, S) = <<>>
    BY <1>1, <2>1, OnlyNone, Zenon
  <2>3. QED BY <1>2, <2>2
<1>3. CASE x \in S
  <2>1. Places(<<x>>, S) = {1}
    BY <1>1, <1>3 DEF Places
  <2>2. Len(Only(<<x>>, S)) = 1 /\ Only(<<x>>, S) \in Seq({x})
    <3>1. Cardinality({1}) = 1
      BY FS_Singleton, Zenon
    <3>2. Len(Only(<<x>>, S)) = Cardinality({1}) /\ Only(<<x>>, S) \in Seq({x})
      BY <1>1, <2>1, OnlyType, ZenonT(30)
    <3>3. QED BY <3>1, <3>2
  <2>3. Only(<<x>>, S)[1] = x
    BY <2>2, ElementOfSeq
  <2>4. QED BY <1>3, <2>2, <2>3, SeqEqual, <1>1
<1>4. QED BY <1>2, <1>3

-----------------------------------------------------------------------------
(* Two sequences joined.                                                   *)

\* The places of the joined sequence are those of the first and, behind
\* them, those of the second; so are their ranks.
LEMMA JoinedPlaces ==
  ASSUME NEW T, NEW s \in Seq(T), NEW t \in Seq(T), NEW S
  PROVE  LET I == Places(s, S)
             J == Places(t, S)
             K == Places(s \o t, S)
         IN  /\ K = I \cup {Len(s) + j : j \in J}
             /\ Cardinality(K) = Cardinality(I) + Cardinality(J)
             /\ \A i \in I : Rank(K, i) = Rank(I, i)
             /\ \A j \in J : Rank(K, Len(s) + j) = Cardinality(I) + Rank(J, j)
<1> DEFINE I == Places(s, S)
           J == Places(t, S)
           K == Places(s \o t, S)
           n == Len(s)
           Shift(A) == {n + j : j \in A}
<1>1. /\ n \in Nat /\ Len(t) \in Nat /\ DOMAIN s = 1..n /\ DOMAIN t = 1..Len(t)
      /\ DOMAIN (s \o t) = 1..(n + Len(t))
      /\ \A i \in 1..(n + Len(t)) : (s \o t)[i] = IF i <= n THEN s[i] ELSE t[i - n]
  BY ConcatProperties, LenProperties
<1>2. /\ I \in SUBSET Nat /\ IsFiniteSet(I) /\ I \subseteq 1..n /\ Cardinality(I) \in Nat
      /\ J \in SUBSET Nat /\ IsFiniteSet(J) /\ J \subseteq 1..Len(t) /\ Cardinality(J) \in Nat
  BY PlacesFinite
<1>3. K = I \cup Shift(J)
  <2>1. ASSUME NEW k \in K PROVE k \in I \cup Shift(J)
    <3>1. k \in 1..(n + Len(t)) /\ (s \o t)[k] \in S
      BY <1>1 DEF Places
    <3>2. CASE k <= n
      <4>1. k \in 1..n /\ s[k] \in S
        BY <1>1, <3>1, <3>2
      <4>2. QED BY <1>1, <4>1 DEF Places
    <3>3. CASE ~(k <= n)
      <4>1. k - n \in 1..Len(t) /\ t[k - n] \in S /\ k = n + (k - n)
        BY <1>1, <3>1, <3>3
      <4>2. k - n \in J
        BY <1>1, <4>1 DEF Places
      <4>3. QED BY <4>1, <4>2
    <3>4. QED BY <3>2, <3>3
  <2>2. ASSUME NEW k \in I PROVE k \in K
    <3>1. k \in 1..n /\ s[k] \in S
      BY <1>1 DEF Places
    <3>2. k \in 1..(n + Len(t)) /\ k <= n
      BY <1>1, <3>1
    <3>3. QED BY <1>1, <3>1, <3>2 DEF Places
  <2>3. ASSUME NEW j \in J PROVE n + j \in K
    <3>1. j \in 1..Len(t) /\ t[j] \in S
      BY <1>1 DEF Places
    <3>2. n + j \in 1..(n + Len(t)) /\ ~(n + j <= n) /\ n + j - n = j
      BY <1>1, <3>1
    <3>3. (s \o t)[n + j] = t[j]
      <4> DEFINE k == n + j
      <4>1. k \in 1..(n + Len(t)) /\ ~(k <= n) /\ k - n = j
        BY <1>1, <3>1, <3>2
      <4> HIDE DEF k
      <4>2. (s \o t)[k] = t[j]
        BY <1>1, <4>1
      <4>3. QED BY <4>2 DEF k
    <3>4. QED BY <1>1, <3>1, <3>2, <3>3 DEF Places
  <2>4. QED BY <2>1, <2>2, <2>3
<1> HIDE DEF I, J, K, n
\* Counting in I and in a shifted part of J at the same time.
<1>4. ASSUME NEW A \in SUBSET I, NEW B \in SUBSET J
      PROVE  Cardinality(A \cup Shift(B)) = Cardinality(A) + Cardinality(B)
  <2>1. IsFiniteSet(A) /\ IsFiniteSet(B) /\ Cardinality(A) \in Nat /\ Cardinality(B) \in Nat
    BY <1>2, FS_Subset, FS_CardinalityType
  <2>2. IsFiniteSet(Shift(B)) /\ Cardinality(Shift(B)) = Cardinality(B)
    <3> DEFINE f == [j \in B |-> n + j]
    <3>1. \A j \in B : j \in Nat
      BY <1>2
    <3>2. \A i, j \in B : f[i] = f[j] => i = j
      BY <1>1, <3>1
    <3>3. f \in [B -> Shift(B)] /\ \A x \in Shift(B) : \E j \in B : f[j] = x
      OBVIOUS
    <3>4. f \in Bijection(B, Shift(B))
      BY <3>2, <3>3 DEF Bijection, Injection, Surjection, IsInjective
    <3>5. ExistsBijection(B, Shift(B))
      BY <3>4 DEF ExistsBijection
    <3>6. QED BY <2>1, <3>5, FS_Bijection
  <2>3. A \cap Shift(B) = {}
    <3>1. ASSUME NEW a \in A, NEW b \in B PROVE a # n + b
      <4>1. a \in 1..n /\ b \in 1..Len(t)
        BY <1>2
      <4>2. QED BY <1>1, <4>1
    <3>2. QED BY <3>1
  <2>4. Cardinality(A \cap Shift(B)) = 0
    BY <2>3, FS_EmptySet
  <2>5. Cardinality(A \cup Shift(B))
          = Cardinality(A) + Cardinality(Shift(B)) - Cardinality(A \cap Shift(B))
    BY <2>1, <2>2, FS_Union, Zenon
  <2>6. QED BY <2>1, <2>2, <2>4, <2>5
<1>5. Cardinality(K) = Cardinality(I) + Cardinality(J)
  BY <1>3, <1>4
<1>6. ASSUME NEW i \in I PROVE Rank(K, i) = Rank(I, i)
  <2>1. i \in 1..n /\ \A j \in J : j \in 1..Len(t)
    BY <1>2
  <2>2. \A j \in J : ~(n + j <= i)
    BY <1>1, <2>1
  <2>3. {k \in K : k <= i} = {k \in I : k <= i}
    BY <1>3, <2>2
  <2>4. QED BY <2>3 DEF Rank
<1>7. ASSUME NEW j \in J PROVE Rank(K, n + j) = Cardinality(I) + Rank(J, j)
  <2> DEFINE B == {k \in J : k <= j}
  <2>1. j \in 1..Len(t) /\ \A k \in J : k \in 1..Len(t)
    BY <1>2
  <2>2. \A i \in I : i \in 1..n
    BY <1>2
  <2>3. \A i \in I : i <= n + j
    BY <1>1, <2>1, <2>2
  <2>4. \A k \in J : n + k <= n + j <=> k <= j
    BY <1>1, <2>1
  <2>5. {k \in K : k <= n + j} = I \cup Shift(B)
    BY <1>3, <2>3, <2>4
  <2>6. Cardinality(I \cup Shift(B)) = Cardinality(I) + Cardinality(B)
    BY <1>4
  <2>7. QED BY <2>5, <2>6 DEF Rank
<1>8. QED BY <1>3, <1>5, <1>6, <1>7 DEF I, J, K, n

\* Filtering two sequences joined is joining them filtered.
LEMMA OnlyConcat ==
  ASSUME NEW T, NEW s \in Seq(T), NEW t \in Seq(T), NEW S
  PROVE  Only(s \o t, S) = Only(s, S) \o Only(t, S)
<1> DEFINE I == Places(s, S)
           J == Places(t, S)
           K == Places(s \o t, S)
           n == Cardinality(I)
           m == Cardinality(J)
<1>1. /\ I \in SUBSET Nat /\ IsFiniteSet(I) /\ I \subseteq 1..Len(s) /\ n \in Nat
      /\ J \in SUBSET Nat /\ IsFiniteSet(J) /\ J \subseteq 1..Len(t) /\ m \in Nat
      /\ Len(s) \in Nat /\ Len(t) \in Nat
  BY PlacesFinite, LenProperties
<1>2. s \o t \in Seq(T) /\ \A i \in 1..(Len(s) + Len(t)) :
        (s \o t)[i] = IF i <= Len(s) THEN s[i] ELSE t[i - Len(s)]
  BY ConcatProperties
<1>3. K \in SUBSET Nat /\ IsFiniteSet(K)
  BY <1>2, PlacesFinite
<1>4. /\ K = I \cup {Len(s) + j : j \in J} /\ Cardinality(K) = n + m
      /\ \A i \in I : Rank(K, i) = Rank(I, i)
      /\ \A j \in J : Rank(K, Len(s) + j) = n + Rank(J, j)
  BY JoinedPlaces
<1>5. /\ Only(s, S) = [k \in 1..n |-> s[NthOf(I, k)]]
      /\ Only(t, S) = [k \in 1..m |-> t[NthOf(J, k)]]
      /\ Only(s \o t, S) = [k \in 1..(n + m) |-> (s \o t)[NthOf(K, k)]]
  BY <1>4 DEF Only
<1>6. /\ Only(s, S) \in Seq(T) /\ Len(Only(s, S)) = n
      /\ Only(t, S) \in Seq(T) /\ Len(Only(t, S)) = m
      /\ Only(s \o t, S) \in Seq(T) /\ Len(Only(s \o t, S)) = n + m
  BY <1>2, <1>4, OnlyType
<1> HIDE DEF I, J, K, n, m
<1>7. /\ Only(s, S) \o Only(t, S) \in Seq(T) /\ Len(Only(s, S) \o Only(t, S)) = n + m
      /\ \A k \in 1..(n + m) : (Only(s, S) \o Only(t, S))[k] =
            IF k <= n THEN Only(s, S)[k] ELSE Only(t, S)[k - n]
  BY <1>6, ConcatProperties
<1>8. ASSUME NEW k \in 1..(n + m)
      PROVE  Only(s \o t, S)[k] = (Only(s, S) \o Only(t, S))[k]
  <2>1. k \in 1..Cardinality(K)
    BY <1>4
  <2>2. \A i \in K : Rank(K, i) = k => i = NthOf(K, k)
    BY <1>3, <2>1, NthOfRank
  <2>3. CASE k <= n
    <3>1. k \in 1..n
      BY <1>1, <2>3
    <3>2. NthOf(I, k) \in I /\ Rank(I, NthOf(I, k)) = k
      BY <1>1, <3>1, NthOfRank DEF n
    <3>3. NthOf(I, k) = NthOf(K, k)
      BY <1>4, <2>2, <3>2
    <3>4. NthOf(I, k) \in 1..Len(s)
      BY <1>1, <3>2
    <3>5. NthOf(I, k) \in 1..(Len(s) + Len(t)) /\ NthOf(I, k) <= Len(s)
      BY <1>1, <3>4
    <3>6. (s \o t)[NthOf(K, k)] = s[NthOf(I, k)]
      BY <1>2, <3>3, <3>5
    <3>7. QED BY <1>5, <1>7, <2>3, <3>1, <3>6
  <2>4. CASE ~(k <= n)
    <3>1. k - n \in 1..m /\ k = n + (k - n)
      BY <1>1, <2>4
    <3> DEFINE j == NthOf(J, k - n)
    <3>2. j \in J /\ Rank(J, j) = k - n
      BY <1>1, <3>1, NthOfRank DEF m
    <3>3. Rank(K, Len(s) + j) = k
      BY <1>4, <3>1, <3>2
    <3>4. Len(s) + j = NthOf(K, k)
      BY <1>4, <2>2, <3>2, <3>3
    <3>5. j \in 1..Len(t)
      BY <1>1, <3>2
    <3> HIDE DEF j
    <3>6. Len(s) + j \in 1..(Len(s) + Len(t)) /\ ~(Len(s) + j <= Len(s)) /\ Len(s) + j - Len(s) = j
      BY <1>1, <3>5
    <3>7. (s \o t)[NthOf(K, k)] = t[j]
      <4> DEFINE i == NthOf(K, k)
      <4>1. i \in 1..(Len(s) + Len(t)) /\ ~(i <= Len(s)) /\ i - Len(s) = j
        BY <1>1, <3>4, <3>5
      <4> HIDE DEF i
      <4>2. (s \o t)[i] = t[j]
        BY <1>2, <4>1
      <4>3. QED BY <4>2 DEF i
    <3>8. QED BY <1>5, <1>7, <2>4, <3>1, <3>7 DEF j
  <2>5. QED BY <2>3, <2>4
<1>9. QED BY <1>6, <1>7, <1>8, SeqEqual

\* One element more at the end.
LEMMA OnlyAppend ==
  ASSUME NEW T, NEW s \in Seq(T), NEW x \in T, NEW S
  PROVE  Only(Append(s, x), S) = IF x \in S THEN Append(Only(s, S), x) ELSE Only(s, S)
<1>1. <<x>> \in Seq(T) /\ Append(s, x) = s \o <<x>>
  BY AppendIsConcat
<1>2. Only(s \o <<x>>, S) = Only(s, S) \o Only(<<x>>, S)
  <2>1. \A u \in Seq(T) : Only(s \o u, S) = Only(s, S) \o Only(u, S)
    BY OnlyConcat, SMTT(20)
  <2>2. QED BY <1>1, <2>1
<1>3. Only(<<x>>, S) = IF x \in S THEN <<x>> ELSE <<>>
  BY OnlyOne
<1>4. Only(s, S) \in Seq(T)
  BY OnlyType
<1>5. Only(s, S) \o <<x>> = Append(Only(s, S), x) /\ Only(s, S) \o <<>> = Only(s, S)
  BY <1>4, AppendIsConcat, ConcatEmptySeq
<1>6. QED BY <1>1, <1>2, <1>3, <1>5

\* One element less at the front.
LEMMA OnlyTail ==
  ASSUME NEW T, NEW s \in Seq(T), s # <<>>, NEW S
  PROVE  Only(s, S) = IF Head(s) \in S THEN <<Head(s)>> \o Only(Tail(s), S) ELSE Only(Tail(s), S)
<1>1. Head(s) \in T /\ Tail(s) \in Seq(T) /\ <<Head(s)>> \in Seq(T)
  BY HeadTailProperties
<1>2. s = <<Head(s)>> \o Tail(s)
  <2>1. /\ Len(<<Head(s)>> \o Tail(s)) = 1 + Len(Tail(s))
        /\ \A i \in 1..(1 + Len(Tail(s))) : (<<Head(s)>> \o Tail(s))[i] =
              IF i <= 1 THEN <<Head(s)>>[i] ELSE Tail(s)[i - 1]
        /\ <<Head(s)>> \o Tail(s) \in Seq(T)
    BY <1>1, ConcatProperties
  <2>2. QED BY <2>1, SeqEqual
<1>3. Only(s, S) = Only(<<Head(s)>>, S) \o Only(Tail(s), S)
  <2>1. Only(<<Head(s)>> \o Tail(s), S) = Only(<<Head(s)>>, S) \o Only(Tail(s), S)
    <3>1. \A u, v \in Seq(T) : Only(u \o v, S) = Only(u, S) \o Only(v, S)
      BY OnlyConcat, SMTT(20)
    <3>2. QED BY <1>1, <3>1
  <2>2. QED BY <1>2, <2>1, Zenon
<1>4. Only(<<Head(s)>>, S) = IF Head(s) \in S THEN <<Head(s)>> ELSE <<>>
  BY OnlyOne
<1>5. Only(Tail(s), S) \in Seq(T)
  BY <1>1, OnlyType
<1>6. QED BY <1>3, <1>4, <1>5, ConcatEmptySeq

\* What is kept are the elements of the set that occur in the sequence.
LEMMA OnlyHas ==
  ASSUME NEW T, NEW s \in Seq(T), NEW S, NEW x
  PROVE  (\E k \in 1..Len(Only(s, S)) : Only(s, S)[k] = x)
           <=> (x \in S /\ \E i \in 1..Len(s) : s[i] = x)
<1> DEFINE I == Places(s, S)
<1>1. I \in SUBSET Nat /\ IsFiniteSet(I) /\ I \subseteq 1..Len(s) /\ Len(s) \in Nat
      /\ DOMAIN s = 1..Len(s)
  BY PlacesFinite, LenProperties
<1>2. Len(Only(s, S)) = Cardinality(I)
  BY OnlyType
<1>3. \A k \in 1..Cardinality(I) : Only(s, S)[k] = s[NthOf(I, k)]
  BY DEF Only
<1>4. \A i \in I : s[i] \in S
  BY DEF Places
<1>5. ASSUME NEW i \in 1..Len(s), s[i] \in S PROVE i \in I
  BY <1>1, <1>5 DEF Places
<1> HIDE DEF I
<1>6. ASSUME NEW k \in 1..Cardinality(I) PROVE NthOf(I, k) \in I
  BY <1>1, NthOfRank
<1>7. ASSUME NEW i \in I PROVE Rank(I, i) \in 1..Cardinality(I) /\ NthOf(I, Rank(I, i)) = i
  <2>1. Rank(I, i) \in 1..Cardinality(I)
    BY <1>1, RankRange
  <2>2. PICK k \in 1..Cardinality(I) : k = Rank(I, i)
    BY <2>1
  <2>3. i = NthOf(I, k)
    BY <1>1, <2>2, NthOfRank
  <2>4. QED BY <2>1, <2>2, <2>3
<1>8. ASSUME NEW k \in 1..Len(Only(s, S)), Only(s, S)[k] = x
      PROVE  x \in S /\ \E i \in 1..Len(s) : s[i] = x
  BY <1>1, <1>2, <1>3, <1>4, <1>6, <1>8
<1>9. ASSUME x \in S, NEW i \in 1..Len(s), s[i] = x
      PROVE  \E k \in 1..Len(Only(s, S)) : Only(s, S)[k] = x
  BY <1>2, <1>3, <1>5, <1>7, <1>9
<1>10. QED BY <1>8, <1>9

LEMMA OnlyCount ==
  ASSUME NEW T, NEW s \in Seq(T), NEW x
  PROVE  /\ Len(Only(s, {x})) \in Nat
         /\ Len(Only(s, {x})) = Cardinality({i \in DOMAIN s : s[i] = x})
         /\ Len(Only(s, {x})) > 0 <=> \E i \in 1..Len(s) : s[i] = x
<1> DEFINE I == Places(s, {x})
<1>1. IsFiniteSet(I) /\ Cardinality(I) \in Nat /\ Len(Only(s, {x})) = Cardinality(I)
  BY PlacesFinite, OnlyType
<1>2. I = {i \in DOMAIN s : s[i] = x} /\ DOMAIN s = 1..Len(s)
  BY LenProperties DEF Places
<1>3. I = {} <=> ~ \E i \in 1..Len(s) : s[i] = x
  BY <1>2
<1> HIDE DEF I
<1>4. Cardinality(I) = 0 <=> I = {}
  BY <1>1, FS_EmptySet
<1>5. QED BY <1>1, <1>2, <1>3, <1>4
=============================================================================
