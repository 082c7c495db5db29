------------------------ MODULE BlockPoolOpsProofs ------------------------
(***************************************************************************)
(* Lemmas about the operators of BlockPoolOps: what each pool operation    *)
(* preserves, for every pool and every argument its callers can pass.      *)
(***************************************************************************)
EXTENDS BlockPoolOps, FiniteSetTheorems, SequenceTheorems, NaturalsInduction,
        WellFoundedInduction, TLAPS

-----------------------------------------------------------------------------
(* Induction. *)

\* A set of naturals has a least element.
LEMMA Least ==
    ASSUME NEW T \in SUBSET Nat, T # {}
    PROVE  \E m \in T : \A k \in T : m <= k
<1>1. PICK m \in T : \A k \in T : <<k, m>> \notin OpToRel(<, Nat)
    BY WFMin, NatLessThanWellFounded, Zenon
<1>2. \A k \in T : ~(k < m)
    BY <1>1, Zenon DEF OpToRel
<1>3. \A k \in T : m <= k
    BY <1>2
<1> QED BY <1>3

\* Induction, for a set of naturals.
LEMMA Induction ==
    ASSUME NEW S, 0 \in S, \A n \in Nat : n \in S => n + 1 \in S
    PROVE  \A n \in Nat : n \in S
<1> DEFINE T == {n \in Nat : n \notin S}
<1>1. SUFFICES ASSUME T # {} PROVE FALSE
    OBVIOUS
<1>2. PICK m \in T : \A k \in T : m <= k
    <2> HIDE DEF T
    <2> QED BY <1>1, Least DEF T
<1> QED BY <1>2, m - 1 \in Nat, (m - 1) + 1 = m

\* The same over the turns of a loop.
LEMMA LoopInduction ==
    ASSUME NEW n \in Nat, NEW S, 0 \in S, \A i \in 1 .. n : i - 1 \in S => i \in S
    PROVE  \A i \in 0 .. n : i \in S
<1> DEFINE T == {i \in Nat : i <= n => i \in S}
<1>1. 0 \in T
    OBVIOUS
<1>2. ASSUME NEW i \in Nat, i \in T PROVE i + 1 \in T
    <2>1. CASE i + 1 <= n
        <3>1. i \in S /\ i + 1 \in 1 .. n /\ (i + 1) - 1 = i
            BY <1>2, <2>1
        <3> QED BY <3>1
    <2>2. CASE ~(i + 1 <= n)
        BY <2>2
    <2> QED BY <2>1, <2>2
<1> HIDE DEF T
<1>3. \A i \in Nat : i \in T
    BY <1>1, <1>2, Induction
<1> QED BY <1>3 DEF T

-----------------------------------------------------------------------------
(* Sequences. *)

\* A sequence takes its values in the set of its elements.
LEMMA ToSetProperties ==
    ASSUME NEW S, NEW s \in Seq(S)
    PROVE  /\ DOMAIN s = 1 .. Len(s)
           /\ Len(s) \in Nat
           /\ \A i \in DOMAIN s : s[i] \in S
           /\ ToSet(s) \subseteq S
           /\ \A x : x \in ToSet(s) <=> \E i \in 1 .. Len(s) : s[i] = x
<1>1. /\ DOMAIN s = 1 .. Len(s)
      /\ Len(s) \in Nat
      /\ s \in [1 .. Len(s) -> S]
    BY LenProperties
<1> QED BY <1>1 DEF ToSet

\* Ranks number the indices of a set of indices without gap or repetition.
LEMMA RankProperties ==
    ASSUME NEW n \in Nat, NEW I \in SUBSET (1 .. n)
    PROVE  /\ IsFiniteSet(I)
           /\ Cardinality(I) \in Nat
           /\ \A i \in I : Rank(I, i) \in 1 .. Cardinality(I)
           /\ \A i, j \in I : Rank(I, i) = Rank(I, j) => i = j
           /\ \A k \in 1 .. Cardinality(I) : \E i \in I : Rank(I, i) = k
<1> DEFINE upTo(i) == {j \in I : j <= i}
           rank == [i \in I |-> Rank(I, i)]
<1>1. IsFiniteSet(1 .. n)
    BY FS_Interval
<1>2. IsFiniteSet(I) /\ Cardinality(I) \in Nat
    BY <1>1, FS_Subset, FS_CardinalityType
<1>3. ASSUME NEW i \in I
      PROVE  /\ IsFiniteSet(upTo(i))
             /\ Rank(I, i) \in 1 .. Cardinality(I)
    <2>1. upTo(i) \in SUBSET I
        OBVIOUS
    <2>2. /\ IsFiniteSet(upTo(i))
          /\ Cardinality(upTo(i)) <= Cardinality(I)
        BY <1>2, <2>1, FS_Subset
    <2>3. upTo(i) # {}
        OBVIOUS
    <2>4. Cardinality(upTo(i)) \in Nat /\ Cardinality(upTo(i)) # 0
        BY <2>2, <2>3, FS_EmptySet, FS_CardinalityType
    <2> QED BY <1>2, <2>2, <2>4 DEF Rank
<1>4. ASSUME NEW i \in I, NEW j \in I, i < j
      PROVE  Rank(I, i) # Rank(I, j)
    <2>0. I \subseteq Int /\ i \in Int /\ j \in Int
        OBVIOUS
    <2>1. upTo(i) \in SUBSET upTo(j)
        <3>1. \A k \in I : k <= i => k <= j
            BY <1>4, <2>0
        <3> QED BY <3>1
    <2>3. j \in upTo(j) /\ j \notin upTo(i)
        BY <1>4, <2>0
    <2>2. Cardinality(upTo(j)) = Cardinality(upTo(i)) => upTo(j) = upTo(i)
        BY <1>3, <2>1, FS_Subset
    <2> QED BY <2>2, <2>3 DEF Rank
<1>5. \A i, j \in I : Rank(I, i) = Rank(I, j) => i = j
    BY <1>4
<1>6. rank \in Injection(I, 1 .. Cardinality(I))
    BY <1>3, <1>5 DEF Injection, IsInjective
<1>7. /\ IsFiniteSet(1 .. Cardinality(I))
      /\ Cardinality(1 .. Cardinality(I)) = Cardinality(I)
    BY <1>2, FS_Interval
<1>8. rank \in Surjection(I, 1 .. Cardinality(I))
    BY <1>6, <1>7, FS_Injection
<1>9. \A k \in 1 .. Cardinality(I) : \E i \in I : Rank(I, i) = k
    BY <1>8 DEF Surjection
<1> QED BY <1>2, <1>3, <1>5, <1>9

\* Subsequence takes from a sequence exactly the elements at the given indices,
\* each index once (the lists touch and free_blocks build, block_pool.py:219-238).
LEMMA SubsequenceProperties ==
    ASSUME NEW S, NEW s \in Seq(S), NEW I \in SUBSET DOMAIN s
    PROVE  /\ Subsequence(s, I) \in Seq(S)
           /\ ToSet(Subsequence(s, I)) = {s[i] : i \in I}
           /\ IsInjective(s) => IsInjective(Subsequence(s, I))
<1> DEFINE n == Cardinality(I)
           at(k) == CHOOSE i \in I : Rank(I, i) = k
           sub == Subsequence(s, I)
<1>1. /\ DOMAIN s = 1 .. Len(s)
      /\ Len(s) \in Nat
      /\ \A i \in DOMAIN s : s[i] \in S
    BY ToSetProperties
<1>2. /\ n \in Nat
      /\ \A i \in I : Rank(I, i) \in 1 .. n
      /\ \A i, j \in I : Rank(I, i) = Rank(I, j) => i = j
      /\ \A k \in 1 .. n : \E i \in I : Rank(I, i) = k
    BY <1>1, RankProperties
<1>3. \A k \in 1 .. n : at(k) \in I /\ Rank(I, at(k)) = k
    BY <1>2
<1>4. \A i \in I : at(Rank(I, i)) = i
    BY <1>2, <1>3
<1>5. /\ DOMAIN sub = 1 .. n
      /\ \A k \in 1 .. n : sub[k] = s[at(k)]
    BY DEF Subsequence
<1>6. sub \in [1 .. n -> S]
    <2>1. \A k \in 1 .. n : s[at(k)] \in S
        BY <1>1, <1>3
    <2> QED BY <2>1 DEF Subsequence
<1>7. sub \in Seq(S)
    BY <1>2, <1>6, SeqDef
<1>8. ToSet(sub) = {s[i] : i \in I}
    <2>1. \A x \in ToSet(sub) : \E i \in I : x = s[i]
        BY <1>3, <1>5 DEF ToSet
    <2>2. ASSUME NEW i \in I PROVE s[i] \in ToSet(sub)
        <3>1. Rank(I, i) \in DOMAIN sub /\ sub[Rank(I, i)] = s[i]
            BY <1>2, <1>4, <1>5
        <3> QED BY <3>1 DEF ToSet
    <2> QED BY <2>1, <2>2
<1>9. ASSUME IsInjective(s) PROVE IsInjective(sub)
    <2>1. \A k, m \in 1 .. n : sub[k] = sub[m] => at(k) = at(m)
        BY <1>3, <1>5, <1>9 DEF IsInjective
    <2>2. \A k, m \in 1 .. n : at(k) = at(m) => k = m
        BY <1>3
    <2> QED BY <1>5, <2>1, <2>2 DEF IsInjective
<1> QED BY <1>7, <1>8, <1>9

\* The rank of an index grows with the index.
LEMMA RankGrows ==
    ASSUME NEW n \in Nat, NEW I \in SUBSET (1 .. n), NEW i \in I, NEW j \in I, i < j
    PROVE  Rank(I, i) < Rank(I, j)
<1> DEFINE upTo(k) == {m \in I : m <= k}
<1>1. IsFiniteSet(I) /\ I \subseteq Int /\ i \in Int /\ j \in Int
    <2>1. I \subseteq Int
        OBVIOUS
    <2> QED BY <2>1, RankProperties
<1>2. upTo(j) \in SUBSET I /\ upTo(i) \in SUBSET upTo(j)
    <2>1. \A m \in I : m <= i => m <= j
        BY <1>1
    <2> QED BY <2>1
<1>3. j \in upTo(j) /\ j \notin upTo(i)
    BY <1>1
<1>4. Rank(I, i) = Cardinality(upTo(i)) /\ Rank(I, j) = Cardinality(upTo(j))
    BY DEF Rank
<1> HIDE DEF upTo
<1>5. IsFiniteSet(upTo(j)) /\ IsFiniteSet(upTo(i))
    BY <1>1, <1>2, FS_Subset
<1>6. /\ Cardinality(upTo(i)) \in Nat /\ Cardinality(upTo(j)) \in Nat
      /\ Cardinality(upTo(i)) <= Cardinality(upTo(j))
      /\ Cardinality(upTo(j)) = Cardinality(upTo(i)) => upTo(j) = upTo(i)
    BY <1>2, <1>5, FS_Subset, FS_CardinalityType
<1> QED BY <1>3, <1>4, <1>6

\* A subsequence of a sequence without repetition has its elements in the order
\* of the sequence.
LEMMA SubsequenceKeepsOrder ==
    ASSUME NEW S, NEW s \in Seq(S), IsInjective(s), NEW I \in SUBSET DOMAIN s,
           NEW k \in DOMAIN Subsequence(s, I), NEW l \in DOMAIN Subsequence(s, I),
           NEW a \in DOMAIN s, NEW b \in DOMAIN s, a < b,
           Subsequence(s, I)[k] = s[a], Subsequence(s, I)[l] = s[b]
    PROVE  k < l
<1> DEFINE n == Cardinality(I)
           at(m) == CHOOSE i \in I : Rank(I, i) = m
<1>1. DOMAIN s = 1 .. Len(s) /\ Len(s) \in Nat
    BY ToSetProperties
<1>2. \A m \in 1 .. n : \E i \in I : Rank(I, i) = m
    BY <1>1, RankProperties
<1>3. \A m \in 1 .. n : at(m) \in I /\ Rank(I, at(m)) = m
    BY <1>2
<1>4. k \in 1 .. n /\ l \in 1 .. n /\ s[at(k)] = s[a] /\ s[at(l)] = s[b]
    BY DEF Subsequence
<1> HIDE DEF at, n
<1>5. at(k) = a /\ at(l) = b
    BY <1>3, <1>4 DEF IsInjective
<1>6. a \in I /\ b \in I /\ Rank(I, a) = k /\ Rank(I, b) = l
    BY <1>3, <1>4, <1>5
<1> QED BY <1>1, <1>6, RankGrows

\* The element of a subsequence at the rank of an index is the one at the index.
LEMMA SubsequenceAt ==
    ASSUME NEW S, NEW s \in Seq(S), NEW I \in SUBSET DOMAIN s
    PROVE  /\ Cardinality(I) \in Nat
           /\ Subsequence(s, I) \in Seq(S)
           /\ Len(Subsequence(s, I)) = Cardinality(I)
           /\ \A i \in I : Rank(I, i) \in 1 .. Cardinality(I) /\ Subsequence(s, I)[Rank(I, i)] = s[i]
           /\ \A k \in 1 .. Cardinality(I) : \E i \in I : Rank(I, i) = k
<1> DEFINE n == Cardinality(I)
           at(k) == CHOOSE i \in I : Rank(I, i) = k
<1>1. DOMAIN s = 1 .. Len(s) /\ Len(s) \in Nat
    BY ToSetProperties
<1>2. /\ n \in Nat
      /\ \A i \in I : Rank(I, i) \in 1 .. n
      /\ \A i, j \in I : Rank(I, i) = Rank(I, j) => i = j
      /\ \A k \in 1 .. n : \E i \in I : Rank(I, i) = k
    BY <1>1, RankProperties
<1>3. ASSUME NEW i \in I PROVE at(Rank(I, i)) = i
    <2>1. at(Rank(I, i)) \in I /\ Rank(I, at(Rank(I, i))) = Rank(I, i)
        OBVIOUS
    <2> QED BY <1>2, <2>1
<1>4. /\ DOMAIN Subsequence(s, I) = 1 .. n
      /\ \A k \in 1 .. n : Subsequence(s, I)[k] = s[at(k)]
    BY DEF Subsequence
<1>5. Subsequence(s, I) \in Seq(S)
    BY SubsequenceProperties
<1>6. Len(Subsequence(s, I)) = n
    BY <1>2, <1>4, <1>5, ToSetProperties
<1> HIDE DEF at, n
<1> QED BY <1>2, <1>3, <1>4, <1>5, <1>6 DEF n

\* A sequence is the subsequence of all its elements.
LEMMA SubsequenceAll ==
    ASSUME NEW S, NEW s \in Seq(S)
    PROVE  Subsequence(s, DOMAIN s) = s
<1>1. DOMAIN s = 1 .. Len(s) /\ Len(s) \in Nat
    BY ToSetProperties
<1>2. Cardinality(1 .. Len(s)) = Len(s)
    BY <1>1, FS_Interval
<1>3. ASSUME NEW i \in 1 .. Len(s) PROVE Rank(DOMAIN s, i) = i
    <2>1. {j \in 1 .. Len(s) : j <= i} = 1 .. i
        BY <1>1
    <2>2. Cardinality(1 .. i) = i
        BY FS_Interval
    <2> QED BY <1>1, <2>1, <2>2 DEF Rank
<1>4. /\ Subsequence(s, DOMAIN s) \in Seq(S)
      /\ Len(Subsequence(s, DOMAIN s)) = Len(s)
      /\ \A i \in 1 .. Len(s) : Subsequence(s, DOMAIN s)[i] = s[i]
    BY <1>1, <1>2, <1>3, SubsequenceAt
<1> HIDE DEF Subsequence
<1> QED BY <1>1, <1>4, SeqEqual

\* Without one of its indices, the elements of a subsequence behind it move up.
LEMMA SubsequenceWithout ==
    ASSUME NEW S, NEW s \in Seq(S), NEW I \in SUBSET DOMAIN s, NEW i \in I,
           NEW g, g = Subsequence(s, I), NEW h, h = Subsequence(s, I \ {i}),
           NEW r, r = Rank(I, i)
    PROVE  /\ h \in Seq(S)
           /\ r \in 1 .. Len(g) /\ g[r] = s[i]
           /\ Len(h) = Len(g) - 1
           /\ \A k \in 1 .. Len(h) : h[k] = IF k < r THEN g[k] ELSE g[k + 1]
<1> DEFINE J == I \ {i}
<1>1. DOMAIN s = 1 .. Len(s) /\ Len(s) \in Nat /\ I \in SUBSET (1 .. Len(s)) /\ IsFiniteSet(I)
    BY ToSetProperties, RankProperties
<1>2. /\ g \in Seq(S) /\ Cardinality(I) \in Nat /\ Len(g) = Cardinality(I)
      /\ \A j \in I : Rank(I, j) \in 1 .. Len(g) /\ g[Rank(I, j)] = s[j]
      /\ \A k \in 1 .. Len(g) : \E j \in I : Rank(I, j) = k
    BY SubsequenceAt
<1>3. /\ h \in Seq(S) /\ Len(h) = Cardinality(J)
      /\ \A j \in J : Rank(J, j) \in 1 .. Len(h) /\ h[Rank(J, j)] = s[j]
    <2>1. \A K \in SUBSET DOMAIN s :
             /\ Subsequence(s, K) \in Seq(S) /\ Len(Subsequence(s, K)) = Cardinality(K)
             /\ \A j \in K : Rank(K, j) \in 1 .. Cardinality(K) /\ Subsequence(s, K)[Rank(K, j)] = s[j]
        BY SubsequenceAt
    <2>2. J \in SUBSET DOMAIN s /\ h = Subsequence(s, J)
        OBVIOUS
    <2> HIDE DEF J
    <2> QED BY <2>1, <2>2
<1>4. Cardinality(J) = Cardinality(I) - 1
    BY <1>1, FS_RemoveElement
<1>5. \A a, b \in I : a < b => Rank(I, a) < Rank(I, b)
    BY <1>1, RankGrows
<1>6. ASSUME NEW j \in J PROVE Rank(J, j) = IF j < i THEN Rank(I, j) ELSE Rank(I, j) - 1
    <2> DEFINE upTo == {m \in I : m <= j}
    <2>1. IsFiniteSet(upTo)
        <3>1. upTo \in SUBSET I
            OBVIOUS
        <3> QED BY <1>1, <3>1, FS_Subset
    <2>2. {m \in J : m <= j} = upTo \ {i}
        OBVIOUS
    <2>3. i \in upTo <=> ~(j < i)
        BY <1>1
    <2>4. Cardinality(upTo \ {i}) = IF i \in upTo THEN Cardinality(upTo) - 1 ELSE Cardinality(upTo)
        BY <2>1, FS_RemoveElement
    <2> HIDE DEF upTo
    <2>5. Rank(J, j) = Cardinality(upTo \ {i}) /\ Rank(I, j) = Cardinality(upTo)
        BY <2>2 DEF Rank, upTo
    <2> QED BY <2>3, <2>4, <2>5
<1>0. g \in Seq(S) /\ h \in Seq(S) /\ Len(g) \in Nat /\ Len(h) \in Nat
    BY <1>2, <1>3, ToSetProperties
<1>9. Len(h) = Len(g) - 1
    BY <1>2, <1>3, <1>4
<1>10. r \in Int /\ \A j \in J : Rank(I, j) \in Int /\ j \in Int
    BY <1>1, <1>2
<1>7. ASSUME NEW k \in 1 .. Len(h) PROVE h[k] = IF k < r THEN g[k] ELSE g[k + 1]
    <2>0. k \in 1 .. Len(g) /\ k + 1 \in 1 .. Len(g)
        BY <1>0, <1>9
    <2>1. r \in 1 .. Len(g)
        BY <1>2
    <2>2. CASE k < r
        <3>1. PICK j \in I : Rank(I, j) = k
            BY <1>2, <2>0
        <3>2. j \in Int /\ i \in Int /\ j # i
            BY <1>1, <2>2, <3>1, <2>1
        <3>3. ~(i < j)
            BY <1>5, <2>1, <2>2, <3>1
        <3>4. j \in J /\ Rank(J, j) = k
            <4>1. j \in J /\ j < i
                BY <3>2, <3>3
            <4> QED BY <1>6, <3>1, <4>1
        <3> QED BY <1>2, <1>3, <2>2, <3>1, <3>4
    <2>3. CASE ~(k < r)
        <3>1. PICK j \in I : Rank(I, j) = k + 1
            BY <1>2, <2>0
        <3>2. j \in Int /\ i \in Int /\ j # i
            BY <1>1, <2>1, <2>3, <3>1
        <3>3. ~(j < i)
            BY <1>5, <2>1, <2>3, <3>1
        <3>4. j \in J /\ Rank(J, j) = k
            <4>1. j \in J /\ Rank(J, j) = Rank(I, j) - 1
                BY <1>6, <3>2, <3>3
            <4> QED BY <3>1, <4>1
        <3> QED BY <1>2, <1>3, <2>3, <3>1, <3>4
    <2> QED BY <2>2, <2>3
<1>8. r \in 1 .. Len(g) /\ g[r] = s[i]
    BY <1>2
<1> QED BY <1>3, <1>7, <1>8, <1>9

\* Concatenation joins the elements, and keeps a sequence without repetition so
\* when the two parts have none and share no element.
LEMMA ConcatKeepsInjective ==
    ASSUME NEW S, NEW s \in Seq(S), NEW t \in Seq(S)
    PROVE  /\ s \o t \in Seq(S)
           /\ ToSet(s \o t) = ToSet(s) \cup ToSet(t)
           /\ IsInjective(s) /\ IsInjective(t) /\ ToSet(s) \cap ToSet(t) = {}
                => IsInjective(s \o t)
<1> DEFINE u == s \o t
           m == Len(s)
           n == Len(t)
<1>1. /\ m \in Nat /\ n \in Nat
      /\ DOMAIN s = 1 .. m /\ DOMAIN t = 1 .. n
      /\ \A x : x \in ToSet(s) <=> \E i \in 1 .. m : s[i] = x
      /\ \A x : x \in ToSet(t) <=> \E i \in 1 .. n : t[i] = x
    BY ToSetProperties
<1>2. /\ u \in Seq(S)
      /\ Len(u) = m + n
      /\ \A i \in 1 .. m + n : u[i] = IF i <= m THEN s[i] ELSE t[i - m]
    BY ConcatProperties
<1>3. \A x : x \in ToSet(u) <=> \E i \in 1 .. m + n : u[i] = x
    BY <1>2, ToSetProperties
<1>4. DOMAIN u = 1 .. m + n
    BY <1>2, ToSetProperties
<1> HIDE DEF u, m, n
<1>5. ToSet(u) = ToSet(s) \cup ToSet(t)
    <2>1. ASSUME NEW i \in 1 .. m PROVE s[i] \in ToSet(u)
        BY <1>1, <1>2, <1>3
    <2>2. ASSUME NEW i \in 1 .. n PROVE t[i] \in ToSet(u)
        <3>1. /\ m + i \in 1 .. m + n
              /\ ~(m + i <= m)
              /\ (m + i) - m = i
            BY <1>1
        <3> QED BY <1>2, <1>3, <3>1
    <2>3. ASSUME NEW i \in 1 .. m + n PROVE u[i] \in ToSet(s) \cup ToSet(t)
        <3>1. CASE i <= m
            BY <1>1, <1>2, <3>1
        <3>2. CASE ~(i <= m)
            <4>1. i - m \in 1 .. n
                BY <1>1, <3>2
            <4> QED BY <1>1, <1>2, <3>2, <4>1
        <3> QED BY <3>1, <3>2
    <2> QED BY <1>1, <1>3, <2>1, <2>2, <2>3
<1>6. ASSUME IsInjective(s), IsInjective(t), ToSet(s) \cap ToSet(t) = {},
             NEW i \in 1 .. m + n, NEW j \in 1 .. m + n, u[i] = u[j]
      PROVE  i = j
    <2>1. \A k \in 1 .. m + n :
             /\ k <= m => k \in 1 .. m /\ u[k] = s[k] /\ u[k] \in ToSet(s)
             /\ ~(k <= m) => k - m \in 1 .. n /\ u[k] = t[k - m] /\ u[k] \in ToSet(t)
        BY <1>1, <1>2
    <2>2. i <= m <=> j <= m
        BY <1>6, <2>1
    <2>3. CASE i <= m
        <3>1. i \in 1 .. m /\ j \in 1 .. m /\ s[i] = s[j]
            BY <1>6, <2>1, <2>2, <2>3
        <3> QED BY <1>1, <1>6, <3>1 DEF IsInjective
    <2>4. CASE ~(i <= m)
        <3>1. i - m \in 1 .. n /\ j - m \in 1 .. n /\ t[i - m] = t[j - m]
            BY <1>6, <2>1, <2>2, <2>4
        <3>2. \A a, b \in 1 .. n : t[a] = t[b] => a = b
            BY <1>1, <1>6 DEF IsInjective
        <3>3. i - m = j - m
            BY <3>1, <3>2
        <3> QED BY <1>1, <3>3
    <2> QED BY <2>3, <2>4
<1>7. IsInjective(s) /\ IsInjective(t) /\ ToSet(s) \cap ToSet(t) = {} => IsInjective(u)
    BY <1>4, <1>6 DEF IsInjective
<1> QED BY <1>2, <1>5, <1>7 DEF u

\* Reversing a sequence keeps its elements and its lack of repetitions.
LEMMA ReverseProperties ==
    ASSUME NEW S, NEW s \in Seq(S)
    PROVE  /\ Reverse(s) \in Seq(S)
           /\ ToSet(Reverse(s)) = ToSet(s)
           /\ IsInjective(s) => IsInjective(Reverse(s))
<1> DEFINE n == Len(s)
           r == Reverse(s)
<1>1. /\ n \in Nat
      /\ DOMAIN s = 1 .. n
      /\ \A i \in 1 .. n : s[i] \in S
      /\ \A x : x \in ToSet(s) <=> \E i \in 1 .. n : s[i] = x
    BY ToSetProperties
<1>2. /\ DOMAIN r = 1 .. n
      /\ \A i \in 1 .. n : r[i] = s[(n - i) + 1]
    BY DEF Reverse
<1>3. \A i \in 1 .. n : /\ (n - i) + 1 \in 1 .. n
                        /\ (n - ((n - i) + 1)) + 1 = i
    BY <1>1
<1>4. r \in Seq(S)
    <2>1. r \in [1 .. n -> S]
        BY <1>1, <1>3 DEF Reverse
    <2> QED BY <1>1, <2>1, SeqDef
<1> HIDE DEF n, r
<1>5. ToSet(r) = ToSet(s)
    <2>1. ASSUME NEW i \in 1 .. n PROVE r[i] \in ToSet(s)
        BY <1>1, <1>2, <1>3
    <2>2. ASSUME NEW i \in 1 .. n PROVE \E j \in DOMAIN r : r[j] = s[i]
        BY <1>2, <1>3
    <2> QED BY <1>1, <1>2, <2>1, <2>2 DEF ToSet
<1>6. IsInjective(s) => IsInjective(r)
    <2>1. ASSUME IsInjective(s), NEW i \in 1 .. n, NEW j \in 1 .. n, r[i] = r[j]
          PROVE  i = j
        <3>1. (n - i) + 1 = (n - j) + 1
            BY <1>1, <1>2, <1>3, <2>1 DEF IsInjective
        <3> QED BY <1>3, <3>1
    <2> QED BY <1>2, <2>1 DEF IsInjective
<1> QED BY <1>4, <1>5, <1>6 DEF r

\* A set of indices that has every index below one of its own is an initial
\* segment: the hits of a lookup that stops at the first miss.
LEMMA InitialSegment ==
    ASSUME NEW n \in Nat, NEW I \in SUBSET (1 .. n),
           \A i \in I : \A j \in 1 .. i : j \in I
    PROVE  /\ Cardinality(I) \in Nat
           /\ I = 1 .. Cardinality(I)
<1> DEFINE m == Cardinality(I)
<1>0. IsFiniteSet(1 .. n)
    BY FS_Interval
<1>1. IsFiniteSet(I) /\ m \in Nat
    BY <1>0, FS_Subset, FS_CardinalityType
<1>2. ASSUME NEW i \in I PROVE i \in 1 .. m
    <2>1. 1 .. i \in SUBSET I /\ i \in Nat \ {0}
        OBVIOUS
    <2>2. Cardinality(1 .. i) = i
        BY <2>1, FS_Interval
    <2> QED BY <1>1, <2>1, <2>2, FS_Subset
<1>3. IsFiniteSet(1 .. m) /\ Cardinality(1 .. m) = m
    BY <1>1, FS_Interval
<1> QED BY <1>1, <1>2, <1>3, FS_Subset

-----------------------------------------------------------------------------
(* What the operations preserve. *)

\* The free queue of p holds exactly its unreferenced blocks, each once.
QueueExact(p) ==
    /\ IsInjective(p.free)
    /\ ToSet(p.free) = {b \in Block \ {NullBlock} : p.ref[b] = 0}

\* Every entry of the prefix cache of p leads to a block with its hash.
EntriesSound(p) ==
    \A h \in Hash : p.map[h] # NoBlock =>
        /\ p.map[h] # NullBlock
        /\ p.hash[p.map[h]] = h

\* The fields of a pool (core/block_pool.py:165-191).
LEMMA PoolFields ==
    ASSUME NEW p \in Pool
    PROVE  /\ p.caching \in BOOLEAN
           /\ p.free \in Seq(Block)
           /\ p.ref \in [Block -> Nat]
           /\ p.hash \in [Block -> Hash \cup {NoHash}]
           /\ p.map \in [Hash -> Block \cup {NoBlock}]
BY DEF Pool

\* A new pool has every block but the null block free (block_pool.py:165-191).
LEMMA InitPoolSound ==
    ASSUME NEW caching \in BOOLEAN
    PROVE  /\ InitPool(caching) \in Pool
           /\ QueueExact(InitPool(caching))
           /\ EntriesSound(InitPool(caching))
<1> DEFINE n == NumBlocks - 1
           q == [i \in 1 .. n |-> i]
<1>1. n \in Nat /\ Block = 0 .. n
    BY NumBlocksAssumption DEF Block
<1>2. q \in [1 .. n -> Block]
    BY <1>1
<1>3. q \in Seq(Block)
    BY <1>1, <1>2, SeqDef
<1>4. InitPool(caching) \in Pool
    BY <1>3 DEF InitPool, Pool
<1>5. QueueExact(InitPool(caching))
    <2>1. IsInjective(q)
        BY DEF IsInjective
    <2>2. ToSet(q) = Block \ {0}
        BY <1>1 DEF ToSet
    <2> QED BY <2>1, <2>2 DEF QueueExact, InitPool, NullBlock
<1>6. EntriesSound(InitPool(caching))
    BY DEF EntriesSound, InitPool
<1> QED BY <1>4, <1>5, <1>6

\* touch keeps the queue exact and the entries sound: a block that gets its
\* first reference leaves the queue (block_pool.py:219-224).
LEMMA TouchSound ==
    ASSUME NEW p \in Pool, NEW B \in SUBSET Block, QueueExact(p)
    PROVE  /\ Touch(p, B) \in Pool
           /\ Touch(p, B).ref = [b \in Block |-> IF b \in B THEN p.ref[b] + 1 ELSE p.ref[b]]
           /\ QueueExact(Touch(p, B))
           /\ EntriesSound(p) => EntriesSound(Touch(p, B))
<1> DEFINE woken == {b \in B : p.ref[b] = 0 /\ b # NullBlock}
           kept  == {i \in DOMAIN p.free : p.free[i] \notin woken}
           q     == Touch(p, B)
           free  == Subsequence(p.free, kept)
           ref   == [b \in Block |-> IF b \in B THEN p.ref[b] + 1 ELSE p.ref[b]]
<1>1. /\ p.free \in Seq(Block)
      /\ p.ref \in [Block -> Nat]
    BY PoolFields
<1>2. /\ free \in Seq(Block)
      /\ ToSet(free) = {p.free[i] : i \in kept}
      /\ IsInjective(p.free) => IsInjective(free)
    BY <1>1, SubsequenceProperties
<1>3. ref \in [Block -> Nat]
    BY <1>1
<1>4. /\ q = [p EXCEPT !.free = free, !.ref = ref]
      /\ q \in Pool
      /\ q.free = free /\ q.ref = ref /\ q.hash = p.hash /\ q.map = p.map
    BY <1>2, <1>3 DEF Touch, Pool
<1>5. ToSet(free) = ToSet(p.free) \ woken
    BY <1>2 DEF ToSet
<1> HIDE DEF q, free, kept
<1>6. {b \in Block \ {NullBlock} : ref[b] = 0}
        = {b \in Block \ {NullBlock} : p.ref[b] = 0} \ woken
    BY <1>1
<1>7. QueueExact(q)
    <2> HIDE DEF ref, woken
    <2>1. IsInjective(q.free)
        BY <1>2, <1>4 DEF QueueExact
    <2>2. {b \in Block \ {NullBlock} : q.ref[b] = 0} = ToSet(q.free)
        BY <1>4, <1>5, <1>6 DEF QueueExact
    <2> QED BY <2>1, <2>2 DEF QueueExact
<1>8. EntriesSound(p) => EntriesSound(q)
    BY <1>4 DEF EntriesSound
<1> QED BY <1>4, <1>7, <1>8 DEF q

\* get_new_blocks pops unreferenced blocks, each once, and forgets what the cache
\* knew of them (block_pool.py:197-217, 284-288).
LEMMA GetNewBlocksSound ==
    ASSUME NEW p \in Pool, NEW n \in 0 .. NumFree(p), QueueExact(p)
    PROVE  /\ Popped(p, n) \in Seq(Block)
           /\ Len(Popped(p, n)) = n
           /\ IsInjective(Popped(p, n))
           /\ \A b \in ToSet(Popped(p, n)) : b \in Block /\ b # NullBlock /\ p.ref[b] = 0
           /\ GetNewBlocks(p, n) \in Pool
           /\ GetNewBlocks(p, n).ref = [b \in Block |-> IF b \in ToSet(Popped(p, n)) THEN 1 ELSE p.ref[b]]
           /\ QueueExact(GetNewBlocks(p, n))
           /\ EntriesSound(p) => EntriesSound(GetNewBlocks(p, n))
<1> DEFINE q    == GetNewBlocks(p, n)
           new  == Popped(p, n)
           B    == ToSet(new)
           m    == NumFree(p)
           free == SubSeq(p.free, n + 1, m)
           ref  == [b \in Block |-> IF b \in B THEN 1 ELSE p.ref[b]]
           hash == [b \in Block |-> IF p.caching /\ b \in B THEN NoHash ELSE p.hash[b]]
           map  == IF p.caching THEN MapWithout(p, Evicted(p, B)) ELSE p.map
<1>1. /\ p.free \in Seq(Block)
      /\ p.ref \in [Block -> Nat]
      /\ p.hash \in [Block -> Hash \cup {NoHash}]
      /\ p.map \in [Hash -> Block \cup {NoBlock}]
    BY PoolFields
<1>2. /\ m = Len(p.free) /\ m \in Nat /\ n \in Nat /\ n <= m
      /\ DOMAIN p.free = 1 .. m
      /\ \A i \in 1 .. m : p.free[i] \in Block
    BY <1>1, ToSetProperties DEF NumFree
<1>3. /\ new \in Seq(Block)
      /\ Len(new) = n
      /\ DOMAIN new = 1 .. n
      /\ \A i \in 1 .. n : new[i] = p.free[i]
    <2>1. /\ new \in Seq(Block)
          /\ Len(new) = IF 1 <= n THEN n - 1 + 1 ELSE 0
          /\ \A i \in 1 .. n - 1 + 1 : new[i] = p.free[1 + i - 1]
        BY <1>2, SubSeqProperties DEF Popped
    <2>2. Len(new) = n /\ \A i \in 1 .. n : new[i] = p.free[i]
        BY <1>2, <2>1
    <2> QED BY <2>1, <2>2, ToSetProperties
<1>4. /\ free \in Seq(Block)
      /\ DOMAIN free = 1 .. m - n
      /\ \A i \in 1 .. m - n : free[i] = p.free[n + i]
    <2>1. /\ free \in Seq(Block)
          /\ Len(free) = IF n + 1 <= m THEN m - (n + 1) + 1 ELSE 0
          /\ \A i \in 1 .. m - (n + 1) + 1 : free[i] = p.free[n + 1 + i - 1]
        BY <1>2, SubSeqProperties
    <2> HIDE DEF free, m
    <2>2. Len(free) = m - n
        BY <1>2, <2>1
    <2>3. ASSUME NEW i \in 1 .. m - n PROVE free[i] = p.free[n + i]
        <3>1. i \in 1 .. m - (n + 1) + 1 /\ n + 1 + i - 1 = n + i
            BY <1>2
        <3> QED BY <2>1, <3>1
    <2> QED BY <2>1, <2>2, <2>3, ToSetProperties
<1> HIDE DEF free, m
<1>5. IsInjective(new) /\ IsInjective(free)
    <2>1. \A i, j \in 1 .. m : p.free[i] = p.free[j] => i = j
        BY <1>2 DEF QueueExact, IsInjective
    <2>2. \A i, j \in 1 .. n : new[i] = new[j] => i = j
        BY <1>2, <1>3, <2>1
    <2>3. ASSUME NEW i \in 1 .. m - n, NEW j \in 1 .. m - n, free[i] = free[j]
          PROVE  i = j
        <3>1. n + i \in 1 .. m /\ n + j \in 1 .. m
            BY <1>2
        <3>2. n + i = n + j
            BY <1>4, <2>1, <2>3, <3>1
        <3> QED BY <1>2, <3>2
    <2> QED BY <1>3, <1>4, <2>2, <2>3 DEF IsInjective
<1>6. ToSet(p.free) = {b \in Block \ {NullBlock} : p.ref[b] = 0}
    BY DEF QueueExact
<1>7. B \subseteq ToSet(p.free)
    BY <1>2, <1>3 DEF ToSet
<1>8. ToSet(free) = ToSet(p.free) \ B
    <2>1. ASSUME NEW i \in 1 .. m - n
          PROVE  free[i] \in ToSet(p.free) /\ free[i] \notin B
        <3>0. n + i \in 1 .. m
            BY <1>2
        <3>1. n + i \in 1 .. m /\ free[i] = p.free[n + i]
            BY <1>4, <3>0
        <3>2. ASSUME NEW j \in 1 .. n PROVE new[j] # p.free[n + i]
            <4>1. j \in 1 .. m /\ n + i # j
                BY <1>2
            <4>2. p.free[j] # p.free[n + i]
                BY <1>2, <3>1, <4>1 DEF QueueExact, IsInjective
            <4> QED BY <1>3, <4>2
        <3> QED BY <1>2, <1>3, <3>1, <3>2 DEF ToSet
    <2>2. ASSUME NEW i \in 1 .. m, p.free[i] \notin B
          PROVE  p.free[i] \in ToSet(free)
        <3>1. ~(i <= n)
            BY <1>2, <1>3, <2>2 DEF ToSet
        <3>2. i - n \in 1 .. m - n /\ n + (i - n) = i
            BY <1>2, <3>1
        <3> QED BY <1>4, <3>2 DEF ToSet
    <2>3. /\ ToSet(free) = {free[i] : i \in 1 .. m - n}
          /\ ToSet(p.free) = {p.free[i] : i \in 1 .. m}
        BY <1>2, <1>4 DEF ToSet
    <2> HIDE DEF B, new
    <2> QED BY <2>1, <2>2, <2>3
<1>9. /\ ref \in [Block -> Nat]
      /\ hash \in [Block -> Hash \cup {NoHash}]
      /\ map \in [Hash -> Block \cup {NoBlock}]
    BY <1>1 DEF MapWithout
<1>10. /\ q \in Pool
       /\ q.free = free /\ q.ref = ref /\ q.hash = hash /\ q.map = map
    BY <1>2, <1>4, <1>9 DEF GetNewBlocks, Pool, free, m
<1> HIDE DEF q, new, B
<1>11. {b \in Block \ {NullBlock} : ref[b] = 0}
         = {b \in Block \ {NullBlock} : p.ref[b] = 0} \ B
    BY <1>1
<1>12. QueueExact(q)
    <2> HIDE DEF ref, hash, map
    <2>1. IsInjective(q.free)
        BY <1>5, <1>10
    <2>2. {b \in Block \ {NullBlock} : q.ref[b] = 0} = ToSet(q.free)
        BY <1>6, <1>8, <1>10, <1>11
    <2> QED BY <2>1, <2>2 DEF QueueExact
<1>13. ASSUME EntriesSound(p), NEW h \in Hash, map[h] # NoBlock
       PROVE  map[h] # NullBlock /\ hash[map[h]] = h
    <2>1. map[h] = p.map[h] /\ (p.caching => h \notin Evicted(p, B))
        BY <1>13 DEF MapWithout
    <2>2. p.map[h] \in Block /\ p.map[h] # NullBlock /\ p.hash[p.map[h]] = h
        BY <1>1, <1>13, <2>1 DEF EntriesSound
    <2>3. p.caching => p.map[h] \notin B
        BY <2>1, <2>2, NoHashAssumption DEF Evicted
    <2> QED BY <2>1, <2>2, <2>3
<1>14. EntriesSound(p) => EntriesSound(q)
    BY <1>10, <1>13 DEF EntriesSound
<1>15. \A b \in B : b \in Block /\ b # NullBlock /\ p.ref[b] = 0
    BY <1>6, <1>7
<1> QED BY <1>3, <1>5, <1>10, <1>12, <1>14, <1>15 DEF q, new, B

\* free_blocks gives back the blocks whose last reference it drops, and only
\* those (block_pool.py:226-238).
LEMMA FreeBlocksSound ==
    ASSUME NEW p \in Pool, NEW bs \in Seq(Block), QueueExact(p), IsInjective(bs),
           \A b \in ToSet(bs) : p.ref[b] > 0
    PROVE  /\ FreeBlocks(p, bs) \in Pool
           /\ FreeBlocks(p, bs).ref = [b \in Block |-> IF b \in ToSet(bs) THEN p.ref[b] - 1 ELSE p.ref[b]]
           /\ QueueExact(FreeBlocks(p, bs))
           /\ EntriesSound(p) => EntriesSound(FreeBlocks(p, bs))
<1> DEFINE B       == ToSet(bs)
           dropped == {i \in DOMAIN bs : p.ref[bs[i]] = 1 /\ bs[i] # NullBlock}
           back    == Subsequence(bs, dropped)
           q       == FreeBlocks(p, bs)
           ref     == [b \in Block |-> IF b \in B THEN p.ref[b] - 1 ELSE p.ref[b]]
<1>1. /\ p.free \in Seq(Block)
      /\ p.ref \in [Block -> Nat]
    BY PoolFields
<1>2. B \subseteq Block
    BY ToSetProperties
<1>3. /\ back \in Seq(Block)
      /\ ToSet(back) = {bs[i] : i \in dropped}
      /\ IsInjective(back)
    BY SubsequenceProperties
<1>4. ToSet(back) = {b \in B : p.ref[b] = 1 /\ b # NullBlock}
    BY <1>3 DEF ToSet
<1>5. ToSet(p.free) \cap ToSet(back) = {}
    BY <1>4 DEF QueueExact
<1>6. /\ p.free \o back \in Seq(Block)
      /\ ToSet(p.free \o back) = ToSet(p.free) \cup ToSet(back)
      /\ IsInjective(p.free \o back)
    <2>1. IsInjective(p.free)
        BY DEF QueueExact
    <2> HIDE DEF back
    <2> QED BY <1>1, <1>3, <1>5, <2>1, ConcatKeepsInjective
<1>7. ref \in [Block -> Nat]
    <2>1. ASSUME NEW b \in B PROVE p.ref[b] - 1 \in Nat
        BY <1>1, <1>2
    <2> QED BY <1>1, <2>1
<1>8. /\ q \in Pool
      /\ q.free = p.free \o back /\ q.ref = ref /\ q.hash = p.hash /\ q.map = p.map
    BY <1>6, <1>7 DEF FreeBlocks, Pool
<1> HIDE DEF q, back, B
<1>9. {b \in Block \ {NullBlock} : ref[b] = 0}
        = ToSet(p.free) \cup {b \in B : p.ref[b] = 1 /\ b # NullBlock}
    <2>1. \A b \in B : b \in Block /\ p.ref[b] \in Nat /\ p.ref[b] > 0
        BY <1>1, <1>2 DEF B
    <2>2. \A b \in Block : ref[b] = 0 <=> IF b \in B THEN p.ref[b] = 1 ELSE p.ref[b] = 0
        BY <1>1, <2>1
    <2> QED BY <2>1, <2>2 DEF QueueExact
<1>10. QueueExact(q)
    <2> HIDE DEF ref, dropped
    <2>1. IsInjective(q.free)
        BY <1>6, <1>8
    <2>2. ToSet(q.free) = ToSet(p.free) \cup {b \in B : p.ref[b] = 1 /\ b # NullBlock}
        BY <1>4, <1>6, <1>8
    <2>3. {b \in Block \ {NullBlock} : q.ref[b] = 0} = ToSet(q.free)
        BY <1>8, <1>9, <2>2
    <2> QED BY <2>1, <2>3 DEF QueueExact
<1>11. EntriesSound(p) => EntriesSound(q)
    BY <1>8 DEF EntriesSound
<1> QED BY <1>8, <1>10, <1>11 DEF q, B

\* cache_block of the full blocks of a sequence moves neither references nor the
\* queue, and every entry it writes leads to the block it was written for
\* (block_pool.py:276-282, kv_cache.py:645-670).
LEMMA CacheBlocksSound ==
    ASSUME NEW p \in Pool, NEW bs \in Seq(Block), NEW hs \in Seq(Hash),
           IsInjective(bs), IsInjective(hs)
    PROVE  /\ CacheBlocks(p, bs, hs) \in Pool
           /\ CacheBlocks(p, bs, hs).free = p.free
           /\ CacheBlocks(p, bs, hs).ref = p.ref
           /\ EntriesSound(p) => EntriesSound(CacheBlocks(p, bs, hs))
<1> DEFINE new  == {i \in DOMAIN bs \cap DOMAIN hs : Cacheable(p, bs[i])}
           ofB(b) == CHOOSE i \in new : bs[i] = b
           ofH(h) == CHOOSE i \in new : hs[i] = h
           hash == [b \in Block |-> IF \E i \in new : bs[i] = b THEN hs[ofB(b)] ELSE p.hash[b]]
           map  == [h \in Hash |-> IF \E i \in new : hs[i] = h THEN bs[ofH(h)] ELSE p.map[h]]
           q    == CacheBlocks(p, bs, hs)
<1>1. /\ p.hash \in [Block -> Hash \cup {NoHash}]
      /\ p.map \in [Hash -> Block \cup {NoBlock}]
    BY PoolFields
<1>2. \A i \in new : bs[i] \in Block /\ hs[i] \in Hash
    BY ToSetProperties
<1>3. \A i, j \in new : (bs[i] = bs[j] => i = j) /\ (hs[i] = hs[j] => i = j)
    BY DEF IsInjective
<1>4. \A i \in new : /\ bs[i] # NullBlock
                     /\ p.hash[bs[i]] = NoHash
    BY DEF Cacheable
<1> HIDE DEF new
<1>5. \A i \in new : ofB(bs[i]) = i /\ ofH(hs[i]) = i
    BY <1>3
<1>6. /\ hash \in [Block -> Hash \cup {NoHash}]
      /\ map \in [Hash -> Block \cup {NoBlock}]
    BY <1>1, <1>2, <1>5
<1>7. /\ q \in Pool
      /\ q.free = p.free /\ q.ref = p.ref /\ q.hash = hash /\ q.map = map
    BY <1>6 DEF CacheBlocks, Pool, new
<1> HIDE DEF q
<1>8. ASSUME EntriesSound(p), NEW h \in Hash, map[h] # NoBlock
      PROVE  map[h] # NullBlock /\ hash[map[h]] = h
    <2>1. CASE \E i \in new : hs[i] = h
        <3>1. PICK i \in new : hs[i] = h
            BY <2>1
        <3>2. map[h] = bs[i]
            <4>1. ofH(h) = i
                BY <1>5, <3>1
            <4>2. map[h] = bs[ofH(h)]
                BY <3>1
            <4> HIDE DEF map, ofH
            <4> QED BY <4>1, <4>2
        <3>3. hash[bs[i]] = h
            BY <1>2, <1>5, <3>1
        <3> QED BY <1>4, <3>2, <3>3
    <2>2. CASE ~ \E i \in new : hs[i] = h
        <3>1. map[h] = p.map[h]
            BY <2>2
        <3>2. p.map[h] \in Block /\ p.map[h] # NullBlock /\ p.hash[p.map[h]] = h
            BY <1>1, <1>8, <3>1 DEF EntriesSound
        <3>3. ~ \E i \in new : bs[i] = p.map[h]
            BY <1>4, <3>2, NoHashAssumption
        <3> QED BY <3>1, <3>2, <3>3
    <2> QED BY <2>1, <2>2
<1>9. EntriesSound(p) => EntriesSound(q)
    BY <1>7, <1>8 DEF EntriesSound
<1> QED BY <1>7, <1>9 DEF q

\* The blocks try_reuse_prefix finds are distinct, and none is the null block
\* (kv_cache.py:599-643, block_pool.py:270-274).
LEMMA CachedPrefixSound ==
    ASSUME NEW p \in Pool, NEW hs \in Seq(Hash), IsInjective(hs), EntriesSound(p)
    PROVE  /\ CachedPrefix(p, hs) \in Seq(Block)
           /\ IsInjective(CachedPrefix(p, hs))
           /\ NullBlock \notin ToSet(CachedPrefix(p, hs))
<1> DEFINE hit == {i \in DOMAIN hs : \A j \in 1 .. i : CachedBlock(p, hs[j]) # NoBlock}
           n   == Cardinality(hit)
           r   == CachedPrefix(p, hs)
<1>1. /\ p.map \in [Hash -> Block \cup {NoBlock}]
      /\ DOMAIN hs = 1 .. Len(hs)
      /\ Len(hs) \in Nat
      /\ \A i \in DOMAIN hs : hs[i] \in Hash
    BY PoolFields, ToSetProperties
<1>2. n \in Nat /\ hit = 1 .. n
    <2>1. hit \in SUBSET (1 .. Len(hs))
        BY <1>1
    <2>2. \A i \in hit : \A j \in 1 .. i : j \in hit
        BY <1>1
    <2> HIDE DEF hit
    <2> QED BY <1>1, <2>1, <2>2, InitialSegment
<1>3. /\ DOMAIN r = 1 .. n
      /\ \A i \in 1 .. n : r[i] = CachedBlock(p, hs[i])
    BY DEF CachedPrefix
<1>4. ASSUME NEW i \in 1 .. n
      PROVE  /\ i \in DOMAIN hs
             /\ r[i] \in Block /\ r[i] # NullBlock
             /\ p.hash[r[i]] = hs[i]
    <2>1. i \in hit /\ i \in 1 .. i
        BY <1>2
    <2>2. i \in DOMAIN hs /\ hs[i] \in Hash /\ CachedBlock(p, hs[i]) # NoBlock
        BY <1>1, <2>1
    <2> QED BY <1>1, <1>3, <2>2 DEF CachedBlock, EntriesSound
<1>5. r \in Seq(Block)
    <2>1. r \in [1 .. n -> Block]
        BY <1>3, <1>4 DEF CachedPrefix
    <2> QED BY <1>2, <2>1, SeqDef
<1> HIDE DEF r, n
<1>6. IsInjective(r)
    BY <1>3, <1>4 DEF IsInjective
<1>7. NullBlock \notin ToSet(r)
    BY <1>3, <1>4 DEF ToSet
<1> QED BY <1>5, <1>6, <1>7 DEF r

\* What cache_block leaves in the hashes: a block that had one keeps it, and one
\* that gets one is a block of the list, with the hash at its place
\* (block_pool.py:255-269).
LEMMA CacheBlocksHashes ==
    ASSUME NEW p \in Pool, NEW bs \in Seq(Block), NEW hs \in Seq(Hash), IsInjective(bs)
    PROVE  LET q == CacheBlocks(p, bs, hs) IN
           /\ q.caching = p.caching
           /\ \A b \in Block :
                \/ q.hash[b] = p.hash[b]
                \/ /\ p.caching /\ p.hash[b] = NoHash
                   /\ \E i \in DOMAIN bs \cap DOMAIN hs : b = bs[i] /\ q.hash[b] = hs[i]
<1> DEFINE new  == {i \in DOMAIN bs \cap DOMAIN hs : Cacheable(p, bs[i])}
           ofB(b) == CHOOSE i \in new : bs[i] = b
           hash == [b \in Block |-> IF \E i \in new : bs[i] = b THEN hs[ofB(b)] ELSE p.hash[b]]
           q    == CacheBlocks(p, bs, hs)
<1>1. q.hash = hash /\ q.caching = p.caching
    BY DEF CacheBlocks, Pool
<1>2. \A i \in new : /\ i \in DOMAIN bs \cap DOMAIN hs
                     /\ p.caching /\ p.hash[bs[i]] = NoHash
    BY DEF Cacheable
<1> HIDE DEF new, q
<1>3. ASSUME NEW b \in Block
      PROVE  \/ q.hash[b] = p.hash[b]
             \/ /\ p.caching /\ p.hash[b] = NoHash
                /\ \E i \in DOMAIN bs \cap DOMAIN hs : b = bs[i] /\ q.hash[b] = hs[i]
    <2>1. CASE \E i \in new : bs[i] = b
        <3>1. ofB(b) \in new /\ bs[ofB(b)] = b
            BY <2>1
        <3>2. q.hash[b] = hs[ofB(b)]
            BY <1>1, <2>1
        <3> HIDE DEF ofB
        <3> QED BY <1>2, <3>1, <3>2
    <2>2. CASE ~ \E i \in new : bs[i] = b
        BY <1>1, <2>2
    <2> QED BY <2>1, <2>2
<1> QED BY <1>1, <1>3 DEF q

\* Every block found is the one of its hash (kv_cache.py:611-620).
LEMMA CachedPrefixHashes ==
    ASSUME NEW p \in Pool, NEW hs \in Seq(Hash), EntriesSound(p)
    PROVE  LET r == CachedPrefix(p, hs) IN
           /\ Len(r) \in Nat /\ Len(r) <= Len(hs)
           /\ \A i \in 1 .. Len(r) : p.hash[r[i]] = hs[i]
           /\ r # <<>> => p.caching
<1> DEFINE hit == {i \in DOMAIN hs : \A j \in 1 .. i : CachedBlock(p, hs[j]) # NoBlock}
           n   == Cardinality(hit)
           r   == CachedPrefix(p, hs)
<1>1. /\ p.map \in [Hash -> Block \cup {NoBlock}]
      /\ DOMAIN hs = 1 .. Len(hs) /\ Len(hs) \in Nat
      /\ \A i \in DOMAIN hs : hs[i] \in Hash
    BY PoolFields, ToSetProperties
<1>2. n \in Nat /\ hit = 1 .. n
    <2>1. hit \in SUBSET (1 .. Len(hs))
        BY <1>1
    <2>2. \A i \in hit : \A j \in 1 .. i : j \in hit
        BY <1>1
    <2> HIDE DEF hit
    <2> QED BY <1>1, <2>1, <2>2, InitialSegment
<1>3. r = [i \in 1 .. n |-> CachedBlock(p, hs[i])]
    BY DEF CachedPrefix
<1>4. ASSUME NEW i \in 1 .. n
      PROVE  /\ i \in DOMAIN hs
             /\ r[i] \in Block /\ p.hash[r[i]] = hs[i] /\ p.caching
    <2>1. i \in hit /\ i \in 1 .. i
        BY <1>2
    <2>2. i \in DOMAIN hs /\ hs[i] \in Hash /\ CachedBlock(p, hs[i]) # NoBlock
        BY <1>1, <2>1
    <2> QED BY <1>1, <1>3, <2>2 DEF CachedBlock, EntriesSound
<1> HIDE DEF r, n, hit
<1>5. r \in Seq(Block) /\ Len(r) = n
    <2>1. r \in [1 .. n -> Block]
        BY <1>3, <1>4
    <2> QED BY <1>2, <1>3, <2>1
<1>6. n <= Len(hs)
    BY <1>1, <1>2, <1>4
<1>7. r # <<>> => p.caching
    <2>1. r # <<>> => n # 0
        BY <1>5
    <2>2. n # 0 => 1 \in 1 .. n
        BY <1>2
    <2> QED BY <1>4, <2>1, <2>2
<1> QED BY <1>2, <1>4, <1>5, <1>6, <1>7 DEF r

\* enable_prefix_caching and the cache purge keep the queue exact and the entries
\* sound (kv_cache.py:577, api/_admin.py:452-467).
LEMMA SwitchesSound ==
    ASSUME NEW p \in Pool, QueueExact(p), EntriesSound(p),
           NEW q \in {EnableCaching(p), PurgeCache(p)}
    PROVE  /\ q \in Pool
           /\ q.ref = p.ref
           /\ QueueExact(q)
           /\ EntriesSound(q)
<1>1. CASE q = EnableCaching(p)
    <2>1. /\ q \in Pool
          /\ q.ref = p.ref /\ q.free = p.free /\ q.hash = p.hash /\ q.map = p.map
        BY <1>1 DEF EnableCaching, Pool
    <2> QED BY <2>1 DEF QueueExact, EntriesSound
<1>2. CASE q = PurgeCache(p)
    <2> DEFINE hash == [b \in Block |-> NoHash]
               map  == [h \in Hash |-> NoBlock]
    <2>1. /\ hash \in [Block -> Hash \cup {NoHash}]
          /\ map \in [Hash -> Block \cup {NoBlock}]
        OBVIOUS
    <2>2. /\ q \in Pool
          /\ q.ref = p.ref /\ q.free = p.free /\ q.map = map
        BY <1>2, <2>1 DEF PurgeCache, Pool
    <2> QED BY <2>2 DEF QueueExact, EntriesSound
<1> QED BY <1>1, <1>2
=============================================================================
