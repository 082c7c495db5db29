-------------------------- MODULE SchedulerProofs --------------------------
(***************************************************************************)
(* The scheduler keeps every request in one queue, every block in one      *)
(* place and every generated token, for every number of requests, blocks   *)
(* and priorities and every size of batch, chunk and block.                *)
(***************************************************************************)
EXTENDS Scheduler, FiniteSetTheorems, SequenceTheorems, NaturalsInduction,
        WellFoundedInduction, TLAPS

-----------------------------------------------------------------------------
(* Numbers and orders. *)

\* A set of naturals has a least element.
LEMMA Least ==
    ASSUME NEW T \in SUBSET Nat, T # {}
    PROVE  \E m \in T : \A k \in T : m <= k
<1>1. PICK m \in T : \A k \in T : <<k, m>> \notin OpToRel(<, Nat)
    BY WFMin, NatLessThanWellFounded, Zenon
<1>2. \A k \in T : ~(k < m)
    BY <1>1, Zenon DEF OpToRel
<1>3. \A k \in T : m <= k
    BY <1>2
<1> QED BY <1>3

\* Induction, for a set of naturals.
LEMMA Induction ==
    ASSUME NEW S, 0 \in S, \A n \in Nat : n \in S => n + 1 \in S
    PROVE  \A n \in Nat : n \in S
<1> DEFINE T == {n \in Nat : n \notin S}
<1>1. SUFFICES ASSUME T # {} PROVE FALSE
    OBVIOUS
<1>2. PICK m \in T : \A k \in T : m <= k
    <2> HIDE DEF T
    <2> QED BY <1>1, Least DEF T
<1> QED BY <1>2, m - 1 \in Nat, (m - 1) + 1 = m

\* The same over the turns of a loop.
LEMMA LoopInduction ==
    ASSUME NEW n \in Nat, NEW S, 0 \in S, \A i \in 1 .. n : i - 1 \in S => i \in S
    PROVE  \A i \in 0 .. n : i \in S
<1> DEFINE T == {i \in Nat : i <= n => i \in S}
<1>1. 0 \in T
    OBVIOUS
<1>2. ASSUME NEW i \in Nat, i \in T PROVE i + 1 \in T
    <2>1. CASE i + 1 <= n
        <3>1. i \in S /\ i + 1 \in 1 .. n /\ (i + 1) - 1 = i
            BY <1>2, <2>1
        <3> QED BY <3>1
    <2>2. CASE ~(i + 1 <= n)
        BY <2>2
    <2> QED BY <2>1, <2>2
<1> HIDE DEF T
<1>3. \A i \in Nat : i \in T
    BY <1>1, <1>2, Induction
<1> QED BY <1>3 DEF T

\* A finite set that is not empty has a first element in every total order R.
LEMMA FirstExists ==
    ASSUME NEW S, IsFiniteSet(S), S # {}, NEW R,
           \A x, y \in S : x = y \/ <<x, y>> \in R \/ <<y, x>> \in R,
           \A x, y, z \in S : <<x, y>> \in R /\ <<y, z>> \in R => <<x, z>> \in R
    PROVE  \E x \in S : \A y \in S \ {x} : <<x, y>> \in R
<1> DEFINE First(I) == \E x \in I : \A y \in I \ {x} : <<x, y>> \in R
           T == {n \in Nat : \A I \in SUBSET S : Cardinality(I) = n + 1 => First(I)}
<1>1. \A I \in SUBSET S : IsFiniteSet(I) /\ Cardinality(I) \in Nat
    BY FS_Subset, FS_CardinalityType
<1>2. \A I \in SUBSET S : I # {} => Cardinality(I) # 0
    BY <1>1, FS_EmptySet
<1>3. 0 \in T
    <2> SUFFICES ASSUME NEW I \in SUBSET S, Cardinality(I) = 1 PROVE First(I)
        OBVIOUS
    <2>1. PICK x : I = {x}
        BY <1>1, FS_Singleton
    <2> QED BY <2>1
<1>4. ASSUME NEW n \in Nat, n \in T PROVE n + 1 \in T
    <2> SUFFICES ASSUME NEW I \in SUBSET S, Cardinality(I) = (n + 1) + 1 PROVE First(I)
        OBVIOUS
    <2>1. PICK x \in I : TRUE
        <3>1. Cardinality(I) # 0
            BY <1>1
        <3> QED BY <3>1, FS_EmptySet
    <2>2. I \ {x} \in SUBSET S /\ Cardinality(I \ {x}) = n + 1
        BY <1>1, <2>1, FS_RemoveElement
    <2>3. PICK f \in I \ {x} : \A y \in (I \ {x}) \ {f} : <<f, y>> \in R
        BY <1>4, <2>2
    <2>4. CASE <<f, x>> \in R
        BY <2>3, <2>4
    <2>5. CASE <<x, f>> \in R
        BY <2>1, <2>3, <2>5
    <2> QED BY <2>1, <2>3, <2>4, <2>5
<1> HIDE DEF T
<1>5. \A n \in Nat : n \in T
    BY <1>3, <1>4, Induction
<1>6. Cardinality(S) \in Nat /\ Cardinality(S) # 0
    BY <1>1, <1>2
<1>7. Cardinality(S) - 1 \in T /\ Cardinality(S) = (Cardinality(S) - 1) + 1
    BY <1>5, <1>6
<1> QED BY <1>7 DEF T

LEMMA MinOfTwo ==
    ASSUME NEW a \in Int, NEW b \in Int
    PROVE  /\ Min({a, b}) \in {a, b} /\ Min({a, b}) <= a /\ Min({a, b}) <= b
           /\ Max({a, b}) \in {a, b} /\ Max({a, b}) >= a /\ Max({a, b}) >= b
<1>1. (\E x \in {a, b} : \A y \in {a, b} : x <= y) /\ (\E x \in {a, b} : \A y \in {a, b} : x >= y)
    OBVIOUS
<1> QED BY <1>1 DEF Min, Max

\* Of n blocks or more, Lowest takes n.
LEMMA LowestTakes ==
    ASSUME NEW S \in SUBSET KVBlock, NEW n \in Nat, n <= Cardinality(S)
    PROVE  /\ Lowest(S, n) \subseteq S /\ IsFiniteSet(Lowest(S, n))
           /\ Cardinality(Lowest(S, n)) = n
<1> DEFINE Below(b) == {c \in S : c < b}
           T == {k \in Nat : k <= Cardinality(S) => Cardinality(Lowest(S, k)) = k}
<1>0. S \subseteq Nat /\ IsFiniteSet(KVBlock)
    BY SchedulerAssumption, FS_Interval DEF KVBlock
<1>1. IsFiniteSet(S) /\ Cardinality(S) \in Nat
    BY <1>0, FS_Subset, FS_CardinalityType
<1>2. \A I \in SUBSET S : IsFiniteSet(I) /\ Cardinality(I) \in Nat /\ Cardinality(I) <= Cardinality(S)
    BY <1>1, FS_Subset, FS_CardinalityType
<1>3. \A k : Lowest(S, k) = {b \in S : Cardinality(Below(b)) < k} /\ Lowest(S, k) \in SUBSET S
    BY DEF Lowest
<1>4. \A b : Below(b) \in SUBSET S
    OBVIOUS
<1>5. \A I, J \in SUBSET S : I \subseteq J => Cardinality(I) <= Cardinality(J)
    BY <1>2, FS_Subset
<1> HIDE DEF Below
<1>6. 0 \in T
    <2>1. Lowest(S, 0) = {}
        BY <1>2, <1>3, <1>4
    <2> QED BY <2>1, FS_EmptySet
<1>7. ASSUME NEW k \in Nat, k \in T PROVE k + 1 \in T
    <2> SUFFICES ASSUME k + 1 <= Cardinality(S) PROVE Cardinality(Lowest(S, k + 1)) = k + 1
        OBVIOUS
    <2> DEFINE L == Lowest(S, k)
    <2>1. Cardinality(L) = k /\ L \in SUBSET S
        BY <1>1, <1>3, <1>7
    <2>2. S \ L # {}
        BY <2>1, <1>1
    <2>3. PICK m \in S \ L : \A c \in S \ L : m <= c
        BY <1>0, <2>2, Least
    <2>4. Below(m) = L
        <3>0. S \subseteq Nat /\ L \subseteq Nat /\ m \in Nat
            BY <1>0, <2>1, <2>3
        <3>1. \A c \in S : c < m => c \in L
            BY <3>0, <2>3
        <3>2. ASSUME NEW c \in L PROVE c < m
            <4>1. CASE m < c
                <5>1. Below(m) \subseteq Below(c)
                    <6>1. \A x \in S : x < m => x < c
                        BY <3>0, <4>1
                    <6> QED BY <6>1 DEF Below
                <5>2. Cardinality(Below(c)) < k
                    BY <1>3, <3>2
                <5>3. Cardinality(Below(m)) < k
                    BY <1>2, <1>4, <1>5, <5>1, <5>2
                <5> QED BY <1>3, <2>3, <5>3
            <4>2. c # m
                BY <2>3, <3>2
            <4> QED BY <4>1, <4>2, <3>0, <3>2
        <3> QED BY <3>1, <3>2, <2>1 DEF Below
    <2>5. m \in Lowest(S, k + 1)
        BY <1>3, <2>1, <2>3, <2>4
    <2>6. L \subseteq Lowest(S, k + 1)
        BY <1>2, <1>3, <1>4
    <2>7. ASSUME NEW b \in Lowest(S, k + 1) PROVE b \in L \cup {m}
        <3>1. CASE b \in S /\ b \notin L /\ b # m
            <4>1. m < b
                BY <1>0, <2>3, <3>1
            <4>2. L \cup {m} \subseteq Below(b)
                <5>0. S \subseteq Nat /\ L \subseteq S /\ m \in S /\ b \in S
                    BY <1>0, <2>1, <2>3, <3>1
                <5>1. \A c \in L : c < m
                    BY <2>4 DEF Below
                <5>2. \A c \in L \cup {m} : c \in S /\ c < b
                    <6>1. \A c \in L : c < b
                        BY <4>1, <5>0, <5>1
                    <6> QED BY <4>1, <5>0, <6>1
                <5> QED BY <5>2 DEF Below
            <4>3. Cardinality(L \cup {m}) = k + 1
                BY <2>1, <2>3, <1>2, FS_AddElement
            <4>4. k + 1 <= Cardinality(Below(b))
                BY <4>2, <4>3, <1>4, <1>5, <2>1, <2>3
            <4>5. Cardinality(Below(b)) < k + 1 /\ Cardinality(Below(b)) \in Nat
                BY <1>2, <1>3, <1>4, <2>7
            <4> QED BY <4>4, <4>5
        <3> QED BY <3>1, <1>3, <2>7
    <2>8. Lowest(S, k + 1) = L \cup {m}
        BY <2>5, <2>6, <2>7
    <2> QED BY <2>1, <2>3, <2>8, <1>2, FS_AddElement
<1> HIDE DEF T
<1>8. n \in T
    BY <1>6, <1>7, Induction
<1> QED BY <1>2, <1>3, <1>8 DEF T

-----------------------------------------------------------------------------
(* Sequences. *)

LEMMA Elements ==
    ASSUME NEW S, NEW s \in Seq(S)
    PROVE  /\ DOMAIN s = 1 .. Len(s) /\ Len(s) \in Nat
           /\ \A i \in 1 .. Len(s) : s[i] \in S /\ s[i] \in ToSet(s)
           /\ ToSet(s) \subseteq S
           /\ \A x : x \in ToSet(s) <=> \E i \in 1 .. Len(s) : s[i] = x
<1>1. DOMAIN s = 1 .. Len(s) /\ Len(s) \in Nat /\ s \in [1 .. Len(s) -> S]
    BY LenProperties
<1> QED BY <1>1 DEF ToSet

\* A sequence without repetition is extended by an element it does not have.
LEMMA Appended ==
    ASSUME NEW S, NEW s \in Seq(S), NEW e \in S
    PROVE  /\ Append(s, e) \in Seq(S) /\ Len(Append(s, e)) = Len(s) + 1
           /\ ToSet(Append(s, e)) = ToSet(s) \cup {e}
           /\ IsInjective(s) /\ e \notin ToSet(s) => IsInjective(Append(s, e))
<1> DEFINE t == Append(s, e)
           n == Len(s)
<1>1. /\ t \in Seq(S) /\ Len(t) = n + 1 /\ n \in Nat
      /\ \A i \in 1 .. n : t[i] = s[i]
      /\ t[n + 1] = e
    BY AppendProperties, Elements
<1>2. /\ DOMAIN t = 1 .. n + 1 /\ DOMAIN s = 1 .. n
      /\ \A x : x \in ToSet(t) <=> \E i \in 1 .. n + 1 : t[i] = x
      /\ \A x : x \in ToSet(s) <=> \E i \in 1 .. n : s[i] = x
    <2>1. DOMAIN s = 1 .. n /\ \A x : x \in ToSet(s) <=> \E i \in 1 .. n : s[i] = x
        BY Elements
    <2> HIDE DEF t
    <2>2. DOMAIN t = 1 .. Len(t) /\ \A x : x \in ToSet(t) <=> \E i \in 1 .. Len(t) : t[i] = x
        BY <1>1, Elements
    <2> QED BY <1>1, <2>1, <2>2
<1> HIDE DEF t, n
<1>3. \A i \in 1 .. n + 1 : i \in 1 .. n \/ i = n + 1
    BY <1>1
<1>4. \A i \in 1 .. n : i \in 1 .. n + 1
    BY <1>1
<1>5. n + 1 \in 1 .. n + 1
    BY <1>1
<1>6. ToSet(t) = ToSet(s) \cup {e}
    BY <1>1, <1>2, <1>3, <1>4, <1>5
<1>7. ASSUME IsInjective(s), e \notin ToSet(s), NEW i \in 1 .. n + 1, NEW j \in 1 .. n + 1, t[i] = t[j]
      PROVE  i = j
    <2>1. \A k, m \in 1 .. n : s[k] = s[m] => k = m
        BY <1>2, <1>7 DEF IsInjective
    <2> QED BY <1>1, <1>2, <1>3, <1>7, <2>1
<1> QED BY <1>1, <1>2, <1>6, <1>7 DEF IsInjective, t, n

LEMMA Joined ==
    ASSUME NEW S, NEW s \in Seq(S), NEW t \in Seq(S)
    PROVE  /\ s \o t \in Seq(S)
           /\ ToSet(s \o t) = ToSet(s) \cup ToSet(t)
           /\ IsInjective(s) /\ IsInjective(t) /\ ToSet(s) \cap ToSet(t) = {} => IsInjective(s \o t)
<1> DEFINE u == s \o t
           m == Len(s)
           n == Len(t)
<1>1. /\ m \in Nat /\ n \in Nat /\ DOMAIN s = 1 .. m /\ DOMAIN t = 1 .. n
      /\ \A x : x \in ToSet(s) <=> \E i \in 1 .. m : s[i] = x
      /\ \A x : x \in ToSet(t) <=> \E i \in 1 .. n : t[i] = x
    BY Elements
<1>2. /\ u \in Seq(S) /\ Len(u) = m + n
      /\ \A i \in 1 .. m + n : u[i] = IF i <= m THEN s[i] ELSE t[i - m]
    BY ConcatProperties
<1>3. DOMAIN u = 1 .. m + n /\ \A x : x \in ToSet(u) <=> \E i \in 1 .. m + n : u[i] = x
    BY <1>2, Elements
<1> HIDE DEF u, m, n
<1>4. \A i \in 1 .. m : i \in 1 .. m + n /\ u[i] = s[i]
    BY <1>1, <1>2
<1>5. \A i \in 1 .. n : m + i \in 1 .. m + n /\ u[m + i] = t[i]
    <2> SUFFICES ASSUME NEW i \in 1 .. n PROVE m + i \in 1 .. m + n /\ u[m + i] = t[i]
        OBVIOUS
    <2>1. m + i \in 1 .. m + n /\ ~(m + i <= m) /\ (m + i) - m = i
        BY <1>1
    <2> QED BY <1>2, <2>1
<1>6. \A i \in 1 .. m + n : \/ i \in 1 .. m /\ u[i] = s[i]
                            \/ i - m \in 1 .. n /\ i = m + (i - m) /\ u[i] = t[i - m]
    BY <1>1, <1>2
<1>7. ToSet(u) = ToSet(s) \cup ToSet(t)
    BY <1>1, <1>3, <1>4, <1>5, <1>6
<1>8. ASSUME IsInjective(s), IsInjective(t), ToSet(s) \cap ToSet(t) = {},
             NEW i \in 1 .. m + n, NEW j \in 1 .. m + n, u[i] = u[j]
      PROVE  i = j
    <2>1. /\ \A a, b \in 1 .. m : s[a] = s[b] => a = b
          /\ \A a, b \in 1 .. n : t[a] = t[b] => a = b
          /\ \A a \in 1 .. m, b \in 1 .. n : s[a] # t[b]
        BY <1>1, <1>8 DEF IsInjective
    <2>2. CASE i \in 1 .. m /\ u[i] = s[i]
        <3>1. j \in 1 .. m /\ u[j] = s[j]
            BY <1>6, <1>8, <2>1, <2>2
        <3> QED BY <1>8, <2>1, <2>2, <3>1
    <2>3. CASE i - m \in 1 .. n /\ i = m + (i - m) /\ u[i] = t[i - m]
        <3>1. j - m \in 1 .. n /\ j = m + (j - m) /\ u[j] = t[j - m]
            BY <1>6, <1>8, <2>1, <2>3
        <3>2. i - m = j - m
            BY <1>8, <2>1, <2>3, <3>1
        <3> QED BY <2>3, <3>1, <3>2
    <2> QED BY <1>6, <2>2, <2>3
<1> QED BY <1>2, <1>3, <1>7, <1>8 DEF IsInjective, u

LEMMA Listed ==
    ASSUME NEW S, NEW R \in SUBSET S, IsFiniteSet(R)
    PROVE  /\ SetToSeq(R) \in Seq(S) /\ ToSet(SetToSeq(R)) = R /\ IsInjective(SetToSeq(R))
<1> DEFINE n == Cardinality(R)
           s == SetToSeq(R)
<1>1. n \in Nat /\ ExistsBijection(1 .. n, R)
    BY FS_CardinalityType
<1>2. PICK f \in [1 .. n -> R] : IsInjective(f)
    BY <1>1 DEF ExistsBijection, Bijection, Injection
<1>3. s \in [1 .. n -> R] /\ IsInjective(s)
    BY <1>2 DEF SetToSeq
<1>4. IsFiniteSet(1 .. n) /\ Cardinality(1 .. n) = n
    BY <1>1, FS_Interval
<1> HIDE DEF s
<1>5. s \in Surjection(1 .. n, R)
    <2>1. s \in Injection(1 .. n, R)
        BY <1>3 DEF Injection
    <2> HIDE DEF n
    <2> QED BY <1>4, <2>1, FS_Injection DEF n
<1>6. ToSet(s) = R
    BY <1>3, <1>5 DEF Surjection, ToSet
<1>7. s \in Seq(S)
    BY <1>1, <1>3, SeqDef
<1> QED BY <1>3, <1>6, <1>7 DEF s

\* Without is what its turns make of the empty sequence.
LEMMA WithoutTurns ==
    ASSUME NEW s, NEW S, NEW n \in Nat, Len(s) = n
    PROVE  \E run : /\ run[0] = <<>>
                    /\ \A i \in 1 .. n : run[i] = IF s[i] \in S THEN run[i - 1] ELSE Append(run[i - 1], s[i])
                    /\ Without(s, S) = run[n]
<1> DEFINE Turn(t, i) == IF s[i] \in S THEN t ELSE Append(t, s[i])
           Run(a, m) == a = [i \in 0 .. m |-> IF i = 0 THEN <<>> ELSE Turn(a[i - 1], i)]
           T == {m \in Nat : \E a : Run(a, m)}
<1>0. Without(s, S) = (CHOOSE a : Run(a, n))[n]
    BY DEF Without, Turns
<1> HIDE DEF Turn
<1>1. 0 \in T
    <2> DEFINE a == [i \in 0 .. 0 |-> <<>>]
    <2>1. Run(a, 0)
        OBVIOUS
    <2> QED BY <2>1
<1>2. ASSUME NEW m \in Nat, m \in T PROVE m + 1 \in T
    <2>1. PICK a : Run(a, m)
        BY <1>2
    <2> DEFINE b == [i \in 0 .. m + 1 |-> IF i <= m THEN a[i] ELSE Turn(a[m], i)]
    <2>2. ASSUME NEW i \in 0 .. m + 1 PROVE b[i] = IF i = 0 THEN <<>> ELSE Turn(b[i - 1], i)
        <3>1. CASE i = 0
            BY <3>1, <2>1
        <3>2. CASE i # 0 /\ i <= m
            BY <3>2, <2>1
        <3>3. CASE i = m + 1
            BY <3>3
        <3> QED BY <3>1, <3>2, <3>3
    <2>3. Run(b, m + 1)
        BY <2>2
    <2> HIDE DEF b, Run
    <2> QED BY <2>3
<1> HIDE DEF T
<1>3. n \in T
    BY <1>1, <1>2, Induction
<1>4. \E a : Run(a, n)
    BY <1>3 DEF T
<1> DEFINE run == CHOOSE a : Run(a, n)
<1>5. Run(run, n)
    <2> HIDE DEF Run
    <2> QED BY <1>4
<1>6. Without(s, S) = run[n]
    BY <1>0
<1> HIDE DEF run
<1>7. /\ run[0] = <<>>
      /\ \A i \in 1 .. n : run[i] = Turn(run[i - 1], i)
    BY <1>5
<1> QED BY <1>6, <1>7 DEF Turn

\* What is left of a sequence: the other elements, none twice if none was.
LEMMA WithoutIs ==
    ASSUME NEW E, NEW s \in Seq(E), NEW S
    PROVE  /\ Without(s, S) \in Seq(E)
           /\ ToSet(Without(s, S)) = ToSet(s) \ S
           /\ IsInjective(s) => IsInjective(Without(s, S))
<1> DEFINE n == Len(s)
           Upto(i) == {s[j] : j \in 1 .. i}
<1>1. /\ n \in Nat /\ Len(s) = n /\ DOMAIN s = 1 .. n /\ \A i \in 1 .. n : s[i] \in E
      /\ ToSet(s) = Upto(n)
    BY Elements DEF ToSet
<1> HIDE DEF n
<1>2. PICK run : /\ run[0] = <<>>
                 /\ \A i \in 1 .. n : run[i] = IF s[i] \in S THEN run[i - 1] ELSE Append(run[i - 1], s[i])
                 /\ Without(s, S) = run[n]
    BY <1>1, WithoutTurns
<1> DEFINE T == {i \in 0 .. n : /\ run[i] \in Seq(E)
                                /\ ToSet(run[i]) = Upto(i) \ S
                                /\ IsInjective(s) => IsInjective(run[i])}
<1>3. 0 \in T
    <2>1. <<>> \in Seq(E) /\ ToSet(<<>>) = {} /\ IsInjective(<<>>) /\ Upto(0) = {}
        BY DEF ToSet, IsInjective
    <2> HIDE DEF Upto
    <2>2. 0 \in 0 .. n
        BY <1>1
    <2> QED BY <1>2, <2>1, <2>2
<1>4. ASSUME NEW i \in 1 .. n, i - 1 \in T PROVE i \in T
    <2>1. Upto(i) = Upto(i - 1) \cup {s[i]}
        <3>1. \A j \in 1 .. i : j \in 1 .. i - 1 \/ j = i
            BY <1>1
        <3>2. \A j \in 1 .. i - 1 : j \in 1 .. i
            BY <1>1
        <3> QED BY <3>1, <3>2
    <2>2. s[i] \in E
        BY <1>1
    <2>3. IsInjective(s) => s[i] \notin Upto(i - 1)
        BY <1>1 DEF IsInjective
    <2> HIDE DEF Upto
    <2>4. /\ run[i - 1] \in Seq(E) /\ ToSet(run[i - 1]) = Upto(i - 1) \ S
          /\ IsInjective(s) => IsInjective(run[i - 1])
        BY <1>4
    <2>5. CASE s[i] \in S
        BY <1>2, <2>1, <2>4, <2>5
    <2>6. CASE s[i] \notin S
        <3>1. run[i] = Append(run[i - 1], s[i])
            BY <1>2, <2>6
        <3>2. /\ run[i] \in Seq(E)
              /\ ToSet(run[i]) = ToSet(run[i - 1]) \cup {s[i]}
              /\ IsInjective(run[i - 1]) /\ s[i] \notin ToSet(run[i - 1]) => IsInjective(run[i])
            BY <2>2, <2>4, <3>1, Appended
        <3> QED BY <2>1, <2>3, <2>4, <2>6, <3>2
    <2> QED BY <2>5, <2>6
<1> HIDE DEF T
<1>5. n \in T
    BY <1>1, <1>3, <1>4, LoopInduction
<1> QED BY <1>1, <1>2, <1>5 DEF T

-----------------------------------------------------------------------------
(* What is kept by the operations.                                          *)

\* Every request is in one queue, once; its status says which, and what
\* preemption has saved of it is there exactly while it does not run.
Queues(s) ==
    /\ IsInjective(s.running) /\ IsInjective(s.preempted) /\ IsInjective(s.finished)
    /\ \A r \in Request :
        /\ r \in s.heap <=> s.req[r].status = "pending"
        /\ s.req[r].status = "preempted" => r \in ToSet(s.preempted)
        /\ r \in ToSet(s.running) =>
              /\ s.req[r].status \in {"running", "finished"} /\ s.req[r].saved = NoSave
              /\ r \notin ToSet(s.preempted) \cup ToSet(s.finished)
        /\ r \in ToSet(s.preempted) =>
              /\ s.req[r].status \in {"preempted", "finished"} /\ s.req[r].saved # NoSave
              /\ r \notin ToSet(s.finished)
        /\ r \in ToSet(s.finished) => s.req[r].status = "finished"
        /\ s.req[r].status \in {"new", "pending"} /\ s.req[r].saved = NoSave => s.req[r].out = <<>>

Disjoint(s) ==
    \A r \in Request :
        /\ s.req[r].blocks \cap s.free = {}
        /\ \A q \in Request \ {r} : s.req[r].blocks \cap s.req[q].blocks = {}

Sound(s) == s \in SchedulerType /\ Queues(s) /\ Disjoint(s)

\* Request r goes on only with the blocks it needs.
Enough(s, r) == ~IsFinished(s, r) => Cardinality(s.req[r].blocks) >= BlocksFor(Total(s, r))
Suffice(s)   == \A r \in ToSet(s.running) : Enough(s, r)

\* No block is lost, and only running requests have any.
Conserved(s) ==
    /\ KVBlock \subseteq s.free \cup UNION {s.req[r].blocks : r \in Request}
    /\ \A r \in Request : r \notin ToSet(s.running) => s.req[r].blocks = {}

\* No request is made, forgotten, or loses anything of its work.
SameWork(s, t) ==
    \A r \in Request :
        /\ Kept(t.req[r]) = Kept(s.req[r])
        /\ t.req[r].status = "new" <=> s.req[r].status = "new"

\* The requests that have not finished, and those of them that wait.
Live(s)    == s.heap \cup ToSet(s.preempted) \cup ToSet(s.running)
Waiting(s) == s.heap \cup ToSet(s.preempted)

\* Request r has generated all it may.
Ended(s, r) ==
    LET out == Kept(s.req[r]).out IN Len(out) >= MaxNew[r] \/ (out # <<>> /\ Last(out) = "eos")

LEMMA Types ==
    ASSUME NEW s \in SchedulerType
    PROVE  /\ s.heap \in SUBSET Request /\ s.free \in SUBSET KVBlock
           /\ s.running \in Seq(Request) /\ s.preempted \in Seq(Request) /\ s.finished \in Seq(Request)
           /\ ToSet(s.running) \subseteq Request /\ ToSet(s.preempted) \subseteq Request
           /\ ToSet(s.finished) \subseteq Request
           /\ s.req \in [Request -> RequestType]
<1>1. /\ s.heap \in SUBSET Request /\ s.free \in SUBSET KVBlock
      /\ s.running \in Seq(Request) /\ s.preempted \in Seq(Request) /\ s.finished \in Seq(Request)
      /\ s.req \in [Request -> RequestType]
    BY DEF SchedulerType
<1> QED BY <1>1, Elements

LEMMA RequestTypes ==
    ASSUME NEW q \in RequestType
    PROVE  /\ q.status \in {"new", "pending", "running", "preempted", "finished"}
           /\ q.prio \in Int /\ q.blocks \in SUBSET KVBlock /\ q.out \in Seq(Token) /\ q.prog \in Nat
           /\ q.saved \in [out : Seq(Token), prog : Nat] \cup {NoSave}
           /\ IsFiniteSet(q.blocks) /\ Cardinality(q.blocks) \in Nat
           /\ Len(q.out) \in Nat
           /\ Kept(q) \in [out : Seq(Token), prog : Nat] /\ Kept(q) # NoSave
<1>1. /\ q.status \in {"new", "pending", "running", "preempted", "finished"}
      /\ q.prio \in Int /\ q.blocks \in SUBSET KVBlock /\ q.out \in Seq(Token) /\ q.prog \in Nat
      /\ q.saved \in [out : Seq(Token), prog : Nat] \cup {NoSave}
    BY DEF RequestType
<1>2. IsFiniteSet(KVBlock)
    BY SchedulerAssumption, FS_Interval DEF KVBlock
<1>3. IsFiniteSet(q.blocks) /\ Cardinality(q.blocks) \in Nat
    BY <1>1, <1>2, FS_Subset, FS_CardinalityType
<1>4. Kept(q) \in [out : Seq(Token), prog : Nat]
    BY <1>1 DEF Kept
<1>5. \A k \in [out : Seq(Token), prog : Nat] : k # NoSave
    <2> SUFFICES ASSUME NEW k \in [out : Seq(Token), prog : Nat], k = NoSave PROVE FALSE
        OBVIOUS
    <2>1. k.out \in Seq(Token) /\ k.out = <<"none">>
        BY DEF NoSave
    <2>2. Len(k.out) = 1 /\ k.out[1] = "none"
        BY <2>1
    <2>3. k.out[1] \in Token
        BY <2>1, <2>2, Elements
    <2> QED BY <2>2, <2>3 DEF Token
<1> QED BY <1>1, <1>3, <1>4, <1>5

-----------------------------------------------------------------------------
(* Preemption. *)

\* What preemptions make of s: running requests move to preempted with their
\* work saved and without their blocks; nothing else changes.
Preempts(s, t) ==
    /\ Sound(t)
    /\ t.heap = s.heap /\ t.finished = s.finished
    /\ ToSet(t.running) \subseteq ToSet(s.running)
    /\ ToSet(t.preempted) \subseteq ToSet(s.preempted) \cup ToSet(s.running)
    /\ \A r \in Request : r \in ToSet(t.running) \/ r \notin ToSet(s.running) => t.req[r] = s.req[r]
    /\ SameWork(s, t)
    /\ Conserved(s) => Conserved(t)
    /\ Len(s.preempted) <= Len(t.preempted)
    /\ Len(s.preempted) = Len(t.preempted) => t = s

\* One preemption of a running request is of this kind.
LEMMA PreemptOnePreempts ==
    ASSUME NEW s, Sound(s), NEW r \in ToSet(s.running)
    PROVE  Preempts(s, PreemptOne(s, r))
<1> DEFINE q == s.req[r]
<1>1. /\ s \in SchedulerType /\ r \in Request /\ q \in RequestType
      /\ s.running \in Seq(Request) /\ s.preempted \in Seq(Request)
      /\ Queues(s) /\ Disjoint(s)
    BY Types DEF Sound
<1>0. SUFFICES ASSUME NEW t, t = PreemptOne(s, r) PROVE Preempts(s, t)
    OBVIOUS
<1>2. /\ t \in SchedulerType /\ t.heap = s.heap /\ t.finished = s.finished
      /\ t.free = s.free \cup q.blocks
      /\ t.running = Without(s.running, {r}) /\ t.preempted = Append(s.preempted, r)
      /\ \A p \in Request \ {r} : t.req[p] = s.req[p]
      /\ t.req[r].status = "preempted" /\ t.req[r].blocks = {}
      /\ t.req[r].saved \in [out : Seq(Token), prog : Nat]
      /\ t.req[r].saved.out = q.out /\ t.req[r].saved.prog = q.prog
    <2> DEFINE p == [q EXCEPT !.status = "preempted", !.blocks = {}, !.out = <<>>, !.prog = 0,
                              !.saved = [out |-> q.out, prog |-> q.prog]]
    <2>1. /\ s.req \in [Request -> RequestType] /\ q \in RequestType /\ s.free \in SUBSET KVBlock
          /\ s.running \in Seq(Request) /\ s.preempted \in Seq(Request)
        BY <1>1, Types
    <2>2. p \in RequestType
        <3>1. [out |-> q.out, prog |-> q.prog] \in [out : Seq(Token), prog : Nat]
            BY <2>1, RequestTypes
        <3>2. <<>> \in Seq(Token) /\ 0 \in Nat /\ {} \in SUBSET KVBlock
            OBVIOUS
        <3> QED BY <2>1, <3>1, <3>2 DEF RequestType
    <2>3. /\ p.status = "preempted" /\ p.blocks = {}
          /\ p.saved \in [out : Seq(Token), prog : Nat]
          /\ p.saved.out = q.out /\ p.saved.prog = q.prog
        BY <2>1 DEF RequestType
    <2>4. t = [s EXCEPT !.free = @ \cup q.blocks, !.req[r] = p, !.running = Without(@, {r}),
                        !.preempted = Append(@, r)]
        BY <1>0 DEF PreemptOne
    <2> HIDE DEF p
    <2>5. Without(s.running, {r}) \in Seq(Request) /\ Append(s.preempted, r) \in Seq(Request)
        BY <1>1, WithoutIs, Appended
    <2>6. s.free \cup q.blocks \in SUBSET KVBlock
        BY <2>1, RequestTypes
    <2>7. /\ t.heap = s.heap /\ t.finished = s.finished
          /\ t.free = s.free \cup q.blocks
          /\ t.running = Without(s.running, {r}) /\ t.preempted = Append(s.preempted, r)
          /\ t.req = [s.req EXCEPT ![r] = p]
        BY <2>4 DEF SchedulerType
    <2>8. t \in SchedulerType
        <3> DEFINE free == s.free \cup q.blocks
                   req == [s.req EXCEPT ![r] = p]
                   running == Without(s.running, {r})
                   preempted == Append(s.preempted, r)
        <3>1. t = [s EXCEPT !.free = free, !.req = req, !.running = running, !.preempted = preempted]
            BY <2>4 DEF SchedulerType
        <3>2. free \in SUBSET KVBlock /\ running \in Seq(Request) /\ preempted \in Seq(Request)
            BY <2>5, <2>6
        <3>3. req \in [Request -> RequestType]
            BY <2>1, <2>2
        <3> HIDE DEF free, req, running, preempted
        <3> QED BY <1>1, <3>1, <3>2, <3>3 DEF SchedulerType
    <2>9. t.req[r] = p /\ \A a \in Request \ {r} : t.req[a] = s.req[a]
        BY <1>1, <2>1, <2>7
    <2> QED BY <2>3, <2>7, <2>8, <2>9
<1>3. /\ ToSet(t.running) = ToSet(s.running) \ {r}
      /\ IsInjective(s.running) => IsInjective(t.running)
    BY <1>1, <1>2, WithoutIs
<1>4. /\ ToSet(t.preempted) = ToSet(s.preempted) \cup {r}
      /\ Len(t.preempted) = Len(s.preempted) + 1
      /\ IsInjective(s.preempted) /\ r \notin ToSet(s.preempted) => IsInjective(t.preempted)
    BY <1>1, <1>2, Appended
<1>5. /\ q.saved = NoSave /\ q.status \in {"running", "finished"}
      /\ r \notin ToSet(s.preempted) \cup ToSet(s.finished)
    BY <1>1 DEF Queues
<1>6. Kept(t.req[r]) = Kept(q) /\ t.req[r].saved # NoSave
    <2>1. Kept(q) = [out |-> q.out, prog |-> q.prog] /\ Kept(q) # NoSave
        BY <1>1, <1>5, RequestTypes DEF Kept
    <2>2. t.req[r].saved = [out |-> q.out, prog |-> q.prog]
        BY <1>2
    <2> QED BY <2>1, <2>2 DEF Kept
<1> HIDE DEF q
<1>7. Queues(t)
    <2>1. /\ IsInjective(t.running) /\ IsInjective(t.preempted) /\ IsInjective(t.finished)
        BY <1>1, <1>2, <1>3, <1>4, <1>5 DEF Queues
    <2>2. ASSUME NEW p \in Request, p # r PROVE
          /\ t.req[p] = s.req[p]
          /\ p \in t.heap <=> p \in s.heap
          /\ p \in ToSet(t.running) <=> p \in ToSet(s.running)
          /\ p \in ToSet(t.preempted) <=> p \in ToSet(s.preempted)
          /\ p \in ToSet(t.finished) <=> p \in ToSet(s.finished)
        BY <1>2, <1>3, <1>4, <2>2
    <2>3. /\ r \notin t.heap /\ r \notin ToSet(t.running) /\ r \in ToSet(t.preempted)
          /\ r \notin ToSet(t.finished)
        BY <1>1, <1>2, <1>3, <1>4, <1>5 DEF Queues, q
    <2>4. ASSUME NEW p \in Request PROVE
          /\ p \in t.heap <=> t.req[p].status = "pending"
          /\ t.req[p].status = "preempted" => p \in ToSet(t.preempted)
          /\ p \in ToSet(t.running) =>
                /\ t.req[p].status \in {"running", "finished"} /\ t.req[p].saved = NoSave
                /\ p \notin ToSet(t.preempted) \cup ToSet(t.finished)
          /\ p \in ToSet(t.preempted) =>
                /\ t.req[p].status \in {"preempted", "finished"} /\ t.req[p].saved # NoSave
                /\ p \notin ToSet(t.finished)
          /\ p \in ToSet(t.finished) => t.req[p].status = "finished"
          /\ t.req[p].status \in {"new", "pending"} /\ t.req[p].saved = NoSave => t.req[p].out = <<>>
        <3>1. CASE p = r
            BY <1>2, <1>6, <2>3, <3>1
        <3>2. CASE p # r
            BY <1>1, <2>2, <3>2 DEF Queues
        <3> QED BY <3>1, <3>2
    <2> QED BY <2>1, <2>4 DEF Queues
<1>8. Disjoint(t)
    <2>0. SUFFICES ASSUME NEW a \in Request
                   PROVE  /\ t.req[a].blocks \cap t.free = {}
                          /\ \A b \in Request \ {a} : t.req[a].blocks \cap t.req[b].blocks = {}
        BY Zenon DEF Disjoint
    <2> SUFFICES ASSUME NEW b \in Request
                 PROVE  /\ t.req[a].blocks \cap t.free = {}
                        /\ b # a => t.req[a].blocks \cap t.req[b].blocks = {}
        BY <1>1
    <2>1. /\ s.req[a].blocks \cap s.free = {}
          /\ b # a => s.req[a].blocks \cap s.req[b].blocks = {}
          /\ a # r => s.req[a].blocks \cap q.blocks = {}
        <3>1. s.req[a].blocks \cap s.free = {} /\ \A x \in Request \ {a} : s.req[a].blocks \cap s.req[x].blocks = {}
            BY <1>1, <2>0, Zenon DEF Disjoint
        <3> QED BY <1>1, <3>1 DEF q
    <2>2. t.req[a].blocks = IF a = r THEN {} ELSE s.req[a].blocks
        BY <1>2
    <2>3. t.req[b].blocks = IF b = r THEN {} ELSE s.req[b].blocks
        BY <1>2
    <2>4. t.free = s.free \cup q.blocks
        BY <1>2 DEF q
    <2> HIDE DEF q
    <2> QED BY ONLY <2>1, <2>2, <2>3, <2>4
<1>9. SameWork(s, t)
    BY <1>2, <1>5, <1>6 DEF SameWork, q
<1>10. ASSUME Conserved(s) PROVE Conserved(t)
    <2>1. ASSUME NEW b \in KVBlock PROVE b \in t.free \cup UNION {t.req[p].blocks : p \in Request}
        <3>1. CASE b \in s.free
            BY <3>1, <1>2
        <3>2. ASSUME NEW p \in Request, b \in s.req[p].blocks PROVE b \in t.free \cup t.req[p].blocks
            BY <3>2, <1>2 DEF q
        <3> QED BY <1>10, <3>1, <3>2 DEF Conserved
    <2>2. \A p \in Request : p \notin ToSet(t.running) => t.req[p].blocks = {}
        BY <1>10, <1>2, <1>3 DEF Conserved
    <2> QED BY <2>1, <2>2 DEF Conserved
<1>11. \A p \in Request : p \in ToSet(t.running) \/ p \notin ToSet(s.running) => t.req[p] = s.req[p]
    BY <1>2, <1>3
<1>12. Len(s.preempted) \in Nat
    BY <1>1, Elements
<1>13. r \in ToSet(s.running)
    OBVIOUS
<1> HIDE DEF q
<1>14. QED
    <2>1. Sound(t)
        BY <1>2, <1>7, <1>8 DEF Sound
    <2>2. /\ ToSet(t.running) \subseteq ToSet(s.running)
          /\ ToSet(t.preempted) \subseteq ToSet(s.preempted) \cup ToSet(s.running)
        BY <1>3, <1>4, <1>13
    <2>3. Len(s.preempted) <= Len(t.preempted) /\ Len(s.preempted) # Len(t.preempted)
        BY <1>4, <1>12
    <2> QED BY <1>2, <1>9, <1>10, <1>11, <2>1, <2>2, <2>3 DEF Preempts

LEMMA PreemptsNobody ==
    ASSUME NEW s, Sound(s)
    PROVE  Preempts(s, s)
<1>1. Len(s.preempted) \in Nat
    BY Types, Elements DEF Sound
<1> QED BY <1>1 DEF Preempts, SameWork

LEMMA PreemptsMore ==
    ASSUME NEW s, NEW t, NEW u, Sound(s), Preempts(s, t), Preempts(t, u)
    PROVE  Preempts(s, u)
<1>1. Len(s.preempted) \in Nat /\ Len(t.preempted) \in Nat /\ Len(u.preempted) \in Nat
    BY Types, Elements DEF Sound, Preempts
<1>2. SameWork(s, u)
    BY DEF Preempts, SameWork
<1>3. \A r \in Request : r \in ToSet(u.running) \/ r \notin ToSet(s.running) => u.req[r] = s.req[r]
    BY DEF Preempts
<1>4. /\ ToSet(u.running) \subseteq ToSet(s.running)
      /\ ToSet(u.preempted) \subseteq ToSet(s.preempted) \cup ToSet(s.running)
      /\ u.heap = s.heap /\ u.finished = s.finished /\ Sound(u)
      /\ Conserved(s) => Conserved(u)
    BY DEF Preempts
<1>5. /\ Len(s.preempted) <= Len(u.preempted)
      /\ Len(s.preempted) = Len(u.preempted) => u = s
    BY <1>1 DEF Preempts
<1> QED BY <1>2, <1>3, <1>4, <1>5 DEF Preempts

\* The loop over the candidates always has a next one.
LEMMA NextVictimExists ==
    ASSUME NEW s \in SchedulerType, NEW places \in SUBSET DOMAIN s.running, places # {}
    PROVE  NextVictim(s, places) \in places
<1> DEFINE p(k) == s.req[s.running[k]].prio
           m(k) == Cardinality(s.req[s.running[k]].blocks)
           R == {x \in places \X places : PreemptBefore(s, x[1], x[2])}
<1>1. /\ DOMAIN s.running = 1 .. Len(s.running) /\ Len(s.running) \in Nat
      /\ \A k \in DOMAIN s.running : s.req[s.running[k]] \in RequestType
    BY Types, Elements
<1>2. \A k \in places : p(k) \in Int /\ m(k) \in Nat /\ k \in Nat
    BY <1>1, RequestTypes
<1>3. \A i, j \in places : PreemptBefore(s, i, j) <=>
          p(i) > p(j) \/ (p(i) = p(j) /\ m(i) > m(j)) \/ (p(i) = p(j) /\ m(i) = m(j) /\ i < j)
    BY DEF PreemptBefore
<1> HIDE DEF p, m
<1>4. \A i, j \in places : i = j \/ PreemptBefore(s, i, j) \/ PreemptBefore(s, j, i)
    BY <1>2, <1>3
<1>5. \A i, j, k \in places : PreemptBefore(s, i, j) /\ PreemptBefore(s, j, k) => PreemptBefore(s, i, k)
    BY <1>2, <1>3
<1>6. IsFiniteSet(places)
    <2>1. IsFiniteSet(1 .. Len(s.running))
        BY <1>1, FS_Interval
    <2> QED BY <1>1, <2>1, FS_Subset
<1>7. \A i, j \in places : <<i, j>> \in R <=> PreemptBefore(s, i, j)
    OBVIOUS
<1> HIDE DEF R
<1>8. \E i \in places : \A j \in places \ {i} : <<i, j>> \in R
    <2>1. \A i, j \in places : i = j \/ <<i, j>> \in R \/ <<j, i>> \in R
        BY <1>4, <1>7
    <2>2. \A i, j, k \in places : <<i, j>> \in R /\ <<j, k>> \in R => <<i, k>> \in R
        BY <1>5, <1>7
    <2> QED BY <1>6, <2>1, <2>2, FirstExists
<1>9. \E i \in places : \A j \in places \ {i} : PreemptBefore(s, i, j)
    BY <1>7, <1>8
<1> QED BY <1>9 DEF NextVictim

\* What the loop over the candidates makes of s.
LEMMA TryPreemptTurns ==
    ASSUME NEW s, NEW need, NEW n \in Nat, Len(s.running) = n
    PROVE  \E run : /\ run[0] = [sch |-> s, freed |-> 0, left |-> DOMAIN s.running]
                    /\ \A k \in 1 .. n : run[k] = PreemptTurn(s, need, run[k - 1])
                    /\ TryPreempt(s, need) = IF EnablePreemption /\ s.running # <<>>
                                               THEN [sch |-> run[n].sch, ok |-> run[n].freed >= need]
                                               ELSE [sch |-> s, ok |-> FALSE]
<1> DEFINE Turn(t, i) == PreemptTurn(s, need, t)
           Start == [sch |-> s, freed |-> 0, left |-> DOMAIN s.running]
           Run(a, m) == a = [i \in 0 .. m |-> IF i = 0 THEN Start ELSE Turn(a[i - 1], i)]
           T == {m \in Nat : \E a : Run(a, m)}
<1>0. TryPreempt(s, need) = IF EnablePreemption /\ s.running # <<>>
                               THEN [sch |-> (CHOOSE a : Run(a, n))[n].sch,
                                     ok  |-> (CHOOSE a : Run(a, n))[n].freed >= need]
                               ELSE [sch |-> s, ok |-> FALSE]
    BY DEF TryPreempt, Turns
<1> HIDE DEF Turn, Start
<1>1. 0 \in T
    <2> DEFINE a == [i \in 0 .. 0 |-> Start]
    <2>1. Run(a, 0)
        OBVIOUS
    <2> QED BY <2>1
<1>2. ASSUME NEW m \in Nat, m \in T PROVE m + 1 \in T
    <2>1. PICK a : Run(a, m)
        BY <1>2
    <2> DEFINE b == [i \in 0 .. m + 1 |-> IF i <= m THEN a[i] ELSE Turn(a[m], i)]
    <2>2. ASSUME NEW i \in 0 .. m + 1 PROVE b[i] = IF i = 0 THEN Start ELSE Turn(b[i - 1], i)
        <3>1. CASE i = 0
            BY <3>1, <2>1
        <3>2. CASE i # 0 /\ i <= m
            BY <3>2, <2>1
        <3>3. CASE i = m + 1
            BY <3>3
        <3> QED BY <3>1, <3>2, <3>3
    <2>3. Run(b, m + 1)
        BY <2>2
    <2> HIDE DEF b, Run
    <2> QED BY <2>3
<1> HIDE DEF T
<1>3. n \in T
    BY <1>1, <1>2, Induction
<1>4. \E a : Run(a, n)
    BY <1>3 DEF T
<1> DEFINE run == CHOOSE a : Run(a, n)
<1>5. Run(run, n)
    <2> HIDE DEF Run
    <2> QED BY <1>4
<1>6. TryPreempt(s, need) = IF EnablePreemption /\ s.running # <<>>
                               THEN [sch |-> run[n].sch, ok |-> run[n].freed >= need]
                               ELSE [sch |-> s, ok |-> FALSE]
    BY <1>0
<1> HIDE DEF run
<1>7. /\ run[0] = Start
      /\ \A i \in 1 .. n : run[i] = Turn(run[i - 1], i)
    BY <1>5
<1> QED BY <1>6, <1>7 DEF Turn, Start

\* _try_preempt preempts running requests and does nothing else.
LEMMA TryPreemptPreempts ==
    ASSUME NEW s, Sound(s), NEW need
    PROVE  Preempts(s, TryPreempt(s, need).sch)
<1>1. /\ s \in SchedulerType /\ Len(s.running) \in Nat /\ DOMAIN s.running = 1 .. Len(s.running)
      /\ \A i \in DOMAIN s.running : s.running[i] \in ToSet(s.running)
      /\ IsInjective(s.running)
    BY Types, Elements DEF Sound, Queues
<1> DEFINE n == Len(s.running)
<1>2. PICK run : /\ run[0] = [sch |-> s, freed |-> 0, left |-> DOMAIN s.running]
                 /\ \A k \in 1 .. n : run[k] = PreemptTurn(s, need, run[k - 1])
                 /\ TryPreempt(s, need) = IF EnablePreemption /\ s.running # <<>>
                                            THEN [sch |-> run[n].sch, ok |-> run[n].freed >= need]
                                            ELSE [sch |-> s, ok |-> FALSE]
    BY <1>1, TryPreemptTurns
<1> HIDE DEF n
<1>3. n \in Nat /\ DOMAIN s.running = 1 .. n /\ IsFiniteSet(1 .. n) /\ Cardinality(1 .. n) = n
    BY <1>1, FS_Interval DEF n
<1> DEFINE Holds(st, k) == /\ Preempts(s, st.sch)
                           /\ st.left \in SUBSET (1 .. n) /\ Cardinality(st.left) = n - k
                           /\ \A i \in st.left : s.running[i] \in ToSet(st.sch.running)
           T == {k \in 0 .. n : Holds(run[k], k)}
<1>4. 0 \in T
    <2>1. run[0].sch = s /\ run[0].left = 1 .. n
        BY <1>2, <1>3
    <2>2. Preempts(s, s)
        BY PreemptsNobody
    <2> QED BY <1>1, <1>3, <2>1, <2>2
<1>5. ASSUME NEW k \in 1 .. n, k - 1 \in T PROVE k \in T
    <2> DEFINE st == run[k - 1]
               i  == NextVictim(s, st.left)
               r  == s.running[i]
               keep == st.freed >= need \/ Spared(st.sch, r)
    <2>1. /\ Preempts(s, st.sch)
          /\ st.left \in SUBSET (1 .. n) /\ Cardinality(st.left) = n - (k - 1)
          /\ \A j \in st.left : s.running[j] \in ToSet(st.sch.running)
        BY <1>5
    <2>2. run[k] = [ sch   |-> IF keep THEN st.sch ELSE PreemptOne(st.sch, r),
                     freed |-> IF keep THEN st.freed ELSE st.freed + Cardinality(st.sch.req[r].blocks),
                     left  |-> st.left \ {i} ]
        BY <1>2 DEF PreemptTurn
    <2>3. /\ run[k].sch = IF keep THEN st.sch ELSE PreemptOne(st.sch, r)
          /\ run[k].left = st.left \ {i}
        BY <2>2
    <2> HIDE DEF st, keep, Holds
    <2>4. st.left # {}
        <3>1. Cardinality(st.left) # 0
            BY <1>3, <2>1
        <3> QED BY <3>1, FS_EmptySet
    <2>5. i \in st.left
        BY <1>1, <1>3, <2>1, <2>4, NextVictimExists
    <2> HIDE DEF i
    <2>6. /\ run[k].left \in SUBSET (1 .. n) /\ Cardinality(run[k].left) = n - k
        <3>1. IsFiniteSet(st.left)
            BY <1>3, <2>1, FS_Subset
        <3>2. Cardinality(st.left \ {i}) = Cardinality(st.left) - 1
            BY <2>5, <3>1, FS_RemoveElement
        <3> QED BY <1>3, <2>1, <2>3, <3>2
    <2>7. ASSUME keep PROVE Holds(run[k], k)
        <3>1. run[k].sch = st.sch /\ run[k].left \subseteq st.left
            BY <2>3, <2>7
        <3> QED BY <2>1, <2>6, <3>1 DEF Holds
    <2>8. ASSUME ~keep PROVE Holds(run[k], k)
        <3>1. r \in ToSet(st.sch.running) /\ Sound(st.sch)
            BY <2>1, <2>5 DEF Preempts
        <3>2. Preempts(st.sch, run[k].sch)
            BY <2>3, <2>8, <3>1, PreemptOnePreempts
        <3>3. Preempts(s, run[k].sch)
            BY <2>1, <3>2, PreemptsMore
        <3>4. run[k].sch.running = Without(st.sch.running, {r})
            <4>1. st.sch \in SchedulerType
                BY <3>1 DEF Sound
            <4>2. PreemptOne(st.sch, r).running = Without(st.sch.running, {r})
                BY <4>1 DEF PreemptOne, SchedulerType
            <4> QED BY <2>3, <2>8, <4>2
        <3>5. ToSet(run[k].sch.running) = ToSet(st.sch.running) \ {r}
            BY <3>1, <3>4, Types, WithoutIs DEF Sound
        <3>6. \A j \in run[k].left : s.running[j] # r /\ j \in st.left
            BY <1>1, <1>3, <2>1, <2>3, <2>5 DEF IsInjective
        <3> QED BY <2>1, <2>6, <3>3, <3>5, <3>6 DEF Holds
    <2>9. k \in 0 .. n
        BY <1>3
    <2> QED BY <2>7, <2>8, <2>9
<1> HIDE DEF T
<1>6. n \in T
    BY <1>3, <1>4, <1>5, LoopInduction
<1>7. Preempts(s, run[n].sch)
    BY <1>6 DEF T
<1>8. Preempts(s, s)
    BY PreemptsNobody
<1> QED BY <1>2, <1>7, <1>8

-----------------------------------------------------------------------------
(* The first half of a step. *)

\* What it may do to the scheduler.
Keeps(s, t) ==
    /\ Sound(t) /\ Suffice(t)
    /\ SameWork(s, t)
    /\ Conserved(s) => Conserved(t)
    /\ Live(t) \subseteq Live(s)

LEMMA KeepsMore ==
    ASSUME NEW s, NEW t, NEW u, Keeps(s, t), Keeps(t, u)
    PROVE  Keeps(s, u)
BY DEF Keeps, SameWork

\* Whether a request has enough blocks is its own affair.
LEMMA EnoughIsOwn ==
    ASSUME NEW s, NEW t, NEW r, s.req[r] = t.req[r]
    PROVE  Enough(s, r) <=> Enough(t, r)
BY DEF Enough, IsFinished, StoppedOnToken, Total

LEMMA PreemptsKeeps ==
    ASSUME NEW s, NEW t, Suffice(s), Preempts(s, t), Sound(s)
    PROVE  Keeps(s, t)
<1>1. Suffice(t)
    <2> SUFFICES ASSUME NEW r \in ToSet(t.running) PROVE Enough(t, r)
        BY DEF Suffice
    <2>1. r \in Request
        BY Types DEF Preempts, Sound
    <2>2. r \in ToSet(s.running) /\ s.req[r] = t.req[r]
        BY <2>1 DEF Preempts
    <2>3. Enough(s, r)
        BY <2>2 DEF Suffice
    <2> QED BY <2>2, <2>3, EnoughIsOwn
<1>2. Live(t) \subseteq Live(s)
    BY DEF Live, Preempts
<1> QED BY <1>1, <1>2 DEF Keeps, Preempts

LEMMA ForgetKeeps ==
    ASSUME NEW s, Sound(s), Suffice(s)
    PROVE  /\ Keeps(s, [s EXCEPT !.finished = <<>>])
           /\ Waiting([s EXCEPT !.finished = <<>>]) = Waiting(s)
<1> DEFINE t == [s EXCEPT !.finished = <<>>]
<1>1. /\ t \in SchedulerType /\ t.heap = s.heap /\ t.running = s.running
      /\ t.preempted = s.preempted /\ t.free = s.free /\ t.req = s.req /\ t.finished = <<>>
    <2>1. <<>> \in Seq(Request) /\ s \in SchedulerType
        BY DEF Sound
    <2> QED BY <2>1 DEF SchedulerType
<1> HIDE DEF t
<1>2. ToSet(<<>>) = {} /\ IsInjective(<<>>)
    BY DEF ToSet, IsInjective
<1>3. Queues(t)
    BY <1>1, <1>2 DEF Sound, Queues
<1>4. Disjoint(t)
    BY <1>1 DEF Sound, Disjoint
<1>5. Suffice(t)
    BY <1>1, EnoughIsOwn DEF Suffice
<1>6. /\ SameWork(s, t) /\ (Conserved(s) => Conserved(t))
      /\ Live(t) = Live(s) /\ Waiting(t) = Waiting(s)
    BY <1>1 DEF SameWork, Conserved, Live, Waiting
<1> QED BY <1>1, <1>3, <1>4, <1>5, <1>6 DEF Keeps, Sound, t

LEMMA LeaveKeeps ==
    ASSUME NEW s, Sound(s), Suffice(s), NEW R \in SUBSET ToSet(s.running)
    PROVE  /\ Keeps(s, Leave(s, R)) /\ Waiting(Leave(s, R)) = Waiting(s)
           /\ ToSet(Leave(s, R).running) = ToSet(s.running) \ R
           /\ \A r \in Request \ R : Leave(s, R).req[r] = s.req[r]
<1> DEFINE rest == Without(s.running, R)
           gone == Without(s.running, ToSet(s.running) \ R)
           free == s.free \cup UNION {s.req[r].blocks : r \in R}
           gonereq(r) == [s.req[r] EXCEPT !.status = "finished", !.blocks = {}]
           req  == [r \in Request |-> IF r \in R THEN gonereq(r) ELSE s.req[r]]
<1>1. /\ s \in SchedulerType /\ Queues(s) /\ Disjoint(s) /\ R \subseteq Request
      /\ s.running \in Seq(Request) /\ s.finished \in Seq(Request) /\ s.preempted \in Seq(Request)
      /\ s.req \in [Request -> RequestType] /\ s.free \in SUBSET KVBlock
    BY Types DEF Sound
<1>2. /\ rest \in Seq(Request) /\ ToSet(rest) = ToSet(s.running) \ R
      /\ IsInjective(s.running) => IsInjective(rest)
    BY <1>1, WithoutIs
<1>3. /\ gone \in Seq(Request) /\ ToSet(gone) = R
      /\ IsInjective(s.running) => IsInjective(gone)
    <2>1. /\ gone \in Seq(Request) /\ ToSet(gone) = ToSet(s.running) \ (ToSet(s.running) \ R)
          /\ IsInjective(s.running) => IsInjective(gone)
        BY <1>1, WithoutIs
    <2> QED BY <2>1
<1>4. /\ s.finished \o gone \in Seq(Request) /\ ToSet(s.finished \o gone) = ToSet(s.finished) \cup R
      /\ IsInjective(s.finished \o gone)
    <2>1. ToSet(s.finished) \cap R = {} /\ IsInjective(s.finished) /\ IsInjective(gone)
        BY <1>1, <1>3 DEF Queues
    <2> HIDE DEF gone
    <2> QED BY <1>1, <1>3, <2>1, Joined
<1>5. \A r \in Request : /\ gonereq(r) \in RequestType /\ gonereq(r).status = "finished"
                         /\ gonereq(r).blocks = {} /\ gonereq(r).saved = s.req[r].saved
                         /\ gonereq(r).out = s.req[r].out /\ Kept(gonereq(r)) = Kept(s.req[r])
    <2> SUFFICES ASSUME NEW r \in Request
                 PROVE  /\ gonereq(r) \in RequestType /\ gonereq(r).status = "finished"
                        /\ gonereq(r).blocks = {} /\ gonereq(r).saved = s.req[r].saved
                        /\ gonereq(r).out = s.req[r].out /\ Kept(gonereq(r)) = Kept(s.req[r])
        OBVIOUS
    <2>1. s.req[r] \in RequestType
        BY <1>1
    <2>2. /\ gonereq(r) \in RequestType /\ gonereq(r).status = "finished"
          /\ gonereq(r).blocks = {} /\ gonereq(r).saved = s.req[r].saved
          /\ gonereq(r).out = s.req[r].out /\ gonereq(r).prog = s.req[r].prog
        BY <2>1 DEF RequestType
    <2> HIDE DEF gonereq
    <2> QED BY <2>2 DEF Kept
<1> HIDE DEF gonereq
<1>6. SUFFICES ASSUME NEW t, t = Leave(s, R)
               PROVE  /\ Keeps(s, t) /\ Waiting(t) = Waiting(s)
                      /\ ToSet(t.running) = ToSet(s.running) \ R
                      /\ \A r \in Request \ R : t.req[r] = s.req[r]
    OBVIOUS
<1>7. t = [s EXCEPT !.running = rest, !.finished = s.finished \o gone, !.free = free, !.req = req]
    BY <1>6, <1>1 DEF Leave, SchedulerType, gonereq
<1>8. free \in SUBSET KVBlock
    <2>1. \A r \in R : s.req[r].blocks \in SUBSET KVBlock
        BY <1>1, RequestTypes
    <2> QED BY <1>1, <2>1
<1>9. req \in [Request -> RequestType]
    BY <1>1, <1>5
<1>10. /\ \A r \in R : req[r] = gonereq(r)
       /\ \A r \in Request \ R : req[r] = s.req[r]
    BY <1>1
<1> HIDE DEF rest, gone, req
<1>11. \A b : b \in free <=> b \in s.free \/ \E r \in R : b \in s.req[r].blocks
    OBVIOUS
<1> HIDE DEF free
<1>12. /\ t \in SchedulerType /\ t.heap = s.heap /\ t.preempted = s.preempted
       /\ t.running = rest /\ t.finished = s.finished \o gone /\ t.free = free /\ t.req = req
    BY <1>1, <1>2, <1>4, <1>7, <1>8, <1>9 DEF SchedulerType
<1>13. Queues(t)
    <2>1. IsInjective(t.running) /\ IsInjective(t.preempted) /\ IsInjective(t.finished)
        BY <1>1, <1>2, <1>4, <1>12 DEF Queues
    <2>2. ASSUME NEW p \in Request PROVE
          /\ p \in t.heap <=> t.req[p].status = "pending"
          /\ t.req[p].status = "preempted" => p \in ToSet(t.preempted)
          /\ p \in ToSet(t.running) =>
                /\ t.req[p].status \in {"running", "finished"} /\ t.req[p].saved = NoSave
                /\ p \notin ToSet(t.preempted) \cup ToSet(t.finished)
          /\ p \in ToSet(t.preempted) =>
                /\ t.req[p].status \in {"preempted", "finished"} /\ t.req[p].saved # NoSave
                /\ p \notin ToSet(t.finished)
          /\ p \in ToSet(t.finished) => t.req[p].status = "finished"
          /\ t.req[p].status \in {"new", "pending"} /\ t.req[p].saved = NoSave => t.req[p].out = <<>>
        <3>1. CASE p \in R
            <4>1. /\ t.req[p].status = "finished" /\ p \in ToSet(s.running)
                  /\ p \notin ToSet(t.running) /\ p \in ToSet(t.finished)
                BY <1>2, <1>4, <1>5, <1>10, <1>12, <3>1
            <4>2. p \notin t.heap /\ p \notin ToSet(t.preempted)
                BY <1>1, <1>12, <4>1 DEF Queues
            <4> QED BY <4>1, <4>2
        <3>2. CASE p \notin R
            <4>1. /\ t.req[p] = s.req[p]
                  /\ p \in t.heap <=> p \in s.heap
                  /\ p \in ToSet(t.running) <=> p \in ToSet(s.running)
                  /\ p \in ToSet(t.preempted) <=> p \in ToSet(s.preempted)
                  /\ p \in ToSet(t.finished) <=> p \in ToSet(s.finished)
                BY <1>2, <1>4, <1>10, <1>12, <3>2
            <4> QED BY <1>1, <4>1 DEF Queues
        <3> QED BY <3>1, <3>2
    <2> QED BY <2>1, <2>2 DEF Queues
<1>14. /\ \A r \in R : t.req[r].blocks = {}
       /\ \A r \in Request \ R : t.req[r].blocks = s.req[r].blocks
    BY <1>1, <1>5, <1>10, <1>12
<1>15. Disjoint(t)
    <2>1. \A r \in Request : /\ s.req[r].blocks \cap s.free = {}
                             /\ \A q \in Request \ {r} : s.req[r].blocks \cap s.req[q].blocks = {}
        BY <1>1, Zenon DEF Disjoint
    <2>2. ASSUME NEW a \in Request PROVE t.req[a].blocks \cap t.free = {}
        <3>1. CASE a \in R
            BY <1>14, <3>1
        <3>2. CASE a \notin R
            <4>1. \A q \in R : s.req[a].blocks \cap s.req[q].blocks = {}
                BY <1>1, <2>1, <3>2
            <4> QED BY <1>11, <1>12, <1>14, <2>1, <3>2, <4>1
        <3> QED BY <3>1, <3>2
    <2>3. ASSUME NEW a \in Request, NEW q \in Request \ {a} PROVE t.req[a].blocks \cap t.req[q].blocks = {}
        <3>1. s.req[a].blocks \cap s.req[q].blocks = {}
            BY <2>1
        <3> QED BY <1>14, <3>1
    <2> QED BY <2>2, <2>3, Zenon DEF Disjoint
<1>16. Suffice(t)
    <2> SUFFICES ASSUME NEW r \in ToSet(t.running) PROVE Enough(t, r)
        BY DEF Suffice
    <2>1. r \in ToSet(s.running) /\ s.req[r] = t.req[r]
        <3>1. r \in Request /\ r \in ToSet(rest)
            BY <1>12, Types
        <3> QED BY <1>2, <1>10, <1>12, <3>1
    <2>2. Enough(s, r)
        BY <2>1 DEF Suffice
    <2> QED BY <2>1, <2>2, EnoughIsOwn
<1>17. SameWork(s, t)
    <2>1. ASSUME NEW r \in Request PROVE
          /\ Kept(t.req[r]) = Kept(s.req[r])
          /\ t.req[r].status = "new" <=> s.req[r].status = "new"
        <3>1. CASE r \in R
            <4>1. s.req[r].status # "new"
                BY <1>1, <3>1 DEF Queues
            <4> QED BY <1>5, <1>10, <1>12, <3>1, <4>1
        <3>2. CASE r \notin R
            BY <1>10, <1>12, <3>2
        <3> QED BY <3>1, <3>2
    <2> QED BY <2>1 DEF SameWork
<1>18. ASSUME Conserved(s) PROVE Conserved(t)
    <2>1. ASSUME NEW b \in KVBlock PROVE b \in t.free \cup UNION {t.req[p].blocks : p \in Request}
        <3>1. CASE b \in s.free
            BY <1>11, <1>12, <3>1
        <3>2. ASSUME NEW p \in Request, b \in s.req[p].blocks PROVE b \in t.free \cup t.req[p].blocks
            BY <1>11, <1>12, <1>14, <3>2
        <3> QED BY <1>18, <3>1, <3>2 DEF Conserved
    <2>2. \A p \in Request : p \notin ToSet(t.running) => t.req[p].blocks = {}
        BY <1>2, <1>12, <1>14, <1>18 DEF Conserved
    <2> QED BY <2>1, <2>2 DEF Conserved
<1>19. Live(t) \subseteq Live(s) /\ Waiting(t) = Waiting(s)
    BY <1>2, <1>12 DEF Live, Waiting
<1>20. ToSet(t.running) = ToSet(s.running) \ R /\ \A r \in Request \ R : t.req[r] = s.req[r]
    BY <1>2, <1>10, <1>12
<1> QED BY <1>12, <1>13, <1>15, <1>16, <1>17, <1>18, <1>19, <1>20 DEF Keeps, Sound

LEMMA RequestsFinite == IsFiniteSet(Request)
BY SchedulerAssumption, FS_Interval DEF Request

LEMMA CancelPendingKeeps ==
    ASSUME NEW s, Sound(s), Suffice(s), NEW R
    PROVE  Keeps(s, CancelPending(s, R)) /\ Waiting(CancelPending(s, R)) \subseteq Waiting(s)
<1> DEFINE out  == s.heap \cap R
           heap == s.heap \ R
           list == s.finished \o SetToSeq(out)
           over(r) == [s.req[r] EXCEPT !.status = "finished"]
           req  == [r \in Request |-> IF r \in out THEN over(r) ELSE s.req[r]]
<1>1. /\ s \in SchedulerType /\ Queues(s) /\ Disjoint(s)
      /\ s.heap \in SUBSET Request /\ s.finished \in Seq(Request)
      /\ s.req \in [Request -> RequestType]
    BY Types DEF Sound
<1>2. out \in SUBSET Request /\ IsFiniteSet(out) /\ heap \in SUBSET Request
    BY <1>1, RequestsFinite, FS_Subset
<1>3. \A r \in out : r \in s.heap /\ s.req[r].status = "pending"
    BY <1>1 DEF Queues
<1>4. /\ list \in Seq(Request) /\ ToSet(list) = ToSet(s.finished) \cup out /\ IsInjective(list)
    <2> HIDE DEF out
    <2>1. SetToSeq(out) \in Seq(Request) /\ ToSet(SetToSeq(out)) = out /\ IsInjective(SetToSeq(out))
        BY <1>2, Listed
    <2>2. ToSet(s.finished) \cap out = {} /\ IsInjective(s.finished)
        BY <1>1, <1>2, <1>3 DEF Queues
    <2> HIDE DEF list
    <2> QED BY <1>1, <2>1, <2>2, Joined DEF list
<1>5. \A r \in Request : /\ over(r) \in RequestType /\ over(r).status = "finished"
                         /\ over(r).blocks = s.req[r].blocks /\ over(r).saved = s.req[r].saved
                         /\ Kept(over(r)) = Kept(s.req[r])
    <2> SUFFICES ASSUME NEW r \in Request
                 PROVE  /\ over(r) \in RequestType /\ over(r).status = "finished"
                        /\ over(r).blocks = s.req[r].blocks /\ over(r).saved = s.req[r].saved
                        /\ Kept(over(r)) = Kept(s.req[r])
        OBVIOUS
    <2>1. s.req[r] \in RequestType
        BY <1>1
    <2>2. /\ over(r) \in RequestType /\ over(r).status = "finished"
          /\ over(r).blocks = s.req[r].blocks /\ over(r).saved = s.req[r].saved
          /\ over(r).out = s.req[r].out /\ over(r).prog = s.req[r].prog
        BY <2>1 DEF RequestType
    <2> HIDE DEF over
    <2> QED BY <2>2 DEF Kept
<1> HIDE DEF over
<1>6. SUFFICES ASSUME NEW t, t = CancelPending(s, R)
               PROVE  Keeps(s, t) /\ Waiting(t) \subseteq Waiting(s)
    OBVIOUS
<1>7. t = [s EXCEPT !.heap = heap, !.finished = list, !.req = req]
    BY <1>6, <1>1 DEF CancelPending, SchedulerType, over
<1>8. req \in [Request -> RequestType]
    BY <1>1, <1>5
<1>9. /\ \A r \in out : req[r] = over(r)
      /\ \A r \in Request \ out : req[r] = s.req[r]
    BY <1>2
<1>10. \A r : r \in heap <=> r \in s.heap /\ r \notin out
    OBVIOUS
<1> HIDE DEF list, req, out, heap
<1>11. /\ t \in SchedulerType /\ t.heap = heap /\ t.preempted = s.preempted
       /\ t.running = s.running /\ t.finished = list /\ t.free = s.free /\ t.req = req
    BY <1>1, <1>2, <1>4, <1>7, <1>8 DEF SchedulerType
<1>12. Queues(t)
    <2>1. IsInjective(t.running) /\ IsInjective(t.preempted) /\ IsInjective(t.finished)
        BY <1>1, <1>4, <1>11 DEF Queues
    <2>2. ASSUME NEW p \in Request PROVE
          /\ p \in t.heap <=> t.req[p].status = "pending"
          /\ t.req[p].status = "preempted" => p \in ToSet(t.preempted)
          /\ p \in ToSet(t.running) =>
                /\ t.req[p].status \in {"running", "finished"} /\ t.req[p].saved = NoSave
                /\ p \notin ToSet(t.preempted) \cup ToSet(t.finished)
          /\ p \in ToSet(t.preempted) =>
                /\ t.req[p].status \in {"preempted", "finished"} /\ t.req[p].saved # NoSave
                /\ p \notin ToSet(t.finished)
          /\ p \in ToSet(t.finished) => t.req[p].status = "finished"
          /\ t.req[p].status \in {"new", "pending"} /\ t.req[p].saved = NoSave => t.req[p].out = <<>>
        <3>1. CASE p \in out
            <4>1. t.req[p].status = "finished" /\ p \notin t.heap
                BY <1>2, <1>5, <1>9, <1>10, <1>11, <3>1
            <4>2. p \notin ToSet(t.running) /\ p \notin ToSet(t.preempted)
                BY <1>1, <1>3, <1>11, <3>1 DEF Queues
            <4> QED BY <4>1, <4>2
        <3>2. CASE p \notin out
            <4>1. /\ t.req[p] = s.req[p]
                  /\ p \in t.heap <=> p \in s.heap
                  /\ p \in ToSet(t.running) <=> p \in ToSet(s.running)
                  /\ p \in ToSet(t.preempted) <=> p \in ToSet(s.preempted)
                  /\ p \in ToSet(t.finished) <=> p \in ToSet(s.finished)
                BY <1>4, <1>9, <1>10, <1>11, <3>2
            <4> QED BY <1>1, <4>1 DEF Queues
        <3> QED BY <3>1, <3>2
    <2> QED BY <2>1, <2>2 DEF Queues
<1>13. \A r \in Request : t.req[r].blocks = s.req[r].blocks
    BY <1>2, <1>5, <1>9, <1>11
<1>14. Disjoint(t) /\ (Conserved(s) => Conserved(t))
    BY <1>1, <1>11, <1>13 DEF Disjoint, Conserved
<1>15. Suffice(t)
    <2> SUFFICES ASSUME NEW r \in ToSet(t.running) PROVE Enough(t, r)
        BY DEF Suffice
    <2>1. r \in Request /\ r \in ToSet(s.running)
        BY <1>11, Types
    <2>2. r \notin out
        BY <1>1, <1>3, <2>1 DEF Queues
    <2>3. s.req[r] = t.req[r] /\ Enough(s, r)
        BY <1>9, <1>11, <2>1, <2>2 DEF Suffice
    <2> QED BY <2>3, EnoughIsOwn
<1>16. SameWork(s, t)
    <2>1. ASSUME NEW r \in Request PROVE
          /\ Kept(t.req[r]) = Kept(s.req[r])
          /\ t.req[r].status = "new" <=> s.req[r].status = "new"
        <3>1. CASE r \in out
            BY <1>3, <1>5, <1>9, <1>11, <3>1
        <3>2. CASE r \notin out
            BY <1>9, <1>11, <3>2
        <3> QED BY <3>1, <3>2
    <2> QED BY <2>1 DEF SameWork
<1>17. Live(t) \subseteq Live(s) /\ Waiting(t) \subseteq Waiting(s)
    BY <1>10, <1>11 DEF Live, Waiting
<1> QED BY <1>11, <1>12, <1>14, <1>15, <1>16, <1>17 DEF Keeps, Sound

LEMMA ReadmitKeeps ==
    ASSUME NEW s, Sound(s), Suffice(s)
    PROVE  Keeps(s, Readmit(s)) /\ Readmit(s).running = s.running
           /\ \A r \in ToSet(s.running) : Readmit(s).req[r] = s.req[r]
<1> DEFINE back == ToSet(s.preempted)
           heap == s.heap \cup back
           again(r) == [s.req[r] EXCEPT !.status = "pending", !.prio = Min({s.req[r].prio, -1})]
           req  == [r \in Request |-> IF r \in back THEN again(r) ELSE s.req[r]]
<1>1. /\ s \in SchedulerType /\ Queues(s) /\ Disjoint(s)
      /\ s.heap \in SUBSET Request /\ back \in SUBSET Request
      /\ s.req \in [Request -> RequestType] /\ ToSet(s.running) \subseteq Request
    BY Types DEF Sound
<1>2. heap \in SUBSET Request
    BY <1>1
<1>3. \A r \in back : s.req[r].status \in {"preempted", "finished"} /\ s.req[r].saved # NoSave
                      /\ r \notin ToSet(s.running) /\ r \notin ToSet(s.finished)
    BY <1>1 DEF Queues
<1>5. \A r \in Request : /\ again(r) \in RequestType /\ again(r).status = "pending"
                         /\ again(r).blocks = s.req[r].blocks /\ again(r).saved = s.req[r].saved
                         /\ Kept(again(r)) = Kept(s.req[r])
    <2> SUFFICES ASSUME NEW r \in Request
                 PROVE  /\ again(r) \in RequestType /\ again(r).status = "pending"
                        /\ again(r).blocks = s.req[r].blocks /\ again(r).saved = s.req[r].saved
                        /\ Kept(again(r)) = Kept(s.req[r])
        OBVIOUS
    <2>1. s.req[r] \in RequestType
        BY <1>1
    <2>2. Min({s.req[r].prio, -1}) \in Int
        <3>1. s.req[r].prio \in Int /\ -1 \in Int
            BY <2>1, RequestTypes
        <3>2. Min({s.req[r].prio, -1}) \in {s.req[r].prio, -1}
            BY ONLY <3>1, MinOfTwo, Zenon
        <3> QED BY <3>1, <3>2
    <2>3. /\ again(r) \in RequestType /\ again(r).status = "pending"
          /\ again(r).blocks = s.req[r].blocks /\ again(r).saved = s.req[r].saved
          /\ again(r).out = s.req[r].out /\ again(r).prog = s.req[r].prog
        BY <2>1, <2>2 DEF RequestType
    <2> HIDE DEF again
    <2> QED BY <2>3 DEF Kept
<1> HIDE DEF again
<1>6. SUFFICES ASSUME NEW t, t = Readmit(s)
               PROVE  /\ Keeps(s, t) /\ t.running = s.running
                      /\ \A r \in ToSet(s.running) : t.req[r] = s.req[r]
    OBVIOUS
<1>7. t = [s EXCEPT !.heap = heap, !.preempted = <<>>, !.req = req]
    BY <1>6, <1>1 DEF Readmit, SchedulerType, again
<1>8. req \in [Request -> RequestType] /\ <<>> \in Seq(Request)
    BY <1>1, <1>5
<1>9. /\ \A r \in back : req[r] = again(r)
      /\ \A r \in Request \ back : req[r] = s.req[r]
    BY <1>1
<1>10. ToSet(<<>>) = {} /\ IsInjective(<<>>)
    BY DEF ToSet, IsInjective
<1> HIDE DEF req
<1>11. /\ t \in SchedulerType /\ t.heap = heap /\ t.preempted = <<>>
       /\ t.running = s.running /\ t.finished = s.finished /\ t.free = s.free /\ t.req = req
    BY <1>1, <1>2, <1>7, <1>8 DEF SchedulerType
<1>12. Queues(t)
    <2>1. IsInjective(t.running) /\ IsInjective(t.preempted) /\ IsInjective(t.finished)
        BY <1>1, <1>10, <1>11 DEF Queues
    <2>2. ASSUME NEW p \in Request PROVE
          /\ p \in t.heap <=> t.req[p].status = "pending"
          /\ t.req[p].status = "preempted" => p \in ToSet(t.preempted)
          /\ p \in ToSet(t.running) =>
                /\ t.req[p].status \in {"running", "finished"} /\ t.req[p].saved = NoSave
                /\ p \notin ToSet(t.preempted) \cup ToSet(t.finished)
          /\ p \in ToSet(t.preempted) =>
                /\ t.req[p].status \in {"preempted", "finished"} /\ t.req[p].saved # NoSave
                /\ p \notin ToSet(t.finished)
          /\ p \in ToSet(t.finished) => t.req[p].status = "finished"
          /\ t.req[p].status \in {"new", "pending"} /\ t.req[p].saved = NoSave => t.req[p].out = <<>>
        <3>0. p \notin ToSet(t.preempted)
            BY <1>10, <1>11
        <3>1. CASE p \in back
            <4>1. /\ t.req[p].status = "pending" /\ p \in t.heap /\ t.req[p].saved # NoSave
                  /\ p \notin ToSet(t.running) /\ p \notin ToSet(t.finished)
                BY <1>1, <1>3, <1>5, <1>9, <1>11, <3>1
            <4> QED BY <3>0, <4>1
        <3>2. CASE p \notin back
            <4>1. /\ t.req[p] = s.req[p]
                  /\ p \in t.heap <=> p \in s.heap
                  /\ p \in ToSet(t.running) <=> p \in ToSet(s.running)
                  /\ p \in ToSet(t.finished) <=> p \in ToSet(s.finished)
                BY <1>9, <1>11, <3>2
            <4> QED BY <1>1, <3>0, <3>2, <4>1 DEF Queues
        <3> QED BY <3>1, <3>2
    <2> QED BY <2>1, <2>2 DEF Queues
<1>13. \A r \in Request : t.req[r].blocks = s.req[r].blocks
    BY <1>1, <1>5, <1>9, <1>11
<1>14. Disjoint(t) /\ (Conserved(s) => Conserved(t))
    BY <1>1, <1>11, <1>13 DEF Disjoint, Conserved
<1>15. \A r \in ToSet(s.running) : t.req[r] = s.req[r]
    BY <1>1, <1>3, <1>9, <1>11
<1>16. Suffice(t)
    BY <1>11, <1>15, EnoughIsOwn DEF Suffice
<1>17. SameWork(s, t)
    <2>1. ASSUME NEW r \in Request PROVE
          /\ Kept(t.req[r]) = Kept(s.req[r])
          /\ t.req[r].status = "new" <=> s.req[r].status = "new"
        <3>1. CASE r \in back
            BY <1>3, <1>5, <1>9, <1>11, <3>1
        <3>2. CASE r \notin back
            BY <1>9, <1>11, <3>2
        <3> QED BY <3>1, <3>2
    <2> QED BY <2>1 DEF SameWork
<1>18. Live(t) \subseteq Live(s)
    BY <1>10, <1>11 DEF Live
<1> QED BY <1>11, <1>12, <1>14, <1>15, <1>16, <1>17, <1>18 DEF Keeps, Sound

LEMMA BlocksForType ==
    ASSUME NEW k \in Nat
    PROVE  BlocksFor(k) \in Nat
<1>1. KVBlockSize \in Nat \ {0}
    BY SchedulerAssumption
<1>2. k + KVBlockSize - 1 \in Nat
    BY <1>1
<1>3. \A a \in Nat, b \in Nat \ {0} : a \div b \in Nat
    OBVIOUS
<1> QED BY <1>1, <1>2, <1>3 DEF BlocksFor, CeilDiv

\* The heap of requests that wait has a head.
LEMMA HeadExists ==
    ASSUME NEW s \in SchedulerType, s.heap # {}
    PROVE  HeadOf(s) \in s.heap
<1> DEFINE Le(r, q) == \/ s.req[r].prio < s.req[q].prio
                       \/ s.req[r].prio = s.req[q].prio /\ r <= q
           R == {x \in s.heap \X s.heap : Le(x[1], x[2])}
<1>1. s.heap \in SUBSET Request /\ IsFiniteSet(s.heap)
    BY Types, RequestsFinite, FS_Subset
<1>2. \A r \in s.heap : s.req[r].prio \in Int /\ r \in Int
    <2>1. \A r \in s.heap : r \in Request /\ s.req[r] \in RequestType
        BY <1>1, Types
    <2>2. Request \subseteq Int
        BY ONLY SchedulerAssumption DEF Request
    <2> QED BY ONLY <2>1, <2>2, RequestTypes
<1>3. \A r, q \in s.heap : Le(r, q) \/ Le(q, r)
    BY <1>2
<1>4. \A r, q, p \in s.heap : Le(r, q) /\ Le(q, p) => Le(r, p)
    BY <1>2
<1>5. \A r \in s.heap : Le(r, r)
    BY <1>2
<1>6. HeadOf(s) = CHOOSE r \in s.heap : \A q \in s.heap : Le(r, q)
    BY DEF HeadOf
<1> HIDE DEF Le
<1>7. \A r, q \in s.heap : <<r, q>> \in R <=> Le(r, q)
    OBVIOUS
<1> HIDE DEF R
<1>8. \E r \in s.heap : \A q \in s.heap \ {r} : <<r, q>> \in R
    <2>1. \A r, q \in s.heap : r = q \/ <<r, q>> \in R \/ <<q, r>> \in R
        BY <1>3, <1>7
    <2>2. \A r, q, p \in s.heap : <<r, q>> \in R /\ <<q, p>> \in R => <<r, p>> \in R
        BY <1>4, <1>7
    <2> QED BY <1>1, <2>1, <2>2, FirstExists
<1>9. \E r \in s.heap : \A q \in s.heap : Le(r, q)
    BY <1>5, <1>7, <1>8
<1> QED BY <1>6, <1>9

\* A pending request runs with the blocks of its prompt and its saved tokens.
LEMMA AdmittedKeeps ==
    ASSUME NEW s, Sound(s), Suffice(s), NEW r \in s.heap, NEW n, n = BlocksToAdmit(s, r),
           CanAllocate(s, n)
    PROVE  Keeps(s, Admitted(s, r, n))
<1> DEFINE q   == s.req[r]
           got == Lowest(s.free, n)
           p   == Restore([[[q EXCEPT !.blocks = {}] EXCEPT !.blocks = @ \cup got] EXCEPT !.status = "running"])
           out == IF q.saved = NoSave THEN <<>> ELSE q.saved.out
<1>1. /\ s \in SchedulerType /\ Queues(s) /\ Disjoint(s) /\ r \in Request
      /\ s.heap \in SUBSET Request /\ s.running \in Seq(Request) /\ s.free \in SUBSET KVBlock
      /\ s.req \in [Request -> RequestType] /\ q \in RequestType
    BY Types DEF Sound
<1>2. /\ q.status = "pending" /\ (q.saved = NoSave => q.out = <<>>)
      /\ r \notin ToSet(s.running) /\ r \notin ToSet(s.preempted) /\ r \notin ToSet(s.finished)
    BY <1>1 DEF Queues
<1>3. /\ q.saved # NoSave => q.saved \in [out : Seq(Token), prog : Nat]
      /\ Kept(q) \in [out : Seq(Token), prog : Nat]
    BY <1>1, RequestTypes
<1>4. out \in Seq(Token) /\ Len(out) \in Nat /\ Len(<<>>) = 0 /\ <<>> \in Seq(Token)
    BY <1>3, Elements
<1>5. PromptLen[r] \in Nat /\ n = BlocksFor(PromptLen[r] + Len(out))
    <2>1. n = BlocksFor(PromptLen[r] + (IF q.saved = NoSave THEN 0 ELSE Len(q.saved.out)))
        BY DEF BlocksToAdmit
    <2>2. Len(out) = IF q.saved = NoSave THEN 0 ELSE Len(q.saved.out)
        BY <1>4
    <2> QED BY <1>1, <2>1, <2>2, SchedulerAssumption
<1>6. n \in Nat
    <2>1. PromptLen[r] \in Nat /\ Len(out) \in Nat
        BY ONLY <1>4, <1>5
    <2>2. PromptLen[r] + Len(out) \in Nat
        BY ONLY <2>1
    <2> QED BY ONLY <1>5, <2>2, BlocksForType
<1>7. got \subseteq s.free /\ Cardinality(got) = n
    BY <1>1, <1>6, LowestTakes DEF CanAllocate
<1> HIDE DEF got
<1>8. /\ p \in RequestType /\ p.status = "running" /\ p.blocks = got /\ p.saved = NoSave
      /\ p.out = out /\ Kept(p) = Kept(q)
    <2> DEFINE p0 == [[[q EXCEPT !.blocks = {}] EXCEPT !.blocks = @ \cup got] EXCEPT !.status = "running"]
    <2>1. /\ p0 \in RequestType /\ p0.status = "running" /\ p0.blocks = got /\ p0.saved = q.saved
          /\ p0.out = q.out /\ p0.prog = q.prog
        BY <1>1, <1>7 DEF RequestType
    <2>2. p = Restore(p0)
        OBVIOUS
    <2> HIDE DEF p0, p, out
    <2>3. CASE q.saved = NoSave
        <3>1. p = p0 /\ out = <<>>
            BY <2>1, <2>2, <2>3 DEF Restore, out
        <3> QED BY <1>2, <2>1, <2>3, <3>1 DEF Kept
    <2>4. CASE q.saved # NoSave
        <3>1. p = [p0 EXCEPT !.out = q.saved.out, !.prog = q.saved.prog, !.saved = NoSave]
            BY <2>1, <2>2, <2>4 DEF Restore
        <3>2. out = q.saved.out
            BY <2>4 DEF out
        <3>3. /\ p \in RequestType /\ p.status = "running" /\ p.blocks = got /\ p.saved = NoSave
              /\ p.out = q.saved.out /\ p.prog = q.saved.prog
            BY <1>3, <2>1, <2>4, <3>1 DEF RequestType
        <3>4. Kept(p) = [out |-> q.saved.out, prog |-> q.saved.prog] /\ Kept(q) = q.saved
            BY <2>4, <3>3 DEF Kept
        <3>5. q.saved = [out |-> q.saved.out, prog |-> q.saved.prog]
            BY <1>3, <2>4
        <3> QED BY <3>2, <3>3, <3>4, <3>5
    <2> QED BY <2>3, <2>4
<1>9. SUFFICES ASSUME NEW t, t = Admitted(s, r, n) PROVE Keeps(s, t)
    OBVIOUS
<1> DEFINE heap == s.heap \ {r}
           free == s.free \ got
           running == Append(s.running, r)
           req == [s.req EXCEPT ![r] = p]
<1>10. t = [s EXCEPT !.heap = heap, !.free = free, !.running = running, !.req = req]
    <2> DEFINE a == [s EXCEPT !.req[r].blocks = {}]
               g == [a EXCEPT !.free = @ \ got, !.req[r].blocks = @ \cup got]
    <2>1. /\ a \in SchedulerType /\ a.free = s.free
          /\ a.req[r] = [q EXCEPT !.blocks = {}] /\ a = [s EXCEPT !.req = [s.req EXCEPT ![r] = a.req[r]]]
        BY <1>1 DEF SchedulerType, RequestType
    <2>2. Give(a, r, n) = g
        BY <2>1 DEF Give, got
    <2>3. /\ g.req[r] = [a.req[r] EXCEPT !.blocks = @ \cup got]
          /\ g = [s EXCEPT !.free = free, !.req = [s.req EXCEPT ![r] = g.req[r]]]
        <3> DEFINE q1 == [a.req[r] EXCEPT !.blocks = @ \cup got]
        <3>1. g = [a EXCEPT !.free = free, !.req = [a.req EXCEPT ![r] = q1]]
            BY <2>1 DEF SchedulerType
        <3>2. a.req = [s.req EXCEPT ![r] = a.req[r]] /\ a.req \in [Request -> RequestType]
            BY <1>1, <2>1 DEF SchedulerType
        <3> HIDE DEF a, g, free, q1
        <3>3. [a.req EXCEPT ![r] = q1] = [s.req EXCEPT ![r] = q1] /\ [a.req EXCEPT ![r] = q1][r] = q1
            BY <1>1, <3>2
        <3>4. g = [a EXCEPT !.free = free, !.req = [s.req EXCEPT ![r] = q1]]
            BY <3>1, <3>3
        <3> HIDE DEF q
        <3>5. g = [s EXCEPT !.free = free, !.req = [s.req EXCEPT ![r] = q1]]
            BY <1>1, <2>1, <3>4 DEF SchedulerType
        <3>6. g.req[r] = q1
            BY <1>1, <3>5 DEF SchedulerType
        <3> QED BY <3>5, <3>6 DEF q1
    <2>4. Restore([g.req[r] EXCEPT !.status = "running"]) = p
        BY <2>1, <2>3
    <2>5. t = [g EXCEPT !.heap = @ \ {r}, !.req[r] = Restore([g.req[r] EXCEPT !.status = "running"]),
                        !.running = Append(@, r)]
        BY <1>9, <2>2 DEF Admitted
    <2> HIDE DEF p, a, g
    <2> QED BY <1>1, <2>3, <2>4, <2>5 DEF SchedulerType
<1> HIDE DEF p, out
<1>11. /\ running \in Seq(Request) /\ ToSet(running) = ToSet(s.running) \cup {r} /\ IsInjective(running)
    <2>1. IsInjective(s.running)
        BY <1>1 DEF Queues
    <2> QED BY <1>1, <1>2, <2>1, Appended
<1>12. /\ req \in [Request -> RequestType] /\ req[r] = p
       /\ \A a \in Request \ {r} : req[a] = s.req[a]
    BY <1>1, <1>8
<1>13. /\ \A a : a \in heap <=> a \in s.heap /\ a # r
       /\ \A b : b \in free <=> b \in s.free /\ b \notin got
       /\ heap \in SUBSET Request /\ free \in SUBSET KVBlock
    BY <1>1
<1> HIDE DEF heap, free, running, req
<1>14. /\ t \in SchedulerType /\ t.heap = heap /\ t.preempted = s.preempted
       /\ t.running = running /\ t.finished = s.finished /\ t.free = free /\ t.req = req
    BY <1>1, <1>10, <1>11, <1>12, <1>13 DEF SchedulerType
<1> HIDE DEF q
<1>15. Queues(t)
    <2>1. IsInjective(t.running) /\ IsInjective(t.preempted) /\ IsInjective(t.finished)
        BY <1>1, <1>11, <1>14 DEF Queues
    <2>2. ASSUME NEW a \in Request PROVE
          /\ a \in t.heap <=> t.req[a].status = "pending"
          /\ t.req[a].status = "preempted" => a \in ToSet(t.preempted)
          /\ a \in ToSet(t.running) =>
                /\ t.req[a].status \in {"running", "finished"} /\ t.req[a].saved = NoSave
                /\ a \notin ToSet(t.preempted) \cup ToSet(t.finished)
          /\ a \in ToSet(t.preempted) =>
                /\ t.req[a].status \in {"preempted", "finished"} /\ t.req[a].saved # NoSave
                /\ a \notin ToSet(t.finished)
          /\ a \in ToSet(t.finished) => t.req[a].status = "finished"
          /\ t.req[a].status \in {"new", "pending"} /\ t.req[a].saved = NoSave => t.req[a].out = <<>>
        <3>1. CASE a = r
            <4>1. /\ t.req[a].status = "running" /\ t.req[a].saved = NoSave /\ a \notin t.heap
                  /\ a \notin ToSet(t.preempted) /\ a \notin ToSet(t.finished)
                BY <1>2, <1>8, <1>12, <1>13, <1>14, <3>1
            <4> QED BY <4>1
        <3>2. CASE a # r
            <4>1. /\ t.req[a] = s.req[a]
                  /\ a \in t.heap <=> a \in s.heap
                  /\ a \in ToSet(t.running) <=> a \in ToSet(s.running)
                  /\ a \in ToSet(t.preempted) <=> a \in ToSet(s.preempted)
                  /\ a \in ToSet(t.finished) <=> a \in ToSet(s.finished)
                BY <1>11, <1>12, <1>13, <1>14, <3>2
            <4> QED BY <1>1, <4>1 DEF Queues
        <3> QED BY <3>1, <3>2
    <2> QED BY <2>1, <2>2 DEF Queues
<1>16. t.req[r].blocks = got /\ \A a \in Request \ {r} : t.req[a].blocks = s.req[a].blocks
    BY <1>8, <1>12, <1>14
<1>17. Disjoint(t)
    <2>1. \A a \in Request : /\ s.req[a].blocks \cap s.free = {}
                             /\ \A b \in Request \ {a} : s.req[a].blocks \cap s.req[b].blocks = {}
        BY <1>1, Zenon DEF Disjoint
    <2>2. ASSUME NEW a \in Request PROVE t.req[a].blocks \cap t.free = {}
        BY <1>13, <1>14, <1>16, <2>1
    <2>3. ASSUME NEW a \in Request, NEW b \in Request \ {a} PROVE t.req[a].blocks \cap t.req[b].blocks = {}
        <3>1. s.req[a].blocks \cap s.req[b].blocks = {} /\ s.req[a].blocks \cap got = {}
              /\ s.req[b].blocks \cap got = {}
            BY <1>7, <2>1
        <3> QED BY <1>16, <3>1
    <2> QED BY <2>2, <2>3, Zenon DEF Disjoint
<1>18. Suffice(t)
    <2> SUFFICES ASSUME NEW a \in ToSet(t.running) PROVE Enough(t, a)
        BY DEF Suffice
    <2>1. CASE a = r
        <3>1. Total(t, a) = PromptLen[r] + Len(out)
            BY <1>8, <1>12, <1>14, <2>1 DEF Total
        <3>2. Cardinality(t.req[a].blocks) = BlocksFor(Total(t, a))
            BY <1>5, <1>7, <1>16, <2>1, <3>1
        <3> QED BY <1>5, <1>6, <3>1, <3>2 DEF Enough
    <2>2. CASE a # r
        <3>1. a \in ToSet(s.running) /\ a \in Request
            BY <1>11, <1>14, <2>2, Types
        <3>2. s.req[a] = t.req[a] /\ Enough(s, a)
            BY <1>12, <1>14, <2>2, <3>1 DEF Suffice
        <3> QED BY <3>2, EnoughIsOwn
    <2> QED BY <2>1, <2>2
<1>19. SameWork(s, t)
    <2>1. ASSUME NEW a \in Request PROVE
          /\ Kept(t.req[a]) = Kept(s.req[a])
          /\ t.req[a].status = "new" <=> s.req[a].status = "new"
        <3>1. CASE a = r
            BY <1>2, <1>8, <1>12, <1>14, <3>1 DEF q
        <3>2. CASE a # r
            BY <1>12, <1>14, <3>2
        <3> QED BY <3>1, <3>2
    <2> QED BY <2>1 DEF SameWork
<1>20. ASSUME Conserved(s) PROVE Conserved(t)
    <2>1. ASSUME NEW b \in KVBlock PROVE b \in t.free \cup UNION {t.req[a].blocks : a \in Request}
        <3>1. CASE b \in s.free
            <4>1. b \in t.free \/ b \in t.req[r].blocks
                BY <1>13, <1>14, <1>16, <3>1
            <4> QED BY <1>1, <4>1
        <3>2. ASSUME NEW a \in Request, b \in s.req[a].blocks PROVE b \in t.req[a].blocks
            <4>1. s.req[r].blocks = {}
                BY <1>1, <1>2, <1>20 DEF Conserved
            <4> QED BY <1>16, <3>2, <4>1
        <3> QED BY <1>20, <3>1, <3>2 DEF Conserved
    <2>2. \A a \in Request : a \notin ToSet(t.running) => t.req[a].blocks = {}
        BY <1>11, <1>14, <1>16, <1>20 DEF Conserved
    <2> QED BY <2>1, <2>2 DEF Conserved
<1>21. Live(t) \subseteq Live(s)
    BY <1>11, <1>13, <1>14 DEF Live
<1> QED BY <1>14, <1>15, <1>17, <1>18, <1>19, <1>20, <1>21 DEF Keeps, Sound

\* One turn of the admission loop.
LEMMA AdmitHeadKeeps ==
    ASSUME NEW st, Sound(st.sch), Suffice(st.sch)
    PROVE  Keeps(st.sch, AdmitHead(st).sch)
<1> DEFINE s    == st.sch
           r    == HeadOf(s)
           n    == BlocksToAdmit(s, r)
           made == IF CanAllocate(s, n) THEN [sch |-> s, ok |-> TRUE] ELSE TryPreempt(s, n)
           room == made.sch
<1>1. AdmitHead(st) = IF st.stop \/ s.heap = {} \/ Len(s.running) >= MaxBatch THEN st
                      ELSE IF made.ok /\ CanAllocate(room, n)
                             THEN [sch |-> Admitted(room, r, n), stop |-> FALSE]
                      ELSE [sch |-> room, stop |-> TRUE]
    BY DEF AdmitHead
<1>2. room = s \/ room = TryPreempt(s, n).sch
    OBVIOUS
<1> HIDE DEF s, r, n, made, room
<1>3. Sound(s) /\ Suffice(s)
    BY DEF s
<1>4. Preempts(s, s) /\ Preempts(s, TryPreempt(s, n).sch)
    BY <1>3, PreemptsNobody, TryPreemptPreempts
<1>5. Preempts(s, room)
    BY <1>2, <1>4
<1>6. Keeps(s, s) /\ Keeps(s, room)
    BY <1>3, <1>4, <1>5, PreemptsKeeps
<1>7. ASSUME s.heap # {}, CanAllocate(room, n) PROVE Keeps(s, Admitted(room, r, n))
    <2>1. /\ r \in s.heap /\ s \in SchedulerType
          /\ s.heap \subseteq Request
        BY <1>3, <1>7, HeadExists, Types DEF Sound, r
    <2>2. r \in room.heap /\ r \in Request /\ r \notin ToSet(s.running)
        <3>1. r \notin ToSet(s.running)
            BY <1>3, <2>1 DEF Sound, Queues
        <3> QED BY <1>5, <2>1, <3>1 DEF Preempts
    <2>3. room.req[r] = s.req[r]
        BY <1>5, <2>2 DEF Preempts
    <2>4. n = BlocksToAdmit(room, r)
        BY <2>3 DEF BlocksToAdmit, n
    <2>5. Sound(room) /\ Suffice(room)
        BY <1>6 DEF Keeps
    <2>6. Keeps(room, Admitted(room, r, n))
        BY <1>7, <2>2, <2>4, <2>5, AdmittedKeeps
    <2> QED BY <1>6, <2>6, KeepsMore
<1>8. CASE st.stop \/ s.heap = {} \/ Len(s.running) >= MaxBatch
    BY <1>1, <1>6, <1>8 DEF s
<1>9. CASE /\ ~(st.stop \/ s.heap = {} \/ Len(s.running) >= MaxBatch)
           /\ made.ok /\ CanAllocate(room, n)
    <2>1. AdmitHead(st) = [sch |-> Admitted(room, r, n), stop |-> FALSE]
        BY <1>1, <1>9
    <2>2. AdmitHead(st).sch = Admitted(room, r, n)
        BY <2>1
    <2> QED BY <1>7, <1>9, <2>2 DEF s
<1>10. CASE /\ ~(st.stop \/ s.heap = {} \/ Len(s.running) >= MaxBatch)
            /\ ~(made.ok /\ CanAllocate(room, n))
    <2>1. AdmitHead(st) = [sch |-> room, stop |-> TRUE]
        BY <1>1, <1>10
    <2> QED BY <1>6, <2>1 DEF s
<1> QED BY <1>8, <1>9, <1>10

LEMMA AdmitTurns ==
    ASSUME NEW s, NEW n \in Nat, NumRequests = n
    PROVE  \E run : /\ run[0] = [sch |-> s, stop |-> FALSE]
                    /\ \A k \in 1 .. n : run[k] = AdmitHead(run[k - 1])
                    /\ Admit(s) = run[n].sch
<1> DEFINE Turn(t, i) == AdmitHead(t)
           Start == [sch |-> s, stop |-> FALSE]
           Run(a, m) == a = [i \in 0 .. m |-> IF i = 0 THEN Start ELSE Turn(a[i - 1], i)]
           T == {m \in Nat : \E a : Run(a, m)}
<1>0. Admit(s) = (CHOOSE a : Run(a, n))[n].sch
    BY DEF Admit, Turns
<1> HIDE DEF Turn, Start
<1>1. 0 \in T
    <2> DEFINE a == [i \in 0 .. 0 |-> Start]
    <2>1. Run(a, 0)
        OBVIOUS
    <2> QED BY <2>1
<1>2. ASSUME NEW m \in Nat, m \in T PROVE m + 1 \in T
    <2>1. PICK a : Run(a, m)
        BY <1>2
    <2> DEFINE b == [i \in 0 .. m + 1 |-> IF i <= m THEN a[i] ELSE Turn(a[m], i)]
    <2>2. ASSUME NEW i \in 0 .. m + 1 PROVE b[i] = IF i = 0 THEN Start ELSE Turn(b[i - 1], i)
        <3>1. CASE i = 0
            BY <3>1, <2>1
        <3>2. CASE i # 0 /\ i <= m
            BY <3>2, <2>1
        <3>3. CASE i = m + 1
            BY <3>3
        <3> QED BY <3>1, <3>2, <3>3
    <2>3. Run(b, m + 1)
        BY <2>2
    <2> HIDE DEF b, Run
    <2> QED BY <2>3
<1> HIDE DEF T
<1>3. n \in T
    BY <1>1, <1>2, Induction
<1>4. \E a : Run(a, n)
    BY <1>3 DEF T
<1> DEFINE run == CHOOSE a : Run(a, n)
<1>5. Run(run, n)
    <2> HIDE DEF Run
    <2> QED BY <1>4
<1>6. Admit(s) = run[n].sch
    BY <1>0
<1> HIDE DEF run
<1>7. /\ run[0] = Start
      /\ \A i \in 1 .. n : run[i] = Turn(run[i - 1], i)
    BY <1>5
<1> QED BY <1>6, <1>7 DEF Turn, Start

LEMMA AdmitKeeps ==
    ASSUME NEW s, Sound(s), Suffice(s)
    PROVE  Keeps(s, Admit(s))
<1> DEFINE n == NumRequests
<1>1. n \in Nat
    BY SchedulerAssumption
<1>2. PICK run : /\ run[0] = [sch |-> s, stop |-> FALSE]
                 /\ \A k \in 1 .. n : run[k] = AdmitHead(run[k - 1])
                 /\ Admit(s) = run[n].sch
    BY <1>1, AdmitTurns
<1> HIDE DEF n
<1> DEFINE T == {k \in 0 .. n : Keeps(s, run[k].sch)}
<1>3. 0 \in T
    <2>1. Keeps(s, s)
        BY PreemptsNobody, PreemptsKeeps
    <2>2. run[0].sch = s
        BY <1>2
    <2> QED BY <1>1, <2>1, <2>2
<1>4. ASSUME NEW k \in 1 .. n, k - 1 \in T PROVE k \in T
    <2> DEFINE st == run[k - 1]
    <2>1. Keeps(s, st.sch) /\ run[k] = AdmitHead(st)
        BY <1>2, <1>4
    <2> HIDE DEF st
    <2>2. Sound(st.sch) /\ Suffice(st.sch)
        BY <2>1 DEF Keeps
    <2>3. Keeps(st.sch, run[k].sch)
        BY <2>1, <2>2, AdmitHeadKeeps
    <2>4. Keeps(s, run[k].sch)
        BY <2>1, <2>3, KeepsMore
    <2> QED BY <1>1, <2>4
<1> HIDE DEF T
<1>5. n \in T
    BY <1>1, <1>3, <1>4, LoopInduction
<1> QED BY <1>2, <1>5 DEF T

\* Who has not ended and is still there has not ended.
LEMMA EndedIsKept ==
    ASSUME NEW s, NEW t, Sound(s), Keeps(s, t), \A r \in Live(s) : ~Ended(s, r)
    PROVE  \A r \in Live(t) : ~Ended(t, r)
<1>1. Live(t) \subseteq Live(s) /\ Live(s) \subseteq Request
    BY Types DEF Keeps, Sound, Live
<1>2. \A r \in Request : Kept(t.req[r]) = Kept(s.req[r])
    BY DEF Keeps, SameWork
<1> QED BY <1>1, <1>2 DEF Ended

\* The sweep and schedule() together.  Those that ended are taken out, so that
\* nobody who has ended is left.
LEMMA BeginKeeps ==
    ASSUME NEW s, Sound(s), Suffice(s), NEW R, NEW t,
           t = Scheduled(CancelPending(CancelRunning([s EXCEPT !.finished = <<>>], R), R))
    PROVE  /\ Keeps(s, t)
           /\ (\A r \in Waiting(s) : ~Ended(s, r)) => \A r \in Live(t) : ~Ended(t, r)
<1> DEFINE a == [s EXCEPT !.finished = <<>>]
           b == CancelRunning(a, R)
           c == CancelPending(b, R)
           over == {r \in ToSet(c.running) : IsFinished(c, r)}
           d == MoveFinished(c)
           e == Readmit(d)
<1>1. Keeps(s, a) /\ Waiting(a) = Waiting(s)
    BY ForgetKeeps
<1>2. t = Admit(e) /\ d = Leave(c, over) /\ b = Leave(a, R \cap ToSet(a.running))
    BY DEF Scheduled, MoveFinished, CancelRunning
<1> HIDE DEF a
<1>3. Keeps(a, b) /\ Waiting(b) = Waiting(a)
    <2>1. Sound(a) /\ Suffice(a) /\ R \cap ToSet(a.running) \in SUBSET ToSet(a.running)
        BY <1>1 DEF Keeps
    <2> QED BY <1>2, <2>1, LeaveKeeps
<1> HIDE DEF b
<1>4. Keeps(b, c) /\ Waiting(c) \subseteq Waiting(b)
    <2>1. Sound(b) /\ Suffice(b)
        BY <1>3 DEF Keeps
    <2> QED BY <2>1, CancelPendingKeeps
<1> HIDE DEF c
<1>5. Sound(c) /\ Suffice(c)
    BY <1>4 DEF Keeps
<1>6. /\ Keeps(c, d) /\ Waiting(d) = Waiting(c)
      /\ ToSet(d.running) = ToSet(c.running) \ over
      /\ \A r \in Request \ over : d.req[r] = c.req[r]
    <2>1. over \in SUBSET ToSet(c.running)
        OBVIOUS
    <2> HIDE DEF over
    <2> QED BY <1>2, <1>5, <2>1, LeaveKeeps
<1> HIDE DEF d
<1>7. Keeps(d, e)
    <2>1. Sound(d) /\ Suffice(d)
        BY <1>6 DEF Keeps
    <2> QED BY <2>1, ReadmitKeeps
<1> HIDE DEF e
<1>8. Keeps(e, t)
    <2>1. Sound(e) /\ Suffice(e)
        BY <1>7 DEF Keeps
    <2> QED BY <1>2, <2>1, AdmitKeeps
<1>9. Keeps(s, d)
    <2>1. Keeps(s, b)
        BY <1>1, <1>3, KeepsMore
    <2>2. Keeps(s, c)
        BY <1>4, <2>1, KeepsMore
    <2> QED BY <1>6, <2>2, KeepsMore
<1>10. Keeps(d, t)
    BY <1>7, <1>8, KeepsMore
<1>11. ASSUME \A r \in Waiting(s) : ~Ended(s, r) PROVE \A r \in Live(t) : ~Ended(t, r)
    <2>1. Sound(d) /\ d \in SchedulerType /\ c \in SchedulerType
        BY <1>5, <1>6 DEF Keeps, Sound
    <2>2. ASSUME NEW r \in Live(d) PROVE ~Ended(d, r)
        <3>1. CASE r \in Waiting(d)
            <4>1. r \in Waiting(s) /\ r \in Request
                BY <1>1, <1>3, <1>4, <1>6, <2>1, <3>1, Types DEF Waiting
            <4>2. Kept(d.req[r]) = Kept(s.req[r])
                BY <1>9, <4>1 DEF Keeps, SameWork
            <4> QED BY <1>11, <4>1, <4>2 DEF Ended
        <3>2. CASE r \in ToSet(d.running)
            <4>1. r \in ToSet(c.running) /\ ~IsFinished(c, r) /\ r \in Request /\ r \notin over
                BY <1>6, <2>1, <3>2, Types
            <4>2. c.req[r].saved = NoSave /\ d.req[r] = c.req[r]
                BY <1>5, <1>6, <4>1 DEF Sound, Queues
            <4>3. Kept(d.req[r]).out = c.req[r].out
                BY <4>2 DEF Kept
            <4> QED BY <4>1, <4>3 DEF Ended, IsFinished, StoppedOnToken
        <3> QED BY <2>2, <3>1, <3>2 DEF Live, Waiting
    <2> QED BY <1>10, <2>1, <2>2, EndedIsKept
<1>12. Keeps(s, t)
    BY <1>9, <1>10, KeepsMore
<1> QED BY <1>11, <1>12

LEMMA BatchTurns ==
    ASSUME NEW s, NEW n \in Nat, Len(s.running) = n
    PROVE  \E run : /\ run[0] = [batch |-> <<>>, budget |-> MaxPrefill]
                    /\ \A k \in 1 .. n : run[k] = BatchTurn(s, run[k - 1], k)
                    /\ BatchOf(s) = run[n].batch
<1> DEFINE Turn(t, i) == BatchTurn(s, t, i)
           Start == [batch |-> <<>>, budget |-> MaxPrefill]
           Run(a, m) == a = [i \in 0 .. m |-> IF i = 0 THEN Start ELSE Turn(a[i - 1], i)]
           T == {m \in Nat : \E a : Run(a, m)}
<1>0. BatchOf(s) = (CHOOSE a : Run(a, n))[n].batch
    BY DEF BatchOf, Turns
<1> HIDE DEF Turn, Start
<1>1. 0 \in T
    <2> DEFINE a == [i \in 0 .. 0 |-> Start]
    <2>1. Run(a, 0)
        OBVIOUS
    <2> QED BY <2>1
<1>2. ASSUME NEW m \in Nat, m \in T PROVE m + 1 \in T
    <2>1. PICK a : Run(a, m)
        BY <1>2
    <2> DEFINE b == [i \in 0 .. m + 1 |-> IF i <= m THEN a[i] ELSE Turn(a[m], i)]
    <2>2. ASSUME NEW i \in 0 .. m + 1 PROVE b[i] = IF i = 0 THEN Start ELSE Turn(b[i - 1], i)
        <3>1. CASE i = 0
            BY <3>1, <2>1
        <3>2. CASE i # 0 /\ i <= m
            BY <3>2, <2>1
        <3>3. CASE i = m + 1
            BY <3>3
        <3> QED BY <3>1, <3>2, <3>3
    <2>3. Run(b, m + 1)
        BY <2>2
    <2> HIDE DEF b, Run
    <2> QED BY <2>3
<1> HIDE DEF T
<1>3. n \in T
    BY <1>1, <1>2, Induction
<1>4. \E a : Run(a, n)
    BY <1>3 DEF T
<1> DEFINE run == CHOOSE a : Run(a, n)
<1>5. Run(run, n)
    <2> HIDE DEF Run
    <2> QED BY <1>4
<1>6. BatchOf(s) = run[n].batch
    BY <1>0
<1> HIDE DEF run
<1>7. /\ run[0] = Start
      /\ \A i \in 1 .. n : run[i] = Turn(run[i - 1], i)
    BY <1>5
<1> QED BY <1>6, <1>7 DEF Turn, Start

LEMMA BatchEntryType ==
    ASSUME NEW s \in SchedulerType, NEW r \in Request, NEW budget \in Int
    PROVE  BatchEntry(s, r, budget) \in BatchEntries
<1> DEFINE q == s.req[r]
           left == PromptLen[r] - q.prog
           chunk == Min({left, budget})
<1>1. PromptLen[r] \in Nat \ {0} /\ q.prog \in Nat /\ Len(q.out) \in Nat
    <2>1. q \in RequestType
        BY Types
    <2> QED BY <2>1, RequestTypes, SchedulerAssumption
<1>2. left \in Int
    BY <1>1
<1>3. chunk \in Int
    <2> HIDE DEF left
    <2> QED BY <1>2, MinOfTwo
<1>4. Total(s, r) - 1 \in Nat
    BY <1>1 DEF Total
<1>5. BatchEntry(s, r, budget) =
        IF PrefillComplete(s, r)
          THEN [req |-> r, kind |-> "decode", from |-> Total(s, r) - 1, count |-> 1]
        ELSE IF chunk <= 0
          THEN [req |-> r, kind |-> "fallback", from |-> q.prog, count |-> 1]
        ELSE [req |-> r, kind |-> "prefill", from |-> q.prog, count |-> chunk]
    BY DEF BatchEntry
<1> HIDE DEF q, left, chunk
<1>6. CASE PrefillComplete(s, r)
    BY <1>4, <1>5, <1>6 DEF BatchEntries
<1>7. CASE ~PrefillComplete(s, r) /\ chunk <= 0
    BY <1>1, <1>5, <1>7 DEF BatchEntries
<1>8. CASE ~PrefillComplete(s, r) /\ ~(chunk <= 0)
    <2>1. chunk \in Nat
        BY <1>3, <1>8
    <2> QED BY <1>1, <1>5, <1>8, <2>1 DEF BatchEntries
<1> QED BY <1>6, <1>7, <1>8

LEMMA BatchOfType ==
    ASSUME NEW s \in SchedulerType
    PROVE  BatchOf(s) \in Seq(BatchEntries)
<1> DEFINE n == Len(s.running)
<1>1. n \in Nat /\ \A i \in 1 .. n : s.running[i] \in Request
    BY Types, Elements
<1>2. PICK run : /\ run[0] = [batch |-> <<>>, budget |-> MaxPrefill]
                 /\ \A k \in 1 .. n : run[k] = BatchTurn(s, run[k - 1], k)
                 /\ BatchOf(s) = run[n].batch
    BY <1>1, BatchTurns
<1> HIDE DEF n
<1> DEFINE T == {k \in 0 .. n : run[k].batch \in Seq(BatchEntries) /\ run[k].budget \in Int}
<1>3. 0 \in T
    <2>1. run[0].batch = <<>> /\ run[0].budget = MaxPrefill
        BY <1>2
    <2>2. <<>> \in Seq(BatchEntries) /\ MaxPrefill \in Int
        BY SchedulerAssumption
    <2>3. 0 \in 0 .. n /\ run[0].batch \in Seq(BatchEntries) /\ run[0].budget \in Int
        BY <1>1, <2>1, <2>2
    <2> QED BY ONLY <2>3
<1>4. ASSUME NEW k \in 1 .. n, k - 1 \in T PROVE k \in T
    <2> DEFINE st == run[k - 1]
               e  == BatchEntry(s, s.running[k], st.budget)
    <2>1. st.batch \in Seq(BatchEntries) /\ st.budget \in Int
        BY <1>4
    <2>2. run[k] = [ batch  |-> Append(st.batch, e),
                     budget |-> st.budget - (IF e.kind = "prefill" THEN e.count ELSE 0) ]
        BY <1>2 DEF BatchTurn
    <2> HIDE DEF st
    <2>3. e \in BatchEntries
        BY <1>1, <2>1, BatchEntryType
    <2> HIDE DEF e
    <2>4. e.count \in Int
        BY <2>3 DEF BatchEntries
    <2>5. /\ run[k].batch = Append(st.batch, e)
          /\ run[k].budget = st.budget - (IF e.kind = "prefill" THEN e.count ELSE 0)
        BY <2>2
    <2>6. Append(st.batch, e) \in Seq(BatchEntries)
        BY <2>1, <2>3, Appended
    <2>7. run[k].budget \in Int
        BY <2>1, <2>4, <2>5
    <2>8. k \in 0 .. n /\ run[k].batch \in Seq(BatchEntries)
        BY <1>1, <2>5, <2>6
    <2> QED BY ONLY <2>7, <2>8
<1> HIDE DEF T
<1>5. n \in T
    BY <1>1, <1>3, <1>4, LoopInduction
<1> QED BY <1>2, <1>5 DEF T

-----------------------------------------------------------------------------
(* The second half of a step. *)

\* A request gets n free blocks.
LEMMA GiveIs ==
    ASSUME NEW s, Sound(s), NEW r \in Request, NEW n \in Nat, CanAllocate(s, n),
           NEW t, t = Give(s, r, n)
    PROVE  /\ Sound(t)
           /\ t.heap = s.heap /\ t.running = s.running /\ t.preempted = s.preempted
           /\ t.finished = s.finished
           /\ \A p \in Request \ {r} : t.req[p] = s.req[p]
           /\ t.req[r].out = s.req[r].out /\ t.req[r].status = s.req[r].status
           /\ Kept(t.req[r]) = Kept(s.req[r])
           /\ Cardinality(t.req[r].blocks) = Cardinality(s.req[r].blocks) + n
           /\ Conserved(s) /\ r \in ToSet(s.running) => Conserved(t)
<1> DEFINE q   == s.req[r]
           got == Lowest(s.free, n)
           p   == [q EXCEPT !.blocks = @ \cup got]
           free == s.free \ got
           req == [s.req EXCEPT ![r] = p]
<1>1. /\ s \in SchedulerType /\ Queues(s) /\ Disjoint(s)
      /\ s.free \in SUBSET KVBlock /\ s.req \in [Request -> RequestType] /\ q \in RequestType
    BY Types DEF Sound
<1>2. got \subseteq s.free /\ IsFiniteSet(got) /\ Cardinality(got) = n
    BY <1>1, LowestTakes DEF CanAllocate
<1>3. q.blocks \in SUBSET KVBlock /\ IsFiniteSet(q.blocks) /\ Cardinality(q.blocks) \in Nat
    BY <1>1, RequestTypes
<1>4. q.blocks \cap s.free = {}
    BY <1>1 DEF Disjoint
<1> HIDE DEF got
<1>5. Cardinality(q.blocks \cup got) = Cardinality(q.blocks) + n
    <2>1. q.blocks \cap got = {}
        BY <1>2, <1>4
    <2>2. Cardinality(q.blocks \cup got) = Cardinality(q.blocks) + Cardinality(got) - Cardinality(q.blocks \cap got)
        BY <1>2, <1>3, FS_Union
    <2>3. Cardinality(q.blocks \cap got) = 0
        BY <2>1, FS_EmptySet
    <2> QED BY <1>2, <1>3, <2>2, <2>3
<1>6. /\ p \in RequestType /\ p.blocks = q.blocks \cup got /\ p.status = q.status /\ p.saved = q.saved
      /\ p.out = q.out /\ p.prog = q.prog
    BY <1>1, <1>2, <1>3 DEF RequestType
<1>7. t = [s EXCEPT !.free = free, !.req = req]
    BY <1>1 DEF Give, SchedulerType, got
<1> HIDE DEF p
<1>8. /\ req \in [Request -> RequestType] /\ req[r] = p
      /\ \A a \in Request \ {r} : req[a] = s.req[a]
    BY <1>1, <1>6
<1>9. free \in SUBSET KVBlock /\ \A b : b \in free <=> b \in s.free /\ b \notin got
    BY <1>1
<1> HIDE DEF free, req
<1>10. /\ t \in SchedulerType /\ t.heap = s.heap /\ t.preempted = s.preempted
       /\ t.running = s.running /\ t.finished = s.finished /\ t.free = free /\ t.req = req
    BY <1>1, <1>7, <1>8, <1>9 DEF SchedulerType
<1>11. /\ t.req[r].out = q.out /\ t.req[r].status = q.status /\ t.req[r].saved = q.saved
       /\ t.req[r].blocks = q.blocks \cup got /\ Kept(t.req[r]) = Kept(q)
    BY <1>6, <1>8, <1>10 DEF Kept
<1>12. \A a \in Request \ {r} : t.req[a] = s.req[a]
    BY <1>8, <1>10
<1>13. \A a \in Request : /\ t.req[a].status = s.req[a].status /\ t.req[a].saved = s.req[a].saved
                          /\ t.req[a].out = s.req[a].out
    BY <1>11, <1>12
<1>14. Queues(t)
    BY <1>1, <1>10, <1>13 DEF Queues
<1>15. Disjoint(t)
    <2>1. \A a \in Request : /\ s.req[a].blocks \cap s.free = {}
                             /\ \A b \in Request \ {a} : s.req[a].blocks \cap s.req[b].blocks = {}
        BY <1>1, Zenon DEF Disjoint
    <2>2. ASSUME NEW a \in Request PROVE t.req[a].blocks \cap t.free = {}
        <3>1. s.req[a].blocks \cap s.free = {} /\ t.req[a].blocks \subseteq s.req[a].blocks \cup got
            BY <1>11, <1>12, <2>1
        <3> QED BY <1>9, <1>10, <3>1
    <2>3. ASSUME NEW a \in Request, NEW b \in Request \ {a} PROVE t.req[a].blocks \cap t.req[b].blocks = {}
        <3>1. s.req[a].blocks \cap s.req[b].blocks = {} /\ s.req[a].blocks \cap got = {}
              /\ s.req[b].blocks \cap got = {}
            BY <1>2, <2>1
        <3>2. /\ t.req[a].blocks = IF a = r THEN s.req[a].blocks \cup got ELSE s.req[a].blocks
              /\ t.req[b].blocks = IF b = r THEN s.req[b].blocks \cup got ELSE s.req[b].blocks
            BY <1>11, <1>12
        <3> QED BY <3>1, <3>2
    <2> QED BY <2>2, <2>3, Zenon DEF Disjoint
<1>16. ASSUME Conserved(s), r \in ToSet(s.running) PROVE Conserved(t)
    <2>1. ASSUME NEW b \in KVBlock PROVE b \in t.free \cup UNION {t.req[a].blocks : a \in Request}
        <3>1. CASE b \in s.free
            <4>1. b \in t.free \/ b \in t.req[r].blocks
                BY <1>9, <1>10, <1>11, <3>1
            <4> QED BY <4>1
        <3>2. ASSUME NEW a \in Request, b \in s.req[a].blocks PROVE b \in t.req[a].blocks
            BY <1>11, <1>12, <3>2
        <3> QED BY <1>16, <3>1, <3>2 DEF Conserved
    <2>2. \A a \in Request : a \notin ToSet(t.running) => t.req[a].blocks = {}
        BY <1>10, <1>12, <1>16 DEF Conserved
    <2> QED BY <2>1, <2>2 DEF Conserved
<1> QED BY <1>5, <1>10, <1>11, <1>12, <1>14, <1>15, <1>16 DEF Sound

\* What the blocks of one more token make of s: somebody may be preempted.
Makes(s, t) ==
    /\ Sound(t)
    /\ t.heap = s.heap /\ t.finished = s.finished
    /\ SameWork(s, t)
    /\ Len(s.preempted) <= Len(t.preempted)
    /\ Len(s.preempted) = Len(t.preempted) =>
          /\ t.running = s.running /\ t.preempted = s.preempted
          /\ Conserved(s) => Conserved(t)

\* A request with one more token gets the blocks it lacks, or ends.
LEMMA ExtendMakes ==
    ASSUME NEW s, Sound(s), NEW r \in ToSet(s.running),
           \A p \in ToSet(s.running) \ {r} : Enough(s, p)
    PROVE  Makes(s, Extend(s, r)) /\ Suffice(Extend(s, r))
<1> DEFINE need    == BlocksFor(Total(s, r))
           has     == Cardinality(s.req[r].blocks)
           deficit == need - has
           made    == TryPreempt(s, deficit)
           v       == made.sch
<1>1. SUFFICES ASSUME NEW t, t = Extend(s, r) PROVE Makes(s, t) /\ Suffice(t)
    OBVIOUS
<1>2. t = IF deficit <= 0 THEN s
          ELSE IF CanAllocate(s, deficit) THEN Give(s, r, deficit)
          ELSE IF made.ok /\ CanAllocate(v, deficit) THEN Give(v, r, deficit)
          ELSE [v EXCEPT !.req[r].status = "finished"]
    BY <1>1 DEF Extend
<1>3. /\ s \in SchedulerType /\ Queues(s) /\ ToSet(s.running) \subseteq Request /\ r \in Request
      /\ s.req \in [Request -> RequestType]
    BY Types DEF Sound
<1>4. need \in Nat /\ has \in Nat
    <2>1. s.req[r] \in RequestType
        BY <1>3
    <2>2. Len(s.req[r].out) \in Nat /\ has \in Nat
        BY <2>1, RequestTypes
    <2>3. PromptLen[r] \in Nat
        BY <1>3, SchedulerAssumption
    <2>4. Total(s, r) \in Nat
        BY <2>2, <2>3 DEF Total
    <2> QED BY <2>2, <2>4, BlocksForType
<1>5. Preempts(s, v) /\ Preempts(s, s)
    BY TryPreemptPreempts, PreemptsNobody
<1> HIDE DEF need, has, made, v
<1>6. \A p \in ToSet(v.running) : p \in ToSet(s.running) /\ v.req[p] = s.req[p]
    <2>1. ToSet(v.running) \subseteq ToSet(s.running)
        BY <1>5 DEF Preempts
    <2> QED BY <1>3, <1>5, <2>1 DEF Preempts
<1>7. CASE deficit <= 0
    <2>1. t = s
        BY <1>2, <1>7
    <2>2. has >= need
        BY <1>4, <1>7
    <2>3. Enough(s, r)
        BY <2>2 DEF Enough, has, need
    <2>4. Suffice(s)
        BY <2>3 DEF Suffice
    <2>5. Makes(s, s)
        BY <1>5 DEF Makes, Preempts
    <2> QED BY <2>1, <2>4, <2>5
\* Blocks are taken, be it after preemptions.
<1>8. ASSUME NEW w, Preempts(s, w), CanAllocate(w, deficit), ~(deficit <= 0), t = Give(w, r, deficit),
             \A p \in ToSet(w.running) : p \in ToSet(s.running) /\ w.req[p] = s.req[p]
      PROVE  Makes(s, t) /\ Suffice(t)
    <2>1. deficit \in Nat
        BY <1>4, <1>8
    <2>2. Sound(w) /\ w.heap = s.heap /\ w.finished = s.finished /\ SameWork(s, w)
        BY <1>8 DEF Preempts
    <2> HIDE DEF deficit
    <2>3. /\ Sound(t)
          /\ t.heap = w.heap /\ t.running = w.running /\ t.preempted = w.preempted
          /\ t.finished = w.finished
          /\ \A p \in Request \ {r} : t.req[p] = w.req[p]
          /\ t.req[r].out = w.req[r].out /\ t.req[r].status = w.req[r].status
          /\ Kept(t.req[r]) = Kept(w.req[r])
          /\ Cardinality(t.req[r].blocks) = Cardinality(w.req[r].blocks) + deficit
          /\ Conserved(w) /\ r \in ToSet(w.running) => Conserved(t)
        BY <1>3, <1>8, <2>1, <2>2, GiveIs
    <2>4. SameWork(s, t)
        <3>1. \A p \in Request : /\ Kept(t.req[p]) = Kept(w.req[p])
                                 /\ t.req[p].status = w.req[p].status
            BY <2>3
        <3> QED BY <2>2, <3>1 DEF SameWork
    <2>5. Suffice(t)
        <3> SUFFICES ASSUME NEW p \in ToSet(t.running) PROVE Enough(t, p)
            BY DEF Suffice
        <3>1. p \in ToSet(s.running) /\ w.req[p] = s.req[p] /\ p \in Request
            BY <1>3, <1>8, <2>3
        <3>2. CASE p = r
            <4>1. Cardinality(t.req[r].blocks) = has + deficit
                BY <2>3, <3>1, <3>2 DEF has
            <4>2. Total(t, r) = Total(s, r)
                BY <2>3, <3>1, <3>2 DEF Total
            <4>3. has + deficit = need
                BY <1>4 DEF deficit
            <4>4. Cardinality(t.req[p].blocks) = BlocksFor(Total(t, p))
                BY <3>2, <4>1, <4>2, <4>3 DEF need
            <4>5. BlocksFor(Total(t, p)) \in Nat
                BY <1>4, <3>2, <4>2 DEF need
            <4> QED BY <4>4, <4>5 DEF Enough
        <3>3. CASE p # r
            <4>1. t.req[p] = s.req[p] /\ Enough(s, p)
                BY <2>3, <3>1, <3>3
            <4> QED BY <4>1, EnoughIsOwn
        <3> QED BY <3>2, <3>3
    <2>6. Len(s.preempted) <= Len(t.preempted)
        BY <1>8, <2>3 DEF Preempts
    <2>7. ASSUME Len(s.preempted) = Len(t.preempted)
          PROVE  /\ t.running = s.running /\ t.preempted = s.preempted
                 /\ Conserved(s) => Conserved(t)
        <3>1. w = s
            BY <1>8, <2>3, <2>7 DEF Preempts
        <3> QED BY <2>3, <3>1
    <2> QED BY <2>2, <2>3, <2>4, <2>5, <2>6, <2>7 DEF Makes
<1>9. CASE ~(deficit <= 0) /\ CanAllocate(s, deficit)
    BY <1>2, <1>3, <1>5, <1>8, <1>9
<1>10. CASE ~(deficit <= 0) /\ ~CanAllocate(s, deficit) /\ made.ok /\ CanAllocate(v, deficit)
    BY <1>2, <1>5, <1>6, <1>8, <1>10
<1>11. CASE ~(deficit <= 0) /\ ~CanAllocate(s, deficit) /\ ~(made.ok /\ CanAllocate(v, deficit))
    <2> DEFINE p == [v.req[r] EXCEPT !.status = "finished"]
    <2>1. t = [v EXCEPT !.req[r].status = "finished"]
        BY <1>2, <1>11
    <2>2. /\ Sound(v) /\ v.heap = s.heap /\ v.finished = s.finished /\ SameWork(s, v)
          /\ v \in SchedulerType /\ Queues(v) /\ Disjoint(v)
        BY <1>5 DEF Preempts, Sound
    <2>3. v.req \in [Request -> RequestType] /\ v.req[r] \in RequestType
        BY <1>3, <2>2, Types
    <2>4. /\ p \in RequestType /\ p.status = "finished" /\ p.blocks = v.req[r].blocks
          /\ p.saved = v.req[r].saved /\ p.out = v.req[r].out /\ p.prog = v.req[r].prog
        BY <2>3 DEF RequestType
    <2>5. t = [v EXCEPT !.req = [v.req EXCEPT ![r] = p]]
        BY <2>1, <2>2 DEF SchedulerType
    <2> HIDE DEF p
    <2>6. /\ t \in SchedulerType /\ t.heap = v.heap /\ t.preempted = v.preempted
          /\ t.running = v.running /\ t.finished = v.finished /\ t.free = v.free
          /\ t.req[r] = p /\ \A a \in Request \ {r} : t.req[a] = v.req[a]
        BY <1>3, <2>2, <2>3, <2>4, <2>5 DEF SchedulerType
    <2>7. r \notin v.heap
        BY <1>3, <2>2 DEF Queues
    <2>8. Queues(t)
        <3>1. IsInjective(t.running) /\ IsInjective(t.preempted) /\ IsInjective(t.finished)
            BY <2>2, <2>6 DEF Queues
        <3>2. \A a \in Request : /\ t.req[a].saved = v.req[a].saved /\ t.req[a].out = v.req[a].out
                                 /\ t.req[a].status = IF a = r THEN "finished" ELSE v.req[a].status
            BY <2>4, <2>6
        <3> QED BY <2>2, <2>6, <2>7, <3>1, <3>2 DEF Queues
    <2>9. Kept(p) = Kept(v.req[r])
        BY <2>4 DEF Kept
    <2>10. \A a \in Request : Kept(t.req[a]) = Kept(v.req[a]) /\ t.req[a].blocks = v.req[a].blocks
        BY <2>4, <2>6, <2>9
    <2>11. Disjoint(t) /\ (Conserved(v) => Conserved(t))
        BY <2>2, <2>6, <2>10 DEF Disjoint, Conserved
    <2>12. SameWork(s, t)
        <3>1. v.req[r].status # "new"
            <4>1. s.req[r].status # "new"
                BY <1>3 DEF Queues
            <4> QED BY <1>3, <2>2, <4>1 DEF SameWork
        <3>2. \A a \in Request : t.req[a].status = "new" <=> v.req[a].status = "new"
            BY <2>4, <2>6, <3>1
        <3> QED BY <2>2, <2>10, <3>2 DEF SameWork
    <2>13. Suffice(t)
        <3> SUFFICES ASSUME NEW a \in ToSet(t.running) PROVE Enough(t, a)
            BY DEF Suffice
        <3>1. a \in ToSet(s.running) /\ v.req[a] = s.req[a] /\ a \in Request
            BY <1>3, <1>6, <2>6
        <3>2. CASE a = r
            BY <2>4, <2>6, <3>2 DEF Enough, IsFinished
        <3>3. CASE a # r
            <4>1. t.req[a] = s.req[a] /\ Enough(s, a)
                BY <2>6, <3>1, <3>3
            <4> QED BY <4>1, EnoughIsOwn
        <3> QED BY <3>2, <3>3
    <2>14. Len(s.preempted) <= Len(t.preempted)
        BY <1>5, <2>6 DEF Preempts
    <2>15. ASSUME Len(s.preempted) = Len(t.preempted)
           PROVE  /\ t.running = s.running /\ t.preempted = s.preempted
                  /\ Conserved(s) => Conserved(t)
        <3>1. v = s
            BY <1>5, <2>6, <2>15 DEF Preempts
        <3> QED BY <2>6, <2>11, <3>1
    <2> QED BY <2>2, <2>6, <2>8, <2>11, <2>12, <2>13, <2>14, <2>15 DEF Makes, Sound
<1> QED BY <1>7, <1>9, <1>10, <1>11

LEMMA PrefixIs ==
    ASSUME NEW S, NEW s \in Seq(S), NEW t \in Seq(S)
    PROVE  IsPrefix(s, t) <=> Len(s) <= Len(t) /\ \A i \in 1 .. Len(s) : s[i] = t[i]
<1>1. Len(s) \in Nat /\ Len(t) \in Nat /\ \A i \in 1 .. Len(s) : s[i] \in S
    BY Elements
<1>2. SubSeq(s, 1, Len(s)) = [i \in 1 .. Len(s) |-> s[i]]
    BY <1>1
<1>3. ASSUME Len(s) <= Len(t) PROVE SubSeq(t, 1, Len(s)) = [i \in 1 .. Len(s) |-> t[i]]
    BY <1>1, <1>3
<1> DEFINE f == [i \in 1 .. Len(s) |-> s[i]]
           g == [i \in 1 .. Len(s) |-> t[i]]
<1>4. f = g <=> \A i \in 1 .. Len(s) : s[i] = t[i]
    <2>1. ASSUME f = g, NEW i \in 1 .. Len(s) PROVE s[i] = t[i]
        <3>1. f[i] = s[i] /\ g[i] = t[i]
            OBVIOUS
        <3> QED BY <2>1, <3>1
    <2> QED BY <2>1
<1> QED BY <1>2, <1>3, <1>4 DEF IsPrefix

LEMMA PrefixOfAppend ==
    ASSUME NEW S, NEW s \in Seq(S), NEW e \in S
    PROVE  IsPrefix(s, s) /\ IsPrefix(s, Append(s, e))
<1>1. Append(s, e) \in Seq(S) /\ Len(Append(s, e)) = Len(s) + 1 /\ Len(s) \in Nat
    BY Appended, Elements
<1>2. \A i \in 1 .. Len(s) : Append(s, e)[i] = s[i]
    BY AppendProperties
<1>3. IsPrefix(s, Append(s, e))
    <2> DEFINE t == Append(s, e)
    <2>1. t \in Seq(S) /\ Len(s) <= Len(t) /\ \A i \in 1 .. Len(s) : s[i] = t[i]
        BY <1>1, <1>2
    <2> HIDE DEF t
    <2>2. IsPrefix(s, t)
        BY <2>1, PrefixIs
    <2> QED BY <2>2 DEF t
<1>4. IsPrefix(s, s)
    BY <1>1, PrefixIs
<1> QED BY <1>3, <1>4

LEMMA PrefixOfPrefix ==
    ASSUME NEW S, NEW s \in Seq(S), NEW t \in Seq(S), NEW u \in Seq(S),
           IsPrefix(s, t), IsPrefix(t, u)
    PROVE  IsPrefix(s, u)
<1>1. Len(s) \in Nat /\ Len(t) \in Nat /\ Len(u) \in Nat
    BY Elements
<1>2. Len(s) <= Len(t) /\ \A i \in 1 .. Len(s) : s[i] = t[i]
    BY PrefixIs
<1>3. Len(t) <= Len(u) /\ \A i \in 1 .. Len(t) : t[i] = u[i]
    BY PrefixIs
<1>4. Len(s) <= Len(u) /\ \A i \in 1 .. Len(s) : s[i] = u[i]
    BY <1>1, <1>2, <1>3
<1> QED BY <1>4, PrefixIs

\* A token for one running request: the request's prefill and its output grow.
LEMMA UpdateOneGrows ==
    ASSUME NEW s, Sound(s), Suffice(s), NEW r \in ToSet(s.running), NEW token \in Token,
           NEW t, t = UpdateOne(s, r, token)
    PROVE  /\ Sound(t) /\ Suffice(t)
           /\ t.heap = s.heap /\ t.finished = s.finished
           /\ \A p \in Request \ {r} : Kept(t.req[p]) = Kept(s.req[p])
           /\ Kept(t.req[r]).out = Append(Kept(s.req[r]).out, token)
           /\ Kept(t.req[r]).prog >= Kept(s.req[r]).prog
           /\ \A p \in Request : t.req[p].status = "new" <=> s.req[p].status = "new"
           /\ Len(s.preempted) <= Len(t.preempted)
           /\ Len(s.preempted) = Len(t.preempted) =>
                 /\ t.running = s.running /\ t.preempted = s.preempted
                 /\ Conserved(s) => Conserved(t)
<1> DEFINE q == s.req[r]
           left == PromptLen[r] - q.prog
           chunk == Min({left, MaxPrefill})
           more == Max({chunk, 1})
           far == Min({q.prog + more, PromptLen[r]})
           k == IF PrefillComplete(s, r) THEN q.prog ELSE far
           p == [[q EXCEPT !.prog = k] EXCEPT !.out = Append(@, token)]
           a == Advance(s, r)
           u == [a EXCEPT !.req[r].out = Append(@, token)]
<1>1. /\ s \in SchedulerType /\ Queues(s) /\ Disjoint(s) /\ r \in Request
      /\ ToSet(s.running) \subseteq Request
      /\ s.req \in [Request -> RequestType] /\ q \in RequestType
    BY Types DEF Sound
<1>2. /\ q.saved = NoSave /\ q.status \in {"running", "finished"}
    BY <1>1 DEF Queues
<1>3. q.prog \in Nat /\ q.out \in Seq(Token) /\ PromptLen[r] \in Nat /\ MaxPrefill \in Nat
    BY <1>1, RequestTypes, SchedulerAssumption
<1>4. k \in Nat /\ k >= q.prog
    <2>1. left \in Int
        BY <1>3
    <2> HIDE DEF left
    <2>2. chunk \in Int
        <3>1. MaxPrefill \in Int
            BY <1>3
        <3>2. Min({left, MaxPrefill}) \in {left, MaxPrefill}
            BY ONLY <2>1, <3>1, MinOfTwo
        <3> QED BY <2>1, <3>1, <3>2
    <2> HIDE DEF chunk
    <2>3. more \in Int /\ more >= 1
        <3>1. 1 \in Int
            OBVIOUS
        <3>2. Max({chunk, 1}) \in {chunk, 1} /\ Max({chunk, 1}) >= 1
            BY <2>2, <3>1, MinOfTwo
        <3> QED BY <2>2, <3>2
    <2> HIDE DEF more
    <2>4. ASSUME ~PrefillComplete(s, r) PROVE far \in Nat /\ far >= q.prog
        <3>1. q.prog + more \in Nat /\ q.prog + more >= q.prog
            BY <1>3, <2>3
        <3>2. q.prog < PromptLen[r]
            BY <1>3, <2>4 DEF PrefillComplete
        <3> DEFINE x == q.prog + more
        <3>4. x \in Int /\ PromptLen[r] \in Int
            BY <1>3, <3>1
        <3> HIDE DEF x
        <3>3. Min({x, PromptLen[r]}) \in {x, PromptLen[r]}
            BY ONLY <3>4, MinOfTwo
        <3> QED BY <1>3, <3>1, <3>2, <3>3 DEF x
    <2> HIDE DEF far
    <2> QED BY <1>3, <2>4
<1>5. a = [s EXCEPT !.req = [s.req EXCEPT ![r] = [q EXCEPT !.prog = k]]]
    <2>1. CASE PrefillComplete(s, r)
        <3>1. a = s /\ k = q.prog
            BY <2>1 DEF Advance
        <3>2. [q EXCEPT !.prog = q.prog] = q
            BY <1>1 DEF RequestType
        <3>3. [s.req EXCEPT ![r] = q] = s.req
            BY <1>1
        <3>4. [s EXCEPT !.req = s.req] = s
            BY <1>1 DEF SchedulerType
        <3> QED BY <3>1, <3>2, <3>3, <3>4
    <2>2. CASE ~PrefillComplete(s, r)
        BY <1>1, <2>2 DEF Advance, SchedulerType
    <2> QED BY <2>1, <2>2
<1> HIDE DEF a, k
<1>6. Append(q.out, token) \in Seq(Token)
    BY <1>3, Appended
<1>7. /\ p \in RequestType /\ p.status = q.status /\ p.blocks = q.blocks /\ p.saved = NoSave
      /\ p.out = Append(q.out, token) /\ p.prog = k
    BY <1>1, <1>2, <1>4, <1>6 DEF RequestType
<1>8. u = [s EXCEPT !.req = [s.req EXCEPT ![r] = p]]
    <2> DEFINE q1 == [q EXCEPT !.prog = k]
    <2>1. a.req = [s.req EXCEPT ![r] = q1] /\ a.req[r] = q1
        BY <1>1, <1>5 DEF SchedulerType
    <2>2. p = [a.req[r] EXCEPT !.out = Append(@, token)]
        BY <2>1
    <2> HIDE DEF q1, p
    <2>3. u = [a EXCEPT !.req = [a.req EXCEPT ![r] = p]]
        BY <1>1, <1>5, <2>2 DEF SchedulerType
    <2>4. [a.req EXCEPT ![r] = p] = [s.req EXCEPT ![r] = p]
        BY <1>1, <2>1
    <2> QED BY <1>1, <1>5, <2>3, <2>4 DEF SchedulerType
<1> HIDE DEF p, u
<1>9. /\ u \in SchedulerType /\ u.heap = s.heap /\ u.preempted = s.preempted
      /\ u.running = s.running /\ u.finished = s.finished /\ u.free = s.free
      /\ u.req[r] = p /\ \A x \in Request \ {r} : u.req[x] = s.req[x]
    BY <1>1, <1>7, <1>8 DEF SchedulerType
<1>10. \A x \in Request : /\ u.req[x].status = s.req[x].status /\ u.req[x].saved = s.req[x].saved
                          /\ u.req[x].blocks = s.req[x].blocks
                          /\ x # r => u.req[x].out = s.req[x].out
    BY <1>2, <1>7, <1>9
<1>11. Sound(u)
    <2>1. Queues(u)
        BY <1>1, <1>2, <1>9, <1>10 DEF Queues
    <2>2. Disjoint(u)
        BY <1>1, <1>9, <1>10 DEF Disjoint
    <2> QED BY <1>9, <2>1, <2>2 DEF Sound
<1>12. \A x \in ToSet(u.running) \ {r} : Enough(u, x)
    <2> SUFFICES ASSUME NEW x \in ToSet(s.running) \ {r} PROVE Enough(u, x)
        BY <1>9
    <2>1. Enough(s, x) /\ s.req[x] = u.req[x]
        BY <1>1, <1>9 DEF Suffice
    <2> QED BY <2>1, EnoughIsOwn
<1>13. Makes(u, t) /\ Suffice(t)
    <2>1. t = Extend(u, r)
        BY DEF UpdateOne, u, a
    <2> QED BY <1>9, <1>11, <1>12, <2>1, ExtendMakes
<1>14. /\ Kept(u.req[r]).out = Append(Kept(s.req[r]).out, token)
       /\ Kept(u.req[r]).prog >= Kept(s.req[r]).prog
    BY <1>2, <1>4, <1>7, <1>9 DEF Kept
<1>15. Conserved(s) => Conserved(u)
    BY <1>9, <1>10 DEF Conserved
<1> HIDE DEF q
<1>16. \A x \in Request : /\ Kept(t.req[x]) = Kept(u.req[x])
                          /\ t.req[x].status = "new" <=> u.req[x].status = "new"
    BY <1>13 DEF Makes, SameWork
<1> QED BY <1>1, <1>9, <1>10, <1>13, <1>14, <1>15, <1>16 DEF Makes

\* What the first n turns of update_after_step make of s.
Grew(s, t, n) ==
    /\ Sound(t) /\ Suffice(t)
    /\ t.heap = s.heap /\ t.finished = s.finished
    /\ \A r \in Request :
          /\ IsPrefix(Kept(s.req[r]).out, Kept(t.req[r]).out)
          /\ Kept(s.req[r]).prog <= Kept(t.req[r]).prog
          /\ t.req[r].status = "new" <=> s.req[r].status = "new"
    /\ Len(s.preempted) <= Len(t.preempted)
    /\ Len(s.preempted) = Len(t.preempted) =>
          /\ t.running = s.running /\ t.preempted = s.preempted
          /\ Conserved(s) => Conserved(t)
          /\ \A r \in Request :
                \/ Kept(t.req[r]).out = Kept(s.req[r]).out
                \/ /\ \E i \in 1 .. n : r = s.running[i]
                   /\ \E token \in Token : Kept(t.req[r]).out = Append(Kept(s.req[r]).out, token)

LEMMA TurnGrows ==
    ASSUME NEW s, Sound(s), NEW n \in Nat, n = Len(s.running), NEW i \in 1 .. n,
           NEW t, Grew(s, t, i - 1), NEW D, NEW tokens \in [D -> Token],
           NEW u, u = UpdateTurn(t, tokens, i)
    PROVE  Grew(s, u, i)
<1>1. /\ s \in SchedulerType /\ IsInjective(s.running) /\ DOMAIN s.running = 1 .. n
    BY Types, Elements DEF Sound, Queues
<1>2. \A j \in 1 .. n : s.running[j] = s.running[i] => j = i
    BY <1>1 DEF IsInjective
<1>3. /\ t \in SchedulerType /\ Sound(t) /\ Suffice(t) /\ t.req \in [Request -> RequestType]
      /\ \A k \in DOMAIN t.running : t.running[k] \in ToSet(t.running)
      /\ ToSet(t.running) \subseteq Request
    BY Types, Elements DEF Grew, Sound
<1>4. \A j \in 1 .. i - 1 : j \in 1 .. i /\ j \in 1 .. n /\ j # i
    OBVIOUS
<1>5. CASE ~(i \in DOMAIN t.running /\ t.running[i] \in DOMAIN tokens)
    <2>1. u = t
        BY <1>5 DEF UpdateTurn
    <2> QED BY <2>1, <1>4 DEF Grew
<1>6. CASE i \in DOMAIN t.running /\ t.running[i] \in DOMAIN tokens
    <2> DEFINE r == t.running[i]
               token == tokens[r]
    <2>1. r \in ToSet(t.running) /\ token \in Token /\ r \in Request /\ u = UpdateOne(t, r, token)
        BY <1>3, <1>6 DEF UpdateTurn
    <2> HIDE DEF token
    <2>2. /\ Sound(u) /\ Suffice(u)
          /\ u.heap = t.heap /\ u.finished = t.finished
          /\ \A p \in Request \ {r} : Kept(u.req[p]) = Kept(t.req[p])
          /\ Kept(u.req[r]).out = Append(Kept(t.req[r]).out, token)
          /\ Kept(u.req[r]).prog >= Kept(t.req[r]).prog
          /\ \A p \in Request : u.req[p].status = "new" <=> t.req[p].status = "new"
          /\ Len(t.preempted) <= Len(u.preempted)
          /\ Len(t.preempted) = Len(u.preempted) =>
                /\ u.running = t.running /\ u.preempted = t.preempted
                /\ Conserved(t) => Conserved(u)
        <3> HIDE DEF r
        <3> QED BY <1>3, <2>1, UpdateOneGrows
    <2>3. ASSUME NEW p \in Request PROVE
          /\ IsPrefix(Kept(s.req[p]).out, Kept(u.req[p]).out)
          /\ Kept(s.req[p]).prog <= Kept(u.req[p]).prog
          /\ u.req[p].status = "new" <=> s.req[p].status = "new"
        <3>1. /\ IsPrefix(Kept(s.req[p]).out, Kept(t.req[p]).out)
              /\ Kept(s.req[p]).prog <= Kept(t.req[p]).prog
              /\ t.req[p].status = "new" <=> s.req[p].status = "new"
            BY DEF Grew
        <3>2. u.req[p].status = "new" <=> s.req[p].status = "new"
            BY <2>2, <3>1
        <3>3. CASE p # r
            BY <2>2, <3>1, <3>2, <3>3
        <3>4. CASE p = r
            <4>1. /\ Kept(s.req[p]) \in [out : Seq(Token), prog : Nat]
                  /\ Kept(t.req[p]) \in [out : Seq(Token), prog : Nat]
                  /\ Kept(u.req[p]) \in [out : Seq(Token), prog : Nat]
                <5>1. /\ s.req[p] \in RequestType /\ t.req[p] \in RequestType
                      /\ u.req[p] \in RequestType
                    BY <1>1, <1>3, <2>2, Types DEF Sound
                <5> QED BY <5>1, RequestTypes
            <4>2. IsPrefix(Kept(t.req[p]).out, Append(Kept(t.req[p]).out, token))
                BY <2>1, <4>1, PrefixOfAppend
            <4>3. IsPrefix(Kept(t.req[p]).out, Kept(u.req[p]).out)
                BY <2>2, <3>4, <4>2
            <4>4. IsPrefix(Kept(s.req[p]).out, Kept(u.req[p]).out)
                BY <3>1, <4>1, <4>3, PrefixOfPrefix
            <4>5. Kept(s.req[p]).prog <= Kept(u.req[p]).prog
                <5>1. Kept(t.req[p]).prog <= Kept(u.req[p]).prog
                    BY <2>2, <3>4, <4>1
                <5> QED BY <3>1, <4>1, <5>1
            <4> QED BY <3>2, <4>4, <4>5
        <3> QED BY <3>3, <3>4
    <2>4. Len(s.preempted) \in Nat /\ Len(t.preempted) \in Nat /\ Len(u.preempted) \in Nat
        BY <1>1, <1>3, <2>2, Types, Elements DEF Sound
    <2>5. Len(s.preempted) <= Len(t.preempted)
        BY DEF Grew
    <2>6. Len(t.preempted) <= Len(u.preempted) /\ Len(s.preempted) <= Len(u.preempted)
        <3>1. Len(t.preempted) <= Len(u.preempted)
            BY ONLY <2>2
        <3> QED BY ONLY <2>4, <2>5, <3>1
    <2>7. ASSUME Len(s.preempted) = Len(u.preempted)
          PROVE  /\ u.running = s.running /\ u.preempted = s.preempted
                 /\ Conserved(s) => Conserved(u)
                 /\ \A p \in Request :
                       \/ Kept(u.req[p]).out = Kept(s.req[p]).out
                       \/ /\ \E j \in 1 .. i : p = s.running[j]
                          /\ \E tok \in Token : Kept(u.req[p]).out = Append(Kept(s.req[p]).out, tok)
        <3>1. Len(t.preempted) = Len(s.preempted) /\ Len(t.preempted) = Len(u.preempted)
            BY ONLY <2>4, <2>5, <2>6, <2>7
        <3>2. /\ t.running = s.running /\ t.preempted = s.preempted
              /\ Conserved(s) => Conserved(t)
              /\ \A p \in Request :
                    \/ Kept(t.req[p]).out = Kept(s.req[p]).out
                    \/ /\ \E j \in 1 .. i - 1 : p = s.running[j]
                       /\ \E tok \in Token : Kept(t.req[p]).out = Append(Kept(s.req[p]).out, tok)
            BY <3>1 DEF Grew
        <3>3. ASSUME NEW p \in Request PROVE
                 \/ Kept(u.req[p]).out = Kept(s.req[p]).out
                 \/ /\ \E j \in 1 .. i : p = s.running[j]
                    /\ \E tok \in Token : Kept(u.req[p]).out = Append(Kept(s.req[p]).out, tok)
            <4>1. CASE p # r
                <5>1. Kept(u.req[p]) = Kept(t.req[p])
                    BY <2>2, <4>1
                <5> QED BY <1>4, <3>2, <5>1
            <4>2. CASE p = r
                <5>1. p = s.running[i] /\ i \in 1 .. i
                    BY <3>2, <4>2
                <5>2. Kept(t.req[p]).out = Kept(s.req[p]).out
                    BY <1>2, <1>4, <3>2, <5>1
                <5>3. Kept(u.req[p]).out = Append(Kept(s.req[p]).out, token)
                    BY <2>2, <4>2, <5>2
                <5> QED BY <2>1, <5>1, <5>3
            <4> QED BY <4>1, <4>2
        <3> QED BY <2>2, <3>1, <3>2, <3>3
    <2>8. u.heap = s.heap /\ u.finished = s.finished
        BY <2>2 DEF Grew
    <2> QED BY <2>2, <2>3, <2>6, <2>7, <2>8 DEF Grew
<1> QED BY <1>5, <1>6

LEMMA UpdatedTurns ==
    ASSUME NEW s, NEW tokens, NEW n \in Nat, Len(s.running) = n
    PROVE  \E run : /\ run[0] = s
                    /\ \A i \in 1 .. n : run[i] = UpdateTurn(run[i - 1], tokens, i)
                    /\ Updated(s, tokens) = run[n]
<1> DEFINE Turn(t, i) == UpdateTurn(t, tokens, i)
           Start == s
           Run(a, m) == a = [i \in 0 .. m |-> IF i = 0 THEN Start ELSE Turn(a[i - 1], i)]
           T == {m \in Nat : \E a : Run(a, m)}
<1>0. Updated(s, tokens) = (CHOOSE a : Run(a, n))[n]
    BY DEF Updated, Turns
<1> HIDE DEF Turn, Start
<1>1. 0 \in T
    <2> DEFINE a == [i \in 0 .. 0 |-> Start]
    <2>1. Run(a, 0)
        OBVIOUS
    <2> QED BY <2>1
<1>2. ASSUME NEW m \in Nat, m \in T PROVE m + 1 \in T
    <2>1. PICK a : Run(a, m)
        BY <1>2
    <2> DEFINE b == [i \in 0 .. m + 1 |-> IF i <= m THEN a[i] ELSE Turn(a[m], i)]
    <2>2. ASSUME NEW i \in 0 .. m + 1 PROVE b[i] = IF i = 0 THEN Start ELSE Turn(b[i - 1], i)
        <3>1. CASE i = 0
            BY <3>1, <2>1
        <3>2. CASE i # 0 /\ i <= m
            BY <3>2, <2>1
        <3>3. CASE i = m + 1
            BY <3>3
        <3> QED BY <3>1, <3>2, <3>3
    <2>3. Run(b, m + 1)
        BY <2>2
    <2> HIDE DEF b, Run
    <2> QED BY <2>3
<1> HIDE DEF T
<1>3. n \in T
    BY <1>1, <1>2, Induction
<1>4. \E a : Run(a, n)
    BY <1>3 DEF T
<1> DEFINE run == CHOOSE a : Run(a, n)
<1>5. Run(run, n)
    <2> HIDE DEF Run
    <2> QED BY <1>4
<1>6. Updated(s, tokens) = run[n]
    BY <1>0
<1> HIDE DEF run
<1>7. /\ run[0] = Start
      /\ \A i \in 1 .. n : run[i] = Turn(run[i - 1], i)
    BY <1>5
<1> QED BY <1>6, <1>7 DEF Turn, Start

LEMMA UpdatedGrows ==
    ASSUME NEW s, Sound(s), Suffice(s), NEW D, NEW tokens \in [D -> Token]
    PROVE  Grew(s, Updated(s, tokens), Len(s.running))
<1> DEFINE n == Len(s.running)
<1>1. n \in Nat /\ n = Len(s.running) /\ s \in SchedulerType
    BY Types, Elements DEF Sound
<1>2. PICK run : /\ run[0] = s
                 /\ \A i \in 1 .. n : run[i] = UpdateTurn(run[i - 1], tokens, i)
                 /\ Updated(s, tokens) = run[n]
    BY <1>1, UpdatedTurns
<1> HIDE DEF n
<1> DEFINE T == {i \in 0 .. n : Grew(s, run[i], i)}
<1>3. 0 \in T
    <2>1. \A r \in Request : /\ IsPrefix(Kept(s.req[r]).out, Kept(s.req[r]).out)
                             /\ Kept(s.req[r]).prog <= Kept(s.req[r]).prog
        <3> SUFFICES ASSUME NEW r \in Request
                     PROVE  /\ IsPrefix(Kept(s.req[r]).out, Kept(s.req[r]).out)
                            /\ Kept(s.req[r]).prog <= Kept(s.req[r]).prog
            OBVIOUS
        <3>1. s.req[r] \in RequestType
            BY <1>1, Types
        <3>2. Kept(s.req[r]) \in [out : Seq(Token), prog : Nat]
            BY <3>1, RequestTypes
        <3>3. Kept(s.req[r]).out \in Seq(Token) /\ Kept(s.req[r]).prog \in Nat /\ "tok" \in Token
            BY <3>2 DEF Token
        <3> QED BY <3>3, PrefixOfAppend
    <2>2. Len(s.preempted) \in Nat
        BY <1>1, Types, Elements
    <2>3. Grew(s, s, 0)
        BY <2>1, <2>2 DEF Grew
    <2> QED BY <1>1, <1>2, <2>3
<1>4. ASSUME NEW i \in 1 .. n, i - 1 \in T PROVE i \in T
    <2>1. Grew(s, run[i - 1], i - 1) /\ run[i] = UpdateTurn(run[i - 1], tokens, i)
        BY <1>2, <1>4
    <2>2. Grew(s, run[i], i)
        BY <1>1, <2>1, TurnGrows
    <2> QED BY <1>1, <2>2
<1> HIDE DEF T
<1>5. n \in T
    <2>1. n \in Nat
        BY <1>1
    <2> QED BY ONLY <2>1, <1>3, <1>4, LoopInduction
<1> QED BY <1>2, <1>5 DEF T, n

-----------------------------------------------------------------------------
(* Requests that come, and a forward pass that fails. *)

\* What an arrival makes of s: request r is no longer new, nothing else changes.
Arrives(s, t, r) ==
    /\ Sound(t) /\ Suffice(t)
    /\ Conserved(s) => Conserved(t)
    /\ ToSet(t.running) = ToSet(s.running)
    /\ Waiting(t) \subseteq Waiting(s) \cup {r}
    /\ t.req[r].status # "new"
    /\ Kept(t.req[r]).out = Kept(s.req[r]).out
    /\ \A p \in Request \ {r} : t.req[p] = s.req[p]

\* Whatever an arrival does to the queues, r was in none.
LEMMA ArrivesSoundly ==
    ASSUME NEW s, Sound(s), Suffice(s), NEW r \in Request, s.req[r].status = "new",
           NEW t, t \in SchedulerType, t.free = s.free,
           NEW p, p \in RequestType, p.status \in {"pending", "finished"},
           p.blocks = s.req[r].blocks, p.saved = s.req[r].saved, p.out = s.req[r].out,
           t.req[r] = p, \A a \in Request \ {r} : t.req[a] = s.req[a],
           t.heap = IF p.status = "pending" THEN s.heap \cup {r} ELSE s.heap,
           ToSet(t.running) = ToSet(s.running), ToSet(t.preempted) = ToSet(s.preempted),
           ToSet(t.finished) = ToSet(s.finished),
           IsInjective(t.running), IsInjective(t.preempted), IsInjective(t.finished)
    PROVE  Arrives(s, t, r)
<1>1. /\ s \in SchedulerType /\ Queues(s) /\ Disjoint(s) /\ ToSet(s.running) \subseteq Request
    BY Types DEF Sound
<1>2. /\ r \notin s.heap /\ r \notin ToSet(s.running) /\ r \notin ToSet(s.preempted)
      /\ r \notin ToSet(s.finished)
    BY <1>1 DEF Queues
<1>3. Queues(t)
    <2>1. ASSUME NEW a \in Request PROVE
          /\ a \in t.heap <=> t.req[a].status = "pending"
          /\ t.req[a].status = "preempted" => a \in ToSet(t.preempted)
          /\ a \in ToSet(t.running) =>
                /\ t.req[a].status \in {"running", "finished"} /\ t.req[a].saved = NoSave
                /\ a \notin ToSet(t.preempted) \cup ToSet(t.finished)
          /\ a \in ToSet(t.preempted) =>
                /\ t.req[a].status \in {"preempted", "finished"} /\ t.req[a].saved # NoSave
                /\ a \notin ToSet(t.finished)
          /\ a \in ToSet(t.finished) => t.req[a].status = "finished"
          /\ t.req[a].status \in {"new", "pending"} /\ t.req[a].saved = NoSave => t.req[a].out = <<>>
        <3>1. CASE a = r
            <4>1. s.req[r].saved = NoSave => s.req[r].out = <<>>
                BY <1>1 DEF Queues
            <4> QED BY <1>2, <3>1, <4>1
        <3>2. CASE a # r
            <4>1. t.req[a] = s.req[a] /\ (a \in t.heap <=> a \in s.heap)
                BY <3>2
            <4> QED BY <1>1, <4>1 DEF Queues
        <3> QED BY <3>1, <3>2
    <2> QED BY <2>1 DEF Queues
<1>4. \A a \in Request : t.req[a].blocks = s.req[a].blocks
    OBVIOUS
<1>5. Disjoint(t) /\ (Conserved(s) => Conserved(t))
    BY <1>1, <1>4 DEF Disjoint, Conserved
<1>6. Suffice(t)
    <2> SUFFICES ASSUME NEW a \in ToSet(s.running) PROVE Enough(t, a)
        BY DEF Suffice
    <2>1. t.req[a] = s.req[a] /\ Enough(s, a)
        BY <1>1, <1>2 DEF Suffice
    <2> QED BY <2>1, EnoughIsOwn
<1>7. Waiting(t) \subseteq Waiting(s) \cup {r}
    BY DEF Waiting
<1>8. Kept(p).out = Kept(s.req[r]).out
    BY DEF Kept
<1> QED BY <1>3, <1>5, <1>6, <1>7, <1>8 DEF Arrives, Sound

LEMMA AddArrives ==
    ASSUME NEW s, Sound(s), Suffice(s), NEW r \in Request, s.req[r].status = "new", NEW k \in Nat
    PROVE  Arrives(s, SetReused(AddRequest(s, r), r, k), r)
<1> DEFINE q == s.req[r]
           p == [[q EXCEPT !.status = "pending"] EXCEPT !.prog = k]
           t == SetReused(AddRequest(s, r), r, k)
<1>1. /\ s \in SchedulerType /\ Queues(s) /\ q \in RequestType
      /\ s.heap \in SUBSET Request /\ s.req \in [Request -> RequestType]
    BY Types DEF Sound
<1>2. /\ p \in RequestType /\ p.status = "pending" /\ p.blocks = q.blocks
      /\ p.saved = q.saved /\ p.out = q.out
    BY <1>1 DEF RequestType
<1>3. t = [s EXCEPT !.heap = @ \cup {r}, !.req = [s.req EXCEPT ![r] = p]]
    <2> DEFINE a == [s EXCEPT !.heap = s.heap \cup {r},
                              !.req = [s.req EXCEPT ![r] = [q EXCEPT !.status = "pending"]]]
    <2>1. AddRequest(s, r) = a
        BY <1>1 DEF AddRequest, SchedulerType
    <2>2. /\ a.req = [s.req EXCEPT ![r] = [q EXCEPT !.status = "pending"]]
          /\ a.req[r] = [q EXCEPT !.status = "pending"]
        BY <1>1 DEF SchedulerType
    <2>3. t = [a EXCEPT !.req[r].prog = k]
        BY <2>1 DEF SetReused
    <2>4. p = [a.req[r] EXCEPT !.prog = k]
        BY <2>2
    <2> HIDE DEF p, t
    <2>5. t = [a EXCEPT !.req = [a.req EXCEPT ![r] = p]]
        BY <1>1, <2>3, <2>4 DEF SchedulerType
    <2>6. [a.req EXCEPT ![r] = p] = [s.req EXCEPT ![r] = p]
        BY <1>1, <2>2
    <2> QED BY <1>1, <2>5, <2>6 DEF SchedulerType
<1> HIDE DEF p, t
<1>4. /\ t \in SchedulerType /\ t.heap = s.heap \cup {r} /\ t.running = s.running
      /\ t.preempted = s.preempted /\ t.finished = s.finished /\ t.free = s.free
      /\ t.req[r] = p /\ \A a \in Request \ {r} : t.req[a] = s.req[a]
    BY <1>1, <1>2, <1>3 DEF SchedulerType
<1>5. IsInjective(s.running) /\ IsInjective(s.preempted) /\ IsInjective(s.finished)
    BY <1>1 DEF Queues
<1>6. Arrives(s, t, r)
    BY <1>2, <1>4, <1>5, ArrivesSoundly
<1> QED BY <1>6 DEF t

LEMMA AddFailsArrives ==
    ASSUME NEW s, Sound(s), Suffice(s), NEW r \in Request, s.req[r].status = "new"
    PROVE  Arrives(s, RemoveRequest(AddRequest(s, r), r), r)
<1> DEFINE q == s.req[r]
           p == [q EXCEPT !.status = "finished"]
           t == RemoveRequest(AddRequest(s, r), r)
           running   == Without(s.running, {r})
           preempted == Without(s.preempted, {r})
           finished  == Without(s.finished, {r})
<1>1. /\ s \in SchedulerType /\ Queues(s) /\ q \in RequestType
      /\ s.heap \in SUBSET Request /\ s.req \in [Request -> RequestType]
      /\ s.running \in Seq(Request) /\ s.preempted \in Seq(Request) /\ s.finished \in Seq(Request)
    BY Types DEF Sound
<1>2. /\ p \in RequestType /\ p.status = "finished" /\ p.blocks = q.blocks
      /\ p.saved = q.saved /\ p.out = q.out
    BY <1>1 DEF RequestType
<1>3. /\ r \notin s.heap /\ r \notin ToSet(s.running) /\ r \notin ToSet(s.preempted)
      /\ r \notin ToSet(s.finished)
      /\ IsInjective(s.running) /\ IsInjective(s.preempted) /\ IsInjective(s.finished)
    BY <1>1 DEF Queues
<1>4. /\ running \in Seq(Request) /\ ToSet(running) = ToSet(s.running) /\ IsInjective(running)
      /\ preempted \in Seq(Request) /\ ToSet(preempted) = ToSet(s.preempted) /\ IsInjective(preempted)
      /\ finished \in Seq(Request) /\ ToSet(finished) = ToSet(s.finished) /\ IsInjective(finished)
    <2>1. ASSUME NEW x \in Seq(Request), r \notin ToSet(x), IsInjective(x)
          PROVE  /\ Without(x, {r}) \in Seq(Request) /\ ToSet(Without(x, {r})) = ToSet(x)
                 /\ IsInjective(Without(x, {r}))
        <3>1. /\ Without(x, {r}) \in Seq(Request) /\ ToSet(Without(x, {r})) = ToSet(x) \ {r}
              /\ IsInjective(x) => IsInjective(Without(x, {r}))
            BY ONLY <2>1, WithoutIs
        <3> QED BY <2>1, <3>1
    <2> QED BY <1>1, <1>3, <2>1
<1> HIDE DEF running, preempted, finished
<1>5. t = [s EXCEPT !.req = [s.req EXCEPT ![r] = p], !.running = running, !.preempted = preempted,
                    !.finished = finished]
    <2> DEFINE q1 == [q EXCEPT !.status = "pending"]
               a == [s EXCEPT !.heap = s.heap \cup {r}, !.req = [s.req EXCEPT ![r] = q1]]
    <2>1. AddRequest(s, r) = a
        BY <1>1 DEF AddRequest, SchedulerType
    <2>2. /\ a.req = [s.req EXCEPT ![r] = q1] /\ a.req[r] = q1 /\ r \in a.heap
          /\ a.heap \ {r} = s.heap
          /\ a.running = s.running /\ a.preempted = s.preempted /\ a.finished = s.finished
        BY <1>1, <1>3 DEF SchedulerType
    <2>3. [q1 EXCEPT !.status = "finished"] = p
        BY <1>1 DEF RequestType
    <2> HIDE DEF p, q1
    <2>4. t = [a EXCEPT !.req[r].status = "finished", !.heap = s.heap, !.running = running,
                        !.preempted = preempted, !.finished = finished]
        BY <1>1, <2>1, <2>2 DEF RemoveRequest, SchedulerType, running, preempted, finished
    <2>5. [a.req EXCEPT ![r] = p] = [s.req EXCEPT ![r] = p]
        BY <1>1, <2>2
    <2>6. t = [a EXCEPT !.req = [a.req EXCEPT ![r] = p], !.heap = s.heap, !.running = running,
                        !.preempted = preempted, !.finished = finished]
        BY <1>1, <2>2, <2>3, <2>4 DEF SchedulerType
    <2> QED BY <1>1, <2>5, <2>6 DEF SchedulerType
<1> HIDE DEF p, t
<1>6. /\ t \in SchedulerType /\ t.heap = s.heap /\ t.running = running
      /\ t.preempted = preempted /\ t.finished = finished /\ t.free = s.free
      /\ t.req[r] = p /\ \A a \in Request \ {r} : t.req[a] = s.req[a]
    BY <1>1, <1>2, <1>4, <1>5 DEF SchedulerType
<1>7. Arrives(s, t, r)
    BY <1>2, <1>4, <1>6, ArrivesSoundly
<1> QED BY <1>7 DEF t

LEMMA DropRunningKeeps ==
    ASSUME NEW s, Sound(s), Suffice(s)
    PROVE  /\ Keeps(s, DropRunning(s)) /\ Waiting(DropRunning(s)) = Waiting(s)
           /\ DropRunning(s).running = <<>>
<1> DEFINE out  == ToSet(s.running)
           free == s.free \cup UNION {s.req[r].blocks : r \in out}
           bare(r) == [s.req[r] EXCEPT !.blocks = {}]
           req  == [r \in Request |-> IF r \in out THEN bare(r) ELSE s.req[r]]
<1>1. /\ s \in SchedulerType /\ Queues(s) /\ Disjoint(s) /\ out \in SUBSET Request
      /\ s.req \in [Request -> RequestType] /\ s.free \in SUBSET KVBlock
    BY Types DEF Sound
<1>2. \A r \in Request : /\ bare(r) \in RequestType /\ bare(r).status = s.req[r].status
                         /\ bare(r).blocks = {} /\ bare(r).saved = s.req[r].saved
                         /\ bare(r).out = s.req[r].out /\ Kept(bare(r)) = Kept(s.req[r])
    <2> SUFFICES ASSUME NEW r \in Request
                 PROVE  /\ bare(r) \in RequestType /\ bare(r).status = s.req[r].status
                        /\ bare(r).blocks = {} /\ bare(r).saved = s.req[r].saved
                        /\ bare(r).out = s.req[r].out /\ Kept(bare(r)) = Kept(s.req[r])
        OBVIOUS
    <2>1. s.req[r] \in RequestType
        BY <1>1
    <2>2. /\ bare(r) \in RequestType /\ bare(r).status = s.req[r].status
          /\ bare(r).blocks = {} /\ bare(r).saved = s.req[r].saved
          /\ bare(r).out = s.req[r].out /\ bare(r).prog = s.req[r].prog
        BY <2>1 DEF RequestType
    <2> HIDE DEF bare
    <2> QED BY <2>2 DEF Kept
<1> HIDE DEF bare
<1>3. SUFFICES ASSUME NEW t, t = DropRunning(s)
               PROVE  Keeps(s, t) /\ Waiting(t) = Waiting(s) /\ t.running = <<>>
    OBVIOUS
<1>4. t = [s EXCEPT !.running = <<>>, !.free = free, !.req = req]
    BY <1>1, <1>3 DEF DropRunning, SchedulerType, bare
<1>5. free \in SUBSET KVBlock
    <2>1. \A r \in out : s.req[r].blocks \in SUBSET KVBlock
        BY <1>1, RequestTypes
    <2> QED BY <1>1, <2>1
<1>6. req \in [Request -> RequestType]
    BY <1>1, <1>2
<1>7. /\ \A r \in out : req[r] = bare(r)
      /\ \A r \in Request \ out : req[r] = s.req[r]
    BY <1>1
<1>8. \A b : b \in free <=> b \in s.free \/ \E r \in out : b \in s.req[r].blocks
    OBVIOUS
<1>9. ToSet(<<>>) = {} /\ IsInjective(<<>>) /\ <<>> \in Seq(Request)
    BY DEF ToSet, IsInjective
<1> HIDE DEF free, req
<1>10. /\ t \in SchedulerType /\ t.heap = s.heap /\ t.preempted = s.preempted
       /\ t.running = <<>> /\ t.finished = s.finished /\ t.free = free /\ t.req = req
    BY <1>1, <1>4, <1>5, <1>6, <1>9 DEF SchedulerType
<1>11. \A r \in Request : /\ t.req[r].status = s.req[r].status /\ t.req[r].saved = s.req[r].saved
                          /\ t.req[r].out = s.req[r].out /\ Kept(t.req[r]) = Kept(s.req[r])
                          /\ t.req[r].blocks = IF r \in out THEN {} ELSE s.req[r].blocks
    BY <1>2, <1>7, <1>10
<1>12. Queues(t)
    BY <1>1, <1>9, <1>10, <1>11 DEF Queues
<1>13. Disjoint(t)
    <2>1. \A a \in Request : /\ s.req[a].blocks \cap s.free = {}
                             /\ \A b \in Request \ {a} : s.req[a].blocks \cap s.req[b].blocks = {}
        BY <1>1, Zenon DEF Disjoint
    <2>2. ASSUME NEW a \in Request PROVE t.req[a].blocks \cap t.free = {}
        <3>1. CASE a \in out
            BY <1>11, <3>1
        <3>2. CASE a \notin out
            <4>1. \A b \in out : s.req[a].blocks \cap s.req[b].blocks = {}
                BY <1>1, <2>1, <3>2
            <4> QED BY <1>8, <1>10, <1>11, <2>1, <3>2, <4>1
        <3> QED BY <3>1, <3>2
    <2>3. ASSUME NEW a \in Request, NEW b \in Request \ {a} PROVE t.req[a].blocks \cap t.req[b].blocks = {}
        <3>1. s.req[a].blocks \cap s.req[b].blocks = {}
            BY <2>1
        <3> QED BY <1>11, <3>1
    <2> QED BY <2>2, <2>3, Zenon DEF Disjoint
<1>14. Suffice(t) /\ SameWork(s, t)
    BY <1>9, <1>10, <1>11 DEF Suffice, SameWork
<1>15. ASSUME Conserved(s) PROVE Conserved(t)
    <2>1. ASSUME NEW b \in KVBlock PROVE b \in t.free \cup UNION {t.req[p].blocks : p \in Request}
        <3>1. CASE b \in s.free
            BY <1>8, <1>10, <3>1
        <3>2. ASSUME NEW p \in Request, b \in s.req[p].blocks PROVE b \in t.free \cup t.req[p].blocks
            BY <1>8, <1>10, <1>11, <3>2
        <3> QED BY <1>15, <3>1, <3>2 DEF Conserved
    <2>2. \A p \in Request : t.req[p].blocks = {}
        BY <1>11, <1>15 DEF Conserved
    <2> QED BY <2>1, <2>2 DEF Conserved
<1>16. Live(t) \subseteq Live(s) /\ Waiting(t) = Waiting(s)
    BY <1>9, <1>10 DEF Live, Waiting
<1> QED BY <1>10, <1>12, <1>13, <1>14, <1>15, <1>16 DEF Keeps, Sound

-----------------------------------------------------------------------------
(* The invariant. *)

\* Request r has not generated past its end.
Within(s, r) ==
    LET out == Kept(s.req[r]).out IN
    Len(out) <= MaxNew[r] /\ \A i \in 1 .. Len(out) - 1 : out[i] # "eos"

\* What holds as long as update_after_step has preempted nobody.
Steadily(s) ==
    /\ Conserved(s)
    /\ \A r \in Waiting(s) : ~Ended(s, r)
    /\ \A r \in Request : Within(s, r)
    /\ \A r \in Request : s.req[r].status = "new" => Kept(s.req[r]).out = <<>>

StateInv(s, n, b, st) ==
    /\ Sound(s) /\ Suffice(s)
    /\ \A r \in Request : r >= n => s.req[r].status = "new"
    /\ st => /\ Steadily(s)
             /\ b # <<>> => \A r \in ToSet(s.running) : ~Ended(s, r)

Inv == TypeOK /\ StateInv(sch, next, batch, steady)

LEMMA KeepsSteadily ==
    ASSUME NEW s, NEW t, Keeps(s, t), Steadily(s), \A r \in Waiting(t) : ~Ended(t, r)
    PROVE  Steadily(t)
<1>1. \A r \in Request : /\ Kept(t.req[r]) = Kept(s.req[r])
                         /\ t.req[r].status = "new" <=> s.req[r].status = "new"
    BY DEF Keeps, SameWork
<1>2. Conserved(t)
    BY DEF Keeps, Steadily
<1>3. \A r \in Request : Within(t, r)
    BY <1>1 DEF Steadily, Within
<1> QED BY <1>1, <1>2, <1>3 DEF Steadily

LEMMA ArrivesSteadily ==
    ASSUME NEW s, NEW t, NEW r \in Request, Sound(s), Arrives(s, t, r), Steadily(s),
           s.req[r].status = "new"
    PROVE  Steadily(t)
<1>1. /\ Conserved(t)
      /\ \A p \in Request : Kept(t.req[p]).out = Kept(s.req[p]).out
      /\ \A p \in Request : t.req[p].status = "new" => s.req[p].status = "new"
    BY DEF Arrives, Steadily
<1>2. ASSUME NEW p \in Waiting(t) PROVE ~Ended(t, p)
    <2>1. p \in Request
        BY Types DEF Arrives, Sound, Waiting
    <2>2. CASE p = r
        <3>1. Kept(t.req[p]).out = <<>> /\ MaxNew[p] \in Nat \ {0} /\ Len(<<>>) = 0
            BY <1>1, <2>2, SchedulerAssumption DEF Steadily
        <3> QED BY <3>1 DEF Ended
    <2>3. CASE p # r
        <3>1. ~Ended(s, p)
            BY <2>3 DEF Steadily, Arrives
        <3> QED BY <1>1, <2>1, <3>1 DEF Ended
    <2> QED BY <2>2, <2>3
<1>3. \A p \in Request : Within(t, p)
    BY <1>1 DEF Steadily, Within
<1> QED BY <1>1, <1>2, <1>3 DEF Steadily

\* A token more, for those that had not ended.
LEMMA GrewSteadily ==
    ASSUME NEW s, NEW t, Sound(s), Grew(s, t, Len(s.running)), t.preempted = s.preempted,
           Steadily(s), \A r \in ToSet(s.running) : ~Ended(s, r)
    PROVE  Steadily(t)
<1>1. /\ s \in SchedulerType /\ t \in SchedulerType /\ Queues(s)
      /\ \A i \in 1 .. Len(s.running) : s.running[i] \in ToSet(s.running)
      /\ s.req \in [Request -> RequestType] /\ t.req \in [Request -> RequestType]
      /\ Waiting(s) \subseteq Request
    BY Types, Elements DEF Sound, Grew, Waiting
<1>2. /\ t.heap = s.heap /\ Waiting(t) = Waiting(s)
      /\ Conserved(t)
      /\ \A r \in Request : t.req[r].status = "new" <=> s.req[r].status = "new"
    BY DEF Grew, Steadily, Waiting
<1>3. ASSUME NEW r \in Request
      PROVE  \/ Kept(t.req[r]).out = Kept(s.req[r]).out
             \/ /\ r \in ToSet(s.running)
                /\ \E token \in Token : Kept(t.req[r]).out = Append(Kept(s.req[r]).out, token)
    BY <1>1 DEF Grew
<1>4. \A r \in ToSet(s.running) : r \notin Waiting(s) /\ s.req[r].status # "new"
    <2>1. ToSet(s.running) \subseteq Request
        BY <1>1, Types
    <2> QED BY <1>1, <2>1 DEF Queues, Waiting
<1>5. ASSUME NEW r \in Request PROVE Within(t, r)
    <2> DEFINE o == Kept(s.req[r]).out
               u == Kept(t.req[r]).out
    <2>1. Within(s, r) /\ MaxNew[r] \in Nat
        BY SchedulerAssumption DEF Steadily
    <2>2. CASE u = o
        BY <2>1, <2>2 DEF Within
    <2>3. ASSUME r \in ToSet(s.running), NEW token \in Token, u = Append(o, token) PROVE Within(t, r)
        <3>1. s.req[r] \in RequestType
            BY <1>1
        <3>2. Kept(s.req[r]) \in [out : Seq(Token), prog : Nat]
            BY <3>1, RequestTypes
        <3>3. o \in Seq(Token) /\ Len(o) \in Nat
            BY <3>2
        <3>4. ~(Len(o) >= MaxNew[r]) /\ ~(o # <<>> /\ Last(o) = "eos")
            BY <2>3 DEF Ended
        <3>5. \A i \in 1 .. Len(o) - 1 : o[i] # "eos"
            BY <2>1 DEF Within
        <3> HIDE DEF o
        <3>6. Len(u) = Len(o) + 1 /\ \A i \in 1 .. Len(o) : u[i] = o[i]
            BY <2>3, <3>3, AppendProperties
        <3>7. ASSUME NEW i \in 1 .. Len(o) PROVE o[i] # "eos"
            <4>1. CASE i = Len(o)
                <5>1. o # <<>>
                    BY <3>3, <4>1
                <5> QED BY <3>4, <4>1, <5>1 DEF Last
            <4>2. CASE i # Len(o)
                BY <3>3, <3>5, <4>2
            <4> QED BY <4>1, <4>2
        <3>8. Len(u) <= MaxNew[r] /\ \A i \in 1 .. Len(u) - 1 : u[i] # "eos"
            BY <2>1, <3>3, <3>4, <3>6, <3>7
        <3> QED BY <3>8 DEF Within
    <2> QED BY <1>3, <2>2, <2>3
<1>6. ASSUME NEW r \in Waiting(t) PROVE ~Ended(t, r)
    <2>1. ~Ended(s, r) /\ r \in Request /\ r \notin ToSet(s.running)
        BY <1>1, <1>2, <1>4 DEF Steadily
    <2>2. Kept(t.req[r]).out = Kept(s.req[r]).out
        BY <1>3, <2>1
    <2> QED BY <2>1, <2>2 DEF Ended
<1>7. ASSUME NEW r \in Request, t.req[r].status = "new" PROVE Kept(t.req[r]).out = <<>>
    BY <1>2, <1>3, <1>4, <1>7 DEF Steadily
<1> QED BY <1>2, <1>5, <1>6, <1>7 DEF Steadily

LEMMA InvInit == Init => Inv
<1> SUFFICES ASSUME Init PROVE Inv
    OBVIOUS
<1> DEFINE s == InitScheduler
           q(r) == [ status |-> "new", prio |-> Priority[r], blocks |-> {}, out |-> <<>>,
                     prog |-> 0, saved |-> NoSave ]
<1>1. \A r \in Request : q(r) \in RequestType
    BY SchedulerAssumption DEF RequestType
<1>2. s.req = [r \in Request |-> q(r)]
    BY DEF InitScheduler
<1>3. /\ s \in SchedulerType
      /\ s.heap = {} /\ s.running = <<>> /\ s.finished = <<>> /\ s.preempted = <<>> /\ s.free = KVBlock
    <2>1. <<>> \in Seq(Request)
        OBVIOUS
    <2> QED BY <1>1, <2>1 DEF InitScheduler, SchedulerType
<1>4. \A r \in Request : /\ s.req[r].status = "new" /\ s.req[r].blocks = {} /\ s.req[r].out = <<>>
                         /\ s.req[r].saved = NoSave
    BY <1>2
<1> HIDE DEF s
<1>5. ToSet(<<>>) = {} /\ IsInjective(<<>>)
    BY DEF ToSet, IsInjective
<1>6. Queues(s) /\ Disjoint(s) /\ Suffice(s) /\ Conserved(s)
    BY <1>3, <1>4, <1>5 DEF Queues, Disjoint, Suffice, Conserved
<1>7. Waiting(s) = {} /\ ToSet(s.running) = {}
    BY <1>3, <1>5 DEF Waiting
<1>8. \A r \in Request : Kept(s.req[r]).out = <<>>
    BY <1>4 DEF Kept
<1>9. \A r \in Request : Within(s, r)
    <2>1. Len(<<>>) = 0 /\ \A r \in Request : MaxNew[r] \in Nat
        BY SchedulerAssumption
    <2> QED BY <1>8, <2>1 DEF Within
<1>10. Steadily(s)
    BY <1>6, <1>7, <1>8, <1>9 DEF Steadily
<1>11. StateInv(s, 0, <<>>, TRUE)
    BY <1>3, <1>4, <1>6, <1>7, <1>10 DEF StateInv, Sound
<1>12. 0 \in 0 .. NumRequests /\ <<>> \in Seq(BatchEntries)
    BY SchedulerAssumption
<1> QED BY <1>3, <1>11, <1>12 DEF Init, Inv, TypeOK, s

\* An arrival, of whichever kind.
LEMMA InvArrives ==
    ASSUME Inv, next < NumRequests, next \in Request => Arrives(sch, sch', next),
           next' = next + 1, UNCHANGED <<batch, steady>>
    PROVE  Inv'
<1>1. next \in Nat /\ next \in Request /\ next' \in 0 .. NumRequests /\ NumRequests \in Nat
    BY SchedulerAssumption DEF Inv, TypeOK, Request
<1>2. Arrives(sch, sch', next) /\ Sound(sch) /\ sch' \in SchedulerType
    BY <1>1 DEF Inv, StateInv, Arrives, Sound
<1>3. TypeOK'
    BY <1>1, <1>2 DEF Inv, TypeOK
<1>4. sch.req[next].status = "new"
    BY <1>1 DEF Inv, StateInv
<1>5. \A r \in Request : r >= next' => sch'.req[r].status = "new"
    <2> SUFFICES ASSUME NEW r \in Request, r >= next + 1 PROVE sch'.req[r].status = "new"
        OBVIOUS
    <2>1. r \in Int /\ r # next /\ r >= next
        BY <1>1 DEF Request
    <2> QED BY <1>2, <2>1 DEF Inv, StateInv, Arrives
<1>6. ASSUME steady
      PROVE  /\ Steadily(sch')
             /\ batch # <<>> => \A r \in ToSet(sch'.running) : ~Ended(sch', r)
    <2>1. Steadily(sch)
        BY <1>6 DEF Inv, StateInv
    <2>2. Steadily(sch')
        BY <1>1, <1>2, <1>4, <2>1, ArrivesSteadily
    <2>3. ASSUME batch # <<>>, NEW r \in ToSet(sch'.running) PROVE ~Ended(sch', r)
        <3>1. r \in ToSet(sch.running) /\ r \in Request
            BY <1>2, <2>3, Types DEF Arrives, Sound
        <3>2. ~Ended(sch, r)
            BY <1>6, <2>3, <3>1 DEF Inv, StateInv
        <3>3. Kept(sch'.req[r]).out = Kept(sch.req[r]).out
            BY <1>2, <3>1 DEF Arrives
        <3> QED BY <3>2, <3>3 DEF Ended
    <2> QED BY <2>2, <2>3
<1>7. Sound(sch') /\ Suffice(sch')
    BY <1>2 DEF Arrives
<1>8. StateInv(sch', next', batch', steady')
    BY <1>5, <1>6, <1>7 DEF StateInv
<1> QED BY <1>3, <1>8 DEF Inv

LEMMA InvNext == Inv /\ [Next]_vars => Inv'
<1> SUFFICES ASSUME Inv, [Next]_vars PROVE Inv'
    OBVIOUS
<1>1. /\ TypeOK /\ Sound(sch) /\ Suffice(sch) /\ sch \in SchedulerType
      /\ \A r \in Request : r >= next => sch.req[r].status = "new"
    BY DEF Inv, StateInv, Sound
<1>2. CASE Add
    <2>1. PICK k \in 0 .. PromptLen[next] \div KVBlockSize :
            sch' = SetReused(AddRequest(sch, next), next, k * KVBlockSize)
        BY <1>2 DEF Add
    <2>2. k * KVBlockSize \in Nat
        <3>1. k \in Nat /\ KVBlockSize \in Nat
            BY <2>1, SchedulerAssumption
        <3> QED BY <3>1
    <2>3. ASSUME next \in Request PROVE Arrives(sch, sch', next)
        <3>1. sch.req[next].status = "new"
            BY <1>1, <2>3 DEF TypeOK
        <3> QED BY <1>1, <2>1, <2>2, <2>3, <3>1, AddArrives
    <2> QED BY <1>2, <2>3, InvArrives DEF Add
<1>3. CASE AddFails
    <2>1. ASSUME next \in Request PROVE Arrives(sch, sch', next)
        <3>1. sch.req[next].status = "new"
            BY <1>1, <2>1 DEF TypeOK
        <3> QED BY <1>1, <1>3, <2>1, <3>1, AddFailsArrives DEF AddFails
    <2> QED BY <1>3, <2>1, InvArrives DEF AddFails
<1>4. ASSUME NEW R, BeginStep(R) PROVE Inv'
    <2>1. /\ sch' = Scheduled(CancelPending(CancelRunning([sch EXCEPT !.finished = <<>>], R), R))
          /\ batch' = BatchOf(sch') /\ next' = next /\ steady' = steady
        BY <1>4 DEF BeginStep, Swept
    <2>2. /\ Keeps(sch, sch')
          /\ (\A r \in Waiting(sch) : ~Ended(sch, r)) => \A r \in Live(sch') : ~Ended(sch', r)
        BY <1>1, <2>1, BeginKeeps
    <2>3. Sound(sch') /\ Suffice(sch') /\ sch' \in SchedulerType
        BY <2>2 DEF Keeps, Sound
    <2>4. TypeOK'
        <3>1. BatchOf(sch') \in Seq(BatchEntries)
            BY <2>3, BatchOfType
        <3> QED BY <1>1, <2>1, <2>3, <3>1 DEF TypeOK
    <2>5. \A r \in Request : r >= next => sch'.req[r].status = "new"
        BY <1>1, <2>2 DEF Keeps, SameWork
    <2>6. ASSUME steady
          PROVE  Steadily(sch') /\ \A r \in ToSet(sch'.running) : ~Ended(sch', r)
        <3>1. Steadily(sch)
            BY <2>6 DEF Inv, StateInv
        <3>2. \A r \in Live(sch') : ~Ended(sch', r)
            BY <2>2, <3>1 DEF Steadily
        <3>3. Waiting(sch') \subseteq Live(sch') /\ ToSet(sch'.running) \subseteq Live(sch')
            BY DEF Waiting, Live
        <3> QED BY <2>2, <3>1, <3>2, <3>3, KeepsSteadily
    <2>7. StateInv(sch', next', batch', steady')
        BY <2>1, <2>3, <2>5, <2>6 DEF StateInv
    <2> QED BY <2>4, <2>7 DEF Inv
<1>5. ASSUME NEW tokens \in [InBatch -> Token], Update(tokens) PROVE Inv'
    <2>1. /\ batch # <<>> /\ sch' = Updated(sch, tokens) /\ batch' = <<>> /\ next' = next
          /\ steady' = (steady /\ sch'.preempted = sch.preempted)
        BY <1>5 DEF Update
    <2>2. Grew(sch, sch', Len(sch.running))
        BY <1>1, <2>1, UpdatedGrows
    <2>3. Sound(sch') /\ Suffice(sch') /\ sch' \in SchedulerType
        BY <2>2 DEF Grew, Sound
    <2>4. TypeOK'
        <3>1. <<>> \in Seq(BatchEntries)
            OBVIOUS
        <3> QED BY <1>1, <2>1, <2>3, <3>1 DEF TypeOK
    <2>5. \A r \in Request : r >= next => sch'.req[r].status = "new"
        BY <1>1, <2>2 DEF Grew
    <2>6. ASSUME steady' PROVE Steadily(sch')
        <3>1. Steadily(sch) /\ \A r \in ToSet(sch.running) : ~Ended(sch, r)
            BY <2>1, <2>6 DEF Inv, StateInv
        <3> QED BY <1>1, <2>1, <2>2, <2>6, <3>1, GrewSteadily
    <2>7. StateInv(sch', next', batch', steady')
        BY <2>1, <2>3, <2>5, <2>6 DEF StateInv
    <2> QED BY <2>4, <2>7 DEF Inv
<1>6. CASE FailStep
    <2>1. sch' = DropRunning(sch) /\ batch' = <<>> /\ next' = next /\ steady' = steady
        BY <1>6 DEF FailStep
    <2>2. Keeps(sch, sch') /\ Waiting(sch') = Waiting(sch)
        BY <1>1, <2>1, DropRunningKeeps
    <2>3. Sound(sch') /\ Suffice(sch') /\ sch' \in SchedulerType
        BY <2>2 DEF Keeps, Sound
    <2>4. TypeOK'
        <3>1. <<>> \in Seq(BatchEntries)
            OBVIOUS
        <3> QED BY <1>1, <2>1, <2>3, <3>1 DEF TypeOK
    <2>5. \A r \in Request : r >= next => sch'.req[r].status = "new"
        BY <1>1, <2>2 DEF Keeps, SameWork
    <2>6. ASSUME steady PROVE Steadily(sch')
        <3>1. Steadily(sch)
            BY <2>6 DEF Inv, StateInv
        <3>2. \A r \in Waiting(sch') : ~Ended(sch', r)
            <4>1. Waiting(sch') \subseteq Request
                BY <2>3, Types DEF Waiting
            <4>2. \A r \in Request : Kept(sch'.req[r]) = Kept(sch.req[r])
                BY <2>2 DEF Keeps, SameWork
            <4> QED BY <2>2, <3>1, <4>1, <4>2 DEF Steadily, Ended
        <3> QED BY <2>2, <3>1, <3>2, KeepsSteadily
    <2>7. StateInv(sch', next', batch', steady')
        BY <2>1, <2>3, <2>5, <2>6 DEF StateInv
    <2> QED BY <2>4, <2>7 DEF Inv
<1>7. CASE UNCHANGED vars
    BY <1>7 DEF Inv, TypeOK, vars
<1> QED BY <1>2, <1>3, <1>4, <1>5, <1>6, <1>7 DEF Next, EndStep

-----------------------------------------------------------------------------
(* The theorems. *)

\* In every state that the engine brings the scheduler to, the queues, the
\* blocks and the work agree.
THEOREM Invariance == Spec => []Inv
BY InvInit, InvNext, PTL DEF Spec

\* The loops of schedule and update_after_step, which change the lists they walk
\* over or rebuild them, neither lose nor double a request, and its status says
\* which queue it is in (i64_scheduler.py:340-459, 545-586).
THEOREM OneQueueAlways == Spec => []OneQueue
<1>1. ASSUME Inv PROVE OneQueue
    <2> DEFINE behind == sch.running \o sch.preempted
    <2>1. TypeOK /\ Queues(sch) /\ sch \in SchedulerType
        BY <1>1 DEF Inv, StateInv, Sound
    <2>2. /\ sch.running \in Seq(Request) /\ sch.preempted \in Seq(Request)
          /\ sch.finished \in Seq(Request)
          /\ ToSet(sch.running) \subseteq Request /\ ToSet(sch.preempted) \subseteq Request
          /\ ToSet(sch.finished) \subseteq Request
        BY <2>1, Types
    <2>3. /\ ToSet(sch.running) \cap ToSet(sch.preempted) = {}
          /\ (ToSet(sch.running) \cup ToSet(sch.preempted)) \cap ToSet(sch.finished) = {}
        BY <2>1, <2>2 DEF Queues
    <2>4. /\ behind \in Seq(Request)
          /\ ToSet(behind) = ToSet(sch.running) \cup ToSet(sch.preempted)
          /\ IsInjective(behind)
        BY <2>1, <2>2, <2>3, Joined DEF Queues
    <2> HIDE DEF behind
    <2>5. /\ ToSet(behind \o sch.finished) = ToSet(behind) \cup ToSet(sch.finished)
          /\ IsInjective(behind \o sch.finished)
        BY <2>1, <2>2, <2>3, <2>4, Joined DEF Queues
    <2>6. sch.heap \cap (ToSet(behind) \cup ToSet(sch.finished)) = {}
        <3>1. sch.heap \subseteq Request
            BY <2>1, Types
        <3> QED BY <2>1, <2>4, <3>1 DEF Queues
    <2> QED BY <2>1, <2>5, <2>6 DEF OneQueue, Queues, behind
<1> QED BY <1>1, Invariance, PTL

\* Preemption, admission, cancellation and failed steps share no block, leave no
\* running request short of one, and, until update_after_step preempts, lose
\* none (i64_scheduler.py:315-456).
THEOREM BlocksExactAlways == Spec => []BlocksExact
<1>1. ASSUME Inv PROVE BlocksExact
    <2>1. Sound(sch) /\ Suffice(sch) /\ steady => Conserved(sch)
        BY <1>1 DEF Inv, StateInv, Steadily
    <2>2. BlocksDisjoint
        BY <1>1 DEF Inv, StateInv, Sound, Disjoint, BlocksDisjoint
    <2>3. BlocksSuffice
        BY <1>1 DEF Inv, StateInv, Suffice, Enough, BlocksSuffice
    <2>4. sch.free \subseteq KVBlock /\ \A r \in Request : sch.req[r].blocks \subseteq KVBlock
        <3>1. sch \in SchedulerType
            BY <1>1 DEF Inv, TypeOK
        <3>2. sch.free \in SUBSET KVBlock /\ sch.req \in [Request -> RequestType]
            BY <3>1, Types
        <3> QED BY <3>2 DEF RequestType
    <2>5. ASSUME steady PROVE KVBlock = sch.free \cup UNION {sch.req[r].blocks : r \in Request}
        <3>1. KVBlock \subseteq sch.free \cup UNION {sch.req[r].blocks : r \in Request}
            BY <1>1, <2>5 DEF Inv, StateInv, Steadily, Conserved
        <3> QED BY <2>4, <3>1
    <2> QED BY <2>2, <2>3, <2>5 DEF BlocksExact, SteadyConserved
<1> QED BY <1>1, Invariance, PTL

\* Until update_after_step preempts, no request generates past its end, although
\* it is only taken out one step later (i64_scheduler.py:112-121, 394-403).
THEOREM SteadyStopsAlways == Spec => []SteadyStops
<1>1. Inv => SteadyStops
    BY DEF Inv, StateInv, Steadily, Within, SteadyStops, StopsAtEnd, Output
<1> QED BY <1>1, Invariance, PTL

\* What an operation does to a request that is not new takes none of its work.
LEMMA SameWorkKeeps ==
    ASSUME Inv, NEW r \in Request,
           Kept(sch'.req[r]).out = Kept(sch.req[r]).out,
           \/ Kept(sch'.req[r]).prog = Kept(sch.req[r]).prog
           \/ sch.req[r].status = "new"
    PROVE  /\ IsPrefix(Output(r), Output(r)')
           /\ Progress(r) <= Progress(r)' \/ sch.req[r].status = "new"
<1>1. sch.req[r] \in RequestType
    BY Types DEF Inv, TypeOK
<1>2. Kept(sch.req[r]) \in [out : Seq(Token), prog : Nat]
    BY <1>1, RequestTypes
<1>3. Kept(sch.req[r]).out \in Seq(Token) /\ Kept(sch.req[r]).prog \in Nat
    BY <1>2
<1>4. "tok" \in Token
    BY DEF Token
<1>5. IsPrefix(Kept(sch.req[r]).out, Kept(sch.req[r]).out)
    BY <1>3, <1>4, PrefixOfAppend
<1> QED BY <1>3, <1>5 DEF Output, Progress

\* However often a request is preempted and resumed, what it has generated and
\* prefilled is never taken back or changed (i64_scheduler.py:365-382, 443-455).
THEOREM WorkIsKept == Spec => WorkKept
<1> DEFINE Kind(r) == /\ IsPrefix(Output(r), Output(r)')
                      /\ Progress(r) <= Progress(r)' \/ sch.req[r].status = "new"
<1>1. ASSUME Inv, [Next]_vars, NEW r \in Request PROVE Kind(r)
    <2>1. /\ TypeOK /\ Sound(sch) /\ Suffice(sch) /\ sch \in SchedulerType
          /\ \A p \in Request : p >= next => sch.req[p].status = "new"
        BY <1>1 DEF Inv, StateInv, Sound
    <2>2. ASSUME Arrives(sch, sch', next), next \in Request PROVE Kind(r)
        <3>1. CASE r = next
            <4>1. sch.req[r].status = "new"
                BY <2>1, <3>1 DEF TypeOK
            <4>2. Kept(sch'.req[r]).out = Kept(sch.req[r]).out
                BY <2>2, <3>1 DEF Arrives
            <4> QED BY <1>1, <4>1, <4>2, SameWorkKeeps
        <3>2. CASE r # next
            <4>1. sch'.req[r] = sch.req[r]
                BY <2>2, <3>2 DEF Arrives
            <4> QED BY <1>1, <4>1, SameWorkKeeps
        <3> QED BY <3>1, <3>2
    <2>3. ASSUME next < NumRequests PROVE next \in Request /\ sch.req[next].status = "new"
        <3>1. next \in Request
            BY <2>1, <2>3, SchedulerAssumption DEF TypeOK, Request
        <3> QED BY <2>1, <3>1 DEF TypeOK
    <2>4. CASE Add
        <3>1. PICK k \in 0 .. PromptLen[next] \div KVBlockSize :
                sch' = SetReused(AddRequest(sch, next), next, k * KVBlockSize)
            BY <2>4 DEF Add
        <3>2. k * KVBlockSize \in Nat
            <4>1. k \in Nat /\ KVBlockSize \in Nat
                BY <3>1, SchedulerAssumption
            <4> QED BY <4>1
        <3>3. next \in Request /\ sch.req[next].status = "new"
            BY <2>3, <2>4 DEF Add
        <3>4. Arrives(sch, sch', next)
            BY <2>1, <3>1, <3>2, <3>3, AddArrives
        <3> QED BY <2>2, <3>3, <3>4
    <2>5. CASE AddFails
        <3>1. next \in Request /\ sch.req[next].status = "new"
            BY <2>3, <2>5 DEF AddFails
        <3>2. Arrives(sch, sch', next)
            BY <2>1, <2>5, <3>1, AddFailsArrives DEF AddFails
        <3> QED BY <2>2, <3>1, <3>2
    <2>6. ASSUME Keeps(sch, sch') PROVE Kind(r)
        <3>1. Kept(sch'.req[r]) = Kept(sch.req[r])
            BY <2>6 DEF Keeps, SameWork
        <3> QED BY <1>1, <3>1, SameWorkKeeps
    <2>7. ASSUME NEW R, BeginStep(R) PROVE Kind(r)
        <3>1. sch' = Scheduled(CancelPending(CancelRunning([sch EXCEPT !.finished = <<>>], R), R))
            BY <2>7 DEF BeginStep, Swept
        <3>2. Keeps(sch, sch')
            BY <2>1, <3>1, BeginKeeps
        <3> QED BY <2>6, <3>2
    <2>8. ASSUME NEW tokens \in [InBatch -> Token], Update(tokens) PROVE Kind(r)
        <3>1. sch' = Updated(sch, tokens)
            BY <2>8 DEF Update
        <3>2. Grew(sch, sch', Len(sch.running))
            BY <2>1, <3>1, UpdatedGrows
        <3> QED BY <3>2 DEF Grew, Output, Progress
    <2>9. CASE FailStep
        <3>1. Keeps(sch, sch')
            BY <2>1, <2>9, DropRunningKeeps DEF FailStep
        <3> QED BY <2>6, <3>1
    <2>10. CASE UNCHANGED vars
        <3>1. sch'.req[r] = sch.req[r]
            BY <2>10 DEF vars
        <3> QED BY <1>1, <3>1, SameWorkKeeps
    <2> HIDE DEF Kind
    <2> QED BY <1>1, <2>4, <2>5, <2>7, <2>8, <2>9, <2>10 DEF Next, EndStep
<1>2. ASSUME Inv, [Next]_vars PROVE [\A r \in Request : Kind(r)]_vars
    <2> HIDE DEF Kind
    <2> QED BY <1>1, <1>2
<1>3. (Inv /\ [Next]_vars) => [\A r \in Request : Kind(r)]_vars
    <2> HIDE DEF Kind
    <2> QED BY <1>2
<1> QED BY <1>3, Invariance, PTL DEF Spec, WorkKept
=============================================================================
