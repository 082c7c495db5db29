--------------------------- MODULE ServingProofs ---------------------------
(***************************************************************************)
(* The two ends of serving.  First what stands before an engine: the rate  *)
(* limiter and the cache of answers, for all clients, keys, capacities,    *)
(* numbers of buckets and sizes of the cache.  Then the engine that is     *)
(* split in two: disaggregated prefill and decode, for all numbers of      *)
(* requests, slots, blocks and tokens, with failing prefills and a         *)
(* shutdown at any moment.                                                 *)
(***************************************************************************)
EXTENDS HttpServer, Disaggregated, FiniteSetTheorems, SequenceTheorems,
        WellFoundedInduction, TLAPS

-----------------------------------------------------------------------------
(* What a client may still ask for.  g is when it passed. *)

RateOf(g) ==
    \A i, j \in 1 .. Len(g) : i <= j => j - i + 1 <= Capacity + (g[j] - g[i])

\* It may pass k more times at time t.
Earned(g, t, k) ==
    \A i \in 1 .. Len(g) : Len(g) - i + 1 + k <= Capacity + (t - g[i])

\* Tokens that come with time were earned.
LEMMA EarnedLater ==
    ASSUME NEW g \in Seq(Nat), NEW t \in Nat, NEW k \in Nat, NEW later \in Nat, NEW more \in Nat,
           Earned(g, t, k), more <= k + (later - t)
    PROVE  Earned(g, later, more)
<1> SUFFICES ASSUME NEW i \in 1 .. Len(g)
             PROVE  Len(g) - i + 1 + more <= Capacity + (later - g[i])
    BY DEF Earned
<1>1. Len(g) - i + 1 + k <= Capacity + (t - g[i])
    BY DEF Earned
<1>2. Len(g) \in Nat /\ g[i] \in Nat /\ Capacity \in Nat
    BY HttpServerAssumption, ElementOfSeq
<1>3. \A n, at \in Nat : n - i + 1 + k <= Capacity + (t - at)
                          => n - i + 1 + more <= Capacity + (later - at)
    BY ONLY <1>2, i \in Nat, k \in Nat, more \in Nat, t \in Nat, later \in Nat, more <= k + (later - t)
<1> QED BY <1>1, <1>2, <1>3

\* A client that passes spends one.
LEMMA EarnedSpent ==
    ASSUME NEW g \in Seq(Nat), NEW t \in Nat, NEW k \in Nat, 1 <= k, k <= Capacity,
           Earned(g, t, k), RateOf(g)
    PROVE  Earned(Append(g, t), t, k - 1) /\ RateOf(Append(g, t))
<1> DEFINE h == Append(g, t)
<1>1. Capacity \in Nat /\ Len(g) \in Nat /\ Len(h) = Len(g) + 1 /\ h \in Seq(Nat)
    BY HttpServerAssumption
<1>2. h[Len(g) + 1] = t /\ \A i \in 1 .. Len(g) : h[i] = g[i] /\ g[i] \in Nat
    BY <1>1, ElementOfSeq
<1> HIDE DEF h
<1>3. ASSUME NEW i \in 1 .. Len(h) PROVE Len(h) - i + 1 + (k - 1) <= Capacity + (t - h[i])
    <2>1. CASE i = Len(g) + 1
        BY <2>1, <1>1, <1>2
    <2>2. CASE i # Len(g) + 1
        <3>1. i \in 1 .. Len(g) /\ h[i] = g[i] /\ g[i] \in Nat
            BY <2>2, <1>1, <1>2
        <3>2. Len(g) - i + 1 + k <= Capacity + (t - g[i])
            BY <3>1 DEF Earned
        <3> QED BY <3>1, <3>2, <1>1
    <2> QED BY <2>1, <2>2
<1>4. ASSUME NEW i \in 1 .. Len(h), NEW j \in 1 .. Len(h), i <= j
      PROVE  j - i + 1 <= Capacity + (h[j] - h[i])
    <2>1. CASE j = Len(g) + 1
        <3>1. h[j] = t /\ j = Len(h) /\ h[i] \in Nat
            BY <2>1, <1>1, <1>2, ElementOfSeq
        <3>2. Len(h) - i + 1 + (k - 1) <= Capacity + (t - h[i])
            BY <1>3
        <3> QED BY <3>1, <3>2, <1>1
    <2>2. CASE j # Len(g) + 1
        <3>1. i \in 1 .. Len(g) /\ j \in 1 .. Len(g) /\ h[i] = g[i] /\ h[j] = g[j]
            BY <2>2, <1>1, <1>2, <1>4
        <3> QED BY <3>1, <1>4 DEF RateOf
    <2> QED BY <2>1, <2>2
<1>5. Earned(h, t, k - 1) /\ RateOf(h)
    BY <1>3, <1>4 DEF Earned, RateOf
<1> QED BY <1>5 DEF h

-----------------------------------------------------------------------------
(* The cache. *)

Entry == [key : Key, answer : Ask, at : 0 .. MaxTime]

DistinctKeys(s) == \A i, j \in 1 .. Len(s) : s[i].key = s[j].key => i = j

\* Entries answer for their own key, were not sampled, and are of the past.
EntriesSound(s) ==
    \A i \in 1 .. Len(s) :
        s[i].answer.key = s[i].key /\ s[i].key \notin Sampled /\ s[i].at <= now

LEMMA Removed ==
    ASSUME NEW S, NEW s \in Seq(S), NEW i \in 1 .. Len(s)
    PROVE  /\ RemoveAt(s, i) \in Seq(S) /\ Len(RemoveAt(s, i)) = Len(s) - 1
           /\ \A j \in 1 .. Len(s) - 1 : RemoveAt(s, i)[j] = IF j < i THEN s[j] ELSE s[j + 1]
<1> DEFINE left == SubSeq(s, 1, i - 1)
           right == SubSeq(s, i + 1, Len(s))
           both == left \o right
<1>1. Len(s) \in Nat /\ i \in Nat /\ 1 <= i /\ i <= Len(s)
    OBVIOUS
<1>2. left \in Seq(S) /\ Len(left) = i - 1 /\ \A j \in 1 .. i - 1 : left[j] = s[j]
    BY <1>1
<1>3. right \in Seq(S) /\ Len(right) = Len(s) - i /\ \A j \in 1 .. Len(s) - i : right[j] = s[i + j]
    BY <1>1
<1> HIDE DEF left, right
<1>4. /\ both \in Seq(S) /\ Len(both) = Len(left) + Len(right)
      /\ \A j \in 1 .. Len(left) + Len(right) : both[j] = IF j <= Len(left) THEN left[j] ELSE right[j - Len(left)]
    BY <1>2, <1>3, ConcatProperties, Zenon
<1> HIDE DEF both
<1>5. ASSUME NEW j \in 1 .. Len(s) - 1 PROVE both[j] = IF j < i THEN s[j] ELSE s[j + 1]
    <2>1. /\ j \in 1 .. Len(left) + Len(right) /\ j \in Nat /\ 1 <= j /\ j <= Len(s) - 1
          /\ j < i <=> j <= Len(left)
        BY <1>1, <1>2, <1>3
    <2>2. both[j] = IF j <= Len(left) THEN left[j] ELSE right[j - Len(left)]
        BY <1>4, <2>1
    <2>3. CASE j < i
        <3>1. j \in 1 .. i - 1
            BY <2>1, <2>3, <1>1
        <3> QED BY <3>1, <2>1, <2>2, <2>3, <1>2
    <2>4. CASE ~(j < i)
        <3>1. j - Len(left) \in 1 .. Len(s) - i /\ i + (j - Len(left)) = j + 1
            BY <2>1, <2>4, <1>1, <1>2
        <3>2. both[j] = right[j - Len(left)]
            BY <2>1, <2>2, <2>4
        <3> QED BY <3>1, <3>2, <2>4, <1>3
    <2> QED BY <2>3, <2>4
<1>6. both = RemoveAt(s, i)
    BY DEF both, left, right, RemoveAt
<1>7. Len(both) = Len(s) - 1
    BY <1>1, <1>2, <1>3, <1>4
<1> QED BY <1>4, <1>5, <1>6, <1>7

\* Taking an entry out, or the oldest, and a result that comes in, keep the keys
\* distinct and the entries sound.
LEMMA TakenOut ==
    ASSUME NEW s \in Seq(Entry), NEW i \in 1 .. Len(s), DistinctKeys(s), EntriesSound(s), now \in Nat
    PROVE  LET u == RemoveAt(s, i)
           IN  /\ u \in Seq(Entry) /\ Len(u) = Len(s) - 1 /\ DistinctKeys(u) /\ EntriesSound(u)
               /\ \A j \in 1 .. Len(u) : u[j].key # s[i].key
<1> DEFINE u == RemoveAt(s, i)
<1>1. u \in Seq(Entry) /\ Len(u) = Len(s) - 1 /\ Len(s) \in Nat
    BY Removed
<1>2. \A j \in 1 .. Len(u) : u[j] = IF j < i THEN s[j] ELSE s[j + 1]
    BY Removed
<1> HIDE DEF u
<1>3. \A j \in 1 .. Len(u) :
        \E k \in 1 .. Len(s) : u[j] = s[k] /\ k # i /\ k = IF j < i THEN j ELSE j + 1
    BY <1>1, <1>2
<1>4. DistinctKeys(u) /\ EntriesSound(u) /\ \A j \in 1 .. Len(u) : u[j].key # s[i].key
    <2>1. ASSUME NEW a \in 1 .. Len(u), NEW b \in 1 .. Len(u), u[a].key = u[b].key PROVE a = b
        <3>1. PICK k \in 1 .. Len(s) : u[a] = s[k] /\ k = IF a < i THEN a ELSE a + 1
            BY <1>3
        <3>2. PICK l \in 1 .. Len(s) : u[b] = s[l] /\ l = IF b < i THEN b ELSE b + 1
            BY <1>3
        <3>3. k = l
            BY <2>1, <3>1, <3>2 DEF DistinctKeys
        <3> QED BY <3>1, <3>2, <3>3, <1>1
    <2>2. ASSUME NEW j \in 1 .. Len(u)
          PROVE  /\ u[j].answer.key = u[j].key /\ u[j].key \notin Sampled /\ u[j].at <= now
                 /\ u[j].key # s[i].key
        <3>1. PICK k \in 1 .. Len(s) : u[j] = s[k] /\ k # i
            BY <1>3
        <3> QED BY <3>1 DEF EntriesSound, DistinctKeys
    <2> QED BY <2>1, <2>2 DEF DistinctKeys, EntriesSound
<1> QED BY <1>1, <1>4 DEF u

LEMMA Appended ==
    ASSUME NEW s \in Seq(Entry), NEW e \in Entry, DistinctKeys(s), EntriesSound(s),
           \A i \in 1 .. Len(s) : s[i].key # e.key,
           e.answer.key = e.key, e.key \notin Sampled, e.at <= now
    PROVE  LET u == Append(s, e)
           IN  u \in Seq(Entry) /\ Len(u) = Len(s) + 1 /\ DistinctKeys(u) /\ EntriesSound(u)
<1> DEFINE u == Append(s, e)
<1>1. u \in Seq(Entry) /\ Len(u) = Len(s) + 1 /\ Len(s) \in Nat
    OBVIOUS
<1>2. \A j \in 1 .. Len(u) : u[j] = IF j = Len(s) + 1 THEN e ELSE s[j]
    BY <1>1
<1> HIDE DEF u
<1>3. \A j \in 1 .. Len(u) : j = Len(s) + 1 \/ j \in 1 .. Len(s)
    BY <1>1
<1>4. EntriesSound(u)
    BY <1>2, <1>3 DEF EntriesSound
<1>5. DistinctKeys(u)
    BY <1>2, <1>3 DEF DistinctKeys
<1> QED BY <1>1, <1>4, <1>5 DEF u

LEMMA Roomed ==
    ASSUME NEW s \in Seq(Entry), DistinctKeys(s), EntriesSound(s), Len(s) <= CacheSize
    PROVE  LET u == Room1(s)
           IN  u \in Seq(Entry) /\ Len(u) < CacheSize /\ DistinctKeys(u) /\ EntriesSound(u)
<1>1. CacheSize \in Nat \ {0} /\ Len(s) \in Nat
    BY HttpServerAssumption
<1>2. CASE Len(s) >= CacheSize
    <2> DEFINE u == Tail(s)
    <2>1. s # <<>>
        BY <1>1, <1>2
    <2>2. /\ u \in Seq(Entry) /\ Len(u) = Len(s) - 1
          /\ \A j \in 1 .. Len(u) : u[j] = s[j + 1] /\ j + 1 \in 1 .. Len(s)
        BY <2>1, <1>1
    <2>3. Room1(s) = u
        BY <1>2 DEF Room1
    <2> HIDE DEF u
    <2>4. EntriesSound(u)
        BY <2>2 DEF EntriesSound
    <2>5. DistinctKeys(u)
        <3>1. ASSUME NEW i \in 1 .. Len(u), NEW j \in 1 .. Len(u), u[i].key = u[j].key PROVE i = j
            <4>1. i + 1 = j + 1
                BY <2>2, <3>1 DEF DistinctKeys
            <4> QED BY <4>1, <2>2, <1>1
        <3> QED BY <3>1 DEF DistinctKeys
    <2>6. Len(u) < CacheSize
        BY <2>2, <1>1
    <2> QED BY <2>2, <2>3, <2>4, <2>5, <2>6
<1>3. CASE ~(Len(s) >= CacheSize)
    BY <1>1, <1>3 DEF Room1
<1> QED BY <1>2, <1>3

LEMMA PutIn ==
    ASSUME NEW s \in Seq(Entry), NEW e \in Entry, DistinctKeys(s), EntriesSound(s), Len(s) <= CacheSize,
           e.answer.key = e.key, e.key \notin Sampled, e.at <= now
    PROVE  LET u == Put(s, e)
           IN  u \in Seq(Entry) /\ Len(u) <= CacheSize /\ DistinctKeys(u) /\ EntriesSound(u)
<1> DEFINE room == Room1(s)
<1>1. room \in Seq(Entry) /\ Len(room) < CacheSize /\ DistinctKeys(room) /\ EntriesSound(room)
    BY Roomed
<1>2. CacheSize \in Nat /\ Len(room) \in Nat /\ DOMAIN room = 1 .. Len(room)
    BY <1>1, HttpServerAssumption
<1>3. Put(s, e) = IF \E i \in 1 .. Len(room) : room[i].key = e.key
                  THEN [i \in 1 .. Len(room) |-> IF room[i].key = e.key THEN e ELSE room[i]]
                  ELSE Append(room, e)
    BY <1>2 DEF Put
<1> HIDE DEF room
<1>4. CASE \E i \in 1 .. Len(room) : room[i].key = e.key
    <2> DEFINE u == [i \in 1 .. Len(room) |-> IF room[i].key = e.key THEN e ELSE room[i]]
    <2>1. u \in [1 .. Len(room) -> Entry]
        BY <1>1, ElementOfSeq
    <2>2. u \in Seq(Entry) /\ Len(u) = Len(room)
        BY <2>1, <1>2
    <2>3. \A i \in 1 .. Len(u) : u[i].key = room[i].key /\ u[i] \in {e, room[i]}
        BY <2>2
    <2>4. Put(s, e) = u
        BY <1>3, <1>4
    <2> HIDE DEF u
    <2>5. DistinctKeys(u)
        BY <1>1, <2>2, <2>3 DEF DistinctKeys
    <2>6. EntriesSound(u)
        BY <1>1, <2>2, <2>3 DEF EntriesSound
    <2> QED BY <1>1, <1>2, <2>2, <2>4, <2>5, <2>6
<1>5. CASE ~\E i \in 1 .. Len(room) : room[i].key = e.key
    BY <1>1, <1>2, <1>3, <1>5, Appended
<1> QED BY <1>4, <1>5

-----------------------------------------------------------------------------
(* The inductive invariant. *)

\* A client without a bucket has as much credit as one whose bucket is full.
Credit(c) == IF c \in DOMAIN buckets THEN buckets[c] ELSE [tokens |-> Capacity, last |-> now]

\* Whoever was not evicted has earned the credit it has.
RateInv ==
    /\ \A c \in DOMAIN buckets : buckets[c].last <= now
    /\ \A c \in Client \ evicted :
          /\ RateOf(granted[c])
          /\ Earned(granted[c], Credit(c).last, Credit(c).tokens)

CacheInv == Len(cache) <= CacheSize /\ DistinctKeys(cache) /\ EntriesSound(cache)

\* A request under way has no answer's age yet; an answer is right when it is given.
RequestInv ==
    \A r \in Handler :
        /\ req[r].at \in {"tokenize", "queued", "running"} => req[r].ask \in Ask /\ req[r].age = 0
        /\ req[r].at = "answered" =>
              /\ req[r].answer.key = req[r].ask.key
              /\ req[r].age <= TTL
              /\ req[r].ask.key \in Sampled => req[r].age = 0 /\ req[r].answer = req[r].ask

Inv == TypeOK /\ RateInv /\ CacheInv /\ RequestInv

LEMMA InitInv == Init => Inv
<1> SUFFICES ASSUME Init PROVE Inv
    OBVIOUS
<1> USE HttpServerAssumption
<1>1. DOMAIN buckets = {} /\ cache \in Seq(Entry) /\ Len(cache) = 0
    BY DEF Init
<1>2. \A c \in Client : granted[c] = <<>> /\ Len(granted[c]) = 0
    BY DEF Init
<1>3. \A r \in Handler : req[r] = Unused
    BY DEF Init
<1>4. TypeOK
    <2>1. req \in [Handler -> [at : {"free", "tokenize", "queued", "running", "answered"},
                               ask : Asks, stream : BOOLEAN, answer : Asks, age : 0 .. MaxTime]]
        BY DEF Init, Unused, Asks
    <2>2. granted \in [Client -> Seq(0 .. MaxTime)]
        BY DEF Init
    <2> QED BY <1>1, <2>1, <2>2 DEF Init, TypeOK, Entry
<1>5. RateInv
    BY <1>1, <1>2 DEF Init, RateInv, RateOf, Earned
<1>6. CacheInv
    BY <1>1 DEF CacheInv, DistinctKeys, EntriesSound
<1>7. RequestInv
    BY <1>3 DEF RequestInv, Unused
<1> QED BY <1>4, <1>5, <1>6, <1>7 DEF Inv

\* The types of what the lemmas above are about.
LEMMA Types ==
    ASSUME TypeOK
    PROVE  /\ now \in Nat /\ now <= MaxTime /\ cache \in Seq(Entry)
           /\ \A c \in Client : granted[c] \in Seq(Nat) /\ granted[c] \in Seq(0 .. MaxTime)
           /\ \A c \in DOMAIN buckets :
                 /\ c \in Client /\ buckets[c].tokens \in Nat /\ buckets[c].tokens <= Capacity
                 /\ buckets[c].last \in Nat /\ buckets[c].last <= MaxTime
           /\ Capacity \in Nat \ {0} /\ MaxTime \in Nat
<1>1. MaxTime \in Nat /\ Capacity \in Nat \ {0}
    BY HttpServerAssumption
<1>2. \A c \in Client : granted[c] \in Seq(0 .. MaxTime)
    BY DEF TypeOK
<1>3. 0 .. MaxTime \subseteq Nat
    BY <1>1
<1>4. \A c \in Client : granted[c] \in Seq(Nat)
    BY <1>2, <1>3, SeqMonotonic
<1> QED BY <1>1, <1>2, <1>4 DEF TypeOK, Entry

\* Any later credit that grew no faster than time was earned too.
LEMMA CreditLater ==
    ASSUME TypeOK, RateInv, NEW c \in Client \ evicted, NEW later \in Nat, NEW more \in Nat,
           now <= later, more <= Capacity,
           c \in DOMAIN buckets => more <= buckets[c].tokens + (later - buckets[c].last)
    PROVE  Earned(granted[c], later, more)
<1>1. Earned(granted[c], Credit(c).last, Credit(c).tokens) /\ granted[c] \in Seq(Nat)
    BY Types DEF RateInv
<1>2. CASE c \in DOMAIN buckets
    BY <1>1, <1>2, Types, EarnedLater DEF Credit
<1>3. CASE c \notin DOMAIN buckets
    <2>1. Credit(c).last = now /\ Credit(c).tokens = Capacity /\ more <= Capacity + (later - now)
        BY <1>3, Types DEF Credit
    <2> QED BY <1>1, <2>1, Types, EarnedLater
<1> QED BY <1>2, <1>3

LEMMA TickInv == Inv /\ Tick => Inv'
<1> SUFFICES ASSUME Inv, Tick PROVE Inv'
    OBVIOUS
<1>1. /\ TypeOK /\ RateInv /\ now < MaxTime /\ now' = now + 1
      /\ UNCHANGED <<buckets, cleaned, cache, req, granted, evicted>>
    BY DEF Inv, Tick
<1>2. TypeOK'
    BY <1>1, Types DEF TypeOK
<1>3. RateInv'
    <2>1. \A c \in DOMAIN buckets : buckets[c].last <= now + 1
        BY <1>1, Types DEF RateInv
    <2>2. ASSUME NEW c \in Client \ evicted PROVE Earned(granted[c], Credit(c)'.last, Credit(c)'.tokens)
        <3>1. CASE c \in DOMAIN buckets
            BY <1>1, <2>2, <3>1 DEF RateInv, Credit
        <3>2. CASE c \notin DOMAIN buckets
            <4>1. Credit(c)'.last = now + 1 /\ Credit(c)'.tokens = Capacity
                BY <1>1, <3>2 DEF Credit
            <4> QED BY <1>1, <2>2, <3>2, <4>1, Types, CreditLater
        <3> QED BY <3>1, <3>2
    <2> QED BY <1>1, <2>1, <2>2 DEF RateInv, Earned, RateOf
<1>4. CacheInv'
    <2>1. \A i \in 1 .. Len(cache) : cache[i].at \in Nat
        <3>1. \A i \in 1 .. Len(cache) : cache[i] \in Entry
            BY <1>1, Types, ElementOfSeq
        <3> QED BY <3>1, HttpServerAssumption DEF Entry
    <2> QED BY <1>1, <2>1, Types DEF Inv, CacheInv, DistinctKeys, EntriesSound
<1>5. RequestInv'
    BY <1>1 DEF Inv, RequestInv
<1> QED BY <1>2, <1>3, <1>4, <1>5 DEF Inv

-----------------------------------------------------------------------------
(* The rate limiter. *)

\* What the cleanups leave: buckets as they were, and without those that had the
\* time to fill up.
Swept(b) ==
    /\ DOMAIN b \subseteq DOMAIN buckets
    /\ \A c \in DOMAIN b : b[c] = buckets[c]
    /\ \A c \in DOMAIN buckets \ DOMAIN b : now - buckets[c].last > Capacity

LEMMA CleanedSwept ==
    ASSUME NEW b, Swept(b)
    PROVE  Swept(Cleaned(b))
<1>1. /\ DOMAIN Cleaned(b) = DOMAIN b \ Stale(b)
      /\ \A c \in DOMAIN Cleaned(b) : Cleaned(b)[c] = b[c]
    BY DEF Cleaned, Without
<1>2. \A c \in DOMAIN b \ DOMAIN Cleaned(b) : now - buckets[c].last > Capacity
    BY <1>1 DEF Stale, Swept
<1> QED BY <1>1, <1>2 DEF Swept

LEMMA KnownSwept == Swept(Known) /\ Swept(Room) /\ DOMAIN Room \subseteq DOMAIN Known
<1>1. Swept(buckets)
    BY DEF Swept
<1>2. Swept(Known)
    BY <1>1, CleanedSwept DEF Known
<1>3. DOMAIN Cleaned(Known) \subseteq DOMAIN Known
    BY DEF Cleaned, Without
<1> QED BY <1>2, <1>3, CleanedSwept DEF Room

\* What the limiter decides is an outcome: a client c that passed or not, a set
\* of clients whose bucket is gone early, buckets that are new.
LimiterStep(c, passed, gone) ==
    /\ cleaned' \in {cleaned, now} /\ evicted' = evicted \cup gone
    /\ granted' = IF passed THEN [granted EXCEPT ![c] = Append(@, now)] ELSE granted
    /\ UNCHANGED now

LEMMA LimiterInv ==
    ASSUME TypeOK, RateInv, NEW c \in Client, NEW passed \in BOOLEAN, NEW gone \in SUBSET Client,
           LimiterStep(c, passed, gone), NEW tokens \in 0 .. Capacity,
           c \in DOMAIN buckets', buckets'[c] = [tokens |-> tokens, last |-> now],
           DOMAIN buckets' \subseteq DOMAIN buckets \cup {c},
           \A d \in DOMAIN buckets' \ {c} : buckets'[d] = buckets[d],
           \A d \in DOMAIN buckets \ DOMAIN buckets' : d \in gone \/ now - buckets[d].last > Capacity,
           LET spent == IF passed THEN tokens + 1 ELSE tokens
           IN  /\ spent <= Capacity
               /\ c \in DOMAIN buckets => /\ spent <= buckets[c].tokens + (now - buckets[c].last)
    PROVE  RateInv'
<1>1. \A d \in DOMAIN buckets' : buckets'[d].last <= now'
    <2>1. now \in Nat /\ now' = now
        BY Types DEF LimiterStep
    <2>2. \A d \in DOMAIN buckets : buckets[d].last <= now
        BY DEF RateInv
    <2>3. buckets'[c].last <= now'
        BY <2>1
    <2>4. \A d \in DOMAIN buckets' \ {c} : d \in DOMAIN buckets /\ buckets'[d] = buckets[d]
        OBVIOUS
    <2> QED BY ONLY <2>1, <2>2, <2>3, <2>4
<1>2. ASSUME NEW d \in Client \ evicted'
      PROVE  RateOf(granted'[d]) /\ Earned(granted'[d], Credit(d)'.last, Credit(d)'.tokens)
    <2>1. d \in Client \ evicted /\ d \notin gone
        BY <1>2 DEF LimiterStep
    <2>2. RateOf(granted[d]) /\ granted[d] \in Seq(Nat) /\ now \in Nat /\ Capacity \in Nat
        BY <2>1, Types DEF RateInv
    <2>3. CASE d # c
        <3>1. granted'[d] = granted[d] /\ now' = now
            BY <2>3, <2>1 DEF LimiterStep, TypeOK
        <3>2. CASE d \in DOMAIN buckets'
            <4>1. d \in DOMAIN buckets /\ Credit(d)' = Credit(d)
                BY <2>3, <3>2 DEF Credit
            <4> QED BY <2>1, <2>2, <3>1, <4>1 DEF RateInv
        <3>3. CASE d \notin DOMAIN buckets'
            <4>1. Credit(d)'.last = now /\ Credit(d)'.tokens = Capacity
                BY <3>1, <3>3 DEF Credit
            <4>2. d \in DOMAIN buckets => Capacity <= buckets[d].tokens + (now - buckets[d].last)
                BY <2>1, <3>3, Types
            <4>3. Earned(granted[d], now, Capacity)
                BY <2>1, <2>2, <4>2, CreditLater
            <4> QED BY <2>2, <3>1, <4>1, <4>3
        <3> QED BY <3>2, <3>3
    <2>4. CASE d = c
        <3>1. Credit(c)'.last = now /\ Credit(c)'.tokens = tokens
            BY DEF Credit
        <3>2. CASE passed
            <4>1. granted'[c] = Append(granted[c], now)
                BY <3>2 DEF LimiterStep, TypeOK
            <4>2. tokens + 1 \in Nat /\ 1 <= tokens + 1 /\ tokens + 1 <= Capacity /\ tokens + 1 - 1 = tokens
                BY <3>2, <2>2
            <4>3. Earned(granted[c], now, tokens + 1)
                BY <2>1, <2>2, <2>4, <3>2, <4>2, CreditLater
            <4>4. Earned(Append(granted[c], now), now, tokens + 1 - 1) /\ RateOf(Append(granted[c], now))
                BY <2>2, <2>4, <4>2, <4>3, EarnedSpent
            <4> QED BY <2>4, <3>1, <4>1, <4>2, <4>4
        <3>3. CASE ~passed
            <4>1. granted'[c] = granted[c]
                BY <3>3 DEF LimiterStep
            <4>2. /\ tokens \in Nat /\ tokens <= Capacity
                  /\ c \in DOMAIN buckets => tokens <= buckets[c].tokens + (now - buckets[c].last)
                BY <2>2, <3>3
            <4>3. c \in Client \ evicted /\ now <= now
                BY <2>1, <2>2, <2>4
            <4>4. Earned(granted[c], now, tokens)
                BY <2>2, <4>2, <4>3, CreditLater
            <4> QED BY <2>2, <2>4, <3>1, <4>1, <4>4
        <3> QED BY <3>2, <3>3
    <2> QED BY <2>3, <2>4
<1>3. \A d \in Client \ evicted' : RateOf(granted[d])' /\ Earned(granted[d], Credit(d).last, Credit(d).tokens)'
    BY <1>2 DEF RateOf, Earned
<1> QED BY <1>1, <1>3 DEF RateInv

LEMMA AllowNewInv ==
    ASSUME TypeOK, RateInv, NEW c \in Client, AllowNew(c), UNCHANGED now
    PROVE  /\ RateInv' /\ DOMAIN buckets' \subseteq Client
           /\ \A d \in DOMAIN buckets' : buckets'[d] \in [tokens : 0 .. Capacity, last : 0 .. MaxTime]
           /\ evicted' \subseteq Client /\ cleaned' \in {cleaned, now}
           /\ granted' = [granted EXCEPT ![c] = Append(@, now)]
<1>1. PICK victim \in Victims :
        /\ buckets' = [d \in (DOMAIN Room \ victim) \cup {c} |->
                          IF d = c THEN [tokens |-> Capacity - 1, last |-> now] ELSE Room[d]]
        /\ evicted' = evicted \cup victim
    BY DEF AllowNew
<1>2. /\ c \notin DOMAIN Known /\ cleaned' \in {cleaned, now}
      /\ granted' = [granted EXCEPT ![c] = Append(@, now)]
    BY DEF AllowNew
<1>3. Swept(Known) /\ Swept(Room) /\ DOMAIN Room \subseteq DOMAIN Known
    BY KnownSwept
<1>4. victim \subseteq DOMAIN Room
    BY DEF Victims, Oldest
<1>5. DOMAIN buckets \subseteq Client
    BY DEF TypeOK
<1>6. victim \subseteq Client
    BY <1>3, <1>4, <1>5 DEF Swept
<1>7. Capacity - 1 \in 0 .. Capacity /\ now \in 0 .. MaxTime /\ Capacity - 1 + 1 = Capacity
    BY Types
<1>8. /\ c \in DOMAIN buckets' /\ buckets'[c] = [tokens |-> Capacity - 1, last |-> now]
      /\ DOMAIN buckets' \subseteq DOMAIN buckets \cup {c}
      /\ \A d \in DOMAIN buckets' \ {c} : buckets'[d] = buckets[d] /\ d \in DOMAIN buckets
      /\ \A d \in DOMAIN buckets \ DOMAIN buckets' : d \in victim \/ now - buckets[d].last > Capacity
    BY <1>1, <1>3 DEF Swept
<1>9. LimiterStep(c, TRUE, victim)
    BY <1>1, <1>2 DEF LimiterStep
<1>10. c \in DOMAIN buckets => Capacity - 1 + 1 <= buckets[c].tokens + (now - buckets[c].last)
    BY <1>2, <1>3, Types DEF Swept
<1>11. RateInv'
    <2> DEFINE tokens == Capacity - 1
    <2>1. tokens \in 0 .. Capacity /\ tokens + 1 <= Capacity
        BY <1>7, Types
    <2>2. c \in DOMAIN buckets => tokens + 1 <= buckets[c].tokens + (now - buckets[c].last)
        BY <1>10
    <2>3. buckets'[c] = [tokens |-> tokens, last |-> now]
        BY <1>8
    <2>4. victim \in SUBSET Client
        BY <1>6
    <2> HIDE DEF tokens
    <2> QED BY <1>8, <1>9, <2>1, <2>2, <2>3, <2>4, LimiterInv
<1>12. \A d \in DOMAIN buckets' : buckets'[d] \in [tokens : 0 .. Capacity, last : 0 .. MaxTime]
    <2>1. \A d \in DOMAIN buckets : buckets[d] \in [tokens : 0 .. Capacity, last : 0 .. MaxTime]
        BY DEF TypeOK
    <2>2. [tokens |-> Capacity - 1, last |-> now] \in [tokens : 0 .. Capacity, last : 0 .. MaxTime]
        BY <1>7
    <2> QED BY ONLY <2>1, <2>2, <1>8
<1>13. DOMAIN buckets' \subseteq Client /\ evicted' \subseteq Client
    BY <1>1, <1>5, <1>6, <1>8 DEF TypeOK
<1> QED BY <1>2, <1>11, <1>12, <1>13

\* The same for a client with a bucket.
LEMMA KnownInv ==
    ASSUME TypeOK, RateInv, NEW c \in Client, AllowKnown(c) \/ Refuse(c), UNCHANGED now
    PROVE  /\ RateInv' /\ DOMAIN buckets' \subseteq Client
           /\ \A d \in DOMAIN buckets' : buckets'[d] \in [tokens : 0 .. Capacity, last : 0 .. MaxTime]
           /\ evicted' \subseteq Client /\ cleaned' \in {cleaned, now}
           /\ granted' = IF AllowKnown(c) THEN [granted EXCEPT ![c] = Append(@, now)] ELSE granted
<1> DEFINE refilled == Refilled(Known[c])
           tokens == IF AllowKnown(c) THEN refilled - 1 ELSE refilled
<1>1. /\ c \in DOMAIN Known /\ cleaned' \in {cleaned, now} /\ evicted' = evicted
      /\ AllowKnown(c) => refilled >= 1
      /\ buckets' = [Known EXCEPT ![c] = [tokens |-> tokens, last |-> now]]
      /\ granted' = IF AllowKnown(c) THEN [granted EXCEPT ![c] = Append(@, now)] ELSE granted
    BY DEF AllowKnown, Refuse
<1>2. Swept(Known)
    BY KnownSwept
<1>3. /\ c \in DOMAIN buckets /\ Known[c] = buckets[c]
    BY <1>1, <1>2 DEF Swept
<1>4. /\ refilled \in 0 .. Capacity
      /\ refilled <= buckets[c].tokens + (now - buckets[c].last)
    BY <1>3, Types DEF Refilled, RateInv
<1> HIDE DEF refilled
<1>5. tokens \in 0 .. Capacity /\ now \in 0 .. MaxTime
    BY <1>1, <1>4, Types
<1>6. /\ AllowKnown(c) => tokens + 1 = refilled
      /\ ~AllowKnown(c) => tokens = refilled
    BY <1>4
<1> HIDE DEF tokens
<1>7. /\ c \in DOMAIN buckets' /\ buckets'[c] = [tokens |-> tokens, last |-> now]
      /\ DOMAIN buckets' \subseteq DOMAIN buckets \cup {c}
      /\ \A d \in DOMAIN buckets' \ {c} : buckets'[d] = buckets[d] /\ d \in DOMAIN buckets
      /\ \A d \in DOMAIN buckets \ DOMAIN buckets' : d \in {} \/ now - buckets[d].last > Capacity
    BY <1>1, <1>2 DEF Swept
<1>8. RateInv'
    <2>1. CASE AllowKnown(c)
        <3>1. LimiterStep(c, TRUE, {}) /\ {} \in SUBSET Client
            BY <1>1, <2>1 DEF LimiterStep
        <3>2. tokens + 1 <= Capacity /\ tokens + 1 <= buckets[c].tokens + (now - buckets[c].last)
            BY <1>4, <1>6, <2>1
        <3> QED BY <1>5, <1>7, <3>1, <3>2, LimiterInv
    <2>2. CASE ~AllowKnown(c)
        <3>1. LimiterStep(c, FALSE, {}) /\ {} \in SUBSET Client
            BY <1>1, <2>2 DEF LimiterStep
        <3>2. tokens <= Capacity /\ tokens <= buckets[c].tokens + (now - buckets[c].last)
            BY <1>4, <1>6, <2>2
        <3> QED BY <1>5, <1>7, <3>1, <3>2, LimiterInv
    <2> QED BY <2>1, <2>2
<1>9. \A d \in DOMAIN buckets' : buckets'[d] \in [tokens : 0 .. Capacity, last : 0 .. MaxTime]
    <2>1. \A d \in DOMAIN buckets : buckets[d] \in [tokens : 0 .. Capacity, last : 0 .. MaxTime]
        BY DEF TypeOK
    <2>2. [tokens |-> tokens, last |-> now] \in [tokens : 0 .. Capacity, last : 0 .. MaxTime]
        BY <1>5
    <2> QED BY ONLY <2>1, <2>2, <1>7
<1>10. DOMAIN buckets' \subseteq Client /\ evicted' \subseteq Client
    BY <1>1, <1>7 DEF TypeOK
<1> QED BY <1>1, <1>8, <1>9, <1>10

-----------------------------------------------------------------------------
(* The handler. *)

HandlerState == [at : {"free", "tokenize", "queued", "running", "answered"}, ask : Asks,
                 stream : BOOLEAN, answer : Asks, age : 0 .. MaxTime]

RequestOK(x) ==
    /\ x.at \in {"tokenize", "queued", "running"} => x.ask \in Ask /\ x.age = 0
    /\ x.at = "answered" =>
          /\ x.answer.key = x.ask.key
          /\ x.age <= TTL
          /\ x.ask.key \in Sampled => x.age = 0 /\ x.answer = x.ask

\* A handler changes its request only, the cache or not, and nothing else.
LEMMA HandlerInv ==
    ASSUME Inv, NEW r \in Handler, NEW x \in HandlerState, RequestOK(x), req' = [req EXCEPT ![r] = x],
           cache' \in Seq(Entry), CacheInv',
           UNCHANGED <<now, buckets, cleaned, granted, evicted>>
    PROVE  Inv'
<1>1. TypeOK'
    BY DEF Inv, TypeOK, HandlerState, Entry
<1>2. RateInv'
    BY DEF Inv, RateInv, Credit, RateOf, Earned
<1>3. RequestInv'
    <2>1. req \in [Handler -> HandlerState]
        BY DEF Inv, TypeOK, HandlerState
    <2>2. \A h \in Handler : RequestOK(req'[h])
        BY <2>1 DEF Inv, RequestInv, RequestOK
    <2> QED BY <2>2 DEF RequestInv, RequestOK
<1> QED BY <1>1, <1>2, <1>3 DEF Inv

LEMMA Requests ==
    ASSUME Inv, NEW r \in Handler
    PROVE  /\ req \in [Handler -> HandlerState] /\ req[r] \in HandlerState /\ RequestOK(req[r])
           /\ Unused \in HandlerState /\ RequestOK(Unused)
           /\ UNCHANGED cache /\ UNCHANGED now => cache' \in Seq(Entry) /\ CacheInv'
<1>1. req \in [Handler -> HandlerState]
    BY DEF Inv, TypeOK, HandlerState
<1>2. Unused \in HandlerState /\ RequestOK(Unused)
    BY HttpServerAssumption DEF Unused, HandlerState, RequestOK, Asks
<1>3. RequestOK(req[r])
    BY DEF Inv, RequestInv, RequestOK
<1>4. UNCHANGED cache /\ UNCHANGED now => cache' \in Seq(Entry) /\ CacheInv'
    BY Types DEF Inv, CacheInv, DistinctKeys, EntriesSound
<1> QED BY <1>1, <1>2, <1>3, <1>4

LEMMA ArriveInv ==
    ASSUME Inv, NEW r \in Handler, NEW c \in Client, NEW ask \in Ask, NEW stream \in BOOLEAN,
           Arrive(r, c, ask, stream)
    PROVE  Inv'
<1> DEFINE new == [Unused EXCEPT !.at = "tokenize", !.ask = ask, !.stream = stream]
<1>1. UNCHANGED <<now, cache>> /\ (Refuse(c) \/ AllowNew(c) \/ AllowKnown(c))
      /\ TypeOK /\ RateInv
    BY DEF Arrive, Inv
<1>2. new \in HandlerState /\ RequestOK(new)
    <2>1. Unused \in HandlerState /\ Unused.age = 0
        BY Requests DEF Unused
    <2>2. ask \in Asks
        BY DEF Asks
    <2>3. new \in HandlerState /\ new.at = "tokenize" /\ new.ask = ask /\ new.age = 0
        BY <2>1, <2>2 DEF HandlerState
    <2> QED BY <2>3 DEF RequestOK
<1>3. \E x \in {Unused, new} : req' = [req EXCEPT ![r] = x]
    BY DEF Arrive, Rejected
<1>4. RequestInv' /\ req' \in [Handler -> HandlerState]
    <2>1. \A h \in Handler : req[h] \in HandlerState /\ RequestOK(req[h])
        BY Requests
    <2>2. Unused \in HandlerState /\ RequestOK(Unused) /\ req \in [Handler -> HandlerState]
        BY Requests
    <2> HIDE DEF new
    <2>3. PICK x \in HandlerState : RequestOK(x) /\ req' = [req EXCEPT ![r] = x]
        BY <1>2, <1>3, <2>2
    <2>4. req' \in [Handler -> HandlerState] /\ \A h \in Handler : req'[h] = IF h = r THEN x ELSE req[h]
        BY ONLY <2>2, <2>3, r \in Handler
    <2>5. \A h \in Handler : RequestOK(req'[h])
        BY <2>1, <2>3, <2>4
    <2> QED BY <2>4, <2>5 DEF RequestInv, RequestOK
<1>5. /\ RateInv' /\ DOMAIN buckets' \subseteq Client
      /\ \A d \in DOMAIN buckets' : buckets'[d] \in [tokens : 0 .. Capacity, last : 0 .. MaxTime]
      /\ evicted' \subseteq Client /\ cleaned' \in {cleaned, now}
      /\ granted' \in {granted, [granted EXCEPT ![c] = Append(@, now)]}
    BY <1>1, AllowNewInv, KnownInv
<1>6. granted' \in [Client -> Seq(0 .. MaxTime)]
    <2>1. granted \in [Client -> Seq(0 .. MaxTime)] /\ now \in 0 .. MaxTime
        BY <1>1 DEF TypeOK
    <2>2. Append(granted[c], now) \in Seq(0 .. MaxTime)
        BY <2>1
    <2> QED BY <1>5, <2>1, <2>2
<1>7. TypeOK'
    BY <1>1, <1>4, <1>5, <1>6 DEF TypeOK, HandlerState
<1>8. CacheInv'
    BY <1>1, Requests
<1> QED BY <1>4, <1>5, <1>7, <1>8 DEF Inv

\* The steps that leave the cache alone.
LEMMA PlainInv ==
    ASSUME Inv, NEW r \in Handler, Invalid(r) \/ Admit(r) \/ Fails(r)
    PROVE  Inv'
<1>1. UNCHANGED <<now, buckets, cleaned, cache, granted, evicted>>
    BY DEF Invalid, Admit, Fails
<1>2. CASE Admit(r)
    <2> DEFINE x == [req[r] EXCEPT !.at = "running"]
    <2>1. req' = [req EXCEPT ![r] = x] /\ req[r].at = "queued"
        BY <1>2, Requests DEF Admit, HandlerState
    <2>2. x \in HandlerState /\ RequestOK(x)
        BY <2>1, Requests DEF HandlerState, RequestOK
    <2> HIDE DEF x
    <2> QED BY <1>1, <2>1, <2>2, Requests, HandlerInv
<1>3. CASE Invalid(r) \/ Fails(r)
    <2>1. req' = [req EXCEPT ![r] = Unused]
        BY <1>3 DEF Invalid, Fails, Rejected
    <2> QED BY <1>1, <2>1, Requests, HandlerInv
<1> QED BY <1>2, <1>3

LEMMA HitInv ==
    ASSUME Inv, NEW r \in Handler, Hit(r)
    PROVE  Inv'
<1>1. PICK i \in Entries(req[r].ask.key) :
        /\ ~Expired(i)
        /\ cache' = Append(RemoveAt(cache, i), cache[i])
        /\ req' = [Answered(r) EXCEPT ![r].answer = cache[i].answer, ![r].age = now - cache[i].at]
    BY DEF Hit
<1>2. /\ req[r].at = "tokenize" /\ req[r].ask.key \notin Sampled
      /\ UNCHANGED <<now, buckets, cleaned, granted, evicted>>
    BY DEF Hit, Cacheable
<1>3. /\ cache \in Seq(Entry) /\ i \in 1 .. Len(cache) /\ cache[i].key = req[r].ask.key
      /\ now \in 0 .. MaxTime /\ MaxTime \in Nat
    BY <1>1, Types DEF Entries, Inv
<1>4. /\ cache[i] \in Entry /\ cache[i].answer.key = cache[i].key /\ cache[i].at <= now
      /\ cache[i].key \notin Sampled
    BY <1>3, ElementOfSeq DEF Inv, CacheInv, EntriesSound
<1>5. cache' \in Seq(Entry) /\ CacheInv'
    <2> DEFINE u == RemoveAt(cache, i)
    <2>1. DistinctKeys(cache) /\ EntriesSound(cache) /\ Len(cache) <= CacheSize /\ now \in Nat
        BY <1>3 DEF Inv, CacheInv
    <2>2. /\ u \in Seq(Entry) /\ Len(u) = Len(cache) - 1 /\ DistinctKeys(u) /\ EntriesSound(u)
          /\ \A j \in 1 .. Len(u) : u[j].key # cache[i].key
        BY <1>3, <2>1, TakenOut
    <2> HIDE DEF u
    <2>3. /\ Append(u, cache[i]) \in Seq(Entry) /\ Len(Append(u, cache[i])) = Len(u) + 1
          /\ DistinctKeys(Append(u, cache[i])) /\ EntriesSound(Append(u, cache[i]))
        BY <1>4, <2>2, Appended
    <2>4. cache' = Append(u, cache[i])
        BY <1>1 DEF u
    <2>5. Len(cache') <= CacheSize
        BY <1>3, <2>1, <2>2, <2>3, <2>4
    <2> QED BY <1>2, <2>3, <2>4, <2>5 DEF CacheInv, DistinctKeys, EntriesSound
<1>6. PICK x \in HandlerState : RequestOK(x) /\ req' = [req EXCEPT ![r] = x]
    <2> DEFINE x == [req[r] EXCEPT !.at = "answered", !.stream = FALSE,
                                   !.answer = cache[i].answer, !.age = now - cache[i].at]
    <2>1. now - cache[i].at \in 0 .. MaxTime /\ now - cache[i].at <= TTL
        <3>1. cache[i].at \in 0 .. MaxTime /\ ~(now - cache[i].at > TTL)
            BY <1>1, <1>4 DEF Entry, Expired
        <3>2. TTL \in Nat
            BY HttpServerAssumption
        <3> QED BY ONLY <1>3, <1>4, <3>1, <3>2
    <2>2. cache[i].answer \in Asks
        BY <1>4 DEF Entry, Asks
    <2>3. x \in HandlerState /\ x.answer = cache[i].answer /\ x.ask = req[r].ask /\ x.age <= TTL /\ x.at = "answered"
        BY <2>1, <2>2, Requests DEF HandlerState
    <2>4. RequestOK(x)
        BY <1>2, <1>3, <1>4, <2>3 DEF RequestOK
    <2>5. req' = [req EXCEPT ![r] = x]
        BY <1>1, Requests DEF Answered
    <2> QED BY <2>3, <2>4, <2>5
<1> QED BY <1>2, <1>5, <1>6, HandlerInv

LEMMA MissInv ==
    ASSUME Inv, NEW r \in Handler, Miss(r)
    PROVE  Inv'
<1>1. UNCHANGED <<now, buckets, cleaned, granted, evicted>> /\ now \in Nat /\ cache \in Seq(Entry)
    BY Types DEF Miss, Inv
<1>2. PICK x \in HandlerState : RequestOK(x) /\ req' = [req EXCEPT ![r] = x]
    <2> DEFINE x == [req[r] EXCEPT !.at = "queued"]
    <2>1. req' = [req EXCEPT ![r] = x] /\ req[r].at = "tokenize"
        BY Requests DEF Miss, HandlerState
    <2>2. x \in HandlerState /\ RequestOK(x)
        BY <2>1, Requests DEF HandlerState, RequestOK
    <2> QED BY <2>1, <2>2
<1>3. cache' \in Seq(Entry) /\ CacheInv'
    <2>1. CASE UNCHANGED cache
        BY <1>1, <2>1, Requests
    <2>2. CASE \E i \in Entries(req[r].ask.key) : cache' = RemoveAt(cache, i)
        <3>1. PICK i \in 1 .. Len(cache) : cache' = RemoveAt(cache, i)
            BY <1>1, <2>2 DEF Entries
        <3>2. DistinctKeys(cache) /\ EntriesSound(cache) /\ Len(cache) <= CacheSize
            BY DEF Inv, CacheInv
        <3>3. /\ cache' \in Seq(Entry) /\ Len(cache') = Len(cache) - 1
              /\ DistinctKeys(cache') /\ EntriesSound(cache')
            BY <1>1, <3>1, <3>2, TakenOut
        <3>4. Len(cache') <= CacheSize
            BY <1>1, <3>2, <3>3, HttpServerAssumption
        <3> QED BY <1>1, <3>3, <3>4 DEF CacheInv, DistinctKeys, EntriesSound
    <2> QED BY <2>1, <2>2 DEF Miss
<1> QED BY <1>1, <1>2, <1>3, HandlerInv

LEMMA CompleteInv ==
    ASSUME Inv, NEW r \in Handler, Complete(r)
    PROVE  Inv'
<1>1. /\ UNCHANGED <<now, buckets, cleaned, granted, evicted>> /\ now \in 0 .. MaxTime
      /\ cache \in Seq(Entry) /\ req[r].at = "running"
    BY Types DEF Complete, Inv
<1>2. req[r].ask \in Ask /\ req[r].age = 0 /\ TTL \in Nat
    BY <1>1, HttpServerAssumption DEF Inv, RequestInv
<1>3. PICK x \in HandlerState : RequestOK(x) /\ req' = [req EXCEPT ![r] = x]
    <2> DEFINE x == [req[r] EXCEPT !.at = "answered", !.stream = FALSE, !.answer = req[r].ask]
    <2>1. req' = [req EXCEPT ![r] = x]
        BY Requests DEF Complete, Answered
    <2>2. x \in HandlerState /\ x.at = "answered" /\ x.answer = x.ask /\ x.age = 0
        BY <1>2, Requests DEF HandlerState, Asks
    <2>3. RequestOK(x)
        BY <1>2, <2>2 DEF RequestOK
    <2> QED BY <2>1, <2>2, <2>3
<1>4. cache' \in Seq(Entry) /\ CacheInv'
    <2>1. CASE ~Cacheable(r)
        BY <1>1, <2>1, Requests DEF Complete
    <2>2. CASE Cacheable(r)
        <3> DEFINE e == [key |-> req[r].ask.key, answer |-> req[r].ask, at |-> now]
        <3>1. e \in Entry /\ e.answer.key = e.key /\ e.key \notin Sampled /\ e.at <= now
            BY <1>1, <1>2, <2>2, HttpServerAssumption DEF Entry, Ask, Cacheable
        <3>2. DistinctKeys(cache) /\ EntriesSound(cache) /\ Len(cache) <= CacheSize
            BY DEF Inv, CacheInv
        <3>3. cache' = Put(cache, e)
            BY <2>2 DEF Complete
        <3> HIDE DEF e
        <3>4. /\ cache' \in Seq(Entry) /\ Len(cache') <= CacheSize
              /\ DistinctKeys(cache') /\ EntriesSound(cache')
            BY <1>1, <3>1, <3>2, <3>3, PutIn
        <3> QED BY <1>1, <3>4 DEF CacheInv, DistinctKeys, EntriesSound
    <2> QED BY <2>1, <2>2
<1> QED BY <1>1, <1>3, <1>4, HandlerInv

-----------------------------------------------------------------------------
(* The theorems about limiter and cache. *)

LEMMA NextInv ==
    ASSUME Inv, [Next]_vars
    PROVE  Inv'
<1>1. CASE Next
    BY <1>1, TickInv, ArriveInv, PlainInv, HitInv, MissInv, CompleteInv DEF Next
<1>2. CASE UNCHANGED vars
    BY <1>2 DEF vars, Inv, TypeOK, RateInv, RateOf, Earned, Credit, CacheInv, DistinctKeys,
                EntriesSound, RequestInv
<1> QED BY <1>1, <1>2

\* Credit is earned before it is spent, and the cache keeps its entries apart.
THEOREM HttpInvariant == Spec => []Inv
<1>1. Init => Inv
    BY InitInv
<1>2. Inv /\ [Next]_vars => Inv'
    BY NextInv
<1> QED BY <1>1, <1>2, PTL DEF Spec

\* A client that was not evicted passes the rate limiter at most Capacity times
\* plus once for every tick in between (api/middleware.py, _allow_unlocked).
THEOREM LimiterIsExact == Spec => []RateHolds
<1>1. Inv => RateHolds
    <2> SUFFICES ASSUME Inv PROVE RateHolds
        OBVIOUS
    <2>1. \A c \in Client : DOMAIN granted[c] = 1 .. Len(granted[c])
        BY Types, LenProperties DEF Inv
    <2> QED BY <2>1 DEF Inv, RateInv, RateOf, RateHolds
<1> QED BY <1>1, HttpInvariant, PTL

\* The cache holds each key once, within its size, and answers every request with
\* what was generated for its key, in time and never sampled (api/tracking.py).
THEOREM CacheIsSound == Spec => []CacheSound
<1>1. Inv => CacheSound
    <2> SUFFICES ASSUME Inv PROVE CacheSound
        OBVIOUS
    <2>1. DOMAIN cache = 1 .. Len(cache)
        BY Types, LenProperties DEF Inv
    <2> QED BY <2>1 DEF Inv, CacheInv, DistinctKeys, RequestInv, CacheSound
<1> QED BY <1>1, HttpInvariant, PTL

-----------------------------------------------------------------------------
(* Induction, for the loops of the decode worker. *)

\* A set of naturals has a least element.
LEMMA Least ==
    ASSUME NEW T \in SUBSET Nat, T # {}
    PROVE  \E m \in T : \A k \in T : m <= k
<1>1. PICK m \in T : \A k \in T : <<k, m>> \notin OpToRel(<, Nat)
    BY WFMin, NatLessThanWellFounded, Zenon
<1>2. \A k \in T : ~(k < m)
    BY <1>1, Zenon DEF OpToRel
<1>3. \A k \in T : m <= k
    BY <1>2
<1> QED BY <1>3

\* Induction, for a set of naturals.
LEMMA Induction ==
    ASSUME NEW S, 0 \in S, \A n \in Nat : n \in S => n + 1 \in S
    PROVE  \A n \in Nat : n \in S
<1> DEFINE T == {n \in Nat : n \notin S}
<1>1. SUFFICES ASSUME T # {} PROVE FALSE
    OBVIOUS
<1>2. PICK m \in T : \A k \in T : m <= k
    <2> HIDE DEF T
    <2> QED BY <1>1, Least DEF T
<1> QED BY <1>2, m - 1 \in Nat, (m - 1) + 1 = m

\* The same over the turns of a loop.
LEMMA LoopInduction ==
    ASSUME NEW n \in Nat, NEW S, 0 \in S, \A i \in 1 .. n : i - 1 \in S => i \in S
    PROVE  \A i \in 0 .. n : i \in S
<1> DEFINE T == {i \in Nat : i <= n => i \in S}
<1>1. 0 \in T
    OBVIOUS
<1>2. ASSUME NEW i \in Nat, i \in T PROVE i + 1 \in T
    <2>1. CASE i + 1 <= n
        <3>1. i \in S /\ i + 1 \in 1 .. n /\ (i + 1) - 1 = i
            BY <1>2, <2>1
        <3> QED BY <3>1
    <2>2. CASE ~(i + 1 <= n)
        BY <2>2
    <2> QED BY <2>1, <2>2
<1> HIDE DEF T
<1>3. \A i \in Nat : i \in T
    BY <1>1, <1>2, Induction
<1> QED BY <1>3 DEF T

-----------------------------------------------------------------------------
(* Sequences. *)

\* What is known of every sequence over a set.
LEMMA Elements ==
    ASSUME NEW S, NEW s \in Seq(S)
    PROVE  /\ DOMAIN s = 1 .. Len(s) /\ Len(s) \in Nat
           /\ \A i \in 1 .. Len(s) : s[i] \in S /\ s[i] \in ToSet(s)
           /\ ToSet(s) \subseteq S
           /\ \A x : x \in ToSet(s) <=> \E i \in 1 .. Len(s) : s[i] = x
<1>1. DOMAIN s = 1 .. Len(s) /\ Len(s) \in Nat /\ s \in [1 .. Len(s) -> S]
    BY LenProperties
<1> QED BY <1>1 DEF ToSet

\* A sequence without repetition is extended by an element it does not have.
LEMMA Lengthened ==
    ASSUME NEW S, NEW s \in Seq(S), NEW e \in S
    PROVE  /\ Append(s, e) \in Seq(S) /\ Len(Append(s, e)) = Len(s) + 1
           /\ ToSet(Append(s, e)) = ToSet(s) \cup {e}
           /\ IsInjective(s) /\ e \notin ToSet(s) => IsInjective(Append(s, e))
<1> DEFINE t == Append(s, e)
           n == Len(s)
<1>1. /\ t \in Seq(S) /\ Len(t) = n + 1 /\ n \in Nat
      /\ \A i \in 1 .. n : t[i] = s[i]
      /\ t[n + 1] = e
    BY AppendProperties, Elements
<1>2. /\ DOMAIN t = 1 .. n + 1 /\ DOMAIN s = 1 .. n
      /\ \A x : x \in ToSet(t) <=> \E i \in 1 .. n + 1 : t[i] = x
      /\ \A x : x \in ToSet(s) <=> \E i \in 1 .. n : s[i] = x
    <2>1. DOMAIN s = 1 .. n /\ \A x : x \in ToSet(s) <=> \E i \in 1 .. n : s[i] = x
        BY Elements
    <2> HIDE DEF t
    <2>2. DOMAIN t = 1 .. Len(t) /\ \A x : x \in ToSet(t) <=> \E i \in 1 .. Len(t) : t[i] = x
        BY <1>1, Elements
    <2> QED BY <1>1, <2>1, <2>2
<1> HIDE DEF t, n
<1>3. \A i \in 1 .. n + 1 : i \in 1 .. n \/ i = n + 1
    BY <1>1
<1>4. \A i \in 1 .. n : i \in 1 .. n + 1
    BY <1>1
<1>5. n + 1 \in 1 .. n + 1
    BY <1>1
<1>6. ToSet(t) = ToSet(s) \cup {e}
    BY <1>1, <1>2, <1>3, <1>4, <1>5
<1>7. ASSUME IsInjective(s), e \notin ToSet(s), NEW i \in 1 .. n + 1, NEW j \in 1 .. n + 1, t[i] = t[j]
      PROVE  i = j
    <2>1. \A k, m \in 1 .. n : s[k] = s[m] => k = m
        BY <1>2, <1>7 DEF IsInjective
    <2> QED BY <1>1, <1>2, <1>3, <1>7, <2>1
<1> QED BY <1>1, <1>2, <1>6, <1>7 DEF IsInjective, t, n

\* Two sequences one behind the other.
LEMMA Joined ==
    ASSUME NEW S, NEW s \in Seq(S), NEW t \in Seq(S)
    PROVE  /\ s \o t \in Seq(S)
           /\ ToSet(s \o t) = ToSet(s) \cup ToSet(t)
           /\ IsInjective(s) /\ IsInjective(t) /\ ToSet(s) \cap ToSet(t) = {} => IsInjective(s \o t)
<1> DEFINE u == s \o t
           m == Len(s)
           n == Len(t)
<1>1. /\ m \in Nat /\ n \in Nat /\ DOMAIN s = 1 .. m /\ DOMAIN t = 1 .. n
      /\ \A x : x \in ToSet(s) <=> \E i \in 1 .. m : s[i] = x
      /\ \A x : x \in ToSet(t) <=> \E i \in 1 .. n : t[i] = x
    BY Elements
<1>2. /\ u \in Seq(S) /\ Len(u) = m + n
      /\ \A i \in 1 .. m + n : u[i] = IF i <= m THEN s[i] ELSE t[i - m]
    BY ConcatProperties
<1>3. DOMAIN u = 1 .. m + n /\ \A x : x \in ToSet(u) <=> \E i \in 1 .. m + n : u[i] = x
    BY <1>2, Elements
<1> HIDE DEF u, m, n
<1>4. \A i \in 1 .. m : i \in 1 .. m + n /\ u[i] = s[i]
    BY <1>1, <1>2
<1>5. \A i \in 1 .. n : m + i \in 1 .. m + n /\ u[m + i] = t[i]
    <2> SUFFICES ASSUME NEW i \in 1 .. n PROVE m + i \in 1 .. m + n /\ u[m + i] = t[i]
        OBVIOUS
    <2>1. m + i \in 1 .. m + n /\ ~(m + i <= m) /\ (m + i) - m = i
        BY <1>1
    <2> QED BY <1>2, <2>1
<1>6. \A i \in 1 .. m + n : \/ i \in 1 .. m /\ u[i] = s[i]
                            \/ i - m \in 1 .. n /\ i = m + (i - m) /\ u[i] = t[i - m]
    BY <1>1, <1>2
<1>7. ToSet(u) = ToSet(s) \cup ToSet(t)
    BY <1>1, <1>3, <1>4, <1>5, <1>6
<1>8. ASSUME IsInjective(s), IsInjective(t), ToSet(s) \cap ToSet(t) = {},
             NEW i \in 1 .. m + n, NEW j \in 1 .. m + n, u[i] = u[j]
      PROVE  i = j
    <2>1. /\ \A a, b \in 1 .. m : s[a] = s[b] => a = b
          /\ \A a, b \in 1 .. n : t[a] = t[b] => a = b
          /\ \A a \in 1 .. m, b \in 1 .. n : s[a] # t[b]
        BY <1>1, <1>8 DEF IsInjective
    <2>2. CASE i \in 1 .. m /\ u[i] = s[i]
        <3>1. j \in 1 .. m /\ u[j] = s[j]
            BY <1>6, <1>8, <2>1, <2>2
        <3> QED BY <1>8, <2>1, <2>2, <3>1
    <2>3. CASE i - m \in 1 .. n /\ i = m + (i - m) /\ u[i] = t[i - m]
        <3>1. j - m \in 1 .. n /\ j = m + (j - m) /\ u[j] = t[j - m]
            BY <1>6, <1>8, <2>1, <2>3
        <3>2. i - m = j - m
            BY <1>8, <2>1, <2>3, <3>1
        <3> QED BY <2>3, <3>1, <3>2
    <2> QED BY <1>6, <2>2, <2>3
<1> QED BY <1>2, <1>3, <1>7, <1>8 DEF IsInjective, u

\* The least of two numbers.
LEMMA MinOfTwo ==
    ASSUME NEW a \in Int, NEW b \in Int
    PROVE  /\ Min({a, b}) \in {a, b} /\ Min({a, b}) <= a /\ Min({a, b}) <= b
           /\ Max({a, b}) \in {a, b} /\ Max({a, b}) >= a /\ Max({a, b}) >= b
<1>1. (\E x \in {a, b} : \A y \in {a, b} : x <= y) /\ (\E x \in {a, b} : \A y \in {a, b} : x >= y)
    OBVIOUS
<1> QED BY <1>1 DEF Min, Max

\* What a sequence has after its first element.
LEMMA Shortened ==
    ASSUME NEW S, NEW s \in Seq(S), s # <<>>
    PROVE  /\ Head(s) \in S /\ Head(s) = s[1] /\ Head(s) \in ToSet(s)
           /\ Tail(s) \in Seq(S) /\ Len(s) \in Nat \ {0} /\ Len(Tail(s)) = Len(s) - 1
           /\ \A i \in 1 .. Len(s) - 1 : Tail(s)[i] = s[i + 1]
           /\ ToSet(Tail(s)) \subseteq ToSet(s)
           /\ \A x \in ToSet(s) : x = Head(s) \/ x \in ToSet(Tail(s))
           /\ IsInjective(s) => IsInjective(Tail(s)) /\ Head(s) \notin ToSet(Tail(s))
<1> DEFINE t == Tail(s)
           n == Len(s)
<1>1. /\ Head(s) \in S /\ Head(s) = s[1] /\ t \in Seq(S) /\ n \in Nat \ {0} /\ Len(t) = n - 1
      /\ \A i \in 1 .. n - 1 : t[i] = s[i + 1]
    BY HeadTailProperties, EmptySeq
<1> HIDE DEF t
<1>2. /\ DOMAIN s = 1 .. n /\ \A x : x \in ToSet(s) <=> \E i \in 1 .. n : s[i] = x
      /\ DOMAIN t = 1 .. n - 1 /\ \A x : x \in ToSet(t) <=> \E i \in 1 .. n - 1 : t[i] = x
    BY <1>1, Elements
<1> HIDE DEF n
<1>3. \A i \in 1 .. n - 1 : i + 1 \in 1 .. n /\ i + 1 # 1
    BY <1>1
<1>4. \A i \in 1 .. n : i = 1 \/ (i - 1 \in 1 .. n - 1 /\ (i - 1) + 1 = i)
    BY <1>1
<1>5. 1 \in 1 .. n
    BY <1>1
<1>6. ToSet(t) \subseteq ToSet(s) /\ Head(s) \in ToSet(s)
    BY <1>1, <1>2, <1>3, <1>5
<1>7. ASSUME NEW x \in ToSet(s) PROVE x = Head(s) \/ x \in ToSet(t)
    <2>1. PICK i \in 1 .. n : s[i] = x
        BY <1>2
    <2>2. CASE i = 1
        BY <1>1, <2>1, <2>2
    <2>3. CASE i - 1 \in 1 .. n - 1 /\ (i - 1) + 1 = i
        <3>1. t[i - 1] = x
            BY <1>1, <2>1, <2>3
        <3> QED BY <1>2, <2>3, <3>1
    <2> QED BY <1>4, <2>2, <2>3
<1>8. ASSUME IsInjective(s) PROVE IsInjective(t) /\ Head(s) \notin ToSet(t)
    <2>1. \A i, j \in 1 .. n : s[i] = s[j] => i = j
        BY <1>2, <1>8 DEF IsInjective
    <2>2. \A i, j \in 1 .. n - 1 : t[i] = t[j] => i = j
        BY <1>1, <1>3, <2>1
    <2>3. Head(s) \notin ToSet(t)
        BY <1>1, <1>2, <1>3, <1>5, <2>1
    <2> QED BY <1>2, <2>2, <2>3 DEF IsInjective
<1> QED BY <1>1, <1>6, <1>7, <1>8 DEF n, t

\* The elements in K after each turn.
LEMMA ChoosingTurns ==
    ASSUME NEW s, NEW K, NEW n \in Nat, Len(s) = n
    PROVE  /\ Choosing(s, K)[0] = <<>>
           /\ \A i \in 1 .. n : Choosing(s, K)[i] = IF s[i] \in K THEN Append(Choosing(s, K)[i - 1], s[i])
                                                   ELSE Choosing(s, K)[i - 1]
<1> DEFINE Turn(t, i) == IF s[i] \in K THEN Append(t, s[i]) ELSE t
           Run(a, m) == a = [i \in 0 .. m |-> IF i = 0 THEN <<>> ELSE Turn(a[i - 1], i)]
           T == {m \in Nat : \E a : Run(a, m)}
<1>0. Choosing(s, K) = (CHOOSE a : Run(a, n))
    BY DEF Choosing
<1> HIDE DEF Turn
<1>1. 0 \in T
    <2> DEFINE a == [i \in 0 .. 0 |-> <<>>]
    <2>1. Run(a, 0)
        OBVIOUS
    <2> QED BY <2>1
<1>2. ASSUME NEW m \in Nat, m \in T PROVE m + 1 \in T
    <2>1. PICK a : Run(a, m)
        BY <1>2
    <2> DEFINE b == [i \in 0 .. m + 1 |-> IF i <= m THEN a[i] ELSE Turn(a[m], i)]
    <2>2. ASSUME NEW i \in 0 .. m + 1 PROVE b[i] = IF i = 0 THEN <<>> ELSE Turn(b[i - 1], i)
        <3>1. CASE i = 0
            BY <3>1, <2>1
        <3>2. CASE i # 0 /\ i <= m
            BY <3>2, <2>1
        <3>3. CASE i = m + 1
            BY <3>3
        <3> QED BY <3>1, <3>2, <3>3
    <2>3. Run(b, m + 1)
        BY <2>2
    <2> HIDE DEF b, Run
    <2> QED BY <2>3
<1> HIDE DEF T
<1>3. n \in T
    BY <1>1, <1>2, Induction
<1>4. \E a : Run(a, n)
    BY <1>3 DEF T
<1> DEFINE run == CHOOSE a : Run(a, n)
<1>5. Run(run, n)
    <2> HIDE DEF Run
    <2> QED BY <1>4
<1> HIDE DEF run
<1>6. run[0] = <<>> /\ \A i \in 1 .. n : run[i] = Turn(run[i - 1], i)
    BY <1>5
<1>7. Choosing(s, K) = run
    BY <1>0 DEF run
<1> QED BY <1>6, <1>7 DEF Turn

\* The chosen elements, none twice if none was.
LEMMA ChosenIs ==
    ASSUME NEW E, NEW s \in Seq(E), NEW K
    PROVE  /\ Chosen(s, K) \in Seq(E)
           /\ ToSet(Chosen(s, K)) = ToSet(s) \cap K
           /\ IsInjective(s) => IsInjective(Chosen(s, K))
<1> DEFINE n == Len(s)
           Upto(i) == {s[j] : j \in 1 .. i}
<1>1. /\ n \in Nat /\ Len(s) = n /\ DOMAIN s = 1 .. n /\ \A i \in 1 .. n : s[i] \in E
      /\ ToSet(s) = Upto(n)
    BY Elements DEF ToSet
<1> HIDE DEF n
<1>2. PICK run : /\ run[0] = <<>>
                 /\ \A i \in 1 .. n : run[i] = IF s[i] \in K THEN Append(run[i - 1], s[i]) ELSE run[i - 1]
                 /\ Chosen(s, K) = run[n]
    BY <1>1, ChoosingTurns DEF Chosen
<1> DEFINE T == {i \in 0 .. n : /\ run[i] \in Seq(E)
                                /\ ToSet(run[i]) = Upto(i) \cap K
                                /\ IsInjective(s) => IsInjective(run[i])}
<1>3. 0 \in T
    <2>1. <<>> \in Seq(E) /\ ToSet(<<>>) = {} /\ IsInjective(<<>>) /\ Upto(0) = {}
        BY DEF ToSet, IsInjective
    <2> HIDE DEF Upto
    <2>2. 0 \in 0 .. n
        BY <1>1
    <2> QED BY <1>2, <2>1, <2>2
<1>4. ASSUME NEW i \in 1 .. n, i - 1 \in T PROVE i \in T
    <2>1. Upto(i) = Upto(i - 1) \cup {s[i]}
        <3>1. \A j \in 1 .. i : j \in 1 .. i - 1 \/ j = i
            BY <1>1
        <3>2. \A j \in 1 .. i - 1 : j \in 1 .. i
            BY <1>1
        <3> QED BY <3>1, <3>2
    <2>2. s[i] \in E
        BY <1>1
    <2>3. IsInjective(s) => s[i] \notin Upto(i - 1)
        BY <1>1 DEF IsInjective
    <2> HIDE DEF Upto
    <2>4. /\ run[i - 1] \in Seq(E) /\ ToSet(run[i - 1]) = Upto(i - 1) \cap K
          /\ IsInjective(s) => IsInjective(run[i - 1])
        BY <1>4
    <2>5. CASE s[i] \notin K
        BY <1>2, <2>1, <2>4, <2>5
    <2>6. CASE s[i] \in K
        <3>1. run[i] = Append(run[i - 1], s[i])
            BY <1>2, <2>6
        <3>2. /\ run[i] \in Seq(E)
              /\ ToSet(run[i]) = ToSet(run[i - 1]) \cup {s[i]}
              /\ IsInjective(run[i - 1]) /\ s[i] \notin ToSet(run[i - 1]) => IsInjective(run[i])
            BY <2>2, <2>4, <3>1, Lengthened
        <3> QED BY <2>1, <2>3, <2>4, <2>6, <3>2
    <2> QED BY <2>5, <2>6
<1> HIDE DEF T
<1>5. n \in T
    BY <1>1, <1>3, <1>4, LoopInduction
<1> QED BY <1>1, <1>2, <1>5 DEF T

\* The state after each request whose blocks grow.
LEMMA GrowingTurns ==
    ASSUME NEW st, NEW rs, NEW n \in Nat, Len(rs) = n
    PROVE  /\ Growing(st, rs)[0] = st
           /\ \A i \in 1 .. n : Growing(st, rs)[i] = Grow(Growing(st, rs)[i - 1], rs[i])
<1> DEFINE Turn(x, i) == Grow(x, rs[i])
           Run(a, m) == a = [i \in 0 .. m |-> IF i = 0 THEN st ELSE Turn(a[i - 1], i)]
           T == {m \in Nat : \E a : Run(a, m)}
<1>0. Growing(st, rs) = (CHOOSE a : Run(a, n))
    BY DEF Growing
<1> HIDE DEF Turn
<1>1. 0 \in T
    <2> DEFINE a == [i \in 0 .. 0 |-> st]
    <2>1. Run(a, 0)
        OBVIOUS
    <2> QED BY <2>1
<1>2. ASSUME NEW m \in Nat, m \in T PROVE m + 1 \in T
    <2>1. PICK a : Run(a, m)
        BY <1>2
    <2> DEFINE b == [i \in 0 .. m + 1 |-> IF i <= m THEN a[i] ELSE Turn(a[m], i)]
    <2>2. ASSUME NEW i \in 0 .. m + 1 PROVE b[i] = IF i = 0 THEN st ELSE Turn(b[i - 1], i)
        <3>1. CASE i = 0
            BY <3>1, <2>1
        <3>2. CASE i # 0 /\ i <= m
            BY <3>2, <2>1
        <3>3. CASE i = m + 1
            BY <3>3
        <3> QED BY <3>1, <3>2, <3>3
    <2>3. Run(b, m + 1)
        BY <2>2
    <2> HIDE DEF b, Run
    <2> QED BY <2>3
<1> HIDE DEF T
<1>3. n \in T
    BY <1>1, <1>2, Induction
<1>4. \E a : Run(a, n)
    BY <1>3 DEF T
<1> DEFINE run == CHOOSE a : Run(a, n)
<1>5. Run(run, n)
    <2> HIDE DEF Run
    <2> QED BY <1>4
<1> HIDE DEF run
<1>6. run[0] = st /\ \A i \in 1 .. n : run[i] = Turn(run[i - 1], i)
    BY <1>5
<1>7. Growing(st, rs) = run
    BY <1>0 DEF run
<1> QED BY <1>6, <1>7 DEF Turn

State == [out : [Request -> Seq(Token)], blocks : [Request -> Nat], free : 0 .. SchedBlocks, cut : SUBSET Request]

\* What the requests rs do to the scheduler's state as their blocks grow: their
\* tokens stay, and nobody who was cut is not cut any more.
LEMMA GrownIs ==
    ASSUME NEW st \in State, NEW rs \in Seq(Request)
    PROVE  LET g == Growing(st, rs)[Len(rs)] IN
           g \in State /\ g.out = st.out /\ st.cut \subseteq g.cut
<1> DEFINE n == Len(rs)
<1>1. n \in Nat /\ Len(rs) = n /\ \A i \in 1 .. n : rs[i] \in Request
    BY Elements
<1> HIDE DEF n
<1>2. PICK run : /\ run[0] = st
                 /\ \A i \in 1 .. n : run[i] = Grow(run[i - 1], rs[i])
                 /\ Growing(st, rs)[n] = run[n]
    BY <1>1, GrowingTurns
<1> DEFINE T == {i \in 0 .. n : run[i] \in State /\ run[i].out = st.out /\ st.cut \subseteq run[i].cut}
<1>3. 0 \in T
    BY <1>1, <1>2
<1>4. ASSUME NEW i \in 1 .. n, i - 1 \in T PROVE i \in T
    <2> DEFINE x == run[i - 1]
               r == rs[i]
    <2>1. x \in State /\ x.out = st.out /\ st.cut \subseteq x.cut /\ r \in Request /\ run[i] = Grow(x, r)
        BY <1>1, <1>2, <1>4
    <2>5. i \in 0 .. n
        BY <1>1
    <2> HIDE DEF x, r
    <2>6. SUFFICES run[i] \in State /\ run[i].out = st.out /\ st.cut \subseteq run[i].cut
        BY <2>5
    <2>2. CASE ~NeedsBlock(r, x.out[r])
        BY <2>1, <2>2 DEF Grow
    <2>3. CASE NeedsBlock(r, x.out[r]) /\ x.free > 0
        <3>1. run[i] = [x EXCEPT !.blocks[r] = @ + 1, !.free = @ - 1]
            BY <2>1, <2>3 DEF Grow
        <3>4. /\ x.out \in [Request -> Seq(Token)] /\ x.blocks \in [Request -> Nat]
              /\ x.free \in 0 .. SchedBlocks /\ x.cut \in SUBSET Request
            BY <2>1 DEF State
        <3>2. x.free - 1 \in 0 .. SchedBlocks /\ [x.blocks EXCEPT ![r] = @ + 1] \in [Request -> Nat]
            BY <2>1, <2>3, <3>4, DisaggregatedAssumption
        <3>5. run[i] = [out |-> x.out, blocks |-> [x.blocks EXCEPT ![r] = @ + 1], free |-> x.free - 1, cut |-> x.cut]
            BY <2>1, <3>1 DEF State
        <3> QED BY <2>1, <3>2, <3>4, <3>5 DEF State
    <2>4. CASE NeedsBlock(r, x.out[r]) /\ ~(x.free > 0)
        <3>1. run[i] = [x EXCEPT !.cut = @ \cup {r}]
            BY <2>1, <2>4 DEF Grow
        <3>2. run[i] = [out |-> x.out, blocks |-> x.blocks, free |-> x.free, cut |-> x.cut \cup {r}]
            BY <2>1, <3>1 DEF State
        <3>3. /\ x.out \in [Request -> Seq(Token)] /\ x.blocks \in [Request -> Nat]
              /\ x.free \in 0 .. SchedBlocks /\ x.cut \cup {r} \in SUBSET Request
            BY <2>1 DEF State
        <3> QED BY <2>1, <3>2, <3>3 DEF State
    <2> QED BY <2>2, <2>3, <2>4
<1> HIDE DEF T
<1>5. n \in T
    BY <1>1, <1>3, <1>4, LoopInduction
<1> QED BY <1>2, <1>5 DEF T, n

\* A slot of the prefill cache never has more than the cache.
LEMMA RoomForOne ==
    ASSUME held \in [Slot -> 0 .. PrefillBlocks], HasRoom, NEW s \in Slot
    PROVE  held[s] + 1 \in 0 .. PrefillBlocks
<1> DEFINE B == {b \in Slot \X (1 .. PrefillBlocks) : b[2] <= held[b[1]]}
<1>1. PrefillBlocks \in Nat /\ NumSlots \in Nat /\ held[s] \in 0 .. PrefillBlocks
    BY DisaggregatedAssumption
<1>2. Cardinality(B) < PrefillBlocks
    BY DEF HasRoom, TotalHeld
<1>3. IsFiniteSet(B)
    <2>1. IsFiniteSet(Slot) /\ IsFiniteSet(1 .. PrefillBlocks)
        BY <1>1, FS_Interval DEF Slot
    <2>2. IsFiniteSet(Slot \X (1 .. PrefillBlocks))
        BY <2>1, FS_Product
    <2> QED BY <2>2, FS_Subset
<1>4. ASSUME held[s] = PrefillBlocks PROVE FALSE
    <2>1. {s} \X (1 .. PrefillBlocks) \subseteq B
        BY <1>1, <1>4
    <2>2. Cardinality({s}) = 1 /\ IsFiniteSet({s})
        BY FS_Singleton
    <2>3. IsFiniteSet(1 .. PrefillBlocks) /\ Cardinality(1 .. PrefillBlocks) = PrefillBlocks
        BY <1>1, FS_Interval
    <2>4. Cardinality({s} \X (1 .. PrefillBlocks)) = 1 * PrefillBlocks
        <3>1. Cardinality({s} \X (1 .. PrefillBlocks)) = Cardinality({s}) * Cardinality(1 .. PrefillBlocks)
            BY <2>2, <2>3, FS_Product, Zenon
        <3> QED BY <2>2, <2>3, <3>1
    <2>5. Cardinality({s} \X (1 .. PrefillBlocks)) <= Cardinality(B)
        BY <1>3, <2>1, FS_Subset
    <2>6. Cardinality(B) \in Nat
        BY <1>3, FS_CardinalityType
    <2> QED BY <1>1, <1>2, <2>4, <2>5, <2>6
<1> QED BY <1>1, <1>4

-----------------------------------------------------------------------------
(* Disaggregated prefill and decode: the invariant. *)

\* Beyond the types: a thread that works on a request has one.
Hands ==
    /\ prefill.req = Stop <=> prefill.at \in {"wait", "exited"}
    /\ recv.at \in {"body", "got"} => recv.req \in Request

\* Where a request can be on its way to the decode worker.
Queued(r) == r \in ToSet(queue)
InHand(r) == prefill.req = r /\ prefill.at \in {"picked", "computed", "packed", "header"}
OnWire(r) == \E i \in 1 .. Len(chan) : chan[i].kind = "body" /\ chan[i].req = r
Got(r)    == recv.at = "got" /\ recv.req = r

Coming(r) == status[r] = "new" \/ Queued(r) \/ InHand(r) \/ OnWire(r) \/ Got(r)

QueueApart == \A i, j \in 1 .. Len(queue) : queue[i] = queue[j] /\ queue[i] # Stop => i = j
BodiesApart == \A i, j \in 1 .. Len(chan) :
    chan[i].kind = "body" /\ chan[j].kind = "body" /\ chan[i].req = chan[j].req => i = j

\* It is at one place, once.
Journey ==
    /\ QueueApart /\ BodiesApart
    /\ \A r \in Request :
         /\ Queued(r) => status[r] # "new"
         /\ InHand(r) => status[r] # "new" /\ ~Queued(r)
         /\ OnWire(r) => status[r] # "new" /\ ~Queued(r) /\ ~InHand(r)
         /\ Got(r)    => status[r] # "new" /\ ~Queued(r) /\ ~InHand(r) /\ ~OnWire(r)

\* The decode worker does not know a request that is coming, and nobody was
\* called.
Unknown ==
    \A r \in Request : Coming(r) =>
      /\ slotOf[r] = Stop
      /\ r \notin ToSet(running) /\ r \notin ToSet(completed)
      /\ callback[r] <= 0 /\ result[r] = <<>>

SlotsApart ==
    /\ IsInjective(slotPool)
    /\ \A r, q \in Request : slotOf[r] = slotOf[q] /\ slotOf[r] # Stop => r = q
    /\ \A r \in Request : slotOf[r] \notin ToSet(slotPool)
    /\ \A s \in Slot : s \in ToSet(slotPool) \/ \E r \in Request : slotOf[r] = s

\* The lists of the loop: the receive thread only ever adds to the end of running.
Lists ==
    /\ IsInjective(running) /\ IsInjective(step.still) /\ IsInjective(completed)
    /\ ToSet(step.still) \subseteq ToSet(running)
    /\ ToSet(step.batch) \subseteq ToSet(running)
    /\ step.at \in {"idle", "swept", "forward", "updated"} => completed = <<>>
    /\ step.at = "swept" => \A r \in ToSet(step.still) : ~IsFinished(r)
    /\ step.at = "forward" => \A r \in ToSet(step.batch) : ~IsFinished(r)
    /\ \A r \in ToSet(completed) : IsFinished(r) /\ r \notin ToSet(step.still)
    /\ step.at = "deliver" => \A r \in ToSet(completed) : r \notin ToSet(running)

\* Tokens end where the request does, and what was delivered is done with.
Delivered(r) == callback[r] >= 1 \/ result[r] # <<>>

Answers ==
    \A r \in Request :
      /\ Len(out[r]) <= MaxNew
      /\ \A i \in 1 .. Len(out[r]) - 1 : out[r][i] # "eos"
      /\ callback[r] <= 1
      /\ result[r] \in {<<>>, out[r]}
      /\ Delivered(r) => IsFinished(r) /\ r \notin ToSet(running) /\ r \notin ToSet(completed)

\* The frames c on the wire when the sender owes the body of p and the receiver
\* waits for that of q, Stop standing for none: every header is followed by its
\* body, or its sender still owes that.
Whole(c, p, q) ==
    /\ \A i \in 1 .. Len(c) : c[i].kind = "meta" /\ c[i].req # Stop =>
         IF i < Len(c) THEN c[i + 1].kind = "body" /\ c[i + 1].req = c[i].req ELSE p = c[i].req
    /\ \A i \in 1 .. Len(c) : c[i].kind = "body" =>
         /\ c[i].req # Stop
         /\ IF i > 1 THEN c[i - 1].kind = "meta" /\ c[i - 1].req = c[i].req ELSE q = c[i].req
    /\ q # Stop => IF c # <<>> THEN c[1].kind = "body" /\ c[1].req = q ELSE p = q
    /\ p # Stop => IF c # <<>> THEN c[Len(c)].kind = "meta" /\ c[Len(c)].req = p ELSE q = p

Owed == IF prefill.at = "header" THEN prefill.req ELSE Stop
Awaited  == IF recv.at = "body" THEN recv.req ELSE Stop

Frames ==
    ~JoinLate =>
      /\ recv.at # "torn"
      /\ shut \in {"zeroed", "done"} => prefill.at = "exited" /\ metaBuf = Stop
      /\ prefill.at = "packed" => metaBuf = prefill.req
      /\ recv.at # "exited" => Whole(chan, Owed, Awaited)

DInv == DTypeOK /\ Hands /\ Journey /\ Unknown /\ SlotsApart /\ Lists /\ Answers /\ Frames

-----------------------------------------------------------------------------
(* Types. *)

FrameType == [kind : {"meta", "body"}, req : Request \cup {Stop}, first : Token]

\* A function over the elements of a sequence, one by one.
LEMMA Mapped ==
    ASSUME NEW E, NEW s \in Seq(E), NEW S, NEW f, \A x \in ToSet(s) : f[x] \in S,
           NEW t, t = [i \in DOMAIN s |-> f[s[i]]]
    PROVE  /\ t \in Seq(S) /\ ToSet(t) = {f[x] : x \in ToSet(s)}
           /\ IsInjective(s) /\ (\A x, y \in ToSet(s) : f[x] = f[y] => x = y) => IsInjective(t)
<1>1. /\ DOMAIN s = 1 .. Len(s) /\ Len(s) \in Nat
      /\ \A i \in 1 .. Len(s) : s[i] \in ToSet(s)
      /\ \A x : x \in ToSet(s) <=> \E i \in 1 .. Len(s) : s[i] = x
    BY Elements
<1>2. t \in [1 .. Len(s) -> S]
    BY <1>1
<1>3. t \in Seq(S) /\ DOMAIN t = 1 .. Len(s)
    BY <1>1, <1>2, SeqDef
<1>4. ToSet(t) = {t[i] : i \in 1 .. Len(s)}
    BY <1>3 DEF ToSet
<1>5. ToSet(t) = {f[x] : x \in ToSet(s)}
    <2>1. \A i \in 1 .. Len(s) : t[i] = f[s[i]]
        BY <1>1
    <2>2. ASSUME NEW y \in ToSet(t) PROVE y \in {f[x] : x \in ToSet(s)}
        BY <1>1, <1>4, <2>1
    <2>3. ASSUME NEW x \in ToSet(s) PROVE f[x] \in ToSet(t)
        <3>1. PICK i \in 1 .. Len(s) : s[i] = x
            BY <1>1
        <3>2. t[i] = f[x]
            BY <2>1, <3>1
        <3> QED BY <1>4, <3>2
    <2> QED BY <2>2, <2>3
<1>6. ASSUME IsInjective(s), \A x, y \in ToSet(s) : f[x] = f[y] => x = y PROVE IsInjective(t)
    BY <1>1, <1>3, <1>6 DEF IsInjective
<1> QED BY <1>3, <1>5, <1>6

\* The types of the variables and of the parts of records.
LEMMA WorkerTypes ==
    ASSUME DTypeOK
    PROVE  /\ status \in [Request -> {"new", "pending", "prefilling", "transferring", "finished", "popped"}]
           /\ result \in [Request -> Seq(Token)] /\ out \in [Request -> Seq(Token)]
           /\ queue \in Seq(Request \cup {Stop})
           /\ chan \in Seq(FrameType) /\ metaBuf \in Request \cup {Stop}
           /\ prefill.req \in Request \cup {Stop} /\ prefill.slot \in Slot /\ prefill.first \in Token
           /\ prefill = [at |-> prefill.at, req |-> prefill.req, slot |-> prefill.slot, first |-> prefill.first]
           /\ recv.req \in Request \cup {Stop} /\ recv.first \in Token
           /\ recv = [at |-> recv.at, req |-> recv.req, first |-> recv.first]
           /\ slotPool \in Seq(Slot) /\ slotOf \in [Request -> Slot \cup {Stop}]
           /\ running \in Seq(Request) /\ completed \in Seq(Request)
           /\ step.batch \in Seq(Request) /\ step.still \in Seq(Request)
           /\ step = [at |-> step.at, batch |-> step.batch, still |-> step.still]
           /\ callback \in [Request -> -1 .. NumRequests]
           /\ cut \subseteq Request /\ blocks \in [Request -> Nat] /\ free \in 0 .. SchedBlocks
           /\ table \in [Slot -> Seq(Request)] /\ held \in [Slot -> 0 .. PrefillBlocks]
           /\ nextSlot \in Slot /\ nextSeq \in Slot
BY DEF DTypeOK, FrameType

\* Slots and requests are numbers, Stop is neither.
LEMMA Numbers ==
    /\ \A s \in Slot : (s + 1) % NumSlots \in Slot
    /\ 0 \in Slot /\ Stop \notin Request /\ Stop \notin Slot
    /\ NumRequests \in Nat \ {0} /\ NumSlots \in Nat \ {0} /\ SchedBlocks \in Nat /\ MaxNew \in Nat \ {0}
    /\ Request \subseteq Nat /\ Slot \subseteq Nat
BY DisaggregatedAssumption DEF Slot, Request, Stop

\* The state that a forward pass leaves to update_after_step.
LEMMA TokensTyped ==
    ASSUME DTypeOK, NEW tokens \in [ToSet(step.batch) -> Token]
    PROVE  [r \in Request |-> IF r \in ToSet(step.batch) THEN AppendToken(out[r], tokens[r]) ELSE out[r]]
             \in [Request -> Seq(Token)]
<1> SUFFICES ASSUME NEW r \in Request, r \in ToSet(step.batch)
             PROVE  AppendToken(out[r], tokens[r]) \in Seq(Token)
    BY WorkerTypes
<1>1. out[r] \in Seq(Token) /\ tokens[r] \in Token
    BY WorkerTypes
<1> QED BY <1>1, AppendProperties DEF AppendToken

\* What update_after_step leaves: batch requests have one token more.
LEMMA Updated ==
    ASSUME DTypeOK, Forward
    PROVE  \E tokens \in [ToSet(step.batch) -> Token] :
             /\ out' = [r \in Request |-> IF r \in ToSet(step.batch) THEN Append(out[r], tokens[r]) ELSE out[r]]
             /\ out' \in [Request -> Seq(Token)]
             /\ blocks' \in [Request -> Nat] /\ free' \in 0 .. SchedBlocks
             /\ cut' \subseteq Request /\ cut \subseteq cut'
             /\ step.at = "forward" /\ step' = [step EXCEPT !.at = "updated"]
             /\ UNCHANGED <<status, result, prefillVars, chan, recvVars, slotPool, slotOf, running, completed,
                            callback, shut>>
<1>1. PICK tokens \in [ToSet(step.batch) -> Token] : Update(tokens)
    BY DEF Forward
<1> DEFINE o  == [r \in Request |-> IF r \in ToSet(step.batch) THEN AppendToken(out[r], tokens[r]) ELSE out[r]]
           s0 == [out |-> o, blocks |-> blocks, free |-> free, cut |-> cut]
           st == Growing(s0, step.batch)[Len(step.batch)]
<1>2. o \in [Request -> Seq(Token)]
    BY TokensTyped
<1>3. /\ out' = st.out /\ blocks' = st.blocks /\ free' = st.free /\ cut' = st.cut
      /\ step.at = "forward" /\ step' = [step EXCEPT !.at = "updated"]
      /\ UNCHANGED <<status, result, prefillVars, chan, recvVars, slotPool, slotOf, running, completed,
                     callback, shut>>
    BY <1>1 DEF Update
<1>4. s0.out = o /\ s0.cut = cut
    OBVIOUS
<1>5. o = [r \in Request |-> IF r \in ToSet(step.batch) THEN Append(out[r], tokens[r]) ELSE out[r]]
    BY DEF AppendToken
<1> HIDE DEF o
<1>6. s0 \in State
    BY <1>2, WorkerTypes DEF State
<1> HIDE DEF s0
<1>7. st \in State /\ st.out = o /\ cut \subseteq st.cut
    BY <1>4, <1>6, WorkerTypes, GrownIs
<1> HIDE DEF st
<1>8. st.blocks \in [Request -> Nat] /\ st.free \in 0 .. SchedBlocks /\ st.cut \subseteq Request
    BY <1>7 DEF State
<1> QED BY <1>2, <1>3, <1>5, <1>7, <1>8

\* The types of what each thread keeps.
CallerTyped ==
    /\ status \in [Request -> {"new", "pending", "prefilling", "transferring", "finished", "popped"}]
    /\ result \in [Request -> Seq(Token)]
    /\ callback \in [Request -> -1 .. NumRequests]
    /\ shut \in {"no", "join", "zeroed", "done"}

PrefillTyped ==
    /\ queue \in Seq(Request \cup {Stop})
    /\ prefill \in [at : {"wait", "picked", "computed", "packed", "header", "body", "exited"},
                    req : Request \cup {Stop}, slot : Slot, first : Token]
    /\ prefill.req = Stop <=> prefill.at \in {"wait", "exited"}
    /\ held \in [Slot -> 0 .. PrefillBlocks]
    /\ nextSlot \in Slot
    /\ metaBuf \in Request \cup {Stop}

RecvTyped ==
    /\ chan \in Seq(FrameType)
    /\ recv \in [at : {"meta", "body", "got", "exited", "torn"}, req : Request \cup {Stop}, first : Token]
    /\ recv.at \in {"body", "got"} => recv.req \in Request
    /\ nextSeq \in Slot
    /\ table \in [Slot -> Seq(Request)]

DecodeTyped ==
    /\ slotPool \in Seq(Slot)
    /\ slotOf \in [Request -> Slot \cup {Stop}]
    /\ running \in Seq(Request)
    /\ out \in [Request -> Seq(Token)]
    /\ blocks \in [Request -> Nat]
    /\ cut \subseteq Request
    /\ free \in 0 .. SchedBlocks

LoopTyped ==
    /\ step \in [at : {"idle", "swept", "forward", "updated", "collected", "deliver"},
                 batch : Seq(Request), still : Seq(Request)]
    /\ completed \in Seq(Request)

Typed == CallerTyped /\ PrefillTyped /\ RecvTyped /\ DecodeTyped /\ LoopTyped

\* The types in parts are the type invariant, and Hands.
LEMMA TypedIs == (Typed <=> DTypeOK /\ Hands) /\ (Typed <=> DTypeOK /\ Hands)'
BY DEF Typed, CallerTyped, PrefillTyped, RecvTyped, DecodeTyped, LoopTyped, DTypeOK, Hands, FrameType

\* Every step keeps the types.
LEMMA TypeStep ==
    ASSUME Typed, Answers, [DNext]_dvars
    PROVE  Typed'
<1>0. DTypeOK
    BY TypedIs
<1> USE DEF Typed
<1>1. ASSUME NEW r \in Request, Submit(r) PROVE Typed'
    <2>1. Append(queue, r) \in Seq(Request \cup {Stop})
        BY AppendProperties DEF PrefillTyped
    <2>20. CallerTyped'
        BY <1>1, Numbers DEF Submit, CallerTyped, prefillVars, recvVars, decodeVars, loopVars
    <2>21. PrefillTyped'
        BY <1>1, <2>1 DEF Submit, PrefillTyped, prefillVars, recvVars, decodeVars, loopVars
    <2>22. RecvTyped' /\ DecodeTyped' /\ LoopTyped'
        BY <1>1 DEF Submit, RecvTyped, DecodeTyped, LoopTyped, prefillVars, recvVars, decodeVars, loopVars
    <2> QED BY <2>20, <2>21, <2>22
<1>2. ASSUME NEW r \in Request, PopCompleted(r) PROVE Typed'
    <2>20. CallerTyped'
        BY <1>2 DEF PopCompleted, CallerTyped, prefillVars, recvVars, decodeVars, loopVars
    <2>21. PrefillTyped' /\ RecvTyped' /\ DecodeTyped' /\ LoopTyped'
        BY <1>2 DEF PopCompleted, PrefillTyped, RecvTyped, DecodeTyped, LoopTyped, prefillVars, recvVars,
           decodeVars, loopVars
    <2> QED BY <2>20, <2>21
<1>3. CASE PrefillTake
    <2>1. Head(queue) \in Request \cup {Stop} /\ Tail(queue) \in Seq(Request \cup {Stop})
        BY <1>3, Shortened DEF PrefillTake, PrefillTyped
    <2>2. status' = status \/ status' = [status EXCEPT ![Head(queue)] = "prefilling"]
        BY <1>3 DEF PrefillTake
    <2>20. CallerTyped'
        BY <1>3, <2>1, <2>2 DEF PrefillTake, CallerTyped, prefillVars, recvVars, decodeVars, loopVars
    <2>21. PrefillTyped'
        BY <1>3, <2>1, Numbers DEF PrefillTake, PrefillTyped, prefillVars, recvVars, decodeVars, loopVars
    <2>22. RecvTyped' /\ DecodeTyped' /\ LoopTyped'
        BY <1>3 DEF PrefillTake, RecvTyped, DecodeTyped, LoopTyped, prefillVars, recvVars, decodeVars, loopVars
    <2> QED BY <2>20, <2>21, <2>22
<1>4. CASE PrefillLeaves
    <2>20. PrefillTyped'
        BY <1>4 DEF PrefillLeaves, PrefillTyped, prefillVars, recvVars, decodeVars, loopVars
    <2>21. CallerTyped' /\ RecvTyped' /\ DecodeTyped' /\ LoopTyped'
        BY <1>4 DEF PrefillLeaves, CallerTyped, RecvTyped, DecodeTyped, LoopTyped, prefillVars, recvVars,
           decodeVars, loopVars
    <2> QED BY <2>20, <2>21
<1>5. CASE PrefillCompute
    <2>1. held[nextSlot] + 1 \in 0 .. PrefillBlocks
        BY <1>5, RoomForOne DEF PrefillCompute, PrefillTyped
    <2>2. (nextSlot + 1) % NumSlots \in Slot
        BY Numbers DEF PrefillTyped
    <2>20. PrefillTyped'
        BY <1>5, <2>1, <2>2 DEF PrefillCompute, PrefillTyped, prefillVars, recvVars, decodeVars, loopVars
    <2>21. CallerTyped' /\ RecvTyped' /\ DecodeTyped' /\ LoopTyped'
        BY <1>5 DEF PrefillCompute, CallerTyped, RecvTyped, DecodeTyped, LoopTyped, prefillVars, recvVars,
           decodeVars, loopVars
    <2> QED BY <2>20, <2>21
<1>6. CASE PrefillRaises
    <2>1. HasRoom => held[nextSlot] + 1 \in 0 .. PrefillBlocks
        BY RoomForOne DEF PrefillTyped
    <2>2. (nextSlot + 1) % NumSlots \in Slot
        BY Numbers DEF PrefillTyped
    <2>20. CallerTyped'
        BY <1>6 DEF PrefillRaises, CallerTyped, prefillVars, recvVars, decodeVars, loopVars
    <2>21. PrefillTyped'
        BY <1>6, <2>1, <2>2 DEF PrefillRaises, PrefillTyped, prefillVars, recvVars, decodeVars, loopVars
    <2>22. RecvTyped' /\ DecodeTyped' /\ LoopTyped'
        BY <1>6 DEF PrefillRaises, RecvTyped, DecodeTyped, LoopTyped, prefillVars, recvVars, decodeVars,
           loopVars
    <2> QED BY <2>20, <2>21, <2>22
<1>7. CASE PackHeader
    <2>20. PrefillTyped'
        BY <1>7 DEF PackHeader, PrefillTyped, prefillVars, recvVars, decodeVars, loopVars
    <2>21. CallerTyped' /\ RecvTyped' /\ DecodeTyped' /\ LoopTyped'
        BY <1>7 DEF PackHeader, CallerTyped, RecvTyped, DecodeTyped, LoopTyped, prefillVars, recvVars,
           decodeVars, loopVars
    <2> QED BY <2>20, <2>21
<1>8. CASE SendHeader
    <2>1. Append(chan, Frame("meta", metaBuf)) \in Seq(FrameType)
        <3>1. Frame("meta", metaBuf) \in FrameType
            BY DEF Frame, FrameType, PrefillTyped
        <3> QED BY <3>1, AppendProperties DEF RecvTyped
    <2>20. PrefillTyped'
        BY <1>8 DEF SendHeader, PrefillTyped, prefillVars, recvVars, decodeVars, loopVars
    <2>21. RecvTyped'
        BY <1>8, <2>1 DEF SendHeader, RecvTyped, prefillVars, recvVars, decodeVars, loopVars
    <2>22. CallerTyped' /\ DecodeTyped' /\ LoopTyped'
        BY <1>8 DEF SendHeader, CallerTyped, DecodeTyped, LoopTyped, prefillVars, recvVars, decodeVars, loopVars
    <2> QED BY <2>20, <2>21, <2>22
<1>9. CASE SendBody
    <2>1. Append(chan, Frame("body", prefill.req)) \in Seq(FrameType)
        <3>1. Frame("body", prefill.req) \in FrameType
            BY DEF Frame, FrameType, PrefillTyped
        <3> QED BY <3>1, AppendProperties DEF RecvTyped
    <2>20. PrefillTyped'
        BY <1>9 DEF SendBody, PrefillTyped, prefillVars, recvVars, decodeVars, loopVars
    <2>21. RecvTyped'
        BY <1>9, <2>1 DEF SendBody, RecvTyped, prefillVars, recvVars, decodeVars, loopVars
    <2>22. CallerTyped' /\ DecodeTyped' /\ LoopTyped'
        BY <1>9 DEF SendBody, CallerTyped, DecodeTyped, LoopTyped, prefillVars, recvVars, decodeVars, loopVars
    <2> QED BY <2>20, <2>21, <2>22
<1>10. CASE PrefillEnds
    <2>1. 0 \in 0 .. PrefillBlocks
        BY DisaggregatedAssumption
    <2>20. CallerTyped'
        BY <1>10 DEF PrefillEnds, CallerTyped, prefillVars, recvVars, decodeVars, loopVars
    <2>21. PrefillTyped'
        BY <1>10, <2>1 DEF PrefillEnds, PrefillTyped, prefillVars, recvVars, decodeVars, loopVars
    <2>22. RecvTyped' /\ DecodeTyped' /\ LoopTyped'
        BY <1>10 DEF PrefillEnds, RecvTyped, DecodeTyped, LoopTyped, prefillVars, recvVars, decodeVars, loopVars
    <2> QED BY <2>20, <2>21, <2>22
<1>11. CASE RecvHeader
    <2>1. Head(chan) \in FrameType /\ Tail(chan) \in Seq(FrameType)
        BY <1>11, Shortened DEF RecvHeader, RecvTyped
    <2>20. RecvTyped'
        BY <1>11, <2>1, Numbers DEF RecvHeader, RecvTyped, FrameType, prefillVars, recvVars, decodeVars,
           loopVars
    <2>21. CallerTyped' /\ PrefillTyped' /\ DecodeTyped' /\ LoopTyped'
        BY <1>11 DEF RecvHeader, CallerTyped, PrefillTyped, DecodeTyped, LoopTyped, prefillVars, recvVars,
           decodeVars, loopVars
    <2> QED BY <2>20, <2>21
<1>12. CASE RecvBody
    <2>1. Head(chan) \in FrameType /\ Tail(chan) \in Seq(FrameType)
        BY <1>12, Shortened DEF RecvBody, RecvTyped
    <2>2. (nextSeq + 1) % NumSlots \in Slot
        BY Numbers DEF RecvTyped
    <2>3. recv.req \in Request /\ \A q \in Seq(Request) : Append(q, recv.req) \in Seq(Request)
        BY <1>12, AppendProperties DEF RecvBody, RecvTyped
    <2>4. table' \in [Slot -> Seq(Request)]
        <3>1. \/ table' = table
              \/ table' = [table EXCEPT ![nextSeq] = Append(table[nextSeq], recv.req)]
            BY <1>12 DEF RecvBody
        <3>2. nextSeq \in Slot /\ table \in [Slot -> Seq(Request)]
            BY DEF RecvTyped
        <3>3. Append(table[nextSeq], recv.req) \in Seq(Request)
            BY <2>3, <3>2
        <3> QED BY <3>1, <3>2, <3>3
    <2>20. RecvTyped'
        BY <1>12, <2>1, <2>2, <2>3, <2>4 DEF RecvBody, RecvTyped, FrameType, prefillVars, recvVars, decodeVars,
           loopVars
    <2>21. CallerTyped' /\ PrefillTyped' /\ DecodeTyped' /\ LoopTyped'
        BY <1>12 DEF RecvBody, CallerTyped, PrefillTyped, DecodeTyped, LoopTyped, prefillVars, recvVars,
           decodeVars, loopVars
    <2> QED BY <2>20, <2>21
<1>13. CASE Accept
    <2>1. Head(slotPool) \in Slot /\ Tail(slotPool) \in Seq(Slot)
        BY <1>13, Shortened DEF Accept, DecodeTyped
    <2>2. recv.req \in Request /\ Append(running, recv.req) \in Seq(Request)
        BY <1>13, AppendProperties DEF Accept, RecvTyped, DecodeTyped
    <2>3. <<recv.first>> \in Seq(Token)
        BY DEF RecvTyped
    <2>20. RecvTyped'
        BY <1>13 DEF Accept, RecvTyped, prefillVars, recvVars, decodeVars, loopVars
    <2>21. DecodeTyped'
        BY <1>13, <2>1, <2>2, <2>3 DEF Accept, DecodeTyped, RecvTyped, prefillVars, recvVars, decodeVars,
           loopVars
    <2>22. CallerTyped' /\ PrefillTyped' /\ LoopTyped'
        BY <1>13 DEF Accept, CallerTyped, PrefillTyped, LoopTyped, prefillVars, recvVars, decodeVars, loopVars
    <2> QED BY <2>20, <2>21, <2>22
<1>14. CASE Reject
    <2>20. RecvTyped'
        BY <1>14 DEF Reject, RecvTyped, prefillVars, recvVars, decodeVars, loopVars
    <2>21. CallerTyped' /\ PrefillTyped' /\ DecodeTyped' /\ LoopTyped'
        BY <1>14 DEF Reject, CallerTyped, PrefillTyped, DecodeTyped, LoopTyped, prefillVars, recvVars,
           decodeVars, loopVars
    <2> QED BY <2>20, <2>21
<1>15. CASE Sweep
    <2>1. Unfinished(running) \in Seq(Request) /\ Finished(running) \in Seq(Request)
        BY ChosenIs DEF Unfinished, Finished, DecodeTyped
    <2>2. PICK k \in 0 .. Len(Finished(running)) : free' = Min({free + k, SchedBlocks})
        BY <1>15 DEF Sweep
    <2>3. k \in Nat
        BY <2>1, Elements
    <2>4. free' \in 0 .. SchedBlocks
        <3> DEFINE m == free + k
        <3>1. m \in Nat /\ SchedBlocks \in Nat /\ free' = Min({m, SchedBlocks})
            BY <2>2, <2>3, Numbers DEF DecodeTyped
        <3> HIDE DEF m
        <3>2. free' \in {m, SchedBlocks} /\ free' <= SchedBlocks
            BY <3>1, MinOfTwo
        <3> QED BY <3>1, <3>2
    <2>20. DecodeTyped'
        BY <1>15, <2>4 DEF Sweep, DecodeTyped, prefillVars, recvVars, decodeVars, loopVars
    <2>21. LoopTyped'
        BY <1>15, <2>1 DEF Sweep, LoopTyped, prefillVars, recvVars, decodeVars, loopVars
    <2>22. CallerTyped' /\ PrefillTyped' /\ RecvTyped'
        BY <1>15 DEF Sweep, CallerTyped, PrefillTyped, RecvTyped, prefillVars, recvVars, decodeVars, loopVars
    <2> QED BY <2>20, <2>21, <2>22
<1>16. CASE Schedule
    <2>20. DecodeTyped'
        BY <1>16 DEF Schedule, DecodeTyped, LoopTyped, prefillVars, recvVars, decodeVars, loopVars
    <2>21. LoopTyped'
        BY <1>16 DEF Schedule, LoopTyped, prefillVars, recvVars, decodeVars, loopVars
    <2>22. CallerTyped' /\ PrefillTyped' /\ RecvTyped'
        BY <1>16 DEF Schedule, CallerTyped, PrefillTyped, RecvTyped, prefillVars, recvVars, decodeVars, loopVars
    <2> QED BY <2>20, <2>21, <2>22
<1>17. CASE Forward
    <2>20. DecodeTyped'
        BY <1>17, <1>0, Updated DEF DecodeTyped, prefillVars, recvVars, decodeVars, loopVars
    <2>21. LoopTyped'
        BY <1>17, <1>0, Updated DEF LoopTyped, prefillVars, recvVars, decodeVars, loopVars
    <2>22. CallerTyped' /\ PrefillTyped' /\ RecvTyped'
        BY <1>17, <1>0, Updated DEF CallerTyped, PrefillTyped, RecvTyped, prefillVars, recvVars, decodeVars,
           loopVars
    <2> QED BY <2>20, <2>21, <2>22
<1>18. CASE CollectScan
    <2> DEFINE done == Finished(running)
               K    == {r \in Request : slotOf[r] # Stop}
               got  == Chosen(done, K)
               back == [i \in DOMAIN got |-> slotOf[got[i]]]
    <2>1. done \in Seq(Request) /\ Unfinished(running) \in Seq(Request)
        BY ChosenIs DEF Unfinished, Finished, DecodeTyped
    <2>2. slotPool' = slotPool \o back
        BY <1>18 DEF CollectScan
    <2>3. table' = [s \in Slot |-> IF \E r \in ToSet(got) : slotOf[r] = s THEN <<>> ELSE table[s]]
        BY <1>18 DEF CollectScan
    <2>4. /\ slotOf' = [r \in Request |-> IF r \in ToSet(got) THEN Stop ELSE slotOf[r]]
          /\ completed' = completed \o done
          /\ step' = [step EXCEPT !.at = "collected", !.still = Unfinished(running)]
          /\ UNCHANGED <<status, result, prefillVars, chan, recv, nextSeq, running, out, blocks, cut, free,
                         callback, shut>>
        BY <1>18 DEF CollectScan
    <2> HIDE DEF done, K
    <2>5. got \in Seq(Request) /\ ToSet(got) = ToSet(done) \cap K
        BY <2>1, ChosenIs
    <2> HIDE DEF got
    <2>6. \A r \in ToSet(got) : slotOf[r] \in Slot
        BY <2>5 DEF K, DecodeTyped
    <2>7. back \in Seq(Slot)
        BY <2>5, <2>6, Mapped
    <2> HIDE DEF back
    <2>8. slotPool' \in Seq(Slot)
        BY <2>2, <2>7, ConcatProperties DEF DecodeTyped
    <2>9. completed' \in Seq(Request)
        BY <2>1, <2>4, ConcatProperties DEF LoopTyped
    <2>20. RecvTyped'
        BY <2>3, <2>4 DEF RecvTyped, DecodeTyped, prefillVars, recvVars, decodeVars, loopVars
    <2>21. DecodeTyped'
        BY <2>4, <2>8 DEF DecodeTyped, prefillVars, recvVars, decodeVars, loopVars
    <2>22. LoopTyped'
        BY <2>1, <2>4, <2>9 DEF LoopTyped, prefillVars, recvVars, decodeVars, loopVars
    <2>23. CallerTyped' /\ PrefillTyped'
        BY <2>4 DEF CallerTyped, PrefillTyped, prefillVars, recvVars, decodeVars, loopVars
    <2> QED BY <2>20, <2>21, <2>22, <2>23
<1>19. CASE CollectAssign
    <2>1. <<>> \in Seq(Request)
        OBVIOUS
    <2>20. DecodeTyped'
        BY <1>19 DEF CollectAssign, DecodeTyped, LoopTyped, prefillVars, recvVars, decodeVars, loopVars
    <2>21. LoopTyped'
        BY <1>19, <2>1 DEF CollectAssign, LoopTyped, prefillVars, recvVars, decodeVars, loopVars
    <2>22. CallerTyped' /\ PrefillTyped' /\ RecvTyped'
        BY <1>19 DEF CollectAssign, CallerTyped, PrefillTyped, RecvTyped, prefillVars, recvVars, decodeVars,
           loopVars
    <2> QED BY <2>20, <2>21, <2>22
<1>20. CASE Deliver
    <2>1. Head(completed) \in Request /\ Head(completed) \in ToSet(completed) /\ Tail(completed) \in Seq(Request)
        BY <1>20, Shortened DEF Deliver, LoopTyped
    <2>2. \A r \in ToSet(completed) : callback[r] + 1 \in -1 .. NumRequests
        <3> SUFFICES ASSUME NEW r \in ToSet(completed) PROVE callback[r] + 1 \in -1 .. NumRequests
            OBVIOUS
        <3>1. r \in Request
            BY Elements DEF LoopTyped
        <3>2. callback[r] \in -1 .. NumRequests /\ ~(callback[r] >= 1)
            BY <3>1 DEF CallerTyped, Answers, Delivered
        <3> QED BY <3>2, Numbers
    <2>20. CallerTyped'
        BY <1>20, <2>1, <2>2 DEF Deliver, CallerTyped, DecodeTyped, prefillVars, recvVars, decodeVars, loopVars
    <2>21. LoopTyped'
        BY <1>20, <2>1 DEF Deliver, LoopTyped, prefillVars, recvVars, decodeVars, loopVars
    <2>22. PrefillTyped' /\ RecvTyped' /\ DecodeTyped'
        BY <1>20 DEF Deliver, PrefillTyped, RecvTyped, DecodeTyped, prefillVars, recvVars, decodeVars, loopVars
    <2> QED BY <2>20, <2>21, <2>22
<1>21. CASE StepEnds
    <2>20. LoopTyped'
        BY <1>21 DEF StepEnds, LoopTyped, prefillVars, recvVars, decodeVars, loopVars
    <2>21. CallerTyped' /\ PrefillTyped' /\ RecvTyped' /\ DecodeTyped'
        BY <1>21 DEF StepEnds, CallerTyped, PrefillTyped, RecvTyped, DecodeTyped, prefillVars, recvVars,
           decodeVars, loopVars
    <2> QED BY <2>20, <2>21
<1>22. CASE Shutdown
    <2>1. Append(queue, Stop) \in Seq(Request \cup {Stop})
        BY AppendProperties DEF PrefillTyped
    <2>20. CallerTyped'
        BY <1>22 DEF Shutdown, CallerTyped, prefillVars, recvVars, decodeVars, loopVars
    <2>21. PrefillTyped'
        BY <1>22, <2>1 DEF Shutdown, PrefillTyped, prefillVars, recvVars, decodeVars, loopVars
    <2>22. RecvTyped' /\ DecodeTyped' /\ LoopTyped'
        BY <1>22 DEF Shutdown, RecvTyped, DecodeTyped, LoopTyped, prefillVars, recvVars, decodeVars, loopVars
    <2> QED BY <2>20, <2>21, <2>22
<1>23. CASE ShutdownZeroes
    <2>20. CallerTyped'
        BY <1>23 DEF ShutdownZeroes, CallerTyped, prefillVars, recvVars, decodeVars, loopVars
    <2>21. PrefillTyped'
        BY <1>23 DEF ShutdownZeroes, PrefillTyped, prefillVars, recvVars, decodeVars, loopVars
    <2>22. RecvTyped' /\ DecodeTyped' /\ LoopTyped'
        BY <1>23 DEF ShutdownZeroes, RecvTyped, DecodeTyped, LoopTyped, prefillVars, recvVars, decodeVars,
           loopVars
    <2> QED BY <2>20, <2>21, <2>22
<1>24. CASE ShutdownSends
    <2>1. Append(chan, Frame("meta", metaBuf)) \in Seq(FrameType)
        <3>1. Frame("meta", metaBuf) \in FrameType
            BY DEF Frame, FrameType, PrefillTyped
        <3> QED BY <3>1, AppendProperties DEF RecvTyped
    <2>20. CallerTyped'
        BY <1>24 DEF ShutdownSends, CallerTyped, prefillVars, recvVars, decodeVars, loopVars
    <2>21. RecvTyped'
        BY <1>24, <2>1 DEF ShutdownSends, RecvTyped, prefillVars, recvVars, decodeVars, loopVars
    <2>22. PrefillTyped' /\ DecodeTyped' /\ LoopTyped'
        BY <1>24 DEF ShutdownSends, PrefillTyped, DecodeTyped, LoopTyped, prefillVars, recvVars, decodeVars,
           loopVars
    <2> QED BY <2>20, <2>21, <2>22
<1>25. CASE UNCHANGED dvars
    <2>1. CallerTyped'
        BY <1>25 DEF dvars, CallerTyped, prefillVars, recvVars, decodeVars, loopVars
    <2>2. PrefillTyped'
        BY <1>25 DEF dvars, PrefillTyped, prefillVars, recvVars, decodeVars, loopVars
    <2>3. RecvTyped'
        BY <1>25 DEF dvars, RecvTyped, prefillVars, recvVars, decodeVars, loopVars
    <2>4. DecodeTyped'
        BY <1>25 DEF dvars, DecodeTyped, prefillVars, recvVars, decodeVars, loopVars
    <2>5. LoopTyped'
        BY <1>25 DEF dvars, LoopTyped, prefillVars, recvVars, decodeVars, loopVars
    <2> QED BY <2>1, <2>2, <2>3, <2>4, <2>5
<1> HIDE DEF Typed
<1>27. CASE \E r \in Request : Submit(r) \/ PopCompleted(r)
    BY <1>1, <1>2, <1>27
<1>28. CASE PrefillThread
    BY <1>3, <1>4, <1>5, <1>6, <1>7, <1>8, <1>9, <1>10, <1>28 DEF PrefillThread
<1>29. CASE RecvThread
    BY <1>11, <1>12, <1>13, <1>14, <1>29 DEF RecvThread
<1>30. CASE Loop
    BY <1>15, <1>16, <1>17, <1>18, <1>19, <1>20, <1>21, <1>30 DEF Loop
<1>31. CASE Stopping
    BY <1>22, <1>23, <1>24, <1>31 DEF Stopping
<1> QED BY <1>25, <1>27, <1>28, <1>29, <1>30, <1>31 DEF DNext

-----------------------------------------------------------------------------
(* The way of a request to the decode worker. *)

\* A request that was nowhere is queued, or the sentinel.
LEMMA QueueGrows ==
    ASSUME queue \in Seq(Request \cup {Stop}), NEW x \in Request \cup {Stop}, queue' = Append(queue, x),
           QueueApart, x # Stop => ~Queued(x)
    PROVE  QueueApart' /\ \A q : Queued(q)' <=> Queued(q) \/ q = x
<1>1. ToSet(queue') = ToSet(queue) \cup {x}
    BY Lengthened
<1>2. /\ Len(queue') = Len(queue) + 1 /\ Len(queue) \in Nat /\ queue'[Len(queue) + 1] = x
      /\ \A i \in 1 .. Len(queue) : queue'[i] = queue[i] /\ queue[i] \in ToSet(queue)
    BY AppendProperties, Elements
<1>3. ASSUME NEW i \in 1 .. Len(queue'), NEW j \in 1 .. Len(queue'), queue'[i] = queue'[j], queue'[i] # Stop
      PROVE  i = j
    <2>1. \A k \in 1 .. Len(queue') : k \in 1 .. Len(queue) \/ k = Len(queue) + 1
        BY <1>2
    <2> QED BY <1>2, <1>3, <2>1 DEF QueueApart, Queued
<1> QED BY <1>1, <1>3 DEF QueueApart, Queued

\* The first one leaves the queue and is not in it any more.
LEMMA QueueShrinks ==
    ASSUME queue \in Seq(Request \cup {Stop}), queue # <<>>, queue' = Tail(queue), QueueApart
    PROVE  /\ QueueApart' /\ \A q : Queued(q)' => Queued(q)
           /\ \A q : q = Head(queue) => Queued(q) /\ (q # Stop => ~Queued(q)')
<1>1. /\ Head(queue) = queue[1] /\ Head(queue) \in ToSet(queue) /\ queue' \in Seq(Request \cup {Stop})
      /\ Len(queue) \in Nat \ {0} /\ Len(queue') = Len(queue) - 1
      /\ \A i \in 1 .. Len(queue) - 1 : queue'[i] = queue[i + 1]
      /\ ToSet(queue') \subseteq ToSet(queue)
    BY Shortened
<1>2. \A x : x \in ToSet(queue') => \E i \in 1 .. Len(queue') : queue'[i] = x
    <2>1. DOMAIN queue' = 1 .. Len(queue')
        BY <1>1, LenProperties
    <2> QED BY <2>1 DEF ToSet
<1>3. \A i \in 1 .. Len(queue') : i + 1 \in 1 .. Len(queue) /\ i + 1 # 1 /\ queue'[i] = queue[i + 1]
    BY <1>1
<1>4. 1 \in 1 .. Len(queue)
    BY <1>1
<1>5. QueueApart'
    <2> SUFFICES ASSUME NEW i \in 1 .. Len(queue'), NEW j \in 1 .. Len(queue'), queue'[i] = queue'[j], queue'[i] # Stop
                 PROVE  i = j
        BY DEF QueueApart
    <2>1. i + 1 = j + 1
        BY <1>3 DEF QueueApart
    <2> QED BY <2>1
<1>6. Head(queue) # Stop => Head(queue) \notin ToSet(queue')
    BY <1>1, <1>2, <1>3, <1>4 DEF QueueApart
<1>7. (\A q : Queued(q)' => Queued(q)) /\ \A q : q = Head(queue) => Queued(q)
    BY <1>1 DEF Queued
<1> QED BY <1>5, <1>6, <1>7 DEF Queued

\* A frame is sent: no body is on the wire twice.
LEMMA WireGrows ==
    ASSUME chan \in Seq(FrameType), NEW f \in FrameType, chan' = Append(chan, f),
           BodiesApart, f.kind = "body" => ~OnWire(f.req)
    PROVE  BodiesApart' /\ \A q : OnWire(q)' <=> OnWire(q) \/ (f.kind = "body" /\ f.req = q)
<1>1. /\ Len(chan') = Len(chan) + 1 /\ Len(chan) \in Nat /\ chan'[Len(chan) + 1] = f
      /\ \A i \in 1 .. Len(chan) : chan'[i] = chan[i]
    BY AppendProperties, Elements
<1>2. \A k \in 1 .. Len(chan') : k \in 1 .. Len(chan) \/ k = Len(chan) + 1
    BY <1>1
<1>3. \A k \in 1 .. Len(chan) : k \in 1 .. Len(chan')
    BY <1>1
<1>4. Len(chan) + 1 \in 1 .. Len(chan')
    BY <1>1
<1>5. BodiesApart'
    BY <1>1, <1>2 DEF BodiesApart, OnWire
<1>6. ASSUME NEW q PROVE OnWire(q)' <=> OnWire(q) \/ (f.kind = "body" /\ f.req = q)
    BY <1>1, <1>2, <1>3, <1>4 DEF OnWire
<1> QED BY <1>5, <1>6

\* ... and the first one is received.
LEMMA WireShrinks ==
    ASSUME chan \in Seq(FrameType), chan # <<>>, chan' = Tail(chan), BodiesApart
    PROVE  /\ BodiesApart' /\ \A q : OnWire(q)' => OnWire(q)
           /\ \A q : Head(chan).kind = "body" /\ Head(chan).req = q => OnWire(q) /\ ~OnWire(q)'
<1>1. /\ Head(chan) = chan[1] /\ Len(chan) \in Nat \ {0} /\ Len(chan') = Len(chan) - 1
      /\ \A i \in 1 .. Len(chan) - 1 : chan'[i] = chan[i + 1]
    BY Shortened
<1>2. \A i \in 1 .. Len(chan') : i + 1 \in 1 .. Len(chan) /\ i + 1 # 1 /\ chan'[i] = chan[i + 1]
    BY <1>1
<1>3. 1 \in 1 .. Len(chan)
    BY <1>1
<1>4. BodiesApart'
    <2> SUFFICES ASSUME NEW i \in 1 .. Len(chan'), NEW j \in 1 .. Len(chan'),
                        chan'[i].kind = "body", chan'[j].kind = "body", chan'[i].req = chan'[j].req
                 PROVE  i = j
        BY DEF BodiesApart
    <2>1. i + 1 = j + 1
        BY <1>2 DEF BodiesApart
    <2> QED BY <2>1
<1>5. \A q : OnWire(q)' => OnWire(q)
    BY <1>2 DEF OnWire
<1>6. ASSUME NEW q, Head(chan).kind = "body", Head(chan).req = q PROVE OnWire(q) /\ ~OnWire(q)'
    <2>1. OnWire(q)
        BY <1>1, <1>3, <1>6 DEF OnWire
    <2>2. ASSUME NEW i \in 1 .. Len(chan'), chan'[i].kind = "body", chan'[i].req = q PROVE FALSE
        <3>1. i + 1 \in 1 .. Len(chan) /\ i + 1 # 1 /\ chan'[i] = chan[i + 1]
            BY <1>2
        <3>2. i + 1 = 1
            BY <1>1, <1>3, <1>6, <2>2, <3>1 DEF BodiesApart
        <3> QED BY <3>1, <3>2
    <2>3. ~OnWire(q)'
        BY <2>2 DEF OnWire
    <2> QED BY <2>1, <2>3
<1> QED BY <1>4, <1>5, <1>6

\* What does not bring a request nearer keeps the journey.
LEMMA NoNearer ==
    ASSUME Journey, QueueApart', BodiesApart',
           \A r \in Request : /\ status'[r] = "new" => status[r] = "new"
                              /\ Queued(r)' => Queued(r)
                              /\ InHand(r)' => InHand(r)
                              /\ OnWire(r)' => OnWire(r)
                              /\ Got(r)' => Got(r)
    PROVE  Journey' /\ \A r \in Request : Coming(r)' => Coming(r)
BY DEF Journey, Coming

\* Steps that neither queue nor send anything leave the requests that come where
\* they are, or drop them.
LEMMA StaysOrDropped ==
    ASSUME Journey, UNCHANGED <<queue, chan>>,
           \A r \in Request : /\ status'[r] = "new" => status[r] = "new"
                              /\ InHand(r)' => InHand(r)
                              /\ Got(r)' => Got(r)
    PROVE  Journey' /\ \A r \in Request : Coming(r)' => Coming(r)
<1>1. QueueApart' /\ BodiesApart'
    BY DEF Journey, QueueApart, BodiesApart
<1>2. \A r \in Request : (Queued(r)' => Queued(r)) /\ (OnWire(r)' => OnWire(r))
    BY DEF Queued, OnWire
<1> QED BY <1>1, <1>2, NoNearer

\* Steps that neither queue nor send nor receive.
LEMMA QuietStep ==
    ASSUME Typed, Journey,
           \/ \E r \in Request : PopCompleted(r)
           \/ PrefillLeaves \/ PrefillCompute \/ PrefillRaises \/ PackHeader \/ PrefillEnds
           \/ Accept \/ Reject
           \/ Loop
           \/ ShutdownZeroes \/ UNCHANGED dvars
    PROVE  Journey' /\ \A r \in Request : Coming(r)' => Coming(r)
<1>0. DTypeOK
    BY TypedIs
<1> DEFINE Quiet == /\ UNCHANGED <<queue, chan>>
                    /\ \A r \in Request : /\ status'[r] = "new" => status[r] = "new"
                                          /\ InHand(r)' => InHand(r)
                                          /\ Got(r)' => Got(r)
<1>1. SUFFICES Quiet
    BY StaysOrDropped
<1>2. /\ status \in [Request -> {"new", "pending", "prefilling", "transferring", "finished", "popped"}]
      /\ DOMAIN prefill = {"at", "req", "slot", "first"} /\ DOMAIN recv = {"at", "req", "first"}
      /\ Stop \notin Request
    BY Numbers DEF Typed, CallerTyped, PrefillTyped, RecvTyped
<1> HIDE DEF Quiet
<1>3. ASSUME NEW r \in Request, PopCompleted(r) PROVE Quiet
    BY <1>3, <1>2 DEF PopCompleted, Quiet, InHand, Got, prefillVars, recvVars, decodeVars, loopVars
<1>4. CASE PrefillLeaves
    BY <1>4, <1>2 DEF PrefillLeaves, Quiet, InHand, Got, prefillVars, recvVars, decodeVars, loopVars
<1>5. CASE PrefillCompute
    BY <1>5, <1>2 DEF PrefillCompute, Quiet, InHand, Got, prefillVars, recvVars, decodeVars, loopVars
<1>6. CASE PrefillRaises
    BY <1>6, <1>2 DEF PrefillRaises, Quiet, InHand, Got, prefillVars, recvVars, decodeVars, loopVars
<1>7. CASE PackHeader
    BY <1>7, <1>2 DEF PackHeader, Quiet, InHand, Got, prefillVars, recvVars, decodeVars, loopVars
<1>8. CASE PrefillEnds
    BY <1>8, <1>2 DEF PrefillEnds, Quiet, InHand, Got, prefillVars, recvVars, decodeVars, loopVars
<1>9. CASE Accept
    BY <1>9, <1>2 DEF Accept, Quiet, InHand, Got, prefillVars, recvVars, decodeVars, loopVars
<1>10. CASE Reject
    BY <1>10, <1>2 DEF Reject, Quiet, InHand, Got, prefillVars, recvVars, decodeVars, loopVars
<1>11. CASE Sweep
    BY <1>11, <1>2 DEF Sweep, Quiet, InHand, Got, prefillVars, recvVars, decodeVars, loopVars
<1>12. CASE Schedule
    BY <1>12, <1>2 DEF Schedule, Quiet, InHand, Got, prefillVars, recvVars, decodeVars, loopVars
<1>13. CASE Forward
    BY <1>13, <1>0, <1>2, Updated DEF Quiet, InHand, Got, prefillVars, recvVars, decodeVars, loopVars
<1>14. CASE CollectScan
    BY <1>14, <1>2 DEF CollectScan, Quiet, InHand, Got, prefillVars, recvVars, decodeVars, loopVars
<1>15. CASE CollectAssign
    BY <1>15, <1>2 DEF CollectAssign, Quiet, InHand, Got, prefillVars, recvVars, decodeVars, loopVars
<1>16. CASE Deliver
    BY <1>16, <1>2 DEF Deliver, Quiet, InHand, Got, prefillVars, recvVars, decodeVars, loopVars
<1>17. CASE StepEnds
    BY <1>17, <1>2 DEF StepEnds, Quiet, InHand, Got, prefillVars, recvVars, decodeVars, loopVars
<1>18. CASE ShutdownZeroes
    BY <1>18, <1>2 DEF ShutdownZeroes, Quiet, InHand, Got, prefillVars, recvVars, decodeVars, loopVars
<1>19. CASE UNCHANGED dvars
    BY <1>19, <1>2 DEF dvars, Quiet, InHand, Got, prefillVars, recvVars, decodeVars, loopVars
<1>20. Loop => Quiet
    BY <1>11, <1>12, <1>13, <1>14, <1>15, <1>16, <1>17 DEF Loop
<1> QED BY <1>3, <1>4, <1>5, <1>6, <1>7, <1>8, <1>9, <1>10, <1>18, <1>19, <1>20

\* An accepted request has arrived.
LEMMA Arrives ==
    ASSUME Typed, Journey, Accept, NEW r \in Request, recv.req = r
    PROVE  Coming(r) /\ ~Coming(r)'
<1>1. Got(r)
    BY DEF Accept, Got
<1>2. status[r] # "new" /\ ~Queued(r) /\ ~InHand(r) /\ ~OnWire(r)
    BY <1>1 DEF Journey
<1>3. UNCHANGED <<status, queue, prefill, chan>>
    BY DEF Accept, prefillVars
<1>4. ~Got(r)'
    BY DEF Accept, Got, Typed, RecvTyped
<1> QED BY <1>1, <1>2, <1>3, <1>4 DEF Coming, Queued, InHand, OnWire

\* Every step keeps the journey, and no request turns back: one that is coming
\* was coming.
LEMMA JourneyStep ==
    ASSUME Typed, Journey, [DNext]_dvars
    PROVE  Journey' /\ \A r \in Request : Coming(r)' => Coming(r)
<1> DEFINE Done == Journey' /\ \A r \in Request : Coming(r)' => Coming(r)
<1>1. /\ queue \in Seq(Request \cup {Stop}) /\ chan \in Seq(FrameType) /\ Stop \notin Request
      /\ prefill.req \in Request \cup {Stop} /\ metaBuf \in Request \cup {Stop} /\ prefill.first \in Token
      /\ prefill.at \notin {"wait", "exited"} => prefill.req \in Request
      /\ status \in [Request -> {"new", "pending", "prefilling", "transferring", "finished", "popped"}]
      /\ DOMAIN prefill = {"at", "req", "slot", "first"} /\ DOMAIN recv = {"at", "req", "first"}
    BY Numbers DEF Typed, CallerTyped, PrefillTyped, RecvTyped
<1>2. /\ QueueApart /\ BodiesApart
      /\ \A r \in Request :
           /\ Queued(r) => status[r] # "new"
           /\ InHand(r) => status[r] # "new" /\ ~Queued(r)
           /\ OnWire(r) => status[r] # "new" /\ ~Queued(r) /\ ~InHand(r)
           /\ Got(r)    => status[r] # "new" /\ ~Queued(r) /\ ~InHand(r) /\ ~OnWire(r)
    BY DEF Journey
<1>3. chan' = chan => BodiesApart' /\ \A q : OnWire(q)' <=> OnWire(q)
    BY <1>2 DEF BodiesApart, OnWire
<1>4. queue' = queue => QueueApart' /\ \A q : Queued(q)' <=> Queued(q)
    BY <1>2 DEF QueueApart, Queued
<1>5. ASSUME NEW r \in Request, Submit(r) PROVE Done
    <2>1. QueueApart' /\ \A q : Queued(q)' <=> Queued(q) \/ q = r
        BY <1>1, <1>2, <1>5, QueueGrows DEF Submit
    <2>2. BodiesApart' /\ \A q : OnWire(q)' <=> OnWire(q)
        BY <1>3, <1>5 DEF Submit
    <2>3. \A q \in Request : (InHand(q)' <=> InHand(q)) /\ (Got(q)' <=> Got(q))
        BY <1>5 DEF Submit, InHand, Got, recvVars
    <2>4. status[r] = "new" /\ \A q \in Request : status'[q] = "new" <=> status[q] = "new" /\ q # r
        BY <1>1, <1>5 DEF Submit
    <2>5. Journey'
        BY <1>2, <2>1, <2>2, <2>3, <2>4 DEF Journey
    <2>6. \A q \in Request : Coming(q)' => Coming(q)
        BY <2>1, <2>2, <2>3, <2>4 DEF Coming
    <2> QED BY <2>5, <2>6
<1>6. CASE PrefillTake
    <2> DEFINE h == Head(queue)
    <2>1. /\ QueueApart' /\ \A q : Queued(q)' => Queued(q)
          /\ \A q : q = h => Queued(q) /\ (q # Stop => ~Queued(q)')
        BY <1>1, <1>2, <1>6, QueueShrinks DEF PrefillTake
    <2>2. BodiesApart' /\ \A q : OnWire(q)' <=> OnWire(q)
        BY <1>3, <1>6 DEF PrefillTake
    <2>3. /\ \A q \in Request : (InHand(q)' => q = h) /\ (Got(q)' <=> Got(q))
          /\ \A q \in Request : status'[q] = "new" => status[q] = "new"
          /\ \A q \in Request : status[q] # "new" => status'[q] # "new"
        BY <1>1, <1>6 DEF PrefillTake, InHand, Got, recvVars
    <2> HIDE DEF h
    <2>4. Journey'
        BY <1>1, <1>2, <2>1, <2>2, <2>3 DEF Journey
    <2>5. \A q \in Request : Coming(q)' => Coming(q)
        BY <1>1, <2>1, <2>2, <2>3 DEF Coming
    <2> QED BY <2>4, <2>5
<1>7. CASE SendHeader
    <2> DEFINE f == Frame("meta", metaBuf)
    <2>1. f \in FrameType /\ f.kind = "meta" /\ chan' = Append(chan, f)
        BY <1>1, <1>7 DEF Frame, FrameType, SendHeader
    <2> HIDE DEF f
    <2>2. BodiesApart' /\ \A q : OnWire(q)' <=> OnWire(q)
        BY <1>1, <1>2, <2>1, WireGrows
    <2>3. QueueApart' /\ \A q : Queued(q)' <=> Queued(q)
        BY <1>4, <1>7 DEF SendHeader
    <2>4. \A q \in Request : (InHand(q)' => InHand(q)) /\ (Got(q)' => Got(q)) /\ status'[q] = status[q]
        BY <1>1, <1>7 DEF SendHeader, InHand, Got, recvVars
    <2> QED BY <2>2, <2>3, <2>4, NoNearer
<1>8. CASE SendBody
    <2> DEFINE f == Frame("body", prefill.req)
    <2>1. /\ f \in FrameType /\ f.kind = "body" /\ f.req = prefill.req /\ chan' = Append(chan, f)
          /\ prefill.req \in Request /\ InHand(prefill.req)
        BY <1>1, <1>8 DEF Frame, FrameType, SendBody, InHand
    <2> HIDE DEF f
    <2>2. BodiesApart' /\ \A q : OnWire(q)' <=> OnWire(q) \/ q = prefill.req
        BY <1>1, <1>2, <2>1, WireGrows
    <2>3. QueueApart' /\ \A q : Queued(q)' <=> Queued(q)
        BY <1>4, <1>8 DEF SendBody
    <2>4. \A q \in Request : ~InHand(q)' /\ (Got(q)' <=> Got(q)) /\ status'[q] = status[q]
        BY <1>1, <1>8 DEF SendBody, InHand, Got, recvVars
    <2>5. \A q \in Request : q = prefill.req => InHand(q)
        BY <2>1
    <2>6. Journey'
        BY <1>2, <2>2, <2>3, <2>4, <2>5 DEF Journey
    <2>7. \A q \in Request : Coming(q)' => Coming(q)
        BY <2>2, <2>3, <2>4, <2>5 DEF Coming
    <2> QED BY <2>6, <2>7
<1>9. CASE RecvHeader
    <2>1. BodiesApart' /\ \A q : OnWire(q)' => OnWire(q)
        BY <1>1, <1>2, <1>9, WireShrinks DEF RecvHeader
    <2>2. QueueApart' /\ \A q : Queued(q)' <=> Queued(q)
        BY <1>4, <1>9 DEF RecvHeader, prefillVars
    <2>3. \A q \in Request : (InHand(q)' <=> InHand(q)) /\ ~Got(q)' /\ status'[q] = status[q]
        BY <1>1, <1>9 DEF RecvHeader, InHand, Got, prefillVars
    <2> QED BY <2>1, <2>2, <2>3, NoNearer
<1>10. CASE RecvBody
    <2>1. /\ BodiesApart' /\ \A q : OnWire(q)' => OnWire(q)
          /\ \A q : Head(chan).kind = "body" /\ Head(chan).req = q => OnWire(q) /\ ~OnWire(q)'
        BY <1>1, <1>2, <1>10, WireShrinks DEF RecvBody
    <2>2. QueueApart' /\ \A q : Queued(q)' <=> Queued(q)
        BY <1>4, <1>10 DEF RecvBody, prefillVars
    <2>3. \A q \in Request : /\ InHand(q)' <=> InHand(q)
                             /\ status'[q] = status[q]
                             /\ Got(q)' => Head(chan).kind = "body" /\ Head(chan).req = q
        BY <1>1, <1>10 DEF RecvBody, InHand, Got, prefillVars
    <2>4. \A q \in Request : Got(q)' => OnWire(q) /\ ~OnWire(q)'
        BY <2>1, <2>3
    <2>5. Journey'
        BY <1>2, <2>1, <2>2, <2>3, <2>4 DEF Journey
    <2>6. \A q \in Request : Coming(q)' => Coming(q)
        BY <2>1, <2>2, <2>3, <2>4 DEF Coming
    <2> QED BY <2>5, <2>6
<1>11. CASE Shutdown
    <2>1. QueueApart' /\ \A q : Queued(q)' <=> Queued(q) \/ q = Stop
        BY <1>1, <1>2, <1>11, QueueGrows DEF Shutdown
    <2>2. BodiesApart' /\ \A q : OnWire(q)' <=> OnWire(q)
        BY <1>3, <1>11 DEF Shutdown
    <2>3. \A q \in Request : (InHand(q)' <=> InHand(q)) /\ (Got(q)' <=> Got(q)) /\ status'[q] = status[q]
        BY <1>11 DEF Shutdown, InHand, Got, recvVars
    <2> QED BY <1>1, <2>1, <2>2, <2>3, NoNearer
<1>12. CASE ShutdownSends
    <2> DEFINE f == Frame("meta", metaBuf)
    <2>1. f \in FrameType /\ f.kind = "meta" /\ chan' = Append(chan, f)
        BY <1>1, <1>12 DEF Frame, FrameType, ShutdownSends
    <2> HIDE DEF f
    <2>2. BodiesApart' /\ \A q : OnWire(q)' <=> OnWire(q)
        BY <1>1, <1>2, <2>1, WireGrows
    <2>3. QueueApart' /\ \A q : Queued(q)' <=> Queued(q)
        BY <1>4, <1>12 DEF ShutdownSends, prefillVars
    <2>4. \A q \in Request : (InHand(q)' <=> InHand(q)) /\ (Got(q)' <=> Got(q)) /\ status'[q] = status[q]
        BY <1>12 DEF ShutdownSends, InHand, Got, recvVars, prefillVars
    <2> QED BY <2>2, <2>3, <2>4, NoNearer
<1> HIDE DEF Done
<1>13. CASE \E r \in Request : Submit(r) \/ PopCompleted(r)
    BY <1>5, <1>13, QuietStep DEF Done
<1>14. CASE PrefillThread
    BY <1>6, <1>7, <1>8, <1>14, QuietStep DEF PrefillThread, Done
<1>15. CASE RecvThread
    BY <1>9, <1>10, <1>15, QuietStep DEF RecvThread, Done
<1>16. CASE Loop
    BY <1>16, QuietStep DEF Done
<1>17. CASE Stopping
    BY <1>11, <1>12, <1>17, QuietStep DEF Stopping, Done
<1>18. CASE UNCHANGED dvars
    BY <1>18, QuietStep DEF Done
<1>19. Done
    BY <1>13, <1>14, <1>15, <1>16, <1>17, <1>18 DEF DNext, Done
<1> QED BY <1>19 DEF Done

-----------------------------------------------------------------------------
(* What the threads leave alone. *)

\* The loop leaves the prefill thread, the wire and the receiver.
LEMMA LoopLeaves ==
    ASSUME Loop
    PROVE  UNCHANGED <<prefillVars, chan, recv, nextSeq, shut>>
<1>1. CASE Sweep
    BY <1>1 DEF Sweep, recvVars
<1>2. CASE Schedule
    BY <1>2 DEF Schedule, recvVars
<1>3. CASE Forward
    BY <1>3 DEF Forward, Update, recvVars
<1>4. CASE CollectScan
    BY <1>4 DEF CollectScan, recvVars
<1>5. CASE CollectAssign
    BY <1>5 DEF CollectAssign, recvVars
<1>6. CASE Deliver
    BY <1>6 DEF Deliver, recvVars
<1>7. CASE StepEnds
    BY <1>7 DEF StepEnds, recvVars
<1> QED BY <1>1, <1>2, <1>3, <1>4, <1>5, <1>6, <1>7 DEF Loop

DecodeState == <<slotPool, slotOf, running, out, cut, step, completed>>

\* Whoever is not the loop, and accepts nothing, leaves the decode worker.
LEMMA OthersLeave ==
    ASSUME \/ \E r \in Request : Submit(r) \/ PopCompleted(r)
           \/ PrefillThread \/ RecvHeader \/ RecvBody \/ Reject \/ Stopping
           \/ UNCHANGED dvars
    PROVE  /\ UNCHANGED DecodeState
           /\ UNCHANGED <<callback, result>> \/ \E r \in Request : Submit(r)
<1> DEFINE Kept == UNCHANGED DecodeState /\ UNCHANGED <<callback, result>>
<1> USE DEF DecodeState, prefillVars, recvVars, decodeVars, loopVars
<1>1. ASSUME NEW r \in Request, Submit(r) PROVE UNCHANGED DecodeState
    BY <1>1 DEF Submit
<1>2. ASSUME NEW r \in Request, PopCompleted(r) PROVE Kept
    BY <1>2 DEF PopCompleted
<1>3. ASSUME PrefillTake PROVE Kept
    BY <1>3 DEF PrefillTake
<1>4. ASSUME PrefillLeaves PROVE Kept
    BY <1>4 DEF PrefillLeaves
<1>5. ASSUME PrefillCompute PROVE Kept
    BY <1>5 DEF PrefillCompute
<1>6. ASSUME PrefillRaises PROVE Kept
    BY <1>6 DEF PrefillRaises
<1>7. ASSUME PackHeader PROVE Kept
    BY <1>7 DEF PackHeader
<1>8. ASSUME SendHeader PROVE Kept
    BY <1>8 DEF SendHeader
<1>9. ASSUME SendBody PROVE Kept
    BY <1>9 DEF SendBody
<1>10. ASSUME PrefillEnds PROVE Kept
    BY <1>10 DEF PrefillEnds
<1>11. ASSUME RecvHeader PROVE Kept
    BY <1>11 DEF RecvHeader
<1>12. ASSUME RecvBody PROVE Kept
    BY <1>12 DEF RecvBody
<1>13. ASSUME Reject PROVE Kept
    BY <1>13 DEF Reject
<1>14. ASSUME Shutdown PROVE Kept
    BY <1>14 DEF Shutdown
<1>15. ASSUME ShutdownZeroes PROVE Kept
    BY <1>15 DEF ShutdownZeroes
<1>16. ASSUME ShutdownSends PROVE Kept
    BY <1>16 DEF ShutdownSends
<1>17. ASSUME UNCHANGED dvars PROVE Kept
    BY <1>17 DEF dvars
<1> HIDE DEF DecodeState
<1>18. PrefillThread => Kept
    BY <1>3, <1>4, <1>5, <1>6, <1>7, <1>8, <1>9, <1>10 DEF PrefillThread
<1>19. Stopping => Kept
    BY <1>14, <1>15, <1>16 DEF Stopping
<1> QED BY <1>1, <1>2, <1>11, <1>12, <1>13, <1>17, <1>18, <1>19

-----------------------------------------------------------------------------
(* The decode worker. *)

\* The requests of a list that are finished, and those that are not.
LEMMA Split ==
    ASSUME NEW s \in Seq(Request)
    PROVE  /\ Finished(s) \in Seq(Request) /\ Unfinished(s) \in Seq(Request)
           /\ \A r : r \in ToSet(Finished(s)) <=> r \in ToSet(s) /\ IsFinished(r)
           /\ \A r : r \in ToSet(Unfinished(s)) <=> r \in ToSet(s) /\ ~IsFinished(r)
           /\ IsInjective(s) => IsInjective(Finished(s)) /\ IsInjective(Unfinished(s))
<1>1. ToSet(s) \subseteq Request
    BY Elements
<1> QED BY <1>1, ChosenIs DEF Finished, Unfinished

\* What decode_step leaves when it has walked over running.
LEMMA Collected ==
    ASSUME Typed, SlotsApart, Lists, CollectScan
    PROVE  LET D == {r \in Request : r \in ToSet(running) /\ IsFinished(r) /\ slotOf[r] # Stop} IN
           /\ step.at = "updated" /\ step'.at = "collected" /\ step'.batch = step.batch
           /\ IsInjective(step'.still)
           /\ \A r : r \in ToSet(step'.still) <=> r \in ToSet(running) /\ ~IsFinished(r)
           /\ IsInjective(completed')
           /\ \A r : r \in ToSet(completed') <=> r \in ToSet(running) /\ IsFinished(r)
           /\ slotOf' = [r \in Request |-> IF r \in D THEN Stop ELSE slotOf[r]]
           /\ IsInjective(slotPool')
           /\ ToSet(slotPool') = ToSet(slotPool) \cup {slotOf[r] : r \in D}
           /\ UNCHANGED <<running, out, cut, callback, result>>
<1> DEFINE done == Finished(running)
           got  == Chosen(done, {r \in Request : slotOf[r] # Stop})
           back == [i \in DOMAIN got |-> slotOf[got[i]]]
           D    == {r \in Request : r \in ToSet(running) /\ IsFinished(r) /\ slotOf[r] # Stop}
<1>1. /\ step.at = "updated"
      /\ step' = [step EXCEPT !.at = "collected", !.still = Unfinished(running)]
      /\ completed' = completed \o done
      /\ slotPool' = slotPool \o back
      /\ slotOf' = [r \in Request |-> IF r \in ToSet(got) THEN Stop ELSE slotOf[r]]
      /\ UNCHANGED <<running, out, cut, callback, result>>
    BY DEF CollectScan
<1>2. /\ running \in Seq(Request) /\ completed = <<>> /\ slotPool \in Seq(Slot) /\ IsInjective(running)
      /\ slotOf \in [Request -> Slot \cup {Stop}] /\ IsInjective(slotPool)
      /\ \A r, q \in Request : slotOf[r] = slotOf[q] /\ slotOf[r] # Stop => r = q
      /\ \A r \in Request : slotOf[r] \notin ToSet(slotPool)
      /\ DOMAIN step = {"at", "batch", "still"}
    BY <1>1 DEF Lists, SlotsApart, Typed, DecodeTyped, LoopTyped
<1>3. /\ done \in Seq(Request) /\ IsInjective(done)
      /\ \A r : r \in ToSet(done) <=> r \in ToSet(running) /\ IsFinished(r)
      /\ \A r : r \in ToSet(Unfinished(running)) <=> r \in ToSet(running) /\ ~IsFinished(r)
      /\ IsInjective(Unfinished(running))
    BY <1>2, Split
<1> HIDE DEF done
<1>4. /\ got \in Seq(Request) /\ IsInjective(got)
      /\ ToSet(got) = ToSet(done) \cap {r \in Request : slotOf[r] # Stop}
    BY <1>3, ChosenIs
<1> HIDE DEF got
<1>5. ToSet(got) = D /\ D \subseteq Request /\ \A r \in D : slotOf[r] \in Slot
    BY <1>2, <1>3, <1>4
<1> HIDE DEF D
<1>6. back \in Seq(Slot) /\ ToSet(back) = {slotOf[r] : r \in D} /\ IsInjective(back)
    <2>1. \A r \in ToSet(got) : slotOf[r] \in Slot
        BY <1>5
    <2>2. \A r, q \in ToSet(got) : slotOf[r] = slotOf[q] => r = q
        <3>1. \A r \in D : slotOf[r] # Stop
            BY DEF D
        <3> QED BY <1>2, <1>5, <3>1
    <2>3. /\ back \in Seq(Slot) /\ ToSet(back) = {slotOf[r] : r \in ToSet(got)} /\ IsInjective(back)
        BY <1>4, <2>1, <2>2, Mapped
    <2> QED BY <1>5, <2>3
<1> HIDE DEF back
<1>7. IsInjective(slotPool') /\ ToSet(slotPool') = ToSet(slotPool) \cup {slotOf[r] : r \in D}
    <2>1. ToSet(slotPool) \cap ToSet(back) = {}
        BY <1>2, <1>5, <1>6
    <2> QED BY <1>1, <1>2, <1>6, <2>1, Joined
<1>8. completed' = done
    BY <1>1, <1>2, <1>3, ConcatEmptySeq
<1>9. slotOf' = [r \in Request |-> IF r \in D THEN Stop ELSE slotOf[r]]
    BY <1>1, <1>5
<1>10. step'.at = "collected" /\ step'.batch = step.batch /\ step'.still = Unfinished(running)
    BY <1>1, <1>2
<1> QED BY <1>1, <1>3, <1>7, <1>8, <1>9, <1>10 DEF D

\* What Accept does to the lists.
LEMMA Accepted ==
    ASSUME Typed, Journey, Unknown, Accept
    PROVE  /\ recv.req \in Request /\ Coming(recv.req) /\ \A r \in Request : r = recv.req => ~Coming(r)'
           /\ slotOf[recv.req] = Stop /\ callback[recv.req] <= 0 /\ result[recv.req] = <<>>
           /\ recv.req \notin ToSet(running) /\ recv.req \notin ToSet(completed)
           /\ ToSet(running') = ToSet(running) \cup {recv.req}
           /\ IsInjective(running) => IsInjective(running')
           /\ out' = [out EXCEPT ![recv.req] = <<recv.first>>]
           /\ Head(slotPool) \in Slot /\ Head(slotPool) \in ToSet(slotPool)
           /\ slotOf' = [slotOf EXCEPT ![recv.req] = Head(slotPool)]
           /\ slotPool' = Tail(slotPool) /\ slotPool # <<>>
           /\ UNCHANGED <<result, cut, step, completed, callback>>
<1>1. /\ recv.req \in Request /\ recv.first \in Token /\ running \in Seq(Request) /\ slotPool \in Seq(Slot)
    BY DEF Accept, Typed, RecvTyped, DecodeTyped
<1>2. /\ running' = Append(running, recv.req) /\ slotPool # <<>>
      /\ out' = [out EXCEPT ![recv.req] = <<recv.first>>]
      /\ slotOf' = [slotOf EXCEPT ![recv.req] = Head(slotPool)]
      /\ slotPool' = Tail(slotPool)
      /\ UNCHANGED <<result, cut, step, completed, callback>>
    BY DEF Accept, loopVars
<1>3. \A r \in Request : r = recv.req => Coming(r) /\ ~Coming(r)'
    BY Arrives
<1>4. Coming(recv.req)
    BY <1>1, <1>3
<1>5. /\ slotOf[recv.req] = Stop /\ callback[recv.req] <= 0 /\ result[recv.req] = <<>>
      /\ recv.req \notin ToSet(running) /\ recv.req \notin ToSet(completed)
    BY <1>1, <1>4 DEF Unknown
<1>6. /\ ToSet(running') = ToSet(running) \cup {recv.req}
      /\ IsInjective(running) => IsInjective(running')
    BY <1>1, <1>2, <1>5, Lengthened
<1>7. Head(slotPool) \in Slot /\ Head(slotPool) \in ToSet(slotPool)
    BY <1>1, <1>2, Shortened
<1> QED BY <1>1, <1>2, <1>3, <1>4, <1>5, <1>6, <1>7

\* The decode worker goes on not to know who is coming.
LEMMA UnknownStep ==
    ASSUME Typed, Journey, Unknown, SlotsApart, Lists, [DNext]_dvars
    PROVE  Unknown'
<1>1. \A r \in Request : Coming(r)' => Coming(r)
    BY JourneyStep
<1> SUFFICES ASSUME NEW r \in Request, Coming(r)'
             PROVE  /\ slotOf'[r] = Stop
                    /\ r \notin ToSet(running') /\ r \notin ToSet(completed')
                    /\ callback'[r] <= 0 /\ result'[r] = <<>>
    BY DEF Unknown
<1> DEFINE Stranger == /\ slotOf'[r] = Stop
                       /\ r \notin ToSet(running') /\ r \notin ToSet(completed')
                       /\ callback'[r] <= 0 /\ result'[r] = <<>>
<1>2. /\ slotOf[r] = Stop /\ r \notin ToSet(running) /\ r \notin ToSet(completed)
      /\ callback[r] <= 0 /\ result[r] = <<>>
    BY <1>1 DEF Unknown
<1>3. /\ slotOf \in [Request -> Slot \cup {Stop}] /\ callback \in [Request -> -1 .. NumRequests]
      /\ result \in [Request -> Seq(Token)] /\ completed \in Seq(Request)
    BY DEF Typed, CallerTyped, DecodeTyped, LoopTyped
<1>4. UNCHANGED <<slotOf, running, completed, callback, result>> => Stranger
    BY <1>2
<1>5. ASSUME NEW q \in Request, Submit(q) PROVE Stranger
    <2>1. UNCHANGED <<slotOf, running, completed, result>> /\ callback' = [callback EXCEPT ![q] = 0]
        BY <1>5 DEF Submit, decodeVars
    <2> QED BY <1>2, <1>3, <2>1
<1>6. ASSUME Accept PROVE Stranger
    <2>1. /\ \A q \in Request : q = recv.req => ~Coming(q)'
          /\ ToSet(running') = ToSet(running) \cup {recv.req}
          /\ slotOf' = [slotOf EXCEPT ![recv.req] = Head(slotPool)]
          /\ UNCHANGED <<result, completed, callback>>
        BY <1>6, Accepted
    <2>2. r # recv.req
        BY <2>1
    <2> QED BY <1>2, <1>3, <2>1, <2>2
<1>7. ASSUME Schedule \/ CollectAssign PROVE Stranger
    <2>1. running' = step.still /\ UNCHANGED <<slotOf, completed, callback, result>>
        BY <1>7 DEF Schedule, CollectAssign
    <2>2. ToSet(step.still) \subseteq ToSet(running)
        BY DEF Lists
    <2> QED BY <1>2, <2>1, <2>2
<1>8. ASSUME CollectScan PROVE Stranger
    <2>1. /\ r \in ToSet(completed') => r \in ToSet(running)
          /\ slotOf'[r] \in {Stop, slotOf[r]}
          /\ UNCHANGED <<running, callback, result>>
        BY <1>8, Collected
    <2> QED BY <1>2, <2>1
<1>9. ASSUME Deliver PROVE Stranger
    <2>1. /\ completed # <<>> /\ completed' = Tail(completed)
          /\ UNCHANGED <<slotOf, running>>
          /\ callback' = [callback EXCEPT ![Head(completed)] = @ + 1]
          /\ result' = result \/ result' = [result EXCEPT ![Head(completed)] = out[Head(completed)]]
        BY <1>9 DEF Deliver, decodeVars
    <2>2. Head(completed) \in ToSet(completed) /\ ToSet(completed') \subseteq ToSet(completed)
        BY <1>3, <2>1, Shortened
    <2>3. Head(completed) # r
        BY <1>2, <2>2
    <2> QED BY <1>2, <1>3, <2>1, <2>2, <2>3
<1>10. ASSUME Sweep \/ Forward \/ StepEnds PROVE Stranger
    BY <1>4, <1>10 DEF Sweep, Forward, Update, StepEnds, decodeVars
<1>11. ASSUME \/ \E q \in Request : Submit(q) \/ PopCompleted(q)
              \/ PrefillThread \/ RecvHeader \/ RecvBody \/ Reject \/ Stopping
              \/ UNCHANGED dvars
       PROVE  Stranger
    BY <1>4, <1>5, <1>11, OthersLeave DEF DecodeState
<1> HIDE DEF Stranger
<1>12. Loop => Stranger
    BY <1>7, <1>8, <1>9, <1>10 DEF Loop
<1>13. Stranger
    BY <1>6, <1>11, <1>12 DEF DNext, RecvThread
<1> QED BY <1>13 DEF Stranger

\* Accept takes the first slot of the pool; decode_step gives back those of the
\* requests that are finished; nobody else touches slots.
LEMMA SlotsStep ==
    ASSUME Typed, Journey, Unknown, SlotsApart, Lists, [DNext]_dvars
    PROVE  SlotsApart'
<1>1. /\ slotOf \in [Request -> Slot \cup {Stop}] /\ slotPool \in Seq(Slot) /\ Stop \notin Slot
      /\ IsInjective(slotPool)
      /\ \A r, q \in Request : slotOf[r] = slotOf[q] /\ slotOf[r] # Stop => r = q
      /\ \A r \in Request : slotOf[r] \notin ToSet(slotPool)
      /\ \A s \in Slot : s \in ToSet(slotPool) \/ \E r \in Request : slotOf[r] = s
    BY Numbers DEF Typed, DecodeTyped, SlotsApart
<1>2. ASSUME UNCHANGED <<slotPool, slotOf>> PROVE SlotsApart'
    BY <1>1, <1>2 DEF SlotsApart
<1>3. ASSUME Accept PROVE SlotsApart'
    <2> DEFINE a == recv.req
               h == Head(slotPool)
    <2>1. /\ a \in Request /\ slotOf[a] = Stop /\ h \in Slot /\ h \in ToSet(slotPool)
          /\ slotOf' = [slotOf EXCEPT ![a] = h]
          /\ slotPool' = Tail(slotPool) /\ slotPool # <<>>
        BY <1>3, Accepted
    <2>2. /\ IsInjective(slotPool') /\ h \notin ToSet(slotPool') /\ ToSet(slotPool') \subseteq ToSet(slotPool)
          /\ \A x \in ToSet(slotPool) : x = h \/ x \in ToSet(slotPool')
        BY <1>1, <2>1, Shortened
    <2> HIDE DEF a, h
    <2>3. \A r, q \in Request : slotOf'[r] = slotOf'[q] /\ slotOf'[r] # Stop => r = q
        BY <1>1, <2>1
    <2>4. \A r \in Request : slotOf'[r] \notin ToSet(slotPool')
        BY <1>1, <2>1, <2>2
    <2>5. ASSUME NEW s \in Slot PROVE s \in ToSet(slotPool') \/ \E r \in Request : slotOf'[r] = s
        <3>1. CASE s = h
            BY <1>1, <2>1, <3>1
        <3>2. CASE s # h /\ s \in ToSet(slotPool)
            BY <2>2, <3>2
        <3>3. CASE \E r \in Request : slotOf[r] = s
            <4>1. PICK r \in Request : slotOf[r] = s
                BY <3>3
            <4>2. slotOf'[r] = s
                BY <1>1, <2>1, <4>1
            <4> QED BY <4>2
        <3> QED BY <1>1, <3>1, <3>2, <3>3
    <2> QED BY <2>2, <2>3, <2>4, <2>5 DEF SlotsApart
<1>4. ASSUME CollectScan PROVE SlotsApart'
    <2> DEFINE D == {r \in Request : r \in ToSet(running) /\ IsFinished(r) /\ slotOf[r] # Stop}
    <2>1. /\ slotOf' = [r \in Request |-> IF r \in D THEN Stop ELSE slotOf[r]]
          /\ IsInjective(slotPool')
          /\ ToSet(slotPool') = ToSet(slotPool) \cup {slotOf[r] : r \in D}
        BY <1>4, Collected
    <2>2. D \subseteq Request /\ \A r \in D : slotOf[r] # Stop
        OBVIOUS
    <2> HIDE DEF D
    <2>3. \A r, q \in Request : slotOf'[r] = slotOf'[q] /\ slotOf'[r] # Stop => r = q
        BY <1>1, <2>1
    <2>4. ASSUME NEW r \in Request, slotOf'[r] \in ToSet(slotPool') PROVE FALSE
        <3>1. CASE r \in D
            <4>1. slotOf'[r] = Stop /\ Stop \notin ToSet(slotPool) /\ Stop \notin {slotOf[q] : q \in D}
                <5>1. Stop \notin ToSet(slotPool)
                    BY <1>1, Elements
                <5> QED BY <2>1, <2>2, <3>1, <5>1
            <4> QED BY <2>1, <2>4, <4>1
        <3>2. CASE r \notin D
            <4>1. slotOf'[r] = slotOf[r] /\ slotOf[r] \notin ToSet(slotPool)
                BY <1>1, <2>1, <3>2
            <4>2. PICK q \in D : slotOf[r] = slotOf[q]
                BY <2>1, <2>4, <4>1
            <4>3. r = q
                BY <1>1, <2>2, <4>2
            <4> QED BY <3>2, <4>3
        <3> QED BY <3>1, <3>2
    <2>5. ASSUME NEW s \in Slot PROVE s \in ToSet(slotPool') \/ \E r \in Request : slotOf'[r] = s
        <3>1. CASE s \in ToSet(slotPool)
            BY <2>1, <3>1
        <3>2. CASE \E r \in Request : slotOf[r] = s
            <4>1. PICK r \in Request : slotOf[r] = s
                BY <3>2
            <4>2. CASE r \in D
                BY <2>1, <4>1, <4>2
            <4>3. CASE r \notin D
                <5>1. slotOf'[r] = s
                    BY <2>1, <4>1, <4>3
                <5> QED BY <5>1
            <4> QED BY <4>2, <4>3
        <3> QED BY <1>1, <3>1, <3>2
    <2> QED BY <2>1, <2>3, <2>4, <2>5 DEF SlotsApart
<1>5. ASSUME Sweep \/ Schedule \/ Forward \/ CollectAssign \/ Deliver \/ StepEnds PROVE SlotsApart'
    BY <1>2, <1>5 DEF Sweep, Schedule, Forward, Update, CollectAssign, Deliver, StepEnds, decodeVars
<1>6. ASSUME \/ \E q \in Request : Submit(q) \/ PopCompleted(q)
             \/ PrefillThread \/ RecvHeader \/ RecvBody \/ Reject \/ Stopping
             \/ UNCHANGED dvars
      PROVE  SlotsApart'
    BY <1>2, <1>6, OthersLeave DEF DecodeState
<1> QED BY <1>3, <1>4, <1>5, <1>6 DEF DNext, RecvThread, Loop

\* Each of the three lists is rebuilt from running, and those who are taken out of
\* it are finished.
LEMMA ListsStep ==
    ASSUME Typed, Journey, Unknown, SlotsApart, Lists, [DNext]_dvars
    PROVE  Lists'
<1>1. /\ running \in Seq(Request) /\ completed \in Seq(Request)
      /\ step \in [at : {"idle", "swept", "forward", "updated", "collected", "deliver"},
                   batch : Seq(Request), still : Seq(Request)]
      /\ out \in [Request -> Seq(Token)]
    BY DEF Typed, DecodeTyped, LoopTyped
<1>2. /\ IsInjective(running) /\ IsInjective(step.still) /\ IsInjective(completed)
      /\ ToSet(step.still) \subseteq ToSet(running)
      /\ ToSet(step.batch) \subseteq ToSet(running)
      /\ step.at \in {"idle", "swept", "forward", "updated"} => completed = <<>>
      /\ step.at = "swept" => \A r \in ToSet(step.still) : ~IsFinished(r)
      /\ step.at = "forward" => \A r \in ToSet(step.batch) : ~IsFinished(r)
      /\ \A r \in ToSet(completed) : IsFinished(r) /\ r \notin ToSet(step.still)
      /\ step.at = "deliver" => \A r \in ToSet(completed) : r \notin ToSet(running)
    BY DEF Lists
<1>3. ToSet(<<>>) = {} /\ IsInjective(<<>>)
    BY DEF ToSet, IsInjective
<1>4. UNCHANGED <<out, cut>> => \A r : IsFinished(r)' <=> IsFinished(r)
    BY DEF IsFinished
<1>5. ASSUME UNCHANGED DecodeState PROVE Lists'
    BY <1>2, <1>4, <1>5 DEF Lists, DecodeState
<1>6. ASSUME Accept PROVE Lists'
    <2> DEFINE a == recv.req
    <2>1. /\ a \in Request /\ a \notin ToSet(running) /\ a \notin ToSet(completed)
          /\ ToSet(running') = ToSet(running) \cup {a}
          /\ IsInjective(running')
          /\ out' = [out EXCEPT ![a] = <<recv.first>>]
          /\ UNCHANGED <<cut, step, completed>>
        BY <1>2, <1>6, Accepted
    <2> HIDE DEF a
    <2>2. \A r \in Request : r # a => (IsFinished(r)' <=> IsFinished(r))
        BY <1>1, <2>1 DEF IsFinished
    <2>3. /\ ToSet(step.still) \subseteq Request \ {a} /\ ToSet(step.batch) \subseteq Request \ {a}
          /\ ToSet(completed) \subseteq Request \ {a}
        <3>1. ToSet(running) \subseteq Request /\ ToSet(completed) \subseteq Request
            BY <1>1, Elements
        <3> QED BY <1>2, <2>1, <3>1
    <2> QED BY <1>2, <2>1, <2>2, <2>3 DEF Lists
<1>7. ASSUME Sweep PROVE Lists'
    <2>1. /\ step.at = "idle" /\ step' = [step EXCEPT !.at = "swept", !.still = Unfinished(running)]
          /\ UNCHANGED <<running, out, cut, completed>>
        BY <1>7 DEF Sweep
    <2>2. /\ IsInjective(Unfinished(running))
          /\ \A r : r \in ToSet(Unfinished(running)) <=> r \in ToSet(running) /\ ~IsFinished(r)
        BY <1>1, <1>2, Split
    <2>3. step'.at = "swept" /\ step'.still = Unfinished(running) /\ step'.batch = step.batch
        BY <1>1, <2>1
    <2> QED BY <1>2, <1>3, <1>4, <2>1, <2>2, <2>3 DEF Lists
<1>8. ASSUME Schedule PROVE Lists'
    <2>1. /\ step.at = "swept" /\ running' = step.still
          /\ step'.at \in {"idle", "forward"} /\ step'.batch = step.still /\ step'.still = <<>>
          /\ UNCHANGED <<out, cut, completed>>
        BY <1>8 DEF Schedule
    <2> QED BY <1>2, <1>3, <1>4, <2>1 DEF Lists
<1>9. ASSUME Forward PROVE Lists'
    <2>1. /\ step.at = "forward" /\ step' = [step EXCEPT !.at = "updated"]
          /\ UNCHANGED <<running, completed>>
        BY <1>9 DEF Forward, Update
    <2>2. step'.at = "updated" /\ step'.still = step.still /\ step'.batch = step.batch
        BY <1>1, <2>1
    <2> QED BY <1>2, <1>3, <2>1, <2>2 DEF Lists
<1>10. ASSUME CollectScan PROVE Lists'
    <2>1. /\ step'.at = "collected" /\ step'.batch = step.batch
          /\ IsInjective(step'.still)
          /\ \A r : r \in ToSet(step'.still) <=> r \in ToSet(running) /\ ~IsFinished(r)
          /\ IsInjective(completed')
          /\ \A r : r \in ToSet(completed') <=> r \in ToSet(running) /\ IsFinished(r)
          /\ UNCHANGED <<running, out, cut>>
        BY <1>10, Collected
    <2> QED BY <1>2, <1>4, <2>1 DEF Lists
<1>11. ASSUME CollectAssign PROVE Lists'
    <2>1. /\ step.at = "collected" /\ running' = step.still
          /\ step'.at = "deliver" /\ step'.batch = <<>> /\ step'.still = <<>>
          /\ UNCHANGED <<out, cut, completed>>
        BY <1>11 DEF CollectAssign
    <2> QED BY <1>2, <1>3, <1>4, <2>1 DEF Lists
<1>12. ASSUME Deliver PROVE Lists'
    <2>1. /\ step.at = "deliver" /\ completed # <<>> /\ completed' = Tail(completed)
          /\ UNCHANGED <<running, out, cut, step>>
        BY <1>12 DEF Deliver, decodeVars
    <2>2. IsInjective(completed') /\ ToSet(completed') \subseteq ToSet(completed)
        BY <1>1, <1>2, <2>1, Shortened
    <2> QED BY <1>2, <1>4, <2>1, <2>2 DEF Lists
<1>13. ASSUME StepEnds PROVE Lists'
    <2>1. /\ completed = <<>> /\ step' = [step EXCEPT !.at = "idle"]
          /\ UNCHANGED <<running, out, cut, completed>>
        BY <1>13 DEF StepEnds, decodeVars
    <2>2. step'.at = "idle" /\ step'.still = step.still /\ step'.batch = step.batch
        BY <1>1, <2>1
    <2> QED BY <1>2, <1>3, <2>1, <2>2 DEF Lists
<1>14. ASSUME \/ \E q \in Request : Submit(q) \/ PopCompleted(q)
              \/ PrefillThread \/ RecvHeader \/ RecvBody \/ Reject \/ Stopping
              \/ UNCHANGED dvars
       PROVE  Lists'
    BY <1>5, <1>14, OthersLeave
<1> QED BY <1>6, <1>7, <1>8, <1>9, <1>10, <1>11, <1>12, <1>13, <1>14 DEF DNext, RecvThread, Loop

\* A token is appended only to a request that is not finished; what was delivered
\* is of a request that is finished and in no list.
LEMMA AnswersStep ==
    ASSUME Typed, Journey, Unknown, SlotsApart, Lists, Answers, [DNext]_dvars
    PROVE  Answers'
<1>1. /\ running \in Seq(Request) /\ completed \in Seq(Request) /\ cut \subseteq Request
      /\ out \in [Request -> Seq(Token)] /\ result \in [Request -> Seq(Token)]
      /\ callback \in [Request -> -1 .. NumRequests] /\ MaxNew \in Nat \ {0}
    BY Numbers DEF Typed, CallerTyped, DecodeTyped, LoopTyped
<1>2. \A r \in Request :
        /\ Len(out[r]) <= MaxNew
        /\ \A i \in 1 .. Len(out[r]) - 1 : out[r][i] # "eos"
        /\ callback[r] <= 1
        /\ result[r] \in {<<>>, out[r]}
        /\ Delivered(r) => IsFinished(r) /\ r \notin ToSet(running) /\ r \notin ToSet(completed)
    BY DEF Answers
<1>3. UNCHANGED <<out, cut>> => \A r : IsFinished(r)' <=> IsFinished(r)
    BY DEF IsFinished
<1>4. ASSUME UNCHANGED <<out, cut, callback, result>>,
             ToSet(running') \subseteq ToSet(running), ToSet(completed') \subseteq ToSet(running) \cup ToSet(completed)
      PROVE  Answers'
    BY <1>2, <1>3, <1>4 DEF Answers, Delivered
<1>5. ASSUME NEW q \in Request, Submit(q) PROVE Answers'
    <2>1. UNCHANGED <<running, out, cut, completed, result>> /\ callback' = [callback EXCEPT ![q] = 0]
        BY <1>5 DEF Submit, decodeVars
    <2>2. \A r \in Request : (callback'[r] = callback[r] \/ callback'[r] = 0) /\ (Delivered(r)' => Delivered(r))
        BY <1>1, <2>1 DEF Delivered
    <2> QED BY <1>2, <1>3, <2>1, <2>2 DEF Answers
<1>6. ASSUME Accept PROVE Answers'
    <2> DEFINE a == recv.req
    <2>1. /\ a \in Request /\ callback[a] <= 0 /\ result[a] = <<>>
          /\ a \notin ToSet(running) /\ a \notin ToSet(completed)
          /\ ToSet(running') = ToSet(running) \cup {a}
          /\ out' = [out EXCEPT ![a] = <<recv.first>>]
          /\ UNCHANGED <<result, cut, completed, callback>>
        BY <1>6, Accepted
    <2>2. out'[a] = <<recv.first>> /\ Len(out'[a]) = 1
        BY <1>1, <2>1
    <2> HIDE DEF a
    <2>3. \A r \in Request : r # a => out'[r] = out[r] /\ (IsFinished(r)' <=> IsFinished(r))
        BY <1>1, <2>1 DEF IsFinished
    <2>4. \A r \in Request : (Delivered(r)' <=> Delivered(r)) /\ (r = a => ~Delivered(r))
        BY <1>1, <2>1 DEF Delivered
    <2> SUFFICES ASSUME NEW r \in Request
                 PROVE  /\ Len(out'[r]) <= MaxNew
                        /\ \A i \in 1 .. Len(out'[r]) - 1 : out'[r][i] # "eos"
                        /\ callback'[r] <= 1
                        /\ result'[r] \in {<<>>, out'[r]}
                        /\ Delivered(r)' => IsFinished(r)' /\ r \notin ToSet(running') /\ r \notin ToSet(completed')
        BY DEF Answers
    <2>5. CASE r = a
        BY <1>1, <2>1, <2>2, <2>4, <2>5
    <2>6. CASE r # a
        BY <1>2, <2>1, <2>3, <2>4, <2>6
    <2> QED BY <2>5, <2>6
<1>7. ASSUME Forward PROVE Answers'
    <2>1. PICK tokens \in [ToSet(step.batch) -> Token] :
             /\ out' = [r \in Request |-> IF r \in ToSet(step.batch) THEN Append(out[r], tokens[r]) ELSE out[r]]
             /\ cut \subseteq cut'
             /\ step.at = "forward"
             /\ UNCHANGED <<result, running, completed, callback>>
        BY <1>7, Updated, TypedIs
    <2>2. \A r \in Request : Delivered(r)' <=> Delivered(r)
        BY <2>1 DEF Delivered
    <2>3. /\ ToSet(step.batch) \subseteq ToSet(running)
          /\ \A r \in ToSet(step.batch) : ~IsFinished(r)
        BY <2>1 DEF Lists
    <2> SUFFICES ASSUME NEW r \in Request
                 PROVE  /\ Len(out'[r]) <= MaxNew
                        /\ \A i \in 1 .. Len(out'[r]) - 1 : out'[r][i] # "eos"
                        /\ callback'[r] <= 1
                        /\ result'[r] \in {<<>>, out'[r]}
                        /\ Delivered(r)' => IsFinished(r)' /\ r \notin ToSet(running') /\ r \notin ToSet(completed')
        BY DEF Answers
    <2>4. CASE r \notin ToSet(step.batch)
        <3>1. out'[r] = out[r] /\ (IsFinished(r) => IsFinished(r)')
            BY <2>1, <2>4 DEF IsFinished
        <3> QED BY <1>2, <2>1, <2>2, <3>1
    <2>5. CASE r \in ToSet(step.batch)
        <3>1. ~Delivered(r) /\ result[r] = <<>>
            BY <1>2, <2>3, <2>5 DEF Delivered
        <3>2. out'[r] = Append(out[r], tokens[r]) /\ tokens[r] \in Token /\ out[r] \in Seq(Token)
            BY <1>1, <2>1, <2>5
        <3>3. /\ Len(out'[r]) = Len(out[r]) + 1 /\ Len(out[r]) \in Nat
              /\ \A i \in 1 .. Len(out[r]) : out'[r][i] = out[r][i]
            BY <3>2, AppendProperties, Elements
        <3>4. ~(Len(out[r]) >= MaxNew) /\ (out[r] # <<>> => out[r][Len(out[r])] # "eos")
            BY <2>3, <2>5 DEF IsFinished, Last
        <3>5. ASSUME NEW i \in 1 .. Len(out[r]) PROVE out[r][i] # "eos"
            <4>1. CASE i = Len(out[r])
                BY <3>2, <3>4, <3>5, <4>1, EmptySeq
            <4>2. CASE i # Len(out[r])
                BY <1>2, <3>3, <4>2
            <4> QED BY <4>1, <4>2
        <3> QED BY <1>1, <1>2, <2>1, <2>2, <3>1, <3>3, <3>4, <3>5
    <2> QED BY <2>4, <2>5
<1>8. ASSUME Sweep \/ StepEnds PROVE Answers'
    BY <1>4, <1>8 DEF Sweep, StepEnds, decodeVars
<1>9. ASSUME Schedule \/ CollectAssign PROVE Answers'
    <2>1. running' = step.still /\ UNCHANGED <<out, cut, completed, callback, result>>
        BY <1>9 DEF Schedule, CollectAssign
    <2>2. ToSet(step.still) \subseteq ToSet(running)
        BY DEF Lists
    <2> QED BY <1>4, <2>1, <2>2
<1>10. ASSUME CollectScan PROVE Answers'
    <2>1. /\ \A r : r \in ToSet(completed') <=> r \in ToSet(running) /\ IsFinished(r)
          /\ UNCHANGED <<running, out, cut, callback, result>>
        BY <1>10, Collected
    <2> QED BY <1>4, <2>1
<1>11. ASSUME Deliver PROVE Answers'
    <2> DEFINE h == Head(completed)
    <2>1. /\ step.at = "deliver" /\ completed # <<>> /\ completed' = Tail(completed)
          /\ UNCHANGED <<running, out, cut>>
          /\ callback' = [callback EXCEPT ![h] = @ + 1]
          /\ result' = result \/ result' = [result EXCEPT ![h] = out[h]]
        BY <1>11 DEF Deliver, decodeVars
    <2>2. /\ h \in Request /\ h \in ToSet(completed) /\ h \notin ToSet(completed')
          /\ ToSet(completed') \subseteq ToSet(completed)
        BY <1>1, <2>1, Shortened DEF Lists
    <2>3. IsFinished(h) /\ h \notin ToSet(running) /\ ~Delivered(h)
        BY <1>2, <2>1, <2>2 DEF Lists
    <2> HIDE DEF h
    <2>4. /\ callback'[h] = callback[h] + 1 /\ callback[h] \in Int /\ result'[h] \in {result[h], out[h]}
          /\ \A r \in Request : r # h => callback'[r] = callback[r] /\ result'[r] = result[r]
        BY <1>1, <2>1, <2>2
    <2>5. callback'[h] <= 1 /\ result'[h] \in {<<>>, out[h]}
        BY <2>3, <2>4 DEF Delivered
    <2>6. \A r \in Request : r # h => (Delivered(r)' <=> Delivered(r))
        BY <2>4 DEF Delivered
    <2> SUFFICES ASSUME NEW r \in Request
                 PROVE  /\ Len(out'[r]) <= MaxNew
                        /\ \A i \in 1 .. Len(out'[r]) - 1 : out'[r][i] # "eos"
                        /\ callback'[r] <= 1
                        /\ result'[r] \in {<<>>, out'[r]}
                        /\ Delivered(r)' => IsFinished(r)' /\ r \notin ToSet(running') /\ r \notin ToSet(completed')
        BY DEF Answers
    <2>7. CASE r = h
        BY <1>2, <1>3, <2>1, <2>2, <2>3, <2>5, <2>7
    <2>8. CASE r # h
        BY <1>2, <1>3, <2>1, <2>2, <2>4, <2>6, <2>8
    <2> QED BY <2>7, <2>8
<1>12. ASSUME \/ \E q \in Request : Submit(q) \/ PopCompleted(q)
              \/ PrefillThread \/ RecvHeader \/ RecvBody \/ Reject \/ Stopping
              \/ UNCHANGED dvars
       PROVE  Answers'
    <2>1. \/ UNCHANGED <<out, cut, callback, result, running, completed>>
          \/ \E q \in Request : Submit(q)
        BY <1>12, OthersLeave DEF DecodeState
    <2> QED BY <1>4, <1>5, <2>1
<1> QED BY <1>6, <1>7, <1>8, <1>9, <1>10, <1>11, <1>12 DEF DNext, RecvThread, Loop

-----------------------------------------------------------------------------
(* Frames. *)

\* The places of what is left behind the first element.
LEMMA Remaining ==
    ASSUME NEW S, NEW s \in Seq(S), s # <<>>
    PROVE  /\ Len(s) \in Nat \ {0} /\ Len(Tail(s)) = Len(s) - 1 /\ Head(s) = s[1] /\ s[1] \in S
           /\ \A i \in 1 .. Len(s) - 1 : Tail(s)[i] = s[i + 1] /\ i \in 1 .. Len(s) /\ i + 1 \in 1 .. Len(s)
           /\ (Tail(s) # <<>> <=> Len(s) - 1 # 0) /\ 1 \in 1 .. Len(s)
<1>1. /\ Tail(s) \in Seq(S) /\ Len(s) \in Nat \ {0} /\ Len(Tail(s)) = Len(s) - 1
      /\ Head(s) = s[1] /\ Head(s) \in S
      /\ \A i \in 1 .. Len(s) - 1 : Tail(s)[i] = s[i + 1]
    BY Shortened
<1>2. Tail(s) = <<>> <=> Len(Tail(s)) = 0
    BY <1>1, EmptySeq
<1>3. \A i \in 1 .. Len(s) - 1 : i \in 1 .. Len(s) /\ i + 1 \in 1 .. Len(s)
    BY <1>1
<1> QED BY <1>1, <1>2, <1>3

\* A header on a wire whose sender owes nothing is owed its body; one that says
\* Stop is not.
LEMMA HeaderSent ==
    ASSUME NEW c \in Seq(FrameType), NEW f \in FrameType, NEW q, f.kind = "meta", Whole(c, Stop, q)
    PROVE  Whole(Append(c, f), f.req, q)
<1> DEFINE d == Append(c, f)
           n == Len(c)
<1>1. /\ Len(d) = n + 1 /\ n \in Nat /\ d[n + 1] = f /\ \A i \in 1 .. n : d[i] = c[i]
      /\ (c # <<>> <=> n # 0) /\ d # <<>>
    BY AppendProperties, Elements, EmptySeq
<1> HIDE DEF d, n
<1>2. \A i \in 1 .. n + 1 : i \in 1 .. n \/ i = n + 1
    BY <1>1
<1>3. ASSUME NEW i \in 1 .. n + 1, d[i].kind = "meta", d[i].req # Stop
      PROVE  IF i < n + 1 THEN d[i + 1].kind = "body" /\ d[i + 1].req = d[i].req ELSE f.req = d[i].req
    <2>1. CASE i \in 1 .. n
        <3>1. i < n /\ c[i + 1].kind = "body" /\ c[i + 1].req = c[i].req
            BY <1>1, <1>3, <2>1 DEF Whole, n
        <3>2. i + 1 \in 1 .. n /\ i < n + 1
            BY <1>1, <2>1, <3>1
        <3> QED BY <1>1, <2>1, <3>1, <3>2
    <2> QED BY <1>1, <1>2, <2>1
<1>4. ASSUME NEW i \in 1 .. n + 1, d[i].kind = "body"
      PROVE  d[i].req # Stop /\ IF i > 1 THEN d[i - 1].kind = "meta" /\ d[i - 1].req = d[i].req ELSE q = d[i].req
    <2>1. i \in 1 .. n
        BY <1>1, <1>2, <1>4
    <2>2. /\ c[i].kind = "body" /\ c[i].req # Stop
          /\ IF i > 1 THEN c[i - 1].kind = "meta" /\ c[i - 1].req = c[i].req ELSE q = c[i].req
        BY <1>1, <1>4, <2>1 DEF Whole, n
    <2>3. i > 1 => i - 1 \in 1 .. n
        BY <1>1, <2>1
    <2> QED BY <1>1, <2>1, <2>2, <2>3
<1>5. q # Stop => d[1].kind = "body" /\ d[1].req = q
    BY <1>1 DEF Whole
<1> QED BY <1>1, <1>3, <1>4, <1>5 DEF Whole, d

\* The body that is owed follows.
LEMMA BodySent ==
    ASSUME NEW c \in Seq(FrameType), NEW f \in FrameType, NEW q, f.kind = "body", f.req # Stop,
           Whole(c, f.req, q)
    PROVE  Whole(Append(c, f), Stop, q)
<1> DEFINE d == Append(c, f)
           n == Len(c)
<1>1. /\ Len(d) = n + 1 /\ n \in Nat /\ d[n + 1] = f /\ \A i \in 1 .. n : d[i] = c[i]
      /\ (c # <<>> <=> n # 0) /\ d # <<>>
    BY AppendProperties, Elements, EmptySeq
<1> HIDE DEF d, n
<1>2. \A i \in 1 .. n + 1 : i \in 1 .. n \/ i = n + 1
    BY <1>1
<1>3. ASSUME NEW i \in 1 .. n + 1, d[i].kind = "meta", d[i].req # Stop
      PROVE  i < n + 1 /\ d[i + 1].kind = "body" /\ d[i + 1].req = d[i].req
    <2>1. i \in 1 .. n /\ c[i] = d[i]
        BY <1>1, <1>2, <1>3
    <2>2. IF i < n THEN c[i + 1].kind = "body" /\ c[i + 1].req = c[i].req ELSE f.req = c[i].req
        BY <1>3, <2>1 DEF Whole, n
    <2>3. CASE i < n
        <3>1. i + 1 \in 1 .. n /\ i < n + 1
            BY <1>1, <2>1, <2>3
        <3> QED BY <1>1, <2>1, <2>2, <2>3, <3>1
    <2>4. CASE ~(i < n)
        <3>1. i = n
            BY <1>1, <2>1, <2>4
        <3> QED BY <1>1, <2>1, <2>2, <2>4, <3>1
    <2> QED BY <2>3, <2>4
<1>4. ASSUME NEW i \in 1 .. n + 1, d[i].kind = "body"
      PROVE  d[i].req # Stop /\ IF i > 1 THEN d[i - 1].kind = "meta" /\ d[i - 1].req = d[i].req ELSE q = d[i].req
    <2>1. CASE i \in 1 .. n
        <3>1. /\ c[i].req # Stop
              /\ IF i > 1 THEN c[i - 1].kind = "meta" /\ c[i - 1].req = c[i].req ELSE q = c[i].req
            BY <1>1, <1>4, <2>1 DEF Whole, n
        <3>2. i > 1 => i - 1 \in 1 .. n
            BY <1>1, <2>1
        <3> QED BY <1>1, <2>1, <3>1, <3>2
    <2>2. CASE i = n + 1
        <3>1. CASE n # 0
            <4>1. c[n].kind = "meta" /\ c[n].req = f.req /\ n \in 1 .. n /\ i - 1 = n /\ i > 1
                BY <1>1, <2>2, <3>1 DEF Whole, n
            <4> QED BY <1>1, <2>2, <4>1
        <3>2. CASE n = 0
            BY <1>1, <2>2, <3>2 DEF Whole
        <3> QED BY <3>1, <3>2
    <2> QED BY <1>2, <2>1, <2>2
<1>5. q # Stop => d[1].kind = "body" /\ d[1].req = q
    BY <1>1 DEF Whole
<1> QED BY <1>1, <1>3, <1>4, <1>5 DEF Whole, d

\* A receiver that waits for no body meets a header, and its body is due.
LEMMA HeaderRead ==
    ASSUME NEW c \in Seq(FrameType), c # <<>>, NEW p, Whole(c, p, Stop)
    PROVE  Head(c).kind = "meta" /\ Whole(Tail(c), p, Head(c).req)
<1> DEFINE d == Tail(c)
           n == Len(c)
<1>1. /\ n \in Nat \ {0} /\ Len(d) = n - 1 /\ Head(c) = c[1] /\ c[1] \in FrameType
      /\ \A i \in 1 .. n - 1 : d[i] = c[i + 1] /\ i \in 1 .. n /\ i + 1 \in 1 .. n
      /\ (d # <<>> <=> n - 1 # 0) /\ 1 \in 1 .. n
    BY Remaining
<1>2. /\ \A i \in 1 .. n : c[i].kind = "meta" /\ c[i].req # Stop =>
           IF i < n THEN c[i + 1].kind = "body" /\ c[i + 1].req = c[i].req ELSE p = c[i].req
      /\ \A i \in 1 .. n : c[i].kind = "body" =>
           /\ c[i].req # Stop
           /\ IF i > 1 THEN c[i - 1].kind = "meta" /\ c[i - 1].req = c[i].req ELSE Stop = c[i].req
      /\ p # Stop => c[n].kind = "meta" /\ c[n].req = p
    BY DEF Whole
<1> HIDE DEF d, n
<1>3. c[1].kind = "meta"
    BY <1>1, <1>2 DEF FrameType
<1>4. ASSUME NEW i \in 1 .. n - 1, d[i].kind = "meta", d[i].req # Stop
      PROVE  IF i < n - 1 THEN d[i + 1].kind = "body" /\ d[i + 1].req = d[i].req ELSE p = d[i].req
    <2>1. d[i] = c[i + 1] /\ i + 1 \in 1 .. n
        BY <1>1
    <2>2. CASE i < n - 1
        <3>1. i + 1 \in 1 .. n - 1 /\ i + 1 < n
            BY <1>1, <2>2
        <3>2. d[i + 1] = c[(i + 1) + 1]
            BY <1>1, <3>1
        <3> QED BY <1>2, <1>4, <2>1, <2>2, <3>1, <3>2
    <2>3. CASE ~(i < n - 1)
        <3>1. ~(i + 1 < n)
            BY <1>1, <2>3
        <3> QED BY <1>2, <1>4, <2>1, <2>3, <3>1
    <2> QED BY <2>2, <2>3
<1>5. ASSUME NEW i \in 1 .. n - 1, d[i].kind = "body"
      PROVE  d[i].req # Stop /\ IF i > 1 THEN d[i - 1].kind = "meta" /\ d[i - 1].req = d[i].req ELSE c[1].req = d[i].req
    <2>1. i > 1 => i - 1 \in 1 .. n - 1 /\ (i - 1) + 1 = i
        BY <1>1
    <2>2. c[i + 1].req # Stop /\ c[i].kind = "meta" /\ c[i].req = c[i + 1].req
        <3>1. i + 1 \in 1 .. n /\ i + 1 > 1 /\ (i + 1) - 1 = i
            BY <1>1
        <3> QED BY <1>1, <1>2, <1>5, <3>1
    <2> QED BY <1>1, <2>1, <2>2
<1>6. c[1].req # Stop => IF n - 1 # 0 THEN d[1].kind = "body" /\ d[1].req = c[1].req ELSE p = c[1].req
    BY <1>1, <1>2, <1>3
<1>7. p # Stop => IF n - 1 # 0 THEN d[n - 1].kind = "meta" /\ d[n - 1].req = p ELSE c[1].req = p
    BY <1>1, <1>2
<1> QED BY <1>1, <1>3, <1>4, <1>5, <1>6, <1>7 DEF Whole, d

\* One that waits for a body meets it.
LEMMA BodyRead ==
    ASSUME NEW c \in Seq(FrameType), c # <<>>, NEW p, NEW q, q # Stop, Whole(c, p, q)
    PROVE  Head(c).kind = "body" /\ Head(c).req = q /\ Whole(Tail(c), p, Stop)
<1> DEFINE d == Tail(c)
           n == Len(c)
<1>1. /\ n \in Nat \ {0} /\ Len(d) = n - 1 /\ Head(c) = c[1]
      /\ \A i \in 1 .. n - 1 : d[i] = c[i + 1] /\ i \in 1 .. n /\ i + 1 \in 1 .. n
      /\ (d # <<>> <=> n - 1 # 0) /\ 1 \in 1 .. n
    BY Remaining
<1>2. /\ \A i \in 1 .. n : c[i].kind = "meta" /\ c[i].req # Stop =>
           IF i < n THEN c[i + 1].kind = "body" /\ c[i + 1].req = c[i].req ELSE p = c[i].req
      /\ \A i \in 1 .. n : c[i].kind = "body" =>
           /\ c[i].req # Stop
           /\ IF i > 1 THEN c[i - 1].kind = "meta" /\ c[i - 1].req = c[i].req ELSE q = c[i].req
      /\ p # Stop => c[n].kind = "meta" /\ c[n].req = p
      /\ c[1].kind = "body" /\ c[1].req = q
    BY DEF Whole
<1> HIDE DEF d, n
<1>4. ASSUME NEW i \in 1 .. n - 1, d[i].kind = "meta", d[i].req # Stop
      PROVE  IF i < n - 1 THEN d[i + 1].kind = "body" /\ d[i + 1].req = d[i].req ELSE p = d[i].req
    <2>1. d[i] = c[i + 1] /\ i + 1 \in 1 .. n
        BY <1>1
    <2>2. CASE i < n - 1
        <3>1. i + 1 \in 1 .. n - 1 /\ i + 1 < n
            BY <1>1, <2>2
        <3>2. d[i + 1] = c[(i + 1) + 1]
            BY <1>1, <3>1
        <3> QED BY <1>2, <1>4, <2>1, <2>2, <3>1, <3>2
    <2>3. CASE ~(i < n - 1)
        <3>1. ~(i + 1 < n)
            BY <1>1, <2>3
        <3> QED BY <1>2, <1>4, <2>1, <2>3, <3>1
    <2> QED BY <2>2, <2>3
<1>5. ASSUME NEW i \in 1 .. n - 1, d[i].kind = "body"
      PROVE  d[i].req # Stop /\ i > 1 /\ d[i - 1].kind = "meta" /\ d[i - 1].req = d[i].req
    <2>1. i > 1 => i - 1 \in 1 .. n - 1 /\ (i - 1) + 1 = i
        BY <1>1
    <2>2. c[i + 1].req # Stop /\ c[i].kind = "meta" /\ c[i].req = c[i + 1].req
        <3>1. i + 1 \in 1 .. n /\ i + 1 > 1 /\ (i + 1) - 1 = i
            BY <1>1
        <3> QED BY <1>1, <1>2, <1>5, <3>1
    <2>3. i # 1
        BY <1>2, <2>2
    <2> QED BY <1>1, <2>1, <2>2, <2>3
<1>7. p # Stop => n - 1 # 0 /\ d[n - 1].kind = "meta" /\ d[n - 1].req = p
    BY <1>1, <1>2
<1> QED BY <1>1, <1>2, <1>4, <1>5, <1>7 DEF Whole, d
\* The prefill thread sends header and body of one request in turn, and shutdown
\* sends only when that thread has ended.
LEMMA FramesStep ==
    ASSUME Typed, Journey, Frames, [DNext]_dvars
    PROVE  Frames'
<1> SUFFICES ASSUME ~JoinLate PROVE Frames'
    BY DEF Frames
<1>1. /\ chan \in Seq(FrameType) /\ prefill.req \in Request \cup {Stop} /\ metaBuf \in Request \cup {Stop}
      /\ prefill.first \in Token /\ Stop \notin Request
      /\ prefill.at \notin {"wait", "exited"} => prefill.req # Stop
      /\ DOMAIN prefill = {"at", "req", "slot", "first"} /\ DOMAIN recv = {"at", "req", "first"}
      /\ prefill.at \in {"wait", "picked", "computed", "packed", "header", "body", "exited"}
      /\ recv.at \in {"body", "got"} => recv.req \in Request
    BY Numbers DEF Typed, CallerTyped, PrefillTyped, RecvTyped
<1>2. /\ recv.at # "torn"
      /\ shut \in {"zeroed", "done"} => prefill.at = "exited" /\ metaBuf = Stop
      /\ prefill.at = "packed" => metaBuf = prefill.req
      /\ recv.at # "exited" => Whole(chan, Owed, Awaited)
    BY DEF Frames
<1> DEFINE Calm == /\ UNCHANGED <<chan, Owed>>
                   /\ recv' = recv \/ (Awaited = Stop /\ recv.at # "exited" /\ Awaited' = Stop /\ recv'.at # "torn")
                   /\ shut' \in {"zeroed", "done"} => prefill'.at = "exited" /\ metaBuf' = Stop
                   /\ prefill'.at = "packed" => metaBuf' = prefill'.req
<1>3. Calm => Frames'
    BY <1>2 DEF Frames, Awaited
<1> HIDE DEF Calm
<1>4. ASSUME NEW r \in Request, Submit(r) PROVE Calm
    BY <1>4, <1>1, <1>2 DEF Submit, Calm, Owed, Awaited, prefillVars, recvVars, decodeVars, loopVars
<1>5. ASSUME NEW r \in Request, PopCompleted(r) PROVE Calm
    BY <1>5, <1>1, <1>2 DEF PopCompleted, Calm, Owed, Awaited, prefillVars, recvVars, decodeVars, loopVars
<1>6. ASSUME PrefillTake PROVE Calm
    BY <1>6, <1>1, <1>2 DEF PrefillTake, Calm, Owed, Awaited, prefillVars, recvVars, decodeVars, loopVars
<1>7. ASSUME PrefillLeaves PROVE Calm
    BY <1>7, <1>1, <1>2 DEF PrefillLeaves, Calm, Owed, Awaited, prefillVars, recvVars, decodeVars, loopVars
<1>8. ASSUME PrefillCompute PROVE Calm
    BY <1>8, <1>1, <1>2 DEF PrefillCompute, Calm, Owed, Awaited, prefillVars, recvVars, decodeVars, loopVars
<1>9. ASSUME PrefillRaises PROVE Calm
    BY <1>9, <1>1, <1>2 DEF PrefillRaises, Calm, Owed, Awaited, prefillVars, recvVars, decodeVars, loopVars
<1>10. ASSUME PackHeader PROVE Calm
    BY <1>10, <1>1, <1>2 DEF PackHeader, Calm, Owed, Awaited, prefillVars, recvVars, decodeVars, loopVars
<1>11. ASSUME PrefillEnds PROVE Calm
    BY <1>11, <1>1, <1>2 DEF PrefillEnds, Calm, Owed, Awaited, prefillVars, recvVars, decodeVars, loopVars
<1>12. ASSUME Accept PROVE Calm
    BY <1>12, <1>1, <1>2 DEF Accept, Calm, Owed, Awaited, prefillVars, recvVars, decodeVars, loopVars
<1>13. ASSUME Reject PROVE Calm
    BY <1>13, <1>1, <1>2 DEF Reject, Calm, Owed, Awaited, prefillVars, recvVars, decodeVars, loopVars
<1>14. ASSUME Loop PROVE Calm
    BY <1>14, <1>1, <1>2, LoopLeaves DEF Calm, Owed, Awaited, prefillVars, recvVars, decodeVars, loopVars
<1>15. ASSUME Shutdown PROVE Calm
    BY <1>15, <1>1, <1>2 DEF Shutdown, Calm, Owed, Awaited, prefillVars, recvVars, decodeVars, loopVars
<1>16. ASSUME ShutdownZeroes PROVE Calm
    BY <1>16, <1>1, <1>2 DEF ShutdownZeroes, Calm, Owed, Awaited, prefillVars, recvVars, decodeVars, loopVars
<1>17. ASSUME UNCHANGED dvars PROVE Calm
    BY <1>17, <1>1, <1>2 DEF dvars, Calm, Owed, Awaited, prefillVars, recvVars, decodeVars, loopVars
<1>18. CASE SendHeader
    <2> DEFINE f == Frame("meta", metaBuf)
    <2>1. f \in FrameType /\ f.kind = "meta" /\ f.req = metaBuf /\ chan' = Append(chan, f)
        BY <1>1, <1>18 DEF SendHeader, Frame, FrameType
    <2> HIDE DEF f
    <2>2. /\ prefill.at = "packed" /\ prefill'.at = "header" /\ prefill'.req = prefill.req
          /\ UNCHANGED <<recv, shut, metaBuf>>
        BY <1>1, <1>18 DEF SendHeader, recvVars
    <2>3. Owed = Stop /\ Owed' = metaBuf /\ Awaited' = Awaited
        BY <1>2, <2>2 DEF Owed, Awaited
    <2>4. recv.at # "exited" => Whole(chan', Owed', Awaited')
        BY <1>1, <1>2, <2>1, <2>3, HeaderSent
    <2> QED BY <1>2, <2>2, <2>4 DEF Frames
<1>19. CASE SendBody
    <2> DEFINE f == Frame("body", prefill.req)
    <2>1. f \in FrameType /\ f.kind = "body" /\ f.req = prefill.req /\ chan' = Append(chan, f)
        BY <1>1, <1>19 DEF SendBody, Frame, FrameType
    <2> HIDE DEF f
    <2>2. /\ prefill.at = "header" /\ prefill'.at = "body" /\ prefill'.req = prefill.req
          /\ UNCHANGED <<recv, shut, metaBuf>>
        BY <1>1, <1>19 DEF SendBody, recvVars
    <2>3. Owed = prefill.req /\ Owed' = Stop /\ Awaited' = Awaited
        BY <2>2 DEF Owed, Awaited
    <2>4. recv.at # "exited" => Whole(chan', Owed', Awaited')
        BY <1>1, <1>2, <2>1, <2>2, <2>3, BodySent
    <2> QED BY <1>2, <2>2, <2>4 DEF Frames
<1>20. CASE RecvHeader
    <2>1. /\ recv.at = "meta" /\ chan # <<>> /\ chan' = Tail(chan)
          /\ UNCHANGED <<prefill, shut, metaBuf>>
          /\ recv' = IF Head(chan).kind # "meta" THEN [recv EXCEPT !.at = "torn"]
                     ELSE IF Head(chan).req = Stop THEN [recv EXCEPT !.at = "exited"]
                     ELSE [at |-> "body", req |-> Head(chan).req, first |-> Head(chan).first]
        BY <1>20 DEF RecvHeader, prefillVars
    <2>2. Awaited = Stop /\ Owed' = Owed
        BY <2>1 DEF Awaited, Owed
    <2>3. Head(chan).kind = "meta" /\ Whole(chan', Owed, Head(chan).req)
        BY <1>1, <1>2, <2>1, <2>2, HeaderRead
    <2>4. recv'.at # "torn" /\ (recv'.at # "exited" => Awaited' = Head(chan).req)
        BY <1>1, <2>1, <2>3 DEF Awaited
    <2>5. recv'.at # "exited" => Whole(chan', Owed', Awaited')
        BY <2>2, <2>3, <2>4
    <2> QED BY <1>2, <2>1, <2>4, <2>5 DEF Frames
<1>21. CASE RecvBody
    <2>1. /\ recv.at = "body" /\ chan # <<>> /\ chan' = Tail(chan)
          /\ UNCHANGED <<prefill, shut, metaBuf>>
          /\ recv' = IF Head(chan).kind = "body" /\ Head(chan).req = recv.req
                     THEN [recv EXCEPT !.at = "got"] ELSE [recv EXCEPT !.at = "torn"]
        BY <1>21 DEF RecvBody, prefillVars
    <2>2. Awaited = recv.req /\ Awaited # Stop /\ Owed' = Owed
        BY <1>1, <2>1 DEF Awaited, Owed
    <2>3. Head(chan).kind = "body" /\ Head(chan).req = Awaited /\ Whole(chan', Owed, Stop)
        BY <1>1, <1>2, <2>1, <2>2, BodyRead
    <2>4. recv'.at = "got" /\ Awaited' = Stop
        BY <1>1, <2>1, <2>2, <2>3 DEF Awaited
    <2>5. Whole(chan', Owed', Awaited')
        BY <2>2, <2>3, <2>4
    <2> QED BY <1>2, <2>1, <2>4, <2>5 DEF Frames
<1>22. CASE ShutdownSends
    <2> DEFINE f == Frame("meta", metaBuf)
    <2>1. f \in FrameType /\ f.kind = "meta" /\ f.req = metaBuf /\ chan' = Append(chan, f)
        BY <1>1, <1>22 DEF ShutdownSends, Frame, FrameType
    <2> HIDE DEF f
    <2>2. prefill.at = "exited" /\ metaBuf = Stop /\ UNCHANGED <<prefill, recv, metaBuf>>
        BY <1>2, <1>22 DEF ShutdownSends, recvVars, prefillVars
    <2>3. Owed = Stop /\ Owed' = Stop /\ Awaited' = Awaited
        BY <2>2 DEF Owed, Awaited
    <2>4. recv.at # "exited" => Whole(chan', Owed', Awaited')
        BY <1>1, <1>2, <2>1, <2>2, <2>3, HeaderSent
    <2> QED BY <1>2, <2>2, <2>4 DEF Frames
<1>23. CASE \E r \in Request : Submit(r) \/ PopCompleted(r)
    BY <1>3, <1>4, <1>5, <1>23
<1>24. CASE PrefillThread
    BY <1>3, <1>6, <1>7, <1>8, <1>9, <1>10, <1>11, <1>18, <1>19, <1>24 DEF PrefillThread
<1>25. CASE RecvThread
    BY <1>3, <1>12, <1>13, <1>20, <1>21, <1>25 DEF RecvThread
<1>26. CASE Stopping
    BY <1>3, <1>15, <1>16, <1>22, <1>26 DEF Stopping
<1> QED BY <1>3, <1>14, <1>17, <1>23, <1>24, <1>25, <1>26 DEF DNext

-----------------------------------------------------------------------------
(* The theorems about disaggregated prefill and decode. *)

\* The invariant holds at first.
LEMMA DInitInv ==
    ASSUME DInit
    PROVE  DInv
<1> DEFINE pool == [i \in 1 .. NumSlots |-> i - 1]
<1>1. /\ slotPool = pool /\ NumSlots \in Nat \ {0} /\ SchedBlocks \in Nat /\ MaxNew \in Nat \ {0}
      /\ NumRequests \in Nat \ {0} /\ PrefillBlocks \in Nat
    BY DisaggregatedAssumption DEF DInit
<1>2. pool \in Seq(Slot) /\ IsInjective(pool) /\ \A s \in Slot : s \in ToSet(pool)
    <2>1. pool \in [1 .. NumSlots -> Slot] /\ DOMAIN pool = 1 .. NumSlots
        BY <1>1 DEF Slot
    <2>2. pool \in Seq(Slot)
        BY <1>1, <2>1, SeqDef
    <2>3. IsInjective(pool)
        BY <1>1, <2>1 DEF IsInjective
    <2>4. ASSUME NEW s \in Slot PROVE s \in ToSet(pool)
        <3>1. s + 1 \in 1 .. NumSlots /\ pool[s + 1] = s
            BY <1>1 DEF Slot
        <3> QED BY <2>1, <3>1 DEF ToSet
    <2> QED BY <2>2, <2>3, <2>4
<1> HIDE DEF pool
<1>3. ToSet(<<>>) = {} /\ IsInjective(<<>>) /\ Len(<<>>) = 0
    BY DEF ToSet, IsInjective
<1>4. DTypeOK
    <2> USE DEF DInit
    <2>1. /\ status \in [Request -> {"new", "pending", "prefilling", "transferring", "finished", "popped"}]
          /\ callback \in [Request -> -1 .. NumRequests] /\ shut \in {"no", "join", "zeroed", "done"}
        BY <1>1
    <2>2. /\ result \in [Request -> Seq(Token)] /\ out \in [Request -> Seq(Token)]
          /\ table \in [Slot -> Seq(Request)] /\ queue \in Seq(Request \cup {Stop})
          /\ chan \in Seq([kind : {"meta", "body"}, req : Request \cup {Stop}, first : Token])
          /\ running \in Seq(Request) /\ completed \in Seq(Request)
        BY EmptySeq
    <2>3. /\ prefill \in [at : {"wait", "picked", "computed", "packed", "header", "body", "exited"},
                          req : Request \cup {Stop}, slot : Slot, first : Token]
          /\ recv \in [at : {"meta", "body", "got", "exited", "torn"}, req : Request \cup {Stop}, first : Token]
          /\ nextSlot \in Slot /\ nextSeq \in Slot /\ metaBuf \in Request \cup {Stop}
        BY Numbers DEF Token
    <2>4. step \in [at : {"idle", "swept", "forward", "updated", "collected", "deliver"},
                   batch : Seq(Request), still : Seq(Request)]
        BY EmptySeq
    <2>5. slotOf \in [Request -> Slot \cup {Stop}] /\ cut \subseteq Request /\ free \in 0 .. SchedBlocks
        BY <1>1
    <2>6. held \in [Slot -> 0 .. PrefillBlocks] /\ blocks \in [Request -> Nat]
        BY <1>1
    <2> QED BY <1>1, <1>2, <2>1, <2>2, <2>3, <2>4, <2>5, <2>6 DEF DTypeOK
<1>5. Hands /\ Journey
    BY <1>3, Numbers DEF DInit, Hands, Journey, QueueApart, BodiesApart, Queued, InHand, OnWire, Got
<1>6. Unknown
    BY <1>3 DEF DInit, Unknown
<1>7. SlotsApart
    <2>1. \A r \in Request : slotOf[r] = Stop
        BY DEF DInit
    <2>2. Stop \notin ToSet(slotPool)
        BY <1>1, <1>2, Elements, Numbers
    <2> QED BY <1>1, <1>2, <2>1, <2>2 DEF SlotsApart
<1>8. Lists /\ Answers
    BY <1>1, <1>3 DEF DInit, Lists, Answers, Delivered
<1>9. Frames
    BY <1>3 DEF DInit, Frames, Whole, Owed, Awaited
<1> QED BY <1>4, <1>5, <1>6, <1>7, <1>8, <1>9 DEF DInv

\* In every state the invariant holds that each slot is in the pool or of one
\* request, and that no frame is torn unless the join of shutdown times out.
LEMMA SlotsAndFrames ==
    ASSUME DInv
    PROVE  TransfersExact
<1> DEFINE HeldBy(s) == {r \in Request : slotOf[r] = s}
<1>1. /\ \A r, q \in Request : slotOf[r] = slotOf[q] /\ slotOf[r] # Stop => r = q
      /\ \A r \in Request : slotOf[r] \notin ToSet(slotPool)
      /\ \A s \in Slot : s \in ToSet(slotPool) \/ \E r \in Request : slotOf[r] = s
      /\ Stop \notin Slot
    BY Numbers DEF DInv, SlotsApart
<1>2. ASSUME NEW s \in Slot PROVE Cardinality(HeldBy(s)) = IF s \in ToSet(slotPool) THEN 0 ELSE 1
    <2>1. CASE s \in ToSet(slotPool)
        <3>1. HeldBy(s) = {}
            BY <1>1, <2>1
        <3> QED BY <2>1, <3>1, FS_EmptySet
    <2>2. CASE s \notin ToSet(slotPool)
        <3>1. PICK r \in Request : slotOf[r] = s
            BY <1>1, <2>2
        <3>2. HeldBy(s) = {r}
            BY <1>1, <3>1
        <3>3. Cardinality({r}) = 1
            BY FS_Singleton
        <3> QED BY <2>2, <3>2, <3>3
    <2> QED BY <2>1, <2>2
<1>3. SlotsExact
    BY <1>2 DEF SlotsExact, DInv, SlotsApart
<1>4. FramesIntact
    BY DEF FramesIntact, DInv, Frames
<1> QED BY <1>3, <1>4 DEF TransfersExact

\* ... and what a callback was given is a whole answer.
LEMMA AnswersWhole ==
    ASSUME DInv
    PROVE  AnswerWhole
<1> SUFFICES ASSUME NEW r \in Request
             PROVE  /\ callback[r] <= 1
                    /\ result[r] # <<>> =>
                         /\ result[r] = out[r]
                         /\ \A i \in 1 .. Len(result[r]) - 1 : result[r][i] # "eos"
                         /\ r \in cut \/ Len(result[r]) = MaxNew \/ Last(result[r]) = "eos"
    BY DEF AnswerWhole
<1>1. /\ Len(out[r]) <= MaxNew
      /\ \A i \in 1 .. Len(out[r]) - 1 : out[r][i] # "eos"
      /\ callback[r] <= 1
      /\ result[r] \in {<<>>, out[r]}
      /\ Delivered(r) => IsFinished(r)
    BY DEF DInv, Answers
<1>2. out[r] \in Seq(Token) /\ Len(out[r]) \in Nat /\ MaxNew \in Nat
    BY Numbers, WorkerTypes, Elements DEF DInv
<1>3. result[r] # <<>> => Delivered(r)
    BY DEF Delivered
<1> QED BY <1>1, <1>2, <1>3 DEF IsFinished

\* The inductive invariant of disaggregated prefill and decode: a request is at
\* one place of its way to the decode worker, which does not know it before it
\* arrives; the slots, the lists of the loop, the answers and the frames follow.
THEOREM DisaggregatedInvariance == DSpec => []DInv
<1>1. DInit => DInv
    BY DInitInv
<1>2. DInv /\ [DNext]_dvars => DInv'
    <2> SUFFICES ASSUME DInv, [DNext]_dvars PROVE DInv'
        OBVIOUS
    <2>1. Typed /\ Journey /\ Unknown /\ SlotsApart /\ Lists /\ Answers /\ Frames
        BY TypedIs DEF DInv
    <2>2. Typed' /\ Journey'
        BY <2>1, TypeStep, JourneyStep
    <2>3. Unknown' /\ SlotsApart' /\ Lists'
        BY <2>1, UnknownStep, SlotsStep, ListsStep
    <2>4. Answers' /\ Frames'
        BY <2>1, AnswersStep, FramesStep
    <2>5. DTypeOK' /\ Hands'
        BY <2>2, TypedIs
    <2> QED BY <2>2, <2>3, <2>4, <2>5 DEF DInv
<1> QED BY <1>1, <1>2, PTL DEF DSpec

\* receive_and_add_request takes a slot that nobody has, decode_step gives back
\* each slot once, and the two users of the sending KVTransfer tear no frame.
THEOREM TransfersExactAlways == DSpec => []TransfersExact
BY DisaggregatedInvariance, SlotsAndFrames, PTL

\* step() calls a request's callback at most once, with all its tokens.
THEOREM AnswerWholeAlways == DSpec => []AnswerWhole
BY DisaggregatedInvariance, AnswersWhole, PTL

=============================================================================
