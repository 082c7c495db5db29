----------------------------- MODULE HttpServer -----------------------------
(***************************************************************************)
(* The way of a POST /v1/completions through the HTTP server: the rate     *)
(* limiter and the load shedder (api/middleware.py), validation and        *)
(* tokenization, the cache of answers (api/tracking.py), the engine.  A    *)
(* handler runs until its next await; while it waits for the tokenizer or  *)
(* for the engine, others run and time passes.  The trackers only count,   *)
(* and are left out.                                                       *)
(*                                                                         *)
(* One tick of time refills one token of a bucket.  What a request asks    *)
(* for is a key, the parameters the cache distinguishes, and the rest:     *)
(* those it does not (stop, response_format, min_tokens, logit_bias,       *)
(* logprobs, ...).  An answer is known by what it was generated for.       *)
(***************************************************************************)
EXTENDS Integers, FiniteSets, SequencesExt

CONSTANTS
    Client,     \* addresses
    Key,        \* prompt, max_tokens and the parameters in the fingerprint
    Sampled,    \* the keys with a temperature above 0
    Rest,       \* the other parameters
    Handler,    \* requests that are handled at the same time
    MaxGrants,  \* bound on the requests the limiter ever lets pass
    Capacity,   \* requests_per_minute
    MaxBuckets, \* max_buckets
    CleanupInterval,
    MaxPending, \* max_pending of the load shedder
    CacheSize,  \* max_size
    TTL,        \* ttl_seconds
    MaxTime     \* bound on the clock

ASSUME HttpServerAssumption ==
    /\ Sampled \subseteq Key
    /\ {MaxGrants, Capacity, MaxBuckets, MaxPending, CacheSize, TTL} \subseteq Nat \ {0}
    /\ CleanupInterval \in Nat /\ MaxTime \in Nat

VARIABLES
    now,        \* time.monotonic()
    buckets,    \* _buckets: [tokens, last] of the clients that have one
    cleaned,    \* _last_cleanup
    cache,      \* _cache, oldest first
    req,        \* every request: where it is, what it asks, its answer
    granted,    \* history: when the limiter let a client pass
    evicted     \* history: clients whose bucket was evicted before it was stale

vars == <<now, buckets, cleaned, cache, req, granted, evicted>>

Ask     == [key : Key, rest : Rest]
NoAsk   == [key |-> "none", rest |-> "none"]
Asks    == Ask \cup {NoAsk}

TypeOK ==
    /\ now \in 0 .. MaxTime /\ cleaned \in 0 .. MaxTime
    /\ DOMAIN buckets \subseteq Client
    /\ \A c \in DOMAIN buckets : buckets[c] \in [tokens : 0 .. Capacity, last : 0 .. MaxTime]
    /\ cache \in Seq([key : Key, answer : Ask, at : 0 .. MaxTime])
    /\ req \in [Handler -> [at : {"free", "tokenize", "queued", "running", "answered"},
                            ask : Asks, stream : BOOLEAN,
                            answer : Asks, age : 0 .. MaxTime]]
    /\ granted \in [Client -> Seq(0 .. MaxTime)]
    /\ evicted \subseteq Client

Unused == [at |-> "free", ask |-> NoAsk, stream |-> FALSE, answer |-> NoAsk, age |-> 0]

Init ==
    /\ now = 0 /\ cleaned = 0
    /\ buckets = [c \in {} |-> 0]
    /\ cache = <<>>
    /\ req = [r \in Handler |-> Unused]
    /\ granted = [c \in Client |-> <<>>]
    /\ evicted = {}

Tick == now < MaxTime /\ now' = now + 1 /\ UNCHANGED <<buckets, cleaned, cache, req, granted, evicted>>

-----------------------------------------------------------------------------
(* The rate limiter. *)

Without(b, cs) == [c \in DOMAIN b \ cs |-> b[c]]

\* Mutant: a bucket is stale as soon as it was not used for a tick.
StaleEarly(b) == {c \in DOMAIN b : now > b[c].last}
\* _cleanup_stale: buckets that had the time to fill up, whatever is in them.
Stale(b)   == {c \in DOMAIN b : now - b[c].last > Capacity}
Cleaned(b) == Without(b, Stale(b))

Due == now - cleaned > CleanupInterval

\* The bucket with the earliest access goes when there is no room.
Oldest(b) == {c \in DOMAIN b : \A d \in DOMAIN b : b[c].last <= b[d].last}

Full(b) == Cardinality(DOMAIN b) >= MaxBuckets

\* _allow_unlocked: the buckets after the cleanups, whether one was evicted,
\* and the verdict.
Known    == IF Due THEN Cleaned(buckets) ELSE buckets
Room     == IF Full(Known) THEN Cleaned(Known) ELSE Known
Victims  == IF Full(Room) THEN {{c} : c \in Oldest(Room)} ELSE {{}}
Refilled(b) == IF b.tokens + (now - b.last) < Capacity THEN b.tokens + (now - b.last) ELSE Capacity

AllowNew(c) ==
    /\ c \notin DOMAIN Known
    /\ \E victim \in Victims :
          /\ buckets' = [d \in (DOMAIN Room \ victim) \cup {c} |->
                            IF d = c THEN [tokens |-> Capacity - 1, last |-> now] ELSE Room[d]]
          /\ evicted' = evicted \cup victim
    /\ cleaned' = IF Due \/ Full(Known) THEN now ELSE cleaned
    /\ granted' = [granted EXCEPT ![c] = Append(@, now)]

AllowKnown(c) ==
    /\ c \in DOMAIN Known /\ Refilled(Known[c]) >= 1
    /\ buckets' = [Known EXCEPT ![c] = [tokens |-> Refilled(Known[c]) - 1, last |-> now]]
    /\ cleaned' = IF Due THEN now ELSE cleaned
    /\ granted' = [granted EXCEPT ![c] = Append(@, now)]
    /\ UNCHANGED evicted

Refuse(c) ==
    /\ c \in DOMAIN Known /\ Refilled(Known[c]) < 1
    /\ buckets' = [Known EXCEPT ![c] = [tokens |-> Refilled(Known[c]), last |-> now]]
    /\ cleaned' = IF Due THEN now ELSE cleaned
    /\ UNCHANGED <<granted, evicted>>

-----------------------------------------------------------------------------
(* The handler. *)

InEngine == {r \in Handler : req[r].at \in {"queued", "running"}}

\* _get_load: what waits in the scheduler is in active_requests too.
Load == Cardinality({r \in Handler : req[r].at = "queued"}) + Cardinality(InEngine)

\* A request is answered, or turned away with one of 429, 503, 400 and 500.
Answered(r) == [req EXCEPT ![r].at = "answered", ![r].stream = FALSE]
Rejected(r) == [req EXCEPT ![r] = Unused]

Free(r) == req[r].at \in {"free", "answered"}
Grants  == FoldFunction(LAMBDA s, n : Len(s) + n, 0, granted)

\* The middlewares in the order create_app lists them, then the body.
Arrive(r, c, ask, stream) ==
    /\ Free(r)
    /\ \/ /\ Refuse(c)
          /\ req' = Rejected(r)
       \/ /\ AllowNew(c) \/ AllowKnown(c)
          /\ Grants < MaxGrants
          /\ req' = IF Load >= MaxPending THEN Rejected(r)
                    ELSE [req EXCEPT ![r] = [Unused EXCEPT !.at = "tokenize", !.ask = ask, !.stream = stream]]
    /\ UNCHANGED <<now, cache>>

\* _fingerprint: nothing is cached for a sampled request.
Cacheable(r) == req[r].ask.key \notin Sampled /\ ~req[r].stream

Entries(k) == {i \in DOMAIN cache : cache[i].key = k}
Expired(i) == now - cache[i].at > TTL

\* validate, before the tokenizer or, with the length of the prompt, after it.
Invalid(r) ==
    /\ req[r].at = "tokenize"
    /\ req' = Rejected(r)
    /\ UNCHANGED <<now, buckets, cleaned, cache, granted, evicted>>

\* RequestCache.get: a hit moves the entry to the end and answers.
Hit(r) ==
    /\ req[r].at = "tokenize" /\ Cacheable(r)
    /\ \E i \in Entries(req[r].ask.key) :
          /\ ~Expired(i)
          /\ cache' = Append(RemoveAt(cache, i), cache[i])
          /\ req' = [Answered(r) EXCEPT ![r].answer = cache[i].answer, ![r].age = now - cache[i].at]
    /\ UNCHANGED <<now, buckets, cleaned, granted, evicted>>

\* A miss deletes an expired entry; the request goes to the engine.
Miss(r) ==
    /\ req[r].at = "tokenize"
    /\ IF Cacheable(r) /\ Entries(req[r].ask.key) # {}
       THEN \E i \in Entries(req[r].ask.key) : Expired(i) /\ cache' = RemoveAt(cache, i)
       ELSE UNCHANGED cache
    /\ req' = [req EXCEPT ![r].at = "queued"]
    /\ UNCHANGED <<now, buckets, cleaned, granted, evicted>>

\* The scheduler admits it.
Admit(r) ==
    /\ req[r].at = "queued"
    /\ req' = [req EXCEPT ![r].at = "running"]
    /\ UNCHANGED <<now, buckets, cleaned, cache, granted, evicted>>

\* RequestCache.put: room is made first; an entry that is there keeps its
\* place in the order.
Room1(s) == IF Len(s) >= CacheSize THEN Tail(s) ELSE s
\* Mutant: a result is always appended.
PutAppends(s, e) == Append(Room1(s), e)
Put(s, e) ==
    LET room == Room1(s)
    IN  IF \E i \in DOMAIN room : room[i].key = e.key
        THEN [i \in DOMAIN room |-> IF room[i].key = e.key THEN e ELSE room[i]]
        ELSE Append(room, e)

\* _async_complete returns: the cache, the answer.  A stream is not
\* recorded.
Complete(r) ==
    /\ req[r].at = "running"
    /\ req' = [Answered(r) EXCEPT ![r].answer = req[r].ask]
    /\ cache' = IF Cacheable(r)
                THEN Put(cache, [key |-> req[r].ask.key, answer |-> req[r].ask, at |-> now])
                ELSE cache
    /\ UNCHANGED <<now, buckets, cleaned, granted, evicted>>

\* generate raises: 500, or a stream that ends.
Fails(r) ==
    /\ req[r].at \in {"queued", "running"}
    /\ req' = Rejected(r)
    /\ UNCHANGED <<now, buckets, cleaned, cache, granted, evicted>>

Next ==
    \/ Tick
    \/ \E r \in Handler :
          \/ \E c \in Client, ask \in Ask, stream \in BOOLEAN : Arrive(r, c, ask, stream)
          \/ Invalid(r) \/ Hit(r) \/ Miss(r) \/ Admit(r) \/ Complete(r) \/ Fails(r)

Spec == Init /\ [][Next]_vars

-----------------------------------------------------------------------------
(* Properties. *)

\* As long as the limiter had room for everybody, a client passes at most
\* Capacity times plus once for every tick in between: removing stale buckets
\* gives nothing away (_allow_unlocked, _cleanup_stale).
RateHolds ==
    /\ TypeOK
    /\ \A c \in Client \ evicted :
          \A i, j \in DOMAIN granted[c] :
              i <= j => j - i + 1 <= Capacity + (granted[c][j] - granted[c][i])

\* The cache holds every key once, within its size, whatever order requests of
\* the same key come back in; what it answers was generated for that key, is
\* not older than its time to live, and was never sampled (RequestCache).
CacheSound ==
    /\ Len(cache) <= CacheSize
    /\ \A i, j \in DOMAIN cache : cache[i].key = cache[j].key => i = j
    /\ \A r \in Handler : req[r].at = "answered" =>
          /\ req[r].answer.key = req[r].ask.key
          /\ req[r].age <= TTL
          /\ req[r].ask.key \in Sampled => req[r].age = 0 /\ req[r].answer = req[r].ask

\* Every answer was generated for what the request asked, all its parameters
\* included ("Include ALL sampling params to prevent wrong cache hits",
\* RequestCache._fingerprint).
AnsweredAsAsked ==
    \A r \in Handler : req[r].at = "answered" => req[r].answer = req[r].ask
=============================================================================
