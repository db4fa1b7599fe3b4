------------------------------ MODULE TTLCache ------------------------------
(***************************************************************************)
(* lib/cache.ts: the LRU cache with a time to live and single-flight       *)
(* loads, the public routes that read through remember(), and the routes   *)
(* that change a row and then call cache.delete or lib/cache-invalidate.   *)
(*                                                                         *)
(* The rows behind the cached keys are one table, here the problems, whose *)
(* content is its version.  A loader reads it and is back later; between   *)
(* two awaits the process runs one step to its end.  A key is the sequence *)
(* of its fields, the parts a colon separates in the code.                 *)
(***************************************************************************)
EXTENDS Naturals, FiniteSets, Sequences

CONSTANTS
    Keys,        \* keys of the problem table that are read
    Callers,     \* requests that read through the cache
    Loads,       \* names for running loads
    MaxEntries, TTL,
    MaxClock,    \* bound: the time of the last tick
    MaxVersion   \* bound: changes of the table

\* There is room for an entry, and no load has the name of no load.
CacheConstants ==
    /\ MaxEntries \in Nat \ {0} /\ TTL \in Nat /\ MaxClock \in Nat /\ MaxVersion \in Nat
    /\ "none" \notin Loads

\* GET /api/problems without a search.
ListKey(difficulty, tag, topic, company, page, limit) ==
    <<"problems", "list", difficulty, tag, topic, company, page, limit>>

\* GET /api/problems/trending.
TrendingKey(limit) == <<"trending", limit>>

\* deletePrefix, for the two prefixes of invalidateProblemsCache.
Variants(prefix) ==
    {prefix, prefix \o <<"">>, prefix \o <<"1", "50">>, prefix \o <<"1", "20">>}
FirstPages ==
    {<<"problems", "list", "", "", page, limit>> :
        page \in {"1", "2", "3", "4", "5", "6", "7", "8", "9", "10"}, limit \in {"20", "50"}}
Trending == {<<"trending", limit>> : limit \in {"10", "20", "30"}}

\* invalidateProblemsCache.  The keys of FirstPages have two fields less than the keys
\* GET reads, so of the keys in use only those in Trending are deleted.
Swept ==
    Keys \cap (Variants(<<"problems", "list">>) \cup Variants(<<"trending">>)
                  \cup FirstPages \cup Trending)

VARIABLES
    clock,
    version,   \* the table; version v holds the changes 1..v
    changing,  \* routes between the commit of their change and its invalidation
    store,     \* Map: the entries; of each, the keys that come before it in the Map
    inflight,  \* Map from keys to the loads that run; NoLoad without an entry
    loads,     \* key, value and history of each running load, or Free
    caller,    \* each request: idle, waiting for a load, or answered
    floor,     \* history: the last version whose invalidation is over
    changedAt, \* history: the time of each change
    slowest    \* history: the longest time between a read and the end of its load

history == <<floor, changedAt, slowest>>
vars == <<clock, version, changing, store, inflight, loads, caller, history>>

NoLoad == "none"
Unread == MaxVersion + 1      \* the value of a load that has not read yet
Free == [key |-> "none"]
Idle == [pc |-> "idle"]
Running == {l \in Loads : loads[l] # Free}
Max2(a, b) == IF a > b THEN a ELSE b

Cached == DOMAIN store
Entry(value, expiresAt, raced) ==
    [value |-> value, expiresAt |-> expiresAt, raced |-> raced, before |-> {}]

\* Map.delete of some keys, and Map.set of a new one, which comes last.
Without(s, ks) == [k \in DOMAIN s \ ks |-> [s[k] EXCEPT !.before = @ \ ks]]
WithLast(s, k, e) ==
    [j \in DOMAIN s \cup {k} |-> IF j = k THEN [e EXCEPT !.before = DOMAIN s] ELSE s[j]]

TypeOK ==
    /\ clock \in 0..MaxClock
    /\ version \in 0..MaxVersion /\ floor \in 0..version
    /\ changing \in 0..MaxVersion
    /\ \A k \in Cached :
          store[k] \in [value : 0..version, expiresAt : TTL..(MaxClock + TTL), raced : BOOLEAN,
                       before : SUBSET Cached]
    /\ Cached \subseteq Keys /\ Cardinality(Cached) <= MaxEntries
    /\ inflight \in [Keys -> Loads \cup {NoLoad}]
    /\ \A l \in Running :
          loads[l] \in [key : Keys, value : 0..version \cup {Unread}, readAt : 0..clock, raced : BOOLEAN]
    /\ \A c \in Callers : caller[c].pc \in {"idle", "wait", "answered", "error"}

Init ==
    /\ clock = 0 /\ version = 0 /\ changing = 0 /\ floor = 0
    /\ store = [k \in {} |-> {}]
    /\ inflight = [k \in Keys |-> NoLoad]
    /\ loads = [l \in Loads |-> Free]
    /\ caller = [c \in Callers |-> Idle]
    /\ changedAt = <<>> /\ slowest = 0
-----------------------------------------------------------------------------
Alive(k) == k \in Cached /\ store[k].expiresAt >= clock

\* Mutant: a hit starts the time to live anew.
TouchedSlides(k) ==
    IF Alive(k) THEN WithLast(Without(store, {k}), k, [store[k] EXCEPT !.expiresAt = clock + TTL])
    ELSE Without(store, {k})

\* get() of a live entry moves it to the end; of an expired one removes it.
Touched(k) ==
    IF Alive(k) THEN WithLast(Without(store, {k}), k, store[k]) ELSE Without(store, {k})

Answer(k, v) == [pc |-> "answered", key |-> k, value |-> v]

\* A hit.
Hit(c, k) ==
    /\ Alive(k)
    /\ caller' = [caller EXCEPT ![c] = Answer(k, store[k].value)]
    /\ UNCHANGED <<inflight, loads>>

\* A miss, and a load of the key is running.
Join(c, k) ==
    /\ ~Alive(k) /\ inflight[k] # NoLoad
    /\ caller' = [caller EXCEPT ![c] = [pc |-> "wait", load |-> inflight[k]]]
    /\ UNCHANGED <<inflight, loads>>

\* Mutant: every miss starts a load.
StartAlways(c, k) ==
    /\ ~Alive(k)
    /\ \E l \in Loads \ Running :
          /\ loads' = [loads EXCEPT ![l] = [key |-> k, value |-> Unread, readAt |-> clock, raced |-> FALSE]]
          /\ inflight' = [inflight EXCEPT ![k] = l]
          /\ caller' = [caller EXCEPT ![c] = [pc |-> "wait", load |-> l]]

\* A miss, and the loader is called.
Start(c, k) ==
    /\ ~Alive(k) /\ inflight[k] = NoLoad
    /\ \E l \in Loads \ Running :
          /\ loads' = [loads EXCEPT ![l] = [key |-> k, value |-> Unread, readAt |-> clock, raced |-> FALSE]]
          /\ inflight' = [inflight EXCEPT ![k] = l]
          /\ caller' = [caller EXCEPT ![c] = [pc |-> "wait", load |-> l]]

\* remember(), up to its first await.
Remember(c, k) ==
    /\ caller[c] = Idle
    /\ store' = Touched(k)
    /\ Hit(c, k) \/ Join(c, k) \/ Start(c, k)
    /\ UNCHANGED <<clock, version, changing, history>>

\* The loader's query.
LoadRead(l) ==
    /\ l \in Running /\ loads[l].value = Unread
    /\ loads' = [loads EXCEPT ![l].value = version, ![l].readAt = clock]
    /\ UNCHANGED <<clock, version, changing, store, inflight, caller, history>>

\* set() of a new key in a full store drops the first entry of the Map.
First == {k \in Cached : store[k].before = {}}
Room == IF Cardinality(Cached) >= MaxEntries THEN Without(store, First) ELSE store

\* set(): Map.set keeps the place of a key that is there.
Put(k, e) ==
    IF k \in Cached THEN [store EXCEPT ![k] = [e EXCEPT !.before = store[k].before]]
    ELSE WithLast(Room, k, e)

Settle(l, outcome) ==
    [c \in Callers |-> IF caller[c].pc = "wait" /\ caller[c].load = l THEN outcome ELSE caller[c]]

\* The load resolves: set(), then the finally, then the callers that wait for it.
LoadDone(l) ==
    /\ l \in Running /\ loads[l].value # Unread
    /\ LET k == loads[l].key
       IN /\ store' = Put(k, Entry(loads[l].value, clock + TTL, loads[l].raced))
          /\ inflight' = [inflight EXCEPT ![k] = NoLoad]
          /\ caller' = Settle(l, Answer(k, loads[l].value))
    /\ loads' = [loads EXCEPT ![l] = Free]
    /\ slowest' = Max2(slowest, clock - loads[l].readAt)
    /\ UNCHANGED <<clock, version, changing, floor, changedAt>>

\* Mutant: the inflight entry is removed only when the load succeeds.
LoadFailKeeps(l) ==
    /\ l \in Running
    /\ caller' = Settle(l, [pc |-> "error"])
    /\ loads' = [loads EXCEPT ![l] = Free]
    /\ UNCHANGED <<clock, version, changing, store, inflight, history>>

\* The load rejects: the finally, and an error for everyone who waits.
LoadFail(l) ==
    /\ l \in Running
    /\ inflight' = [inflight EXCEPT ![loads[l].key] = NoLoad]
    /\ caller' = Settle(l, [pc |-> "error"])
    /\ loads' = [loads EXCEPT ![l] = Free]
    /\ UNCHANGED <<clock, version, changing, store, history>>

\* The route has sent its answer; the next request comes.
Respond(c) ==
    /\ caller[c].pc \in {"answered", "error"}
    /\ caller' = [caller EXCEPT ![c] = Idle]
    /\ UNCHANGED <<clock, version, changing, store, inflight, loads, history>>
-----------------------------------------------------------------------------
\* POST, PUT or DELETE of an admin commits its change.
Change ==
    /\ version < MaxVersion
    /\ version' = version + 1
    /\ changing' = changing + 1
    /\ changedAt' = Append(changedAt, clock)
    /\ UNCHANGED <<clock, store, inflight, loads, caller, floor, slowest>>

\* Mutant: the prefix of the keys is deleted, which is no key.
InvalidatePrefix ==
    /\ changing > 0
    /\ changing' = changing - 1
    /\ floor' = IF changing' = 0 THEN version ELSE floor
    /\ UNCHANGED <<clock, version, store, inflight, loads, caller, changedAt, slowest>>

\* cache.delete of the keys it names.  What a running load has read is stored after it.
Invalidate ==
    /\ changing > 0
    /\ changing' = changing - 1
    /\ floor' = IF changing' = 0 THEN version ELSE floor
    /\ store' = Without(store, Swept)
    /\ loads' = [l \in Loads |->
                    IF l \in Running /\ loads[l].key \in Swept /\ loads[l].value # Unread
                    THEN [loads[l] EXCEPT !.raced = TRUE] ELSE loads[l]]
    /\ UNCHANGED <<clock, version, inflight, caller, changedAt, slowest>>

\* The update is committed and its reply is lost: the route answers 500 and invalidates
\* nothing.
ChangeFails ==
    /\ changing > 0
    /\ changing' = changing - 1
    /\ UNCHANGED <<clock, version, store, inflight, loads, caller, history>>

Tick ==
    /\ clock < MaxClock
    /\ clock' = clock + 1
    /\ UNCHANGED <<version, changing, store, inflight, loads, caller, history>>

Next ==
    \/ \E c \in Callers : Respond(c) \/ \E k \in Keys : Remember(c, k)
    \/ \E l \in Loads : LoadRead(l) \/ LoadDone(l) \/ LoadFail(l)
    \/ Change \/ Invalidate \/ ChangeFails \/ Tick

Spec == Init /\ [][Next]_vars

\* Every query ends: the promise of a load settles.
FairSpec ==
    Spec /\ \A l \in Loads : WF_vars(LoadRead(l) \/ LoadDone(l) \/ LoadFail(l))
-----------------------------------------------------------------------------
\* However misses, expiries, failures and invalidations interleave, one load per key runs
\* at a time, and it is the one later callers will wait for.
SingleFlight ==
    \A k \in Keys :
        {l \in Running : loads[l].key = k} = {inflight[k]} \ {NoLoad}

\* Once the invalidations of all changes are over, a key they name is cached with a value
\* that has them, unless its load had read the old rows and ended after the invalidation.
CurrentUnlessRaced ==
    \A k \in Cached \cap Swept : store[k].value >= floor \/ store[k].raced

\* No answer, not even of a raced load or of a key nobody invalidates, leaves out a change
\* made longer ago than the time to live plus the time the slowest load took.
StaleForTTLOnly ==
    [][\A c \in Callers :
          caller[c] # caller'[c] /\ caller'[c].pc = "answered" =>
          \A v \in (caller'[c].value + 1)..version : changedAt[v] + TTL + slowest' >= clock]_vars

\* Whoever waits for a load is answered, and a failing load does not block its key.
EveryCallAnswered == \A c \in Callers : caller[c].pc = "wait" ~> caller[c].pc # "wait"

\* The cache is sound: within its size, with one load per key, and current where an
\* invalidation reaches.
CacheIsSound == TypeOK /\ SingleFlight /\ CurrentUnlessRaced
=============================================================================
