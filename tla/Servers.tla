------------------------------- MODULE Servers -------------------------------
(***************************************************************************)
(* Three parts beside each other that share nothing but the people: the    *)
(* authentication service; the in-memory cache of the web server, whose    *)
(* clock is time here; and the answers that browsers, caches and the       *)
(* service worker keep of the web server (PageLoads), whose clock is ticks *)
(* and whose data are held here.                                           *)
(***************************************************************************)
EXTENDS AuthService

CONSTANTS Keys, Callers, Loads, MaxEntries, TTL, MaxVersion    \* of TTLCache

VARIABLES
    time, version, changing, store, inflight, loads, caller, floor, changedAt, slowest

cacheVars ==
    <<time, version, changing, store, inflight, loads, caller, floor, changedAt, slowest>>

Cache == INSTANCE TTLCache WITH clock <- time

ASSUME CacheAssumption == Cache!CacheConstants

CONSTANTS NoUser, Tabs, Day, HalfHour, MaxTicks, MaxChanges, MaxLoads, MaxCuts    \* of PageLoads

VARIABLES
    page, ticks, cookie, held, past, worker, http, memo, flight, load, changes, begun, cuts

pageVars ==
    <<page, ticks, cookie, held, past, worker, http, memo, flight, load, changes, begun, cuts>>

Pages == INSTANCE PageLoads
             WITH Loads <- Tabs, MaxClock <- MaxTicks, clock <- ticks, version <- held

ASSUME PagesAssumption == Pages!PageConstants

\* CacheIsSound, StaleForTTLOnly and EveryCallAnswered of TTLCache.
CacheIsSound == Cache!CacheIsSound
StaleForTTLOnly == Cache!StaleForTTLOnly
EveryCallAnswered == Cache!EveryCallAnswered

\* PagesShowTheTruth of PageLoads.
PagesShowTheTruth == Pages!PagesShowTheTruth

-----------------------------------------------------------------------------
(* What TLC checks: one part at a time. *)

\* A page that is never opened, of a browser that has kept nothing.
NoPages ==
    /\ Pages!Init
    /\ page = "settings" /\ cookie = NoUser /\ held = 0
    /\ worker = Pages!Nobody /\ http = Pages!Nobody

\* The cache beside an authentication service nobody calls.  The fairness is that of TTLCache.
BesideInit == Init /\ Cache!Init /\ NoPages
BesideNext == Cache!Next /\ UNCHANGED <<vars, pageVars>>

CacheSpec ==
    /\ BesideInit
    /\ [][BesideNext]_<<vars, cacheVars, pageVars>>
    /\ \A l \in Loads :
          WF_cacheVars(Cache!LoadRead(l) \/ Cache!LoadDone(l) \/ Cache!LoadFail(l))

\* Keys of the checked instance, a ListKey (the first page of the list) and a TrendingKey.
TwoKeys == {<<"problems", "list", "", "", "", "", "1", "50">>, <<"trending", "10">>}
=============================================================================
