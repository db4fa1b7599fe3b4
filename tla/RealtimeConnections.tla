------------------------ MODULE RealtimeConnections ------------------------
(***************************************************************************)
(* The life of a websocket connection of realtime-go: ServeWS with its     *)
(* connection limiter (wsserver/handler.go, hub/limiter.go), registration  *)
(* in the hub, and the graceful shutdown of main.go (hub/drain.go).        *)
(*                                                                         *)
(* One goroutine per upgrade request and the main goroutine.  Limiter and  *)
(* hub methods hold their mutex, so each call is one step; everything      *)
(* between two calls interleaves.  Subject and address are never empty: a  *)
(* verified token names its subject, and RemoteAddr is always set.         *)
(***************************************************************************)
EXTENDS Naturals, FiniteSets

CONSTANTS
    Conns,              \* upgrade requests
    Subjects, SubOf,    \* claims.Sub of each
    Addrs, IpOf,        \* clientIP(r) of each
    PerSubject, PerIP   \* the caps

\* NewLimiter replaces a non-positive cap by its default.
ASSUME RealtimeAssumption ==
    /\ IsFiniteSet(Conns)
    /\ SubOf \in [Conns -> Subjects]
    /\ IpOf \in [Conns -> Addrs]
    /\ PerSubject \in Nat \ {0}
    /\ PerIP \in Nat \ {0}

VARIABLES
    pc,        \* where ServeWS is for each request
    socket,    \* the websocket: "none" before Accept, then "open", "closed"
    bySub,     \* Limiter.bySub, 0 if there is no entry
    byIP,      \* Limiter.byIP
    clients,   \* Hub.clients
    phase,     \* where main is
    told,      \* clients that got the server_shutdown notice
    toClose    \* clients forceClose has still to close

quota == <<bySub, byIP>>
shutdown == <<phase, told, toClose>>
vars == <<pc, socket, quota, clients, shutdown>>

\* "turnedAway": refused, and Release called; "upgradeFailed": Acquire succeeded,
\* Accept did not; "done": every other way ServeWS returns.
PCs == {"arrive", "acquire", "accept", "refuse", "add", "serving", "release",
        "turnedAway", "upgradeFailed", "done"}
Phases == {"up", "notify", "draining", "force", "closing", "stopping", "exited"}

\* Requests between a successful Acquire and the deferred Release.
Holding == {"accept", "add", "serving", "release"}

HowMany(ps, key, k) == Cardinality({c \in Conns : pc[c] \in ps /\ key[c] = k})

TypeOK ==
    /\ pc \in [Conns -> PCs]
    /\ socket \in [Conns -> {"none", "open", "closed"}]
    /\ bySub \in [Subjects -> 0..PerSubject]
    /\ byIP \in [Addrs -> 0..PerIP]
    /\ clients \subseteq Conns
    /\ phase \in Phases
    /\ told \subseteq Conns
    /\ toClose \subseteq Conns

Init ==
    /\ pc = [c \in Conns |-> "arrive"]
    /\ socket = [c \in Conns |-> "none"]
    /\ bySub = [s \in Subjects |-> 0]
    /\ byIP = [a \in Addrs |-> 0]
    /\ clients = {}
    /\ phase = "up" /\ told = {} /\ toClose = {}

Goto(c, p) == pc' = [pc EXCEPT ![c] = p]
Running == phase # "exited"
Draining == phase # "up"      \* drainCh is closed

-----------------------------------------------------------------------------
(* ServeWS *)

\* The drain check, then the token: 503, 401 or on to the limiter.
Arrive(c) ==
    /\ Running /\ pc[c] = "arrive"
    /\ \/ ~Draining /\ Goto(c, "acquire")
       \/ Goto(c, "done")
    /\ UNCHANGED <<socket, quota, clients, shutdown>>

\* Limiter.Acquire: both caps are checked before either counter moves.
Acquire(c) ==
    LET s == SubOf[c]
        a == IpOf[c]
        ok == bySub[s] < PerSubject /\ byIP[a] < PerIP
    IN
    /\ Running /\ pc[c] = "acquire"
    /\ \/ /\ ok /\ Goto(c, "accept")
          /\ bySub' = [bySub EXCEPT ![s] = @ + 1]
          /\ byIP' = [byIP EXCEPT ![a] = @ + 1]
       \/ ~ok /\ Goto(c, "refuse") /\ UNCHANGED quota
    /\ UNCHANGED <<socket, clients, shutdown>>

\* Mutant of Release: the address side is forgotten.
ReleaseSubjectOnly(c) ==
    /\ bySub' = [bySub EXCEPT ![SubOf[c]] = IF @ > 0 THEN @ - 1 ELSE 0]
    /\ UNCHANGED byIP

\* Limiter.Release: both counters, each clamped at zero.
Release(c) ==
    /\ bySub' = [bySub EXCEPT ![SubOf[c]] = IF @ > 0 THEN @ - 1 ELSE 0]
    /\ byIP' = [byIP EXCEPT ![IpOf[c]] = IF @ > 0 THEN @ - 1 ELSE 0]

\* The refused branch: accept, close with 1008, and Release, acquired or not.
Refuse(c) ==
    /\ Running /\ pc[c] = "refuse"
    /\ Release(c)
    /\ Goto(c, "turnedAway")
    /\ UNCHANGED <<socket, clients, shutdown>>

\* websocket.Accept; when it fails ServeWS returns before the defer is set.
Accept(c) ==
    /\ Running /\ pc[c] = "accept"
    /\ \/ Goto(c, "add") /\ socket' = [socket EXCEPT ![c] = "open"]
       \/ Goto(c, "upgradeFailed") /\ UNCHANGED socket
    /\ UNCHANGED <<quota, clients, shutdown>>

\* Hub.Add; then the read and write loops run.
Add(c) ==
    /\ Running /\ pc[c] = "add"
    /\ clients' = clients \cup {c}
    /\ Goto(c, "serving")
    /\ UNCHANGED <<socket, quota, shutdown>>

\* The peer leaves, a read fails or a ping goes unanswered, at any time.
PeerLeaves(c) ==
    /\ Running /\ socket[c] = "open"
    /\ socket' = [socket EXCEPT ![c] = "closed"]
    /\ UNCHANGED <<pc, quota, clients, shutdown>>

\* readLoop returns because the socket is closed; the deferred Hub.Remove.
Remove(c) ==
    /\ Running /\ pc[c] = "serving" /\ socket[c] = "closed"
    /\ clients' = clients \ {c}
    /\ Goto(c, "release")
    /\ UNCHANGED <<socket, quota, shutdown>>

\* The deferred Release.
ReleaseAtEnd(c) ==
    /\ Running /\ pc[c] = "release"
    /\ Release(c)
    /\ Goto(c, "done")
    /\ UNCHANGED <<socket, clients, shutdown>>

-----------------------------------------------------------------------------
(* main, from SIGTERM on *)

Main(from, to) == phase = from /\ phase' = to

\* <-stop, close(drainCh)
Signal == Main("up", "notify") /\ UNCHANGED <<pc, socket, quota, clients, told, toClose>>

\* BroadcastShutdown: a client whose send buffer is full misses the notice.
BroadcastShutdown ==
    /\ Main("notify", "draining")
    /\ told' \in SUBSET clients
    /\ UNCHANGED <<pc, socket, quota, clients, toClose>>

\* Mutant of Drain: only an empty hub ends the loop.
DrainWithoutDeadline ==
    /\ Main("draining", "stopping") /\ clients = {}
    /\ UNCHANGED <<pc, socket, quota, clients, told, toClose>>

\* Mutant of Drain: at the deadline it returns without forceClose.
DrainWithoutForce ==
    /\ Main("draining", "stopping")
    /\ UNCHANGED <<pc, socket, quota, clients, told, toClose>>

\* Drain looks at the hub: empty ends it, the deadline turns to forceClose.
Drain ==
    /\ \/ Main("draining", "stopping") /\ clients = {}
       \/ Main("draining", "force") /\ clients # {}
    /\ UNCHANGED <<pc, socket, quota, clients, told, toClose>>

\* forceClose: the snapshot, taken under a lock of its own ...
ForceClose ==
    /\ Main("force", "closing")
    /\ toClose' = clients
    /\ UNCHANGED <<pc, socket, quota, clients, told>>

\* ... one goroutine per client that closes its socket ...
CloseOne(c) ==
    /\ phase = "closing" /\ c \in toClose
    /\ socket' = [socket EXCEPT ![c] = "closed"]
    /\ toClose' = toClose \ {c}
    /\ UNCHANGED <<pc, quota, clients, phase, told>>

\* ... and wg.Wait.
AllClosed ==
    /\ Main("closing", "stopping") /\ toClose = {}
    /\ UNCHANGED <<pc, socket, quota, clients, told, toClose>>

\* srv.Shutdown, which does not wait for hijacked connections; then main returns.
Exit == Main("stopping", "exited") /\ UNCHANGED <<pc, socket, quota, clients, told, toClose>>

-----------------------------------------------------------------------------
ServeWS(c) ==
    \/ Arrive(c) \/ Acquire(c) \/ Refuse(c) \/ Accept(c) \/ Add(c) \/ Remove(c) \/ ReleaseAtEnd(c)
MainStep ==
    \/ BroadcastShutdown \/ Drain \/ ForceClose \/ (\E c \in Conns : CloseOne(c))
    \/ AllClosed \/ Exit

Next ==
    \/ \E c \in Conns : ServeWS(c) \/ PeerLeaves(c)
    \/ Signal
    \/ MainStep

Spec == Init /\ [][Next]_vars

\* Goroutines are scheduled and Drain's deadline passes.  Peers need never leave
\* and the signal need never come.
FairSpec == Spec /\ WF_vars(MainStep) /\ \A c \in Conns : WF_vars(ServeWS(c))

-----------------------------------------------------------------------------
(* Properties *)

\* How far one side of the limiter can be off (limiter.go, and the calls of
\* ServeWS): a counter never exceeds the connections that hold quota plus those
\* whose upgrade failed, and falls short of them at most by the releases made
\* for refused requests.
Accounted(count, key, keys) ==
    \A k \in keys :
        /\ count[k] <= HowMany(Holding \cup {"upgradeFailed"}, key, k)
        /\ HowMany(Holding \cup {"upgradeFailed"}, key, k)
             <= count[k] + HowMany({"turnedAway"}, key, k)

\* Both counters are accounted for, whatever the order of upgrades, failures,
\* refusals and disconnections.
QuotaIsAccounted == Accounted(bySub, SubOf, Subjects) /\ Accounted(byIP, IpOf, Addrs)

\* Hence a subject or an address exceeds its cap by at most one connection per
\* refused request, and not at all while nobody has been refused.
OverrunIsBounded ==
    /\ \A s \in Subjects : HowMany(Holding, SubOf, s) <= PerSubject + HowMany({"turnedAway"}, SubOf, s)
    /\ \A a \in Addrs : HowMany(Holding, IpOf, a) <= PerIP + HowMany({"turnedAway"}, IpOf, a)

\* A client that was registered when the shutdown was broadcast has left or been
\* closed when the process exits, however slow it is to disconnect (drain.go).
ToldClientsAreClosed == phase = "exited" => \A c \in told : socket[c] = "closed"

\* The limiter and the shutdown together, over states of the right types: quota is
\* accounted for, no cap is overrun but by refusals, and nobody told is left connected.
ConnectionsAreSound ==
    TypeOK /\ QuotaIsAccounted /\ OverrunIsBounded /\ ToldClientsAreClosed

\* After SIGTERM the process exits although peers may never leave.
ShutdownCompletes == phase = "notify" ~> phase = "exited"
=============================================================================
