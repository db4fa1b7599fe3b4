--------------------------- MODULE JudgeScheduler ---------------------------
(***************************************************************************)
(* Admission to the judge (judge-service): executeHandler with its rate    *)
(* limiter and early answers, and scheduler.Acquire / release.             *)
(*                                                                         *)
(* Each request is a goroutine.  A buffered channel used as a semaphore is *)
(* its length: a send waits while it is full, a receive takes one out.     *)
(* Every channel operation and every critical section is a step of its     *)
(* own, so a release is three steps other requests can come between.       *)
(* A select whose cases are ready together picks any of them.              *)
(***************************************************************************)
EXTENDS Naturals, FiniteSets

CONSTANTS
    Requests,
    Keys,        \* the strings executeHandler calls ip
    KeyOf,       \* the key of each request
    GlobalMax, PerIPMax,   \* concurrencyConfig
    RateLimit    \* rateLimitRequests

\* KeyOf of the checked instance, where requests and keys are numbers: the first client sends
\* two requests, the others one each.
ThreeClients == [r \in Requests |-> IF r = 1 THEN 1 ELSE r - 1]

ASSUME SchedulerAssumption ==
    /\ IsFiniteSet(Requests)
    /\ KeyOf \in [Requests -> Keys]
    /\ GlobalMax \in Nat \ {0}
    /\ PerIPMax \in Nat \ {0}
    /\ RateLimit \in Nat \ {0}

VARIABLES
    pc,              \* where the goroutine of each request is
    answer,          \* what it has written to the client
    windowCount,     \* rateLimiter.records: requests counted in the open window, 0 if none
    global,          \* len(s.global)
    ipSlot,          \* len(s.perIP[ip])
    inflightByIP,
    totalAccepted, totalRejected, currentInUse

slots == <<global, ipSlot>>
telemetry == <<inflightByIP, totalAccepted, totalRejected, currentInUse>>
vars == <<pc, answer, windowCount, slots, telemetry>>

PCs == {"arrive", "waitIp", "waitGlobal", "count", "running", "release",
        "releaseIp", "uncount", "dropIp", "reject", "done"}
Answers == {"none", "ok", "busy", "rate_limited", "refused"}

At(ps) == {r \in Requests : pc[r] \in ps}
AtKey(ps, k) == {r \in Requests : pc[r] \in ps /\ KeyOf[r] = k}

HoldsIp == {"waitGlobal", "count", "running", "release", "releaseIp", "dropIp"}
HoldsGlobal == {"count", "running", "release"}
Counted == {"running", "release", "releaseIp", "uncount"}

TypeOK ==
    /\ pc \in [Requests -> PCs]
    /\ answer \in [Requests -> Answers]
    /\ windowCount \in [Keys -> 0..RateLimit]
    /\ global \in 0..GlobalMax
    /\ ipSlot \in [Keys -> 0..PerIPMax]
    /\ inflightByIP \in [Keys -> Nat]
    /\ totalAccepted \in Nat /\ totalRejected \in Nat /\ currentInUse \in Nat

Init ==
    /\ pc = [r \in Requests |-> "arrive"]
    /\ answer = [r \in Requests |-> "none"]
    /\ windowCount = [k \in Keys |-> 0]
    /\ global = 0
    /\ ipSlot = [k \in Keys |-> 0]
    /\ inflightByIP = [k \in Keys |-> 0]
    /\ totalAccepted = 0 /\ totalRejected = 0 /\ currentInUse = 0

Goto(r, p) == pc' = [pc EXCEPT ![r] = p]
Say(r, a) == answer' = [answer EXCEPT ![r] = a]

-----------------------------------------------------------------------------
(* executeHandler up to Acquire *)

\* rl.Allow: an absent or ended window starts over at one, a full one refuses;
\* then the request is refused as malformed or unsafe, or goes on to Acquire.
Arrive(r) ==
    LET k == KeyOf[r] IN
    /\ pc[r] = "arrive"
    /\ \/ /\ windowCount[k] >= RateLimit
          /\ Say(r, "rate_limited") /\ Goto(r, "done")
          /\ UNCHANGED windowCount
       \/ /\ windowCount[k] < RateLimit
          /\ windowCount' = [windowCount EXCEPT ![k] = @ + 1]
          /\ \/ Goto(r, "waitIp") /\ UNCHANGED answer
             \/ Say(r, "refused") /\ Goto(r, "done")
    /\ UNCHANGED <<slots, telemetry>>

\* The window of a key ends; the periodic cleanup only deletes such records.
WindowEnds(k) ==
    /\ windowCount[k] > 0
    /\ windowCount' = [windowCount EXCEPT ![k] = 0]
    /\ UNCHANGED <<pc, answer, slots, telemetry>>

-----------------------------------------------------------------------------
(* Acquire *)

\* case ipSlot <- struct{}{}
TakeIp(r) ==
    /\ pc[r] = "waitIp"
    /\ ipSlot[KeyOf[r]] < PerIPMax
    /\ ipSlot' = [ipSlot EXCEPT ![KeyOf[r]] = @ + 1]
    /\ Goto(r, "waitGlobal")
    /\ UNCHANGED <<answer, windowCount, global, telemetry>>

\* case <-deadline.C or <-ctx.Done() of the first select
GiveUpIp(r) ==
    /\ pc[r] = "waitIp"
    /\ Goto(r, "reject")
    /\ UNCHANGED <<answer, windowCount, slots, telemetry>>

\* case s.global <- struct{}{}
TakeGlobal(r) ==
    /\ pc[r] = "waitGlobal"
    /\ global < GlobalMax
    /\ global' = global + 1
    /\ Goto(r, "count")
    /\ UNCHANGED <<answer, windowCount, ipSlot, telemetry>>

\* Mutant of GiveUpGlobal: returns without <-ipSlot.
GiveUpGlobalKeepingIp(r) ==
    /\ pc[r] = "waitGlobal"
    /\ Goto(r, "reject")
    /\ UNCHANGED <<answer, windowCount, slots, telemetry>>

\* case <-deadline.C or <-ctx.Done() of the second select
GiveUpGlobal(r) ==
    /\ pc[r] = "waitGlobal"
    /\ Goto(r, "dropIp")
    /\ UNCHANGED <<answer, windowCount, slots, telemetry>>

\* <-ipSlot on the way out of the second select
DropIp(r) ==
    /\ pc[r] = "dropIp"
    /\ ipSlot[KeyOf[r]] > 0
    /\ ipSlot' = [ipSlot EXCEPT ![KeyOf[r]] = @ - 1]
    /\ Goto(r, "reject")
    /\ UNCHANGED <<answer, windowCount, global, telemetry>>

\* recordReject, then the 503
Reject(r) ==
    /\ pc[r] = "reject"
    /\ totalRejected' = totalRejected + 1
    /\ Say(r, "busy") /\ Goto(r, "done")
    /\ UNCHANGED <<windowCount, slots, inflightByIP, totalAccepted, currentInUse>>

\* The critical section at the end of Acquire; the executions start.
Count(r) ==
    /\ pc[r] = "count"
    /\ inflightByIP' = [inflightByIP EXCEPT ![KeyOf[r]] = @ + 1]
    /\ totalAccepted' = totalAccepted + 1
    /\ currentInUse' = currentInUse + 1
    /\ Goto(r, "running")
    /\ UNCHANGED <<answer, windowCount, slots, totalRejected>>

-----------------------------------------------------------------------------
(* The executions end; the answer is written before the deferred release runs. *)

Answer(r) ==
    /\ pc[r] = "running"
    /\ Say(r, "ok") /\ Goto(r, "release")
    /\ UNCHANGED <<windowCount, slots, telemetry>>

\* <-s.global
ReleaseGlobal(r) ==
    /\ pc[r] = "release"
    /\ global > 0
    /\ global' = global - 1
    /\ Goto(r, "releaseIp")
    /\ UNCHANGED <<answer, windowCount, ipSlot, telemetry>>

\* Mutant of ReleaseIp: the per-IP slot is not given back.
ReleaseIpForgotten(r) ==
    /\ pc[r] = "releaseIp"
    /\ Goto(r, "uncount")
    /\ UNCHANGED <<answer, windowCount, slots, telemetry>>

\* <-ipSlot
ReleaseIp(r) ==
    /\ pc[r] = "releaseIp"
    /\ ipSlot[KeyOf[r]] > 0
    /\ ipSlot' = [ipSlot EXCEPT ![KeyOf[r]] = @ - 1]
    /\ Goto(r, "uncount")
    /\ UNCHANGED <<answer, windowCount, global, telemetry>>

\* Mutant of Uncount: the per-IP entry is deleted while others of the IP still run.
UncountDeletesEntry(r) ==
    /\ pc[r] = "uncount"
    /\ inflightByIP' = [inflightByIP EXCEPT ![KeyOf[r]] = 0]
    /\ currentInUse' = currentInUse - 1
    /\ Goto(r, "done")
    /\ UNCHANGED <<answer, windowCount, slots, totalAccepted, totalRejected>>

\* The critical section of release; an entry that reaches zero is deleted.
Uncount(r) ==
    /\ pc[r] = "uncount"
    /\ inflightByIP' = [inflightByIP EXCEPT ![KeyOf[r]] = @ - 1]
    /\ currentInUse' = currentInUse - 1
    /\ Goto(r, "done")
    /\ UNCHANGED <<answer, windowCount, slots, totalAccepted, totalRejected>>

-----------------------------------------------------------------------------
\* The steps a request takes when nobody gives up.
Progress(r) ==
    \/ Arrive(r) \/ TakeIp(r) \/ TakeGlobal(r) \/ Count(r) \/ Answer(r)
    \/ ReleaseGlobal(r) \/ ReleaseIp(r) \/ Uncount(r) \/ DropIp(r) \/ Reject(r)

Next ==
    \/ \E r \in Requests : Progress(r) \/ GiveUpIp(r) \/ GiveUpGlobal(r)
    \/ \E k \in Keys : WindowEnds(k)

Spec == Init /\ [][Next]_vars

\* Goroutines are scheduled and executions end (each process has a hard
\* timeout).  The QueueWait deadline is NOT assumed to fire.
FairSpec == Spec /\ \A r \in Requests : WF_vars(Progress(r))

-----------------------------------------------------------------------------
(* Properties *)

\* The caps hold for the executions themselves, while releases, time-outs and
\* cancellations of other requests are half done (scheduler.go Acquire, release).
ExecutionsAreCapped ==
    /\ Cardinality(At({"running"})) <= GlobalMax
    /\ \A k \in Keys : Cardinality(AtKey({"running"}, k)) <= PerIPMax

\* Every slot in a channel belongs to exactly one request that will still take
\* it out: no path through the two selects and release leaks or doubles one.
SlotsAreExact ==
    /\ global = Cardinality(At(HoldsGlobal))
    /\ \A k \in Keys : ipSlot[k] = Cardinality(AtKey(HoldsIp, k))

\* What /health reports is exact between critical sections: the load is the
\* requests counted and not yet uncounted, in total and per IP, and every
\* Acquire that ended is counted once as accepted or as rejected.
SnapshotIsExact ==
    /\ currentInUse = Cardinality(At(Counted))
    /\ \A k \in Keys : inflightByIP[k] = Cardinality(AtKey(Counted, k))
    /\ totalAccepted = Cardinality({r \in Requests : pc[r] \in Counted \/ answer[r] = "ok"})
    /\ totalRejected = Cardinality({r \in Requests : answer[r] = "busy"})

\* What admission holds and what it reports is what the requests are doing.
AdmissionIsExact == SlotsAreExact /\ SnapshotIsExact

\* Every request is answered although no deadline is assumed to fire: taking the
\* per-IP slot before the global one cannot deadlock, and nothing leaks a slot.
EveryRequestAnswered == \A r \in Requests : <>(answer[r] # "none")
=============================================================================
