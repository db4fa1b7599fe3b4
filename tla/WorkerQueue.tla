---------------------------- MODULE WorkerQueue ----------------------------
(***************************************************************************)
(* The in-process background queue of the web tier (src/lib/queue.ts).     *)
(*                                                                         *)
(* One Node process owns one WorkerQueue.  JavaScript runs a callback to   *)
(* completion, so each of enqueue(), the tail of run() and the retry timer *)
(* is ONE step, the pump() it ends with included.  A job's handler is      *)
(* asynchronous: it starts in the step that shifts the job and settles in  *)
(* a later step (Resolve or Reject).                                       *)
(*                                                                         *)
(* pump() is a while loop, but one iteration always suffices: every step   *)
(* adds at most one job to the queue or frees at most one slot, and before *)
(* the step the loop condition was false.  That is PumpFixpoint below.     *)
(***************************************************************************)
EXTENDS Naturals, Sequences, FiniteSets

CONSTANTS
    Jobs,          \* every job any incarnation of the process will enqueue
    Concurrency,   \* this.concurrency
    MaxAttempts    \* this.maxAttempts

\* The constructor clamps both options with Math.max(1, ...).
ASSUME QueueAssumption ==
    /\ IsFiniteSet(Jobs)
    /\ Concurrency \in Nat \ {0}
    /\ MaxAttempts \in Nat \ {0}

VARIABLES
    stage,           \* where each job is
    queue,           \* this.queue
    attempts,        \* job.attempts
    inflight,        \* this.inflight
    pendingRetries   \* this.pendingRetries

vars == <<stage, queue, attempts, inflight, pendingRetries>>

\* "lost": the process died while it still owed the job an outcome.
Stages == {"new", "waiting", "running", "backoff", "processed", "dead", "lost"}

InStage(st) == {j \in Jobs : stage[j] = st}
Running == InStage("running")
Backoff == InStage("backoff")

TypeOK ==
    /\ stage \in [Jobs -> Stages]
    /\ queue \in Seq(Jobs)
    /\ attempts \in [Jobs -> 0..MaxAttempts]
    /\ inflight \in Nat
    /\ pendingRetries \in Nat

Init ==
    /\ stage = [j \in Jobs |-> "new"]
    /\ queue = <<>>
    /\ attempts = [j \in Jobs |-> 0]
    /\ inflight = 0
    /\ pendingRetries = 0

\* Mutant of Pump: the loop compares with <= instead of <.
PumpOffByOne(st, q, n) ==
    IF n <= Concurrency /\ q # <<>>
    THEN /\ stage' = [st EXCEPT ![Head(q)] = "running"]
         /\ queue' = Tail(q)
         /\ inflight' = n + 1
         /\ attempts' = [attempts EXCEPT ![Head(q)] = @ + 1]
    ELSE /\ stage' = st
         /\ queue' = q
         /\ inflight' = n
         /\ UNCHANGED attempts

(***************************************************************************)
(* pump(): with st, q and n the values of stage, queue and inflight the    *)
(* calling code has just left behind, shift the oldest job into a free     *)
(* slot; run() counts the attempt and calls the handler synchronously.     *)
(***************************************************************************)
Pump(st, q, n) ==
    IF n < Concurrency /\ q # <<>>
    THEN /\ stage' = [st EXCEPT ![Head(q)] = "running"]
         /\ queue' = Tail(q)
         /\ inflight' = n + 1
         /\ attempts' = [attempts EXCEPT ![Head(q)] = @ + 1]
    ELSE /\ stage' = st
         /\ queue' = q
         /\ inflight' = n
         /\ UNCHANGED attempts

\* enqueue(type, payload)
Enqueue(j) ==
    /\ stage[j] = "new"
    /\ Pump([stage EXCEPT ![j] = "waiting"], Append(queue, j), inflight)
    /\ UNCHANGED pendingRetries

\* Mutant of Resolve: the finally block forgets inflight--.
ResolveKeepingSlot(j) ==
    /\ stage[j] = "running"
    /\ Pump([stage EXCEPT ![j] = "processed"], queue, inflight)
    /\ UNCHANGED pendingRetries

\* The handler's promise resolved: processed++, then the finally block.
Resolve(j) ==
    /\ stage[j] = "running"
    /\ Pump([stage EXCEPT ![j] = "processed"], queue, inflight - 1)
    /\ UNCHANGED pendingRetries

\* Mutant of Reject: the timer is armed without pendingRetries++.
RejectWithoutPending(j) ==
    /\ stage[j] = "running"
    /\ UNCHANGED pendingRetries
    /\ Pump([stage EXCEPT ![j] = IF attempts[j] < MaxAttempts
                                 THEN "backoff" ELSE "dead"],
            queue, inflight - 1)

\* The handler threw: arm a retry timer or dead-letter, then the finally block.
Reject(j) ==
    /\ stage[j] = "running"
    /\ \/ /\ attempts[j] < MaxAttempts
          /\ pendingRetries' = pendingRetries + 1
          /\ Pump([stage EXCEPT ![j] = "backoff"], queue, inflight - 1)
       \/ /\ attempts[j] >= MaxAttempts
          /\ UNCHANGED pendingRetries
          /\ Pump([stage EXCEPT ![j] = "dead"], queue, inflight - 1)

\* Mutant of RetryTimer: the job is pushed back but pump() is not called.
RetryTimerWithoutPump(j) ==
    /\ stage[j] = "backoff"
    /\ pendingRetries' = pendingRetries - 1
    /\ stage' = [stage EXCEPT ![j] = "waiting"]
    /\ queue' = Append(queue, j)
    /\ UNCHANGED <<inflight, attempts>>

\* The setTimeout callback of a retry.
RetryTimer(j) ==
    /\ stage[j] = "backoff"
    /\ pendingRetries' = pendingRetries - 1
    /\ Pump([stage EXCEPT ![j] = "waiting"], Append(queue, j), inflight)

\* The Node process dies and is restarted: the queue lives in its memory only.
Crash ==
    /\ stage' = [j \in Jobs |->
                   IF stage[j] \in {"waiting", "running", "backoff"}
                   THEN "lost" ELSE stage[j]]
    /\ queue' = <<>>
    /\ inflight' = 0
    /\ pendingRetries' = 0
    /\ UNCHANGED attempts

Next ==
    \/ \E j \in Jobs : Enqueue(j) \/ Resolve(j) \/ Reject(j) \/ RetryTimer(j)
    \/ Crash

Spec == Init /\ [][Next]_vars

-----------------------------------------------------------------------------
(* Safety *)

\* The concurrency cap holds for the handlers really running, not only for
\* the counter pump() compares (queue.ts pump() and the finally of run()).
ConcurrencyCap == Cardinality(Running) <= Concurrency

\* No slot idles while a job waits: after every step the condition of pump()'s
\* while loop is false, so no enqueue or timer is ever left unpumped.
PumpFixpoint == queue # <<>> => inflight >= Concurrency

\* drain() may only resolve when nothing is owed: if the three fields it polls
\* are all zero, no job is waiting, running or sleeping in a retry timer.
DrainIsHonest ==
    (queue = <<>> /\ inflight = 0 /\ pendingRetries = 0)
        => \A j \in Jobs : stage[j] \in {"new", "processed", "dead", "lost"}

\* A waiting job stands in the queue exactly once, and only waiting jobs do:
\* a retry never duplicates a job and a shift never loses one.
QueueIsExact ==
    /\ \A j \in Jobs : stage[j] = "waiting" <=> \E i \in DOMAIN queue : queue[i] = j
    /\ \A i, k \in DOMAIN queue : queue[i] = queue[k] => i = k

\* A job is dead-lettered only when it has used up every attempt, and a job
\* waiting for a retry has one left (the comparison in run()'s catch block).
RetriesExhausted ==
    \A j \in Jobs :
        /\ stage[j] = "dead" => attempts[j] = MaxAttempts
        /\ stage[j] = "backoff" => attempts[j] \in 1..(MaxAttempts - 1)

-----------------------------------------------------------------------------
(* Liveness.  Node's event loop runs every armed timer and every settled    *)
(* promise's continuation, so those steps are fair.  That a handler settles *)
(* is the handler's promise; here it is assumed (every await in the judge   *)
(* handler has a timeout).                                                  *)

FairSpec ==
    /\ Spec
    /\ \A j \in Jobs : WF_vars(RetryTimer(j)) /\ WF_vars(Resolve(j) \/ Reject(j))

\* Every enqueued job is eventually processed or dead-lettered, or dies with the
\* process: no job starves behind others, whatever the order of successes,
\* failures, retries and restarts.
EveryJobSettles ==
    \A j \in Jobs : stage[j] \in {"waiting", "running", "backoff"}
                      ~> stage[j] \in {"processed", "dead", "lost"}

=============================================================================
