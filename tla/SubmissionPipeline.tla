------------------------- MODULE SubmissionPipeline -------------------------
(***************************************************************************)
(* A submission from POST /api/submissions to its verdict: the web route   *)
(* (api/submissions/route.ts), the judge-submission handler that runs on   *)
(* the WorkerQueue (lib/submission-jobs.ts), its HTTP call to the judge    *)
(* (services/judge.ts) and the dead-letter sweeper of submissions-go       *)
(* (internal/queue/queue.go), which share the row's status column.         *)
(*                                                                         *)
(* A row is enqueued once, by the request that created it, so the job is   *)
(* named by its row.  Every await of the handler ends a step: pc[s] is the *)
(* statement the handler of s waits on.  A Prisma call may fail before or  *)
(* after the database applied it (the reply is lost): both are modelled.   *)
(***************************************************************************)
EXTENDS Naturals, Sequences, FiniteSets

CONSTANTS
    Submissions,     \* the rows users will create
    Verdicts,        \* statuses the judge's answer is classified into
    Concurrency, MaxAttempts,
    StuckThreshold,  \* Sweeper.StuckThreshold, in ticks
    FetchTimeout,    \* FETCH_TIMEOUT_MS, in ticks
    Budget           \* how often each disturbance may happen

Disturbances == {"crash", "insert", "db", "outage", "busy", "delete"}

\* The budget of the checked instance, a fault of every kind: an outage and a database error
\* use up two attempts.
EveryFault == [d \in Disturbances |-> 1]

ASSUME PipelineAssumption ==
    /\ IsFiniteSet(Submissions)
    /\ Concurrency \in Nat \ {0} /\ MaxAttempts \in Nat \ {0}
    /\ "runtime_error" \in Verdicts
    /\ Verdicts \cap {"absent", "queued", "judging", "failed", "deleted", "pending"} = {}
    /\ StuckThreshold \in Nat
    /\ FetchTimeout \in Nat \ {0}
    /\ Budget \in [Disturbances -> Nat]

VARIABLES
    stage, queue, attempts, inflight, pendingRetries,   \* the WorkerQueue
    row,          \* Submission.status
    posting,      \* requests that created their row and have not enqueued it
    pc,           \* where the handler of s is
    update,       \* the handler's local variable of that name: the status to write
    age,          \* ticks since createdAt, saturating
    callFor,      \* ticks since the handler called the judge
    queueDepth,   \* the sweeper's gauge submissions_queue_depth
    faults        \* disturbances so far

queueVars == <<stage, queue, attempts, inflight, pendingRetries>>
clockVars == <<age, callFor>>
vars == <<queueVars, row, posting, pc, update, clockVars, queueDepth, faults>>

Q == INSTANCE WorkerQueue WITH Jobs <- Submissions
Lifecycle == INSTANCE SubmissionLifecycle

Positions == {"idle", "find", "claim", "exec", "rollback", "write"}
Exists == {s \in Submissions : row[s] \notin {"absent", "deleted"}}
Old == StuckThreshold + 1     \* the age at which the clocks saturate

TypeOK ==
    /\ Q!TypeOK
    /\ row \in [Submissions -> Lifecycle!Statuses]
    /\ posting \subseteq Submissions
    /\ pc \in [Submissions -> Positions]
    /\ update \in [Submissions -> Verdicts]
    /\ age \in [Submissions -> 0..Old]
    /\ callFor \in [Submissions -> 0..FetchTimeout]
    /\ queueDepth \in Nat
    /\ faults \in [Disturbances -> Nat]

Init ==
    /\ Q!Init
    /\ row = [s \in Submissions |-> "absent"]
    /\ posting = {}
    /\ pc = [s \in Submissions |-> "idle"]
    /\ update = [s \in Submissions |-> "runtime_error"]
    /\ age = [s \in Submissions |-> 0]
    /\ callFor = [s \in Submissions |-> 0]
    /\ queueDepth = 0
    /\ faults = [d \in Disturbances |-> 0]

Disturb(d) ==
    /\ faults[d] < Budget[d]
    /\ faults' = [faults EXCEPT ![d] = @ + 1]

-----------------------------------------------------------------------------
(* The handler and its queue *)

\* Handlers after a queue step that left the positions p: pump() may have started one.
HandlersFrom(p) ==
    [s \in Submissions |-> CASE stage'[s] # "running" -> "idle"
                             [] stage'[s] = "running" /\ p[s] = "idle" -> "find"
                             [] OTHER -> p[s]]

Return(s) == Q!Resolve(s) /\ pc' = HandlersFrom([pc EXCEPT ![s] = "idle"])
Throw(s) == Q!Reject(s) /\ pc' = HandlersFrom([pc EXCEPT ![s] = "idle"])
Goto(s, p) == pc' = [pc EXCEPT ![s] = p] /\ UNCHANGED queueVars

SetRow(s, st) == row' = [row EXCEPT ![s] = st]

\* POST: the INSERT committed; a lost reply makes the route answer 500 and never enqueue.
PostCreate(s) ==
    /\ row[s] = "absent"
    /\ SetRow(s, "queued")
    /\ \/ posting' = posting \cup {s} /\ UNCHANGED faults
       \/ Disturb("insert") /\ UNCHANGED posting
    /\ UNCHANGED <<queueVars, pc, update, clockVars, queueDepth>>

\* POST: enqueueJudgeSubmission, then 202.
PostEnqueue(s) ==
    /\ s \in posting
    /\ posting' = posting \ {s}
    /\ Q!Enqueue(s)
    /\ pc' = HandlersFrom(pc)
    /\ UNCHANGED <<row, update, clockVars, queueDepth, faults>>

\* The retry timer re-queues the job.
Retry(s) ==
    /\ Q!RetryTimer(s)
    /\ pc' = HandlersFrom(pc)
    /\ UNCHANGED <<row, posting, update, clockVars, queueDepth, faults>>

\* Mutant of Find: the "already past queued" check is dropped with the claim.
FindAlwaysJudges(s) ==
    /\ pc[s] = "find"
    /\ \/ row[s] # "deleted" /\ Goto(s, "exec") /\ UNCHANGED faults
       \/ row[s] = "deleted" /\ Return(s) /\ UNCHANGED faults
       \/ Disturb("db") /\ Throw(s)
    /\ UNCHANGED <<row, posting, update, clockVars, queueDepth>>

\* findUnique: gone or already past queued means there is nothing to do.
Find(s) ==
    /\ pc[s] = "find"
    /\ \/ row[s] = "queued" /\ Goto(s, "claim") /\ UNCHANGED faults
       \/ row[s] # "queued" /\ Return(s) /\ UNCHANGED faults
       \/ Disturb("db") /\ Throw(s)
    /\ UNCHANGED <<row, posting, update, clockVars, queueDepth>>

\* Mutant of Claim: a failed claim is swallowed instead of thrown.
ClaimSwallowsErrors(s) ==
    /\ pc[s] = "claim"
    /\ \/ /\ row[s] = "queued" /\ SetRow(s, "judging")
          /\ Goto(s, "exec") /\ UNCHANGED faults
       \/ Disturb("db") /\ Return(s) /\ UNCHANGED row
    /\ UNCHANGED <<posting, update, clockVars, queueDepth>>

\* updateMany queued -> judging; count 0 means somebody else has the row.
Claim(s) ==
    /\ pc[s] = "claim"
    /\ \/ /\ row[s] = "queued" /\ SetRow(s, "judging")
          /\ \/ Goto(s, "exec") /\ UNCHANGED faults
             \/ Disturb("db") /\ Throw(s)          \* applied, but the reply is lost
       \/ /\ row[s] # "queued" /\ Return(s)
          /\ UNCHANGED <<row, faults>>
       \/ Disturb("db") /\ Throw(s) /\ UNCHANGED row
    /\ UNCHANGED <<posting, update, clockVars, queueDepth>>

\* executeCode and the try block: a verdict, an unreachable judge (abort after
\* FETCH_TIMEOUT_MS included), or any other error, an HTTP 429 or 503 included.
Exec(s) ==
    /\ pc[s] = "exec"
    /\ \/ /\ \E v \in Verdicts : update' = [update EXCEPT ![s] = v]
          /\ Goto(s, "write") /\ UNCHANGED faults
       \/ Disturb("outage") /\ Goto(s, "rollback") /\ UNCHANGED update
       \/ /\ Disturb("busy") /\ Goto(s, "write")
          /\ update' = [update EXCEPT ![s] = "runtime_error"]
    /\ callFor' = [callFor EXCEPT ![s] = 0]
    /\ UNCHANGED <<row, posting, age, queueDepth>>

\* Mutant of Rollback: the rollback is missing, so no retry can claim the row again.
RollbackForgotten(s) ==
    /\ pc[s] = "rollback"
    /\ Throw(s)
    /\ UNCHANGED <<row, posting, update, clockVars, queueDepth, faults>>

\* The catch block for JudgeUnavailableError: updateMany judging -> queued, then throw.
Rollback(s) ==
    /\ pc[s] = "rollback"
    /\ \/ SetRow(s, IF row[s] = "judging" THEN "queued" ELSE row[s]) /\ UNCHANGED faults
       \/ Disturb("db") /\ UNCHANGED row
    /\ Throw(s)
    /\ UNCHANGED <<posting, update, clockVars, queueDepth>>

\* The final update, by id only: it throws when the row is gone.
Write(s) ==
    /\ pc[s] = "write"
    /\ \/ /\ row[s] # "deleted" /\ SetRow(s, update[s])
          /\ \/ Return(s) /\ UNCHANGED faults
             \/ Disturb("db") /\ Throw(s)          \* applied, but the reply is lost
       \/ row[s] = "deleted" /\ Throw(s) /\ UNCHANGED <<row, faults>>
       \/ Disturb("db") /\ Throw(s) /\ UNCHANGED row
    /\ UNCHANGED <<posting, update, clockVars, queueDepth>>

\* The web process restarts: queue, handlers and half-done requests are gone.
Crash ==
    /\ Disturb("crash")
    /\ Q!Crash
    /\ pc' = [s \in Submissions |-> "idle"]
    /\ posting' = {}
    /\ callFor' = [s \in Submissions |-> 0]
    /\ UNCHANGED <<row, update, age, queueDepth>>

-----------------------------------------------------------------------------
(* The rest of the world *)

\* An admin deletes the user or the problem; the schema cascades to the row.
DeleteRow(s) ==
    /\ s \in Exists
    /\ Disturb("delete")
    /\ SetRow(s, "deleted")
    /\ UNCHANGED <<queueVars, posting, pc, update, clockVars, queueDepth>>

Stuck(s) == row[s] = "judging" /\ age[s] > StuckThreshold

\* Mutant of SweepOnce: the sweep looks for 'pending' like the gauge does.
SweepPending ==
    /\ queueDepth' = Cardinality({s \in Submissions : row[s] = "pending"})
    /\ UNCHANGED <<queueVars, row, posting, pc, update, clockVars, faults>>

\* tickOnce: refresh the gauge, then one UPDATE over every stuck row.
SweepOnce ==
    /\ queueDepth' = Cardinality({s \in Submissions : row[s] = "pending"})
    /\ row' = [s \in Submissions |-> IF Stuck(s) THEN "failed" ELSE row[s]]
    /\ UNCHANGED <<queueVars, posting, pc, update, clockVars, faults>>

\* Time passes, but a judge call never outlives its AbortController.
Tick ==
    /\ \E s \in Exists : age[s] < Old
    /\ \A s \in Submissions : pc[s] = "exec" => callFor[s] < FetchTimeout
    /\ age' = [s \in Submissions |-> IF s \in Exists /\ age[s] < Old THEN age[s] + 1 ELSE age[s]]
    /\ callFor' = [s \in Submissions |-> IF pc[s] = "exec" THEN callFor[s] + 1 ELSE callFor[s]]
    /\ UNCHANGED <<queueVars, row, posting, pc, update, queueDepth, faults>>

-----------------------------------------------------------------------------
Handler(s) == Find(s) \/ Claim(s) \/ Exec(s) \/ Rollback(s) \/ Write(s)

Next ==
    \/ \E s \in Submissions :
         PostCreate(s) \/ PostEnqueue(s) \/ Retry(s) \/ Handler(s) \/ DeleteRow(s)
    \/ Crash
    \/ SweepOnce
    \/ Tick

Spec == Init /\ [][Next]_vars

\* Node runs every continuation and every armed timer; every await of the
\* handler ends (Prisma and fetch have timeouts); the sweeper's ticker keeps
\* ticking.  Nothing obliges users to post, admins to delete, or faults to happen.
FairSpec ==
    /\ Spec
    /\ WF_vars(SweepOnce) /\ WF_vars(Tick)
    /\ \A s \in Submissions :
         WF_vars(PostEnqueue(s)) /\ WF_vars(Retry(s)) /\ WF_vars(Handler(s))

-----------------------------------------------------------------------------
(* Properties *)

\* Past its claim a handler never finds its row queued, absent or already judged:
\* nobody else can claim it or write a verdict the handler would overwrite,
\* although the final update of submission-jobs.ts is not guarded by the status.
ClaimIsExclusive ==
    \A s \in Submissions :
        pc[s] \in {"exec", "rollback", "write"} => row[s] \in {"judging", "failed", "deleted"}

\* A job the queue counts as processed leaves no row waiting for a worker,
\* whichever early return or database fault its attempts went through.
ProcessedMeansTaken ==
    \A s \in Submissions : stage[s] = "processed" => row[s] \notin {"absent", "queued"}

\* Without database faults and restarts a row is "judging" only while its own
\* handler is between claim and final update: outages and sweeps strand nothing.
StrandedOnlyByFaults ==
    (faults["db"] = 0 /\ faults["crash"] = 0) =>
        \A s \in Submissions :
            row[s] = "judging" => pc[s] \in {"exec", "rollback", "write"}

\* Every row is accounted for: a processed job had an outcome, and a row is left in judging
\* by faults only.
RowsAreAccounted == ProcessedMeansTaken /\ StrandedOnlyByFaults

\* A verdict is final: no retry, redelivery after a lost reply, or sweep changes it.
VerdictIsFinal ==
    [][\A s \in Submissions : row[s] \in Verdicts => row'[s] \in {row[s], "deleted"}]_vars

\* The rows only ever go through the life cycle of SubmissionLifecycle.
ImplementsLifecycle == Lifecycle!Spec

\* However its worker is lost, no row stays "judging" for ever.
JudgingEnds == \A s \in Submissions : row[s] = "judging" ~> row[s] # "judging"

\* A created submission reaches a verdict, is swept or is deleted, as long as the process
\* stays up, the INSERT's reply arrives and fewer attempts fail than the queue makes: no
\* order of outages, retries, half-applied updates and sweeps loses the row otherwise.
SettlesUnlessDisturbed ==
    \A s \in Submissions :
        row[s] = "queued" ~> \/ row[s] \in Verdicts \cup {"failed", "deleted"}
                            \/ faults["crash"] > 0 \/ faults["insert"] > 0
                            \/ faults["db"] + faults["outage"] >= MaxAttempts
=============================================================================
