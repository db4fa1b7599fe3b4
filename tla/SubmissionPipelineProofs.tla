----------------------- MODULE SubmissionPipelineProofs ---------------------
(***************************************************************************)
(* The submission pipeline implements SubmissionLifecycle, for any number  *)
(* of rows, any concurrency and any number of faults.                      *)
(*                                                                         *)
(* The final update of the handler and the rollback carry no proof of      *)
(* ownership in the database, so what makes them safe is ClaimIsExclusive: *)
(* it is inductive with the types of the four variables it mentions.  How  *)
(* the queue schedules handlers does not matter there, only that a queue   *)
(* step leaves every other handler where it is or puts it at its first     *)
(* line (QueueStepKeepsHandlers).                                          *)
(*                                                                         *)
(* RowsAreAccounted ties rows to jobs, so its invariant AInv follows the   *)
(* queue's stages too.  The pipeline is shown to drive WorkerQueue by      *)
(* WorkerQueue's own steps, which brings the theorems of WorkerQueueProofs *)
(* in.  The last part is about the services on Redis.                      *)
(***************************************************************************)
EXTENDS RedisServices, FiniteSetTheorems, SequenceTheorems, SubmissionPipeline, TLAPS

Claimed == {"exec", "rollback", "write"}

\* The inductive invariant.
PInv ==
    /\ row \in [Submissions -> Lifecycle!Statuses]
    /\ pc \in [Submissions -> Positions]
    /\ update \in [Submissions -> Verdicts]
    /\ ClaimIsExclusive

\* What a step does to the rows: nothing, or a step of the life cycle.
RowStep == UNCHANGED row \/ Lifecycle!Next

\* What a step does to the handlers of the rows other than s.
OthersKept(s) ==
    \A t \in Submissions \ {s} : pc'[t] \in Claimed => pc'[t] = pc[t]

-----------------------------------------------------------------------------
(* A queue step leaves a handler where p says, starts it or ends it. *)
LEMMA QueueStepKeepsHandlers ==
    ASSUME NEW p \in [Submissions -> Positions]
    PROVE  /\ HandlersFrom(p) \in [Submissions -> Positions]
           /\ \A t \in Submissions : HandlersFrom(p)[t] \in {"idle", "find", p[t]}
BY DEF HandlersFrom, Positions

(* Returning or throwing ends the handler of s and no other. *)
LEMMA SettleKeepsHandlers ==
    ASSUME PInv, NEW s \in Submissions, Return(s) \/ Throw(s)
    PROVE  /\ pc' \in [Submissions -> Positions]
           /\ pc'[s] \notin Claimed
           /\ OthersKept(s)
<1> DEFINE p == [pc EXCEPT ![s] = "idle"]
<1>1. p \in [Submissions -> Positions] /\ p[s] = "idle"
      /\ \A t \in Submissions \ {s} : p[t] = pc[t]
  BY DEF PInv, Positions
<1>2. pc' = HandlersFrom(p)
  BY DEF Return, Throw
<1>3. QED
  BY <1>1, <1>2, QueueStepKeepsHandlers DEF OthersKept, Claimed

(* Moving the handler of s moves no other. *)
LEMMA GotoKeepsHandlers ==
    ASSUME PInv, NEW s \in Submissions, NEW p \in Positions, Goto(s, p)
    PROVE  /\ pc' \in [Submissions -> Positions]
           /\ pc'[s] = p
           /\ OthersKept(s)
BY DEF PInv, Goto, OthersKept

-----------------------------------------------------------------------------
(* One row moves along an allowed edge. *)
LEMMA OneRowMoves ==
    ASSUME PInv, NEW s \in Submissions, NEW e \in Lifecycle!Statuses,
           SetRow(s, e), e = row[s] \/ <<row[s], e>> \in Lifecycle!Allowed
    PROVE  /\ row' \in [Submissions -> Lifecycle!Statuses]
           /\ row'[s] = e
           /\ \A t \in Submissions \ {s} : row'[t] = row[t]
           /\ Lifecycle!Next
<1>1. row \in [Submissions -> Lifecycle!Statuses]
  BY DEF PInv
<1>2. row' = [row EXCEPT ![s] = e]
  BY DEF SetRow
<1>3. /\ row' \in [Submissions -> Lifecycle!Statuses]
      /\ row'[s] = e
      /\ \A t \in Submissions \ {s} : row'[t] = row[t]
  BY <1>1, <1>2
<1>4. \A t \in Submissions : row'[t] = row[t] \/ <<row[t], row'[t]>> \in Lifecycle!Allowed
  BY <1>3
<1>5. Lifecycle!Next
  BY <1>3, <1>4 DEF Lifecycle!Next
<1>6. QED
  BY <1>3, <1>5

(* A handler step that keeps the others and leaves its own row consistent is safe. *)
LEMMA OwnRowSuffices ==
    ASSUME PInv, NEW s \in Submissions,
           row' \in [Submissions -> Lifecycle!Statuses],
           \A t \in Submissions \ {s} : row'[t] = row[t],
           pc' \in [Submissions -> Positions], OthersKept(s),
           pc'[s] \in Claimed => row'[s] \in {"judging", "failed", "deleted"},
           update' \in [Submissions -> Verdicts]
    PROVE  PInv'
<1>1. ASSUME NEW t \in Submissions, pc'[t] \in Claimed
      PROVE  row'[t] \in {"judging", "failed", "deleted"}
  BY <1>1 DEF PInv, ClaimIsExclusive, OthersKept, Claimed
<1>2. QED
  BY <1>1 DEF PInv, ClaimIsExclusive, Claimed

-----------------------------------------------------------------------------
(* The actions. *)

LEMMA PostCreateStep ==
    ASSUME PInv, NEW s \in Submissions, PostCreate(s)
    PROVE  PInv' /\ RowStep
<1>1. /\ "queued" \in Lifecycle!Statuses
      /\ <<row[s], "queued">> \in Lifecycle!Allowed
      /\ SetRow(s, "queued")
  BY DEF PostCreate, Lifecycle!Statuses, Lifecycle!Allowed
<1>2. pc' = pc /\ update' = update /\ pc[s] \notin Claimed
  BY DEF PostCreate, PInv, ClaimIsExclusive, Claimed
<1>3. QED
  BY <1>1, <1>2, OneRowMoves, OwnRowSuffices DEF PInv, RowStep, OthersKept

LEMMA PumpedStep ==
    ASSUME PInv, UNCHANGED <<row, update>>, pc' = HandlersFrom(pc)
    PROVE  PInv' /\ RowStep
<1>1. /\ pc' \in [Submissions -> Positions]
      /\ \A t \in Submissions : pc'[t] \in {"idle", "find", pc[t]}
  BY QueueStepKeepsHandlers DEF PInv
<1>2. ClaimIsExclusive'
  BY <1>1 DEF PInv, ClaimIsExclusive
<1>3. QED
  BY <1>1, <1>2 DEF PInv, RowStep

LEMMA FindStep ==
    ASSUME PInv, NEW s \in Submissions, Find(s)
    PROVE  PInv' /\ RowStep
<1>1. row' = row /\ update' = update
  BY DEF Find
<1>2. CASE Goto(s, "claim")
  <2>1. pc' \in [Submissions -> Positions] /\ pc'[s] = "claim" /\ OthersKept(s)
    BY <1>2, GotoKeepsHandlers DEF Positions
  <2>2. QED
    BY <1>1, <2>1, OwnRowSuffices DEF PInv, RowStep, Claimed
<1>3. CASE Return(s) \/ Throw(s)
  BY <1>1, <1>3, SettleKeepsHandlers, OwnRowSuffices DEF PInv, RowStep
<1>4. QED
  BY <1>2, <1>3 DEF Find

LEMMA ClaimStep ==
    ASSUME PInv, NEW s \in Submissions, Claim(s)
    PROVE  PInv' /\ RowStep
<1>1. update' = update
  BY DEF Claim
<1>2. CASE row' = row
  <2>1. Return(s) \/ Throw(s) \/ (row[s] = "queued" /\ SetRow(s, "judging"))
    BY DEF Claim
  <2>2. CASE Return(s) \/ Throw(s)
    BY <1>1, <1>2, <2>2, SettleKeepsHandlers, OwnRowSuffices DEF PInv, RowStep
  <2>3. CASE row[s] = "queued" /\ SetRow(s, "judging")
    BY <1>2, <2>3 DEF SetRow, PInv
  <2>4. QED
    BY <2>1, <2>2, <2>3
<1>3. CASE row[s] = "queued" /\ SetRow(s, "judging")
  <2>1. /\ row' \in [Submissions -> Lifecycle!Statuses] /\ row'[s] = "judging"
        /\ \A t \in Submissions \ {s} : row'[t] = row[t]
        /\ Lifecycle!Next
    BY <1>3, OneRowMoves DEF Lifecycle!Statuses, Lifecycle!Allowed
  <2>2. CASE Goto(s, "exec")
    <3>1. pc' \in [Submissions -> Positions] /\ OthersKept(s)
      BY <2>2, GotoKeepsHandlers DEF Positions
    <3>2. QED
      BY <1>1, <2>1, <3>1, OwnRowSuffices DEF PInv, RowStep
  <2>3. CASE Return(s) \/ Throw(s)
    BY <1>1, <2>1, <2>3, SettleKeepsHandlers, OwnRowSuffices DEF PInv, RowStep
  <2>4. QED
    BY <1>3, <2>2, <2>3 DEF Claim
<1>4. QED
  BY <1>2, <1>3 DEF Claim

LEMMA ExecStep ==
    ASSUME PInv, NEW s \in Submissions, Exec(s)
    PROVE  PInv' /\ RowStep
<1>1. row' = row /\ row[s] \in {"judging", "failed", "deleted"}
  BY DEF Exec, PInv, ClaimIsExclusive
<1>2. update' \in [Submissions -> Verdicts]
  BY PipelineAssumption DEF Exec, PInv
<1>3. Goto(s, "write") \/ Goto(s, "rollback")
  BY DEF Exec
<1>4. pc' \in [Submissions -> Positions] /\ OthersKept(s)
  BY <1>3, GotoKeepsHandlers DEF Positions
<1>5. QED
  BY <1>1, <1>2, <1>4, OwnRowSuffices DEF PInv, RowStep

LEMMA RollbackStep ==
    ASSUME PInv, NEW s \in Submissions, Rollback(s)
    PROVE  PInv' /\ RowStep
<1>1. update' = update /\ Throw(s)
  BY DEF Rollback
<1>2. pc' \in [Submissions -> Positions] /\ pc'[s] \notin Claimed /\ OthersKept(s)
  BY <1>1, SettleKeepsHandlers
<1>3. CASE row' = row
  BY <1>1, <1>2, <1>3, OwnRowSuffices DEF PInv, RowStep
<1>4. CASE SetRow(s, IF row[s] = "judging" THEN "queued" ELSE row[s])
  <2> DEFINE e == IF row[s] = "judging" THEN "queued" ELSE row[s]
  <2>1. e \in Lifecycle!Statuses
    BY DEF PInv, Lifecycle!Statuses
  <2>2. e = row[s] \/ <<row[s], e>> \in Lifecycle!Allowed
    BY DEF Lifecycle!Allowed
  <2>3. QED
    BY <1>1, <1>2, <1>4, <2>1, <2>2, OneRowMoves, OwnRowSuffices DEF PInv, RowStep
<1>5. QED
  BY <1>3, <1>4 DEF Rollback

LEMMA WriteStep ==
    ASSUME PInv, NEW s \in Submissions, Write(s)
    PROVE  PInv' /\ RowStep
<1>1. update' = update /\ (Return(s) \/ Throw(s))
  BY DEF Write
<1>2. pc' \in [Submissions -> Positions] /\ pc'[s] \notin Claimed /\ OthersKept(s)
  BY <1>1, SettleKeepsHandlers
<1>3. CASE row' = row
  BY <1>1, <1>2, <1>3, OwnRowSuffices DEF PInv, RowStep
<1>4. CASE row[s] # "deleted" /\ SetRow(s, update[s])
  <2>1. row[s] \in {"judging", "failed"} /\ update[s] \in Verdicts
    BY <1>4 DEF Write, PInv, ClaimIsExclusive
  <2>2. update[s] \in Lifecycle!Statuses /\ <<row[s], update[s]>> \in Lifecycle!Allowed
    BY <2>1 DEF Lifecycle!Statuses, Lifecycle!Allowed
  <2>3. QED
    BY <1>1, <1>2, <1>4, <2>2, OneRowMoves, OwnRowSuffices DEF PInv, RowStep
<1>5. QED
  BY <1>3, <1>4 DEF Write

LEMMA DeleteRowStep ==
    ASSUME PInv, NEW s \in Submissions, DeleteRow(s)
    PROVE  PInv' /\ RowStep
<1>1. pc' = pc /\ update' = update /\ SetRow(s, "deleted")
      /\ row[s] \notin {"absent", "deleted"}
  BY DEF DeleteRow, Exists
<1>2. "deleted" \in Lifecycle!Statuses /\ <<row[s], "deleted">> \in Lifecycle!Allowed
  BY <1>1 DEF PInv, Lifecycle!Statuses, Lifecycle!Allowed
<1>3. QED
  BY <1>1, <1>2, OneRowMoves, OwnRowSuffices DEF PInv, RowStep, OthersKept

LEMMA SweepOnceStep ==
    ASSUME PInv, SweepOnce
    PROVE  PInv' /\ RowStep
<1>1. /\ pc' = pc /\ update' = update
      /\ row' = [s \in Submissions |-> IF Stuck(s) THEN "failed" ELSE row[s]]
  BY DEF SweepOnce
<1>2. row' \in [Submissions -> Lifecycle!Statuses]
  BY <1>1 DEF PInv, Lifecycle!Statuses
<1>3. \A s \in Submissions : row'[s] = row[s] \/ (row[s] = "judging" /\ row'[s] = "failed")
  BY <1>1 DEF Stuck, PInv
<1>4. ClaimIsExclusive'
  BY <1>1, <1>3 DEF PInv, ClaimIsExclusive
<1>5. \A s \in Submissions : row'[s] = row[s] \/ <<row[s], row'[s]>> \in Lifecycle!Allowed
  BY <1>3 DEF Lifecycle!Allowed
<1>6. \A s \in Submissions : row'[s] # row[s] => row'[s] = "failed"
  BY <1>3
<1>7. Lifecycle!Next
  BY <1>2, <1>5, <1>6 DEF Lifecycle!Next
<1>8. QED
  BY <1>1, <1>2, <1>4, <1>7 DEF PInv, RowStep

LEMMA CrashStep ==
    ASSUME PInv, Crash
    PROVE  PInv' /\ RowStep
BY DEF Crash, PInv, ClaimIsExclusive, RowStep, Positions

-----------------------------------------------------------------------------
LEMMA InitPInv == Init => PInv /\ Lifecycle!Init
BY PipelineAssumption
   DEF Init, PInv, ClaimIsExclusive, Positions, Lifecycle!Init, Lifecycle!Statuses

LEMMA NextPInv == PInv /\ [Next]_vars => PInv' /\ RowStep
<1> SUFFICES ASSUME PInv, [Next]_vars PROVE PInv' /\ RowStep
  OBVIOUS
<1>1. ASSUME NEW s \in Submissions, PostCreate(s) PROVE PInv' /\ RowStep
  BY <1>1, PostCreateStep
<1>2. ASSUME NEW s \in Submissions, PostEnqueue(s) \/ Retry(s) PROVE PInv' /\ RowStep
  BY <1>2, PumpedStep DEF PostEnqueue, Retry
<1>3. ASSUME NEW s \in Submissions, Handler(s) PROVE PInv' /\ RowStep
  BY <1>3, FindStep, ClaimStep, ExecStep, RollbackStep, WriteStep DEF Handler
<1>4. ASSUME NEW s \in Submissions, DeleteRow(s) PROVE PInv' /\ RowStep
  BY <1>4, DeleteRowStep
<1>5. CASE Crash
  BY <1>5, CrashStep
<1>6. CASE SweepOnce
  BY <1>6, SweepOnceStep
<1>7. CASE Tick
  BY <1>7 DEF Tick, PInv, ClaimIsExclusive, RowStep
<1>8. CASE UNCHANGED vars
  BY <1>8 DEF vars, PInv, ClaimIsExclusive, RowStep
<1>9. QED
  BY <1>1, <1>2, <1>3, <1>4, <1>5, <1>6, <1>7, <1>8 DEF Next

LEMMA SpecPInv == Spec => []PInv
BY InitPInv, NextPInv, PTL DEF Spec

-----------------------------------------------------------------------------
(***************************************************************************)
(* RowsAreAccounted needs the queue as well: a handler runs exactly for    *)
(* the jobs that are "running", a job the queue knows has its row, and a   *)
(* queue step moves one job and at most starts another.  Which one it      *)
(* starts does not matter, as long as it was enqueued (Known).             *)
(***************************************************************************)
Known(q, st) ==
    /\ q \in Seq(Submissions)
    /\ \A i \in 1..Len(q) : st[q[i]] # "new"

AInv ==
    /\ PInv
    /\ stage \in [Submissions -> Q!Stages]
    /\ Known(queue, stage)
    /\ faults \in [Disturbances -> Nat]
    /\ \A s \in Submissions : pc[s] = "idle" <=> stage[s] # "running"
    /\ \A s \in Submissions : stage[s] # "new" \/ s \in posting => row[s] # "absent"
    /\ RowsAreAccounted

\* What a step owes to row s to keep it accounted for.
Accounted(s) ==
    /\ pc[s] = "idle" <=> stage[s] # "running"
    /\ stage[s] # "new" \/ s \in posting => row[s] # "absent"
    /\ stage[s] = "processed" => row[s] \notin {"absent", "queued"}
    /\ faults["db"] = 0 /\ faults["crash"] = 0 /\ row[s] = "judging" => pc[s] \in Claimed

\* The rows other than s: their jobs stay or are started, nothing else moves.
OthersStay(s) ==
    \A t \in Submissions \ {s} :
        /\ stage'[t] \in {stage[t], "running"}
        /\ stage'[t] = stage[t] => pc'[t] = pc[t]
        /\ stage'[t] # stage[t] => pc'[t] = "find" /\ stage[t] # "new"
        /\ row'[t] = row[t]
        /\ t \in posting' => t \in posting

(* pump() leaves every job where it is or starts it. *)
LEMMA PumpStartsOneJob ==
    ASSUME NEW st \in [Submissions -> Q!Stages], NEW q, Known(q, st), NEW n,
           Q!Pump(st, q, n)
    PROVE  /\ stage' \in [Submissions -> Q!Stages]
           /\ Known(queue', stage')
           /\ \A t \in Submissions :
                stage'[t] = st[t] \/ (stage'[t] = "running" /\ st[t] # "new")
<1>1. CASE n < Concurrency /\ q # <<>>
  <2>1. /\ q \in Seq(Submissions) /\ Len(q) \in Nat \ {0}
        /\ Head(q) \in Submissions /\ Head(q) = q[1] /\ st[Head(q)] # "new"
        /\ Tail(q) \in Seq(Submissions) /\ Len(Tail(q)) = Len(q) - 1
        /\ \A i \in 1..Len(Tail(q)) : Tail(q)[i] = q[i + 1]
    BY <1>1 DEF Known
  <2>2. stage' = [st EXCEPT ![Head(q)] = "running"] /\ queue' = Tail(q)
    BY <1>1 DEF Q!Pump
  <2>3. \A t \in Submissions : st[t] # "new" => stage'[t] # "new"
    BY <2>1, <2>2
  <2>4. ASSUME NEW i \in 1..Len(queue') PROVE stage'[queue'[i]] # "new"
    <3>1. i + 1 \in 1..Len(q) /\ queue'[i] = q[i + 1] /\ q[i + 1] \in Submissions
      BY <2>1, <2>2
    <3>2. QED
      BY <2>3, <3>1 DEF Known
  <2>5. QED
    BY <2>1, <2>2, <2>4 DEF Q!Stages, Known
<1>2. CASE ~(n < Concurrency /\ q # <<>>)
  BY <1>2 DEF Q!Pump
<1>3. QED
  BY <1>1, <1>2

(* Handlers follow their jobs through a queue step that edits the job of s only. *)
LEMMA HandlersFollowJobs ==
    ASSUME AInv, NEW s \in Submissions, NEW e \in Q!Stages \ {"running"},
           NEW q, Known(q, [stage EXCEPT ![s] = e]), NEW n,
           Q!Pump([stage EXCEPT ![s] = e], q, n),
           pc' = HandlersFrom([pc EXCEPT ![s] = "idle"])
    PROVE  /\ stage' \in [Submissions -> Q!Stages] /\ Known(queue', stage')
           /\ stage'[s] \in {e, "running"}
           /\ pc'[s] = "idle" <=> stage'[s] # "running"
           /\ \A t \in Submissions \ {s} :
                /\ stage'[t] \in {stage[t], "running"}
                /\ stage'[t] = stage[t] => pc'[t] = pc[t]
                /\ stage'[t] # stage[t] => pc'[t] = "find" /\ stage[t] # "new"
<1> DEFINE st == [stage EXCEPT ![s] = e]
           p == [pc EXCEPT ![s] = "idle"]
<1>1. st \in [Submissions -> Q!Stages] /\ st[s] = e
      /\ \A t \in Submissions \ {s} : st[t] = stage[t]
  BY DEF AInv
<1>2. /\ stage' \in [Submissions -> Q!Stages] /\ Known(queue', stage')
      /\ \A t \in Submissions :
           stage'[t] = st[t] \/ (stage'[t] = "running" /\ st[t] # "new")
  BY <1>1, PumpStartsOneJob
<1>3. p[s] = "idle" /\ \A t \in Submissions \ {s} : p[t] = pc[t]
  BY DEF AInv, PInv
<1>4. pc'[s] = "idle" <=> stage'[s] # "running"
  BY <1>3 DEF HandlersFrom
<1>5. ASSUME NEW t \in Submissions \ {s}
      PROVE  /\ stage'[t] \in {stage[t], "running"}
             /\ stage'[t] = stage[t] => pc'[t] = pc[t]
             /\ stage'[t] # stage[t] => pc'[t] = "find" /\ stage[t] # "new"
  <2>1. /\ stage'[t] = stage[t] \/ (stage'[t] = "running" /\ stage[t] # "new")
        /\ p[t] = pc[t]
    BY <1>1, <1>2, <1>3
  <2>2. pc[t] = "idle" <=> stage[t] # "running"
    BY DEF AInv
  <2>3. QED
    BY <2>1, <2>2 DEF HandlersFrom
<1>6. QED
  BY <1>1, <1>2, <1>4, <1>5

(* A handler that returns leaves its job processed, one that throws waiting for a retry  *)
(* or dead, unless the queue starts it again in the same step. *)
LEMMA SettledJob ==
    ASSUME AInv, NEW s \in Submissions, Return(s) \/ Throw(s), posting' = posting
    PROVE  /\ stage' \in [Submissions -> Q!Stages] /\ Known(queue', stage')
           /\ pc'[s] = "idle" <=> stage'[s] # "running"
           /\ Throw(s) => stage'[s] # "processed"
           /\ stage[s] = "running"
           /\ (\A t \in Submissions \ {s} : row'[t] = row[t]) => OthersStay(s)
<1>1. pc' = HandlersFrom([pc EXCEPT ![s] = "idle"]) /\ stage[s] = "running"
  BY DEF Return, Throw, Q!Resolve, Q!Reject
<1>2. PICK e \in {"processed", "backoff", "dead"} :
        Q!Pump([stage EXCEPT ![s] = e], queue, inflight - 1) /\ (Throw(s) => e # "processed")
  BY DEF Return, Throw, Q!Resolve, Q!Reject
<1>3. Known(queue, [stage EXCEPT ![s] = e])
  BY DEF AInv, Known
<1>4. QED
  BY <1>1, <1>2, <1>3, HandlersFollowJobs DEF OthersStay, Q!Stages

(* So a settled handler's step only has to account for its own row. *)
LEMMA OwnRowAccounted ==
    ASSUME AInv, NEW s \in Submissions, PInv',
           stage' \in [Submissions -> Q!Stages], Known(queue', stage'),
           faults' = faults \/ \E d \in Disturbances : Disturb(d),
           OthersStay(s), Accounted(s)'
    PROVE  AInv'
<1>1. faults' \in [Disturbances -> Nat]
      /\ (faults'["db"] = 0 /\ faults'["crash"] = 0 => faults["db"] = 0 /\ faults["crash"] = 0)
  <2>1. CASE faults' = faults
    BY <2>1 DEF AInv
  <2>2. ASSUME NEW d \in Disturbances, Disturb(d)
        PROVE  faults' \in [Disturbances -> Nat] /\ \A e \in Disturbances : faults'[e] >= faults[e]
    BY <2>2 DEF AInv, Disturb
  <2>3. {"db", "crash"} \subseteq Disturbances
    BY DEF Disturbances
  <2>4. QED
    BY <2>1, <2>2, <2>3 DEF AInv
<1>2. ASSUME NEW t \in Submissions \ {s} PROVE Accounted(t)'
  <2>1. Accounted(t)
    BY DEF AInv, RowsAreAccounted, ProcessedMeansTaken, StrandedOnlyByFaults, Accounted, Claimed
  <2>2. CASE stage'[t] = stage[t]
    BY <1>1, <2>1, <2>2 DEF OthersStay, Accounted
  <2>3. CASE stage'[t] # stage[t]
    <3>1. stage[t] # "running" /\ stage'[t] = "running" /\ pc'[t] = "find"
      BY <2>3 DEF OthersStay, AInv
    <3>2. row'[t] # "judging" \/ ~(faults'["db"] = 0 /\ faults'["crash"] = 0)
      BY <1>1, <2>1, <3>1 DEF OthersStay, Accounted, Claimed
    <3>3. QED
      BY <2>1, <3>1, <3>2 DEF OthersStay, Accounted
  <2>4. QED
    BY <2>2, <2>3
<1>3. \A t \in Submissions : Accounted(t)'
  BY <1>2
<1>4. QED
  BY <1>1, <1>3
     DEF AInv, Accounted, RowsAreAccounted, ProcessedMeansTaken, StrandedOnlyByFaults, Claimed

-----------------------------------------------------------------------------
(* The actions again, now with their jobs.  A queue step of the job of s (its enqueue or *)
(* its retry timer) puts it in the queue; the row is there and nothing else moves. *)
LEMMA QueuedJobStep ==
    ASSUME AInv, NEW s \in Submissions, stage[s] # "running", row[s] # "absent",
           Q!Pump([stage EXCEPT ![s] = "waiting"], Append(queue, s), inflight),
           pc' = HandlersFrom(pc), posting' \subseteq posting,
           UNCHANGED <<row, update, faults>>
    PROVE  AInv'
<1> DEFINE q == Append(queue, s)
           st == [stage EXCEPT ![s] = "waiting"]
<1>1. Known(q, st)
  <2>1. /\ queue \in Seq(Submissions) /\ Len(queue) \in Nat /\ Len(q) = Len(queue) + 1
        /\ q \in Seq(Submissions) /\ q[Len(q)] = s
        /\ \A i \in 1..Len(queue) : q[i] = queue[i]
    BY DEF AInv, Known
  <2>2. \A t \in Submissions : stage[t] # "new" => st[t] # "new"
    BY DEF AInv
  <2>3. ASSUME NEW i \in 1..Len(q) PROVE st[q[i]] # "new"
    <3>1. CASE i = Len(q)
      BY <2>1, <3>1 DEF AInv
    <3>2. CASE i \in 1..Len(queue)
      <4>1. queue[i] \in Submissions /\ stage[queue[i]] # "new"
        BY <2>1, <3>2 DEF AInv, Known
      <4>2. QED
        BY <2>1, <2>2, <3>2, <4>1
    <3>3. QED
      BY <2>1, <3>1, <3>2
  <2>4. QED
    BY <2>1, <2>3 DEF Known
<1>2. pc = [pc EXCEPT ![s] = "idle"]
  BY DEF AInv, PInv
<1>3. /\ stage' \in [Submissions -> Q!Stages] /\ Known(queue', stage')
      /\ stage'[s] \in {"waiting", "running"}
      /\ pc'[s] = "idle" <=> stage'[s] # "running"
      /\ \A t \in Submissions \ {s} :
           /\ stage'[t] \in {stage[t], "running"}
           /\ stage'[t] = stage[t] => pc'[t] = pc[t]
           /\ stage'[t] # stage[t] => pc'[t] = "find" /\ stage[t] # "new"
  BY <1>1, <1>2, HandlersFollowJobs DEF Q!Stages
<1>4. OthersStay(s)
  BY <1>3 DEF OthersStay
<1>5. Accounted(s)'
  <2>1. faults["db"] = 0 /\ faults["crash"] = 0 => row[s] # "judging"
    BY DEF AInv, RowsAreAccounted, StrandedOnlyByFaults
  <2>2. QED
    BY <1>3, <2>1 DEF Accounted
<1>6. PInv'
  BY PumpedStep DEF AInv
<1>7. QED
  BY <1>3, <1>4, <1>5, <1>6, OwnRowAccounted

LEMMA PostCreateAccounted ==
    ASSUME AInv, NEW s \in Submissions, PostCreate(s)
    PROVE  AInv'
<1>1. PInv' /\ UNCHANGED <<stage, queue, pc>>
  BY PostCreateStep DEF AInv, PostCreate, queueVars
<1>2. row'[s] = "queued" /\ \A t \in Submissions \ {s} : row'[t] = row[t]
  BY DEF PostCreate, SetRow, AInv, PInv
<1>3. stage[s] = "new" /\ pc[s] = "idle"
  BY DEF PostCreate, AInv
<1>4. Accounted(s)' /\ OthersStay(s)
  BY <1>1, <1>2, <1>3 DEF Accounted, OthersStay, PostCreate
<1>5. faults' = faults \/ \E d \in Disturbances : Disturb(d)
  BY DEF PostCreate, Disturbances
<1>6. QED
  BY <1>1, <1>4, <1>5, OwnRowAccounted DEF AInv

LEMMA PostEnqueueAccounted ==
    ASSUME AInv, NEW s \in Submissions, PostEnqueue(s)
    PROVE  AInv'
<1>1. row[s] # "absent" /\ stage[s] = "new"
  BY DEF PostEnqueue, Q!Enqueue, AInv
<1>2. QED
  BY <1>1, QueuedJobStep DEF PostEnqueue, Q!Enqueue

LEMMA RetryAccounted ==
    ASSUME AInv, NEW s \in Submissions, Retry(s)
    PROVE  AInv'
<1>1. row[s] # "absent" /\ stage[s] = "backoff"
  BY DEF Retry, Q!RetryTimer, AInv
<1>2. QED
  BY <1>1, QueuedJobStep DEF Retry, Q!RetryTimer

(* A settling step is accounted for when its own row is. *)
LEMMA SettledRowSuffices ==
    ASSUME AInv, NEW s \in Submissions, PInv', posting' = posting,
           Throw(s) \/ (Return(s) /\ row'[s] # "queued"),
           faults' = faults \/ \E d \in Disturbances : Disturb(d),
           \A t \in Submissions \ {s} : row'[t] = row[t],
           row'[s] # "absent",
           row'[s] = "judging" => faults'["db"] # 0 \/ faults'["crash"] # 0
    PROVE  AInv'
<1>1. /\ stage' \in [Submissions -> Q!Stages] /\ Known(queue', stage')
      /\ pc'[s] = "idle" <=> stage'[s] # "running"
      /\ Throw(s) => stage'[s] # "processed"
      /\ OthersStay(s)
  BY SettledJob
<1>2. Accounted(s)'
  BY <1>1 DEF Accounted
<1>3. QED
  BY <1>1, <1>2, OwnRowAccounted

(* A handler that moves on keeps its job. *)
LEMMA MovedRowSuffices ==
    ASSUME AInv, NEW s \in Submissions, PInv', NEW p \in Positions \ {"idle"}, Goto(s, p),
           pc[s] # "idle", posting' = posting,
           faults' = faults \/ \E d \in Disturbances : Disturb(d),
           \A t \in Submissions \ {s} : row'[t] = row[t],
           row'[s] # "absent",
           row'[s] = "judging" => p \in Claimed \/ faults'["db"] # 0 \/ faults'["crash"] # 0
    PROVE  AInv'
<1>1. UNCHANGED <<stage, queue>> /\ pc'[s] = p /\ stage[s] = "running"
      /\ \A t \in Submissions \ {s} : pc'[t] = pc[t]
  BY DEF Goto, queueVars, AInv, PInv
<1>2. Accounted(s)' /\ OthersStay(s)
  BY <1>1 DEF Accounted, OthersStay
<1>3. QED
  BY <1>1, <1>2, OwnRowAccounted DEF AInv

(* A handler's row is there, and is judging after its claim only, faults apart. *)
LEMMA HandledRow ==
    ASSUME AInv, NEW s \in Submissions, pc[s] # "idle"
    PROVE  /\ stage[s] = "running" /\ row[s] # "absent"
           /\ faults["db"] = 0 /\ faults["crash"] = 0 /\ row[s] = "judging" => pc[s] \in Claimed
BY DEF AInv, RowsAreAccounted, StrandedOnlyByFaults, Claimed

(* A disturbance is counted, and stays counted. *)
LEMMA FaultsCount ==
    ASSUME AInv, NEW d \in Disturbances, Disturb(d)
    PROVE  /\ faults'[d] # 0
           /\ \A e \in Disturbances : faults[e] # 0 => faults'[e] # 0
BY DEF AInv, Disturb

LEMMA FindAccounted ==
    ASSUME AInv, NEW s \in Submissions, Find(s)
    PROVE  AInv'
<1>1. PInv' /\ row' = row /\ posting' = posting /\ pc[s] = "find" /\ pc[s] \notin Claimed
  BY FindStep DEF AInv, Find, Claimed
<1>2. CASE row[s] = "queued" /\ Goto(s, "claim") /\ UNCHANGED faults
  BY <1>1, <1>2, MovedRowSuffices DEF Positions
<1>3. CASE row[s] # "queued" /\ Return(s) /\ UNCHANGED faults
  BY <1>1, <1>3, HandledRow, SettledRowSuffices
<1>4. CASE Disturb("db") /\ Throw(s)
  BY <1>1, <1>4, HandledRow, FaultsCount, SettledRowSuffices DEF Disturbances
<1>5. QED
  BY <1>1, <1>2, <1>3, <1>4 DEF Find

LEMMA ClaimAccounted ==
    ASSUME AInv, NEW s \in Submissions, Claim(s)
    PROVE  AInv'
<1>1. PInv' /\ posting' = posting /\ pc[s] = "claim" /\ pc[s] \notin Claimed
  BY ClaimStep DEF AInv, Claim, Claimed
<1>2. CASE row[s] = "queued" /\ SetRow(s, "judging")
  <2>1. row'[s] = "judging" /\ \A t \in Submissions \ {s} : row'[t] = row[t]
    BY <1>2 DEF SetRow, AInv, PInv
  <2>2. CASE Goto(s, "exec") /\ UNCHANGED faults
    BY <1>1, <2>1, <2>2, MovedRowSuffices DEF Positions, Claimed
  <2>3. CASE Disturb("db") /\ Throw(s)
    BY <1>1, <2>1, <2>3, FaultsCount, SettledRowSuffices DEF Disturbances
  <2>4. CASE row' = row
    BY <1>2, <2>1, <2>4
  <2>5. QED
    BY <1>2, <2>2, <2>3, <2>4 DEF Claim
<1>3. CASE row[s] # "queued" /\ Return(s) /\ UNCHANGED <<row, faults>>
  BY <1>1, <1>3, HandledRow, SettledRowSuffices
<1>4. CASE Disturb("db") /\ Throw(s) /\ UNCHANGED row
  BY <1>1, <1>4, HandledRow, FaultsCount, SettledRowSuffices DEF Disturbances
<1>5. QED
  BY <1>2, <1>3, <1>4 DEF Claim

LEMMA ExecAccounted ==
    ASSUME AInv, NEW s \in Submissions, Exec(s)
    PROVE  AInv'
<1>1. PInv' /\ row' = row /\ posting' = posting /\ pc[s] = "exec"
  BY ExecStep DEF AInv, Exec
<1>2. PICK p \in {"write", "rollback"} : Goto(s, p)
  BY DEF Exec
<1>3. faults' = faults \/ \E d \in Disturbances : Disturb(d)
  BY DEF Exec, Disturbances
<1>4. QED
  BY <1>1, <1>2, <1>3, HandledRow, MovedRowSuffices DEF Positions, Claimed

LEMMA RollbackAccounted ==
    ASSUME AInv, NEW s \in Submissions, Rollback(s)
    PROVE  AInv'
<1>1. PInv' /\ posting' = posting /\ pc[s] = "rollback" /\ Throw(s)
  BY RollbackStep DEF AInv, Rollback
<1>2. row[s] # "absent"
  BY <1>1, HandledRow
<1>3. CASE SetRow(s, IF row[s] = "judging" THEN "queued" ELSE row[s]) /\ UNCHANGED faults
  <2>1. row'[s] \notin {"absent", "judging"} /\ \A t \in Submissions \ {s} : row'[t] = row[t]
    BY <1>2, <1>3 DEF SetRow, AInv, PInv
  <2>2. QED
    BY <1>1, <1>3, <2>1, SettledRowSuffices
<1>4. CASE Disturb("db") /\ UNCHANGED row
  BY <1>1, <1>2, <1>4, FaultsCount, SettledRowSuffices DEF Disturbances
<1>5. QED
  BY <1>3, <1>4 DEF Rollback

LEMMA WriteAccounted ==
    ASSUME AInv, NEW s \in Submissions, Write(s)
    PROVE  AInv'
<1>1. PInv' /\ posting' = posting /\ pc[s] = "write"
  BY WriteStep DEF AInv, Write
<1>2. row[s] \in {"judging", "failed", "deleted"}
  BY <1>1 DEF AInv, PInv, ClaimIsExclusive
<1>3. CASE row[s] # "deleted" /\ SetRow(s, update[s])
  <2>1. /\ row'[s] \in Verdicts /\ \A t \in Submissions \ {s} : row'[t] = row[t]
    BY <1>3 DEF SetRow, AInv, PInv
  <2>2. row'[s] \notin {"absent", "queued", "judging", "failed", "deleted"}
    BY <2>1, PipelineAssumption
  <2>3. CASE Return(s) /\ UNCHANGED faults
    BY <1>1, <2>1, <2>2, <2>3, SettledRowSuffices
  <2>4. CASE Disturb("db") /\ Throw(s)
    BY <1>1, <2>1, <2>2, <2>4, SettledRowSuffices DEF Disturbances
  <2>5. CASE row' = row
    BY <1>2, <2>2, <2>5
  <2>6. QED
    BY <1>3, <2>3, <2>4, <2>5 DEF Write
<1>4. CASE row[s] = "deleted" /\ Throw(s) /\ UNCHANGED <<row, faults>>
  BY <1>1, <1>4, SettledRowSuffices
<1>5. CASE Disturb("db") /\ Throw(s) /\ UNCHANGED row
  BY <1>1, <1>2, <1>5, FaultsCount, SettledRowSuffices DEF Disturbances
<1>6. QED
  BY <1>3, <1>4, <1>5 DEF Write

LEMMA CrashAccounted ==
    ASSUME AInv, Crash
    PROVE  AInv'
<1>1. PInv' /\ row' = row /\ pc' = [s \in Submissions |-> "idle"] /\ posting' = {} /\ Q!Crash
  BY CrashStep DEF AInv, Crash
<1>2. /\ stage' \in [Submissions -> Q!Stages]
      /\ \A s \in Submissions :
           /\ stage'[s] \in {stage[s], "lost"} /\ stage'[s] # "running"
           /\ stage'[s] # "new" => stage[s] # "new"
           /\ stage'[s] = "processed" => stage[s] = "processed"
  BY <1>1 DEF AInv, Q!Crash, Q!Stages
<1>3. Known(queue', stage')
  <2>1. queue' = <<>> /\ Len(queue') = 0
    BY <1>1 DEF Q!Crash
  <2>2. QED
    BY <2>1 DEF Known
<1>4. faults' \in [Disturbances -> Nat] /\ faults'["crash"] # 0
  <2>1. "crash" \in Disturbances /\ Disturb("crash")
    BY DEF Disturbances, Crash
  <2>2. QED
    BY <2>1, FaultsCount DEF AInv, Disturb
<1>5. ProcessedMeansTaken'
  BY <1>1, <1>2 DEF AInv, RowsAreAccounted, ProcessedMeansTaken
<1>6. StrandedOnlyByFaults'
  BY <1>4 DEF StrandedOnlyByFaults
<1>7. \A s \in Submissions :
        /\ pc'[s] = "idle" <=> stage'[s] # "running"
        /\ stage'[s] # "new" \/ s \in posting' => row'[s] # "absent"
  BY <1>1, <1>2 DEF AInv
<1>8. QED
  BY <1>1, <1>2, <1>3, <1>4, <1>5, <1>6, <1>7 DEF AInv, RowsAreAccounted

(* A step that moves rows forward, or to deleted, and nothing of the queue. *)
LEMMA RowsMoveAccounted ==
    ASSUME AInv, PInv', UNCHANGED <<stage, queue, pc, posting>>,
           faults' = faults \/ \E d \in Disturbances : Disturb(d),
           \A s \in Submissions :
               row'[s] = row[s] \/ row'[s] \notin {"absent", "queued", "judging"}
    PROVE  AInv'
<1>1. faults' \in [Disturbances -> Nat]
  BY DEF AInv, Disturb
<1>2. \A d \in {"db", "crash"} : faults[d] # 0 => faults'[d] # 0
  BY FaultsCount DEF Disturbances
<1>3. QED
  BY <1>1, <1>2 DEF AInv, Known, RowsAreAccounted, ProcessedMeansTaken, StrandedOnlyByFaults

LEMMA InitAInv == Init => AInv
<1> SUFFICES ASSUME Init PROVE AInv
  OBVIOUS
<1>1. PInv
  BY InitPInv
<1>2. Known(queue, stage)
  <2>1. queue = <<>> /\ Len(queue) = 0
    BY DEF Init, Q!Init
  <2>2. QED
    BY <2>1 DEF Known
<1>3. QED
  BY <1>1, <1>2 DEF Init, Q!Init, Q!Stages, AInv, RowsAreAccounted, ProcessedMeansTaken,
                    StrandedOnlyByFaults

LEMMA NextAInv == AInv /\ [Next]_vars => AInv'
<1> SUFFICES ASSUME AInv, [Next]_vars PROVE AInv'
  OBVIOUS
<1>1. PInv'
  BY NextPInv DEF AInv
<1>2. ASSUME NEW s \in Submissions, PostCreate(s) \/ PostEnqueue(s) \/ Retry(s) PROVE AInv'
  BY <1>2, PostCreateAccounted, PostEnqueueAccounted, RetryAccounted
<1>3. ASSUME NEW s \in Submissions, Handler(s) PROVE AInv'
  BY <1>3, FindAccounted, ClaimAccounted, ExecAccounted, RollbackAccounted, WriteAccounted
     DEF Handler
<1>4. ASSUME NEW s \in Submissions, DeleteRow(s) PROVE AInv'
  BY <1>1, <1>4, RowsMoveAccounted DEF DeleteRow, SetRow, queueVars, Disturbances, AInv, PInv
<1>5. CASE Crash
  BY <1>5, CrashAccounted
<1>6. CASE SweepOnce
  BY <1>1, <1>6, RowsMoveAccounted DEF SweepOnce, queueVars, AInv, PInv
<1>7. CASE Tick
  BY <1>1, <1>7, RowsMoveAccounted DEF Tick, queueVars
<1>8. CASE UNCHANGED vars
  BY <1>1, <1>8, RowsMoveAccounted DEF vars, queueVars
<1>9. QED
  BY <1>2, <1>3, <1>4, <1>5, <1>6, <1>7, <1>8 DEF Next

-----------------------------------------------------------------------------
(***************************************************************************)
(* The pipeline drives its queue as queue.ts lets it be driven, so what    *)
(* WorkerQueueProofs proves of the queue holds inside the pipeline.        *)
(***************************************************************************)
WQ == INSTANCE WorkerQueueProofs WITH Jobs <- Submissions

LEMMA QueueParameters == WQ!QueueAssumption
BY PipelineAssumption DEF WQ!QueueAssumption, WQ!IsFiniteSet, IsFiniteSet

(* Every handler step moves the queue by resolving or rejecting its own job, or not at all. *)
LEMMA HandlerMovesQueue ==
    ASSUME NEW s \in Submissions, Handler(s)
    PROVE  Return(s) \/ Throw(s) \/ UNCHANGED queueVars
<1>1. CASE Find(s)
  BY <1>1 DEF Find, Goto
<1>2. CASE Claim(s)
  BY <1>2 DEF Claim, Goto
<1>3. CASE Exec(s)
  BY <1>3 DEF Exec, Goto
<1>4. CASE Rollback(s)
  BY <1>4 DEF Rollback
<1>5. CASE Write(s)
  BY <1>5 DEF Write
<1>6. QED
  BY <1>1, <1>2, <1>3, <1>4, <1>5 DEF Handler

LEMMA StepMovesQueue == [Next]_vars => [WQ!Next]_(WQ!vars)
<1> SUFFICES ASSUME [Next]_vars PROVE [WQ!Next]_(WQ!vars)
  OBVIOUS
<1>1. ASSUME NEW s \in Submissions,
             Q!Enqueue(s) \/ Q!Resolve(s) \/ Q!Reject(s) \/ Q!RetryTimer(s)
      PROVE  WQ!Next
  <2>1. WQ!Enqueue(s) \/ WQ!Resolve(s) \/ WQ!Reject(s) \/ WQ!RetryTimer(s)
    BY <1>1 DEF Q!Enqueue, Q!Resolve, Q!Reject, Q!RetryTimer, Q!Pump,
                WQ!Enqueue, WQ!Resolve, WQ!Reject, WQ!RetryTimer, WQ!Pump
  <2>2. QED
    BY <2>1 DEF WQ!Next
<1>2. CASE UNCHANGED queueVars
  BY <1>2 DEF queueVars, WQ!vars
<1>3. ASSUME NEW s \in Submissions, PostEnqueue(s) \/ Retry(s) PROVE WQ!Next
  BY <1>1, <1>3 DEF PostEnqueue, Retry
<1>4. ASSUME NEW s \in Submissions, Handler(s) PROVE [WQ!Next]_(WQ!vars)
  BY <1>1, <1>2, <1>4, HandlerMovesQueue DEF Return, Throw
<1>5. ASSUME NEW s \in Submissions, PostCreate(s) \/ DeleteRow(s) PROVE UNCHANGED queueVars
  BY <1>5 DEF PostCreate, DeleteRow
<1>6. CASE Crash
  BY <1>6 DEF Crash, Q!Crash, WQ!Crash, WQ!Next
<1>7. CASE SweepOnce \/ Tick \/ UNCHANGED vars
  BY <1>2, <1>7 DEF SweepOnce, Tick, vars
<1>8. QED
  BY <1>2, <1>3, <1>4, <1>5, <1>6, <1>7 DEF Next

LEMMA SpecQueue == Spec => WQ!Spec /\ []WQ!IInv
<1>1. Init => WQ!Init
  BY DEF Init, WQ!Init, Q!Init
<1>2. Spec => WQ!Spec
  BY <1>1, StepMovesQueue, PTL DEF Spec, WQ!Spec
<1>3. WQ!Spec => []WQ!IInv
  BY QueueParameters, WQ!SpecIInv
<1>4. QED
  BY <1>2, <1>3, PTL

-----------------------------------------------------------------------------
(* The theorems. *)

\* From its claim to its final update a handler's row is judging, swept or deleted,
\* never queued and never judged, so the unguarded update overwrites no verdict.
THEOREM ClaimsAreExclusive == Spec => []ClaimIsExclusive
<1>1. PInv => ClaimIsExclusive
  BY DEF PInv
<1>2. QED
  BY <1>1, SpecPInv, PTL

\* Route, handler, sweeper, deletes and restarts together only take the status
\* column through the life cycle of SubmissionLifecycle.
THEOREM PipelineImplementsLifecycle == Spec => ImplementsLifecycle
<1>1. Init => Lifecycle!Init
  BY InitPInv
<1>2. PInv /\ [Next]_vars => [Lifecycle!Next]_row
  BY NextPInv DEF RowStep
<1>3. QED
  BY <1>1, <1>2, SpecPInv, PTL DEF Spec, ImplementsLifecycle, Lifecycle!Spec

\* A processed job's row was taken or swept, and only database faults and restarts strand a
\* row in judging: rollback and retry give every other failed attempt its row back.
THEOREM RowsStayAccounted == Spec => []RowsAreAccounted
<1>1. AInv => RowsAreAccounted
  BY DEF AInv
<1>2. QED
  BY <1>1, InitAInv, NextAInv, PTL DEF Spec

\* Route, retries, handlers and restarts drive the queue through steps of WorkerQueue only,
\* so every theorem of WorkerQueueProofs holds of the queue inside the pipeline.
THEOREM PipelineRunsWorkerQueue == Spec => WQ!Spec
BY SpecQueue, PTL

\* At most Concurrency submissions are between their first query and their last at once, so
\* one web process never has more judge calls open than queue.ts was configured for.
THEOREM HandlersAreCapped == Spec => [](Cardinality({s \in Submissions : pc[s] # "idle"}) <= Concurrency)
<1>1. AInv /\ WQ!IInv => Cardinality({s \in Submissions : pc[s] # "idle"}) <= Concurrency
  <2> SUFFICES ASSUME AInv, WQ!IInv
               PROVE  Cardinality({s \in Submissions : pc[s] # "idle"}) <= Concurrency
    OBVIOUS
  <2>1. {s \in Submissions : pc[s] # "idle"} = WQ!RunningIn(stage)
    BY DEF AInv, WQ!RunningIn
  <2>2. QED
    BY <2>1 DEF WQ!IInv, WQ!Consistent, WQ!Cardinality, Cardinality
<1>2. QED
  BY <1>1, InitAInv, NextAInv, SpecQueue, PTL DEF Spec

\* A verdict written by the handler is never changed again, short of deleting the row.
THEOREM VerdictsAreFinal == Spec => VerdictIsFinal
<1>1. PInv /\ [Next]_vars =>
        [\A s \in Submissions : row[s] \in Verdicts => row'[s] \in {row[s], "deleted"}]_vars
  <2> SUFFICES ASSUME PInv, [Next]_vars, NEW s \in Submissions, row[s] \in Verdicts
               PROVE  row'[s] \in {row[s], "deleted"}
    OBVIOUS
  <2>1. CASE UNCHANGED row
    BY <2>1
  <2>2. CASE Lifecycle!Next
    <3>1. row'[s] = row[s] \/ <<row[s], row'[s]>> \in Lifecycle!Allowed
      BY <2>2 DEF Lifecycle!Next
    <3>2. row[s] \notin {"absent", "queued", "judging", "failed"}
      BY PipelineAssumption
    <3>3. QED
      BY <3>1, <3>2 DEF Lifecycle!Allowed
  <2>3. QED
    BY <2>1, <2>2, NextPInv DEF RowStep
<1>2. QED
  BY <1>1, SpecPInv, PTL DEF Spec, VerdictIsFinal

-----------------------------------------------------------------------------
(* The two services on one Redis, both at once.  The index: a rebuild that *)
(* nothing has torn is alone, and the set holds the rows it has added so   *)
(* far (AloneAtWork); whom a reader has found is there until a rebuild     *)
(* cuts in.                                                                *)

UpTyped == up \in BOOLEAN /\ outages \in 0..MaxOutages

Rebuilds == [pc : {"idle", "delete", "add"}, rows : Board!ScoreTables, todo : SUBSET Users]
Reads ==
    [pc : {"idle"}] \cup [pc : {"rank"}, user : Users, cut : BOOLEAN]
        \cup [pc : {"done"}, rank : 1..Cardinality(Users), user : Users, cut : BOOLEAN]

\* What is left to add is of the rows, at first all of them.
TodoFits(r) ==
    /\ r.todo \subseteq DOMAIN r.rows
    /\ r.pc = "delete" => r.todo = DOMAIN r.rows

BoardTypes ==
    /\ table \in Board!ScoreTables /\ zset \in Board!ScoreTables /\ lastRows \in Board!ScoreTables
    /\ writer \in [Writers -> Rebuilds]
    /\ \A w \in Writers : TodoFits(writer[w])
    /\ reader \in Reads
    /\ torn \in BOOLEAN

\* The set holds what w has added so far.
Partial(w) ==
    /\ DOMAIN zset = DOMAIN writer[w].rows \ writer[w].todo
    /\ \A u \in DOMAIN zset : zset[u] = writer[w].rows[u]

AloneAtWork ==
    ~torn =>
        \/ Board!Rebuilding = {} /\ zset = lastRows
        \/ \E w \in Writers : Board!Rebuilding = {w} /\ Partial(w)

ReaderFinds == reader.pc = "rank" => reader.user \in DOMAIN zset \/ reader.cut

BoardInv == BoardTypes /\ AloneAtWork /\ ReaderFinds

LEMMA Tables == \A f : f \in Board!ScoreTables <=> Board!IsScoreTable(f)
<1> SUFFICES ASSUME NEW f PROVE f \in Board!ScoreTables <=> Board!IsScoreTable(f)
  OBVIOUS
<1>1. ASSUME f \in Board!ScoreTables PROVE Board!IsScoreTable(f)
  <2>1. PICK S \in SUBSET Users : f \in [S -> 0..MaxScore]
    BY <1>1 DEF Board!ScoreTables
  <2>2. QED
    BY <2>1 DEF Board!IsScoreTable
<1>2. ASSUME Board!IsScoreTable(f) PROVE f \in Board!ScoreTables
  BY <1>2 DEF Board!IsScoreTable, Board!ScoreTables
<1>3. QED
  BY <1>1, <1>2

\* With and Without change one entry.
LEMMA TableWith ==
    ASSUME NEW f \in Board!ScoreTables, NEW u \in Users, NEW n \in 0..MaxScore
    PROVE  /\ Board!With(f, u, n) \in Board!ScoreTables
           /\ DOMAIN Board!With(f, u, n) = DOMAIN f \cup {u}
           /\ Board!With(f, u, n)[u] = n
           /\ \A v \in DOMAIN f \ {u} : Board!With(f, u, n)[v] = f[v]
<1>1. DOMAIN f \subseteq Users /\ \A v \in DOMAIN f : f[v] \in 0..MaxScore
  BY Tables DEF Board!IsScoreTable
<1>2. Board!With(f, u, n) \in [DOMAIN f \cup {u} -> 0..MaxScore]
  BY <1>1 DEF Board!With
<1>3. Board!IsScoreTable(Board!With(f, u, n))
  BY <1>1, <1>2 DEF Board!IsScoreTable
<1>4. QED
  BY <1>3, Tables DEF Board!With

LEMMA TableWithout ==
    ASSUME NEW f \in Board!ScoreTables, NEW u \in Users
    PROVE  Board!Without(f, u) \in Board!ScoreTables
<1>1. DOMAIN f \subseteq Users /\ \A v \in DOMAIN f : f[v] \in 0..MaxScore
  BY Tables DEF Board!IsScoreTable
<1>2. Board!IsScoreTable(Board!Without(f, u))
  BY <1>1 DEF Board!IsScoreTable, Board!Without
<1>3. QED
  BY <1>2, Tables

LEMMA EmptyTable == Board!Empty \in Board!ScoreTables /\ DOMAIN Board!Empty = {}
<1>1. Board!IsScoreTable(Board!Empty)
  BY DEF Board!IsScoreTable, Board!Empty
<1>2. QED
  BY <1>1, Tables DEF Board!Empty

\* Two functions with the same domain and the same values are the same table.
LEMMA SameTable ==
    ASSUME NEW f \in Board!ScoreTables, NEW g \in Board!ScoreTables,
           DOMAIN f = DOMAIN g, \A u \in DOMAIN f : f[u] = g[u]
    PROVE  f = g
<1>1. Board!IsScoreTable(f) /\ Board!IsScoreTable(g)
  BY Tables
<1>2. PICK S : S = DOMAIN f
  OBVIOUS
<1>3. f \in [S -> 0..MaxScore] /\ g \in [S -> 0..MaxScore]
  BY <1>1, <1>2 DEF Board!IsScoreTable
<1>4. \A u \in S : f[u] = g[u]
  BY <1>2
<1>5. QED
  BY <1>3, <1>4

\* The operators of the instances' finite sets are those of this module.
LEMMA SameSizes ==
    \A S : /\ Board!Cardinality(S) = Cardinality(S) /\ Mail!Cardinality(S) = Cardinality(S)
           /\ Board!IsFiniteSet(S) = IsFiniteSet(S) /\ Mail!IsFiniteSet(S) = IsFiniteSet(S)
BY DEF Board!Cardinality, Mail!Cardinality, Cardinality,
       Board!IsFiniteSet, Mail!IsFiniteSet, IsFiniteSet

\* A rank is between 1 and the number of users.
LEMMA RankTyped ==
    ASSUME NEW f \in Board!ScoreTables, NEW u \in DOMAIN f, IsFiniteSet(Users), Users \subseteq Nat
    PROVE  Board!RankIn(f, u) \in 1..Cardinality(Users)
<1> DEFINE above == {v \in DOMAIN f : f[v] > f[u] \/ (f[v] = f[u] /\ v >= u)}
<1>1. DOMAIN f \subseteq Users
  BY Tables DEF Board!IsScoreTable
<1>2. above \subseteq Users /\ u \in above
  <2>1. u \in Nat
    BY <1>1
  <2>2. QED
    BY <1>1, <2>1
<1>3. IsFiniteSet(above) /\ Cardinality(above) <= Cardinality(Users)
  BY <1>2, FS_Subset
<1>4. Cardinality(above) \in Nat /\ Cardinality(Users) \in Nat /\ Cardinality(above) # 0
  BY <1>2, <1>3, FS_CardinalityType, FS_EmptySet
<1>5. Board!RankIn(f, u) = Board!Cardinality(above)
  BY Zenon DEF Board!RankIn
<1>6. QED
  BY <1>3, <1>4, <1>5, SameSizes

LEMMA BoardStarts ==
    ASSUME Board!Init, MaxOutages \in Nat
    PROVE  UpTyped /\ BoardInv
<1>1. UpTyped
  BY DEF Board!Init, Board!RedisInit, UpTyped
<1>2. \A w \in Writers : writer[w] = Board!NoRebuild
  BY DEF Board!Init
<1>3. BoardTypes
  <2>1. Board!NoRebuild \in Rebuilds /\ TodoFits(Board!NoRebuild)
    <3>1. PICK e \in Board!ScoreTables : e = Board!Empty
      BY EmptyTable
    <3>2. Board!NoRebuild = [pc |-> "idle", rows |-> e, todo |-> {}]
      BY <3>1 DEF Board!NoRebuild
    <3>3. QED
      BY <3>2 DEF Rebuilds, TodoFits
  <2>2. Board!NoReader \in Reads
    BY DEF Reads, Board!NoReader
  <2>3. QED
    BY <1>2, <2>1, <2>2, EmptyTable DEF Board!Init, BoardTypes
<1>4. Board!Rebuilding = {}
  BY <1>2 DEF Board!Rebuilding, Board!NoRebuild
<1>5. QED
  BY <1>1, <1>3, <1>4 DEF Board!Init, BoardInv, AloneAtWork, ReaderFinds, Board!NoReader

LEMMA BoardKept ==
    ASSUME BoardInv, UNCHANGED <<table, zset, writer, reader, torn, lastRows>>
    PROVE  BoardInv'
BY DEF BoardInv, BoardTypes, AloneAtWork, ReaderFinds, Board!Rebuilding, Partial

LEMMA ScoreChangesSound ==
    ASSUME BoardInv, NEW u \in Users, Board!ScoreChanges(u)
    PROVE  BoardInv'
<1>1. table' \in Board!ScoreTables
  <2>1. table \in Board!ScoreTables
    BY DEF BoardInv, BoardTypes
  <2>2. CASE table' = Board!Without(table, u)
    BY <2>1, <2>2, TableWithout
  <2>3. CASE \E n \in 0..MaxScore : table' = Board!With(table, u, n)
    <3>1. PICK n \in 0..MaxScore : table' = Board!With(table, u, n)
      BY <2>3
    <3>2. PICK f \in Board!ScoreTables : f = table
      BY <2>1
    <3>3. Board!With(f, u, n) \in Board!ScoreTables
      BY TableWith
    <3>4. QED
      BY <3>1, <3>2, <3>3
  <2>4. QED
    BY <2>2, <2>3 DEF Board!ScoreChanges
<1>2. UNCHANGED <<zset, writer, reader, torn, lastRows>>
  BY DEF Board!ScoreChanges
<1>3. QED
  BY <1>1, <1>2 DEF BoardInv, BoardTypes, AloneAtWork, ReaderFinds, Board!Rebuilding, Partial

\* Whether others rebuild depends on the steps of the writers alone.
LEMMA QuerySound ==
    ASSUME BoardInv, NEW w \in Writers, Board!Query(w)
    PROVE  BoardInv'
<1>1. PICK r : r = [pc |-> "delete", rows |-> table, todo |-> DOMAIN table]
  OBVIOUS
<1>2. writer \in [Writers -> Rebuilds] /\ table \in Board!ScoreTables
  BY DEF BoardInv, BoardTypes
<1>3. r \in Rebuilds /\ TodoFits(r) /\ r.pc = "delete"
  BY <1>1, <1>2, Tables DEF Rebuilds, Board!IsScoreTable, TodoFits
<1>4. writer' = [writer EXCEPT ![w] = r] /\ UNCHANGED <<table, zset, reader, torn, lastRows>>
  BY <1>1 DEF Board!Query
<1>5. writer[w].pc = "idle"
  BY DEF Board!Query
<1>6. writer' \in [Writers -> Rebuilds] /\ writer'[w] = r /\ \A v \in Writers \ {w} : writer'[v] = writer[v]
  BY <1>2, <1>3, <1>4
<1>7. BoardTypes'
  BY <1>3, <1>4, <1>6 DEF BoardInv, BoardTypes
<1>8. Board!Rebuilding' = Board!Rebuilding /\ w \notin Board!Rebuilding
  BY <1>3, <1>5, <1>6 DEF Board!Rebuilding
<1>9. \A v \in Board!Rebuilding : Partial(v)' = Partial(v)
  BY <1>4, <1>6, <1>8 DEF Partial, Board!Rebuilding
<1>10. AloneAtWork'
  BY <1>4, <1>8, <1>9 DEF BoardInv, AloneAtWork
<1>11. QED
  BY <1>4, <1>7, <1>10 DEF BoardInv, ReaderFinds

\* A DEL cuts a reader that is between its two commands.
LEMMA Cuts ==
    ASSUME reader \in Reads, Board!Clear
    PROVE  reader' \in Reads /\ (reader'.pc = "rank" => reader'.cut)
<1>1. reader' = IF reader.pc = "rank" THEN [reader EXCEPT !.cut = TRUE] ELSE reader
  BY DEF Board!Clear
<1>2. CASE reader.pc = "rank"
  <2>1. reader \in [pc : {"rank"}, user : Users, cut : BOOLEAN]
    BY <1>2 DEF Reads
  <2>2. QED
    BY <1>1, <1>2, <2>1 DEF Reads
<1>3. CASE reader.pc # "rank"
  BY <1>1, <1>3
<1>4. QED
  BY <1>2, <1>3

LEMMA DeleteSound ==
    ASSUME BoardInv, NEW w \in Writers, Board!Delete(w)
    PROVE  BoardInv'
<1>1. PICK r : r = [writer[w] EXCEPT !.pc = "add"]
  OBVIOUS
<1>2. /\ writer \in [Writers -> Rebuilds] /\ writer[w].pc = "delete"
      /\ TodoFits(writer[w])
  BY DEF BoardInv, BoardTypes, Board!Delete
<1>3. r \in Rebuilds /\ r.todo = DOMAIN r.rows /\ r.pc = "add" /\ TodoFits(r)
  BY <1>1, <1>2 DEF Rebuilds, TodoFits
<1>4. /\ writer' = [writer EXCEPT ![w] = r] /\ UNCHANGED <<table, lastRows>>
      /\ Board!Clear /\ zset' = Board!Empty /\ torn' = (Board!Rebuilding # {})
  BY <1>1 DEF Board!Delete, Board!Clear
<1>5. writer' \in [Writers -> Rebuilds] /\ writer'[w] = r /\ \A v \in Writers \ {w} : writer'[v] = writer[v]
  BY <1>2, <1>3, <1>4
<1>6. reader' \in Reads /\ (reader'.pc = "rank" => reader'.cut)
  BY <1>4, Cuts DEF BoardInv, BoardTypes
<1>7. BoardTypes'
  BY <1>3, <1>4, <1>5, <1>6, EmptyTable DEF BoardInv, BoardTypes
<1>8. Board!Rebuilding' = Board!Rebuilding \cup {w}
  BY <1>3, <1>5 DEF Board!Rebuilding
<1>9. AloneAtWork'
  <2>1. ~torn' => Board!Rebuilding' = {w}
    BY <1>4, <1>8
  <2>2. Partial(w)'
    BY <1>3, <1>4, <1>5, EmptyTable DEF Partial
  <2>3. QED
    BY <2>1, <2>2 DEF AloneAtWork
<1>10. QED
  BY <1>6, <1>7, <1>9 DEF BoardInv, ReaderFinds

LEMMA ZAddSound ==
    ASSUME BoardInv, NEW w \in Writers, Board!ZAdd(w)
    PROVE  BoardInv'
<1>1. PICK u \in writer[w].todo :
          /\ zset' = Board!With(zset, u, writer[w].rows[u])
          /\ writer' = [writer EXCEPT ![w].todo = @ \ {u}]
  BY DEF Board!ZAdd
<1>2. PICK r : r = [writer[w] EXCEPT !.todo = @ \ {u}]
  OBVIOUS
<1>3. /\ writer \in [Writers -> Rebuilds] /\ writer[w].pc = "add" /\ zset \in Board!ScoreTables
      /\ writer[w].todo \subseteq DOMAIN writer[w].rows
      /\ UNCHANGED <<table, lastRows, reader, torn>>
  BY DEF BoardInv, BoardTypes, Board!ZAdd, TodoFits
<1>4. /\ r \in Rebuilds /\ r.todo = writer[w].todo \ {u} /\ r.pc = "add"
      /\ r.rows = writer[w].rows /\ TodoFits(r)
  BY <1>2, <1>3 DEF Rebuilds, TodoFits
<1>5. writer' = [writer EXCEPT ![w] = r]
  BY <1>1, <1>2
<1>6. writer' \in [Writers -> Rebuilds] /\ writer'[w] = r /\ \A v \in Writers \ {w} : writer'[v] = writer[v]
  BY <1>3, <1>4, <1>5
<1>7. u \in Users /\ writer[w].rows[u] \in 0..MaxScore /\ u \in DOMAIN writer[w].rows
  BY <1>3, Tables DEF Rebuilds, Board!IsScoreTable
<1>8. /\ zset' \in Board!ScoreTables /\ DOMAIN zset' = DOMAIN zset \cup {u}
      /\ zset'[u] = writer[w].rows[u] /\ \A v \in DOMAIN zset \ {u} : zset'[v] = zset[v]
  <2>1. PICK n : n = writer[w].rows[u]
    OBVIOUS
  <2>2. PICK f : f = zset
    OBVIOUS
  <2>3. f \in Board!ScoreTables /\ n \in 0..MaxScore /\ zset' = Board!With(f, u, n)
    BY <1>1, <1>3, <1>7, <2>1, <2>2
  <2>4. /\ Board!With(f, u, n) \in Board!ScoreTables
        /\ DOMAIN Board!With(f, u, n) = DOMAIN f \cup {u}
        /\ Board!With(f, u, n)[u] = n
        /\ \A v \in DOMAIN f \ {u} : Board!With(f, u, n)[v] = f[v]
    BY <1>7, <2>3, TableWith, ZenonT(30)
  <2>5. QED
    BY <2>1, <2>2, <2>3, <2>4
<1>9. BoardTypes'
  BY <1>3, <1>4, <1>6, <1>8 DEF BoardInv, BoardTypes
<1>10. Board!Rebuilding' = Board!Rebuilding /\ w \in Board!Rebuilding
  BY <1>3, <1>4, <1>6 DEF Board!Rebuilding
<1>11. Partial(w) => Partial(w)'
  BY <1>4, <1>6, <1>7, <1>8 DEF Partial
<1>12. AloneAtWork'
  BY <1>3, <1>10, <1>11 DEF BoardInv, AloneAtWork
<1>13. QED
  BY <1>3, <1>8, <1>9, <1>12 DEF BoardInv, ReaderFinds

\* A writer that ends is idle again.
LEMMA Ends ==
    ASSUME BoardTypes, NEW w \in Writers, writer' = [writer EXCEPT ![w] = Board!NoRebuild],
           UNCHANGED table, zset' \in Board!ScoreTables, reader' \in Reads,
           lastRows' \in Board!ScoreTables, torn' \in BOOLEAN
    PROVE  BoardTypes' /\ Board!Rebuilding' = Board!Rebuilding \ {w}
<1>1. PICK e \in Board!ScoreTables : e = Board!Empty
  BY EmptyTable
<1>2. PICK r : r = Board!NoRebuild
  OBVIOUS
<1>3. r = [pc |-> "idle", rows |-> e, todo |-> {}]
  BY <1>1, <1>2 DEF Board!NoRebuild
<1>4. r \in Rebuilds /\ r.pc = "idle" /\ TodoFits(r)
  BY <1>3 DEF Rebuilds, TodoFits
<1>5. writer' \in [Writers -> Rebuilds] /\ writer'[w] = r /\ \A v \in Writers \ {w} : writer'[v] = writer[v]
  BY <1>2, <1>4 DEF BoardTypes
<1>6. QED
  BY <1>4, <1>5 DEF BoardTypes, Board!Rebuilding

LEMMA FinishSound ==
    ASSUME BoardInv, NEW w \in Writers, Board!Finish(w)
    PROVE  BoardInv'
<1>1. /\ writer' = [writer EXCEPT ![w] = Board!NoRebuild] /\ UNCHANGED <<table, zset, reader, torn>>
      /\ lastRows' = writer[w].rows /\ writer[w].todo = {} /\ writer[w].pc = "add"
  BY DEF Board!Finish
<1>2. /\ lastRows' \in Board!ScoreTables /\ torn' \in BOOLEAN
      /\ zset \in Board!ScoreTables /\ zset' \in Board!ScoreTables /\ reader' \in Reads
  BY <1>1 DEF BoardInv, BoardTypes, Rebuilds
<1>3. BoardTypes' /\ Board!Rebuilding' = Board!Rebuilding \ {w}
  BY <1>1, <1>2, Ends DEF BoardInv
<1>4. w \in Board!Rebuilding
  BY <1>1 DEF Board!Rebuilding
<1>5. Partial(w) => zset = lastRows'
  <2> SUFFICES ASSUME Partial(w) PROVE zset = lastRows'
    OBVIOUS
  <2>1. DOMAIN zset = DOMAIN lastRows' /\ \A u \in DOMAIN zset : zset[u] = lastRows'[u]
    BY <1>1 DEF Partial
  <2>2. QED
    BY <1>2, <2>1, SameTable
<1>6. AloneAtWork'
  <2> SUFFICES ASSUME ~torn PROVE Board!Rebuilding' = {} /\ zset' = lastRows'
    BY <1>1 DEF AloneAtWork
  <2>1. Board!Rebuilding = {w} /\ Partial(w)
    BY <1>4 DEF BoardInv, AloneAtWork
  <2>2. QED
    BY <1>1, <1>3, <1>5, <2>1
<1>7. QED
  BY <1>1, <1>3, <1>6 DEF BoardInv, ReaderFinds

LEMMA RebuildFailsSound ==
    ASSUME BoardInv, NEW w \in Writers, Board!RebuildFails(w)
    PROVE  BoardInv'
<1>1. /\ writer' = [writer EXCEPT ![w] = Board!NoRebuild] /\ UNCHANGED <<table, lastRows>>
      /\ \/ UNCHANGED <<zset, reader>>
         \/ Board!Clear
      /\ torn' = TRUE \/ (writer[w].pc = "delete" /\ UNCHANGED <<zset, reader, torn>>)
  BY DEF Board!RebuildFails
<1>2. BoardTypes /\ AloneAtWork /\ ReaderFinds /\ reader \in Reads /\ zset \in Board!ScoreTables
  BY DEF BoardInv, BoardTypes
<1>3. /\ lastRows' \in Board!ScoreTables /\ torn' \in BOOLEAN /\ zset' \in Board!ScoreTables
      /\ reader' \in Reads /\ ReaderFinds'
  <2>1. lastRows' \in Board!ScoreTables /\ torn' \in BOOLEAN
    BY <1>1, <1>2 DEF BoardTypes
  <2>2. CASE UNCHANGED <<zset, reader>>
    BY <1>2, <2>1, <2>2 DEF ReaderFinds
  <2>3. CASE Board!Clear
    BY <1>2, <2>1, <2>3, Cuts, EmptyTable DEF Board!Clear, ReaderFinds
  <2>4. QED
    BY <1>1, <2>2, <2>3
<1>4. BoardTypes' /\ Board!Rebuilding' = Board!Rebuilding \ {w}
  BY <1>1, <1>2, <1>3, Ends
<1>5. AloneAtWork'
  <2> SUFFICES ASSUME ~torn' PROVE AloneAtWork'
    BY DEF AloneAtWork
  <2>1. writer[w].pc = "delete" /\ UNCHANGED <<zset, reader, torn>>
    BY <1>1
  <2>2. ~torn /\ Board!Rebuilding' = Board!Rebuilding /\ w \notin Board!Rebuilding
    BY <1>4, <2>1 DEF Board!Rebuilding
  <2>3. ASSUME NEW v \in Writers, v \in Board!Rebuilding PROVE Partial(v)' = Partial(v)
    BY <1>1, <1>2, <2>1, <2>2, <2>3 DEF Partial, Board!Rebuilding, BoardTypes
  <2>4. QED
    BY <1>1, <1>2, <2>1, <2>2, <2>3 DEF AloneAtWork
<1>6. QED
  BY <1>3, <1>4, <1>5 DEF BoardInv

\* A reader's steps.
LEMMA ReadsSound ==
    ASSUME BoardInv, Board!LeaderboardConstants,
           Board!ReadScore \/ Board!ReadRank \/ Board!Answer
    PROVE  BoardInv'
<1>1. UNCHANGED <<table, zset, writer, torn, lastRows>>
  BY DEF Board!ReadScore, Board!ReadRank, Board!Answer
<1>2. reader \in Reads /\ zset \in Board!ScoreTables
  BY DEF BoardInv, BoardTypes
<1>3. reader' \in Reads /\ ReaderFinds'
  <2>1. CASE Board!ReadScore
    <3>1. PICK u \in DOMAIN zset : reader' = [pc |-> "rank", user |-> u, cut |-> FALSE]
      BY <2>1 DEF Board!ReadScore
    <3>2. u \in Users
      BY <1>2, Tables DEF Board!IsScoreTable
    <3>3. QED
      BY <1>1, <3>1, <3>2 DEF Reads, ReaderFinds
  <2>2. CASE Board!ReadRank
    <3>1. PICK u : u = reader.user
      OBVIOUS
    <3>2. PICK n : n = IF u \in DOMAIN zset THEN Board!RankIn(zset, u) ELSE 1
      OBVIOUS
    <3>3. reader \in [pc : {"rank"}, user : Users, cut : BOOLEAN]
      BY <1>2, <2>2 DEF Reads, Board!ReadRank
    <3>4. reader' = [pc |-> "done", rank |-> n, user |-> u, cut |-> reader.cut]
      BY <2>2, <3>1, <3>2 DEF Board!ReadRank
    <3>5. IsFiniteSet(Users) /\ Users \subseteq Nat
      BY SameSizes DEF Board!LeaderboardConstants
    <3>6. n \in 1..Cardinality(Users)
      <4>1. CASE u \in DOMAIN zset
        BY <1>2, <3>2, <3>5, <4>1, RankTyped
      <4>2. CASE u \notin DOMAIN zset
        <5>1. u \in Users
          BY <3>1, <3>3
        <5>2. Cardinality(Users) \in Nat /\ Cardinality(Users) # 0
          BY <3>5, <5>1, FS_CardinalityType, FS_EmptySet
        <5>3. QED
          BY <3>2, <4>2, <5>2
      <4>3. QED
        BY <4>1, <4>2
    <3>7. QED
      BY <3>1, <3>3, <3>4, <3>6 DEF Reads, ReaderFinds
  <2>3. CASE Board!Answer
    BY <2>3 DEF Board!Answer, Board!NoReader, Reads, ReaderFinds
  <2>4. QED
    BY <2>1, <2>2, <2>3
<1>4. QED
  BY <1>1, <1>3 DEF BoardInv, BoardTypes, AloneAtWork, Board!Rebuilding, Partial

LEMMA BoardSteps ==
    ASSUME BoardInv, Board!LeaderboardConstants, Board!Next
    PROVE  BoardInv'
<1>1. CASE UNCHANGED board
  BY <1>1, BoardKept DEF board
<1>2. CASE \E u \in Users : Board!ScoreChanges(u)
  BY <1>2, ScoreChangesSound
<1>3. CASE \E w \in Writers : \/ Board!Query(w) \/ Board!Delete(w) \/ Board!ZAdd(w)
                              \/ Board!Finish(w) \/ Board!RebuildFails(w)
  BY <1>3, QuerySound, DeleteSound, ZAddSound, FinishSound, RebuildFailsSound
<1>4. CASE Board!ReadScore \/ Board!ReadRank \/ Board!Answer
  BY <1>4, ReadsSound
<1>5. QED
  BY <1>1, <1>2, <1>3, <1>4 DEF Board!Next, board, Board!board

\* The quotient by the scale is exact: a time stamp below the scale rounds away.
LEMMA ScoreDecodes ==
    ASSUME Scale \in Nat \ {0}, MaxPoints \in Nat
    PROVE  Board!ContestScoreDecodes
<1> USE DEF Board!Composite, Board!decode_contest_points
<1> SUFFICES ASSUME NEW p \in 0..MaxPoints, NEW q \in 0..MaxPoints,
                    NEW s \in 0..(Scale - 1), NEW t \in 0..(Scale - 1)
             PROVE  /\ Board!decode_contest_points(Board!Composite(p, s)) = p
                    /\ Board!Composite(p, s) > Board!Composite(q, t) <=>
                          p > q \/ (p = q /\ s < t)
  BY DEF Board!ContestScoreDecodes
<1>1. p \in Nat /\ q \in Nat /\ s \in Nat /\ t \in Nat /\ s < Scale /\ t < Scale
  OBVIOUS
<1>2. p * Scale \in Nat /\ q * Scale \in Nat
  BY <1>1
<1>3. ASSUME NEW x \in Nat, NEW y \in Nat, x > y PROVE x * Scale >= y * Scale + Scale
  <2>1. PICK d \in Nat : x = y + 1 + d
    <3>1. x - y - 1 \in Nat /\ x = y + 1 + (x - y - 1)
      BY <1>3
    <3>2. QED
      BY <3>1
  <2>2. x * Scale = y * Scale + Scale + d * Scale
    BY <2>1
  <2>3. d * Scale \in Nat /\ y * Scale \in Nat
    OBVIOUS
  <2>4. QED
    BY <2>2, <2>3
<1>4. p * Scale - s > q * Scale - t <=> p > q \/ (p = q /\ s < t)
  <2>1. CASE p > q
    <3>1. p * Scale >= q * Scale + Scale
      BY <1>1, <1>3, <2>1
    <3>2. QED
      BY <1>1, <1>2, <2>1, <3>1
  <2>2. CASE q > p
    <3>1. q * Scale >= p * Scale + Scale
      BY <1>1, <1>3, <2>2
    <3>2. QED
      BY <1>1, <1>2, <2>2, <3>1
  <2>3. CASE p = q
    <3>1. PICK a \in Nat : a = p * Scale
      BY <1>2
    <3>2. QED
      BY <1>1, <2>3, <3>1
  <2>4. QED
    BY <1>1, <2>1, <2>2, <2>3
<1>5. (s - p * Scale) \div Scale = -p
  <2>1. PICK k \in Int : k = (s - p * Scale) \div Scale
    BY <1>1, <1>2
  <2>2. s - p * Scale = k * Scale + ((s - p * Scale) % Scale)
        /\ (s - p * Scale) % Scale \in 0..(Scale - 1)
    BY <1>1, <1>2, <2>1
  <2>3. QED
    BY <1>1, <1>2, <2>1, <2>2
<1>6. -(p * Scale - s) = s - p * Scale
  BY <1>1, <1>2
<1>7. QED
  BY <1>1, <1>4, <1>5, <1>6
-----------------------------------------------------------------------------
(* The list.  It holds the copies that were pushed last, backward; what    *)
(* the worker holds was pushed just before them, and what was delivered    *)
(* before that (Gone), in the same order.                                  *)

MailTypes ==
    /\ request \in [Messages -> {"none", "again", "202", "500"}]
    /\ pushed \in Seq(Messages) /\ repeated \subseteq Messages
    /\ outbound \in Seq(Nat) /\ delivered \in Seq(Nat) /\ dlq \in Seq(Nat)
    /\ held \subseteq Nat
    /\ mustBury \in BOOLEAN /\ (mustBury => held # {})
    /\ alive \in BOOLEAN /\ (~alive => held = {})
    /\ losses \in Nat

\* A message is pushed by its request, and once more when the first push had no answer.
PushedTwiceAtMost ==
    /\ \A k \in DOMAIN pushed :
          /\ request[pushed[k]] # "none"
          /\ request[pushed[k]] = "again" => pushed[k] \in repeated
    /\ \A k, l \in DOMAIN pushed :
          pushed[k] = pushed[l] /\ k # l => pushed[k] \in repeated /\ request[pushed[k]] # "again"
    /\ \A k, l, n \in DOMAIN pushed :
          pushed[k] = pushed[l] /\ pushed[n] = pushed[k] /\ k # l => n \in {k, l}
    /\ \A m \in Messages : request[m] = "202" => \E k \in DOMAIN pushed : pushed[k] = m

\* How many copies have left the list.
Gone == Len(pushed) - Len(outbound)

ListIsTheRest ==
    /\ Gone \in Nat
    /\ \A i \in 1..Len(outbound) : outbound[i] = Len(pushed) + 1 - i
    /\ held # {} => Gone # 0 /\ held = {Gone}
    /\ Mail!ToSet(dlq) \subseteq 1..Len(pushed)

\* Copy c was delivered, or may be.
Past(c) == c \in 1..Gone /\ (held # {} /\ ~mustBury => c # Gone)

DeliveredPast ==
    /\ \A i \in DOMAIN delivered : Past(delivered[i])
    /\ \A i, j \in DOMAIN delivered : i < j => delivered[i] < delivered[j]

Kept == Mail!ToSet(outbound) \cup held \cup Mail!ToSet(delivered) \cup Mail!ToSet(dlq)
Missing == (1..Len(pushed)) \ Kept
LossesCounted == Cardinality(Missing) <= losses

MailInv == MailTypes /\ PushedTwiceAtMost /\ ListIsTheRest /\ DeliveredPast /\ LossesCounted

LEMMA MailStarts ==
    ASSUME Mail!Init, Mail!QueueConstants
    PROVE  MailInv
<1>1. /\ request = [m \in Messages |-> "none"] /\ outbound = <<>> /\ delivered = <<>>
      /\ dlq = <<>> /\ pushed = <<>> /\ repeated = {} /\ held = {} /\ mustBury = FALSE
      /\ alive = TRUE /\ losses = 0
  BY DEF Mail!Init
<1>2. MailTypes
  <2>1. request \in [Messages -> {"none", "again", "202", "500"}]
    BY <1>1
  <2>2. <<>> \in Seq(Messages) /\ <<>> \in Seq(Nat)
    OBVIOUS
  <2>3. QED
    BY <1>1, <2>1, <2>2 DEF MailTypes
<1>3. PushedTwiceAtMost /\ ListIsTheRest /\ DeliveredPast
  BY <1>1 DEF PushedTwiceAtMost, ListIsTheRest, DeliveredPast, Gone, Mail!ToSet
<1>4. Missing = {}
  BY <1>1 DEF Missing
<1>5. LossesCounted
  BY <1>1, <1>4, FS_EmptySet DEF LossesCounted
<1>6. QED
  BY <1>2, <1>3, <1>5 DEF MailInv

\* A list put before another one, one element before a list, and one behind it.
LEMMA Joined ==
    ASSUME NEW S, NEW p \in Seq(S), NEW q \in Seq(S)
    PROVE  p \o q \in Seq(S) /\ Mail!ToSet(p \o q) = Mail!ToSet(p) \cup Mail!ToSet(q)
<1> DEFINE r == p \o q
           a == Len(p)
           b == Len(q)
<1>1. r \in Seq(S) /\ Len(r) = a + b /\ a \in Nat /\ b \in Nat
  OBVIOUS
<1>2. DOMAIN r = 1..(a + b) /\ DOMAIN p = 1..a /\ DOMAIN q = 1..b
  BY <1>1
<1>3. \A i \in 1..a : r[i] = p[i]
  OBVIOUS
<1>4. \A i \in 1..b : r[a + i] = q[i]
  OBVIOUS
<1>5. \A i \in 1..(a + b) : i \in 1..a \/ (i - a \in 1..b /\ i = a + (i - a))
  BY <1>1
<1> HIDE DEF r, a, b
<1>6. Mail!ToSet(r) \subseteq Mail!ToSet(p) \cup Mail!ToSet(q)
  <2> SUFFICES ASSUME NEW i \in 1..(a + b) PROVE r[i] \in Mail!ToSet(p) \cup Mail!ToSet(q)
    BY <1>2 DEF Mail!ToSet
  <2>1. CASE i \in 1..a
    BY <1>2, <1>3, <2>1 DEF Mail!ToSet
  <2>2. CASE i - a \in 1..b /\ i = a + (i - a)
    <3>1. r[i] = q[i - a]
      BY <1>4, <2>2
    <3>2. QED
      BY <1>2, <2>2, <3>1 DEF Mail!ToSet
  <2>3. QED
    BY <1>5, <2>1, <2>2
<1>7. Mail!ToSet(p) \cup Mail!ToSet(q) \subseteq Mail!ToSet(r)
  <2>1. \A i \in 1..a : p[i] \in Mail!ToSet(r)
    <3> SUFFICES ASSUME NEW i \in 1..a PROVE p[i] \in Mail!ToSet(r)
      OBVIOUS
    <3>1. i \in DOMAIN r /\ r[i] = p[i]
      BY <1>1, <1>2, <1>3
    <3>2. QED
      BY <3>1 DEF Mail!ToSet
  <2>2. \A i \in 1..b : q[i] \in Mail!ToSet(r)
    <3> SUFFICES ASSUME NEW i \in 1..b PROVE q[i] \in Mail!ToSet(r)
      OBVIOUS
    <3>1. a + i \in DOMAIN r /\ r[a + i] = q[i]
      BY <1>1, <1>2, <1>4
    <3>2. QED
      BY <3>1 DEF Mail!ToSet
  <2>3. QED
    BY <1>2, <2>1, <2>2 DEF Mail!ToSet
<1>8. QED
  BY <1>1, <1>6, <1>7 DEF r

LEMMA Pushing ==
    ASSUME NEW S, NEW q \in Seq(S), NEW m \in S
    PROVE  /\ <<m>> \o q \in Seq(S) /\ Len(<<m>> \o q) = Len(q) + 1
           /\ (<<m>> \o q)[1] = m
           /\ \A i \in 1..Len(q) : (<<m>> \o q)[i + 1] = q[i]
           /\ Mail!ToSet(<<m>> \o q) = Mail!ToSet(q) \cup {m}
<1>1. <<m>> \o q \in Seq(S) /\ Len(<<m>> \o q) = Len(q) + 1 /\ (<<m>> \o q)[1] = m
  OBVIOUS
<1>2. \A i \in 1..Len(q) : (<<m>> \o q)[i + 1] = q[i]
  OBVIOUS
<1>3. <<m>> \in Seq(S) /\ DOMAIN <<m>> = {1} /\ <<m>>[1] = m
  OBVIOUS
<1>4. Mail!ToSet(<<m>>) = {m}
  BY <1>3 DEF Mail!ToSet
<1>5. Mail!ToSet(<<m>> \o q) = Mail!ToSet(<<m>>) \cup Mail!ToSet(q)
  BY <1>3, Joined
<1>6. QED
  BY <1>1, <1>2, <1>4, <1>5

LEMMA Appending ==
    ASSUME NEW S, NEW q \in Seq(S), NEW m \in S
    PROVE  /\ Append(q, m) \in Seq(S) /\ Len(Append(q, m)) = Len(q) + 1
           /\ Append(q, m)[Len(q) + 1] = m
           /\ \A i \in 1..Len(q) : Append(q, m)[i] = q[i]
           /\ Mail!ToSet(Append(q, m)) = Mail!ToSet(q) \cup {m}
<1> DEFINE r == Append(q, m)
<1>1. r \in Seq(S) /\ Len(r) = Len(q) + 1 /\ r[Len(q) + 1] = m
  OBVIOUS
<1>2. \A i \in 1..Len(q) : r[i] = q[i]
  OBVIOUS
<1>3. DOMAIN r = 1..(Len(q) + 1) /\ DOMAIN q = 1..Len(q) /\ Len(q) \in Nat
  BY <1>1
<1> HIDE DEF r
<1>4. Mail!ToSet(r) = Mail!ToSet(q) \cup {m}
  BY <1>1, <1>2, <1>3 DEF Mail!ToSet
<1>5. QED
  BY <1>1, <1>2, <1>4 DEF r

\* The last of a list taken off it.
LEMMA Popping ==
    ASSUME NEW S, NEW q \in Seq(S), q # <<>>
    PROVE  /\ Mail!Front(q) \in Seq(S) /\ Len(Mail!Front(q)) = Len(q) - 1
           /\ Mail!Last(q) = q[Len(q)] /\ Mail!Last(q) \in S /\ Len(q) # 0
           /\ \A i \in 1..(Len(q) - 1) : Mail!Front(q)[i] = q[i]
           /\ Mail!ToSet(q) = Mail!ToSet(Mail!Front(q)) \cup {Mail!Last(q)}
<1> DEFINE n == Len(q)
<1>1. n \in Nat /\ n # 0 /\ DOMAIN q = 1..n
  OBVIOUS
<1>2. Mail!Last(q) = q[n] /\ q[n] \in S
  BY <1>1 DEF Mail!Last
<1>3. PICK r : r = Mail!Front(q)
  OBVIOUS
<1>4. r \in Seq(S) /\ Len(r) = n - 1 /\ \A i \in 1..(n - 1) : r[i] = q[i]
  BY <1>1, <1>3 DEF Mail!Front
<1>5. DOMAIN r = 1..(n - 1)
  BY <1>4
<1>6. Mail!ToSet(q) = Mail!ToSet(r) \cup {q[n]}
  BY <1>1, <1>4, <1>5 DEF Mail!ToSet
<1>7. QED
  BY <1>1, <1>2, <1>3, <1>4, <1>6

\* What is missing grows by what the step loses at most.
LEMMA LossesGrow ==
    ASSUME MailTypes, LossesCounted, NEW X, IsFiniteSet(X), Missing' \subseteq Missing \cup X,
           losses' = losses + Cardinality(X)
    PROVE  LossesCounted' /\ losses' \in Nat
<1>1. PICK S : S = Missing
  OBVIOUS
<1>2. PICK T : T = Missing'
  OBVIOUS
<1>3. Len(pushed) \in Nat
  BY DEF MailTypes
<1>4. IsFiniteSet(S)
  <2>1. IsFiniteSet(1..Len(pushed))
    BY <1>3, FS_Interval
  <2>2. S \subseteq 1..Len(pushed)
    BY <1>1 DEF Missing
  <2>3. QED
    BY <2>1, <2>2, FS_Subset
<1>5. /\ IsFiniteSet(S \cup X)
      /\ Cardinality(S \cup X) = Cardinality(S) + Cardinality(X) - Cardinality(S \cap X)
  BY <1>4, FS_Union
<1>6. T \subseteq S \cup X
  BY <1>1, <1>2
<1>7. Cardinality(T) <= Cardinality(S \cup X) /\ IsFiniteSet(T)
  BY <1>5, <1>6, FS_Subset
<1>8. IsFiniteSet(S \cap X)
  BY <1>4, FS_Subset, S \cap X \subseteq S
<1>9. /\ Cardinality(S) \in Nat /\ Cardinality(X) \in Nat /\ Cardinality(S \cap X) \in Nat
      /\ Cardinality(T) \in Nat
  BY <1>4, <1>7, <1>8, FS_CardinalityType
<1>10. losses \in Nat /\ Cardinality(S) <= losses
  BY <1>1 DEF MailTypes, LossesCounted
<1>11. Cardinality(T) <= losses' /\ losses' \in Nat
  BY <1>5, <1>7, <1>9, <1>10
<1>12. QED
  BY <1>2, <1>11 DEF LossesCounted

\* Nothing is lost by a step that keeps what was kept, and what it pushes.
LEMMA NoneLost ==
    ASSUME MailTypes, LossesCounted, losses' = losses, Missing' \subseteq Missing
    PROVE  LossesCounted'
<1>1. IsFiniteSet({}) /\ Cardinality({}) = 0
  BY FS_EmptySet
<1>2. losses' = losses + Cardinality({})
  BY <1>1 DEF MailTypes
<1>3. QED
  BY <1>1, <1>2, LossesGrow

LEMMA MailKept ==
    ASSUME MailInv,
           UNCHANGED <<request, outbound, held, mustBury, delivered, dlq, losses, pushed, repeated>>,
           alive' \in BOOLEAN, ~alive' => held = {}
    PROVE  MailInv'
BY DEF MailInv, MailTypes, PushedTwiceAtMost, ListIsTheRest, DeliveredPast, LossesCounted, Gone,
       Past, Missing, Kept

\* An LPUSH puts one more copy at the head of the list.
LEMMA EnqueueSound ==
    ASSUME MailInv, NEW m \in Messages, Mail!Enqueue(m),
           UNCHANGED <<held, mustBury, delivered, dlq, losses>>
    PROVE  /\ outbound' \in Seq(Nat) /\ pushed' \in Seq(Messages)
           /\ DOMAIN pushed' = 1..(Len(pushed) + 1) /\ pushed'[Len(pushed) + 1] = m
           /\ \A i \in 1..Len(pushed) : pushed'[i] = pushed[i]
           /\ ListIsTheRest' /\ DeliveredPast' /\ LossesCounted'
<1> DEFINE n == Len(pushed)
           h == Len(outbound)
<1>1. MailTypes /\ ListIsTheRest /\ DeliveredPast /\ LossesCounted
  BY DEF MailInv
<1>2. outbound \in Seq(Nat) /\ pushed \in Seq(Messages) /\ n \in Nat /\ h \in Nat
  BY <1>1 DEF MailTypes
<1>3. /\ pushed' \in Seq(Messages) /\ Len(pushed') = n + 1 /\ pushed'[n + 1] = m
      /\ \A i \in 1..n : pushed'[i] = pushed[i]
  BY <1>2, Appending DEF Mail!Enqueue
<1>4. outbound' = <<n + 1>> \o outbound /\ n + 1 \in Nat
  BY <1>2, <1>3 DEF Mail!Enqueue
<1>5. /\ outbound' \in Seq(Nat) /\ Len(outbound') = h + 1 /\ outbound'[1] = n + 1
      /\ \A i \in 1..h : outbound'[i + 1] = outbound[i]
      /\ Mail!ToSet(outbound') = Mail!ToSet(outbound) \cup {n + 1}
  BY <1>2, <1>4, Pushing
<1>6. Gone' = Gone /\ Gone \in Nat
  BY <1>1, <1>2, <1>3, <1>5 DEF Gone, ListIsTheRest
<1>7. \A i \in 1..Len(outbound') : outbound'[i] = Len(pushed') + 1 - i
  <2> SUFFICES ASSUME NEW i \in 1..(h + 1) PROVE outbound'[i] = n + 2 - i
    BY <1>2, <1>3, <1>5
  <2>1. CASE i = 1
    BY <1>2, <1>5, <2>1
  <2>2. CASE i # 1
    <3>1. i - 1 \in 1..h /\ i = (i - 1) + 1
      BY <1>2, <2>2
    <3>2. outbound'[i] = outbound[i - 1]
      BY <1>5, <3>1
    <3>3. outbound[i - 1] = n + 1 - (i - 1)
      BY <1>1, <3>1 DEF ListIsTheRest
    <3>4. QED
      BY <1>2, <3>2, <3>3
  <2>3. QED
    BY <2>1, <2>2
<1>8. ListIsTheRest'
  <2>1. Mail!ToSet(dlq)' \subseteq 1..Len(pushed')
    <3>1. Mail!ToSet(dlq)' = Mail!ToSet(dlq)
      OBVIOUS
    <3>2. Mail!ToSet(dlq) \subseteq 1..n /\ 1..n \subseteq 1..(n + 1)
      BY <1>1, <1>2 DEF ListIsTheRest
    <3>3. QED
      BY <1>3, <3>1, <3>2
  <2>2. held' # {} => Gone' # 0 /\ held' = {Gone'}
    BY <1>1, <1>6 DEF ListIsTheRest
  <2>3. QED
    BY <1>6, <1>7, <2>1, <2>2 DEF ListIsTheRest
<1>9. DeliveredPast'
  <2>1. \A c : Past(c)' <=> Past(c)
    BY <1>6 DEF Past
  <2>2. QED
    BY <1>1, <2>1 DEF DeliveredPast
<1>10. LossesCounted'
  <2>1. Missing' \subseteq Missing
    <3>1. 1..Len(pushed') \subseteq (1..n) \cup {n + 1}
      BY <1>2, <1>3
    <3>2. Kept' = Kept \cup {n + 1}
      BY <1>5 DEF Kept
    <3>3. QED
      BY <3>1, <3>2 DEF Missing
  <2>2. QED
    BY <1>1, <2>1, NoneLost
<1>11. QED
  BY <1>2, <1>3, <1>5, <1>8, <1>9, <1>10

\* The first LPUSH of a request, or the second, or none of them.
LEMMA PushSound ==
    ASSUME MailInv, NEW m \in Messages, NEW st \in {"again", "202", "500"},
           request' = [request EXCEPT ![m] = st],
           UNCHANGED <<held, mustBury, alive, delivered, dlq, losses>>,
           \/ request[m] = "none" /\ repeated' = (IF st = "again" THEN repeated \cup {m} ELSE repeated)
           \/ request[m] = "again" /\ st # "again" /\ UNCHANGED repeated,
           Mail!Enqueue(m)
    PROVE  MailInv'
<1> DEFINE n == Len(pushed)
<1>1. MailTypes /\ PushedTwiceAtMost
  BY DEF MailInv
<1>2. /\ outbound' \in Seq(Nat) /\ pushed' \in Seq(Messages)
      /\ DOMAIN pushed' = 1..(n + 1) /\ pushed'[n + 1] = m
      /\ \A i \in 1..n : pushed'[i] = pushed[i]
      /\ ListIsTheRest' /\ DeliveredPast' /\ LossesCounted'
  BY EnqueueSound
<1>3. n \in Nat /\ DOMAIN pushed = 1..n /\ \A k \in 1..n : pushed[k] \in Messages
  BY <1>1 DEF MailTypes
<1>4. /\ request' \in [Messages -> {"none", "again", "202", "500"}] /\ request'[m] = st
      /\ \A x \in Messages \ {m} : request'[x] = request[x]
  BY <1>1 DEF MailTypes
<1>5. repeated' \subseteq Messages /\ repeated \subseteq repeated' /\ (st = "again" => m \in repeated')
  BY <1>1 DEF MailTypes
<1>6. MailTypes'
  BY <1>1, <1>2, <1>4, <1>5 DEF MailTypes
<1>7. \A k \in 1..n : pushed[k] = m => m \in repeated /\ st # "again" /\ request[m] = "again"
  BY <1>1, <1>3 DEF PushedTwiceAtMost
<1>8. \A k, l \in 1..n : pushed[k] = m /\ pushed[l] = m => k = l
  BY <1>1, <1>3, <1>7 DEF PushedTwiceAtMost
<1>9. \A k \in 1..(n + 1) : k \in 1..n \/ k = n + 1
  BY <1>3
<1>10. \A k \in 1..(n + 1) :
          /\ request'[pushed'[k]] # "none"
          /\ request'[pushed'[k]] = "again" => pushed'[k] \in repeated'
  <2> SUFFICES ASSUME NEW k \in 1..(n + 1)
               PROVE  /\ request'[pushed'[k]] # "none"
                      /\ request'[pushed'[k]] = "again" => pushed'[k] \in repeated'
    OBVIOUS
  <2>1. CASE pushed'[k] = m
    BY <1>4, <1>5, <2>1
  <2>2. CASE pushed'[k] # m
    <3>1. k \in 1..n /\ pushed'[k] = pushed[k]
      BY <1>2, <1>9, <2>2
    <3>2. request'[pushed[k]] = request[pushed[k]]
      BY <1>3, <1>4, <2>2, <3>1
    <3>3. QED
      BY <1>1, <1>3, <1>5, <3>1, <3>2 DEF PushedTwiceAtMost
  <2>3. QED
    BY <2>1, <2>2
<1>11. \A k, l \in 1..(n + 1) : pushed'[k] = pushed'[l] /\ k # l =>
          pushed'[k] \in repeated' /\ request'[pushed'[k]] # "again"
  <2> SUFFICES ASSUME NEW k \in 1..(n + 1), NEW l \in 1..(n + 1), pushed'[k] = pushed'[l], k # l
               PROVE  pushed'[k] \in repeated' /\ request'[pushed'[k]] # "again"
    OBVIOUS
  <2>1. CASE pushed'[k] = m
    <3>1. PICK i \in 1..n : pushed[i] = m
      BY <1>2, <1>9, <2>1
    <3>2. QED
      BY <1>4, <1>5, <1>7, <2>1, <3>1
  <2>2. CASE pushed'[k] # m
    <3>1. /\ k \in 1..n /\ l \in 1..n /\ pushed'[k] = pushed[k] /\ pushed'[l] = pushed[l]
      BY <1>2, <1>9, <2>2
    <3>2. request'[pushed[k]] = request[pushed[k]]
      BY <1>3, <1>4, <2>2, <3>1
    <3>3. QED
      BY <1>1, <1>3, <1>5, <3>1, <3>2 DEF PushedTwiceAtMost
  <2>3. QED
    BY <2>1, <2>2
<1>12. \A k, l, i \in 1..(n + 1) :
          pushed'[k] = pushed'[l] /\ pushed'[i] = pushed'[k] /\ k # l => i \in {k, l}
  <2> SUFFICES ASSUME NEW k \in 1..(n + 1), NEW l \in 1..(n + 1), NEW i \in 1..(n + 1),
                      pushed'[k] = pushed'[l], pushed'[i] = pushed'[k], k # l
               PROVE  i \in {k, l}
    OBVIOUS
  <2>1. CASE pushed'[k] = m
    <3>1. \A a, b \in 1..(n + 1) : pushed'[a] = m /\ pushed'[b] = m => a = b \/ a = n + 1 \/ b = n + 1
      BY <1>2, <1>8, <1>9
    <3>2. QED
      BY <2>1, <3>1
  <2>2. CASE pushed'[k] # m
    <3>1. /\ k \in 1..n /\ l \in 1..n /\ i \in 1..n
          /\ pushed'[k] = pushed[k] /\ pushed'[l] = pushed[l] /\ pushed'[i] = pushed[i]
      BY <1>2, <1>9, <2>2
    <3>2. QED
      BY <1>1, <1>3, <3>1 DEF PushedTwiceAtMost
  <2>3. QED
    BY <2>1, <2>2
<1>13. \A x \in Messages : request'[x] = "202" => \E k \in 1..(n + 1) : pushed'[k] = x
  <2> SUFFICES ASSUME NEW x \in Messages, request'[x] = "202"
               PROVE  \E k \in 1..(n + 1) : pushed'[k] = x
    OBVIOUS
  <2>1. CASE x = m
    <3>1. n + 1 \in 1..(n + 1)
      BY <1>3
    <3>2. QED
      BY <1>2, <2>1, <3>1
  <2>2. CASE x # m
    <3>1. PICK k \in 1..n : pushed[k] = x
      BY <1>1, <1>3, <1>4, <2>2 DEF PushedTwiceAtMost
    <3>2. k \in 1..(n + 1) /\ pushed'[k] = x
      BY <1>2, <1>3, <3>1
    <3>3. QED
      BY <3>2
  <2>3. QED
    BY <2>1, <2>2
<1>14. PushedTwiceAtMost'
  BY <1>2, <1>10, <1>11, <1>12, <1>13 DEF PushedTwiceAtMost
<1>15. QED
  BY <1>2, <1>6, <1>14 DEF MailInv

LEMMA NotPushedSound ==
    ASSUME MailInv, NEW m \in Messages, NEW st \in {"again", "500"},
           request' = [request EXCEPT ![m] = st], Mail!NotEnqueued,
           UNCHANGED <<held, mustBury, alive, delivered, dlq, losses, repeated>>,
           \/ request[m] = "none"
           \/ request[m] = "again" /\ st # "again"
    PROVE  MailInv'
<1>1. /\ MailTypes /\ PushedTwiceAtMost /\ ListIsTheRest /\ DeliveredPast /\ LossesCounted
      /\ UNCHANGED <<outbound, pushed>>
  BY DEF MailInv, Mail!NotEnqueued
<1>2. /\ request' \in [Messages -> {"none", "again", "202", "500"}] /\ request'[m] = st
      /\ \A x \in Messages \ {m} : request'[x] = request[x]
  BY <1>1 DEF MailTypes
<1>3. \A k \in DOMAIN pushed : pushed[k] \in Messages
  BY <1>1 DEF MailTypes
<1>4. \A k \in DOMAIN pushed : request'[pushed[k]] # "none" /\
          (request'[pushed[k]] = "again" => request[pushed[k]] = "again")
  BY <1>1, <1>2, <1>3 DEF PushedTwiceAtMost
<1>5. \A x \in Messages : request'[x] = "202" => request[x] = "202"
  BY <1>2
<1>6. PushedTwiceAtMost'
  BY <1>1, <1>3, <1>4, <1>5 DEF PushedTwiceAtMost
<1>7. MailTypes'
  BY <1>1, <1>2 DEF MailTypes
<1>8. ListIsTheRest' /\ DeliveredPast' /\ LossesCounted'
  BY <1>1 DEF ListIsTheRest, DeliveredPast, Gone, Past, LossesCounted, Missing, Kept
<1>9. QED
  BY <1>6, <1>7, <1>8 DEF MailInv

LEMMA PostSound ==
    ASSUME MailInv, NEW m \in Messages, Mail!Post(m) \/ Mail!Repeat(m)
    PROVE  MailInv'
<1>1. UNCHANGED <<held, mustBury, alive, delivered, dlq, losses>>
  BY DEF Mail!Post, Mail!Repeat
<1>2. CASE Mail!Post(m)
  <2>1. CASE Mail!Answered(m) /\ UNCHANGED repeated
    BY <1>1, <1>2, <2>1, PushSound DEF Mail!Post, Mail!Answered
  <2>2. CASE request' = [request EXCEPT ![m] = "again"]
    BY <1>1, <1>2, <2>2, PushSound, NotPushedSound DEF Mail!Post, Mail!Answered
  <2>3. QED
    BY <1>2, <2>1, <2>2 DEF Mail!Post
<1>3. CASE Mail!Repeat(m)
  BY <1>1, <1>3, PushSound, NotPushedSound DEF Mail!Repeat, Mail!Answered
<1>4. QED
  BY <1>2, <1>3

LEMMA PopSound ==
    ASSUME MailInv, Mail!Pop
    PROVE  MailInv'
<1> DEFINE n == Len(pushed)
           h == Len(outbound)
<1>1. PICK c : c = Mail!Last(outbound)
  OBVIOUS
<1>2. /\ alive /\ held = {} /\ outbound # <<>> /\ outbound' = Mail!Front(outbound)
      /\ UNCHANGED <<request, mustBury, alive, delivered, dlq, pushed, repeated>>
      /\ \/ held' = {c} /\ losses' = losses
         \/ held' = {} /\ losses' = losses + 1
  BY <1>1 DEF Mail!Pop
<1>3. MailTypes /\ PushedTwiceAtMost /\ ListIsTheRest /\ DeliveredPast /\ LossesCounted
  BY DEF MailInv
<1>4. outbound \in Seq(Nat) /\ pushed \in Seq(Messages) /\ n \in Nat /\ h \in Nat
  BY <1>3 DEF MailTypes
<1>5. /\ outbound' \in Seq(Nat) /\ Len(outbound') = h - 1 /\ h # 0
      /\ c = outbound[h] /\ c \in Nat
      /\ \A i \in 1..(h - 1) : outbound'[i] = outbound[i]
      /\ Mail!ToSet(outbound) = Mail!ToSet(outbound') \cup {c}
  BY <1>1, <1>2, <1>4, Popping
<1>6. MailTypes'
  BY <1>2, <1>3, <1>5 DEF MailTypes
<1>7. PushedTwiceAtMost'
  BY <1>2, <1>3 DEF PushedTwiceAtMost
<1>8. Gone' = Gone + 1 /\ Gone = n - h /\ Gone \in Nat
  BY <1>2, <1>3, <1>4, <1>5 DEF Gone, ListIsTheRest
<1>9. c = Gone + 1
  <2>1. c = n + 1 - h
    BY <1>3, <1>4, <1>5 DEF ListIsTheRest
  <2>2. QED
    BY <1>4, <1>8, <2>1
<1>10. ListIsTheRest'
  <2>1. ASSUME NEW i \in 1..(h - 1) PROVE outbound'[i] = n + 1 - i
    <3>1. i \in 1..h /\ outbound'[i] = outbound[i]
      BY <1>4, <1>5
    <3>2. QED
      BY <1>3, <3>1 DEF ListIsTheRest
  <2>2. held' # {} => Gone' # 0 /\ held' = {Gone'}
    BY <1>2, <1>8, <1>9
  <2>3. Mail!ToSet(dlq)' \subseteq 1..Len(pushed')
    BY <1>2, <1>3 DEF ListIsTheRest
  <2>4. QED
    BY <1>2, <1>5, <1>8, <2>1, <2>2, <2>3 DEF ListIsTheRest
<1>11. DeliveredPast'
  <2>1. ~mustBury
    BY <1>2, <1>3 DEF MailTypes
  <2>2. \A x : Past(x) => Past(x)'
    BY <1>2, <1>8, <2>1 DEF Past
  <2>3. QED
    BY <1>2, <1>3, <2>2 DEF DeliveredPast
<1>12. LossesCounted'
  <2>1. CASE held' = {c} /\ losses' = losses
    <3>1. Missing' \subseteq Missing
      BY <1>2, <1>5, <2>1 DEF Missing, Kept
    <3>2. QED
      BY <1>3, <2>1, <3>1, NoneLost
  <2>2. CASE held' = {} /\ losses' = losses + 1
    <3>1. Missing' \subseteq Missing \cup {c}
      BY <1>2, <1>5, <2>2 DEF Missing, Kept
    <3>2. IsFiniteSet({c}) /\ Cardinality({c}) = 1
      BY FS_Singleton
    <3>3. QED
      BY <1>3, <2>2, <3>1, <3>2, LossesGrow
  <2>3. QED
    BY <1>2, <2>1, <2>2
<1>13. QED
  BY <1>6, <1>7, <1>10, <1>11, <1>12 DEF MailInv

\* One more is delivered: what the worker holds, which was not delivered yet.
LEMMA DeliveredMore ==
    ASSUME MailInv, NEW c \in held, ~mustBury, delivered' = Append(delivered, c)
    PROVE  /\ delivered' \in Seq(Nat)
           /\ Mail!ToSet(delivered') = Mail!ToSet(delivered) \cup {c}
           /\ \A i \in DOMAIN delivered' : delivered'[i] \in 1..Gone
           /\ \A i, j \in DOMAIN delivered' : i < j => delivered'[i] < delivered'[j]
<1> DEFINE d == Len(delivered)
<1>1. MailTypes /\ ListIsTheRest /\ DeliveredPast
  BY DEF MailInv
<1>2. /\ delivered \in Seq(Nat) /\ held \subseteq Nat
      /\ d \in Nat /\ DOMAIN delivered = 1..d
  BY <1>1 DEF MailTypes
<1>3. c = Gone /\ Gone \in Nat \ {0}
  BY <1>1 DEF ListIsTheRest
<1>4. /\ delivered' \in Seq(Nat) /\ Len(delivered') = d + 1 /\ delivered'[d + 1] = c
      /\ \A i \in 1..d : delivered'[i] = delivered[i]
      /\ Mail!ToSet(delivered') = Mail!ToSet(delivered) \cup {c}
  BY <1>2, Appending
<1>5. DOMAIN delivered' = 1..(d + 1)
  BY <1>2, <1>4
<1>6. \A i \in 1..d : delivered'[i] \in 1..Gone /\ delivered'[i] < c
  BY <1>1, <1>2, <1>3, <1>4 DEF DeliveredPast, Past
<1>7. \A i \in 1..(d + 1) : delivered'[i] \in 1..Gone
  BY <1>2, <1>3, <1>4, <1>6
<1>8. \A i, j \in 1..(d + 1) : i < j => delivered'[i] < delivered'[j]
  <2> SUFFICES ASSUME NEW i \in 1..(d + 1), NEW j \in 1..(d + 1), i < j
               PROVE  delivered'[i] < delivered'[j]
    OBVIOUS
  <2>1. i \in 1..d
    BY <1>2
  <2>2. CASE j = d + 1
    BY <1>4, <1>6, <2>1, <2>2
  <2>3. CASE j \in 1..d
    BY <1>1, <1>2, <1>4, <2>1, <2>3 DEF DeliveredPast
  <2>4. QED
    BY <1>2, <2>2, <2>3
<1>9. QED
  BY <1>4, <1>5, <1>7, <1>8

\* The worker's hand is empty again: what was delivered is past.
LEMMA DeliverSound ==
    ASSUME MailInv, Mail!Deliver
    PROVE  MailInv'
<1>1. PICK c \in held : delivered' = Append(delivered, c)
  BY DEF Mail!Deliver
<1>2. /\ ~mustBury /\ held' = {}
      /\ UNCHANGED <<request, outbound, mustBury, alive, dlq, losses, pushed, repeated>>
  BY DEF Mail!Deliver
<1>3. MailTypes /\ PushedTwiceAtMost /\ ListIsTheRest /\ LossesCounted
  BY DEF MailInv
<1>4. /\ delivered' \in Seq(Nat)
      /\ Mail!ToSet(delivered') = Mail!ToSet(delivered) \cup {c}
      /\ \A i \in DOMAIN delivered' : delivered'[i] \in 1..Gone
      /\ \A i, j \in DOMAIN delivered' : i < j => delivered'[i] < delivered'[j]
  BY <1>1, <1>2, DeliveredMore
<1>5. MailTypes' /\ PushedTwiceAtMost' /\ ListIsTheRest'
  BY <1>2, <1>3, <1>4 DEF MailTypes, PushedTwiceAtMost, ListIsTheRest, Gone
<1>6. DeliveredPast'
  BY <1>2, <1>4 DEF DeliveredPast, Past, Gone
<1>7. LossesCounted'
  <2>1. held = {c}
    BY <1>1, <1>3 DEF ListIsTheRest
  <2>2. Missing' \subseteq Missing
    BY <1>2, <1>4, <2>1 DEF Missing, Kept
  <2>3. QED
    BY <1>2, <1>3, <2>2, NoneLost
<1>8. QED
  BY <1>5, <1>6, <1>7 DEF MailInv

LEMMA DeliverFailsSound ==
    ASSUME MailInv, Mail!DeliverFails
    PROVE  MailInv'
<1>1. /\ ~mustBury /\ mustBury' = TRUE /\ held # {}
      /\ UNCHANGED <<request, outbound, held, alive, dlq, losses, pushed, repeated>>
  BY DEF Mail!DeliverFails
<1>2. MailTypes /\ PushedTwiceAtMost /\ ListIsTheRest /\ DeliveredPast /\ LossesCounted
  BY DEF MailInv
<1>3. \A c \in 1..Gone : Past(c)'
  BY <1>1 DEF Past, Gone
<1>4. /\ delivered' \in Seq(Nat) /\ Mail!ToSet(delivered) \subseteq Mail!ToSet(delivered')
      /\ \A i \in DOMAIN delivered' : delivered'[i] \in 1..Gone
      /\ \A i, j \in DOMAIN delivered' : i < j => delivered'[i] < delivered'[j]
  <2>1. CASE UNCHANGED delivered
    BY <1>2, <2>1 DEF MailTypes, DeliveredPast, Past
  <2>2. CASE \E c \in held : delivered' = Append(delivered, c)
    BY <1>1, <2>2, DeliveredMore
  <2>3. QED
    BY <2>1, <2>2 DEF Mail!DeliverFails
<1>5. MailTypes' /\ PushedTwiceAtMost' /\ ListIsTheRest'
  BY <1>1, <1>2, <1>4 DEF MailTypes, PushedTwiceAtMost, ListIsTheRest, Gone
<1>6. DeliveredPast'
  BY <1>3, <1>4 DEF DeliveredPast
<1>7. LossesCounted'
  <2>1. Missing' \subseteq Missing
    BY <1>1, <1>4 DEF Missing, Kept
  <2>2. QED
    BY <1>1, <1>2, <2>1, NoneLost
<1>8. QED
  BY <1>5, <1>6, <1>7 DEF MailInv

LEMMA PushDlqSound ==
    ASSUME MailInv, Mail!PushDlq
    PROVE  MailInv'
<1>1. PICK c \in held : dlq' = <<c>> \o dlq \/ dlq' = <<c, c>> \o dlq
  BY DEF Mail!PushDlq
<1>2. /\ mustBury /\ held' = {} /\ mustBury' = FALSE
      /\ UNCHANGED <<request, outbound, alive, delivered, losses, pushed, repeated>>
  BY DEF Mail!PushDlq
<1>3. MailTypes /\ PushedTwiceAtMost /\ ListIsTheRest /\ DeliveredPast /\ LossesCounted
  BY DEF MailInv
<1>4. dlq \in Seq(Nat) /\ c \in Nat
  BY <1>3 DEF MailTypes
<1>5. dlq' \in Seq(Nat) /\ Mail!ToSet(dlq') = Mail!ToSet(dlq) \cup {c}
  <2>1. CASE dlq' = <<c>> \o dlq
    BY <1>4, <2>1, Pushing
  <2>2. CASE dlq' = <<c, c>> \o dlq
    <3>1. PICK p : p = <<c, c>>
      OBVIOUS
    <3>2. p \in Seq(Nat) /\ DOMAIN p = 1..2 /\ \A i \in 1..2 : p[i] = c
      BY <1>4, <3>1
    <3>3. Mail!ToSet(p) = {c}
      BY <3>2 DEF Mail!ToSet
    <3>4. p \o dlq \in Seq(Nat) /\ Mail!ToSet(p \o dlq) = Mail!ToSet(p) \cup Mail!ToSet(dlq)
      BY <1>4, <3>2, Joined
    <3>5. QED
      BY <2>2, <3>1, <3>3, <3>4
  <2>3. QED
    BY <1>1, <2>1, <2>2
<1>6. c \in 1..Len(pushed) /\ held = {c}
  <2>1. held = {Gone} /\ Gone # 0 /\ Gone \in Nat
    BY <1>1, <1>3 DEF ListIsTheRest
  <2>2. Len(pushed) \in Nat /\ Len(outbound) \in Nat
    BY <1>3 DEF MailTypes
  <2>3. QED
    BY <1>1, <2>1, <2>2 DEF Gone
<1>7. MailTypes' /\ PushedTwiceAtMost' /\ ListIsTheRest'
  BY <1>2, <1>3, <1>5, <1>6 DEF MailTypes, PushedTwiceAtMost, ListIsTheRest, Gone
<1>8. DeliveredPast'
  <2>1. \A x : Past(x) => Past(x)'
    BY <1>2 DEF Past, Gone
  <2>2. QED
    BY <1>2, <1>3, <2>1 DEF DeliveredPast
<1>9. LossesCounted'
  <2>1. Missing' \subseteq Missing
    BY <1>2, <1>5, <1>6 DEF Missing, Kept
  <2>2. QED
    BY <1>2, <1>3, <2>1, NoneLost
<1>10. QED
  BY <1>7, <1>8, <1>9 DEF MailInv

\* The worker goes away with what it holds.
LEMMA ExitSound ==
    ASSUME MailInv, Mail!Exit
    PROVE  MailInv'
<1>1. /\ alive' = FALSE /\ held' = {} /\ mustBury' = FALSE
      /\ losses' = losses + Mail!Cardinality(held)
      /\ UNCHANGED <<request, outbound, delivered, dlq, pushed, repeated>>
  BY DEF Mail!Exit
<1>2. MailTypes /\ PushedTwiceAtMost /\ ListIsTheRest /\ DeliveredPast /\ LossesCounted
  BY DEF MailInv
<1>3. IsFiniteSet(held)
  <2>1. held = {} \/ held = {Gone}
    BY <1>2 DEF ListIsTheRest
  <2>2. QED
    BY <2>1, FS_EmptySet, FS_Singleton
<1>4. Missing' \subseteq Missing \cup held
  BY <1>1 DEF Missing, Kept
<1>5. LossesCounted' /\ losses' \in Nat
  BY <1>1, <1>2, <1>3, <1>4, LossesGrow, SameSizes
<1>6. MailTypes' /\ PushedTwiceAtMost' /\ ListIsTheRest'
  BY <1>1, <1>2, <1>5 DEF MailTypes, PushedTwiceAtMost, ListIsTheRest, Gone
<1>7. DeliveredPast'
  <2>1. \A x : Past(x) => Past(x)'
    BY <1>1 DEF Past, Gone
  <2>2. QED
    BY <1>1, <1>2, <2>1 DEF DeliveredPast
<1>8. QED
  BY <1>5, <1>6, <1>7 DEF MailInv

LEMMA MailSteps ==
    ASSUME MailInv, Mail!Next
    PROVE  MailInv'
<1>1. CASE UNCHANGED mail
  <2>1. UNCHANGED <<request, outbound, held, mustBury, alive, delivered, dlq, losses, pushed, repeated>>
    BY <1>1 DEF mail
  <2>2. QED
    BY <2>1, MailKept DEF MailInv, MailTypes
<1>2. CASE \E m \in Messages : Mail!Post(m) \/ Mail!Repeat(m)
  BY <1>2, PostSound
<1>3. CASE Mail!WorkerStep
  BY <1>3, PopSound, DeliverSound, DeliverFailsSound, PushDlqSound, ExitSound
  DEF Mail!WorkerStep, Mail!WorkerDies
<1>4. CASE Mail!Signalled
  BY <1>4, ExitSound DEF Mail!Signalled
<1>5. CASE Mail!Restart
  <2>1. /\ UNCHANGED <<request, outbound, held, mustBury, delivered, dlq, losses, pushed, repeated>>
        /\ alive' = TRUE
    BY <1>5 DEF Mail!Restart
  <2>2. QED
    BY <2>1, MailKept
<1>6. QED
  BY <1>1, <1>2, <1>3, <1>4, <1>5 DEF Mail!Next, mail, Mail!mail

-----------------------------------------------------------------------------
(* Both at once *)

LEMMA OutagesTyped ==
    ASSUME UpTyped, Board!Next \/ Mail!Next \/ UNCHANGED <<up, outages>>, MaxOutages \in Nat
    PROVE  UpTyped'
<1>1. CASE UNCHANGED <<up, outages>>
  BY <1>1 DEF UpTyped
<1>2. CASE Board!Outage \/ Board!Recover \/ Mail!Outage \/ Mail!Recover
  <2>1. up' \in BOOLEAN
    BY <1>2, Zenon DEF Board!Outage, Board!Recover, Mail!Outage, Mail!Recover
  <2>2. outages' = outages \/ (outages < MaxOutages /\ outages' = outages + 1)
    BY <1>2, Zenon DEF Board!Outage, Board!Recover, Mail!Outage, Mail!Recover
  <2>3. outages \in 0..MaxOutages
    BY Zenon DEF UpTyped
  <2>4. outages' \in 0..MaxOutages
    BY <2>2, <2>3
  <2>5. QED
    BY <2>1, <2>4, Zenon DEF UpTyped
<1>3. CASE \E m \in Messages : Mail!Post(m) \/ Mail!Repeat(m)
  BY <1>1, <1>3 DEF Mail!Post, Mail!Repeat
<1>4. CASE \E u \in Users : Board!ScoreChanges(u)
  BY <1>1, <1>4 DEF Board!ScoreChanges
<1>5. CASE \E w \in Writers : \/ Board!Query(w) \/ Board!Delete(w) \/ Board!ZAdd(w)
                              \/ Board!Finish(w) \/ Board!RebuildFails(w)
  BY <1>1, <1>5 DEF Board!Query, Board!Delete, Board!ZAdd, Board!Finish, Board!RebuildFails
<1>6. CASE Board!ReadScore \/ Board!ReadRank \/ Board!Answer
  BY <1>1, <1>6 DEF Board!ReadScore, Board!ReadRank, Board!Answer
<1>7. CASE Mail!WorkerStep \/ Mail!Signalled \/ Mail!Restart
  BY <1>1, <1>7 DEF Mail!WorkerStep, Mail!Pop, Mail!Deliver, Mail!DeliverFails, Mail!PushDlq,
     Mail!WorkerDies, Mail!Signalled, Mail!Exit, Mail!Restart
<1>8. QED
  BY <1>1, <1>2, <1>3, <1>4, <1>5, <1>6, <1>7 DEF Board!Next, Mail!Next

ServicesInv == UpTyped /\ BoardInv /\ MailInv

LEMMA ServicesStart == RedisInit => ServicesInv
<1> SUFFICES ASSUME RedisInit PROVE ServicesInv
  OBVIOUS
<1>1. Board!LeaderboardConstants /\ Mail!QueueConstants /\ MaxOutages \in Nat
  BY RedisAssumption DEF Board!LeaderboardConstants
<1>2. QED
  BY <1>1, BoardStarts, MailStarts DEF RedisInit, ServicesInv

LEMMA ServicesStep == ServicesInv /\ [RedisNext]_redisVars => ServicesInv'
<1> SUFFICES ASSUME ServicesInv, [RedisNext]_redisVars PROVE ServicesInv'
  OBVIOUS
<1>1. Board!LeaderboardConstants /\ Mail!QueueConstants /\ MaxOutages \in Nat
  BY RedisAssumption DEF Board!LeaderboardConstants
<1>2. UpTyped /\ BoardInv /\ MailInv
  BY DEF ServicesInv
<1>3. UpTyped'
  BY <1>1, <1>2, OutagesTyped DEF RedisNext, redisVars
<1>4. UNCHANGED board => BoardInv'
  BY <1>2, BoardKept DEF board
<1>5. UNCHANGED mail => MailInv'
  <2> SUFFICES ASSUME UNCHANGED mail PROVE MailInv'
    OBVIOUS
  <2>1. UNCHANGED <<request, outbound, held, mustBury, alive, delivered, dlq, losses, pushed, repeated>>
    BY DEF mail
  <2>2. QED
    BY <1>2, <2>1, MailKept DEF MailInv, MailTypes
<1>6. CASE Board!Next /\ UNCHANGED mail
  BY <1>1, <1>2, <1>3, <1>5, <1>6, BoardSteps DEF ServicesInv
<1>7. CASE Mail!Next /\ UNCHANGED board
  BY <1>2, <1>3, <1>4, <1>7, MailSteps DEF ServicesInv
<1>8. CASE UNCHANGED redisVars
  BY <1>3, <1>4, <1>5, <1>8 DEF redisVars, ServicesInv
<1>9. QED
  BY <1>6, <1>7, <1>8 DEF RedisNext

LEMMA ServicesSound == ServicesInv => RedisDataIsSound
<1> SUFFICES ASSUME ServicesInv PROVE RedisDataIsSound
  OBVIOUS
<1>1. UpTyped /\ BoardInv /\ MailInv
  BY DEF ServicesInv
<1>2. Board!IndexIsSound
  <2>1. \A w \in Writers : /\ writer[w].pc \in {"idle", "delete", "add"}
                           /\ Board!IsScoreTable(writer[w].rows)
                           /\ writer[w].todo \subseteq DOMAIN writer[w].rows
    BY <1>1, Tables DEF BoardInv, BoardTypes, TodoFits, Rebuilds
  <2>2. /\ reader.pc \in {"idle", "rank", "done"}
        /\ reader.pc = "done" => reader.rank \in 1..Board!Cardinality(Users)
    <3>1. reader \in Reads
      BY <1>1 DEF BoardInv, BoardTypes
    <3>2. CASE reader \in [pc : {"idle"}] \cup [pc : {"rank"}, user : Users, cut : BOOLEAN]
      BY <3>2
    <3>3. CASE reader \in [pc : {"done"}, rank : 1..Cardinality(Users), user : Users, cut : BOOLEAN]
      BY <3>3, SameSizes
    <3>4. QED
      BY <3>1, <3>2, <3>3 DEF Reads
  <2>3. Board!TypeOK
    BY <1>1, <2>1, <2>2, Tables DEF UpTyped, BoardInv, BoardTypes, Board!TypeOK
  <2>4. Board!IndexIsWhatWasRead
    <3> SUFFICES ASSUME ~torn, Board!Rebuilding = {} PROVE zset = lastRows
      BY DEF Board!IndexIsWhatWasRead
    <3>1. QED
      BY <1>1 DEF BoardInv, AloneAtWork
  <2>5. Board!ContestScoreDecodes
    BY RedisAssumption, ScoreDecodes DEF Board!LeaderboardConstants
  <2>6. QED
    BY <2>3, <2>4, <2>5 DEF Board!IndexIsSound
<1>3. Mail!QueueIsSound
  <2>1. MailTypes /\ PushedTwiceAtMost /\ ListIsTheRest /\ DeliveredPast /\ LossesCounted
    BY <1>1 DEF MailInv
  <2>2. pushed \in Seq(Messages) /\ Len(pushed) \in Nat /\ DOMAIN pushed = 1..Len(pushed)
        /\ Len(outbound) \in Nat /\ DOMAIN outbound = 1..Len(outbound)
    BY <2>1 DEF MailTypes
  <2>3. Gone \in Nat /\ Gone <= Len(pushed)
    <3>1. Gone \in Nat
      BY <2>1 DEF ListIsTheRest
    <3>2. QED
      BY <2>2, <3>1 DEF Gone
  <2>4. Mail!ToSet(outbound) \cup held \cup Mail!ToSet(dlq) \subseteq 1..Len(pushed)
    <3>1. held \subseteq 1..Len(pushed)
      BY <2>1, <2>2, <2>3 DEF ListIsTheRest
    <3>2. ASSUME NEW i \in 1..Len(outbound) PROVE outbound[i] \in 1..Len(pushed)
      <4>1. outbound[i] = Len(pushed) + 1 - i
        BY <2>1 DEF ListIsTheRest
      <4>2. i <= Len(pushed)
        BY <2>2, <2>3 DEF Gone
      <4>3. QED
        BY <2>2, <4>1, <4>2
    <3>3. QED
      BY <2>1, <2>2, <3>1, <3>2 DEF ListIsTheRest, Mail!ToSet
  <2>5. Cardinality(held) <= 1
    <3>1. held = {} \/ held = {Gone}
      BY <2>1 DEF ListIsTheRest
    <3>2. Cardinality({}) = 0 /\ Cardinality({Gone}) = 1
      BY FS_EmptySet, FS_Singleton
    <3>3. QED
      BY <3>1, <3>2
  <2>6. Mail!TypeOK
    <3>1. Mail!ToSet(pushed) \subseteq Messages
      BY <2>2 DEF Mail!ToSet
    <3>2. QED
      BY <1>1, <2>1, <2>4, <2>5, <3>1, SameSizes DEF UpTyped, MailTypes, Mail!TypeOK
  <2>7. Mail!LostOnlyInHand
    <3>1. Missing = (1..Len(pushed)) \ (Mail!ToSet(outbound) \cup held \cup Mail!Ended)
      BY DEF Missing, Kept, Mail!Ended
    <3>2. \A m \in Messages : request[m] = "202" => m \in Mail!ToSet(pushed)
      BY <2>1 DEF PushedTwiceAtMost, Mail!ToSet
    <3>3. QED
      BY <2>1, <3>1, <3>2, SameSizes DEF LossesCounted, Mail!LostOnlyInHand
  <2>8. Mail!DeliveredOnceInOrder
    <3>1. \A i \in DOMAIN delivered : delivered[i] \in DOMAIN pushed
      BY <2>1, <2>2, <2>3 DEF DeliveredPast, Past
    <3>2. \A i, j \in DOMAIN delivered : i < j => delivered[i] < delivered[j]
      BY <2>1 DEF DeliveredPast
    <3>3. QED
      BY <2>1, <3>1, <3>2 DEF PushedTwiceAtMost, Mail!DeliveredOnceInOrder
  <2>9. QED
    BY <2>6, <2>7, <2>8 DEF Mail!QueueIsSound
<1>4. QED
  BY <1>2, <1>3 DEF RedisDataIsSound

\* The two services keep sound data however often Redis, a connection and the worker go away
\* and however rebuilds overlap: the sorted set is what the last rebuild read unless another
\* or a failed one tore it, and a copy of a notification is lost only with a worker or a
\* reply of BRPOP, and delivered once (cache.rs, queue.rb, worker.rb).
THEOREM RedisDataStaysSound == RedisSpec => []RedisDataIsSound
<1>1. RedisInit => ServicesInv
  BY ServicesStart
<1>2. ServicesInv /\ [RedisNext]_redisVars => ServicesInv'
  BY ServicesStep
<1>3. ServicesInv => RedisDataIsSound
  BY ServicesSound
<1>4. QED
  BY <1>1, <1>2, <1>3, PTL DEF RedisSpec

\* A reader that asks between the DEL and the ZADD of a rebuild may be told any rank, but
\* no other (user_rank).
THEOREM RanksAreTrue == RedisSpec => RankIsTrueUnlessCut
<1>1. RedisInit => ServicesInv
  BY ServicesStart
<1>2. ServicesInv /\ [RedisNext]_redisVars => ServicesInv'
  BY ServicesStep
<1> DEFINE Rank == reader.pc = "rank" /\ reader'.pc = "done" =>
                     \/ reader.user \in DOMAIN zset /\ reader'.rank = Board!RankIn(zset, reader.user)
                     \/ reader.cut /\ reader'.rank = 1
<1>3. ServicesInv /\ [RedisNext]_redisVars => [Rank]_(Board!vars)
  <2> SUFFICES ASSUME ServicesInv, [RedisNext]_redisVars, reader.pc = "rank", reader'.pc = "done"
               PROVE  Rank
    OBVIOUS
  <2>1. reader.user \in DOMAIN zset \/ reader.cut
    BY DEF ServicesInv, BoardInv, ReaderFinds
  <2>2. Board!Next
    BY DEF RedisNext, redisVars, board
  <2>3. reader' # reader
    OBVIOUS
  <2>4. CASE \E w \in Writers : \/ Board!Query(w) \/ Board!Delete(w) \/ Board!ZAdd(w)
                                \/ Board!Finish(w) \/ Board!RebuildFails(w)
    <3>1. Board!Clear
      BY <2>3, <2>4 DEF Board!Query, Board!Delete, Board!ZAdd, Board!Finish, Board!RebuildFails
    <3>2. reader' = [reader EXCEPT !.cut = TRUE]
      BY <3>1 DEF Board!Clear
    <3>3. reader \in Reads
      BY DEF ServicesInv, BoardInv, BoardTypes
    <3>4. reader'.pc = "rank"
      BY <3>2, <3>3 DEF Reads
    <3>5. QED
      BY <3>4
  <2>5. CASE Board!ReadScore
    BY <2>5 DEF Board!ReadScore
  <2>6. CASE Board!Answer
    BY <2>6 DEF Board!Answer, Board!NoReader
  <2>7. CASE Board!ReadRank
    <3>1. PICK u : u = reader.user
      OBVIOUS
    <3>2. reader' = [pc |-> "done", rank |-> IF u \in DOMAIN zset THEN Board!RankIn(zset, u) ELSE 1,
                     user |-> u, cut |-> reader.cut]
      BY <2>7, <3>1 DEF Board!ReadRank
    <3>3. QED
      BY <2>1, <3>1, <3>2
  <2>8. CASE \E u \in Users : Board!ScoreChanges(u)
    BY <2>3, <2>8 DEF Board!ScoreChanges
  <2>9. CASE (Board!Outage \/ Board!Recover) /\ UNCHANGED Board!board
    BY <2>3, <2>9 DEF Board!board
  <2>10. QED
    BY <2>2, <2>4, <2>5, <2>6, <2>7, <2>8, <2>9 DEF Board!Next
<1>4. QED
  BY <1>1, <1>2, <1>3, PTL DEF RedisSpec, RankIsTrueUnlessCut, Board!RankIsTrueUnlessCut
=============================================================================
