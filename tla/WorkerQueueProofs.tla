------------------------- MODULE WorkerQueueProofs -------------------------
(***************************************************************************)
(* Safety of WorkerQueue for every set of jobs, every concurrency and      *)
(* every number of attempts.                                               *)
(*                                                                         *)
(* The argument: each step edits (stage, queue, inflight) and then pumps.  *)
(* Consistent says what the three values owe each other, and is what the   *)
(* edit has to establish; PumpPreserves shows once that pumping consistent *)
(* values, of which one pump is enough, re-establishes the invariant.      *)
(***************************************************************************)
EXTENDS WorkerQueue, FiniteSetTheorems, TLAPS

RunningIn(st) == {j \in Jobs : st[j] = "running"}
BackoffIn(st) == {j \in Jobs : st[j] = "backoff"}

Exact(st, q) ==
    /\ \A j \in Jobs : st[j] = "waiting" <=> \E i \in 1..Len(q) : q[i] = j
    /\ \A i, k \in 1..Len(q) : q[i] = q[k] => i = k

AttemptsFit(st, at) ==
    \A j \in Jobs :
        /\ st[j] \in {"new", "waiting", "backoff"} => at[j] < MaxAttempts
        /\ st[j] \in {"running", "backoff"} => at[j] >= 1
        /\ st[j] = "dead" => at[j] = MaxAttempts

Consistent(st, q, n, at) ==
    /\ st \in [Jobs -> Stages]
    /\ q \in Seq(Jobs)
    /\ at \in [Jobs -> 0..MaxAttempts]
    /\ n \in Nat
    /\ n = Cardinality(RunningIn(st))
    /\ n <= Concurrency
    /\ Exact(st, q)
    /\ AttemptsFit(st, at)

\* The inductive invariant.
IInv ==
    /\ Consistent(stage, queue, inflight, attempts)
    /\ pendingRetries \in Nat
    /\ pendingRetries = Cardinality(BackoffIn(stage))
    /\ PumpFixpoint

-----------------------------------------------------------------------------
(* Subsets of Jobs are finite, and moving one job in or out changes a count by one. *)
LEMMA CountAdd ==
    ASSUME NEW S, S \subseteq Jobs, NEW x \in Jobs, x \notin S
    PROVE  /\ Cardinality(S) \in Nat
           /\ Cardinality(S \cup {x}) = Cardinality(S) + 1
<1>1. IsFiniteSet(S)
  BY FS_Subset, QueueAssumption
<1>2. QED
  BY <1>1, FS_AddElement, FS_CardinalityType

LEMMA CountRemove ==
    ASSUME NEW S, S \subseteq Jobs, NEW x \in S
    PROVE  /\ Cardinality(S) \in Nat \ {0}
           /\ Cardinality(S \ {x}) = Cardinality(S) - 1
<1>1. IsFiniteSet(S)
  BY FS_Subset, QueueAssumption
<1>2. /\ Cardinality(S) \in Nat
      /\ Cardinality(S) = 0 <=> S = {}
  BY <1>1, FS_CardinalityType, FS_EmptySet
<1>3. Cardinality(S \ {x}) = Cardinality(S) - 1
  BY <1>1, FS_RemoveElement
<1>4. QED
  BY <1>2, <1>3

-----------------------------------------------------------------------------
(* Shifting the head of an exact queue leaves an exact queue. *)
LEMMA ExactShift ==
    ASSUME NEW st \in [Jobs -> Stages], NEW q \in Seq(Jobs),
           Exact(st, q), q # <<>>
    PROVE  /\ Head(q) \in Jobs
           /\ st[Head(q)] = "waiting"
           /\ Tail(q) \in Seq(Jobs)
           /\ Exact([st EXCEPT ![Head(q)] = "running"], Tail(q))
<1> DEFINE h == Head(q)
           t == Tail(q)
           st2 == [st EXCEPT ![h] = "running"]
<1>1. /\ Len(q) \in Nat \ {0}
      /\ h \in Jobs /\ h = q[1]
      /\ t \in Seq(Jobs) /\ Len(t) = Len(q) - 1
      /\ \A i \in 1..Len(t) : t[i] = q[i+1]
  OBVIOUS
<1>2. st[h] = "waiting"
  BY <1>1 DEF Exact
<1>3. \A i, k \in 1..Len(t) : t[i] = t[k] => i = k
  <2>1. SUFFICES ASSUME NEW i \in 1..Len(t), NEW k \in 1..Len(t), t[i] = t[k]
                 PROVE  i = k
    OBVIOUS
  <2>2. i+1 \in 1..Len(q) /\ k+1 \in 1..Len(q) /\ q[i+1] = q[k+1]
    BY <1>1, <2>1
  <2>3. i+1 = k+1
    BY <2>2 DEF Exact
  <2>4. QED
    BY <2>3
<1>4. ASSUME NEW j \in Jobs
      PROVE  st2[j] = "waiting" <=> \E i \in 1..Len(t) : t[i] = j
  <2>1. CASE j = h
    <3>1. st2[j] = "running"
      BY <2>1, <1>1
    <3>2. ASSUME NEW i \in 1..Len(t), t[i] = j
          PROVE  FALSE
      <4>1. i+1 \in 1..Len(q) /\ q[i+1] = q[1] /\ 1 \in 1..Len(q)
        BY <1>1, <2>1, <3>2
      <4>2. i+1 = 1
        BY <4>1 DEF Exact
      <4>3. QED
        BY <4>2
    <3>3. QED
      BY <3>1, <3>2
  <2>2. CASE j # h
    <3>1. st2[j] = st[j]
      BY <2>2, <1>1
    <3>2. st[j] = "waiting" <=> \E i \in 1..Len(q) : q[i] = j
      BY DEF Exact
    <3>3. ASSUME NEW i \in 1..Len(q), q[i] = j
          PROVE  \E k \in 1..Len(t) : t[k] = j
      <4>1. i # 1
        BY <1>1, <2>2, <3>3
      <4>2. i-1 \in 1..Len(t) /\ t[i-1] = q[(i-1)+1] /\ (i-1)+1 = i
        BY <1>1, <4>1
      <4>3. QED
        BY <3>3, <4>2
    <3>4. ASSUME NEW i \in 1..Len(t), t[i] = j
          PROVE  \E k \in 1..Len(q) : q[k] = j
      <4>1. i+1 \in 1..Len(q) /\ q[i+1] = j
        BY <1>1, <3>4
      <4>2. QED
        BY <4>1
    <3>5. QED
      BY <3>1, <3>2, <3>3, <3>4
  <2>3. QED
    BY <2>1, <2>2
<1>5. QED
  BY <1>1, <1>2, <1>3, <1>4 DEF Exact

-----------------------------------------------------------------------------
(* Appending a job that is not waiting yet, and marking it waiting, keeps the queue exact. *)
LEMMA ExactAppend ==
    ASSUME NEW st \in [Jobs -> Stages], NEW q \in Seq(Jobs), NEW x \in Jobs,
           Exact(st, q), st[x] # "waiting"
    PROVE  /\ Append(q, x) \in Seq(Jobs)
           /\ Exact([st EXCEPT ![x] = "waiting"], Append(q, x))
<1> DEFINE a == Append(q, x)
           st2 == [st EXCEPT ![x] = "waiting"]
<1>1. /\ Len(q) \in Nat
      /\ a \in Seq(Jobs) /\ Len(a) = Len(q) + 1 /\ a[Len(q) + 1] = x
      /\ \A i \in 1..Len(q) : a[i] = q[i]
  OBVIOUS
<1>2. \A i \in 1..Len(q) : q[i] # x
  BY DEF Exact
<1>3. \A i, k \in 1..Len(a) : a[i] = a[k] => i = k
  <2>1. SUFFICES ASSUME NEW i \in 1..Len(a), NEW k \in 1..Len(a), a[i] = a[k]
                 PROVE  i = k
    OBVIOUS
  <2>2. CASE i \in 1..Len(q) /\ k \in 1..Len(q)
    BY <1>1, <2>1, <2>2 DEF Exact
  <2>3. CASE i = Len(q) + 1 /\ k = Len(q) + 1
    BY <2>3
  <2>4. CASE i = Len(q) + 1 /\ k \in 1..Len(q)
    BY <1>1, <1>2, <2>1, <2>4
  <2>5. CASE k = Len(q) + 1 /\ i \in 1..Len(q)
    BY <1>1, <1>2, <2>1, <2>5
  <2>6. QED
    BY <1>1, <2>2, <2>3, <2>4, <2>5
<1>4. ASSUME NEW j \in Jobs
      PROVE  st2[j] = "waiting" <=> \E i \in 1..Len(a) : a[i] = j
  <2>1. CASE j = x
    <3>1. st2[j] = "waiting"
      BY <2>1
    <3>2. Len(q) + 1 \in 1..Len(a) /\ a[Len(q) + 1] = j
      BY <1>1, <2>1
    <3>3. QED
      BY <3>1, <3>2
  <2>2. CASE j # x
    <3>1. st2[j] = st[j]
      BY <2>2
    <3>2. st[j] = "waiting" <=> \E i \in 1..Len(q) : q[i] = j
      BY DEF Exact
    <3>3. (\E i \in 1..Len(q) : q[i] = j) <=> (\E i \in 1..Len(a) : a[i] = j)
      BY <1>1, <2>2
    <3>4. QED
      BY <3>1, <3>2, <3>3
  <2>3. QED
    BY <2>1, <2>2
<1>5. QED
  BY <1>1, <1>3, <1>4 DEF Exact

(* Moving a job between two stages other than "waiting" does not concern the queue. *)
LEMMA ExactElsewhere ==
    ASSUME NEW st \in [Jobs -> Stages], NEW q \in Seq(Jobs), NEW x \in Jobs,
           NEW e \in Stages, Exact(st, q), st[x] # "waiting", e # "waiting"
    PROVE  Exact([st EXCEPT ![x] = e], q)
<1>1. \A j \in Jobs : [st EXCEPT ![x] = e][j] = "waiting" <=> st[j] = "waiting"
  OBVIOUS
<1>2. QED
  BY <1>1 DEF Exact

-----------------------------------------------------------------------------
(* pump(): consistent values of which at most one job can be shifted are left *)
(* consistent, nobody's retry timer is touched, and the loop condition is false. *)
LEMMA PumpPreserves ==
    ASSUME NEW st, NEW q, NEW n, Consistent(st, q, n, attempts),
           Pump(st, q, n),
           n + 1 >= Concurrency \/ Len(q) <= 1
    PROVE  /\ Consistent(stage', queue', inflight', attempts')
           /\ PumpFixpoint'
           /\ BackoffIn(stage') = BackoffIn(st)
<1> USE DEF Consistent
<1>1. CASE ~(n < Concurrency /\ q # <<>>)
  BY <1>1, QueueAssumption DEF Pump, PumpFixpoint, BackoffIn
<1>2. CASE n < Concurrency /\ q # <<>>
  <2> DEFINE h == Head(q)
  <2>1. /\ stage' = [st EXCEPT ![h] = "running"]
        /\ queue' = Tail(q)
        /\ inflight' = n + 1
        /\ attempts' = [attempts EXCEPT ![h] = @ + 1]
    BY <1>2 DEF Pump
  <2>2. /\ h \in Jobs
        /\ st[h] = "waiting"
        /\ queue' \in Seq(Jobs)
        /\ Exact(stage', queue')
    BY <1>2, <2>1, ExactShift
  <2>3. stage' \in [Jobs -> Stages]
    BY <2>1, <2>2 DEF Stages
  <2>4. attempts' \in [Jobs -> 0..MaxAttempts] /\ AttemptsFit(stage', attempts')
    <3>1. attempts[h] \in 0..MaxAttempts /\ attempts[h] < MaxAttempts
      BY <2>2 DEF AttemptsFit
    <3>2. attempts[h] + 1 \in 1..MaxAttempts
      BY <3>1, QueueAssumption
    <3>3. attempts' \in [Jobs -> 0..MaxAttempts]
      <4>1. attempts \in [Jobs -> 0..MaxAttempts] /\ attempts[h] + 1 \in 0..MaxAttempts
        BY <3>2, QueueAssumption
      <4>2. QED
        BY <2>1, <2>2, <4>1
    <3>4. QED
      BY <2>1, <2>2, <3>2, <3>3 DEF AttemptsFit
  <2>5. inflight' = Cardinality(RunningIn(stage'))
    <3>1. RunningIn(stage') = RunningIn(st) \cup {h} /\ h \notin RunningIn(st)
      BY <2>1, <2>2 DEF RunningIn
    <3>2. Cardinality(RunningIn(st) \cup {h}) = Cardinality(RunningIn(st)) + 1
      BY <2>2, <3>1, CountAdd DEF RunningIn
    <3>3. QED
      BY <2>1, <3>1, <3>2
  <2>6. inflight' \in Nat /\ inflight' <= Concurrency
    BY <1>2, <2>1, QueueAssumption
  <2>7. PumpFixpoint'
    <3>1. CASE n + 1 >= Concurrency
      BY <2>1, <3>1 DEF PumpFixpoint
    <3>2. CASE Len(q) <= 1
      <4>1. Tail(q) = <<>>
        BY <1>2, <3>2
      <4>2. QED
        BY <2>1, <4>1 DEF PumpFixpoint
    <3>3. QED
      BY <3>1, <3>2
  <2>8. BackoffIn(stage') = BackoffIn(st)
    BY <2>1, <2>2 DEF BackoffIn
  <2>9. QED
    BY <2>2, <2>3, <2>4, <2>5, <2>6, <2>7, <2>8
<1>3. QED
  BY <1>1, <1>2

-----------------------------------------------------------------------------
(* One lemma per operation. *)

LEMMA EnqueuePreserves ==
    ASSUME IInv, NEW j \in Jobs, Enqueue(j)
    PROVE  IInv'
<1> DEFINE st == [stage EXCEPT ![j] = "waiting"]
           q == Append(queue, j)
<1>1. stage[j] = "new" /\ Pump(st, q, inflight) /\ pendingRetries' = pendingRetries
  BY DEF Enqueue
<1>2. stage \in [Jobs -> Stages] /\ queue \in Seq(Jobs) /\ Exact(stage, queue)
  BY DEF IInv, Consistent
<1>3. q \in Seq(Jobs) /\ Exact(st, q)
  BY <1>1, <1>2, ExactAppend
<1>4. RunningIn(st) = RunningIn(stage) /\ BackoffIn(st) = BackoffIn(stage)
  BY <1>1, <1>2 DEF RunningIn, BackoffIn
<1>5. AttemptsFit(st, attempts)
  BY <1>1, <1>2 DEF IInv, Consistent, AttemptsFit
<1>6. Consistent(st, q, inflight, attempts)
  BY <1>2, <1>3, <1>4, <1>5 DEF IInv, Consistent, Stages
<1>7. inflight + 1 >= Concurrency \/ Len(q) <= 1
  BY <1>2, QueueAssumption DEF IInv, PumpFixpoint, Consistent
<1>8. QED
  BY <1>1, <1>4, <1>6, <1>7, PumpPreserves DEF IInv

(* The finally block of run(): the job leaves "running" for e and its slot is freed. *)
LEMMA LeaveRunning ==
    ASSUME IInv, NEW j \in Jobs, stage[j] = "running",
           NEW e \in Stages \ {"waiting", "running", "new"},
           e = "backoff" => attempts[j] < MaxAttempts,
           e = "dead" => attempts[j] = MaxAttempts
    PROVE  /\ Consistent([stage EXCEPT ![j] = e], queue, inflight - 1, attempts)
           /\ (inflight - 1) + 1 >= Concurrency \/ Len(queue) <= 1
<1> DEFINE st == [stage EXCEPT ![j] = e]
<1>1. stage \in [Jobs -> Stages] /\ queue \in Seq(Jobs) /\ Exact(stage, queue)
  BY DEF IInv, Consistent
<1>2. Exact(st, queue)
  BY <1>1, ExactElsewhere
<1>3. RunningIn(st) = RunningIn(stage) \ {j} /\ j \in RunningIn(stage)
  BY <1>1 DEF RunningIn
<1>4. /\ Cardinality(RunningIn(stage)) \in Nat \ {0}
      /\ Cardinality(RunningIn(st)) = Cardinality(RunningIn(stage)) - 1
  BY <1>3, CountRemove DEF RunningIn
<1>5. inflight - 1 \in Nat /\ inflight - 1 = Cardinality(RunningIn(st))
      /\ inflight - 1 <= Concurrency
  BY <1>4, QueueAssumption DEF IInv, Consistent
<1>6. AttemptsFit(st, attempts)
  BY <1>1 DEF IInv, Consistent, AttemptsFit
<1>7. Consistent(st, queue, inflight - 1, attempts)
  BY <1>1, <1>2, <1>5, <1>6 DEF IInv, Consistent
<1>8. (inflight - 1) + 1 >= Concurrency \/ Len(queue) <= 1
  BY <1>1, QueueAssumption DEF IInv, PumpFixpoint, Consistent
<1>9. QED
  BY <1>7, <1>8

LEMMA ResolvePreserves ==
    ASSUME IInv, NEW j \in Jobs, Resolve(j)
    PROVE  IInv'
<1> DEFINE st == [stage EXCEPT ![j] = "processed"]
<1>1. stage[j] = "running" /\ Pump(st, queue, inflight - 1)
      /\ pendingRetries' = pendingRetries
  BY DEF Resolve
<1>2. /\ Consistent(st, queue, inflight - 1, attempts)
      /\ (inflight - 1) + 1 >= Concurrency \/ Len(queue) <= 1
  BY <1>1, LeaveRunning DEF Stages
<1>3. BackoffIn(st) = BackoffIn(stage)
  BY <1>1 DEF IInv, Consistent, BackoffIn
<1>4. QED
  BY <1>1, <1>2, <1>3, PumpPreserves DEF IInv

LEMMA RejectPreserves ==
    ASSUME IInv, NEW j \in Jobs, Reject(j)
    PROVE  IInv'
<1>1. stage[j] = "running" /\ attempts[j] \in 0..MaxAttempts
  BY DEF Reject, IInv, Consistent
<1>2. CASE attempts[j] < MaxAttempts
  <2> DEFINE st == [stage EXCEPT ![j] = "backoff"]
  <2>1. pendingRetries' = pendingRetries + 1 /\ Pump(st, queue, inflight - 1)
    BY <1>1, <1>2, QueueAssumption DEF Reject
  <2>2. /\ Consistent(st, queue, inflight - 1, attempts)
        /\ (inflight - 1) + 1 >= Concurrency \/ Len(queue) <= 1
    BY <1>1, <1>2, LeaveRunning DEF Stages
  <2>3. BackoffIn(st) = BackoffIn(stage) \cup {j} /\ j \notin BackoffIn(stage)
    BY <1>1 DEF IInv, Consistent, BackoffIn
  <2>4. Cardinality(BackoffIn(st)) = pendingRetries + 1
    BY <2>3, CountAdd DEF BackoffIn, IInv
  <2>5. QED
    BY <2>1, <2>2, <2>4, PumpPreserves DEF IInv
<1>3. CASE attempts[j] = MaxAttempts
  <2> DEFINE st == [stage EXCEPT ![j] = "dead"]
  <2>1. pendingRetries' = pendingRetries /\ Pump(st, queue, inflight - 1)
    BY <1>1, <1>3, QueueAssumption DEF Reject
  <2>2. /\ Consistent(st, queue, inflight - 1, attempts)
        /\ (inflight - 1) + 1 >= Concurrency \/ Len(queue) <= 1
    BY <1>1, <1>3, LeaveRunning, QueueAssumption DEF Stages
  <2>3. BackoffIn(st) = BackoffIn(stage)
    BY <1>1 DEF IInv, Consistent, BackoffIn
  <2>4. QED
    BY <2>1, <2>2, <2>3, PumpPreserves DEF IInv
<1>4. QED
  BY <1>1, <1>2, <1>3, QueueAssumption

LEMMA RetryTimerPreserves ==
    ASSUME IInv, NEW j \in Jobs, RetryTimer(j)
    PROVE  IInv'
<1> DEFINE st == [stage EXCEPT ![j] = "waiting"]
           q == Append(queue, j)
<1>1. stage[j] = "backoff" /\ pendingRetries' = pendingRetries - 1
      /\ Pump(st, q, inflight)
  BY DEF RetryTimer
<1>2. stage \in [Jobs -> Stages] /\ queue \in Seq(Jobs) /\ Exact(stage, queue)
  BY DEF IInv, Consistent
<1>3. q \in Seq(Jobs) /\ Exact(st, q)
  BY <1>1, <1>2, ExactAppend
<1>4. RunningIn(st) = RunningIn(stage)
  BY <1>1, <1>2 DEF RunningIn
<1>5. AttemptsFit(st, attempts)
  BY <1>1, <1>2 DEF IInv, Consistent, AttemptsFit
<1>6. Consistent(st, q, inflight, attempts)
  BY <1>2, <1>3, <1>4, <1>5 DEF IInv, Consistent, Stages
<1>7. inflight + 1 >= Concurrency \/ Len(q) <= 1
  BY <1>2, QueueAssumption DEF IInv, PumpFixpoint, Consistent
<1>8. BackoffIn(st) = BackoffIn(stage) \ {j} /\ j \in BackoffIn(stage)
  BY <1>1, <1>2 DEF BackoffIn
<1>9. /\ Cardinality(BackoffIn(stage)) \in Nat \ {0}
      /\ Cardinality(BackoffIn(st)) = Cardinality(BackoffIn(stage)) - 1
  BY <1>8, CountRemove DEF BackoffIn
<1>10. pendingRetries' \in Nat /\ pendingRetries' = Cardinality(BackoffIn(st))
  BY <1>1, <1>9 DEF IInv
<1>11. QED
  BY <1>1, <1>6, <1>7, <1>10, PumpPreserves DEF IInv

LEMMA CrashPreserves ==
    ASSUME IInv, Crash
    PROVE  IInv'
<1>1. stage \in [Jobs -> Stages] /\ attempts \in [Jobs -> 0..MaxAttempts]
      /\ AttemptsFit(stage, attempts)
  BY DEF IInv, Consistent
<1>2. /\ stage' = [j \in Jobs |->
                     IF stage[j] \in {"waiting", "running", "backoff"}
                     THEN "lost" ELSE stage[j]]
      /\ queue' = <<>> /\ inflight' = 0 /\ pendingRetries' = 0
      /\ attempts' = attempts
  BY DEF Crash
<1>3. /\ stage' \in [Jobs -> Stages]
      /\ \A j \in Jobs : stage'[j] \notin {"waiting", "running", "backoff"}
  BY <1>1, <1>2 DEF Stages
<1>4. RunningIn(stage') = {} /\ BackoffIn(stage') = {}
  BY <1>3 DEF RunningIn, BackoffIn
<1>5. Exact(stage', queue') /\ queue' \in Seq(Jobs)
  <2>1. Len(queue') = 0 /\ queue' \in Seq(Jobs)
    BY <1>2
  <2>2. QED
    BY <1>3, <2>1 DEF Exact
<1>6. AttemptsFit(stage', attempts')
  BY <1>1, <1>2, <1>3 DEF AttemptsFit
<1>7. /\ inflight' \in Nat /\ pendingRetries' \in Nat /\ inflight' <= Concurrency
      /\ inflight' = Cardinality(RunningIn(stage'))
      /\ pendingRetries' = Cardinality(BackoffIn(stage'))
  <2>1. Cardinality({}) = 0
    BY FS_EmptySet
  <2>2. Cardinality(RunningIn(stage')) = 0 /\ Cardinality(BackoffIn(stage')) = 0
    BY <1>4, <2>1
  <2>3. inflight' = 0 /\ pendingRetries' = 0
    BY <1>2
  <2>4. QED
    BY <2>2, <2>3, QueueAssumption
<1>8. Consistent(stage', queue', inflight', attempts')
  BY <1>1, <1>2, <1>3, <1>5, <1>6, <1>7 DEF Consistent
<1>9. PumpFixpoint'
  BY <1>2 DEF PumpFixpoint
<1>10. QED
  BY <1>7, <1>8, <1>9 DEF IInv

-----------------------------------------------------------------------------
(* The inductive invariant holds of every behaviour. *)
LEMMA InitIInv == Init => IInv
<1> SUFFICES ASSUME Init PROVE IInv
  OBVIOUS
<1>1. /\ stage = [j \in Jobs |-> "new"] /\ queue = <<>>
      /\ attempts = [j \in Jobs |-> 0] /\ inflight = 0 /\ pendingRetries = 0
  BY DEF Init
<1>2. RunningIn(stage) = {} /\ BackoffIn(stage) = {}
  BY <1>1 DEF RunningIn, BackoffIn
<1>3. Exact(stage, queue) /\ queue \in Seq(Jobs)
  <2>1. Len(queue) = 0 /\ queue \in Seq(Jobs)
    BY <1>1
  <2>2. QED
    BY <1>1, <2>1 DEF Exact
<1>4. AttemptsFit(stage, attempts)
  BY <1>1, QueueAssumption DEF AttemptsFit
<1>5. stage \in [Jobs -> Stages] /\ attempts \in [Jobs -> 0..MaxAttempts]
  BY <1>1, QueueAssumption DEF Stages
<1>6. /\ inflight \in Nat /\ pendingRetries \in Nat /\ inflight <= Concurrency
      /\ inflight = Cardinality(RunningIn(stage))
      /\ pendingRetries = Cardinality(BackoffIn(stage))
  <2>1. Cardinality({}) = 0
    BY FS_EmptySet
  <2>2. QED
    BY <1>1, <1>2, <2>1, QueueAssumption
<1>7. Consistent(stage, queue, inflight, attempts)
  BY <1>3, <1>4, <1>5, <1>6 DEF Consistent
<1>8. PumpFixpoint
  BY <1>1 DEF PumpFixpoint
<1>9. QED
  BY <1>6, <1>7, <1>8 DEF IInv

LEMMA NextIInv == IInv /\ [Next]_vars => IInv'
<1> SUFFICES ASSUME IInv, [Next]_vars PROVE IInv'
  OBVIOUS
<1>1. ASSUME NEW j \in Jobs, Enqueue(j) PROVE IInv'
  BY <1>1, EnqueuePreserves
<1>2. ASSUME NEW j \in Jobs, Resolve(j) PROVE IInv'
  BY <1>2, ResolvePreserves
<1>3. ASSUME NEW j \in Jobs, Reject(j) PROVE IInv'
  BY <1>3, RejectPreserves
<1>4. ASSUME NEW j \in Jobs, RetryTimer(j) PROVE IInv'
  BY <1>4, RetryTimerPreserves
<1>5. CASE Crash
  BY <1>5, CrashPreserves
<1>6. CASE UNCHANGED vars
  BY <1>6 DEF vars, IInv, Consistent, Exact, AttemptsFit, RunningIn, BackoffIn, PumpFixpoint
<1>7. QED
  BY <1>1, <1>2, <1>3, <1>4, <1>5, <1>6 DEF Next

LEMMA SpecIInv == Spec => []IInv
<1>1. QED
  BY InitIInv, NextIInv, PTL DEF Spec

-----------------------------------------------------------------------------
(* The theorems. *)

\* Every variable of the queue keeps its type: in particular job.attempts never
\* passes maxAttempts and neither counter of queue.ts ever goes negative.
THEOREM TypeCorrect == Spec => []TypeOK
<1>1. IInv => TypeOK
  BY DEF IInv, Consistent, TypeOK
<1>2. QED
  BY <1>1, SpecIInv, PTL

\* pump() and the finally block of run() never let more handlers run at once
\* than the configured concurrency, across retries, dead letters and restarts.
THEOREM ConcurrencyIsCapped == Spec => []ConcurrencyCap
<1>1. IInv => ConcurrencyCap
  BY DEF IInv, Consistent, ConcurrencyCap, Running, InStage, RunningIn
<1>2. QED
  BY <1>1, SpecIInv, PTL

\* No free slot is left idle while a job waits: one iteration of pump() per event is enough.
THEOREM NoIdleSlot == Spec => []PumpFixpoint
<1>1. IInv => PumpFixpoint
  BY DEF IInv
<1>2. QED
  BY <1>1, SpecIInv, PTL

\* When drain() sees its three fields at zero, no job is waiting, running or in a retry timer.
THEOREM DrainIsSound == Spec => []DrainIsHonest
<1>1. IInv => DrainIsHonest
  <2> SUFFICES ASSUME IInv, queue = <<>>, inflight = 0, pendingRetries = 0,
                      NEW j \in Jobs
               PROVE  stage[j] \in {"new", "processed", "dead", "lost"}
    BY DEF DrainIsHonest
  <2>1. stage[j] \in Stages
    BY DEF IInv, Consistent
  <2>2. stage[j] # "waiting"
    <3>1. Len(queue) = 0
      OBVIOUS
    <3>2. QED
      BY <3>1 DEF IInv, Consistent, Exact
  <2>3. RunningIn(stage) = {} /\ BackoffIn(stage) = {}
    <3>1. IsFiniteSet(RunningIn(stage)) /\ IsFiniteSet(BackoffIn(stage))
      BY FS_Subset, QueueAssumption DEF RunningIn, BackoffIn
    <3>2. QED
      BY <3>1, FS_EmptySet DEF IInv, Consistent
  <2>4. stage[j] # "running" /\ stage[j] # "backoff"
    BY <2>3 DEF RunningIn, BackoffIn
  <2>5. QED
    BY <2>1, <2>2, <2>4 DEF Stages
<1>2. QED
  BY <1>1, SpecIInv, PTL

\* The queue holds each waiting job exactly once and nothing else.
THEOREM QueueStaysExact == Spec => []QueueIsExact
<1>1. IInv => QueueIsExact
  <2> SUFFICES ASSUME IInv PROVE QueueIsExact
    OBVIOUS
  <2>1. queue \in Seq(Jobs) /\ Exact(stage, queue)
    BY DEF IInv, Consistent
  <2>2. DOMAIN queue = 1..Len(queue)
    BY <2>1
  <2>3. QED
    BY <2>1, <2>2 DEF Exact, QueueIsExact
<1>2. QED
  BY <1>1, SpecIInv, PTL

\* A job is dead-lettered only after maxAttempts attempts and retried only below that.
THEOREM DeadOnlyWhenExhausted == Spec => []RetriesExhausted
<1>1. IInv => RetriesExhausted
  <2> SUFFICES ASSUME IInv, NEW j \in Jobs
               PROVE  /\ stage[j] = "dead" => attempts[j] = MaxAttempts
                      /\ stage[j] = "backoff" => attempts[j] \in 1..(MaxAttempts - 1)
    BY DEF RetriesExhausted
  <2>1. attempts[j] \in 0..MaxAttempts /\ AttemptsFit(stage, attempts)
    BY DEF IInv, Consistent
  <2>2. QED
    BY <2>1, QueueAssumption DEF AttemptsFit
<1>2. QED
  BY <1>1, SpecIInv, PTL

=============================================================================
