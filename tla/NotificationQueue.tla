------------------------- MODULE NotificationQueue -------------------------
(***************************************************************************)
(* notifications-ruby: POST /v1/notifications/send (app.rb), the Redis     *)
(* list (lib/queue.rb) and the worker process (worker.rb) with its dead    *)
(* letters.  The supervisor restarts a worker that exits.  A message is    *)
(* posted once; what it says does not matter.                              *)
(*                                                                         *)
(* A connection may break after Redis has carried out a command and before *)
(* its reply arrives.  The Redis client then connects again and sends the  *)
(* command once more (the redis gem's default), so that a message may be   *)
(* in the list twice: a copy is the number of the LPUSH it came with.      *)
(***************************************************************************)
EXTENDS Redis, FiniteSets, Sequences, SequencesExt

CONSTANTS
    Messages,
    MaxExits,     \* bound: exits by signal
    MaxBreaks     \* bound: connections broken otherwise than by an outage

QueueConstants ==
    IsFiniteSet(Messages) /\ MaxExits \in Nat /\ MaxOutages \in Nat /\ MaxBreaks \in Nat

VARIABLES
    request,    \* the POST of each message: none, again (its LPUSH is repeated), 202 or 500
    outbound,   \* the list notifications:outbound, as copies, head first
    held,       \* the copy the worker popped, as a set
    mustBury,   \* deliver raised, push_dlq comes next
    alive,      \* the worker process
    delivered,  \* copies the mail server or webhook took, in order
    dlq,        \* the list notifications:dlq
    losses,     \* history: exits with a copy in hand, and BRPOPs whose reply was lost
    exits,      \* bound on the exits by signal
    breaks,     \* bound on the broken connections
    pushed,     \* history: the message of each LPUSH, in their order
    repeated    \* history: messages whose first LPUSH was carried out and not answered

mail == <<request, outbound, held, mustBury, alive, delivered, dlq, losses, exits, breaks,
          pushed, repeated>>
vars == <<up, outages, mail>>

TypeOK ==
    /\ up \in BOOLEAN /\ outages \in 0..MaxOutages
    /\ request \in [Messages -> {"none", "again", "202", "500"}]
    /\ ToSet(pushed) \subseteq Messages /\ repeated \subseteq Messages
    /\ ToSet(outbound) \cup held \cup ToSet(dlq) \subseteq 1..Len(pushed)
    /\ Cardinality(held) <= 1
    /\ mustBury \in BOOLEAN /\ (mustBury => held # {})
    /\ alive \in BOOLEAN /\ (~alive => held = {})
    /\ losses \in Nat

Init ==
    /\ RedisInit
    /\ request = [m \in Messages |-> "none"]
    /\ outbound = <<>> /\ delivered = <<>> /\ dlq = <<>>
    /\ pushed = <<>> /\ repeated = {}
    /\ held = {} /\ mustBury = FALSE /\ alive = TRUE
    /\ losses = 0 /\ exits = 0 /\ breaks = 0

\* A reply is lost while Redis runs.
Break == breaks < MaxBreaks /\ breaks' = breaks + 1

\* LPUSH.
Enqueue(m) ==
    /\ pushed' = Append(pushed, m)
    /\ outbound' = <<Len(pushed')>> \o outbound

NotEnqueued == UNCHANGED <<outbound, pushed>>
Answered(m) == up /\ Enqueue(m) /\ request' = [request EXCEPT ![m] = "202"] /\ UNCHANGED breaks

\* The connection breaks or Redis is away: the LPUSH may have been carried out.
NoReply == Break \/ (~up /\ UNCHANGED breaks)

\* The POST: 202 after LPUSH.
Post(m) ==
    /\ request[m] = "none"
    /\ \/ Answered(m) /\ UNCHANGED repeated
       \/ /\ NoReply /\ request' = [request EXCEPT ![m] = "again"]
          /\ \/ Enqueue(m) /\ repeated' = repeated \cup {m}
             \/ NotEnqueued /\ UNCHANGED repeated
    /\ UNCHANGED <<up, outages, held, mustBury, alive, delivered, dlq, losses, exits>>

\* The second LPUSH; the error answers 500.
Repeat(m) ==
    /\ request[m] = "again"
    /\ \/ Answered(m)
       \/ /\ NoReply /\ request' = [request EXCEPT ![m] = "500"]
          /\ Enqueue(m) \/ NotEnqueued
    /\ UNCHANGED <<up, outages, held, mustBury, alive, delivered, dlq, losses, exits, repeated>>

\* Mutant of Pop: one message always stays behind.
PopLeavesOne ==
    /\ alive /\ up /\ held = {} /\ Len(outbound) > 1
    /\ held' = {Last(outbound)} /\ outbound' = Front(outbound)
    /\ UNCHANGED <<up, outages, request, mustBury, alive, delivered, dlq, losses, exits, breaks,
                   pushed, repeated>>

\* BRPOP: the copy leaves the list before it is delivered, and before the reply arrives;
\* a worker that gets no reply asks again.
Pop ==
    /\ alive /\ up /\ held = {} /\ outbound # <<>>
    /\ outbound' = Front(outbound)
    /\ \/ held' = {Last(outbound)} /\ UNCHANGED <<losses, breaks>>
       \/ Break /\ losses' = losses + 1 /\ UNCHANGED held
    /\ UNCHANGED <<up, outages, request, mustBury, alive, delivered, dlq, exits, pushed, repeated>>

\* deliver_email or deliver_webhook.
Deliver ==
    /\ alive /\ held # {} /\ ~mustBury
    /\ \E c \in held : delivered' = Append(delivered, c)
    /\ held' = {}
    /\ UNCHANGED <<up, outages, request, outbound, mustBury, alive, dlq, losses, exits, breaks,
                   pushed, repeated>>

\* deliver raises; a time-out may follow a delivery.
DeliverFails ==
    /\ alive /\ held # {} /\ ~mustBury
    /\ mustBury' = TRUE
    /\ \/ UNCHANGED delivered
       \/ \E c \in held : delivered' = Append(delivered, c)
    /\ UNCHANGED <<up, outages, request, outbound, held, alive, dlq, losses, exits, breaks,
                   pushed, repeated>>

\* Mutant of PushDlq: the failed message goes back to the queue.
PushBack ==
    /\ alive /\ up /\ mustBury
    /\ \E c \in held : outbound' = <<c>> \o outbound
    /\ held' = {} /\ mustBury' = FALSE
    /\ UNCHANGED <<up, outages, request, alive, delivered, dlq, losses, exits, breaks,
                   pushed, repeated>>

\* LPUSH to the dead letters, repeated when its reply is lost.
PushDlq ==
    /\ alive /\ up /\ mustBury
    /\ \E c \in held :
          \/ dlq' = <<c>> \o dlq /\ UNCHANGED breaks
          \/ Break /\ dlq' = <<c, c>> \o dlq
    /\ held' = {} /\ mustBury' = FALSE
    /\ UNCHANGED <<up, outages, request, outbound, alive, delivered, losses, exits, pushed, repeated>>

\* The worker goes away with what it holds.
Exit ==
    /\ alive' = FALSE /\ held' = {} /\ mustBury' = FALSE
    /\ losses' = losses + Cardinality(held)
    /\ UNCHANGED <<up, outages, request, outbound, delivered, dlq, breaks, pushed, repeated>>

\* A Redis error in pop_blocking or push_dlq is rescued by nobody: the process exits.  Two
\* connections that break in a row end it as a signal does.
WorkerDies == alive /\ ~up /\ (held = {} \/ mustBury) /\ Exit /\ UNCHANGED exits

\* SIGTERM or SIGINT: exit 0, with or without a message in hand.
Signalled == alive /\ exits < MaxExits /\ exits' = exits + 1 /\ Exit

Restart ==
    /\ ~alive
    /\ alive' = TRUE
    /\ UNCHANGED <<up, outages, request, outbound, held, mustBury, delivered, dlq, losses, exits,
                   breaks, pushed, repeated>>

WorkerStep == Pop \/ Deliver \/ DeliverFails \/ PushDlq \/ WorkerDies

Next ==
    \/ (Outage \/ Recover) /\ UNCHANGED mail
    \/ \E m \in Messages : Post(m) \/ Repeat(m)
    \/ WorkerStep
    \/ Signalled \/ Restart

Spec == Init /\ [][Next]_vars

\* Redis comes back, the supervisor restarts the worker, and a running worker goes on.
FairSpec ==
    /\ Spec
    /\ WF_vars(Recover /\ UNCHANGED mail)
    /\ WF_vars(WorkerStep \/ Restart)

-----------------------------------------------------------------------------
(* Properties *)

Ended == ToSet(delivered) \cup ToSet(dlq)

\* A copy is lost only between its BRPOP and its delivery: every copy pushed is queued, in
\* hand, delivered or a dead letter, but for one for each exit with a copy in hand and each
\* BRPOP whose reply was lost.  A message answered with 202 has a copy.
LostOnlyInHand ==
    /\ Cardinality((1..Len(pushed)) \ (ToSet(outbound) \cup held \cup Ended)) <= losses
    /\ \A m \in Messages : request[m] = "202" => m \in ToSet(pushed)

\* Every copy is delivered once at most, and in the order of the LPUSHes: dead letters are
\* not retried and a restarted worker takes up nothing it had popped.  Nobody is notified
\* twice unless the client repeated an LPUSH, and never three times.
DeliveredOnceInOrder ==
    /\ \A i, j \in DOMAIN delivered :
          delivered[i] \in DOMAIN pushed /\ (i < j => delivered[i] < delivered[j])
    /\ \A k, l \in DOMAIN pushed :
          pushed[k] = pushed[l] /\ k # l =>
             /\ pushed[k] \in repeated
             /\ \A n \in DOMAIN pushed : pushed[n] = pushed[k] => n \in {k, l}

Copies == 1..(2 * Cardinality(Messages))

\* Every copy that was pushed leaves the list: it is delivered, buried or lost, however
\* often Redis, a connection and the worker go away.
QueueDrains == \A c \in Copies : c \in ToSet(outbound) ~> c \notin ToSet(outbound)

\* The queue is sound: nothing is lost but in hand, no copy delivered twice.
QueueIsSound == TypeOK /\ LostOnlyInHand /\ DeliveredOnceInOrder
=============================================================================
