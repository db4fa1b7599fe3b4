-------------------------- MODULE SubmissionStream --------------------------
(***************************************************************************)
(* The event stream a client opens on its submission                       *)
(* (api/submissions/[id]/stream/route.ts), while the row goes through the  *)
(* life cycle the pipeline implements.                                     *)
(*                                                                         *)
(* setInterval does not wait for its async callback, so polls overlap: a   *)
(* query reads the row in one step and its continuation runs in a later    *)
(* one, in any order.  A slot holds one poll in flight.  A heartbeat adds  *)
(* no event and finds no closed stream while its timer runs, so it is left *)
(* out.                                                                    *)
(***************************************************************************)
EXTENDS Naturals, Sequences

CONSTANTS
    Submission,   \* the row
    Verdicts,
    Slots,        \* polls that may be in flight at once
    MaxErrors     \* queries that fail ("transient errors")

ASSUME StreamAssumption ==
    /\ MaxErrors \in Nat
    /\ Verdicts \cap {"absent", "deleted", "idle"} = {}

VARIABLES
    row,         \* Submission.status, as in SubmissionLifecycle
    stream,      \* "none", "counting" between the two queries of GET, "open", "closed"
    timers,      \* pollTimer and heartbeatTimer are set
    lastStatus,
    full,        \* lastProgress = totalTests, from the start if there are no tests
    poll,        \* what the poll in each slot has read, "idle" if there is none
    expired,     \* MAX_DURATION_MS has passed since the start
    errors,
    sent,        \* the events in the stream
    since        \* history: the statuses the row has had since start()

Lifecycle == INSTANCE SubmissionLifecycle WITH Submissions <- {Submission}

status == row[Submission]
vars == <<row, stream, timers, lastStatus, full, poll, expired, errors, sent, since>>

Present == Lifecycle!Statuses \ {"absent", "deleted"}
StatusEvent(st) == <<"status", st>>
Events == {StatusEvent(st) : st \in Present} \cup {<<"progress">>, <<"done">>}

TypeOK ==
    /\ row \in [{Submission} -> Lifecycle!Statuses]
    /\ stream \in {"none", "counting", "open", "closed"}
    /\ timers \in BOOLEAN /\ full \in BOOLEAN /\ expired \in BOOLEAN
    /\ lastStatus \in Present \cup {"absent"}
    /\ poll \in [Slots -> Lifecycle!Statuses \cup {"idle"}]
    /\ errors \in 0..MaxErrors
    /\ sent \in Seq(Events)
    /\ since \subseteq Lifecycle!Statuses

Init ==
    /\ Lifecycle!Init
    /\ stream = "none" /\ timers = FALSE /\ lastStatus = "absent" /\ full = FALSE
    /\ poll = [i \in Slots |-> "idle"]
    /\ expired = FALSE /\ errors = 0
    /\ sent = <<>> /\ since = {}

\* The pipeline moves the row.
RowMoves ==
    /\ Lifecycle!Next
    /\ since' = IF stream = "open" THEN since \cup {row'[Submission]} ELSE since
    /\ UNCHANGED <<stream, timers, lastStatus, full, poll, expired, errors, sent>>

\* GET finds the row; the status it read is the one it will report first.
Lookup ==
    /\ stream = "none"
    /\ status \in Present
    /\ stream' = "counting"
    /\ lastStatus' = status
    /\ UNCHANGED <<row, timers, full, poll, expired, errors, sent, since>>

\* The test cases are counted; start() sends the first two events and sets the timers.
Start ==
    /\ stream = "counting"
    /\ stream' = "open"
    /\ sent' = <<StatusEvent(lastStatus), <<"progress">>>>
    /\ timers' = TRUE
    /\ full' \in BOOLEAN
    /\ since' = {status}
    /\ UNCHANGED <<row, lastStatus, poll, expired, errors>>

\* More than MAX_DURATION_MS has passed.
Expire ==
    /\ stream = "open" /\ ~expired
    /\ expired' = TRUE
    /\ UNCHANGED <<row, stream, timers, lastStatus, full, poll, errors, sent, since>>

\* The interval fires: a query reads the row, or fails and is swallowed.
PollQuery(i) ==
    /\ timers /\ poll[i] = "idle"
    /\ \/ poll' = [poll EXCEPT ![i] = status] /\ UNCHANGED errors
       \/ errors < MaxErrors /\ errors' = errors + 1 /\ UNCHANGED poll
    /\ UNCHANGED <<row, stream, timers, lastStatus, full, expired, sent, since>>

\* safeEnqueue: what is sent on a closed stream is dropped.
Send(events) == sent' = IF stream = "open" THEN sent \o events ELSE sent

\* The continuation of the poll in slot i when the row is there: report the status if
\* show, fill the progress bar once, then if end send done and close; stopTimers if stop.
Continue(i, show, end, stop) ==
    LET fresh == poll[i]
        fill == fresh # "pending" /\ ~full
    IN
    /\ poll' = [poll EXCEPT ![i] = "idle"]
    /\ lastStatus' = fresh
    /\ full' = (full \/ fill)
    /\ Send((IF show THEN <<StatusEvent(fresh)>> ELSE <<>>)
            \o (IF fill THEN <<<<"progress">>>> ELSE <<>>)
            \o (IF end THEN <<<<"done">>>> ELSE <<>>))
    /\ stream' = IF end THEN "closed" ELSE stream
    /\ timers' = (timers /\ ~stop)
    /\ UNCHANGED <<row, expired, errors, since>>

\* if (!fresh) return
RowGone(i) ==
    /\ poll[i] = "deleted"
    /\ poll' = [poll EXCEPT ![i] = "idle"]
    /\ UNCHANGED <<row, stream, timers, lastStatus, full, expired, errors, sent, since>>

Changed(i) == poll[i] # lastStatus
Over(i) == poll[i] # "pending" \/ expired

\* Mutant of PollResult: the change is noted but not sent.
PollResultSilent(i) ==
    \/ RowGone(i)
    \/ poll[i] \notin {"idle", "deleted"} /\ Continue(i, FALSE, Over(i), Over(i))

\* Mutant of PollResult: done ends the stream only when the status has changed.
PollResultOnlyOnChange(i) ==
    \/ RowGone(i)
    \/ poll[i] \notin {"idle", "deleted"} /\ Continue(i, Changed(i), Changed(i), Changed(i))

\* The stream ends when the row is not 'pending' or the time is up.
PollResult(i) ==
    \/ RowGone(i)
    \/ poll[i] \notin {"idle", "deleted"} /\ Continue(i, Changed(i), Over(i), Over(i))

\* The client goes away: the abort listener, or cancel().
Abort ==
    /\ stream = "open"
    /\ stream' = "closed"
    /\ timers' = FALSE
    /\ UNCHANGED <<row, lastStatus, full, poll, expired, errors, sent, since>>

Next ==
    \/ RowMoves \/ Lookup \/ Start \/ Expire \/ Abort
    \/ \E i \in Slots : PollQuery(i) \/ PollResult(i)

\* The interval keeps firing and every query ends; rows need not move and
\* clients need not leave.
Spec ==
    /\ Init
    /\ [][Next]_vars
    /\ WF_vars(Start)
    /\ \A i \in Slots : WF_vars(PollQuery(i)) /\ WF_vars(PollResult(i))

-----------------------------------------------------------------------------
(* Properties *)

\* A closed stream polls no more: whichever of done, abort and a late poll comes
\* first, no interval is left running (stopTimers).
TimersStopWithStream == stream = "closed" => ~timers

Shown == {n \in DOMAIN sent : sent[n][1] = "status"}

\* done is the last event, and the last status shown before it is one the row
\* has had since the stream started: neither the status GET looked up before
\* start() nor a poll overtaken by another leaves the client with older news.
DoneShowsCurrentStatus ==
    \A n \in DOMAIN sent :
        sent[n] = <<"done">> =>
            /\ n = Len(sent)
            /\ \E k \in Shown : (\A j \in Shown : j <= k) /\ sent[k][2] \in since

\* An open stream ends although its client stays, unless its row is deleted:
\* then every poll returns early, past the duration limit too.
EndsUnlessDeleted == stream = "open" ~> (stream = "closed" \/ status = "deleted")

\* The stream is sound: its timers stop with it, and done closes it with current news.
StreamIsSound == TypeOK /\ TimersStopWithStream /\ DoneShowsCurrentStatus
=============================================================================
