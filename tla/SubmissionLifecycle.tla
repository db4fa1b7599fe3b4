------------------------ MODULE SubmissionLifecycle ------------------------
(***************************************************************************)
(* What the submission pipeline promises about one row of the Submission   *)
(* table, whatever the queue, the judge, the sweeper and the process do:   *)
(* the row is created queued, a worker takes it, it goes back to queued or *)
(* ends in a verdict, and the sweeper may give up on it.  A verdict is     *)
(* final.  "failed" is not: the worker the sweeper gave up on may still    *)
(* deliver, and its verdict then replaces the timeout.                     *)
(***************************************************************************)
CONSTANTS Submissions, Verdicts

VARIABLE row   \* Submission.status, "absent" before and "deleted" after the row exists

Statuses == {"absent", "queued", "judging", "failed", "deleted"} \cup Verdicts

\* The status changes the pipeline may make.
Allowed ==
    {<<"absent", "queued">>, <<"queued", "judging">>, <<"judging", "queued">>,
     <<"judging", "failed">>}
    \cup ({"judging", "failed"} \X Verdicts)
    \cup ((Statuses \ {"absent", "deleted"}) \X {"deleted"})

Init == row = [s \in Submissions |-> "absent"]

\* One statement changes one row; only the sweeper's UPDATE touches several.
Next ==
    /\ row' \in [Submissions -> Statuses]
    /\ \A s \in Submissions : row'[s] = row[s] \/ <<row[s], row'[s]>> \in Allowed
    /\ \/ \E s \in Submissions : \A t \in Submissions \ {s} : row'[t] = row[t]
       \/ \A s \in Submissions : row'[s] # row[s] => row'[s] = "failed"

Spec == Init /\ [][Next]_row

=============================================================================
