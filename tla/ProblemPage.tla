---------------------------- MODULE ProblemPage ----------------------------
(***************************************************************************)
(* The page of a problem in the browser (app/problems/[slug]/page.tsx):    *)
(* Run and Submit, the polling of the submitted row, and what the results  *)
(* panel shows, while the rows go through the life cycle of the pipeline.  *)
(*                                                                         *)
(* Run and Submit each disable their own button only, and share the two    *)
(* pieces of state the panel is drawn from.  A request is answered by the  *)
(* server in one step and taken up by the page in a later one.  The editor *)
(* is left out: what is submitted is what it holds at the click.           *)
(***************************************************************************)
EXTENDS Naturals

CONSTANTS
    Submissions, Verdicts,
    Terminal,    \* the set TERMINAL of the page
    MaxPolls     \* polls within the 60 seconds

\* Statuses, answers and rows have names of their own; the loop polls at least once.
PageConstants ==
    /\ MaxPolls \in Nat \ {0}
    /\ Terminal \subseteq Verdicts
    /\ Verdicts \cap {"absent", "queued", "judging", "failed", "deleted",
                     "none", "401", "error", "null", "submitting"} = {}
    /\ Submissions \cap {"none", "run"} = {}

VARIABLES
    row,        \* Submission.status of each row
    sync,       \* the server judges inside the POST (SUBMISSIONS_SYNC_FALLBACK)
    session,    \* the cookie is good
    auth,       \* useAuth: "loading", "user" or "none"
    page,       \* "loading", "ready", "not_found", or "left" for another page
    status,     \* submitStatus, "null" if there is none
    results,    \* whose results are shown: "none", "run" or a submission
    running,    \* the flag, and the request of handleRun
    submit,     \* handleSubmit: its step, the row it created, the polls made, the last answer
    prompt,     \* the sign-in dialog: "closed", "sign_in" or "expired"
    toasts,     \* submissions whose verdict was announced, with that verdict
    mixed       \* history: a run and a submission were under way together

browser == <<auth, page, status, results, running, submit, prompt, toasts, mixed>>
vars == <<row, sync, session, browser>>

Lifecycle == INSTANCE SubmissionLifecycle

NoSubmit == [pc |-> "idle", id |-> "none", polls |-> 0, got |-> "none"]
Created == {s \in Submissions : row[s] # "absent"}
Shown == page = "ready"

TypeOK ==
    /\ row \in [Submissions -> Lifecycle!Statuses]
    /\ sync \in BOOLEAN /\ session \in BOOLEAN /\ running \in BOOLEAN /\ mixed \in BOOLEAN
    /\ auth \in {"loading", "user", "none"}
    /\ page \in {"loading", "ready", "not_found", "left"}
    /\ status \in {"null", "submitting", "error"} \cup Lifecycle!Statuses
    /\ results \in {"none", "run"} \cup Submissions
    /\ submit.pc \in {"idle", "posting", "posted", "waiting", "fetching"}
    /\ submit.polls \in 0..MaxPolls
    /\ prompt \in {"closed", "sign_in", "expired"}
    /\ toasts \subseteq Submissions \X Verdicts

Init ==
    /\ Lifecycle!Init
    /\ sync \in BOOLEAN /\ session \in BOOLEAN
    /\ auth = "loading" /\ page = "loading"
    /\ status = "null" /\ results = "none" /\ running = FALSE
    /\ submit = NoSubmit
    /\ prompt = "closed" /\ toasts = {} /\ mixed = FALSE

-----------------------------------------------------------------------------
(* Around the page *)

\* The pipeline moves a row that exists; no row is created but by the POST below.
RowMoves ==
    /\ Lifecycle!Next
    /\ \A s \in Submissions : row[s] = "absent" => row'[s] = "absent"
    /\ UNCHANGED <<sync, session, browser>>

\* The cookie expires, or another tab signs out.
SessionEnds ==
    /\ session
    /\ session' = FALSE
    /\ UNCHANGED <<row, sync, browser>>

\* The provider of useAuth has asked who is signed in.
AuthLoads ==
    /\ auth = "loading"
    /\ auth' = IF session THEN "user" ELSE "none"
    /\ UNCHANGED <<row, sync, session, page, status, results, running, submit, prompt, toasts, mixed>>

\* GET /api/problems/[slug] answers.
Load ==
    /\ page = "loading"
    /\ page' \in {"ready", "not_found"}
    /\ UNCHANGED <<row, sync, session, auth, status, results, running, submit, prompt, toasts, mixed>>

\* The user goes to another page.  Requests and the polling loop go on without it; what
\* they set is lost, what they announce is not.
Leave ==
    /\ page = "ready"
    /\ page' = "left" /\ status' = "null" /\ results' = "none" /\ prompt' = "closed"
    /\ UNCHANGED <<row, sync, session, auth, running, submit, toasts, mixed>>

-----------------------------------------------------------------------------
(* handleRun *)

\* Mutant of ClickRun: the submission's status stays.
ClickRunKeepsStatus ==
    /\ Shown /\ ~running
    /\ running' = TRUE /\ results' = "none"
    /\ mixed' = (mixed \/ submit.pc # "idle")
    /\ UNCHANGED <<row, sync, session, auth, page, status, submit, prompt, toasts>>

\* The Run button, disabled while running.
ClickRun ==
    /\ Shown /\ ~running
    /\ running' = TRUE /\ results' = "none" /\ status' = "null"
    /\ mixed' = (mixed \/ submit.pc # "idle")
    /\ UNCHANGED <<row, sync, session, auth, page, submit, prompt, toasts>>

\* POST /api/run-code is answered with results, or without: 401, 429, 4xx, 5xx, no network.
RunAnswered ==
    /\ running
    /\ running' = FALSE
    /\ results' \in (IF Shown THEN {"run", "none"} ELSE {results})
    /\ UNCHANGED <<row, sync, session, auth, page, status, submit, prompt, toasts, mixed>>

-----------------------------------------------------------------------------
(* handleSubmit *)

\* The Submit button, disabled while submitting.  A user known to be anonymous is asked to
\* sign in; as long as the store is loading nobody is.
ClickSubmit ==
    /\ Shown /\ submit.pc = "idle"
    /\ IF auth = "none"
       THEN /\ prompt' = "sign_in"
            /\ UNCHANGED <<status, results, submit, mixed>>
       ELSE /\ submit' = [NoSubmit EXCEPT !.pc = "posting"]
            /\ status' = "submitting" /\ results' = "none"
            /\ mixed' = running
            /\ UNCHANGED prompt
    /\ UNCHANGED <<row, sync, session, auth, page, running, toasts>>

\* POST /api/submissions: 401 without a session; else a new row, judged already if sync; or
\* an error or a lost answer, with the row there or not.
ServerPosts ==
    /\ submit.pc = "posting"
    /\ \/ /\ ~session
          /\ submit' = [submit EXCEPT !.pc = "posted", !.got = "401"]
          /\ UNCHANGED row
       \/ /\ session
          /\ submit' = [submit EXCEPT !.pc = "posted", !.got = "error"]
          /\ UNCHANGED row
       \/ /\ session
          /\ \E s \in Submissions \ Created, st \in IF sync THEN Verdicts ELSE {"queued"},
                lost \in BOOLEAN :
                /\ row' = [row EXCEPT ![s] = st]
                /\ submit' = [submit EXCEPT !.pc = "posted", !.id = IF lost THEN "none" ELSE s,
                                            !.got = IF lost THEN "error" ELSE st]
    /\ UNCHANGED <<sync, session, auth, page, status, results, running, prompt, toasts, mixed>>

\* The page takes up the answer.  Only a row that is not judged yet is polled.
PostAnswered ==
    /\ submit.pc = "posted"
    /\ CASE submit.got = "401" ->
              /\ auth' = "none" /\ submit' = NoSubmit
              /\ prompt' = (IF Shown THEN "expired" ELSE prompt)
              /\ status' = "null" /\ UNCHANGED results
         [] submit.got = "error" ->
              /\ submit' = NoSubmit
              /\ status' = (IF Shown THEN "error" ELSE status)
              /\ UNCHANGED <<auth, prompt, results>>
         [] OTHER ->
              /\ submit' = IF sync THEN [NoSubmit EXCEPT !.id = submit.id]
                           ELSE [submit EXCEPT !.pc = "waiting", !.got = "none"]
              /\ status' = (IF Shown THEN submit.got ELSE status)
              /\ results' = (IF Shown /\ sync THEN submit.id ELSE results)
              /\ UNCHANGED <<auth, prompt>>
    /\ UNCHANGED <<row, sync, session, page, running, toasts, mixed>>

\* A second is over: GET /api/submissions/[id] reads the row, or fails: 401, 404, 5xx.
PollReads ==
    /\ submit.pc = "waiting"
    /\ \E answer \in {"none"} \cup
                     (IF session /\ row[submit.id] # "deleted" THEN {row[submit.id]} ELSE {}) :
          submit' = [submit EXCEPT !.pc = "fetching", !.got = answer, !.polls = @ + 1]
    /\ UNCHANGED <<row, sync, session, auth, page, status, results, running, prompt, toasts, mixed>>

\* Announced by a toast: every terminal status but "security_error".
Announced == Terminal \ {"security_error"}

\* Mutant of PollAnswered: any status but the two of a waiting row ends the loop.
PollAnsweredEndsOnFailed ==
    LET got == submit.got
        over == got \notin {"none", "queued", "judging"}
    IN
    /\ submit.pc = "fetching"
    /\ submit' = IF over \/ submit.polls = MaxPolls THEN [NoSubmit EXCEPT !.id = submit.id]
                 ELSE [submit EXCEPT !.pc = "waiting", !.got = "none"]
    /\ status' = (IF Shown /\ got # "none" THEN got ELSE status)
    /\ results' = (IF Shown /\ over THEN submit.id ELSE results)
    /\ toasts' = toasts \cup (IF over THEN {<<submit.id, "accepted">>} ELSE {})
    /\ UNCHANGED <<row, sync, session, auth, page, running, prompt, mixed>>

\* Mutant of PollAnswered: the loop has no end of its own.
PollAnsweredForever ==
    LET got == submit.got
    IN
    /\ submit.pc = "fetching"
    /\ submit' = IF got \in Terminal THEN [NoSubmit EXCEPT !.id = submit.id]
                 ELSE [submit EXCEPT !.pc = "waiting", !.got = "none", !.polls = 0]
    /\ status' = (IF Shown /\ got # "none" THEN got ELSE status)
    /\ results' = (IF Shown /\ got \in Terminal THEN submit.id ELSE results)
    /\ UNCHANGED <<row, sync, session, auth, page, running, prompt, toasts, mixed>>

\* The loop takes up an answer: it shows the status, and ends with a terminal one or after
\* 60 seconds.  "failed" is not in TERMINAL.
PollAnswered ==
    LET got == submit.got
    IN
    /\ submit.pc = "fetching"
    /\ submit' = IF got \in Terminal \/ submit.polls = MaxPolls
                 THEN [NoSubmit EXCEPT !.id = submit.id]
                 ELSE [submit EXCEPT !.pc = "waiting", !.got = "none"]
    /\ status' = (IF Shown /\ got # "none" THEN got ELSE status)
    /\ results' = (IF Shown /\ got \in Terminal THEN submit.id ELSE results)
    /\ toasts' = toasts \cup (IF got \in Announced THEN {<<submit.id, got>>} ELSE {})
    /\ UNCHANGED <<row, sync, session, auth, page, running, prompt, mixed>>

\* The sign-in dialog is closed.
ClosePrompt ==
    /\ prompt # "closed"
    /\ prompt' = "closed"
    /\ UNCHANGED <<row, sync, session, auth, page, status, results, running, submit, toasts, mixed>>

SubmitStep == ServerPosts \/ PostAnswered \/ PollReads \/ PollAnswered

Next ==
    \/ RowMoves \/ SessionEnds \/ AuthLoads \/ Load \/ Leave
    \/ ClickRun \/ RunAnswered
    \/ ClickSubmit \/ SubmitStep \/ ClosePrompt

Spec == Init /\ [][Next]_vars

-----------------------------------------------------------------------------
(* TestResultsPanel *)

\* The panel says that all tests passed.
ClaimsAllPassed == Shown /\ status = "accepted" /\ results # "none"

\* The user is shown as waiting: the label pulses.
ShowsWaiting == Shown /\ status \in {"submitting", "queued", "judging"}

-----------------------------------------------------------------------------
(* Properties *)

\* A verdict on the page is that of the row created last from it, although it was read a
\* while ago and rows are judged twice, swept and deleted (setSubmitStatus in the loop).
VerdictIsTheRows ==
    Shown /\ status \in Verdicts => row[submit.id] \in {status, "deleted"}

\* The results below a status are those of the submission it speaks of, unless a run and a
\* submission were under way at once: then a failed run may be headed "All tests passed".
ResultsMatchStatus ==
    /\ results \in Submissions => results = submit.id /\ status \in Verdicts
    /\ results = "run" /\ status # "null" => mixed
    /\ ClaimsAllPassed => row[submit.id] \in {"accepted", "deleted"}

\* A verdict is announced once and truly, on whatever page the user is by then.
ToastsAreTrue ==
    \A toast \in toasts :
        /\ row[toast[1]] \in {toast[2], "deleted"}
        /\ \A other \in toasts : other[1] = toast[1] => other = toast

\* What the page shows of a submission is true.
PageIsHonest == TypeOK /\ VerdictIsTheRows /\ ResultsMatchStatus /\ ToastsAreTrue

\* A submission ends: the button comes back, and a page that still shows a waiting row has
\* asked for the whole 60 seconds, be the row swept, deleted or stranded.
SubmitEnds == submit.pc # "idle" ~> submit.pc = "idle"
=============================================================================
