------------------------------ MODULE Browser ------------------------------
(***************************************************************************)
(* The browser's two ways to follow a submission: the event stream of the  *)
(* live monitor and the polling page of a problem.  They share nothing but *)
(* the verdicts a row can have, so a behaviour takes one of them.          *)
(***************************************************************************)
EXTENDS SubmissionStream

CONSTANTS Submissions, Terminal, MaxPolls    \* of ProblemPage

VARIABLES
    pageRow, sync, session, auth, page, shown, results, running, submit, prompt, toasts, mixed

pageVars ==
    <<pageRow, sync, session, auth, page, shown, results, running, submit, prompt, toasts, mixed>>

Page == INSTANCE ProblemPage WITH row <- pageRow, status <- shown

ASSUME PageAssumption == Page!PageConstants

\* PageIsHonest and SubmitEnds of ProblemPage.
PageIsHonest == Page!PageIsHonest
SubmitEnds == Page!SubmitEnds

VARIABLE part    \* the client that runs

BrowserInit ==
    /\ Init /\ Page!Init
    /\ \/ part = "page"
       \/ part = "stream" /\ sync /\ session

StreamStep(A) == part = "stream" /\ A /\ UNCHANGED <<part, pageVars>>
PageStep(A) == part = "page" /\ A /\ UNCHANGED <<part, vars>>

\* The fairness is that of SubmissionStream and ProblemPage.
BrowserSpec ==
    /\ BrowserInit
    /\ [][StreamStep(Next) \/ PageStep(Page!Next)]_<<part, vars, pageVars>>
    /\ WF_vars(StreamStep(Start))
    /\ \A i \in Slots : WF_vars(StreamStep(PollQuery(i))) /\ WF_vars(StreamStep(PollResult(i)))
    /\ WF_pageVars(PageStep(Page!SubmitStep))
=============================================================================
