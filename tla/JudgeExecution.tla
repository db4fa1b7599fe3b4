--------------------------- MODULE JudgeExecution ---------------------------
(***************************************************************************)
(* One admitted request to the judge, from its checks (executeHandler) over*)
(* the concurrent test cases (runConcurrent, exec.go, sandbox.go and the   *)
(* wrapper runners) to the verdict the web worker stores                   *)
(* (submission-jobs.ts).  JudgeScheduler has the admission,                *)
(* SubmissionPipeline the failures of the call itself.                     *)
(*                                                                         *)
(* Time is in seconds.  The program is unknown: whenever it may end it ends*)
(* in any way.  Of a text only what the classifiers look for is kept:      *)
(* "syntax" and "memory" are found by the judge and by the worker,         *)
(* "expected" (cannot find, undefined:) and "oom" (Cannot allocate) by the *)
(* judge alone, "other" by nobody; "empty" is the empty text, and          *)
(* "time_limit" the judge's own "Time Limit Exceeded", which a program may *)
(* write as well.                                                          *)
(***************************************************************************)
EXTENDS Integers, FiniteSets

CONSTANTS
    MaxTests,        \* test cases a request may have: 20
    TimeLimit,       \* the request's timeLimit: 5
    RunnerTimeout,   \* RUNNER_TIMEOUT of the wrappers: 5
    Profiles,        \* profiles.json: the CPU and wall limits of the languages, 0 if not given
    DefaultProfile   \* and those of every other language

\* What the constants of judge and wrappers satisfy.
ExecutionConstants ==
    /\ MaxTests \in Nat \ {0} /\ TimeLimit \in Nat \ {0} /\ RunnerTimeout \in Nat \ {0}
    /\ \A p \in Profiles : p.cpu \in Nat /\ p.wall \in Nat
    /\ DefaultProfile.cpu \in Nat \ {0} /\ DefaultProfile.wall \in Nat \ {0}

VARIABLES
    lang,      \* the way the language is run
    profile,   \* its entry in the registry
    jailed,    \* the sandbox mode: nsjail, or off
    count,     \* the problem's test cases
    phase,     \* of the request
    test,      \* each test case: its goroutine, and the TestResult at the end
    answer,    \* status of the response, or a refusal
    files,     \* files of test cases on the host
    orphans,   \* test cases of which a process outlives their execution
    row        \* the status the worker stores

vars == <<lang, profile, jailed, count, phase, test, answer, files, orphans, row>>
setup == <<lang, profile, jailed, count>>

Texts == {"syntax", "expected", "memory", "oom", "time_limit", "other"}
Wrapped == {"python", "ruby", "javascript"}
Tests == 1..count
Idle == [pc |-> "idle", at |-> 0, start |-> 0, cpu |-> 0]
Running == {t \in Tests : test[t].pc \in {"compile", "run"}}

\* Commands that were killed, or are over, while a process they started holds their output.
Held == {t \in Tests : test[t].pc \in {"compile_held", "run_held"}}

TypeOK ==
    /\ lang \in Wrapped \cup {"compiled", "interpreted"}
    /\ profile \in Profiles /\ jailed \in BOOLEAN /\ count \in 0..(MaxTests + 1)
    /\ phase \in {"received", "running", "answered", "stored"}
    /\ \A t \in Tests :
          \/ test[t] \in [pc : {"idle", "compile", "run", "compile_held", "run_held"},
                          at : 0..TimeLimit, start : 0..TimeLimit, cpu : 0..TimeLimit]
          \/ test[t] \in [pc : {"done"}, passed : BOOLEAN, error : Texts \cup {"empty"},
                          why : {"ended", "deadline", "killed", "runner", "flood", "compiler", "fault"},
                          right : BOOLEAN, text : Texts \cup {"empty"}, at : 0..TimeLimit]
    /\ files \subseteq Tests \X {"source", "wrapper"}
    /\ orphans \subseteq Tests

Init ==
    /\ lang \in Wrapped \cup {"compiled", "interpreted"}
    /\ profile \in Profiles /\ jailed \in BOOLEAN /\ count \in 0..(MaxTests + 1)
    /\ phase = "received" /\ answer = "none" /\ row = "judging"
    /\ test = [t \in Tests |-> Idle]
    /\ files = {} /\ orphans = {}

Lesser(a, b) == IF a < b THEN a ELSE b

\* ProfileRegistry.Lookup: what the entry does not give is the default.
Lookup(entry) ==
    [f \in {"cpu", "wall"} |-> IF entry[f] > 0 THEN entry[f] ELSE DefaultProfile[f]]

\* limitsForLang.  The request's own time only lowers the limits of the profile.
limits ==
    LET cpu == Lesser(Lookup(profile).cpu, TimeLimit + 1)
        wall == Lesser(Lookup(profile).wall, TimeLimit)
    IN [cpu |-> cpu, wall |-> IF wall < cpu THEN cpu + 1 ELSE wall]

\* The CPU time after which the program is killed: nsjail's rlimit, and python_runner's own.
CpuLimits ==
    (IF jailed THEN {limits.cpu} ELSE {}) \cup (IF lang = "python" THEN {RunnerTimeout} ELSE {})

\* python_runner sets a CPU limit of its own, and may not raise the one it runs under.
Startable == ~(lang = "python" /\ jailed /\ limits.cpu < RunnerTimeout)

\* A command that returns after the deadline counts as timed out, whatever it returns.
InTime(t) == test[t].pc = "run" /\ test[t].at < TimeLimit
Runs(t) == InTime(t) /\ Startable

OverCpu(t) == Runs(t) /\ \E c \in CpuLimits : test[t].cpu >= c
OverWall(t) == InTime(t) /\ jailed /\ test[t].at - test[t].start >= limits.wall
OverRunner(t) == Runs(t) /\ lang \in Wrapped /\ test[t].at - test[t].start >= RunnerTimeout

\* capture3 of Ruby and spawnSync return only when the program has exited, also after their
\* time-out: the first closes its pipes, the second sends a SIGTERM it may ignore.
Patient == lang \in {"ruby", "javascript"}
Late(t) == Patient /\ test[t].at - test[t].start > RunnerTimeout

-----------------------------------------------------------------------------
(* The request *)

\* executeHandler: the checks before the scheduler, and the answer to a request that fails
\* one; isSafe finds what it looks for or not.
Check ==
    /\ phase = "received"
    /\ \/ /\ count \in 1..MaxTests
          /\ phase' = "running" /\ UNCHANGED answer
       \/ /\ count \in 1..MaxTests
          /\ phase' = "answered" /\ answer' = "security_error"
       \/ /\ count \notin 1..MaxTests
          /\ phase' = "answered" /\ answer' = "HTTP_400"
    /\ UNCHANGED <<setup, test, files, orphans, row>>

\* The first test case that did not pass, as a set.
Failing ==
    LET failed == {t \in Tests : ~test[t].passed}
    IN {t \in failed : \A u \in failed : t <= u}

\* executeHandler: the verdict from the error of the first failure.
JudgeStatus(error) ==
    CASE error = "time_limit" -> "time_limit_exceeded"
      [] error \in {"syntax", "expected"} -> "compile_error"
      [] error \in {"memory", "oom"} -> "memory_limit_exceeded"
      [] error = "other" -> "runtime_error"
      [] error = "empty" -> "wrong_answer"

\* runConcurrent returns when every goroutine is done.
Answer ==
    /\ phase = "running" /\ \A t \in Tests : test[t].pc = "done"
    /\ phase' = "answered"
    /\ IF Failing = {} THEN answer' = "accepted"
       ELSE \E t \in Failing : answer' = JudgeStatus(test[t].error)
    /\ UNCHANGED <<setup, test, files, orphans, row>>

Trusted == {"compile_error", "memory_limit_exceeded", "time_limit_exceeded", "security_error"}

\* The worker's handler, from the results: the first error need not be of the first failure.
WorkerStatus ==
    LET failed == {t \in Tests : ~test[t].passed}
        wrong == {t \in Tests : test[t].error # "empty"}
        first == test[CHOOSE t \in wrong : \A u \in wrong : t <= u].error
    IN IF failed = {} THEN "accepted"
       ELSE IF wrong = {} THEN "wrong_answer"
       ELSE IF first = "syntax" THEN "compile_error"
       ELSE IF first = "memory" THEN "memory_limit_exceeded" ELSE "runtime_error"

\* An error answer of the judge is stored as the user's runtime error.
Store ==
    /\ phase = "answered"
    /\ phase' = "stored"
    /\ row' = IF answer = "HTTP_400" THEN "runtime_error"
              ELSE IF answer \in Trusted THEN answer ELSE WorkerStatus
    /\ UNCHANGED <<setup, test, answer, files, orphans>>

-----------------------------------------------------------------------------
(* A test case *)

\* A TestResult, and what its explanation needs: the time if that is what cut it off.
Result(t, passed, error, why, right, text) ==
    [pc |-> "done", passed |-> passed, error |-> error, why |-> why, right |-> right, text |-> text,
     at |-> IF why \in {"deadline", "runner"} THEN test[t].at ELSE 0]

\* Mutant of Done: the deferred removal is missing.
DoneKeepsFiles(t, result, left, stray) ==
    /\ test' = [test EXCEPT ![t] = result]
    /\ files' = files \cup left
    /\ UNCHANGED orphans \/ (stray /\ orphans' = orphans \cup {t})
    /\ UNCHANGED <<setup, phase, answer, row>>

\* The deferred calls: the source goes, what the runner wrote beside it stays if left.  Only
\* the process started here is ever killed: without a jail one that it started may stay.
Done(t, result, left, stray) ==
    /\ test' = [test EXCEPT ![t] = result]
    /\ files' = {f \in files : f[1] # t} \cup left
    /\ UNCHANGED orphans \/ (stray /\ orphans' = orphans \cup {t})
    /\ UNCHANGED <<setup, phase, answer, row>>

\* executeTestCase and executeFromConfig: write the source, start the first command.
Begin(t) ==
    /\ phase = "running" /\ test[t].pc = "idle"
    /\ \/ /\ test' = [test EXCEPT ![t].pc = IF lang = "compiled" THEN "compile" ELSE "run"]
          /\ files' = files \cup {<<t, "source">>}
                            \cup (IF lang = "javascript" THEN {<<t, "wrapper">>} ELSE {})
          /\ UNCHANGED <<setup, phase, answer, orphans, row>>
       \/ Done(t, Result(t, FALSE, "other", "fault", FALSE, "empty"), {}, FALSE)

\* A second passes.  The test cases share the machine: some get the processor, some wait.
Tick ==
    /\ Running # {}
    /\ \A t \in Running :
          test[t].at < TimeLimit /\ ~OverCpu(t) /\ ~OverWall(t) /\ (OverRunner(t) => Patient)
    /\ \E busy \in SUBSET Running :
          test' = [t \in Tests |->
                      IF t \notin Running THEN test[t]
                      ELSE [test[t] EXCEPT !.at = @ + 1, !.cpu = IF t \in busy THEN @ + 1 ELSE @]]
    /\ UNCHANGED <<setup, phase, answer, files, orphans, row>>

\* What the classifiers find in a text that stands behind "Compilation error:" or "Runtime
\* error (exit 1):", which they do not know: such an error is not the judge's own any more.
Prefixed(text) == IF text \in {"empty", "time_limit"} THEN "other" ELSE text

\* The compile command ends, and its output is what the error of the test case will say.
CompileEnds(t) ==
    /\ test[t].pc = "compile" /\ test[t].at < TimeLimit
    /\ \/ /\ test' = [test EXCEPT ![t].pc = "run", ![t].start = test[t].at, ![t].cpu = 0]
          /\ UNCHANGED <<setup, phase, answer, files, orphans, row>>
       \/ \E text \in Texts :
             Done(t, Result(t, FALSE, Prefixed(text), "compiler", FALSE, text), {}, ~jailed)

\* The error of a program that was run: a registry language has its exit code in it, a
\* wrapper passes on what the program wrote to stderr, which may be nothing.
ErrorText(failed, text) ==
    IF ~failed THEN "empty"
    ELSE IF lang \in Wrapped THEN text ELSE Prefixed(text)

\* Mutant of Outcome: an error does not stop the comparison of the output.
OutcomeByOutput(t, failed, right, text, why) ==
    Result(t, right, ErrorText(failed, text), why, right, text)

\* The output is compared only when there is no error.  A registry language has stdout and
\* stderr in one buffer, so that whatever is written to stderr makes the output wrong.
Outcome(t, failed, right, text, why) ==
    LET error == ErrorText(failed, text)
        asExpected == right /\ (lang \in Wrapped \/ text = "empty")
    IN Result(t, error = "empty" /\ asExpected, error, why, right, text)

\* The program ends by itself.  What one that succeeds writes to stderr no classifier reads.
Ends(t) ==
    /\ Runs(t) /\ ~Late(t)
    /\ \E failed, right \in BOOLEAN, text \in Texts \cup {"empty"} :
          /\ ~failed => text \in {"empty", "other"}
          /\ Done(t, Outcome(t, failed, right, text, "ended"), {}, ~jailed)

\* The kernel kills the program for its CPU time.  What it printed so far may be right.
\* A wrapper survives its program.
CpuKill(t) ==
    /\ OverCpu(t) /\ ~Late(t)
    /\ \E right \in BOOLEAN, text \in Texts \cup {"empty"} :
          Done(t, Outcome(t, TRUE, right, text, "killed"), {}, ~jailed)

\* What the JavaScript runner wrote beside the source stays when the runner is killed.
Left(t) == IF lang = "javascript" THEN {<<t, "wrapper">>} ELSE {}

\* nsjail's time_limit kills everything in the jail.  A wrapper's JSON is missing, and the
\* raw output that takes its place is empty.
WallKill(t) ==
    /\ OverWall(t)
    /\ \E text \in Texts \cup {"empty"} :
          Done(t, IF lang \in Wrapped THEN Result(t, FALSE, "empty", "killed", FALSE, "empty")
                  ELSE Outcome(t, TRUE, FALSE, text, "killed"), Left(t), FALSE)

\* The context of the test case is over, and cmd.Run returns.
TimedOut(t) ==
    Done(t, Result(t, FALSE, IF test[t].pc \in {"compile", "compile_held"} THEN "other" ELSE "time_limit",
                   "deadline", FALSE, "empty"),
         IF test[t].pc = "run" THEN Left(t) ELSE {}, ~jailed)

\* Mutant of Deadline: the compiler runs outside the context.
DeadlineOfRun(t) ==
    /\ test[t].pc = "run" /\ test[t].at = TimeLimit
    /\ TimedOut(t)

\* The deadline of the test case's context; it also counts the compilation.  The process
\* started here is killed, but cmd.Run copies the output until everybody has closed it:
\* without a jail a process started by a registry language's command may hold it (the
\* wrappers give their programs pipes of their own).
Deadline(t) ==
    /\ t \in Running /\ test[t].at = TimeLimit
    /\ \/ TimedOut(t)
       \/ /\ ~jailed /\ lang \notin Wrapped
          /\ test' = [test EXCEPT ![t].pc = IF test[t].pc = "compile" THEN "compile_held" ELSE "run_held"]
          /\ UNCHANGED <<setup, phase, answer, files, orphans, row>>

\* The last of them closes the output.
OutputCloses(t) == t \in Held /\ TimedOut(t)

\* The wrapper's own time-out.
RunnerTimesOut(t) ==
    /\ OverRunner(t)
    /\ Done(t, Result(t, FALSE, "time_limit", "runner", FALSE, "empty"), {}, ~jailed)

\* spawnSync stops a program that prints more than maxBuffer with SIGTERM, which js_runner
\* takes for its time-out.
Flood(t) ==
    /\ Runs(t) /\ lang = "javascript" /\ ~Late(t)
    /\ Done(t, Result(t, FALSE, "time_limit", "flood", FALSE, "empty"), {}, ~jailed)

\* A wrapper cannot start the program: "Runner error", or "Runner setup error".
RunnerBreaks(t) ==
    /\ InTime(t) /\ lang \in Wrapped
    /\ Done(t, Result(t, FALSE, "other", "fault", FALSE, "empty"), {}, FALSE)

OrphanEnds(t) ==
    /\ t \in orphans
    /\ orphans' = orphans \ {t}
    /\ UNCHANGED <<setup, phase, test, answer, files, row>>

TestStep(t) ==
    \/ Begin(t) \/ CompileEnds(t)
    \/ Ends(t) \/ CpuKill(t) \/ WallKill(t) \/ Deadline(t)
    \/ RunnerTimesOut(t) \/ Flood(t) \/ RunnerBreaks(t)

Next ==
    \/ Check \/ Answer \/ Store \/ Tick
    \/ \E t \in Tests : TestStep(t) \/ OutputCloses(t) \/ OrphanEnds(t)

Spec == Init /\ [][Next]_vars

\* Goroutines run, time passes, and the judge's answer is stored.  Nothing makes a process
\* that was left behind close the output, or end.
FairSpec ==
    /\ Spec
    /\ WF_vars(Check \/ Answer \/ Store \/ Tick \/ \E t \in Tests : TestStep(t))

-----------------------------------------------------------------------------
(* Properties *)

\* A stored "accepted" is right: every test case ran, no program was stopped by a deadline,
\* and all of them printed what was expected, whichever way the language is run.
AcceptedIsRight ==
    row = "accepted" =>
        /\ count \in 1..MaxTests
        /\ \A t \in Tests :
              /\ test[t].right /\ test[t].why \in {"ended", "killed"}
              /\ lang \notin Wrapped => test[t].why = "ended" /\ test[t].text = "empty"

\* A stored "time_limit_exceeded" is the fault of the first test case that failed: it used
\* up the time of the request or of its runner, is JavaScript that printed too much, or a
\* program of a wrapper language that failed and wrote just the judge's text to stderr
\* (main.go compares the text of the error).
TimeOutsAreReal ==
    row = "time_limit_exceeded" =>
        \A t \in Failing :
            \/ test[t].why = "deadline" /\ test[t].at = TimeLimit
            \/ test[t].why = "runner" /\ test[t].at >= RunnerTimeout
            \/ test[t].why = "flood" /\ lang = "javascript"
            \/ test[t].text = "time_limit" /\ lang \in Wrapped /\ test[t].why \in {"ended", "killed"}

\* A "compile_error" or "memory_limit_exceeded" comes from a text that says so: of the first
\* failure, or, where that failed without a text, of a later test case.
TextsAreQuoted ==
    /\ row = "compile_error" =>
          \/ \E t \in Failing : test[t].text \in {"syntax", "expected"}
          \/ \E t \in Tests : test[t].text = "syntax" /\ \A u \in Failing : test[u].error = "empty"
    /\ row = "memory_limit_exceeded" =>
          \/ \E t \in Failing : test[t].text \in {"memory", "oom"}
          \/ \E t \in Tests : test[t].text = "memory" /\ \A u \in Failing : test[u].error = "empty"

\* When the request is answered nothing of it is left on the host but the wrapper files of
\* JavaScript runners that were killed, and no process of a command that was started still
\* runs unless there is no jail (deferred removals; Setpgid is not used).
NothingIsLeft ==
    phase \in {"answered", "stored"} =>
        /\ \A f \in files : f[2] = "wrapper" /\ test[f[1]].why \in {"deadline", "killed"}
        /\ \A t \in orphans : ~jailed /\ test[t].why # "fault"

\* The verdict that is stored is explained by what the programs did, and they leave nothing
\* behind.
ExecutionIsSound ==
    TypeOK /\ AcceptedIsRight /\ TimeOutsAreReal /\ TextsAreQuoted /\ NothingIsLeft

\* Every request is answered and its row leaves judging, whatever the programs do, unless a
\* process that a test case left behind holds its output for ever: then that test case, the
\* WaitGroup of runConcurrent and the request wait for ever, past every deadline.
EveryRowIsJudged == <>(row # "judging") \/ <>[](Held # {})
=============================================================================
