-------------------------------- MODULE Judge --------------------------------
(***************************************************************************)
(* The judge: admission (JudgeScheduler) and the execution of one admitted *)
(* request (JudgeExecution), whose answer is reply here.                   *)
(***************************************************************************)
EXTENDS JudgeScheduler

CONSTANTS MaxTests, TimeLimit, RunnerTimeout, Profiles, DefaultProfile    \* of JudgeExecution

VARIABLES lang, profile, jailed, count, phase, test, reply, files, orphans, row

executionVars == <<lang, profile, jailed, count, phase, test, reply, files, orphans, row>>

Exec == INSTANCE JudgeExecution WITH answer <- reply

ASSUME ExecutionAssumption == Exec!ExecutionConstants

\* ExecutionIsSound and EveryRowIsJudged of JudgeExecution.
ExecutionIsSound == Exec!ExecutionIsSound
EveryRowIsJudged == Exec!EveryRowIsJudged
=============================================================================
