-------------------------- MODULE MCQueueAndPlayback --------------------------
\* Model-checking instance of two parts that share nothing: the worker's queue and the
\* recording of code.  A behaviour takes one of them.
EXTENDS WorkerQueue

CONSTANTS j1, j2, j3, j4

FourJobs == {j1, j2, j3, j4}

VARIABLES
    part,    \* the part that runs
    doc, clock, startedAt, buffer, events, excused, post, rows, told,
    frames, shown, frameIndex, playing

playbackVars ==
    <<doc, clock, startedAt, buffer, events, excused, post, rows, told,
      frames, shown, frameIndex, playing>>

Playback == INSTANCE CodePlayback WITH
    Char <- "x", NL <- "n", Submissions <- {"s1"}, Window <- 2, MaxBuffer <- 3,
    MaxClock <- 4, MaxLength <- 3, MaxEvents <- 2, Epoch <- 100

MCInit == Init /\ Playback!Init /\ part \in {"queue", "playback"}

QueueStep(A) == part = "queue" /\ A /\ UNCHANGED <<part, playbackVars>>
Recording == part = "playback" /\ Playback!Next /\ UNCHANGED <<part, vars>>

MCSpec ==
    /\ MCInit
    /\ [][QueueStep(Next) \/ Recording]_<<part, vars, playbackVars>>
    /\ \A j \in Jobs : /\ WF_vars(QueueStep(RetryTimer(j)))
                       /\ WF_vars(QueueStep(Resolve(j) \/ Reject(j)))

\* PlaybackIsFaithful of CodePlayback.
PlaybackIsFaithful == Playback!PlaybackIsFaithful
=============================================================================
