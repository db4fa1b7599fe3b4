------------------------------- MODULE Members -------------------------------
(***************************************************************************)
(* What the members of the site earn and are told: the ratings of          *)
(* contests, what an accepted submission earns (SolveEffects), and the     *)
(* messages the realtime hub passes on (HubFanout).  The first two write   *)
(* different tables and have the users in common; the statistics of the    *)
(* badges read the contests as constants of a profile.                     *)
(***************************************************************************)
EXTENDS Contests

CONSTANTS    \* of SolveEffects
    UserOf, ProblemOf, Problems, DifficultyOf, Languages, Runtimes, Days, Challenge, Catalog,
    Profile

CONSTANTS    \* of HubFanout
    Clients, Channels, Buffer, Malformed, MaxMessages, MaxCommands, MaxLosses

VARIABLES
    today, row, streak, completions, badge, handling,
    published, feed, fan, socket, channels, bySub, send, hand, command, got, view, dropped,
    commands, losses

solveVars == <<today, row, streak, completions, badge, handling>>
hubVars ==
    <<published, feed, fan, socket, channels, bySub, send, hand, command, got, view, dropped,
      commands, losses>>

Solving == INSTANCE SolveEffects WITH req <- handling
Hub == INSTANCE HubFanout

ASSUME SolveAssumption == Solving!SolveConstants
ASSUME HubAssumption == Hub!HubConstants

\* CreditIsSound and StreakGoesBackOnlyWhenStale of SolveEffects.
CreditIsSound == Solving!CreditIsSound
StreakGoesBackOnlyWhenStale == Solving!StreakGoesBackOnlyWhenStale

\* FanoutIsSound of HubFanout.
FanoutIsSound == Hub!FanoutIsSound
=============================================================================
