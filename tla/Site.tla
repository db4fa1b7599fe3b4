-------------------------------- MODULE Site --------------------------------
(***************************************************************************)
(* What the users of the site share, in parts that have no variable in     *)
(* common: the connections of the realtime service, the tables of what     *)
(* users write (Community), and the sessions of the web tier (WebSessions).*)
(***************************************************************************)
EXTENDS RealtimeConnections

CONSTANTS    \* of Community
    Users, Admins, Threads, Comments, Solutions, Problems, MaxReplyDepth, Requests, MaxRequests

VARIABLES accounts, author, comment, mark, voteCount, req, started, excused

tableVars == <<accounts, author, comment, mark, voteCount, req, started, excused>>

Db == INSTANCE Community

ASSUME CommunityAssumption == Db!CommunityConstants

CONSTANTS    \* of WebSessions
    Emails, Names, Lower, Passwords, First, Tabs, Life, Window, Max, MaxClock, MaxOps

VARIABLES
    fallback, clock, row, cookie, buckets, generation, forms, me, store, page, ops,
    lastAdmin, tries, asked

webVars ==
    <<fallback, clock, row, cookie, buckets, generation, forms, me, store, page, ops,
      lastAdmin, tries, asked>>

Web == INSTANCE WebSessions WITH req <- forms, told <- asked

ASSUME WebAssumption == Web!WebConstants

\* CommunityIsSound and Symmetry of Community.
CommunityIsSound == Db!CommunityIsSound
Symmetry == Db!Symmetry

\* SessionsAreSound of WebSessions.
SessionsAreSound == Web!SessionsAreSound

-----------------------------------------------------------------------------
(* What TLC checks: one part at a time. *)

\* Claims of no connections, and emails that are in lower case already.
NoClaims == [c \in {} |-> c]
AsTyped == [e \in Emails |-> e]

\* The tables, with nobody connected and one web tier in production.
TablesInit == Init /\ Db!Init /\ Web!Init /\ fallback
TablesNext == Db!Next /\ UNCHANGED <<vars, webVars>>
TablesSpec == TablesInit /\ [][TablesNext]_<<vars, tableVars, webVars>>
=============================================================================
