------------------------------- MODULE Hints -------------------------------
(***************************************************************************)
(* The hints of a problem (components/problem/hints-progressive.tsx) and   *)
(* the handler that unlocks one.  A hint is revealed at a price, after the *)
(* one before it.  The server keeps nothing: which hints are open is in    *)
(* the memory of the panel, loaded when it mounts, and in the browser's    *)
(* storage, which all tabs share and every reveal writes as a whole; what  *)
(* the browser does not read or write it swallows.  A panel that is left   *)
(* forgets its request, but the request still saves.                       *)
(***************************************************************************)
EXTENDS Naturals, FiniteSets

CONSTANTS
    Panels,       \* one in each tab
    HintCount,    \* hints of the problem
    MaxOrphans    \* bound on requests that outlive their panels at once

VARIABLES
    stored,       \* the revealed hints in the browser's storage
    panel,        \* of each tab
    orphans,      \* requests of panels that were left
    earned,       \* history: hints that were revealed without a session, or for which the
                  \* server has had a success or a 429 to answer
    shared,       \* history: a panel was mounted while another, or an orphan, was there
    unsaved       \* history: the last use of the storage failed

vars == <<stored, panel, orphans, earned, shared, unsaved>>

Hint == 1..HintCount
Closed == [mounted |-> FALSE, revealed |-> {}, pending |-> 0, request |-> "none"]

Init ==
    /\ stored = {} /\ orphans = {} /\ shared = FALSE /\ unsaved = FALSE
    /\ panel = [p \in Panels |-> Closed]
    /\ earned = {}

\* Mutant: every hint that is not open may be revealed.
AnyHidden(revealed) == Hint \ revealed

\* nextRevealableIndex, as a set.
NextRevealable(revealed) == {i \in Hint \ revealed : 1..(i - 1) \subseteq revealed}

Others(p) == {q \in Panels \ {p} : panel[q].mounted}

\* loadRevealed: nothing, if the storage cannot be read.
Mount(p) ==
    /\ ~panel[p].mounted
    /\ \E revealed \in {stored, {}} :
          /\ panel' = [panel EXCEPT ![p] = [Closed EXCEPT !.mounted = TRUE, !.revealed = revealed]]
          /\ unsaved' = (revealed # stored)
    /\ shared' = (shared \/ Others(p) # {} \/ orphans # {})
    /\ UNCHANGED <<stored, orphans, earned>>

\* The page is left, or shows another tab.
Leave(p) ==
    /\ panel[p].mounted
    /\ panel[p].request # "none" => Cardinality(orphans) < MaxOrphans
    /\ panel' = [panel EXCEPT ![p] = Closed]
    /\ orphans' = IF panel[p].request = "none" THEN orphans
                  ELSE orphans \cup {[base |-> panel[p].revealed, index |-> panel[p].pending,
                                      request |-> panel[p].request]}
    /\ UNCHANGED <<stored, earned, shared, unsaved>>

Ask(p) ==
    /\ panel[p].mounted /\ panel[p].pending = 0
    /\ \E i \in NextRevealable(panel[p].revealed) :
          panel' = [panel EXCEPT ![p].pending = i]
    /\ UNCHANGED <<stored, orphans, earned, shared, unsaved>>

Cancel(p) ==
    /\ panel[p].pending # 0 /\ panel[p].request = "none"
    /\ panel' = [panel EXCEPT ![p].pending = 0]
    /\ UNCHANGED <<stored, orphans, earned, shared, unsaved>>

\* saveRevealed: a storage that is full or disabled keeps what it has, and nobody is told.
Save(revealed) ==
    \/ stored' = revealed /\ unsaved' = FALSE
    \/ UNCHANGED stored /\ unsaved' = TRUE

\* Either way the panel shows the hint.
Reveal(p) ==
    LET revealed == panel[p].revealed \cup {panel[p].pending}
    IN /\ Save(revealed)
       /\ panel' = [panel EXCEPT ![p].revealed = revealed, ![p].pending = 0, ![p].request = "none"]

\* A visitor's reveal is local, that of a user asks the server first.  The session may come
\* and go between the two.
ConfirmHere(p) ==
    /\ panel[p].pending # 0 /\ panel[p].request = "none"
    /\ Reveal(p)
    /\ earned' = earned \cup {panel[p].pending}
    /\ UNCHANGED <<orphans, shared>>

Confirm(p) ==
    /\ panel[p].pending # 0 /\ panel[p].request = "none"
    /\ panel' = [panel EXCEPT ![p].request = "asked"]
    /\ UNCHANGED <<stored, orphans, earned, shared, unsaved>>

Answers == {"ok", "limited", "failed"}

\* The handler.  Without a session or such a hint, and when something throws, it fails; a
\* connection that is cut on the way back is a failure too.
Answer(index, answer) ==
    \/ answer \in {"ok", "limited", "failed"} /\ earned' = earned \cup {index}
    \/ answer = "failed" /\ UNCHANGED earned

Serve(p) ==
    /\ panel[p].request = "asked"
    /\ \E answer \in Answers :
          /\ Answer(panel[p].pending, answer)
          /\ panel' = [panel EXCEPT ![p].request = answer]
    /\ UNCHANGED <<stored, orphans, shared, unsaved>>

\* Mutant: every answer reveals.
RevealsAlways(answer) == answer # "asked"

\* A 429 reveals as a success does.
Reveals(answer) == answer \in {"ok", "limited"}

Arrive(p) ==
    /\ panel[p].request \in Answers
    /\ IF Reveals(panel[p].request) THEN Reveal(p)
       ELSE panel' = [panel EXCEPT ![p].request = "none"] /\ UNCHANGED <<stored, unsaved>>
    /\ UNCHANGED <<orphans, earned, shared>>

\* The same for a request whose panel is gone.
ServeOrphan(r) ==
    /\ r \in orphans /\ r.request = "asked"
    /\ \E answer \in Answers :
          /\ Answer(r.index, answer)
          /\ orphans' = (orphans \ {r}) \cup {[r EXCEPT !.request = answer]}
    /\ UNCHANGED <<stored, panel, shared, unsaved>>

ArriveOrphan(r) ==
    /\ r \in orphans /\ r.request \in Answers
    /\ orphans' = orphans \ {r}
    /\ IF Reveals(r.request) THEN Save(r.base \cup {r.index}) ELSE UNCHANGED <<stored, unsaved>>
    /\ UNCHANGED <<panel, earned, shared>>

Next ==
    \/ \E p \in Panels :
          Mount(p) \/ Leave(p) \/ Ask(p) \/ Cancel(p) \/ ConfirmHere(p) \/ Confirm(p)
            \/ Serve(p) \/ Arrive(p)
    \/ \E r \in orphans : ServeOrphan(r) \/ ArriveOrphan(r)

Spec == Init /\ [][Next]_vars

-----------------------------------------------------------------------------
TypeOK ==
    /\ stored \subseteq Hint /\ earned \subseteq Hint /\ shared \in BOOLEAN /\ unsaved \in BOOLEAN
    /\ panel \in [Panels -> [mounted: BOOLEAN, revealed: SUBSET Hint, pending: 0..HintCount,
                             request: Answers \cup {"none", "asked"}]]
    /\ orphans \subseteq [base: SUBSET Hint, index: Hint, request: Answers \cup {"asked"}]

\* No hint is open before the ones above it, in any panel or in the storage, whichever tab
\* or late request has written it last.
OpenInOrder ==
    \A open \in {stored} \cup {panel[p].revealed : p \in Panels} :
        \A i \in open : 1..i \subseteq open

\* A hint is open only if nobody was signed in, or the server has acknowledged it or has
\* answered that there were too many: a failed request reveals nothing.
OpenIsEarned == \A p \in Panels : stored \cup panel[p].revealed \subseteq earned

\* What a panel shows is what its next visit will find, unless another tab or the request of
\* an earlier visit has written as well, or the browser refused the last read or write; the
\* next hint that it does save makes up for those that it did not.
StoredIsShown ==
    ~shared /\ ~unsaved => \A p \in Panels : panel[p].mounted => stored = panel[p].revealed

\* The three together, over states of the right types.
HintsAreHonest == TypeOK /\ OpenInOrder /\ OpenIsEarned /\ StoredIsShown
=============================================================================
