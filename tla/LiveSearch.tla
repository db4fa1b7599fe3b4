----------------------------- MODULE LiveSearch -----------------------------
(***************************************************************************)
(* Two views that search while the user types: the command palette         *)
(* (components/layout/command-palette.tsx) and the list of problems        *)
(* (app/problems/page.tsx).  Each change runs an effect anew; the cleanup  *)
(* of the one before sets its flag cancelled, and what its request brings  *)
(* is dropped.  The palette waits 180 ms, searches from two letters on and *)
(* puts the problems it finds before its own commands.                     *)
(*                                                                         *)
(* What is typed is 0 for nothing, 1 for a single letter, and then words;  *)
(* in the list it stands for the filters together.  One or two commands    *)
(* stand for those of a group.                                             *)
(***************************************************************************)
EXTENDS Integers, SequencesExt

CONSTANTS
    MaxHits,    \* problems of an answer that are shown
    MaxKeys     \* bound on keystrokes that change something

VARIABLES
    view,        \* "palette" or "list"
    account,     \* "visitor", "user" or "admin"
    open,
    typed,       \* query, or the filters
    search,      \* the effect that runs: "none", "waiting" for its timer, "asked"
    late,        \* what was typed for the requests of cancelled effects
    hits,        \* the problems shown, and what was typed for them
    searching,   \* the flag, or loading
    active,      \* index of the highlighted row
    keys,        \* keystrokes so far
    moved        \* history: the rows have changed with the account since the highlight moved

vars == <<view, account, open, typed, search, late, hits, searching, active, keys, moved>>

Typed == 0..3
NoHits == [of |-> 0, count |-> 0]
Palette == view = "palette"
Searches(q) == Palette => q >= 2

-----------------------------------------------------------------------------
\* The rows of the palette.
Row(id, group) == [id |-> id, group |-> group]

Navigation == <<Row("home", "Navigation"), Row("problems", "Navigation")>>
Account ==
    CASE account = "visitor" -> <<Row("login", "Account")>>
      [] account = "user" -> <<Row("dashboard", "Account"), Row("logout", "Account")>>
      [] account = "admin" -> <<Row("dashboard", "Account"), Row("logout", "Account"),
                                Row("console", "Admin")>>
Theme == <<Row("light", "Theme")>>

\* Mutant: the themes come before the account.
CommandsThemeFirst == Navigation \o Theme \o Account

Commands == Navigation \o Account \o Theme

\* Commands whose text contains all that is typed.
Matches(q) ==
    CASE q = 0 -> {"home", "problems", "login", "dashboard", "logout", "console", "light"}
      [] q = 1 -> {"home", "login", "logout", "light"}
      [] q = 2 -> {"problems", "dashboard"}
      [] q = 3 -> {}

Filtered == SelectSeq(Commands, LAMBDA c : c.id \in Matches(typed))
Hits == [i \in 1..hits.count |-> Row("problem", "Problems")]

\* The rows in the order of the keyboard, and in the order in which they are drawn.
Ordered == Hits \o Filtered
GroupOrder == <<"Navigation", "Problems", "Account", "Admin", "Theme">>
Drawn ==
    Hits \o FlattenSeq([i \in DOMAIN GroupOrder |->
                SelectSeq(Filtered, LAMBDA c : c.group = GroupOrder[i])])

-----------------------------------------------------------------------------
Init ==
    /\ view \in {"palette", "list"}
    /\ account = "visitor"
    /\ open = ~Palette
    /\ typed = 0
    /\ search = IF Palette THEN "none" ELSE "asked"
    /\ searching = ~Palette
    /\ late = {} /\ hits = NoHits /\ active = 0 /\ keys = 0 /\ moved = FALSE

\* The effect for what is typed now, after the cleanup of the last one.
Effect(q, isOpen) ==
    /\ late' = late \cup (IF search = "asked" THEN {typed} ELSE {})
    /\ search' = IF isOpen /\ Searches(q) THEN IF Palette THEN "waiting" ELSE "asked" ELSE "none"
    /\ searching' = (searching \/ (isOpen /\ Searches(q)))

Key == keys < MaxKeys /\ keys' = keys + 1

\* The highlight goes back to the first row when the query or the number of hits changes.
Reset(n) ==
    /\ active' = IF n = hits.count /\ typed' = typed THEN active ELSE 0
    /\ moved' = (moved /\ n = hits.count /\ typed' = typed)

\* A letter, the cross in the search row, a tab, a tag, or the reset of all filters.
Type(q) ==
    /\ open /\ q # typed
    /\ Key
    /\ typed' = q
    /\ Effect(q, TRUE)
    /\ hits' = IF Searches(q) THEN hits ELSE NoHits
    /\ Reset(hits'.count)
    /\ UNCHANGED <<view, account, open>>

\* Cmd-K, or a slash outside of an input: nothing is cleared.
Toggle ==
    /\ Palette
    /\ Key
    /\ open' = ~open
    /\ UNCHANGED <<view, account, typed>>
    /\ Effect(typed, ~open)
    /\ hits' = IF ~open /\ ~Searches(typed) THEN NoHits ELSE hits
    /\ Reset(hits'.count)

\* Escape, or a click beside the panel.
Close ==
    /\ Palette /\ open
    /\ Key
    /\ open' = FALSE
    /\ typed' = 0
    /\ Effect(0, FALSE)
    /\ hits' = NoHits
    /\ active' = 0 /\ moved' = FALSE
    /\ UNCHANGED <<view, account>>

\* Enter or a click on a row: it runs and the palette closes, unless it sets the theme.
Run ==
    /\ active + 1 \in DOMAIN Ordered
    /\ Ordered[active + 1].group # "Theme"
    /\ Close

Highlight(i) ==
    /\ Palette /\ open
    /\ active' = i
    /\ moved' = (moved /\ i + 1 \notin DOMAIN Ordered)
    /\ UNCHANGED <<view, account, open, typed, search, late, hits, searching, keys>>

Down == LET last == Len(Ordered) - 1 IN Highlight(IF active < last THEN active + 1 ELSE last)
Up == Highlight(IF active > 0 THEN active - 1 ELSE 0)
Hover == \E i \in DOMAIN Ordered : Highlight(i - 1)

\* The timer fires and the request goes out.
Fire ==
    /\ search = "waiting"
    /\ search' = "asked"
    /\ UNCHANGED <<view, account, open, typed, late, hits, searching, active, keys, moved>>

\* The answer, or a failure, which shows nothing.
Answer(n) ==
    /\ search = "asked"
    /\ search' = "none"
    /\ searching' = FALSE
    /\ hits' = [of |-> typed, count |-> n]
    /\ UNCHANGED <<view, account, open, typed, late, keys>>
    /\ Reset(n)

\* Mutant: the answer of a cancelled effect is shown.
LateShown(q) ==
    /\ q \in late
    /\ late' = late \ {q}
    /\ hits' = [of |-> q, count |-> MaxHits]
    /\ UNCHANGED <<view, account, open, typed, search, searching, active, keys, moved>>

\* The answer of a cancelled effect is dropped.
Late(q) ==
    /\ q \in late
    /\ late' = late \ {q}
    /\ UNCHANGED <<view, account, open, typed, search, hits, searching, active, keys, moved>>

\* The session is known, somebody signs in or out.
SignIn(a) ==
    /\ Palette /\ a # account
    /\ Key
    /\ account' = a
    /\ moved' = TRUE
    /\ UNCHANGED <<view, open, typed, search, late, hits, searching, active>>

Next ==
    \/ \E q \in Typed : Type(q) \/ Late(q)
    \/ Toggle \/ Close \/ Run \/ Down \/ Up \/ Hover \/ Fire
    \/ \E n \in 0..MaxHits : Answer(n)
    \/ \E a \in {"visitor", "user", "admin"} : SignIn(a)

Spec == Init /\ [][Next]_vars

-----------------------------------------------------------------------------
TypeOK ==
    /\ typed \in Typed /\ late \subseteq Typed
    /\ search \in {"none", "waiting", "asked"}
    /\ hits \in [of: Typed, count: 0..MaxHits]
    /\ active \in Int /\ open \in BOOLEAN /\ searching \in BOOLEAN /\ keys \in 0..MaxKeys

\* What is shown when no search runs was found for what is typed, whatever the order in
\* which the requests were answered.
HitsAreForQuery ==
    open /\ search = "none" =>
        IF Searches(typed) THEN hits.of = typed ELSE hits.count = 0

\* A search that is shown as running runs, though the flag may outlive a cancelled one.
SearchingIsTrue == open /\ Searches(typed) => (searching <=> search # "none")

\* The row that is drawn as highlighted is the one that Enter runs.
DrawnAsOrdered == Palette => Drawn = Ordered

\* There is a highlighted row if there are rows, unless the account has changed them.
HighlightIsARow ==
    Palette /\ open /\ ~moved => active + 1 \in DOMAIN Ordered \/ Ordered = <<>>

\* The four together, over states of the right types.
SearchIsHonest ==
    TypeOK /\ HitsAreForQuery /\ SearchingIsTrue /\ DrawnAsOrdered /\ HighlightIsARow
=============================================================================
