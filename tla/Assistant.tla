----------------------------- MODULE Assistant ------------------------------
(***************************************************************************)
(* The assistant of a problem's page (components/chat/) and its route      *)
(* (app/api/chat/route.ts).  The handler stores the question, asks the     *)
(* workflow, which a reply of its own replaces if it fails, and stores the *)
(* reply; it goes on when the client has given up.  The panel shows a      *)
(* question before it is stored and takes it back if the request fails.    *)
(* It loads the oldest rows once, when it is first opened, and what it     *)
(* loads replaces all it shows.                                            *)
(*                                                                         *)
(* One user asks about one problem, in several tabs; a question is its     *)
(* number.                                                                 *)
(***************************************************************************)
EXTENDS Naturals, SequencesExt

CONSTANTS
    Tabs,
    HistoryLimit,    \* rows of a history
    MaxSends,        \* bound on questions
    MaxCuts          \* bound on requests whose answer is lost

VARIABLES
    rows,     \* the messages of the user about the problem, in the order of createdAt
    post,     \* of each question: the tab that waits or has its reply, or Nobody, and how far
              \* the handler has come
    chat,     \* the panel of each tab
    cuts,     \* so far
    hasty     \* history: the tabs that asked while their history was on its way

vars == <<rows, post, chat, cuts, hasty>>

Message(role, n) == [role |-> role, of |-> n]
Shown(m, own) == [role |-> m.role, of |-> m.of, own |-> own]    \* own: only in the panel
Nobody == "nobody"
Fresh == [open |-> FALSE, history |-> "none", got |-> <<>>, messages |-> <<>>, sending |-> 0]

Init ==
    /\ rows = <<>> /\ post = <<>> /\ cuts = 0 /\ hasty = {}
    /\ chat = [t \in Tabs |-> Fresh]

\* The first time the history is asked for.
Open(t) ==
    /\ ~chat[t].open
    /\ chat' = [chat EXCEPT ![t].open = TRUE,
                            ![t].history = IF @ = "none" THEN "asked" ELSE @]
    /\ UNCHANGED <<rows, post, cuts, hasty>>

Close(t) ==
    /\ chat[t].open
    /\ chat' = [chat EXCEPT ![t].open = FALSE]
    /\ UNCHANGED <<rows, post, cuts, hasty>>

\* The page is left: what it still waits for is dropped.
Leave(t) ==
    /\ chat[t] # Fresh
    /\ chat' = [chat EXCEPT ![t] = Fresh]
    /\ post' = [n \in DOMAIN post |->
                    IF post[n].tab = t THEN [post[n] EXCEPT !.tab = Nobody] ELSE post[n]]
    /\ hasty' = hasty \ {t}
    /\ UNCHANGED <<rows, cuts>>

-----------------------------------------------------------------------------
\* orderBy createdAt asc, take 50: the oldest.
History == SubSeq(rows, 1, IF Len(rows) > HistoryLimit THEN HistoryLimit ELSE Len(rows))

ReadHistory(t) ==
    /\ chat[t].history = "asked"
    /\ chat' = [chat EXCEPT ![t].history = "read",
                            ![t].got = [i \in DOMAIN History |-> Shown(History[i], FALSE)]]
    /\ UNCHANGED <<rows, post, cuts, hasty>>

LoadHistory(t) ==
    /\ chat[t].history = "read"
    /\ chat' = [chat EXCEPT ![t].history = "done", ![t].got = <<>>, ![t].messages = chat[t].got]
    /\ UNCHANGED <<rows, post, cuts, hasty>>

\* A history that fails is not asked for again.
LoseHistory(t) ==
    /\ chat[t].history \in {"asked", "read"}
    /\ chat' = [chat EXCEPT ![t].history = "done", ![t].got = <<>>]
    /\ UNCHANGED <<rows, post, cuts, hasty>>

-----------------------------------------------------------------------------
Send(t) ==
    LET n == Len(post) + 1
    IN /\ chat[t].open /\ chat[t].sending = 0 /\ n <= MaxSends
       /\ post' = Append(post, [tab |-> t, pc |-> "asked"])
       /\ chat' = [chat EXCEPT ![t].sending = n,
                               ![t].messages = Append(@, Shown(Message("user", n), TRUE))]
       /\ hasty' = IF chat[t].history = "done" THEN hasty ELSE hasty \cup {t}
       /\ UNCHANGED <<rows, cuts>>

To(n, pc) == post' = [post EXCEPT ![n].pc = pc]

\* No session, too many questions, or a row that cannot be stored.
Refuse(n) ==
    /\ post[n].pc = "asked"
    /\ To(n, "failed")
    /\ UNCHANGED <<rows, chat, cuts, hasty>>

Store(n) ==
    /\ post[n].pc = "asked"
    /\ To(n, "stored")
    /\ rows' = Append(rows, Message("user", n))
    /\ UNCHANGED <<chat, cuts, hasty>>

\* Mutant: the reply is stored without its question.
ReplyAtOnce(n) ==
    /\ post[n].pc \in {"asked", "stored"}
    /\ \/ To(n, "answered") /\ rows' = Append(rows, Message("assistant", n))
       \/ To(n, "failed") /\ UNCHANGED rows
    /\ UNCHANGED <<chat, cuts, hasty>>

\* The workflow's reply, or the local one; then the second row may fail.
Reply(n) ==
    /\ post[n].pc = "stored"
    /\ \/ To(n, "answered") /\ rows' = Append(rows, Message("assistant", n))
       \/ To(n, "failed") /\ UNCHANGED rows
    /\ UNCHANGED <<chat, cuts, hasty>>

\* Mutant: the question stays.
TakeNothingBack(messages, n) == messages

TakeBack(messages, n) == SelectSeq(messages, LAMBDA m : ~(m.own /\ m.of = n))

Arrive(t) ==
    LET n == chat[t].sending
    IN /\ n # 0 /\ post[n].pc \in {"answered", "failed"}
       /\ chat' = [chat EXCEPT ![t].sending = 0,
              ![t].messages = IF post[n].pc = "failed" THEN TakeBack(@, n)
                              ELSE Append(@, Shown(Message("assistant", n), FALSE))]
       /\ UNCHANGED <<rows, post, cuts, hasty>>

\* The connection is cut: to the panel, the request has failed.
Cut(t) ==
    /\ chat[t].sending # 0 /\ cuts < MaxCuts
    /\ cuts' = cuts + 1
    /\ post' = [post EXCEPT ![chat[t].sending].tab = Nobody]
    /\ chat' = [chat EXCEPT ![t].sending = 0, ![t].messages = TakeBack(@, chat[t].sending)]
    /\ UNCHANGED <<rows, hasty>>

Next ==
    \/ \E t \in Tabs :
          \/ Open(t) \/ Close(t) \/ Leave(t) \/ ReadHistory(t) \/ LoadHistory(t)
          \/ LoseHistory(t) \/ Send(t) \/ Arrive(t) \/ Cut(t)
    \/ \E n \in DOMAIN post : Refuse(n) \/ Store(n) \/ Reply(n)

Spec == Init /\ [][Next]_vars

-----------------------------------------------------------------------------
TypeOK ==
    /\ rows \in Seq([role: {"user", "assistant"}, of: DOMAIN post])
    /\ \A n \in DOMAIN post :
          /\ post[n].tab \in Tabs \cup {Nobody}
          /\ post[n].pc \in {"asked", "stored", "answered", "failed"}
    /\ \A t \in Tabs :
          /\ chat[t].open \in BOOLEAN /\ chat[t].sending \in 0..Len(post)
          /\ chat[t].history \in {"none", "asked", "read", "done"}
          /\ chat[t].messages \in Seq([role: {"user", "assistant"}, of: DOMAIN post, own: BOOLEAN])
    /\ hasty \subseteq Tabs /\ cuts \in 0..MaxCuts

Place(role, n) == {i \in DOMAIN rows : rows[i] = Message(role, n)}

\* Every reply is stored once, after its question; a question without one is being answered,
\* or its request failed in the middle.
RowsAreTurns ==
    \A n \in DOMAIN post :
        /\ \A i, j \in DOMAIN rows : rows[i] = rows[j] => i = j
        /\ \A i \in Place("assistant", n) : \E j \in Place("user", n) : j < i
        /\ Place("user", n) # {} /\ Place("assistant", n) = {} => post[n].pc \in {"stored", "failed"}

\* What a panel shows at rest is stored, in the order in which it shows it, and it shows all
\* questions that were answered here, each with its reply: unless the user asked while the
\* history was on its way, which then replaces what was asked meanwhile.
PanelShowsRows ==
    \A t \in Tabs \ hasty : chat[t].sending = 0 =>
        LET shown == chat[t].messages
            at(i) == Place(shown[i].role, shown[i].of)
        IN /\ \A i \in DOMAIN shown : at(i) # {}
           /\ \A i, j \in DOMAIN shown : i < j => \A a \in at(i), b \in at(j) : a < b
           /\ \A n \in DOMAIN post : post[n].tab = t /\ post[n].pc = "answered" =>
                 \A role \in {"user", "assistant"} : \E i \in DOMAIN shown :
                     shown[i].role = role /\ shown[i].of = n

\* A panel waits only for a question of its own that it shows, unless it asked too early.
WaitsForItsQuestion ==
    \A t \in Tabs : chat[t].sending # 0 =>
        /\ post[chat[t].sending].tab = t
        /\ t \notin hasty => Last(chat[t].messages) = Shown(Message("user", chat[t].sending), TRUE)

\* The three together, over states of the right types.
AssistantIsHonest == TypeOK /\ RowsAreTurns /\ PanelShowsRows /\ WaitsForItsQuestion
=============================================================================
