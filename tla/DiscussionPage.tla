--------------------------- MODULE DiscussionPage ---------------------------
(***************************************************************************)
(* The page of a discussion thread (app/discussions/[id]/page.tsx): the    *)
(* thread is loaded at first and again after every comment or reply, while *)
(* votes, comments, replies and earlier loads are still under way.         *)
(*                                                                         *)
(* A request is answered by the server in one step and taken up by the     *)
(* page in a later one, in any order.  A text stands for what a form holds *)
(* after the last key; Community models the rows behind the routes.        *)
(***************************************************************************)
EXTENDS Naturals, FiniteSets

CONSTANTS
    Places,      \* comments one may reply to
    Values,      \* the two directions of a vote
    MaxTexts,    \* bound on the texts typed
    MaxLoads     \* bound on the loads

Top == "top"
Nowhere == "none"
Texts == 1..MaxTexts
TheVote == 0
Forms == {"comment", "reply"}

VARIABLES
    thread,      \* "there" or "gone"
    posted,      \* how often each text is a comment of the thread, and under which
    mine,        \* the user's vote, or "none"
    here,        \* the page is open
    shown,       \* discussion: absent ("null"), or the texts it shows
    loading, notFound,
    load,        \* each fetch of the thread: its step and its answer
    draft,       \* comment and replyBody: a text, or 0
    post,        \* the request of each form
    replyTo,
    vote,        \* the request of handleVote
    userVote,
    typed,       \* history: under which comment each text was typed
    acked,       \* history: texts the user was told are posted
    overtaken,   \* history: an older load was taken up after a newer one, or the last failed
    unsure       \* history: texts whose answer was lost; TheVote while the page cannot know it

page == <<here, shown, loading, notFound, load, draft, post, replyTo, vote, userVote>>
history == <<typed, acked, overtaken, unsure>>
vars == <<thread, posted, mine, page, history>>

NoThread == [there |-> FALSE, texts |-> {}]
NoLoad == [pc |-> "unused", status |-> "none", texts |-> {}]
NoPost == [pc |-> "idle", text |-> 0, to |-> Nowhere, ok |-> FALSE]
NoVote == [pc |-> "idle", value |-> "none", ok |-> FALSE]

Used == {i \in 1..MaxLoads : load[i].pc # "unused"}
Handled == {i \in 1..MaxLoads : load[i].pc = "done"}
Typed == {t \in Texts : typed[t] # Nowhere}
Present == {t \in Texts : posted[t] # {}}

TypeOK ==
    /\ thread \in {"there", "gone"}
    /\ posted \in [Texts -> SUBSET ((Places \cup {Top}) \X {1, 2})]
    /\ shown.texts \subseteq Texts /\ acked \subseteq Texts
    /\ draft \in [Forms -> {0} \cup Texts]
    /\ replyTo \in Places \cup {Nowhere}
    /\ userVote \in Values \cup {"none"} /\ mine \in Values \cup {"none"}

\* The effect of the first render has asked for the thread.
Init ==
    /\ thread = "there" /\ mine \in Values \cup {"none"}
    /\ posted = [t \in Texts |-> {}]
    /\ here = TRUE /\ shown = NoThread /\ loading = TRUE /\ notFound = FALSE
    /\ load = [i \in 1..MaxLoads |-> IF i = 1 THEN [NoLoad EXCEPT !.pc = "sent"] ELSE NoLoad]
    /\ draft = [f \in Forms |-> 0] /\ post = [f \in Forms |-> NoPost]
    /\ replyTo = Nowhere /\ vote = NoVote /\ userVote = "none"
    /\ typed = [t \in Texts |-> Nowhere] /\ acked = {} /\ overtaken = FALSE
    /\ unsure = {TheVote}

-----------------------------------------------------------------------------
(* load *)

\* The thread is rendered only while nothing is loading.
Rendered == here /\ ~loading /\ ~notFound /\ shown.there

\* GET /api/discussions/[id]: 200 with the comments, 404, or an error.
ServerLoads(i) ==
    /\ load[i].pc = "sent"
    /\ \E status \in {IF thread = "there" THEN "200" ELSE "404", "error"} :
          load' = [load EXCEPT ![i] = [pc |-> "answered", status |-> status,
                                       texts |-> IF status = "200" THEN Present ELSE {}]]
    /\ UNCHANGED <<thread, posted, mine, here, shown, loading, notFound, draft, post, replyTo,
                   vote, userVote, history>>

\* The answer: loading ends with whichever load answers first.
LoadAnswered(i) ==
    /\ here /\ load[i].pc = "answered"
    /\ load' = [load EXCEPT ![i].pc = "done"]
    /\ notFound' = (notFound \/ load[i].status = "404")
    /\ shown' = CASE load[i].status = "200" -> [there |-> TRUE, texts |-> load[i].texts]
                  [] load[i].status = "error" -> NoThread
                  [] OTHER -> shown
    /\ loading' = FALSE
    /\ overtaken' = (load[i].status = "error" \/ \E j \in Handled : j > i)
    /\ UNCHANGED <<thread, posted, mine, here, draft, post, replyTo, vote, userVote,
                   typed, acked, unsure>>

-----------------------------------------------------------------------------
(* The forms *)

\* A key in one of the two text areas; they stay open while their text is being sent.
Type(f) ==
    /\ Rendered
    /\ f = "reply" => replyTo # Nowhere
    /\ \E t \in Texts :
          /\ t = Cardinality(Typed) + 1
          /\ draft' = [draft EXCEPT ![f] = t]
          /\ typed' = [typed EXCEPT ![t] = IF f = "reply" THEN replyTo ELSE Top]
    /\ UNCHANGED <<thread, posted, mine, here, shown, loading, notFound, load, post, replyTo,
                   vote, userVote, acked, overtaken, unsure>>

\* Mutant of ToggleReply: the text stays when another comment is chosen.
ToggleReplyKeepsText(c) ==
    /\ Rendered
    /\ replyTo' = (IF replyTo = c THEN Nowhere ELSE c)
    /\ UNCHANGED <<thread, posted, mine, here, shown, loading, notFound, load, draft, post,
                   vote, userVote, history>>

\* Reply or Cancel below a comment.
ToggleReply(c) ==
    /\ Rendered
    /\ replyTo' = (IF replyTo = c THEN Nowhere ELSE c)
    /\ draft' = [draft EXCEPT !["reply"] = 0]
    /\ UNCHANGED <<thread, posted, mine, here, shown, loading, notFound, load, post,
                   vote, userVote, history>>

\* handleComment, handleReplySubmit: the button is disabled while its form is being sent.
Submit(f) ==
    /\ Rendered
    /\ post[f].pc = "idle" /\ draft[f] # 0
    /\ f = "reply" => replyTo # Nowhere
    /\ post' = [post EXCEPT ![f] = [NoPost EXCEPT !.pc = "sent", !.text = draft[f],
                                    !.to = IF f = "reply" THEN replyTo ELSE Top]]
    /\ UNCHANGED <<thread, posted, mine, here, shown, loading, notFound, load, draft, replyTo,
                   vote, userVote, history>>

\* POST /api/discussions/[id]: the comment is created, or refused, or created and the answer
\* lost.
ServerPosts(f) ==
    LET t == post[f].text
        row == <<post[f].to, 1 + Cardinality(posted[t])>>
    IN
    /\ post[f].pc = "sent"
    /\ \/ /\ post' = [post EXCEPT ![f].pc = "answered"]
          /\ UNCHANGED <<posted, unsure>>
       \/ /\ thread = "there" /\ Cardinality(posted[t]) < 2
          /\ posted' = [posted EXCEPT ![t] = @ \cup {row}]
          /\ \E ok \in BOOLEAN :
                /\ post' = [post EXCEPT ![f].pc = "answered", ![f].ok = ok]
                /\ unsure' = IF ok THEN unsure ELSE unsure \cup {t}
    /\ UNCHANGED <<thread, mine, here, shown, loading, notFound, load, draft, replyTo,
                   vote, userVote, typed, acked, overtaken>>

\* Mutant of PostAnswered: the thread is not loaded again.
PostAnsweredSilent(f) ==
    /\ here /\ post[f].pc = "answered"
    /\ post' = [post EXCEPT ![f] = NoPost]
    /\ draft' = [draft EXCEPT ![f] = 0]
    /\ acked' = acked \cup (IF post[f].ok THEN {post[f].text} ELSE {})
    /\ UNCHANGED <<thread, posted, mine, here, shown, loading, notFound, load, replyTo,
                   vote, userVote, typed, overtaken, unsure>>

\* The answer: the form is emptied, whatever it holds by now, and the thread is loaded.
PostAnswered(f) ==
    /\ here /\ post[f].pc = "answered"
    /\ post' = [post EXCEPT ![f] = NoPost]
    /\ IF post[f].ok
       THEN /\ draft' = [draft EXCEPT ![f] = 0]
            /\ replyTo' = (IF f = "reply" THEN Nowhere ELSE replyTo)
            /\ acked' = acked \cup {post[f].text}
            /\ loading' = TRUE
            /\ \E i \in 1..MaxLoads :
                  /\ i = Cardinality(Used) + 1
                  /\ load' = [load EXCEPT ![i].pc = "sent"]
       ELSE UNCHANGED <<draft, replyTo, acked, loading, load>>
    /\ UNCHANGED <<thread, posted, mine, here, shown, notFound, vote, userVote,
                   typed, overtaken, unsure>>

-----------------------------------------------------------------------------
(* handleVote *)

Vote(value) ==
    /\ Rendered
    /\ vote.pc = "idle"
    /\ vote' = [NoVote EXCEPT !.pc = "sent", !.value = value]
    /\ UNCHANGED <<thread, posted, mine, here, shown, loading, notFound, load, draft, post,
                   replyTo, userVote, history>>

\* POST .../vote: the same direction again takes the vote back.
ServerVotes ==
    /\ vote.pc = "sent"
    /\ \/ /\ vote' = [vote EXCEPT !.pc = "answered"]
          /\ UNCHANGED <<mine, unsure>>
       \/ /\ thread = "there"
          /\ mine' = (IF mine = vote.value THEN "none" ELSE vote.value)
          /\ \E ok \in BOOLEAN :
                /\ vote' = [pc |-> "answered", value |-> mine', ok |-> ok]
                /\ unsure' = (IF ok THEN unsure \ {TheVote} ELSE unsure \cup {TheVote})
    /\ UNCHANGED <<thread, posted, here, shown, loading, notFound, load, draft, post, replyTo,
                   userVote, typed, acked, overtaken>>

\* Only now the page knows the user's vote; it starts from "none".
VoteAnswered ==
    /\ here /\ vote.pc = "answered"
    /\ vote' = NoVote
    /\ userVote' = (IF vote.ok THEN vote.value ELSE userVote)
    /\ UNCHANGED <<thread, posted, mine, here, shown, loading, notFound, load, draft, post,
                   replyTo, history>>

-----------------------------------------------------------------------------
\* handleDelete by the author or an admin, from this page or another.
Delete ==
    /\ thread = "there"
    /\ thread' = "gone" /\ posted' = [t \in Texts |-> {}]
    /\ here' \in (IF Rendered THEN BOOLEAN ELSE {here})
    /\ UNCHANGED <<mine, shown, loading, notFound, load, draft, post, replyTo, vote, userVote,
                   history>>

Answer ==
    \/ \E i \in 1..MaxLoads : ServerLoads(i) \/ LoadAnswered(i)
    \/ \E f \in Forms : ServerPosts(f) \/ PostAnswered(f)
    \/ ServerVotes \/ VoteAnswered

Next ==
    \/ Answer
    \/ \E f \in Forms : Type(f) \/ Submit(f)
    \/ \E c \in Places : ToggleReply(c)
    \/ \E value \in Values : Vote(value)
    \/ Delete

Spec == Init /\ [][Next]_vars

-----------------------------------------------------------------------------
(* Properties *)

Quiet ==
    /\ \A i \in 1..MaxLoads : load[i].pc \in {"unused", "done"}
    /\ \A f \in Forms : post[f].pc = "idle"
    /\ vote.pc = "idle"

\* A reply is posted below the comment it was typed under, however often the user opens
\* another form, and once, unless the first answer was lost (handleReplySubmit).
RepliesGoWhereTyped ==
    \A t \in Texts : /\ \A row \in posted[t] : row[1] = typed[t]
                     /\ Cardinality(posted[t]) > 1 => t \in unsure

\* When all is quiet the page shows every comment the user was told is posted, unless an
\* older load overtook a newer one or the last failed (load has no cancellation).
ShowsWhatWasPosted ==
    Quiet /\ Rendered /\ ~overtaken /\ thread = "there" => acked \subseteq shown.texts

\* The highlighted arrow is the user's vote once the page has been told of it.
ArrowIsTheVote ==
    Quiet /\ TheVote \notin unsure => userVote = mine

\* What the user does on the page of a thread arrives where it was meant and is shown.
ThreadIsTrue == TypeOK /\ RepliesGoWhereTyped /\ ShowsWhatWasPosted /\ ArrowIsTheVote
=============================================================================
