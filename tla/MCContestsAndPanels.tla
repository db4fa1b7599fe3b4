-------------------------- MODULE MCContestsAndPanels --------------------------
\* Model-checking instance of parts that share nothing: the contests, and the page of a
\* thread, the two views that search, the hints and the assistant in a user's browser.  A
\* behaviour takes one of them.
EXTENDS Contests, TLC

CONSTANTS u1, u2, c1, c2, r1, r2

TwoUsers == {u1, u2}
TwoContests == {c1, c2}
TwoRequests == {r1, r2}
TwoScores == {0, 1}
TwoRatings == {0, 1}

VARIABLES
    part,    \* the part that runs
    thread, posted, mine, here, shown, loading, notFound, load, draft, post, replyTo, vote,
    userVote, typed, acked, overtaken, unsure,
    view, account, open, query, search, late, hits, searching, active, keys, moved,
    stored, panel, orphans, earned, shared, unsaved,
    rows, questions, chat, cuts, hasty

threadVars ==
    <<thread, posted, mine, here, shown, loading, notFound, load, draft, post, replyTo, vote,
      userVote, typed, acked, overtaken, unsure>>
searchVars == <<view, account, open, query, search, late, hits, searching, active, keys, moved>>
hintVars == <<stored, panel, orphans, earned, shared, unsaved>>
chatVars == <<rows, questions, chat, cuts, hasty>>

Thread == INSTANCE DiscussionPage WITH
    Places <- TwoUsers, Values <- TwoContests, MaxTexts <- 2, MaxLoads <- 3
Search == INSTANCE LiveSearch WITH MaxHits <- 2, MaxKeys <- 4, typed <- query
Hinting == INSTANCE Hints WITH Panels <- TwoUsers, HintCount <- 3, MaxOrphans <- 1
Chatting == INSTANCE Assistant WITH
    Tabs <- TwoUsers, HistoryLimit <- 2, MaxSends <- 2, MaxCuts <- 1, post <- questions

\* The two places and the two directions of a vote, the panels and the tabs are as
\* interchangeable as the users and the contests whose model values they take.
Symmetry == Permutations(TwoUsers) \cup Permutations(TwoContests) \cup Permutations(TwoRequests)

MCInit ==
    /\ Init /\ Thread!Init /\ Search!Init /\ Hinting!Init /\ Chatting!Init
    /\ part \in {"contests", "thread", "search", "hints", "chat"}
    /\ part # "thread" => mine = "none"
    /\ part # "search" => view = "list"

Contest ==
    part = "contests" /\ Next /\ UNCHANGED <<part, threadVars, searchVars, hintVars, chatVars>>
Reading ==
    part = "thread" /\ Thread!Next /\ UNCHANGED <<part, vars, searchVars, hintVars, chatVars>>
Searching ==
    part = "search" /\ Search!Next /\ UNCHANGED <<part, vars, threadVars, hintVars, chatVars>>
Revealing ==
    part = "hints" /\ Hinting!Next /\ UNCHANGED <<part, vars, threadVars, searchVars, chatVars>>
Chat ==
    part = "chat" /\ Chatting!Next /\ UNCHANGED <<part, vars, threadVars, searchVars, hintVars>>

MCSpec ==
    /\ MCInit
    /\ [][Contest \/ Reading \/ Searching \/ Revealing \/ Chat]_<<part, vars, threadVars,
                                                                 searchVars, hintVars, chatVars>>

\* ThreadIsTrue, SearchIsHonest, HintsAreHonest and AssistantIsHonest of their modules.
PanelsAreTrue ==
    /\ Thread!ThreadIsTrue
    /\ Search!SearchIsHonest
    /\ Hinting!HintsAreHonest
    /\ Chatting!AssistantIsHonest
=============================================================================
