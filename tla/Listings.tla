------------------------------ MODULE Listings ------------------------------
\* The endpoints that list, rank and show rows: the web application's, the read API's, those of
\* problems-go, submissions-go and leaderboard-rust.  Their queries run one by one outside any
\* transaction.  A reader asks for the pages of one endpoint, from the first to the last, while
\* rows come, go and move in the table.
\*
\* The name of a row is its age (createdAt); its key is its `order`, its votes or what was
\* solved.  Filters, columns and the caches in front (TTLCache, PageLoads) are left out.
EXTENDS Naturals, Integers, FiniteSets, SequencesExt

CONSTANTS
    Keys,          \* values of the column a listing is ordered by, numbers
    InitRows,      \* rows when the reader begins
    RawLimits,     \* values of ?limit=
    Missing,       \* no ?limit=, or not a number
    Default,       \* an endpoint's default limit, at most the largest
    MaxLimit,      \* an endpoint's largest limit
    MaxChanges,    \* bound on changes of the table
    MaxFaults      \* bound on queries that fail

VARIABLES
    endpoint,      \* what the reader asks
    limit,         \* rows of a page
    rows,          \* the table: key of each row
    newest,        \* the last row added
    owner,         \* the user, tag or problem whose rows are listed exists
    queries,       \* still to be made by the running request
    call,          \* what it has read
    answer,        \* the last answer
    page,          \* the page asked for
    seen,          \* rows the reader has been shown
    repeats,       \* times it was shown one again
    stable,        \* rows that were always there, in the same place: history
    settled,       \* no two rows were ever tied for a place: history
    changes,       \* rows added, removed and moved
    faults         \* queries that failed

vars == <<endpoint, limit, rows, newest, owner, queries, call, answer, page, seen, repeats, stable,
          settled, changes, faults>>

-----------------------------------------------------------------------------
\* An endpoint: the orders its queries may run in, the order of its rows, how it reads the
\* limit, whether it has pages with a total, whether it numbers its rows, and the queries
\* whose failure it ignores.
Endpoint(plans, order, limits, paged, ranked, soft) ==
    [plans |-> plans, order |-> order, limits |-> limits, paged |-> paged, ranked |-> ranked,
     soft |-> soft]

Total(plans, order, limits) == Endpoint(plans, order, limits, TRUE, FALSE, {})
First(plans, order, limits) == Endpoint(plans, order, limits, FALSE, FALSE, {})
Board(plans, order, limits, paged) == Endpoint(plans, order, limits, paged, TRUE, {})

\* Promise.all: the two queries run in either order.
Both == {<<"count", "rows">>, <<"rows", "count">>}
BothOf(who) == {<<who>> \o plan : plan \in Both}

\* problems-go
List           == Endpoint({<<"count", "rows", "tags">>}, "lowest", "strict", TRUE, FALSE, {"tags"})
Detail         == Endpoint({<<"row", "tags", "tests">>}, "any", "none", FALSE, FALSE, {"tags", "tests"})
TrendingGo     == First({<<"rows">>}, "highest", "strict")
RandomGo       == First({<<"any">>}, "any", "none")
LeaderboardTop == Board({<<"rows">>}, "highest", "strict", FALSE)
SearchGo       == First({<<"rows">>}, "highest", "strict")
Similar        == First({<<"rows">>}, "highest", "none")
\* submissions-go
ListOwn        == Total({<<"count", "rows">>}, "newest", "strict")
Recent         == First({<<"rows">>}, "newest", "strict")
Get            == First({<<"own row">>}, "any", "none")
\* leaderboard-rust
ListLeaderboard   == Board({<<"count", "rows">>}, "member", "clamp", TRUE)
PeriodLeaderboard == Board({<<"count", "rows">>}, "member", "clamp", TRUE)
ContestLeaderboard == Board({<<"rows">>}, "member", "clamp", FALSE)
\* the web application
Problems        == Total(Both, "lowest", "web")
Submissions     == Total(Both, "newest", "web")
UsersList       == Total(Both, "newest", "web")
UserSubmissions == Total(BothOf("owner"), "newest", "web")
UserDiscussions == Total(BothOf("owner"), "newest", "web")
UserBookmarks   == First({<<"owner", "rows">>}, "newest", "web")
NewDiscussions  == Total(Both, "newest", "web")
TopDiscussions  == Total(Both, "top", "web")
HotDiscussions  == Total({plan \o <<"votes">> : plan \in Both}, "hot", "web")
TopSolutions    == Total({<<"owner", "rows", "count">>}, "top", "web")
NewSolutions    == Total({<<"owner", "rows", "count">>}, "newest", "web")
TagProblems     == Total(BothOf("owner"), "lowest", "web")
ByTag           == First({<<"rows">>}, "lowest", "web")
RecentWeb       == First({<<"rows">>}, "newest", "web")
SearchWeb       == First({<<"rows">>}, "lowest", "web")
Trending        == First({<<"groups", "entities">>}, "highest", "web")
Random          == First({<<"count", "place">>}, "any", "none")
Leaderboard     == Board({<<"groups", "entities">>}, "highest", "strict", TRUE)
Top             == Board({<<"groups", "entities">>}, "highest", "none", FALSE)
History         == First({<<"rows">>}, "newest", "days")
UpcomingWeb     == First({<<"rows">>}, "lowest", "web")
ActiveWeb       == First({<<"rows">>}, "lowest", "all")
AdminUsers      == First({<<"rows">>}, "newest", "all")
AdminProblems   == First({<<"rows">>}, "lowest", "all")
AdminContests   == First({<<"rows">>}, "highest", "all")
ProblemWeb      == First({<<"row">>}, "any", "none")
ContestWeb      == ProblemWeb
DiscussionWeb   == First({<<"row", "vote">>}, "any", "none")
SolutionWeb     == DiscussionWeb
\* the read API
ProblemsList    == Problems
ProblemDetail   == First({<<"row">>}, "any", "none")
TagDetail       == TagProblems
TrendingHandler == Trending
RandomHandler   == First({<<"count", "place or 404">>}, "any", "none")
TopHandler      == Top
ContestsHandler == AdminContests
ActiveHandler   == ActiveWeb
UpcomingHandler == UpcomingWeb
ContestHandler  == ContestWeb
TagsHandler     == Endpoint({<<"rows">>}, "lowest", "all", FALSE, FALSE, {"rows"})

Endpoints ==
    {List, Detail, TrendingGo, RandomGo, LeaderboardTop, SearchGo, Similar, ListOwn, Recent, Get,
     ListLeaderboard, PeriodLeaderboard, ContestLeaderboard, Problems, Submissions, UsersList,
     UserSubmissions, UserDiscussions, UserBookmarks, NewDiscussions, TopDiscussions,
     HotDiscussions, TopSolutions, NewSolutions, TagProblems, ByTag, RecentWeb, SearchWeb,
     Trending, Random, Leaderboard, Top, History, UpcomingWeb, ActiveWeb, AdminUsers,
     AdminProblems, AdminContests, ProblemWeb, ContestWeb, DiscussionWeb, SolutionWeb,
     ProblemsList, ProblemDetail, TagDetail, TrendingHandler, RandomHandler, TopHandler,
     ContestsHandler, ActiveHandler, UpcomingHandler, ContestHandler, TagsHandler}

Clamp(n, low, high) == IF n < low THEN low ELSE IF n > high THEN high ELSE n

\* Mutant of LimitOf: what is asked for is believed.
LimitUnclamped(e, raw) == IF raw \in {Missing, 0} THEN Default ELSE raw

\* The limit an endpoint makes of ?limit=: the routes of the web application and of the read
\* API take a missing one and 0 for the default; parseLimit and the Go services a negative one
\* too; leaderboard-rust and the history of challenges (which counts in days) only a missing one,
\* and the first refuses a negative one.  Some lists have no limit, others a fixed one.
LimitOf(e, raw) ==
    CASE e.limits = "web" -> IF raw \in {Missing, 0} THEN Default ELSE Clamp(raw, 1, MaxLimit)
      [] e.limits = "strict" -> IF raw = Missing \/ raw <= 0 THEN Default ELSE Clamp(raw, 1, MaxLimit)
      [] e.limits \in {"clamp", "days"} -> IF raw = Missing THEN Default ELSE Clamp(raw, 1, MaxLimit)
      [] e.limits = "all" -> InitRows + MaxChanges
      [] OTHER -> Default

-----------------------------------------------------------------------------
\* The table in the order of the endpoint.  Rows with the same place are listed in any order.
Before(x, y) ==
    CASE endpoint.order = "lowest" -> x.key < y.key
      [] endpoint.order = "highest" -> x.key > y.key
      [] endpoint.order \in {"top", "member"} -> x.key > y.key \/ (x.key = y.key /\ x.id > y.id)
      [] endpoint.order \in {"newest", "hot"} -> x.id > y.id
      [] OTHER -> FALSE

Entries(table) == {[id |-> r, key |-> table[r]] : r \in DOMAIN table}
InOrder(s) == \A i, j \in DOMAIN s : i < j => ~Before(s[j], s[i])
Listed == {s \in SetToSeqs(Entries(rows)) : InOrder(s)}

\* The keys of rows that are listed by age, or in no order, make no difference.
Keyed == endpoint.order \notin {"newest", "any"}
KeysHere == IF Keyed THEN Keys ELSE {0}

\* A place is tied if two rows have the same key and nothing else tells them apart.
NoTies(table) ==
    endpoint.order \in {"lowest", "highest"} => \A r, s \in DOMAIN table : table[r] = table[s] => r = s

\* Mutants of Offset and Numbered: the page after the one asked for, a board numbered page by
\* page.
OffsetOfNext == page * limit
NumberedByPage(s) ==
    [i \in DOMAIN s |-> [id |-> s[i].id, key |-> s[i].key, rank |-> ((i - 1) % limit) + 1]]

Offset == (page - 1) * limit
Slice(s) == SubSeq(s, Offset + 1, Clamp(Offset + limit, 0, Len(s)))

\* Rows are numbered from the beginning of the listing.
Numbered(s) == [i \in DOMAIN s |-> [id |-> s[i].id, key |-> s[i].key, rank |-> i]]

\* hotRank: votes count as much as age.
Hot(e) == (IF e.id \in DOMAIN rows THEN rows[e.id] ELSE 0) + e.id
HotOrder(s) ==
    LET i \prec j == Hot(s[i]) > Hot(s[j]) \/ (Hot(s[i]) = Hot(s[j]) /\ i < j)
        places == SetToSortSeq(DOMAIN s, \prec)
    IN  [i \in DOMAIN s |-> s[places[i]]]

-----------------------------------------------------------------------------
NoCall == [began |-> 0, list |-> <<>>, total |-> 0, filled |-> {}, lost |-> {}]
NoAnswer == [code |-> 0, list |-> <<>>, total |-> 0, filled |-> {}, lost |-> {}, from |-> 0, drift |-> 0]
Changes == changes.added + changes.removed + changes.moved

Init ==
    /\ \E e \in Endpoints, raw \in RawLimits :
          /\ e.limits = "clamp" => raw >= 0
          /\ endpoint = [e EXCEPT !.limits = "read"]
          /\ limit = LimitOf(e, raw)
    /\ newest \in 0..InitRows
    /\ rows \in [1..newest -> KeysHere]
    /\ owner = TRUE
    /\ queries = <<>>
    /\ call = NoCall
    /\ answer = NoAnswer
    /\ page = 1
    /\ seen = {}
    /\ repeats = 0
    /\ stable = 1..newest
    /\ settled = NoTies(rows)
    /\ changes = [added |-> 0, removed |-> 0, moved |-> 0]
    /\ faults = 0

\* The reader is done: nothing was found, or the last answer ends the listing.
Finished ==
    \/ answer.code \in {403, 404}
    \/ /\ answer.code = 200
       /\ ~endpoint.paged \/ answer.from + limit >= answer.total

\* The reader asks for the first page, the next one, or again for one that failed.
Ask ==
    /\ queries = <<>> /\ ~Finished
    /\ queries' \in endpoint.plans
    /\ call' = [NoCall EXCEPT !.began = Changes]
    /\ answer' = NoAnswer
    /\ page' = IF answer.code = 200 THEN page + 1 ELSE page
    /\ UNCHANGED <<endpoint, limit, rows, newest, owner, seen, repeats, stable, settled, changes, faults>>

Reply(code, c) ==
    /\ queries' = <<>>
    /\ call' = NoCall
    /\ answer' = [code |-> code, list |-> c.list, total |-> c.total, filled |-> c.filled,
                  lost |-> c.lost, from |-> Offset, drift |-> Changes - c.began]
    /\ LET shown == IF code = 200 THEN {c.list[i].id : i \in DOMAIN c.list} ELSE {}
       IN  /\ seen' = seen \cup shown
           /\ repeats' = repeats + Cardinality(shown \cap seen)

\* The request goes on with what it has read, and answers after its last query.
Go(c) ==
    IF Len(queries) = 1 THEN Reply(200, c)
    ELSE queries' = Tail(queries) /\ call' = c /\ UNCHANGED <<answer, seen, repeats>>

Query(q) == queries # <<>> /\ Head(queries) = q

FindOwner ==
    /\ Query("owner")
    /\ IF owner THEN Go(call) ELSE Reply(404, call)

\* A random problem is not looked for in an empty table.
Count ==
    /\ Query("count")
    /\ LET c == [call EXCEPT !.total = Cardinality(DOMAIN rows)]
       IN  IF endpoint.order = "any" /\ c.total = 0 THEN Reply(404, c) ELSE Go(c)

\* The tags of an empty page are not asked for; "hot" reads all pages up to this one.
ReadRows ==
    /\ Query("rows")
    /\ \E s \in Listed :
          LET list == IF endpoint.order = "hot" THEN SubSeq(s, 1, Clamp(page * limit, 0, Len(s)))
                      ELSE Slice(Numbered(s))
              c == [call EXCEPT !.list = list]
          IN  IF list = <<>> /\ Tail(queries) = <<"tags">> THEN Reply(200, c) ELSE Go(c)

ReadVotes ==
    /\ Query("votes")
    /\ Go([call EXCEPT !.list = Slice(HotOrder(call.list))])

\* Accepted submissions are grouped; the users or problems they belong to are read after.
ReadGroups ==
    /\ Query("groups")
    /\ \E s \in Listed :
          LET c == [call EXCEPT !.list = Slice(Numbered(s)), !.total = Cardinality(DOMAIN rows)]
          IN  IF c.list = <<>> THEN Reply(200, c) ELSE Go(c)

ReadEntities ==
    /\ Query("entities")
    /\ Go([call EXCEPT !.list = SelectSeq(call.list, LAMBDA e : e.id \in DOMAIN rows)])

\* A random row, and the row at a random place among those counted: the table may be shorter
\* by now.
PickAny ==
    /\ Query("any")
    /\ IF rows = <<>> THEN Reply(404, call)
       ELSE \E s \in Listed : Go([call EXCEPT !.list = SubSeq(s, 1, 1)])

PickPlace(q) ==
    /\ Query(q)
    /\ \E s \in Listed, place \in 1..call.total :
          LET c == [call EXCEPT !.list = SubSeq(s, place, Clamp(place, 0, Len(s)))]
          IN  IF c.list = <<>> /\ q = "place or 404" THEN Reply(404, c) ELSE Go(c)

\* The problem asked for is row 1.
ReadRow ==
    /\ Query("row")
    /\ IF 1 \in DOMAIN rows
       THEN Go([call EXCEPT !.list = <<[id |-> 1, key |-> rows[1], rank |-> 1]>>])
       ELSE Reply(404, call)

\* A submission is shown to its owner only.
ReadOwn ==
    /\ Query("own row")
    /\ IF 1 \in DOMAIN rows
       THEN \/ Go([call EXCEPT !.list = <<[id |-> 1, key |-> rows[1], rank |-> 1]>>])
            \/ Reply(403, call)
       ELSE Reply(404, call)

\* Tags and test cases go with their problem, votes with what they are for.
ReadChildren(part) ==
    /\ Query(part)
    /\ LET there == \E i \in DOMAIN call.list : call.list[i].id \in DOMAIN rows
       IN  Go(IF there THEN [call EXCEPT !.filled = @ \cup {part}] ELSE call)

\* A query fails: the endpoint answers 500, or goes on without what it asked for.
QueryFails ==
    /\ queries # <<>> /\ faults < MaxFaults
    /\ Head(queries) = "votes" => call.list # <<>>
    /\ faults' = faults + 1
    /\ IF Head(queries) \in endpoint.soft
       THEN Go([call EXCEPT !.lost = @ \cup {Head(queries)}])
       ELSE Reply(500, NoCall)
    /\ UNCHANGED <<endpoint, limit, rows, newest, owner, page, stable, settled, changes>>

Work ==
    /\ \/ FindOwner \/ Count \/ ReadRows \/ ReadVotes \/ ReadGroups \/ ReadEntities \/ PickAny \/ ReadRow \/ ReadOwn
       \/ \E q \in {"place", "place or 404"} : PickPlace(q)
       \/ \E part \in {"tags", "tests", "vote"} : ReadChildren(part)
    /\ UNCHANGED <<endpoint, limit, rows, newest, owner, page, stable, settled, changes, faults>>

\* The table changes under the reader: a row is added, removed or moved, or all go with the
\* user, tag or problem they belong to.
Change(table, kind, number, still) ==
    /\ rows' = table
    /\ stable' = still
    /\ settled' = (settled /\ NoTies(table))
    /\ changes' = [changes EXCEPT ![kind] = @ + number]
    /\ UNCHANGED <<endpoint, limit, queries, call, answer, page, seen, repeats, faults>>

Changing == ~Finished /\ Changes < MaxChanges

Insert ==
    /\ Changing /\ owner
    /\ newest' = newest + 1
    /\ \E k \in KeysHere :
          Change([r \in DOMAIN rows \cup {newest + 1} |-> IF r = newest + 1 THEN k ELSE rows[r]],
                 "added", 1, stable)
    /\ UNCHANGED owner

Delete ==
    /\ Changing
    /\ \E gone \in DOMAIN rows : Change([r \in DOMAIN rows \ {gone} |-> rows[r]], "removed", 1, stable \ {gone})
    /\ UNCHANGED <<newest, owner>>

Move ==
    /\ Changing /\ Keyed
    /\ \E r \in DOMAIN rows : \E k \in Keys \ {rows[r]} :
          Change([rows EXCEPT ![r] = k], "moved", 1, stable \ {r})
    /\ UNCHANGED <<newest, owner>>

RemoveOwner ==
    /\ Changing /\ owner
    /\ \E plan \in endpoint.plans : Head(plan) = "owner"
    /\ owner' = FALSE
    /\ Change(<<>>, "removed", Cardinality(DOMAIN rows), {})
    /\ UNCHANGED newest

Next == Ask \/ Work \/ QueryFails \/ Insert \/ Delete \/ Move \/ RemoveOwner

Spec == Init /\ [][Next]_vars

-----------------------------------------------------------------------------
TypeOK ==
    /\ limit \in 1..(MaxLimit + InitRows + MaxChanges)
    /\ DOMAIN rows \subseteq 1..newest
    /\ \A r \in DOMAIN rows : rows[r] \in KeysHere
    /\ owner \in BOOLEAN /\ settled \in BOOLEAN
    /\ answer.code \in {0, 200, 403, 404, 500}
    /\ page \in Nat \ {0}
    /\ stable \subseteq DOMAIN rows
    /\ seen \subseteq 1..newest /\ repeats \in Nat

\* A reader who has gone through all pages has missed at most one row per change of the table
\* among those that stayed where they were, and was shown at most one row again for each row
\* that was added or moved; if no two rows share a place.  "hot" ranks each page
\* anew among the newest rows only, and promises neither.
ReadingIsNearlyComplete ==
    Finished /\ answer.code = 200 /\ endpoint.paged /\ endpoint.order # "hot" /\ settled =>
        /\ Cardinality(stable \ seen) <= Changes
        /\ repeats <= changes.added + changes.moved

\* The rows of one answer and its total, or the table if it has none, differ by no more than
\* what changed between the queries that read them, and no page holds a row twice or is longer
\* than its limit.
AnswerFits ==
    answer.code = 200 =>
        /\ Len(answer.list) <= limit
        /\ \A i, j \in DOMAIN answer.list : i # j => answer.list[i].id # answer.list[j].id
        /\ endpoint.order # "any" /\ answer.lost = {} =>
              LET total == IF endpoint.paged THEN answer.total ELSE Cardinality(DOMAIN rows)
                  places == Clamp(total - answer.from, 0, limit)
              IN  Len(answer.list) - places \in -answer.drift..answer.drift

\* The number of a row on a board is its place in the whole board, better numbers go with
\* better scores, and a number is skipped only for an entry that vanished meanwhile.
RanksFit ==
    answer.code = 200 /\ endpoint.ranked =>
        LET list == answer.list
        IN  /\ \A i \in DOMAIN list : list[i].rank - answer.from \in i..i + answer.drift
            /\ \A i, j \in DOMAIN list :
                  i < j => list[i].rank < list[j].rank /\ list[i].key >= list[j].key

\* Nothing is shown for something that is there only if the table changed meanwhile: a random
\* problem of an empty answer, a problem that is not found, tags and test cases left out
\* unless their query failed.
AbsenceIsExcused ==
    /\ answer.code = 404 /\ answer.drift = 0 =>
          \/ ~owner
          \/ IF \E plan \in endpoint.plans : Head(plan) \in {"row", "own row"} THEN 1 \notin DOMAIN rows ELSE DOMAIN rows = {}
    /\ answer.code = 200 /\ answer.drift = 0 =>
          /\ endpoint.order = "any" => answer.list # <<>>
          /\ answer.list # <<>> => endpoint.soft \ {"rows"} \subseteq answer.filled \cup answer.lost

ListingsAreSound == TypeOK /\ ReadingIsNearlyComplete /\ AnswerFits /\ RanksFit /\ AbsenceIsExcused
=============================================================================
