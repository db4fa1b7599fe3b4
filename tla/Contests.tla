------------------------------ MODULE Contests ------------------------------
(***************************************************************************)
(* Contest entries and the finalisation of ratings: join, leave, the       *)
(* admin's status override and finalize-rating, over the tables Contest,   *)
(* ContestEntry, RatingChange and the rating columns of User.              *)
(*                                                                         *)
(* Each handler is a chain of awaited queries; a request holds what it has *)
(* read so far, and other requests run between two of its queries.  Only   *)
(* what the $transaction of finalize-rating writes is one step, that of its*)
(* commit, since it holds the rows it has written; the createdAt of its    *)
(* rows is when it began (schema.prisma:337).  Contests start with         *)
(* every user entered; no handler writes the score of an entry, so scores  *)
(* are the ones the database starts with, and 0 after a join.              *)
(***************************************************************************)
EXTENDS Integers, Sequences, FiniteSets, FiniteSetsExt

CONSTANTS
    Users,
    ContestIds,
    Requests,     \* requests in flight at once
    Scores,       \* values of ContestEntry.score
    Ratings,      \* values of User.rating
    StartRating,
    MaxEvents     \* bound: joins, leaves, overrides, deletions and failures in one behaviour

ASSUME ContestsAssumption ==
    /\ Scores \subseteq Int /\ 0 \in Scores
    /\ Ratings \subseteq Int /\ StartRating \in Ratings
    /\ IsFiniteSet(Users) /\ MaxEvents \in Nat

VARIABLES
    accounts,     \* the rows of User
    status,       \* Contest.status
    over,         \* Contest.endTime has passed
    entry,        \* ContestEntry: score and rank, NoEntry if there is no row
    rating, maxRating,
    changes,      \* RatingChange by contest and user, NoChange if there is no row
    clock,        \* the finalisations committed
    req,          \* what each request has to do next
    events,       \* counted against MaxEvents
    excused       \* history: whom the backfill of a contest missed, and who has left once rated

vars == <<accounts, status, over, entry, rating, maxRating, changes, clock, req, events, excused>>

Statuses == {"active", "ended"}   \* upcoming is treated as active everywhere
NoEntry == [score |-> -1, rank |-> -1]
NoChange == [before |-> 0, after |-> 0, rank |-> 0, at |-> 0, read |-> 0, done |-> 0]
NoRank == 0
Idle == [pc |-> "idle"]

Entrants(c) == {u \in Users : entry[c][u] # NoEntry}
Rated(c) == {u \in Users : changes[c][u] # NoChange}
RowsOf(u) == {c \in ContestIds : changes[c][u] # NoChange}

\* A row of RatingChange.  Times are counts of the finalisations committed by then: at stands
\* for createdAt; read and done are history, when its ratings were read and it was committed.
Entry == [score : Scores, rank : 0..Cardinality(Users)]
Change == [before : Ratings, after : Ratings, rank : 1..Cardinality(Users),
           at : Nat, read : Nat, done : Nat \ {0}]
Plans == UNION {[S -> [before : Ratings, after : Ratings, max : Ratings,
                       rank : 1..Cardinality(Users)]] : S \in SUBSET Users}
Request ==
    {Idle} \cup [pc : {"join", "leave"}, contest : ContestIds, user : Users]
           \cup [pc : {"count", "read"}, contest : ContestIds]
           \cup [pc : {"begin"}, contest : ContestIds, plan : Plans, read : Nat]
           \cup [pc : {"commit"}, contest : ContestIds, plan : Plans, read : Nat, at : Nat]
           \cup [pc : {"fill"}, contest : ContestIds, plan : Plans, todo : SUBSET Users]

TypeOK ==
    /\ accounts \subseteq Users
    /\ status \in [ContestIds -> Statuses]
    /\ over \in [ContestIds -> BOOLEAN]
    /\ entry \in [ContestIds -> [Users -> Entry \cup {NoEntry}]]
    /\ changes \in [ContestIds -> [Users -> Change \cup {NoChange}]]
    /\ \A c \in ContestIds, u \in Users \ accounts :
          entry[c][u] = NoEntry /\ changes[c][u] = NoChange
    /\ rating \in [Users -> Ratings] /\ maxRating \in [Users -> Ratings]
    /\ clock \in Nat
    /\ req \in [Requests -> Request]
    /\ events \in 0..MaxEvents
    /\ excused \subseteq ContestIds \X Users

Init ==
    /\ accounts = Users
    /\ status = [c \in ContestIds |-> "active"]
    /\ over = [c \in ContestIds |-> FALSE]
    /\ entry \in [ContestIds -> [Users -> [score : Scores \ {0}, rank : {NoRank}]]]
    /\ rating = [u \in Users |-> StartRating] /\ maxRating = rating
    /\ changes = [c \in ContestIds |-> [u \in Users |-> NoChange]]
    /\ clock = 0
    /\ req = [r \in Requests |-> Idle]
    /\ events = 0 /\ excused = {}

Goto(r, next) == req' = [req EXCEPT ![r] = next]
Done(r) == Goto(r, Idle)
CountEvent == events < MaxEvents /\ events' = events + 1
Excusing(c, S) == excused \cup {<<c, u>> : u \in S \cap accounts}
-----------------------------------------------------------------------------
\* join and leave read the contest's status first and refuse an ended contest.
JoinCheck(r, c, u) ==
    /\ req[r] = Idle /\ u \in accounts
    /\ status[c] # "ended"
    /\ Goto(r, [pc |-> "join", contest |-> c, user |-> u])
    /\ CountEvent
    /\ UNCHANGED <<accounts, status, over, entry, rating, maxRating, changes, clock, excused>>

\* The entry is there, or it is created; without the user the insert fails.
JoinCreate(r) ==
    /\ req[r].pc = "join"
    /\ LET c == req[r].contest  u == req[r].user IN
       entry' = IF entry[c][u] = NoEntry /\ u \in accounts
                THEN [entry EXCEPT ![c][u] = [score |-> 0, rank |-> NoRank]]
                ELSE entry
    /\ Done(r)
    /\ UNCHANGED <<accounts, status, over, rating, maxRating, changes, clock, events, excused>>

LeaveCheck(r, c, u) ==
    /\ req[r] = Idle /\ u \in accounts
    /\ status[c] # "ended"
    /\ Goto(r, [pc |-> "leave", contest |-> c, user |-> u])
    /\ CountEvent
    /\ UNCHANGED <<accounts, status, over, entry, rating, maxRating, changes, clock, excused>>

LeaveDelete(r) ==
    /\ req[r].pc = "leave"
    /\ entry' = [entry EXCEPT ![req[r].contest][req[r].user] = NoEntry]
    /\ excused' = Excusing(req[r].contest, {req[r].user} \cap Rated(req[r].contest))
    /\ Done(r)
    /\ UNCHANGED <<accounts, status, over, rating, maxRating, changes, clock, events>>

\* POST /api/admin/contests/[id]/status: an override in any direction.
SetStatus(c, s) ==
    /\ status[c] # s
    /\ status' = [status EXCEPT ![c] = s]
    /\ CountEvent
    /\ UNCHANGED <<accounts, over, entry, rating, maxRating, changes, clock, req, excused>>

EndTimePasses(c) ==
    /\ ~over[c]
    /\ over' = [over EXCEPT ![c] = TRUE]
    /\ UNCHANGED <<accounts, status, entry, rating, maxRating, changes, clock, req, events,
                   excused>>

\* DELETE /api/admin/users/[id]: entries and rating changes cascade.
DeleteUser(u) ==
    /\ u \in accounts
    /\ accounts' = accounts \ {u}
    /\ entry' = [c \in ContestIds |-> [entry[c] EXCEPT ![u] = NoEntry]]
    /\ changes' = [c \in ContestIds |-> [changes[c] EXCEPT ![u] = NoChange]]
    /\ CountEvent
    /\ excused' = {p \in excused : p[2] # u}
    /\ UNCHANGED <<status, over, rating, maxRating, clock, req>>
-----------------------------------------------------------------------------
\* finalize-rating: the contest has ended, by its status or by the clock.
FinaliseCheck(r, c) ==
    /\ req[r] = Idle
    /\ status[c] = "ended" \/ over[c]
    /\ Goto(r, [pc |-> "count", contest |-> c])
    /\ UNCHANGED <<accounts, status, over, entry, rating, maxRating, changes, clock, events,
                   excused>>

\* 409 if the contest has rating changes.
FinaliseCount(r) ==
    /\ req[r].pc = "count"
    /\ IF Rated(req[r].contest) # {}
       THEN Done(r)
       ELSE Goto(r, [pc |-> "read", contest |-> req[r].contest])
    /\ UNCHANGED <<accounts, status, over, entry, rating, maxRating, changes, clock, events,
                   excused>>

\* The entries in the order of the query: by score, descending.  How joinedAt breaks a tie
\* makes no difference to anything below.
Standings(c) ==
    LET n == Cardinality(Entrants(c)) IN
    CHOOSE places \in [1..n -> Entrants(c)] :
        /\ IsInjective(places)
        /\ \A i, j \in 1..n : i < j => entry[c][places[i]].score >= entry[c][places[j]].score

\* The rank of place i: a tie shares the rank of the place before it.
Ranks(scores) ==
    LET rank[i \in 0..Len(scores)] ==
            IF i > 1 /\ scores[i] = scores[i - 1] THEN rank[i - 1] ELSE i
    IN [i \in 1..Len(scores) |-> rank[i]]

\* Mutant: the rating before is the newcomer's.
PlanFromStart(c, after) ==
    [u \in Entrants(c) |->
        [before |-> StartRating, after |-> after[u], max |-> Max({maxRating[u], after[u]}), rank |-> 1]]

\* The Glicko-2 update, abstracted: each participant may get any rating.
calculateRatingChanges(participants) == [participants -> Ratings]

\* What the transaction will write for each participant, given the new ratings.
Plan(c, after) ==
    LET places == Standings(c)
        ranks == Ranks([i \in 1..Len(places) |-> entry[c][places[i]].score])
    IN [u \in Entrants(c) |->
          [before |-> rating[u],
           after |-> after[u],
           max |-> Max({maxRating[u], after[u]}),
           rank |-> ranks[CHOOSE i \in 1..Len(places) : places[i] = u]]]

\* The participants and their ratings are read and the changes computed; 422 below two.
FinaliseRead(r) ==
    /\ req[r].pc = "read"
    /\ LET c == req[r].contest IN
       IF Cardinality(Entrants(c)) < 2
       THEN Done(r)
       ELSE \E after \in calculateRatingChanges(Entrants(c)) :
              Goto(r, [pc |-> "begin", contest |-> c, plan |-> Plan(c, after), read |-> clock])
    /\ UNCHANGED <<accounts, status, over, entry, rating, maxRating, changes, clock, events,
                   excused>>

\* The transaction begins; now() is this moment in every row that it creates.  Of transactions
\* that begin between the same two commits, which came first matters to nothing.
FinaliseBegin(r) ==
    /\ req[r].pc = "begin"
    /\ Goto(r, [pc |-> "commit", contest |-> req[r].contest, plan |-> req[r].plan,
                read |-> req[r].read, at |-> clock])
    /\ UNCHANGED <<accounts, status, over, entry, rating, maxRating, changes, clock, events,
                   excused>>

\* Mutant: the user's existing change does not stop the transaction (an upsert).
CommittableAgain(c, plan) == DOMAIN plan \subseteq accounts

\* The transaction is rolled back if a user is gone or @@unique([contestId, userId]) fails.
Committable(c, plan) == DOMAIN plan \subseteq accounts /\ DOMAIN plan \cap Rated(c) = {}

\* Mutant: the ratings are updated before the transaction that inserts the changes.
FinaliseCommitApart(r) ==
    /\ req[r].pc = "commit"
    /\ LET c == req[r].contest  plan == req[r].plan  P == DOMAIN plan IN
       /\ rating' = [u \in Users |-> IF u \in P THEN plan[u].after ELSE rating[u]]
       /\ maxRating' = [u \in Users |-> IF u \in P THEN plan[u].max ELSE maxRating[u]]
       /\ changes' = IF ~Committable(c, plan) THEN changes ELSE
            [changes EXCEPT ![c] = [u \in Users |->
                IF u \in P
                THEN [before |-> plan[u].before, after |-> plan[u].after, rank |-> plan[u].rank,
                      at |-> req[r].at, read |-> req[r].read, done |-> clock + 1]
                ELSE changes[c][u]]]
       /\ clock' = clock + 1
    /\ Done(r)
    /\ UNCHANGED <<accounts, status, over, entry, events, excused>>

FinaliseCommit(r) ==
    /\ req[r].pc = "commit"
    /\ LET c == req[r].contest  plan == req[r].plan  P == DOMAIN plan IN
       \/ /\ ~Committable(c, plan)
          /\ Done(r)
          /\ UNCHANGED <<rating, maxRating, changes, clock, status>>
       \/ /\ Committable(c, plan)
          /\ rating' = [u \in Users |-> IF u \in P THEN plan[u].after ELSE rating[u]]
          /\ maxRating' = [u \in Users |-> IF u \in P THEN plan[u].max ELSE maxRating[u]]
          /\ changes' = [changes EXCEPT ![c] = [u \in Users |->
                IF u \in P
                THEN [before |-> plan[u].before, after |-> plan[u].after, rank |-> plan[u].rank,
                      at |-> req[r].at, read |-> req[r].read, done |-> clock + 1]
                ELSE changes[c][u]]]
          /\ clock' = clock + 1
          /\ status' = [status EXCEPT ![c] = "ended"]
          /\ Goto(r, [pc |-> "fill", contest |-> c, plan |-> plan, todo |-> P])
    /\ UNCHANGED <<accounts, over, entry, events, excused>>

\* Mutant: the backfill writes the place in the list of changes.
FinaliseFillPlace(r) ==
    /\ req[r].pc = "fill"
    /\ LET c == req[r].contest IN
       \E u \in req[r].todo :
          /\ entry' = IF entry[c][u] = NoEntry THEN entry
                      ELSE [entry EXCEPT ![c][u].rank =
                              1 + Cardinality(DOMAIN req[r].plan \ req[r].todo)]
          /\ excused' = IF entry[c][u] = NoEntry THEN Excusing(c, {u}) ELSE excused
          /\ IF req[r].todo = {u} THEN Done(r)
             ELSE Goto(r, [req[r] EXCEPT !.todo = @ \ {u}])
    /\ UNCHANGED <<accounts, status, over, rating, maxRating, changes, clock, events>>

\* After the transaction the rank is copied to the entries, one update each; an entry
\* that is gone is skipped.
FinaliseFill(r) ==
    /\ req[r].pc = "fill"
    /\ LET c == req[r].contest IN
       \E u \in req[r].todo :
          /\ entry' = IF entry[c][u] = NoEntry THEN entry
                      ELSE [entry EXCEPT ![c][u].rank = req[r].plan[u].rank]
          /\ excused' = IF entry[c][u] = NoEntry THEN Excusing(c, {u}) ELSE excused
          /\ IF req[r].todo = {u} THEN Done(r)
             ELSE Goto(r, [req[r] EXCEPT !.todo = @ \ {u}])
    /\ UNCHANGED <<accounts, status, over, rating, maxRating, changes, clock, events>>

\* A query throws (500) or the process stops: the request ends where it is.
Fail(r) ==
    /\ req[r] # Idle
    /\ excused' = IF req[r].pc = "fill" THEN Excusing(req[r].contest, req[r].todo) ELSE excused
    /\ Done(r)
    /\ CountEvent
    /\ UNCHANGED <<accounts, status, over, entry, rating, maxRating, changes, clock>>

Next ==
    \/ \E r \in Requests :
          \/ \E c \in ContestIds :
                \/ FinaliseCheck(r, c)
                \/ \E u \in Users : JoinCheck(r, c, u) \/ LeaveCheck(r, c, u)
          \/ JoinCreate(r) \/ LeaveDelete(r)
          \/ FinaliseCount(r) \/ FinaliseRead(r) \/ FinaliseBegin(r)
          \/ FinaliseCommit(r) \/ FinaliseFill(r) \/ Fail(r)
    \/ \E c \in ContestIds : EndTimePasses(c) \/ \E s \in Statuses : SetStatus(c, s)
    \/ \E u \in Users : DeleteUser(u)

Spec == Init /\ [][Next]_vars
-----------------------------------------------------------------------------
\* A user's rating is the afterRating of the change committed last, however finalisations of
\* several contests, repeated ones and deletions interleave.
RatingIsLastChange ==
    \A u \in accounts : \A c \in RowsOf(u) :
        (\A d \in RowsOf(u) : changes[d][u].done <= changes[c][u].done)
        => rating[u] = changes[c][u].after

\* The rating chart, which goes by createdAt, ends at the rating, unless the transaction of its
\* last change began while that of another was open, which then may have been committed later.
ChartEndsAtRating ==
    \A u \in accounts : \A c \in RowsOf(u) :
        (\A d \in RowsOf(u) \ {c} : changes[d][u].done <= changes[c][u].at)
        => rating[u] = changes[c][u].after

\* Unless two finalisations overlap, each change starts where the one before it ended:
\* a row that was there when the ratings were read is not computed over.
RatingsChain ==
    \A u \in accounts : \A c, d \in RowsOf(u) :
        LET early == changes[c][u]  late == changes[d][u] IN
        /\ early.done <= late.read
        /\ \A e \in RowsOf(u) : changes[e][u].done <= early.done \/ changes[e][u].done >= late.done
        => late.before = early.after

\* maxRating covers every rating a user has had, but for one that a later finalisation did
\* not see, because it had read the ratings by then: its stale maximum replaces it.
MaxCoversWhatWasSeen ==
    \A u \in accounts : \A d \in RowsOf(u) :
        (\A e \in RowsOf(u) : changes[e][u].done > changes[d][u].done
                            => changes[e][u].read >= changes[d][u].done)
        => maxRating[u] >= changes[d][u].after

\* The rank of an entry is the rank the user was rated with: no rank is shown for a
\* contest that was not rated, or left over from another attempt to rate it.
RanksAgree ==
    \A c \in ContestIds : \A u \in Entrants(c) :
        entry[c][u].rank # NoRank => entry[c][u].rank = changes[c][u].rank

\* An entry whose user was rated lacks its rank only while the backfill has yet to reach it,
\* after a backfill that was cut short, or because the user has left and joined again.
RanksAreFilled ==
    \A c \in ContestIds : \A u \in Entrants(c) \cap Rated(c) :
        entry[c][u].rank = NoRank =>
            \/ <<c, u>> \in excused
            \/ \E r \in Requests : req[r].pc = "fill" /\ req[r].contest = c /\ u \in req[r].todo

\* A rating change is never rewritten: a contest is rated at most once for a user, even
\* when two requests both found it unrated ("re-running ... is a 409").
RatedOnce ==
    [][\A c \in ContestIds, u \in Users :
          changes[c][u] # NoChange /\ u \in accounts' => changes'[c][u] = changes[c][u]]_vars

\* The loop over the standings computes standard competition ranking (1, 2, 2, 4): the
\* rank is one more than the number of better scores, for every list in score order.
RanksAreCompetitionRanks ==
    \A n \in 0..4 : \A scores \in [1..n -> 0..2] :
        (\A i, j \in 1..n : i < j => scores[i] >= scores[j]) =>
        \A i \in 1..n :
            Ranks(scores)[i] = 1 + Cardinality({j \in 1..n : scores[j] > scores[i]})

\* The ratings of users are sound: they, and their maxima, are those of the recorded changes,
\* which continue each other.
RatingsAreSound ==
    TypeOK /\ RatingIsLastChange /\ ChartEndsAtRating /\ RatingsChain /\ MaxCoversWhatWasSeen

\* A rank is the competition rank, and the entry shows the one that was rated.
RanksAreRight == RanksAgree /\ RanksAreFilled /\ RanksAreCompetitionRanks

\* Ratings and ranks are sound.
ContestsAreSound == RatingsAreSound /\ RanksAreRight
=============================================================================
