----------------------------- MODULE Community ------------------------------
(***************************************************************************)
(* What users write around problems: discussion threads with nested        *)
(* comments, votes on threads and shared solutions, bookmarks.             *)
(*                                                                         *)
(* A row of DiscussionVote, SharedSolutionVote or Bookmark belongs to a    *)
(* user and a post (a thread, a solution, a problem); it has a value and   *)
(* an id.  Each handler reads before it writes and other requests run in   *)
(* between.  Foreign keys and unique keys are the database's: a write that *)
(* breaks one throws, the handler answers 500 and nothing has changed.     *)
(***************************************************************************)
EXTENDS Integers, FiniteSets, FiniteSetsExt, TLC

CONSTANTS
    Users,
    Admins,         \* users whose session has the role admin
    Threads, Comments, Solutions,   \* ids that may be given out
    Problems,
    MaxReplyDepth,  \* MAX_REPLY_DEPTH
    Requests,       \* requests in flight at once
    MaxRequests     \* bound: requests in one behaviour

Unused == "unused"
Gone == "gone"
Top == "top"                  \* parentId null

\* Each table has ids of its own, and none is one of the words above.
CommunityConstants ==
    /\ IsFiniteSet(Users) /\ IsFiniteSet(Comments)
    /\ Threads \cap Solutions = {} /\ Threads \cap Problems = {} /\ Solutions \cap Problems = {}
    /\ (Users \cup Threads) \cap {Unused, Gone} = {} /\ Top \notin Comments
    /\ MaxReplyDepth \in Nat \ {0} /\ MaxRequests \in Nat

VARIABLES
    accounts,    \* the rows of User
    author,      \* of each thread and solution; Unused or Gone without a row
    comment,     \* thread, parent and author of each comment, or NoComment
    mark,        \* vote or bookmark of a user on a post, NoMark if there is no row
    voteCount,   \* SharedSolution.voteCount
    req,         \* what each request has read and has to do next
    started,     \* requests so far; stands for fresh row ids
    excused      \* history: solutions whose last write of voteCount raced, or was lost

vars == <<accounts, author, comment, mark, voteCount, req, started, excused>>

NoComment(why) == [thread |-> why, parent |-> Top, author |-> why]
NoMark == [value |-> 0, id |-> 0]
Idle == [pc |-> "idle"]
Posts == Threads \cup Solutions \cup Problems

Authored == {p \in Threads \cup Solutions : author[p] \notin {Unused, Gone}}
Exists(p) == p \in Problems \cup Authored
Written == {k \in Comments : comment[k].thread \in Threads}

TypeOK ==
    /\ accounts \subseteq Users
    /\ author \in [Threads \cup Solutions -> Users \cup {Unused, Gone}]
    /\ \A k \in Written :
          comment[k] \in [thread : Threads, parent : Comments \cup {Top}, author : Users]
    /\ \A p \in Posts, u \in Users :
          mark[p][u] \in [value : {-1, 1}, id : 1..MaxRequests] \cup {NoMark}
    /\ voteCount \in [Solutions -> Int]
    /\ excused \subseteq Solutions
    /\ started \in 0..MaxRequests
    /\ \A r \in Requests : req[r].pc \in {"idle", "comment", "write", "sum", "store"}

Init ==
    /\ accounts = Users
    /\ author = [p \in Threads \cup Solutions |-> Unused]
    /\ comment = [k \in Comments |-> NoComment(Unused)]
    /\ mark = [p \in Posts |-> [u \in Users |-> NoMark]]
    /\ voteCount = [s \in Solutions |-> 0]
    /\ req = [r \in Requests |-> Idle]
    /\ started = 0
    /\ excused = {}

\* A request of a signed-in user arrives; its session may outlive its account.
Begin == started < MaxRequests /\ started' = started + 1
-----------------------------------------------------------------------------
\* POST /api/discussions: the problem exists, the thread is created.
CreateThread(t, u) ==
    /\ Begin
    /\ author[t] = Unused /\ u \in accounts
    /\ author' = [author EXCEPT ![t] = u]
    /\ UNCHANGED <<accounts, comment, mark, voteCount, req, excused>>

\* POST /api/problems/[slug]/solutions: one solution for a submission, by its owner.
\* s stands for the accepted submission, which is u's.
CreateSolution(s, u) ==
    /\ Begin
    /\ author[s] = Unused /\ u \in accounts
    /\ author' = [author EXCEPT ![s] = u]
    /\ UNCHANGED <<accounts, comment, mark, voteCount, req, excused>>

Parent(k) == comment[k].parent

\* The comments from k upwards, k included: those in every set that has k and, with each
\* comment, its parent.
Upwards(k) ==
    {c \in Comments :
        \A S \in SUBSET Comments :
            k \in S /\ (\A d \in S : Parent(d) \in S \cup {Top}) => c \in S}

\* The walk up the chain stops at MAX_REPLY_DEPTH.
Depth(k) == Min({Cardinality(Upwards(k)), MaxReplyDepth})

\* Mutant: the cap is compared with > instead of >=.
MayReplyDeep(t, k) == k = Top \/ (k \in Written /\ comment[k].thread = t)

\* The parent is in this thread and not too deep; parentId may be left out.
MayReply(t, k) ==
    k = Top \/ (k \in Written /\ comment[k].thread = t /\ Depth(k) < MaxReplyDepth)

\* POST /api/discussions/[id]: the checks ...
CommentCheck(r, u, t, parent) ==
    /\ req[r] = Idle /\ Begin
    /\ t \in Authored
    /\ MayReply(t, parent)
    /\ req' = [req EXCEPT ![r] = [pc |-> "comment", user |-> u, thread |-> t, parent |-> parent]]
    /\ UNCHANGED <<accounts, author, comment, mark, voteCount, excused>>

\* ... and the insert, which needs the user, the thread and the parent to be there still.
CommentCreate(r, k) ==
    /\ req[r].pc = "comment"
    /\ comment[k].thread = Unused
    /\ comment' =
         IF /\ req[r].user \in accounts /\ req[r].thread \in Authored
            /\ req[r].parent \in Written \cup {Top}
         THEN [comment EXCEPT ![k] = [thread |-> req[r].thread, parent |-> req[r].parent,
                                      author |-> req[r].user]]
         ELSE comment
    /\ req' = [req EXCEPT ![r] = Idle]
    /\ UNCHANGED <<accounts, author, mark, voteCount, started, excused>>

\* onDelete: Cascade of a set of threads and solutions and of a set of comments: replies
\* go with their parent, comments and votes with their thread.
Cascade(posts, comments) ==
    /\ author' = [p \in DOMAIN author |-> IF p \in posts THEN Gone ELSE author[p]]
    /\ comment' = [k \in Comments |->
          IF k \in Written
             /\ (comment[k].thread \in posts \/ Upwards(k) \cap comments # {})
          THEN NoComment(Gone) ELSE comment[k]]

\* Votes and bookmarks go with their user and their post.
Unmark(rows) ==
    mark' = [p \in Posts |-> [u \in Users |-> IF <<p, u>> \in rows THEN NoMark ELSE mark[p][u]]]

\* DELETE of a thread or a solution by its author or an admin.
DeletePost(p, u) ==
    /\ Begin
    /\ p \in Authored
    /\ author[p] = u \/ u \in Admins
    /\ Cascade({p}, {})
    /\ Unmark({p} \X Users)
    /\ UNCHANGED <<accounts, voteCount, req, excused>>

\* DELETE of a comment by its author or an admin.
DeleteComment(k, u) ==
    /\ Begin
    /\ k \in Written
    /\ comment[k].author = u \/ u \in Admins
    /\ Cascade({}, {k})
    /\ UNCHANGED <<accounts, mark, voteCount, req, excused>>

\* The votes of s change: whoever has summed them and not stored the sum is outdated.
Outdate(reqs, changed) ==
    [r \in Requests |-> IF reqs[r].pc = "store" /\ reqs[r].post \in changed
                        THEN [reqs[r] EXCEPT !.fresh = FALSE] ELSE reqs[r]]

\* DELETE /api/admin/users/[id]: everything the user owns goes; nobody deletes himself.
\* The votes of the user leave no trace in voteCount.
DeleteUser(u, by) ==
    /\ Begin
    /\ u \in accounts /\ by \in Admins /\ by # u
    /\ accounts' = accounts \ {u}
    /\ LET posts == {p \in Authored : author[p] = u}
           voted == {s \in Solutions : mark[s][u] # NoMark}
       IN /\ Cascade(posts, {k \in Written : comment[k].author = u})
          /\ Unmark((posts \X Users) \cup (Posts \X {u}))
          /\ excused' = excused \cup voted
          /\ req' = Outdate(req, voted)
    /\ UNCHANGED voteCount
-----------------------------------------------------------------------------
\* A vote (value 1 or -1) or a bookmark toggle (value 1) looks up the user's row.
MarkRead(r, u, p, value) ==
    /\ req[r] = Idle /\ Begin
    /\ Exists(p)
    /\ p \in Problems => value = 1
    /\ req' = [req EXCEPT ![r] = [pc |-> "write", user |-> u, post |-> p, value |-> value,
                                  seen |-> mark[p][u], id |-> started + 1]]
    /\ UNCHANGED <<accounts, author, comment, mark, voteCount, excused>>

\* The row the handler writes: none before, insert; same value, delete; else flip.
Toggled(q) ==
    CASE q.seen = NoMark -> [value |-> q.value, id |-> q.id]
      [] q.seen.value = q.value -> NoMark
      [] OTHER -> [value |-> q.value, id |-> mark[q.post][q.user].id]

\* The write goes through: an insert needs its post, its user and no row; solutions are
\* written by (userId, solutionId), whatever is there now, the others by the row's id.
Writable(q) ==
    IF q.seen = NoMark
    THEN Exists(q.post) /\ q.user \in accounts /\ mark[q.post][q.user] = NoMark
    ELSE q.post \in Solutions \/ mark[q.post][q.user].id = q.seen.id

\* A delete or an update by key may match no row.
Matches(q) == q.seen = NoMark \/ mark[q.post][q.user] # NoMark

MarkWrite(r) ==
    /\ req[r].pc = "write"
    /\ LET q == req[r]
           next == IF q.post \in Solutions /\ Writable(q)
                   THEN [pc |-> "sum", post |-> q.post] ELSE Idle
           writes == Writable(q) /\ Matches(q)
       IN /\ mark' = IF writes THEN [mark EXCEPT ![q.post][q.user] = Toggled(q)] ELSE mark
          /\ req' = [Outdate(req, IF writes THEN {q.post} ELSE {}) EXCEPT ![r] = next]
    /\ UNCHANGED <<accounts, author, comment, voteCount, started, excused>>

Voters(p, value) == {u \in Users : mark[p][u].value = value}
Score(p) == Cardinality(Voters(p, 1)) - Cardinality(Voters(p, -1))

\* recomputeVoteCount: SELECT SUM(value) ...
RecomputeSum(r) ==
    /\ req[r].pc = "sum"
    /\ req' = [req EXCEPT ![r] = [pc |-> "store", post |-> req[r].post,
                                  sum |-> Score(req[r].post), fresh |-> TRUE]]
    /\ UNCHANGED <<accounts, author, comment, mark, voteCount, started, excused>>

\* Mutant: the sum is added to the count.
RecomputeStoreAdds(r) ==
    /\ req[r].pc = "store"
    /\ voteCount' = [voteCount EXCEPT ![req[r].post] = @ + req[r].sum]
    /\ excused' = IF req[r].fresh THEN excused \ {req[r].post} ELSE excused \cup {req[r].post}
    /\ req' = [req EXCEPT ![r] = Idle]
    /\ UNCHANGED <<accounts, author, comment, mark, started>>

\* ... UPDATE "SharedSolution" SET "voteCount".
RecomputeStore(r) ==
    /\ req[r].pc = "store"
    /\ voteCount' = IF req[r].post \in Authored
                    THEN [voteCount EXCEPT ![req[r].post] = req[r].sum] ELSE voteCount
    /\ excused' = IF req[r].fresh THEN excused \ {req[r].post} ELSE excused \cup {req[r].post}
    /\ req' = [req EXCEPT ![r] = Idle]
    /\ UNCHANGED <<accounts, author, comment, mark, started>>

\* A query throws between the vote and its recount: 500, the count is not written.
Fail(r) ==
    /\ req[r].pc \in {"sum", "store"}
    /\ excused' = excused \cup {req[r].post}
    /\ req' = [req EXCEPT ![r] = Idle]
    /\ UNCHANGED <<accounts, author, comment, mark, voteCount, started>>

Next ==
    \/ \E u \in Users :
          \/ \E t \in Threads : CreateThread(t, u)
          \/ \E s \in Solutions : CreateSolution(s, u)
          \/ \E p \in Threads \cup Solutions : DeletePost(p, u)
          \/ \E k \in Comments : DeleteComment(k, u)
          \/ \E by \in Users : DeleteUser(u, by)
          \/ \E r \in Requests :
                \/ \E t \in Threads, k \in Comments \cup {Top} : CommentCheck(r, u, t, k)
                \/ \E p \in Posts, value \in {-1, 1} : MarkRead(r, u, p, value)
    \/ \E r \in Requests :
          \/ \E k \in Comments : CommentCreate(r, k)
          \/ MarkWrite(r) \/ RecomputeSum(r) \/ RecomputeStore(r) \/ Fail(r)

Spec == Init /\ [][Next]_vars
-----------------------------------------------------------------------------
\* What buildCommentTree makes of the rows of a thread: a comment is shown at the top if
\* it has no parent among them, and under its parent otherwise.
InThread(t) == {k \in Written : comment[k].thread = t}
Roots(t) == {k \in InThread(t) : Parent(k) \notin InThread(t)}

\* Every comment of a thread is shown once, at most MAX_REPLY_DEPTH levels deep, and at the
\* top level only if it was written there, however replies race with deletions of the
\* comments above them.
TreesAreShallow ==
    \A t \in Threads :
        /\ \A k \in InThread(t) : Cardinality(Upwards(k)) <= MaxReplyDepth
        /\ \A k \in Roots(t) : Parent(k) = Top

\* No row outlives its user or what it is attached to.
NoOrphans ==
    /\ \A p \in Authored : author[p] \in accounts
    /\ \A k \in Written : comment[k].author \in accounts /\ comment[k].thread \in Authored
    /\ \A p \in Posts, u \in Users : mark[p][u] # NoMark => Exists(p) /\ u \in accounts

\* voteCount is the sum of the votes once no vote is being counted, unless the last count
\* raced with another vote, was lost to a failing query, or a voter's account was deleted;
\* the next vote that is counted without a race repairs it.
CountIsExactUnlessExcused ==
    \A s \in Solutions \cap Authored :
        (\A r \in Requests : req[r].pc \in {"sum", "store"} => req[r].post # s) =>
        s \in excused \/ voteCount[s] = Score(s)

\* The tables are sound: comment trees are shallow, and no deletion, however it meets a
\* comment or vote under way, leaves a row without its user or its post.
TablesAreSound == TypeOK /\ TreesAreShallow /\ NoOrphans

\* TablesAreSound and CountIsExactUnlessExcused together.
CommunityIsSound == TablesAreSound /\ CountIsExactUnlessExcused

\* The code treats the rows of a kind, and the requests, alike.
Symmetry == Permutations(Threads) \cup Permutations(Comments) \cup Permutations(Requests)
=============================================================================
