------------------------------ MODULE Seeding ------------------------------
(***************************************************************************)
(* The seed scripts (prisma/seed*.ts).  A script is a list of statements,  *)
(* one database call each and no transaction around them; it keeps in its  *)
(* memory the ids it has read or created.  Operators start scripts by      *)
(* hand, again after a failure, and at the same time; a script may be      *)
(* stopped between any two statements, and administrators delete problems  *)
(* and accounts meanwhile.  A statement that breaks a unique or a foreign  *)
(* key throws, and the script ends with exit code 1.                       *)
(*                                                                         *)
(* Of each table of a script one or two rows stand for all: what is done   *)
(* to one does not depend on the others.                                   *)
(***************************************************************************)
EXTENDS Naturals, SequencesExt

CONSTANTS
    Operators,       \* who run scripts, one at a time each
    MaxRuns,         \* bound on runs of scripts
    MaxFaults        \* bound on runs that are stopped and rows that administrators delete

VARIABLES
    db,          \* the tables
    run,         \* the last run of each operator
    runs, stops, deletions,    \* so far
    torn,        \* history: left without their parts, or half made, by a run that ended
    crossed,     \* history: problems cleared while another run was about to fill them
    mapped       \* history: the problems known to the run that filled the plan

vars == <<db, run, runs, stops, deletions, torn, crossed, mapped>>

-----------------------------------------------------------------------------
\* What the scripts write.
BaseTags == <<"array">>
BaseProblems == <<"two_sum">>
EasyProblems == <<"fibonacci">>
HardProblems == <<"n_queens">>
ContestProblems == <<"fibonacci">>
TopicTags == <<"array", "greedy">>
PlanProblems == {"two_sum", "fibonacci"}
Achievements == <<"first_solution">>
BulkTags == <<"greedy">>
BulkProblems == <<"bulk_1", "bulk_2">>
BigUsers == <<"user3">>

AllProblems == {"two_sum", "fibonacci", "n_queens", "bulk_1", "bulk_2"}
Tags == {"array", "greedy"}
People == {"user1", "user3", "fake", "stranger"}
Contests == {"weekly_1", "weekly_2", "cup"}
TagsOf(p) == IF p \in ToSet(BulkProblems) THEN {"greedy"} ELSE {"array"}

-----------------------------------------------------------------------------
\* The scripts.
Do(what, x) == [do |-> what, on |-> x]
Each(what, table) == [i \in DOMAIN table |-> Do(what, table[i])]

\* Mutant: the test cases are made before the old ones are deleted.
BlocksSwapped(table) ==
    FlattenSeq([i \in DOMAIN table |->
        <<Do("create", table[i]), Do("link", table[i]), Do("fill", table[i]), Do("clear", table[i])>>])

Blocks(table) ==
    FlattenSeq([i \in DOMAIN table |->
        <<Do("create", table[i]), Do("link", table[i]), Do("clear", table[i]), Do("fill", table[i])>>])

AchievementsScript == Each("upsert", Achievements)

BaseScript ==
    Each("upsert", BaseTags) \o Blocks(BaseProblems)
        \o <<Do("upsert", "user1"), Do("upsert", "weekly_1")>> \o AchievementsScript

ExtraScript ==
    <<Do("read", "tags"), Do("read", "people")>> \o Blocks(EasyProblems) \o Blocks(HardProblems)
        \o <<Do("upsert", "weekly_2"), Do("find", "fibonacci"), Do("assign", "fibonacci"),
             Do("read", "problems"), Do("submit", "every")>>

TopicsScript == Each("upsert", TopicTags)

PlansScript ==
    <<Do("read", "problems"), Do("look", "plan"), Do("save", "plan"), Do("wipe", "plan"),
      Do("map", "plan")>>

BigDataScript ==
    Each("upsert", BigUsers)
        \o <<Do("read", "people"), Do("read", "problems"), Do("submit", "some"),
             Do("read", "contests"), Do("enter", "contests")>>

BulkScript ==
    Each("upsert", BulkTags) \o Each("insert", BulkProblems) \o <<Do("open", "cup")>>

UsersScript == <<Do("require", "problems"), Do("enrol", "fake"), Do("submit", "own")>>

Script(s) ==
    CASE s = "base" -> BaseScript
      [] s = "extra" -> ExtraScript
      [] s = "topics" -> TopicsScript
      [] s = "plans" -> PlansScript
      [] s = "achievements" -> AchievementsScript
      [] s = "bigdata" -> BigDataScript
      [] s = "bulk" -> BulkScript
      [] s = "users" -> UsersScript

Scripts == {"base", "extra", "topics", "plans", "achievements", "bigdata", "bulk", "users"}

-----------------------------------------------------------------------------
NoProblem == [id |-> 0, stands |-> FALSE, tests |-> 0, tags |-> {}]
Unknown == [p \in AllProblems |-> 0]
Idle == [script |-> "base", todo |-> <<>>, fate |-> "none", ids |-> Unknown, tags |-> {},
         people |-> {}, contests |-> {}, saw |-> FALSE, calm |-> FALSE]

Empty == [rows |-> {}, problem |-> [p \in AllProblems |-> NoProblem], written |-> {},
          slots |-> [c \in Contests |-> {}], days |-> {}, entries |-> {}]

\* What the base script leaves.
Seeded ==
    [Empty EXCEPT
        !.rows = {"array", "user1", "weekly_1", "first_solution"},
        !.problem["two_sum"] = [id |-> 1, stands |-> TRUE, tests |-> 1, tags |-> {"array"}]]

Init ==
    /\ db \in {Empty, Seeded}
    /\ torn = {} /\ crossed = {}
    /\ run = [o \in Operators |-> Idle]
    /\ runs = 0 /\ stops = 0 /\ deletions = 0
    /\ mapped = Unknown

Standing == {p \in AllProblems : db.problem[p].stands}
Ids == [p \in AllProblems |-> IF p \in Standing THEN db.problem[p].id ELSE 0]
Now(o) == Head(run[o].todo)
Doing(o, what) == run[o].fate = "running" /\ Now(o).do = what
Holds(o, p) == p \in Standing /\ run[o].ids[p] = db.problem[p].id
Known(o) == {p \in AllProblems : run[o].ids[p] # 0}

\* The others lose their calm, and what has ended is no longer looked at.
Disturbed(q) == IF run[q].fate = "running" THEN [run[q] EXCEPT !.calm = FALSE] ELSE Idle

Advance(o, now) ==
    run' = [q \in Operators |->
        IF q # o THEN Disturbed(q)
        ELSE [now EXCEPT !.todo = Tail(@), !.fate = IF Len(now.todo) = 1 THEN "done" ELSE "running"]]

Start(o, s) ==
    /\ run[o].fate # "running" /\ runs < MaxRuns
    /\ runs' = runs + 1
    /\ run' = [run EXCEPT ![o] = 
          [Idle EXCEPT !.script = s, !.todo = Script(s), !.fate = "running", !.calm = TRUE]]
    /\ UNCHANGED <<db, stops, deletions, torn, crossed, mapped>>

\* The pairs of account and problem that a submission may be made for.
Writers(o) ==
    CASE Now(o).on = "every" -> {"user1"} \cap run[o].people
      [] Now(o).on = "some" -> run[o].people
      [] Now(o).on = "own" -> {"fake"}
Pairs(o) == Writers(o) \X Known(o)
Writable(o, pair) == pair[1] \in db.rows /\ Holds(o, pair[2])

\* Mutant: a row with the slug is no obstacle.
NeverTaken(p) == FALSE

Taken(p) == p \in Standing

\* The statement may break a key, or the script gives up.
Fails(o) ==
    LET x == Now(o).on
    IN \/ /\ Doing(o, "upsert") /\ x = "user3"          \* the username is taken
          /\ "stranger" \in db.rows /\ "user3" \notin db.rows
       \/ Doing(o, "link") /\ TagsOf(x) \cap run[o].tags # {} /\ ~Holds(o, x)
       \/ Doing(o, "fill") /\ ~Holds(o, x)
       \/ Doing(o, "assign") /\ run[o].ids[x] # 0 /\ ~Holds(o, x)
       \/ Doing(o, "submit") /\ \E pair \in Pairs(o) : ~Writable(o, pair)
       \/ Doing(o, "submit") /\ x = "every" /\ Writers(o) # {} /\ Known(o) = {}
       \/ Doing(o, "enter") /\ run[o].contests # {} /\ ~(run[o].people \subseteq db.rows)
       \/ Doing(o, "save") /\ ~run[o].saw /\ "plan" \in db.rows
       \/ Doing(o, "map") /\ \E p \in Known(o) \cap PlanProblems : ~Holds(o, p)
       \/ Doing(o, "insert") /\ Taken(x)
       \/ Doing(o, "open") /\ (x \in db.rows \/ \E p \in Known(o) : ~Holds(o, p))
       \/ Doing(o, "require") /\ Standing = {}
       \/ Doing(o, "enrol") /\ x \in db.rows

\* The submissions that a run may have made before it ends here.
Sendable(o) == IF Doing(o, "submit") THEN {pair \in Pairs(o) : Writable(o, pair)} ELSE {}

\* What a run that ends here leaves without its parts: a problem, the plan, or the bulk set
\* without its contests.
Bare(o) ==
    LET x == Now(o).on
    IN {p \in {x} \cap AllProblems : Holds(o, p) /\ db.problem[p].tests = 0}
         \cup {p \in {x} \cap {"plan"} : Now(o).do \in {"wipe", "map"} /\ db.days = {}}
         \cup {c \in {"cup"} \ db.rows : run[o].script = "bulk" /\ Known(o) # {}}

\* The rows that would break a key are not among those it picks at random.
Lucky(o) ==
    \/ Doing(o, "submit") /\ Now(o).on # "every"
    \/ Doing(o, "open") /\ Now(o).on \notin db.rows

End(o, fate) ==
    /\ run[o].fate = "running"
    /\ run' = [q \in Operators |-> IF q = o THEN [Idle EXCEPT !.fate = fate] ELSE run[q]]
    /\ torn' = torn \cup Bare(o)
    /\ \E sent \in SUBSET Sendable(o) : db' = [db EXCEPT !.written = @ \cup sent]

Throw(o) == Fails(o) /\ End(o, "threw") /\ UNCHANGED <<runs, stops, deletions, crossed, mapped>>

Stop(o) ==
    /\ stops + deletions < MaxFaults /\ stops' = stops + 1
    /\ End(o, "stopped")
    /\ UNCHANGED <<runs, deletions, crossed, mapped>>

-----------------------------------------------------------------------------
\* The statements.
Upsert(o) ==
    LET x == Now(o).on
    IN /\ Doing(o, "upsert")
       /\ db' = [db EXCEPT !.rows = @ \cup {x}]
       /\ Advance(o, [run[o] EXCEPT !.tags = @ \cup ({x} \cap Tags)])
       /\ UNCHANGED <<torn, crossed, mapped>>

\* Existing rows are left as they are: update is {}.
Create(o) ==
    LET p == Now(o).on
        id == IF p \in Standing THEN db.problem[p].id ELSE db.problem[p].id + 1
    IN /\ Doing(o, "create")
       /\ db' = IF p \in Standing THEN db
                ELSE [db EXCEPT !.problem[p] = [NoProblem EXCEPT !.id = id, !.stands = TRUE]]
       /\ Advance(o, [run[o] EXCEPT !.ids[p] = id])
       /\ UNCHANGED <<torn, crossed, mapped>>

\* Tags that the script does not know are passed over.
Link(o) ==
    LET p == Now(o).on
    IN /\ Doing(o, "link")
       /\ db' = IF Holds(o, p) THEN [db EXCEPT !.problem[p].tags = @ \cup (TagsOf(p) \cap run[o].tags)]
                ELSE db
       /\ Advance(o, run[o])
       /\ UNCHANGED <<torn, crossed, mapped>>

\* Mutant: the old test cases are kept.
ClearNothing(o) ==
    /\ Doing(o, "clear")
    /\ Advance(o, run[o])
    /\ UNCHANGED <<db, torn, crossed, mapped>>

\* testCase.deleteMany, and createMany: a test case has no key but its own id.
Clear(o) ==
    LET p == Now(o).on
        other == \E q \in Operators \ {o} : Doing(q, "fill") /\ Now(q).on = p /\ Holds(q, p)
    IN /\ Doing(o, "clear")
       /\ db' = IF Holds(o, p) THEN [db EXCEPT !.problem[p].tests = 0] ELSE db
       /\ crossed' = IF ~Holds(o, p) THEN crossed
                     ELSE IF other THEN crossed \cup {p} ELSE crossed \ {p}
       /\ Advance(o, run[o])
       /\ UNCHANGED <<torn, mapped>>

Fill(o) ==
    LET p == Now(o).on
    IN /\ Doing(o, "fill")
       /\ db' = [db EXCEPT !.problem[p].tests = @ + 1]
       /\ torn' = torn \ {p}
       /\ Advance(o, run[o])
       /\ UNCHANGED <<crossed, mapped>>

\* What a script reads it keeps until it ends.
Read(o) ==
    /\ Doing(o, "read") \/ Doing(o, "require")
    /\ Advance(o, CASE Now(o).on = "tags" -> [run[o] EXCEPT !.tags = db.rows \cap Tags]
                    [] Now(o).on = "people" -> [run[o] EXCEPT !.people = db.rows \cap People]
                    [] Now(o).on = "problems" -> [run[o] EXCEPT !.ids = Ids]
                    [] Now(o).on = "contests" -> [run[o] EXCEPT !.contests = db.rows \cap Contests])
    /\ UNCHANGED <<db, torn, crossed, mapped>>

\* A problem of the contest is looked up by its slug, and assigned if there is one.
Find(o) ==
    LET p == Now(o).on
    IN /\ Doing(o, "find")
       /\ Advance(o, [run[o] EXCEPT !.ids[p] = Ids[p]])
       /\ UNCHANGED <<db, torn, crossed, mapped>>

Assign(o) ==
    LET p == Now(o).on
    IN /\ Doing(o, "assign")
       /\ db' = IF Holds(o, p) THEN [db EXCEPT !.slots["weekly_2"] = @ \cup {p}] ELSE db
       /\ Advance(o, run[o])
       /\ UNCHANGED <<torn, crossed, mapped>>

\* One row stands for those of a batch; the extra script goes round all problems.
Submit(o) ==
    /\ Doing(o, "submit")
    /\ \/ /\ Now(o).on = "every" \/ Pairs(o) = {}
          /\ db' = [db EXCEPT !.written = @ \cup Pairs(o)]
       \/ \E pair \in Pairs(o) :
             /\ Now(o).on # "every" /\ Writable(o, pair)
             /\ db' = [db EXCEPT !.written = @ \cup {pair}]
    /\ Advance(o, run[o])
    /\ UNCHANGED <<torn, crossed, mapped>>

Enter(o) ==
    /\ Doing(o, "enter")
    /\ db' = [db EXCEPT !.entries = @ \cup (run[o].contests \X run[o].people)]
    /\ Advance(o, run[o])
    /\ UNCHANGED <<torn, crossed, mapped>>

\* The plan is created or updated by what was read before.
Look(o) ==
    /\ Doing(o, "look")
    /\ Advance(o, [run[o] EXCEPT !.saw = "plan" \in db.rows])
    /\ UNCHANGED <<db, torn, crossed, mapped>>

Save(o) ==
    /\ Doing(o, "save")
    /\ db' = [db EXCEPT !.rows = @ \cup {"plan"}]
    /\ Advance(o, run[o])
    /\ UNCHANGED <<torn, crossed, mapped>>

\* studyPlanProblem.deleteMany, and createMany with skipDuplicates; slugs that were not
\* found are passed over.
Wipe(o) ==
    /\ Doing(o, "wipe")
    /\ db' = [db EXCEPT !.days = {}]
    /\ Advance(o, run[o])
    /\ UNCHANGED <<torn, crossed, mapped>>

Map(o) ==
    /\ Doing(o, "map")
    /\ db' = [db EXCEPT !.days = @ \cup (Known(o) \cap PlanProblems)]
    /\ torn' = torn \ {"plan"}
    /\ mapped' = run[o].ids
    /\ Advance(o, run[o])
    /\ UNCHANGED crossed

\* A transaction that creates a chunk of problems with their test cases and tags, one that
\* creates the contests, one that creates a chunk of accounts.
Insert(o) ==
    LET p == Now(o).on
        id == db.problem[p].id + 1
    IN /\ Doing(o, "insert")
       /\ db' = [db EXCEPT !.problem[p] = [id |-> id, stands |-> TRUE, tests |-> 1, tags |-> TagsOf(p)]]
       /\ Advance(o, [run[o] EXCEPT !.ids[p] = id])
       /\ UNCHANGED <<torn, crossed, mapped>>

Open(o) ==
    LET c == Now(o).on
    IN /\ Doing(o, "open")
       /\ \E picked \in SUBSET {p \in Known(o) : Holds(o, p)} \ {{}} :
             db' = [db EXCEPT !.rows = @ \cup {c}, !.slots[c] = picked]
       /\ Advance(o, run[o])
       /\ UNCHANGED <<torn, crossed, mapped>>

Enrol(o) ==
    /\ Doing(o, "enrol")
    /\ db' = [db EXCEPT !.rows = @ \cup {Now(o).on}]
    /\ Advance(o, run[o])
    /\ UNCHANGED <<torn, crossed, mapped>>

Statement(o) ==
    /\ \/ Upsert(o) \/ Create(o) \/ Link(o) \/ Clear(o) \/ Fill(o) \/ Read(o) \/ Find(o)
       \/ Assign(o) \/ Enter(o) \/ Look(o) \/ Save(o) \/ Wipe(o) \/ Map(o)
       \/ Insert(o) \/ Open(o) \/ Enrol(o) \/ Submit(o)
    /\ Fails(o) => Lucky(o)
    /\ UNCHANGED <<runs, stops, deletions>>

-----------------------------------------------------------------------------
\* DELETE of a problem or an account by an administrator, with the rows that refer to it.
DeleteProblem(p) ==
    /\ stops + deletions < MaxFaults /\ deletions' = deletions + 1
    /\ p \in Standing
    /\ db' = [db EXCEPT
          !.problem[p] = [NoProblem EXCEPT !.id = db.problem[p].id],
          !.slots = [c \in Contests |-> @[c] \ {p}],
          !.days = @ \ {p},
          !.written = {w \in @ : w[2] # p}]
    /\ torn' = torn \ {p}
    /\ crossed' = crossed \ {p}
    /\ run' = [q \in Operators |-> Disturbed(q)]
    /\ UNCHANGED <<runs, stops, mapped>>

DeleteAccount(u) ==
    /\ stops + deletions < MaxFaults /\ deletions' = deletions + 1
    /\ u \in db.rows \cap People
    /\ db' = [db EXCEPT
          !.rows = @ \ {u},
          !.written = {w \in @ : w[1] # u},
          !.entries = {e \in @ : e[2] # u}]
    /\ run' = [q \in Operators |-> Disturbed(q)]
    /\ UNCHANGED <<runs, stops, torn, crossed, mapped>>

\* Somebody registers with the username that the big-data script gives to user3.
Register ==
    /\ {"stranger", "user3"} \cap db.rows = {}
    /\ db' = [db EXCEPT !.rows = @ \cup {"stranger"}]
    /\ run' = [q \in Operators |-> Disturbed(q)]
    /\ UNCHANGED <<runs, stops, deletions, torn, crossed, mapped>>

Next ==
    \/ \E o \in Operators :
          (\E s \in Scripts : Start(o, s)) \/ Statement(o) \/ Throw(o) \/ Stop(o)
    \/ \E p \in AllProblems : DeleteProblem(p)
    \/ \E u \in People : DeleteAccount(u)
    \/ Register

Spec == Init /\ [][Next]_vars

-----------------------------------------------------------------------------
TypeOK ==
    /\ db.rows \subseteq Tags \cup People \cup Contests \cup {"first_solution", "plan"}
    /\ db.problem \in [AllProblems -> [id: Nat, stands: BOOLEAN, tests: Nat, tags: SUBSET Tags]]
    /\ db.slots \in [Contests -> SUBSET Standing] /\ db.days \subseteq Standing
    /\ db.written \subseteq (db.rows \cap People) \X Standing
    /\ db.entries \subseteq (db.rows \cap Contests) \X (db.rows \cap People)
    /\ \A o \in Operators : run[o].fate = "running" <=> run[o].todo # <<>>
    /\ torn \subseteq AllProblems \cup {"plan", "cup"} /\ crossed \subseteq AllProblems

\* A run is busy with a problem from its creation until it has filled it.
Busy(o, p) ==
    run[o].fate = "running" /\ Now(o).do \in {"link", "clear", "fill"} /\ Now(o).on = p /\ Holds(o, p)

\* A problem has its test cases once: not never, unless a run is busy with it or has left it
\* bare, and not twice, unless two runs have crossed on it.  Without test cases the judge
\* refuses what is submitted; with two copies it judges everything twice.
TestsAreWhole ==
    \A p \in Standing :
        /\ db.problem[p].tests = 0 => p \in torn \/ \E o \in Operators : Busy(o, p)
        /\ db.problem[p].tests > 1 => p \in crossed

\* The plan lists the problems that the script which filled it last knew, unless they are
\* gone, a run is about to fill it, or one has left it bare.
PlanIsWhole ==
    \/ "plan" \notin db.rows \/ "plan" \in torn
    \/ \E o \in Operators : run[o].fate = "running" /\ Now(o).do \in {"wipe", "map"}
    \/ /\ \A p \in PlanProblems \cap Standing : mapped[p] = db.problem[p].id => p \in db.days
       /\ db.days \subseteq Standing

\* The bulk script makes its whole set or none of it ever: the contests come with all
\* problems, and no later run completes a set that a run has left half made.
BulkIsOneRun ==
    deletions = 0 /\ "cup" \in db.rows =>
        "cup" \notin torn /\ ToSet(BulkProblems) \subseteq Standing

\* What a statement is there for.
Achieved(o, s) ==
    LET p == s.on
    IN CASE s.do \in {"upsert", "enrol"} -> p \in db.rows
         [] s.do = "create" -> p \in Standing
         [] s.do = "link" -> TagsOf(p) \cap run[o].tags \subseteq db.problem[p].tags
         [] s.do \in {"clear", "fill", "insert"} -> p \in Standing /\ db.problem[p].tests = 1
         [] s.do = "assign" -> p \in Standing => p \in db.slots["weekly_2"]
         [] s.do = "map" -> db.days = PlanProblems \cap Standing
         [] s.do = "open" -> p \in db.rows /\ db.slots[p] # {}
         [] s.do = "submit" ->
              IF p = "every" THEN run[o].people \cap {"user1"} # {} =>
                                   \A q \in Standing : <<"user1", q>> \in db.written
              ELSE p = "own" => \E q \in Standing : <<"fake", q>> \in db.written
         [] s.do = "enter" -> run[o].contests \X run[o].people \subseteq db.entries
         [] OTHER -> TRUE

\* A script that ends with exit code 0 and was alone has established all it stands for,
\* whatever earlier runs, stopped or crossed, have left: running it again repairs.
RerunRepairs ==
    \A o \in Operators : run[o].fate = "done" /\ run[o].calm =>
        \A s \in ToSet(Script(run[o].script)) : Achieved(o, s)

\* The four together, over tables whose foreign keys hold.
SeedsAreSound == TypeOK /\ TestsAreWhole /\ PlanIsWhole /\ BulkIsOneRun /\ RerunRepairs
=============================================================================
