------------------------ MODULE MCExecutionAndListings ------------------------
\* Model-checking instance of parts that share nothing: the execution of one request by the
\* judge, with a default profile that never bites before the time limit and one of a native
\* language, whose CPU limit does; the endpoints that list rows; and the seed scripts.  A
\* behaviour takes one of them, and leaves the variables of the listings and of the scripts
\* without a value if it is not their turn.  The judge admits nobody meanwhile.
EXTENDS Judge, Integers

Ample == [cpu |-> 4, wall |-> 6]
TwoProfiles == {[cpu |-> 0, wall |-> 0], [cpu |-> 1, wall |-> 2]}
Nobody == {}
NoKeys == [r \in Nobody |-> r]

VARIABLES
    part,    \* the part that runs
    endpoint, limit, rows, newest, owner, queries, call, listed, page, seen, repeats, stable,
    settled, changes, faults,
    db, run, runs, stops, deletions, torn, crossed, mapped

listingVars ==
    <<endpoint, limit, rows, newest, owner, queries, call, listed, page, seen, repeats, stable,
      settled, changes, faults>>
seedVars == <<db, run, runs, stops, deletions, torn, crossed, mapped>>

\* Limits: a negative one, one above the largest, and none.
List == INSTANCE Listings WITH
    Keys <- 1..2, InitRows <- 2, RawLimits <- {-1, 9, 100}, Missing <- 100, Default <- 1,
    MaxLimit <- 2, MaxChanges <- 2, MaxFaults <- 1, answer <- listed
Seeds == INSTANCE Seeding WITH Operators <- 1..2, MaxRuns <- 2, MaxFaults <- 1

NoListing ==
    /\ endpoint = 0 /\ limit = 0 /\ rows = 0 /\ newest = 0 /\ owner = 0 /\ queries = 0 /\ call = 0
    /\ listed = 0 /\ page = 0 /\ seen = 0 /\ repeats = 0 /\ stable = 0 /\ settled = 0
    /\ changes = 0 /\ faults = 0

NoSeeds ==
    /\ db = 0 /\ run = 0 /\ runs = 0 /\ stops = 0 /\ deletions = 0 /\ torn = 0 /\ crossed = 0
    /\ mapped = 0

\* A request that is over.
NoExecution ==
    /\ lang = "compiled" /\ profile = [cpu |-> 0, wall |-> 0] /\ jailed = TRUE /\ count = 0
    /\ phase = "stored" /\ test = <<>> /\ reply = "none" /\ files = {} /\ orphans = {}
    /\ row = "none"

MCInit ==
    /\ Init
    /\ \/ part = "execution" /\ Exec!Init /\ NoListing /\ NoSeeds
       \/ part = "listing" /\ NoExecution /\ List!Init /\ NoSeeds
       \/ part = "seeds" /\ NoExecution /\ NoListing /\ Seeds!Init

ExecutionStep(A) ==
    part = "execution" /\ A /\ UNCHANGED <<part, vars, listingVars, seedVars>>
Read == part = "listing" /\ List!Next /\ UNCHANGED <<part, vars, executionVars, seedVars>>
Seed == part = "seeds" /\ Seeds!Next /\ UNCHANGED <<part, vars, executionVars, listingVars>>

\* The fairness is that of JudgeExecution.
Runs ==
    \/ Exec!Check \/ Exec!Answer \/ Exec!Store \/ Exec!Tick
    \/ \E t \in Exec!Tests : Exec!TestStep(t)

MCSpec ==
    /\ MCInit
    /\ [][ExecutionStep(Exec!Next) \/ Read \/ Seed]_<<part, vars, executionVars, listingVars, seedVars>>
    /\ WF_executionVars(ExecutionStep(Runs))

\* ListingsAreSound of Listings.
ListingsAreSound == part = "listing" => List!ListingsAreSound

\* SeedsAreSound of Seeding.
SeedsAreSound == part = "seeds" => Seeds!SeedsAreSound
=============================================================================
