----------------------------- MODULE ServerProofs -----------------------------
(***************************************************************************)
(* What the servers keep for their users, whoever they are and however     *)
(* many requests run at once.                                              *)
(*                                                                         *)
(* The authentication service: locks are earned, and tokens buy what they  *)
(* stand for.  The inductive invariant says what a request that waits      *)
(* between two queries still knows: that its account was there, that the   *)
(* failures it counted were there, that the token it read has the kind it  *)
(* redeems; and it counts the requests that hold a token against the       *)
(* times it has been redeemed, and those that will record an attempt       *)
(* against the attempts there are.                                         *)
(*                                                                         *)
(* The cache of the web server: it stays within its size, and answers are  *)
(* stale for no longer than they may.  The order of the Map is strict, so  *)
(* a full one has a first entry to drop; an entry leaves out no change     *)
(* that was made more than TTL and the slowest load before it expires,     *)
(* because its load has read every change that was committed by then.      *)
(*                                                                         *)
(* The pages: every copy of an answer was true before its date by no more  *)
(* than the web server keeps it and its load took, and a page shows one    *)
(* that could still be used when it was opened, or an answer made since.   *)
(***************************************************************************)
EXTENDS Servers, Counting

-----------------------------------------------------------------------------
(* The inductive invariant of the authentication service. *)

LoginSteps ==
    {"isLocked", "purge", "compare", "success", "failure", "clear", "count", "lock", "upsert",
     "issue"}
Request ==
    {Idle} \cup [pc : {"verification", "issue"}, user : Users]
           \cup [pc : LoginSteps, user : Users, pw : Passwords, seen : Nat]
           \cup [pc : {"change"}, user : Users, pw : Passwords]
           \cup [pc : Kinds, token : Nat \ {0}, pw : Passwords \cup {NoAccount}]
Row == [kind : Kinds, user : Users, from : Nat, expires : Nat, spent : BOOLEAN, uses : Nat,
        revoked : BOOLEAN]

\* The failed logins of u that counted at the time t.
FailuresAt(u, t) ==
    {a \in attempts : a.user = u /\ ~a.success /\ a.at \in 0..t /\ t <= a.at + Window}
Earned(u, t) == Cardinality(FailuresAt(u, t)) >= Threshold

\* Where each request is, and the token it is about to redeem; 0 if there is none.
Pcs == [r \in Requests |-> req[r].pc]
Held == [r \in Requests |-> IF req[r].pc \in Kinds THEN req[r].token ELSE 0]

\* The requests that have not recorded their attempt yet.
Unrecorded == {"isLocked", "purge", "compare", "success", "failure"}

LoginTypes ==
    /\ clock \in 0..MaxClock
    /\ password \in [Users -> Passwords \cup {NoAccount, Deleted}]
    /\ window \in [Users -> [count : 0..(RateMax + 1), end : 0..(MaxClock + RateWindow)]]
    /\ attempts \subseteq [id : 1..MaxRequests, user : Users, at : 0..MaxClock, success : BOOLEAN]
    /\ lockedUntil \in [Users -> 0..(MaxClock + LockDuration)]
    /\ started \in 0..MaxRequests
    /\ req \in [Requests -> Request]

\* Every attempt belongs to a request that was started, and none is in the future.
AttemptsFit ==
    /\ IsFiniteSet(attempts)
    /\ Cardinality(attempts) + Number(Pcs, Unrecorded, Requests) <= started
    /\ \A a \in attempts : a.at <= clock

\* The end of a lock of u is within LockDuration, and was earned by the time it began.
Due(u, until) ==
    /\ until <= clock + LockDuration
    /\ \E t \in 0..clock : t + LockDuration <= until /\ Earned(u, t)

LocksFit ==
    \A u \in Users : lockedUntil[u] # Unlocked => Due(u, lockedUntil[u])

\* An expired lock that was seen is over, and who is about to lock has counted the failures.
LoginsFit ==
    \A r \in Requests :
        /\ req[r].pc = "purge" => req[r].seen < clock
        /\ req[r].pc = "lock" => \E t \in 0..clock : Earned(req[r].user, t)
        /\ req[r].pc = "upsert" => Due(req[r].user, req[r].seen)

LoginInv == LoginTypes /\ AttemptsFit /\ LocksFit /\ LoginsFit

TokenTypes ==
    /\ verified \subseteq Users
    /\ tokens \in Seq(Row)
    /\ \A i \in DOMAIN tokens :
          /\ tokens[i].from \in 0..(i - 1)
          /\ tokens[i].from # 0 => /\ tokens[tokens[i].from].kind = "refresh"
                                   /\ tokens[tokens[i].from].user = tokens[i].user

\* Tokens belong to users that have, or had, an account.
TokensHaveUsers ==
    \A u \in Users : password[u] = NoAccount =>
        u \notin verified /\ \A i \in DOMAIN tokens : tokens[i].user # u

\* What a request on its way to a token may rely on.
HoldersFit ==
    \A r \in Requests :
        /\ req[r].pc \in {"verification", "success", "clear", "issue"}
              => password[req[r].user] # NoAccount
        /\ req[r].pc \in Kinds =>
              /\ req[r].token \in DOMAIN tokens
              /\ tokens[req[r].token].kind = req[r].pc
              /\ req[r].pc = "reset" => req[r].pw \in Passwords

\* A token was redeemed, or is about to be, by at most as many requests as there are.
OverlapFits ==
    \A i \in DOMAIN tokens :
        tokens[i].uses + Number(Held, {i}, Requests) <= Cardinality(Requests)

TokenInv == TokenTypes /\ SpentMeansServed /\ TokensHaveUsers /\ HoldersFit /\ OverlapFits

AInv == LoginInv /\ TokenInv

(* Requests. *)

LEMMA RequestShape ==
    ASSUME NEW q \in Request
    PROVE  /\ q.pc = "idle" => q = Idle
           /\ q.pc \in {"isLocked", "purge", "compare", "success", "failure", "clear", "count",
                     "lock", "upsert"}
                 => q = [pc |-> q.pc, user |-> q.user, pw |-> q.pw, seen |-> q.seen]
                    /\ q.user \in Users /\ q.pw \in Passwords /\ q.seen \in Nat
           /\ q.pc \in {"verification", "issue", "change"} => q.user \in Users
           /\ q.pc = "verification" => q = [pc |-> q.pc, user |-> q.user]
           /\ q.pc = "change" => q.pw \in Passwords
           /\ q.pc \in Kinds => q.token \in Nat \ {0} /\ q.pw \in Passwords \cup {NoAccount}
<1>1. CASE q = Idle
  BY <1>1 DEF Idle, Kinds
<1>2. CASE q \in [pc : {"verification", "issue"}, user : Users]
  BY <1>2 DEF Kinds
<1>3. CASE q \in [pc : LoginSteps, user : Users, pw : Passwords, seen : Nat]
  BY <1>3 DEF LoginSteps, Kinds
<1>4. CASE q \in [pc : {"change"}, user : Users, pw : Passwords]
  BY <1>4 DEF Kinds
<1>5. CASE q \in [pc : Kinds, token : Nat \ {0}, pw : Passwords \cup {NoAccount}]
  BY <1>5 DEF Kinds
<1>6. QED
  BY <1>1, <1>2, <1>3, <1>4, <1>5 DEF Request

\* A login goes on with the same user and password.
LEMMA LoginGoesOn ==
    ASSUME NEW q \in Request, q.pc \in LoginSteps \ {"issue"}, NEW p \in LoginSteps
    PROVE  /\ [q EXCEPT !.pc = p] = [pc |-> p, user |-> q.user, pw |-> q.pw, seen |-> q.seen]
           /\ [q EXCEPT !.pc = p] \in Request
<1>1. /\ q = [pc |-> q.pc, user |-> q.user, pw |-> q.pw, seen |-> q.seen]
      /\ q.user \in Users /\ q.pw \in Passwords /\ q.seen \in Nat
  BY RequestShape DEF LoginSteps
<1>2. [q EXCEPT !.pc = p] = [pc |-> p, user |-> q.user, pw |-> q.pw, seen |-> q.seen]
  BY <1>1
<1>3. [pc |-> p, user |-> q.user, pw |-> q.pw, seen |-> q.seen] \in Request
  BY <1>1 DEF Request
<1>4. QED
  BY <1>2, <1>3

LEMMA IdleIsRequest == Idle \in Request /\ Idle.pc = "idle"
BY DEF Request, Idle

LEMMA MinOfTwo ==
    ASSUME NEW a \in Nat, NEW b \in Nat
    PROVE  Min2(a, b) \in 0..b
BY DEF Min2

\* Failures that counted at a time still count: attempts are only added.
LEMMA EarnedStays ==
    ASSUME IsFiniteSet(attempts), IsFiniteSet(attempts'), attempts \subseteq attempts',
           NEW u, NEW t, Earned(u, t)
    PROVE  Earned(u, t)'
<1>1. FailuresAt(u, t) \subseteq FailuresAt(u, t)'
  BY DEF FailuresAt
<1>2. IsFiniteSet(FailuresAt(u, t)) /\ IsFiniteSet(FailuresAt(u, t)')
  <2>1. FailuresAt(u, t) \subseteq attempts /\ FailuresAt(u, t)' \subseteq attempts'
    BY DEF FailuresAt
  <2>2. QED
    BY <2>1, FS_Subset
<1>3. /\ Cardinality(FailuresAt(u, t)) <= Cardinality(FailuresAt(u, t)')
      /\ Cardinality(FailuresAt(u, t)) \in Nat /\ Cardinality(FailuresAt(u, t)') \in Nat
  BY <1>1, <1>2, FS_Subset, FS_CardinalityType
<1>4. Threshold \in Nat
  BY AuthAssumption
<1> HIDE DEF FailuresAt
<1>5. QED
  BY <1>3, <1>4 DEF Earned

\* A lock that was due is due later.
LEMMA DueStays ==
    ASSUME IsFiniteSet(attempts), IsFiniteSet(attempts'), attempts \subseteq attempts',
           clock \in Nat, clock' \in Nat, clock <= clock', NEW u, NEW until \in Nat,
           Due(u, until)
    PROVE  Due(u, until)'
<1>1. PICK t \in 0..clock : t + LockDuration <= until /\ Earned(u, t)
  BY DEF Due
<1>2. Earned(u, t)'
  BY <1>1, EarnedStays
<1>3. t \in 0..clock' /\ until <= clock' + LockDuration
  BY AuthAssumption DEF Due
<1>4. QED
  BY <1>1, <1>2, <1>3 DEF Due

\* The requests that have not recorded their attempt: one may come with a request that
\* starts, and one that goes on was there before.
LEMMA UnrecordedFit ==
    ASSUME LoginInv, NEW r \in Requests, NEW q, req' = [req EXCEPT ![r] = q],
           q.pc \in Unrecorded => req[r].pc \in Unrecorded
    PROVE  /\ Number(Pcs, Unrecorded, Requests)' <= Number(Pcs, Unrecorded, Requests)
           /\ Number(Pcs, Unrecorded, Requests)' \in Nat /\ Number(Pcs, Unrecorded, Requests) \in Nat
           /\ req[r].pc \in Unrecorded /\ q.pc \notin Unrecorded
              => Number(Pcs, Unrecorded, Requests)' < Number(Pcs, Unrecorded, Requests)
<1> DEFINE f == Pcs  g == Pcs'
<1>1. req \in [Requests -> Request] /\ IsFiniteSet(Requests)
  BY AuthAssumption DEF LoginInv, LoginTypes
<1>2. /\ \A x \in Requests \ {r} : g[x] = f[x]
      /\ g[r] = q.pc /\ f[r] = req[r].pc
  BY <1>1 DEF Pcs
<1> HIDE DEF f, g
<1>3. Number(f, Unrecorded, Requests) \in Nat /\ Number(g, Unrecorded, Requests) \in Nat
  BY <1>1, NumberIsNat
<1>4. Number(Pcs, Unrecorded, Requests)' = Number(g, Unrecorded, Requests)
  BY DEF Number, Unrecorded, g
<1>5. Number(Pcs, Unrecorded, Requests) = Number(f, Unrecorded, Requests)
  BY DEF f
<1>6. CASE q.pc \in Unrecorded \/ req[r].pc \notin Unrecorded
  <2>1. \A x \in Requests : g[x] \in Unrecorded <=> f[x] \in Unrecorded
    BY <1>2, <1>6
  <2>2. Number(g, Unrecorded, Requests) = Number(f, Unrecorded, Requests)
    BY <2>1, OneStays
  <2>3. QED
    BY <1>3, <1>4, <1>5, <1>6, <2>2
<1>7. CASE q.pc \notin Unrecorded /\ req[r].pc \in Unrecorded
  <2>1. Number(g, Unrecorded, Requests) = Number(f, Unrecorded, Requests) - 1
    BY <1>1, <1>2, <1>7, OneLeaves, SMTT(20)
  <2>2. QED
    BY <1>3, <1>4, <1>5, <2>1
<1>8. QED
  BY <1>6, <1>7

LEMMA UnrecordedStarts ==
    ASSUME LoginInv, NEW r \in Requests, NEW q, req' = [req EXCEPT ![r] = q], req[r] = Idle
    PROVE  /\ Number(Pcs, Unrecorded, Requests)' <= Number(Pcs, Unrecorded, Requests) + 1
           /\ Number(Pcs, Unrecorded, Requests)' \in Nat /\ Number(Pcs, Unrecorded, Requests) \in Nat
<1> DEFINE f == Pcs  g == Pcs'
<1>1. req \in [Requests -> Request] /\ IsFiniteSet(Requests)
  BY AuthAssumption DEF LoginInv, LoginTypes
<1>2. /\ \A x \in Requests \ {r} : g[x] = f[x]
      /\ g[r] = q.pc /\ f[r] = "idle"
  BY <1>1, IdleIsRequest DEF Pcs
<1> HIDE DEF f, g
<1>3. Number(f, Unrecorded, Requests) \in Nat /\ Number(g, Unrecorded, Requests) \in Nat
  BY <1>1, NumberIsNat
<1>4. Number(Pcs, Unrecorded, Requests)' = Number(g, Unrecorded, Requests)
  BY DEF Number, Unrecorded, g
<1>5. Number(Pcs, Unrecorded, Requests) = Number(f, Unrecorded, Requests)
  BY DEF f
<1>6. f[r] \notin Unrecorded
  BY <1>2 DEF Unrecorded
<1>7. CASE q.pc \in Unrecorded
  <2>1. Number(g, Unrecorded, Requests) = Number(f, Unrecorded, Requests) + 1
    BY <1>1, <1>2, <1>6, <1>7, OneEnters
  <2>2. QED
    BY <1>3, <1>4, <1>5, <2>1
<1>8. CASE q.pc \notin Unrecorded
  <2>1. Number(g, Unrecorded, Requests) = Number(f, Unrecorded, Requests)
    BY <1>2, <1>6, <1>8, OneStays
  <2>2. QED
    BY <1>3, <1>4, <1>5, <2>1
<1>9. QED
  BY <1>7, <1>8

(* The login side of a step of one request. *)
LEMMA LoginSide ==
    ASSUME LoginInv, UNCHANGED clock,
           password' \in [Users -> Passwords \cup {NoAccount, Deleted}],
           window' \in [Users -> [count : 0..(RateMax + 1), end : 0..(MaxClock + RateWindow)]],
           attempts \subseteq attempts', IsFiniteSet(attempts'),
           attempts' \subseteq [id : 1..MaxRequests, user : Users, at : 0..MaxClock, success : BOOLEAN],
           \A a \in attempts' \ attempts : a.at = clock,
           started' \in 0..MaxRequests,
           Cardinality(attempts') + Number(Pcs, Unrecorded, Requests)' <= started',
           lockedUntil' \in [Users -> Nat],
           \A u \in Users : \/ lockedUntil'[u] \in {lockedUntil[u], Unlocked}
                            \/ lockedUntil'[u] \in Nat /\ Due(u, lockedUntil'[u]),
           NEW r, NEW q \in Request, req' \in {req, [req EXCEPT ![r] = q]},
           q.pc = "purge" => q.seen < clock,
           q.pc = "lock" => \E t \in 0..clock : Earned(q.user, t),
           q.pc = "upsert" => Due(q.user, q.seen)
    PROVE  LoginInv'
<1>1. /\ clock \in 0..MaxClock /\ MaxClock \in Nat /\ LockDuration \in Nat \ {0}
      /\ lockedUntil \in [Users -> 0..(MaxClock + LockDuration)] /\ IsFiniteSet(attempts)
  BY AuthAssumption DEF LoginInv, LoginTypes, AttemptsFit
<1>2. \A s \in Requests : req'[s] = req[s] \/ req'[s] = q
  BY DEF LoginInv, LoginTypes
<1>3. \A u, t : Earned(u, t) => Earned(u, t)'
  BY <1>1, EarnedStays
<1>4. LoginTypes'
  <2>1. req' \in [Requests -> Request]
    BY DEF LoginInv, LoginTypes
  <2>2. (req \in [Requests -> Request])'
    BY <2>1 DEF Request, Idle, Kinds, LoginSteps, NoAccount
  <2>3. lockedUntil' \in [Users -> 0..(MaxClock + LockDuration)]
    <3>1. \A u \in Users : lockedUntil'[u] \in 0..(MaxClock + LockDuration)
      BY <1>1 DEF Unlocked, Due
    <3>2. QED
      BY <3>1
  <2>4. (password \in [Users -> Passwords \cup {NoAccount, Deleted}])'
    BY DEF NoAccount, Deleted
  <2>5. (/\ clock \in 0..MaxClock
         /\ window \in [Users -> [count : 0..(RateMax + 1), end : 0..(MaxClock + RateWindow)]]
         /\ attempts \subseteq [id : 1..MaxRequests, user : Users, at : 0..MaxClock, success : BOOLEAN]
         /\ lockedUntil \in [Users -> 0..(MaxClock + LockDuration)]
         /\ started \in 0..MaxRequests)'
    BY <1>1, <2>3
  <2>6. QED
    BY <2>2, <2>4, <2>5 DEF LoginTypes
<1>5. AttemptsFit'
  <2>1. \A a \in attempts' : a.at <= clock
    BY <1>1 DEF LoginInv, AttemptsFit
  <2>2. QED
    BY <2>1 DEF AttemptsFit
<1>6. \A u : \A until \in Nat : Due(u, until) => Due(u, until)'
  BY <1>1, DueStays
<1>7. LocksFit'
  <2> SUFFICES ASSUME NEW u \in Users, lockedUntil'[u] # Unlocked
               PROVE  Due(u, lockedUntil[u])'
    BY DEF LocksFit, Unlocked
  <2>1. lockedUntil'[u] \in Nat /\ Due(u, lockedUntil'[u])
    BY <1>1 DEF LoginInv, LocksFit
  <2>2. PICK until \in Nat : until = lockedUntil'[u] /\ Due(u, until)
    BY <2>1
  <2>3. Due(u, until)'
    BY <1>6, <2>2
  <2>4. QED
    BY <2>2, <2>3 DEF Due
<1>8. LoginsFit'
  <2> SUFFICES ASSUME NEW s \in Requests
               PROVE  (/\ req[s].pc = "purge" => req[s].seen < clock
                       /\ req[s].pc = "lock" => \E t \in 0..clock : Earned(req[s].user, t)
                       /\ req[s].pc = "upsert" => Due(req[s].user, req[s].seen))'
    BY DEF LoginsFit
  <2>1. PICK x \in Request : x = req'[s] /\ (x = req[s] \/ x = q)
    BY <1>2 DEF LoginInv, LoginTypes
  <2>2. /\ x.pc = "purge" => x.seen < clock
        /\ x.pc = "lock" => \E t \in 0..clock : Earned(x.user, t)
        /\ x.pc = "upsert" => x.seen \in Nat /\ Due(x.user, x.seen)
    BY <2>1, RequestShape DEF LoginInv, LoginsFit
  <2>3. x.pc = "lock" => \E t \in 0..clock' : Earned(req[s].user, t)'
    BY <1>3, <2>1, <2>2
  <2>4. x.pc = "upsert" => Due(x.user, x.seen)'
    BY <1>6, <2>2
  <2>5. x.pc = "upsert" => Due(req[s].user, req[s].seen)'
    BY <2>1, <2>4 DEF Due
  <2>6. QED
    BY <2>1, <2>2, <2>3, <2>5
<1>9. QED
  BY <1>4, <1>5, <1>7, <1>8 DEF LoginInv

LEMMA LoginSideQuiet ==
    ASSUME LoginInv, UNCHANGED <<clock, attempts>>,
           password' \in [Users -> Passwords \cup {NoAccount, Deleted}],
           window' \in [Users -> [count : 0..(RateMax + 1), end : 0..(MaxClock + RateWindow)]],
           lockedUntil' \in [Users -> Nat],
           \A u \in Users : \/ lockedUntil'[u] \in {lockedUntil[u], Unlocked}
                            \/ lockedUntil'[u] \in Nat /\ Due(u, lockedUntil'[u]),
           NEW r \in Requests, NEW q \in Request, req' = [req EXCEPT ![r] = q],
           q.pc = "purge" => q.seen < clock,
           q.pc = "lock" => \E t \in 0..clock : Earned(q.user, t),
           q.pc = "upsert" => Due(q.user, q.seen),
           \/ req[r] = Idle /\ started < MaxRequests /\ started' = started + 1
           \/ started' = started /\ (q.pc \in Unrecorded => req[r].pc \in Unrecorded)
    PROVE  LoginInv'
<1>1. /\ started \in 0..MaxRequests /\ MaxRequests \in Nat
      /\ IsFiniteSet(attempts) /\ Cardinality(attempts) \in Nat
      /\ Cardinality(attempts) + Number(Pcs, Unrecorded, Requests) <= started
      /\ attempts \subseteq [id : 1..MaxRequests, user : Users, at : 0..MaxClock, success : BOOLEAN]
  BY AuthAssumption, FS_CardinalityType DEF LoginInv, LoginTypes, AttemptsFit
<1>2. started' \in 0..MaxRequests
      /\ Cardinality(attempts') + Number(Pcs, Unrecorded, Requests)' <= started'
  <2>1. CASE req[r] = Idle /\ started < MaxRequests /\ started' = started + 1
    <3>1. /\ Number(Pcs, Unrecorded, Requests)' <= Number(Pcs, Unrecorded, Requests) + 1
          /\ Number(Pcs, Unrecorded, Requests)' \in Nat /\ Number(Pcs, Unrecorded, Requests) \in Nat
      BY <2>1, UnrecordedStarts
    <3>2. QED
      BY <1>1, <2>1, <3>1
  <2>2. CASE started' = started /\ (q.pc \in Unrecorded => req[r].pc \in Unrecorded)
    <3>1. /\ Number(Pcs, Unrecorded, Requests)' <= Number(Pcs, Unrecorded, Requests)
          /\ Number(Pcs, Unrecorded, Requests)' \in Nat /\ Number(Pcs, Unrecorded, Requests) \in Nat
      BY <2>2, UnrecordedFit
    <3>2. QED
      BY <1>1, <2>2, <3>1
  <2>3. QED
    BY <2>1, <2>2
<1>3. QED
  BY <1>1, <1>2, LoginSide

\* No request moves; another may have come and been answered at once.
LEMMA LoginSideStill ==
    ASSUME LoginInv, UNCHANGED <<clock, window, attempts, lockedUntil, req>>,
           password' \in [Users -> Passwords \cup {NoAccount, Deleted}],
           started' \in {started, started + 1}, started' <= MaxRequests
    PROVE  LoginInv'
<1>1. /\ started \in 0..MaxRequests /\ MaxRequests \in Nat
      /\ IsFiniteSet(attempts) /\ Cardinality(attempts) \in Nat
      /\ Cardinality(attempts) + Number(Pcs, Unrecorded, Requests) <= started
      /\ attempts \subseteq [id : 1..MaxRequests, user : Users, at : 0..MaxClock, success : BOOLEAN]
      /\ window \in [Users -> [count : 0..(RateMax + 1), end : 0..(MaxClock + RateWindow)]]
      /\ lockedUntil \in [Users -> Nat]
  BY AuthAssumption, FS_CardinalityType DEF LoginInv, LoginTypes, AttemptsFit
<1>2. Number(Pcs, Unrecorded, Requests)' = Number(Pcs, Unrecorded, Requests)
  BY DEF Number, Pcs, Unrecorded
<1>3. Number(Pcs, Unrecorded, Requests) \in Nat
  BY AuthAssumption, NumberIsNat
<1>4. started' \in 0..MaxRequests
      /\ Cardinality(attempts') + Number(Pcs, Unrecorded, Requests)' <= started'
  BY <1>1, <1>2, <1>3
<1>5. QED
  BY <1>1, <1>4, IdleIsRequest, LoginSide

LEMMA TickSide ==
    ASSUME LoginInv, Tick
    PROVE  LoginInv'
<1>1. /\ clock \in Nat /\ clock' \in 0..MaxClock /\ clock < clock'
      /\ UNCHANGED <<password, window, attempts, lockedUntil, req, started>>
  BY AuthAssumption DEF Tick, loginVars, LoginInv, LoginTypes
<1>2. LoginTypes'
  <2>1. (req \in [Requests -> Request])'
    BY <1>1 DEF LoginInv, LoginTypes, Request, Idle, Kinds, LoginSteps, NoAccount
  <2>2. (password \in [Users -> Passwords \cup {NoAccount, Deleted}])'
    BY <1>1 DEF LoginInv, LoginTypes, NoAccount, Deleted
  <2>3. QED
    BY <1>1, <2>1, <2>2 DEF LoginInv, LoginTypes
<1>3. AttemptsFit'
  <2>1. Number(Pcs, Unrecorded, Requests)' = Number(Pcs, Unrecorded, Requests)
    BY <1>1 DEF Number, Pcs, Unrecorded
  <2>2. \A a \in attempts : a.at <= clock'
    <3> SUFFICES ASSUME NEW a \in attempts PROVE a.at <= clock'
      OBVIOUS
    <3>1. a.at <= clock /\ a.at \in 0..MaxClock
      BY DEF LoginInv, AttemptsFit, LoginTypes
    <3>2. QED
      BY <1>1, <3>1
  <2>3. QED
    BY <1>1, <2>1, <2>2 DEF LoginInv, AttemptsFit
<1>4. \A u, t : Earned(u, t)' = Earned(u, t)
  BY <1>1 DEF Earned, FailuresAt
<1>5. \A u : \A until \in Nat : Due(u, until) => Due(u, until)'
  BY <1>1, DueStays, AuthAssumption DEF LoginInv, AttemptsFit
<1>6. LocksFit'
  <2> SUFFICES ASSUME NEW u \in Users, lockedUntil[u] # Unlocked
               PROVE  Due(u, lockedUntil[u])'
    BY <1>1 DEF LocksFit, Unlocked
  <2>1. PICK until \in Nat : until = lockedUntil[u] /\ Due(u, until)
    BY AuthAssumption DEF LoginInv, LocksFit, LoginTypes
  <2>2. Due(u, until)'
    BY <1>5, <2>1
  <2>3. QED
    BY <1>1, <2>1, <2>2 DEF Due
<1>7. LoginsFit'
  <2> SUFFICES ASSUME NEW s \in Requests
               PROVE  (/\ req[s].pc = "purge" => req[s].seen < clock
                       /\ req[s].pc = "lock" => \E t \in 0..clock : Earned(req[s].user, t)
                       /\ req[s].pc = "upsert" => Due(req[s].user, req[s].seen))'
    BY DEF LoginsFit
  <2>1. PICK x \in Request : x = req[s] /\ x = req'[s]
    BY <1>1 DEF LoginInv, LoginTypes
  <2>2. /\ x.pc = "purge" => x.seen < clock /\ x.seen \in Nat
        /\ x.pc = "lock" => \E t \in 0..clock : Earned(x.user, t)
        /\ x.pc = "upsert" => x.seen \in Nat /\ Due(x.user, x.seen)
    BY <2>1, RequestShape DEF LoginInv, LoginsFit
  <2>3. x.pc = "purge" => x.seen < clock'
    BY <1>1, <2>2
  <2>4. x.pc = "lock" => \E t \in 0..clock' : Earned(x.user, t)'
    BY <1>1, <1>4, <2>2
  <2>5. x.pc = "upsert" => Due(x.user, x.seen)'
    BY <1>5, <2>2
  <2>6. (x.pc = "lock" => \E t \in 0..clock' : Earned(req[s].user, t)')
        /\ (x.pc = "upsert" => Due(req[s].user, req[s].seen)')
    BY <2>1, <2>4, <2>5 DEF Due, Earned, FailuresAt
  <2>7. QED
    BY <2>1, <2>3, <2>6
<1>8. QED
  BY <1>2, <1>3, <1>6, <1>7 DEF LoginInv

(* The token side. *)

\* One request moves: those that hold token i are no more, and one less if it gave it up.
LEMMA HeldFit ==
    ASSUME LoginInv, NEW r \in Requests, NEW q, req' = [req EXCEPT ![r] = q],
           NEW i \in Nat \ {0}, ~(q.pc \in Kinds /\ q.token = i)
    PROVE  /\ Number(Held, {i}, Requests)' \in Nat /\ Number(Held, {i}, Requests) \in Nat
           /\ Number(Held, {i}, Requests)' <= Number(Held, {i}, Requests)
           /\ req[r].pc \in Kinds /\ req[r].token = i
              => Number(Held, {i}, Requests)' = Number(Held, {i}, Requests) - 1
<1> DEFINE f == Held  g == Held'
<1>1. req \in [Requests -> Request] /\ IsFiniteSet(Requests)
  BY AuthAssumption DEF LoginInv, LoginTypes
<1>2. /\ \A x \in Requests \ {r} : g[x] = f[x]
      /\ g[r] = IF q.pc \in Kinds THEN q.token ELSE 0
      /\ f[r] = IF req[r].pc \in Kinds THEN req[r].token ELSE 0
  BY <1>1 DEF Held, Kinds
<1> HIDE DEF f, g
<1>3. Number(f, {i}, Requests) \in Nat /\ Number(g, {i}, Requests) \in Nat
  BY <1>1, NumberIsNat
<1>4. Number(Held, {i}, Requests)' = Number(g, {i}, Requests)
  BY DEF Number, g
<1>5. Number(Held, {i}, Requests) = Number(f, {i}, Requests)
  BY DEF f
<1>6. g[r] \notin {i}
  BY <1>2
<1>7. CASE f[r] \in {i}
  <2> DEFINE ps == {i}
  <2>1. f[r] \in ps /\ g[r] \notin ps /\ \A x \in Requests \ {r} : g[x] = f[x]
    BY <1>2, <1>6, <1>7
  <2> HIDE DEF ps
  <2>2. Number(g, ps, Requests) = Number(f, ps, Requests) - 1
    BY <1>1, <2>1, OneLeaves
  <2>3. QED
    <3>1. Number(g, {i}, Requests) = Number(f, {i}, Requests) - 1
      BY <2>2 DEF ps
    <3>2. Number(g, {i}, Requests) <= Number(f, {i}, Requests)
      BY <1>3, <3>1
    <3>3. QED
      BY <1>3, <1>4, <1>5, <3>1, <3>2
<1>8. CASE f[r] \notin {i}
  <2>1. Number(g, {i}, Requests) = Number(f, {i}, Requests)
    BY <1>2, <1>6, <1>8, OneStays
  <2>2. ~(req[r].pc \in Kinds /\ req[r].token = i)
    BY <1>2, <1>8
  <2>3. QED
    BY <1>3, <1>4, <1>5, <2>1, <2>2
<1>9. QED
  BY <1>7, <1>8

LEMMA HeldReleased ==
    ASSUME LoginInv, NEW r \in Requests, NEW q, req' = [req EXCEPT ![r] = q], q.pc \notin Kinds
    PROVE  \A j \in Nat \ {0} :
              /\ Number(Held, {j}, Requests)' <= Number(Held, {j}, Requests)
              /\ req[r].pc \in Kinds /\ req[r].token = j
                 => Number(Held, {j}, Requests)' = Number(Held, {j}, Requests) - 1
BY HeldFit

LEMMA HeldBound ==
    ASSUME NEW i
    PROVE  /\ Number(Held, {i}, Requests) \in Nat /\ Cardinality(Requests) \in Nat
           /\ Number(Held, {i}, Requests) <= Cardinality(Requests)
BY AuthAssumption, FS_Subset, FS_CardinalityType DEF Number

LEMMA HoldersKept ==
    ASSUME AInv, NEW r, NEW q \in Request, req' \in {req, [req EXCEPT ![r] = q]},
           \A i \in DOMAIN tokens : i \in DOMAIN tokens' /\ tokens'[i].kind = tokens[i].kind,
           \A u \in Users : password'[u] = NoAccount => password[u] = NoAccount,
           q.pc \in {"verification", "success", "clear", "issue"} => password'[q.user] # NoAccount,
           q.pc \in Kinds => /\ q.token \in DOMAIN tokens /\ tokens[q.token].kind = q.pc
                             /\ q.pc = "reset" => q.pw \in Passwords
    PROVE  HoldersFit'
<1> SUFFICES ASSUME NEW s \in Requests
             PROVE  /\ req'[s].pc \in {"verification", "success", "clear", "issue"}
                          => password'[req'[s].user] # NoAccount
                    /\ req'[s].pc \in Kinds =>
                          /\ req'[s].token \in DOMAIN tokens'
                          /\ tokens'[req'[s].token].kind = req'[s].pc
                          /\ req'[s].pc = "reset" => req'[s].pw \in Passwords
  BY DEF HoldersFit, Kinds, NoAccount
<1>1. req[s] \in Request /\ (req'[s] = req[s] \/ req'[s] = q)
  BY DEF AInv, LoginInv, LoginTypes
<1>2. CASE req'[s] = q
  BY <1>2
<1>3. CASE req'[s] = req[s]
  <2>1. req[s].pc \in {"verification", "success", "clear", "issue"}
           => req[s].user \in Users /\ password[req[s].user] # NoAccount
    BY <1>1, RequestShape DEF AInv, TokenInv, HoldersFit
  <2>2. req[s].pc \in Kinds =>
          /\ req[s].token \in DOMAIN tokens /\ tokens[req[s].token].kind = req[s].pc
          /\ req[s].pc = "reset" => req[s].pw \in Passwords
    BY DEF AInv, TokenInv, HoldersFit
  <2>3. QED
    BY <1>3, <2>1, <2>2
<1>4. QED
  BY <1>1, <1>2, <1>3

LEMMA TokenRows ==
    ASSUME TokenTypes
    PROVE  /\ Len(tokens) \in Nat /\ DOMAIN tokens = 1..Len(tokens)
           /\ \A i \in DOMAIN tokens :
                 /\ i \in Nat \ {0} /\ tokens[i] \in Row
                 /\ tokens[i].kind \in Kinds /\ tokens[i].user \in Users
                 /\ tokens[i].uses \in Nat /\ tokens[i].from \in 0..(i - 1)
<1>1. tokens \in Seq(Row)
  BY DEF TokenTypes
<1>2. Len(tokens) \in Nat /\ DOMAIN tokens = 1..Len(tokens) /\ \A i \in 1..Len(tokens) : tokens[i] \in Row
  BY <1>1
<1>3. \A t \in Row : t.kind \in Kinds /\ t.user \in Users /\ t.uses \in Nat
  BY DEF Row
<1>4. QED
  BY <1>2, <1>3 DEF TokenTypes

LEMMA TokenSideQuiet ==
    ASSUME AInv, UNCHANGED tokens,
           password' \in [Users -> Passwords \cup {NoAccount, Deleted}],
           \A u \in Users : password'[u] = NoAccount => password[u] = NoAccount,
           \A u \in Users : password'[u] \in Passwords
                            => password[u] \in Passwords \/ password[u] = NoAccount,
           verified' \subseteq verified,
           \A u \in Users : password[u] \in Passwords /\ password'[u] \in Passwords
                            => (u \in verified' <=> u \in verified),
           NEW r, NEW q \in Request,
           req' = req \/ (r \in Requests /\ req' = [req EXCEPT ![r] = q]),
           q.pc \in {"verification", "success", "clear", "issue"} => password'[q.user] # NoAccount,
           q.pc \in Kinds => /\ q.token \in DOMAIN tokens /\ tokens[q.token].kind = q.pc
                             /\ q.pc = "reset" => q.pw \in Passwords
                             /\ tokens[q.token].uses = 0
    PROVE  TokenInv'
<1>1. TokenTypes'
  BY DEF AInv, TokenInv, TokenTypes, Row, Kinds
<1>2. HoldersFit'
  BY HoldersKept
<1>3. TokensHaveUsers'
  BY DEF AInv, TokenInv, TokensHaveUsers, NoAccount
<1>4. SpentMeansServed'
  <2>1. \A i \in DOMAIN tokens :
          /\ tokens[i].spent <=> tokens[i].uses > 0 \/ tokens[i].revoked
          /\ tokens[i].kind = "refresh" =>
                tokens[i].uses = Cardinality({j \in DOMAIN tokens : tokens[j].from = i})
    BY DEF AInv, TokenInv, SpentMeansServed
  <2>2. ASSUME NEW u \in Users, password'[u] \in Passwords
        PROVE  u \in verified' <=>
               \E i \in DOMAIN tokens :
                  tokens[i].kind = "verify" /\ tokens[i].user = u /\ tokens[i].uses > 0
    <3>1. CASE password[u] \in Passwords
      BY <2>2, <3>1 DEF AInv, TokenInv, SpentMeansServed, Accounts
    <3>2. CASE password[u] = NoAccount
      BY <3>2 DEF AInv, TokenInv, TokensHaveUsers
    <3>3. QED
      BY <2>2, <3>1, <3>2
  <2>3. (\A i \in DOMAIN tokens :
          /\ tokens[i].spent <=> tokens[i].uses > 0 \/ tokens[i].revoked
          /\ tokens[i].kind = "refresh" =>
                tokens[i].uses = Cardinality({j \in DOMAIN tokens : tokens[j].from = i}))'
    BY <2>1
  <2>4. (\A u \in Accounts : u \in verified <=> \E i \in DOMAIN tokens :
            tokens[i].kind = "verify" /\ tokens[i].user = u /\ tokens[i].uses > 0)'
    BY <2>2 DEF Accounts
  <2>5. QED
    BY <2>3, <2>4 DEF SpentMeansServed
<1>5. OverlapFits'
  <2> SUFFICES ASSUME NEW i \in DOMAIN tokens
               PROVE  tokens[i].uses + Number(Held, {i}, Requests)' <= Cardinality(Requests)
    BY DEF OverlapFits
  <2>1. i \in Nat \ {0} /\ tokens[i].uses \in Nat
    BY TokenRows DEF AInv, TokenInv
  <2>2. tokens[i].uses + Number(Held, {i}, Requests) <= Cardinality(Requests)
    BY DEF AInv, TokenInv, OverlapFits
  <2>3. Number(Held, {i}, Requests) \in Nat /\ Cardinality(Requests) \in Nat
    BY HeldBound
  <2>4. CASE req' = req
    <3>1. Number(Held, {i}, Requests)' = Number(Held, {i}, Requests)
      BY <2>4 DEF Number, Held, Kinds
    <3>2. QED
      BY <2>2, <3>1
  <2>5. CASE r \in Requests /\ req' = [req EXCEPT ![r] = q] /\ ~(q.pc \in Kinds /\ q.token = i)
    <3>1. /\ Number(Held, {i}, Requests)' \in Nat
          /\ Number(Held, {i}, Requests)' <= Number(Held, {i}, Requests)
      BY <2>1, <2>5, HeldFit DEF AInv
    <3>2. QED
      BY <2>1, <2>2, <2>3, <3>1
  <2>6. CASE q.pc \in Kinds /\ q.token = i
    <3>1. /\ Number(Held, {i}, Requests)' \in Nat
          /\ Number(Held, {i}, Requests)' <= Cardinality(Requests)
      BY AuthAssumption, FS_Subset, FS_CardinalityType DEF Number
    <3>2. QED
      BY <2>3, <2>6, <3>1
  <2>7. QED
    BY <2>4, <2>5, <2>6
<1>6. QED
  BY <1>1, <1>2, <1>3, <1>4, <1>5 DEF TokenInv

Successors(k) == {j \in DOMAIN tokens : tokens[j].from = k}

(* Token i is redeemed, or none if i is 0; and a token may be issued, the successor of i if *)
(* there is an i. *)
LEMMA TokensWritten ==
    ASSUME AInv, UNCHANGED clock, NEW i \in Nat, i # 0 => i \in DOMAIN tokens, NEW grown \in BOOLEAN,
           tokens' \in Seq(Row), Len(tokens') = IF grown THEN Len(tokens) + 1 ELSE Len(tokens),
           \A j \in DOMAIN tokens :
              /\ tokens'[j].kind = tokens[j].kind /\ tokens'[j].user = tokens[j].user
              /\ tokens'[j].from = tokens[j].from
              /\ tokens'[j].uses = IF j = i THEN tokens[j].uses + 1 ELSE tokens[j].uses
              /\ tokens'[j].spent <=> tokens'[j].uses > 0 \/ tokens'[j].revoked,
           grown => LET new == tokens'[Len(tokens) + 1]
                    IN /\ new.uses = 0 /\ ~new.spent /\ ~new.revoked /\ new.from = i
                       /\ password[new.user] # NoAccount
                       /\ i # 0 => tokens[i].kind = "refresh" /\ tokens[i].user = new.user,
           i # 0 /\ ~grown => tokens[i].kind # "refresh",
           \A u \in Users : password'[u] = NoAccount <=> password[u] = NoAccount,
           \A u \in Users : password'[u] \in Passwords <=> password[u] \in Passwords,
           verified' \subseteq Users, verified \subseteq verified',
           \A u \in verified' \ verified : password[u] # NoAccount,
           \A u \in Users : password[u] \in Passwords =>
              (u \in verified' <=>
                  u \in verified \/ (i # 0 /\ tokens[i].kind = "verify" /\ tokens[i].user = u)),
           NEW r \in Requests, NEW q \in Request, q.pc \notin Kinds,
           IF i = 0 THEN req' \in {req, [req EXCEPT ![r] = q]}
           ELSE req' = [req EXCEPT ![r] = q] /\ req[r].pc \in Kinds /\ req[r].token = i,
           q.pc \in {"verification", "success", "clear", "issue"} => password'[q.user] # NoAccount
    PROVE  TokenInv'
<1> DEFINE n == Len(tokens)
<1>1. /\ n \in Nat /\ DOMAIN tokens = 1..n
      /\ \A j \in 1..n : /\ j \in Nat \ {0} /\ tokens[j].kind \in Kinds /\ tokens[j].user \in Users
                         /\ tokens[j].uses \in Nat /\ tokens[j].from \in 0..(j - 1)
  BY TokenRows DEF AInv, TokenInv
<1>2. DOMAIN tokens' = 1..(IF grown THEN n + 1 ELSE n)
      /\ \A j \in DOMAIN tokens' : tokens'[j] \in Row
  OBVIOUS
<1>3. \A j \in 1..n : j \in DOMAIN tokens'
  BY <1>1, <1>2
<1>4. \A j \in DOMAIN tokens' : j \in 1..n \/ (grown /\ j = n + 1)
  BY <1>1, <1>2
<1>5. grown => n + 1 \in DOMAIN tokens' /\ n + 1 \notin 1..n
               /\ tokens'[n + 1].from = i /\ tokens'[n + 1].uses = 0 /\ i \in 0..n
               /\ ~tokens'[n + 1].spent /\ ~tokens'[n + 1].revoked
               /\ password[tokens'[n + 1].user] # NoAccount
  BY <1>1, <1>2
<1>6. \A j \in 1..n : tokens'[j].kind = tokens[j].kind /\ tokens'[j].user = tokens[j].user
                      /\ tokens'[j].from = tokens[j].from
                      /\ tokens'[j].uses = IF j = i THEN tokens[j].uses + 1 ELSE tokens[j].uses
  BY <1>1
<1>7. \A j \in 1..n : tokens'[j].spent <=> tokens'[j].uses > 0 \/ tokens'[j].revoked
  BY <1>1
<1>8. i # 0 => i \in 1..n
  BY <1>1
<1>9. HoldersFit'
  <2>1. \A j \in DOMAIN tokens : j \in DOMAIN tokens' /\ tokens'[j].kind = tokens[j].kind
    BY <1>1, <1>3
  <2>2. req' \in {req, [req EXCEPT ![r] = q]}
    OBVIOUS
  <2>3. QED
    BY <2>1, <2>2, HoldersKept
<1> HIDE DEF n
<1>10. TokenTypes'
  <2>1. ASSUME NEW j \in DOMAIN tokens'
        PROVE  /\ tokens'[j].from \in 0..(j - 1)
               /\ tokens'[j].from # 0 => /\ tokens'[tokens'[j].from].kind = "refresh"
                                         /\ tokens'[tokens'[j].from].user = tokens'[j].user
    <3>1. CASE j \in 1..n
      <4>1. tokens'[j].from = tokens[j].from /\ tokens[j].from \in 0..(j - 1)
        BY <1>1, <1>6, <3>1
      <4>2. tokens[j].from # 0 => tokens[j].from \in 1..n
        BY <1>1, <3>1, <4>1
      <4>3. tokens[j].from # 0 => tokens[tokens[j].from].kind = "refresh"
                                  /\ tokens[tokens[j].from].user = tokens[j].user
        BY <1>1, <3>1 DEF AInv, TokenInv, TokenTypes
      <4>4. QED
        BY <1>6, <3>1, <4>1, <4>2, <4>3, SMTT(20)
    <3>2. CASE grown /\ j = n + 1
      <4>1. tokens'[j].from = i /\ i \in 0..(j - 1)
        BY <1>1, <1>5, <3>2
      <4>2. i # 0 => tokens[i].kind = "refresh" /\ tokens[i].user = tokens'[j].user
        BY <3>2 DEF n
      <4>3. QED
        BY <1>6, <1>8, <4>1, <4>2
    <3>3. QED
      BY <1>4, <3>1, <3>2
  <2>2. tokens' \in Seq(Row)
    OBVIOUS
  <2>3. (tokens \in Seq(Row))'
    BY <2>2 DEF Row, Kinds
  <2>4. (verified \subseteq Users)'
    OBVIOUS
  <2>5. QED
    BY <2>1, <2>3, <2>4 DEF TokenTypes
<1>11. TokensHaveUsers'
  <2> SUFFICES ASSUME NEW u \in Users, password'[u] = NoAccount
               PROVE  u \notin verified' /\ \A j \in DOMAIN tokens' : tokens'[j].user # u
    BY DEF TokensHaveUsers, NoAccount
  <2>1. password[u] = NoAccount
    OBVIOUS
  <2>2. u \notin verified /\ \A j \in 1..n : tokens[j].user # u
    <3>1. \A v \in Users : password[v] = NoAccount =>
              v \notin verified /\ \A j \in DOMAIN tokens : tokens[j].user # v
      BY DEF AInv, TokenInv, TokensHaveUsers
    <3>2. u \notin verified /\ \A j \in DOMAIN tokens : tokens[j].user # u
      BY <2>1, <3>1
    <3>3. QED
      BY <1>1, <3>2
  <2>3. u \notin verified'
    BY <2>1, <2>2
  <2>4. \A j \in DOMAIN tokens' : tokens'[j].user # u
    BY <1>4, <1>5, <1>6, <2>1, <2>2
  <2>5. QED
    BY <2>3, <2>4
<1>12. \A k \in 1..n : Successors(k)' = IF grown /\ k = i THEN Successors(k) \cup {n + 1} ELSE Successors(k)
  <2> SUFFICES ASSUME NEW k \in 1..n
               PROVE  {j \in DOMAIN tokens' : tokens'[j].from = k} =
                      IF grown /\ k = i THEN {j \in 1..n : tokens[j].from = k} \cup {n + 1}
                      ELSE {j \in 1..n : tokens[j].from = k}
    BY <1>1 DEF Successors
  <2>1. \A j \in 1..n : tokens'[j].from = tokens[j].from /\ j \in DOMAIN tokens'
    BY <1>3, <1>6
  <2>2. CASE grown
    BY <1>4, <1>5, <2>1, <2>2
  <2>3. CASE ~grown
    BY <1>4, <2>1, <2>3
  <2>4. QED
    BY <2>2, <2>3
<1>13. ASSUME NEW k, grown, k = n + 1 PROVE Successors(k)' = {}
  <2> SUFFICES {j \in DOMAIN tokens' : tokens'[j].from = n + 1} = {}
    BY <1>13 DEF Successors
  <2>1. \A j \in 1..n : tokens'[j].from # n + 1
    BY <1>1, <1>6
  <2>2. tokens'[n + 1].from # n + 1
    BY <1>1, <1>5, <1>13
  <2>3. QED
    BY <1>4, <2>1, <2>2
<1>14. \A k \in 1..n : IsFiniteSet(Successors(k)) /\ n + 1 \notin Successors(k)
                       /\ Cardinality(Successors(k)) \in Nat
                       /\ (tokens[k].kind = "refresh" => tokens[k].uses = Cardinality(Successors(k)))
  <2> SUFFICES ASSUME NEW k \in 1..n
               PROVE  IsFiniteSet(Successors(k)) /\ n + 1 \notin Successors(k)
                      /\ Cardinality(Successors(k)) \in Nat
                      /\ (tokens[k].kind = "refresh" => tokens[k].uses = Cardinality(Successors(k)))
    OBVIOUS
  <2>1. IsFiniteSet(1..n)
    BY <1>1, FS_Interval
  <2>2. Successors(k) \subseteq 1..n
    BY <1>1 DEF Successors
  <2>3. IsFiniteSet(Successors(k)) /\ Cardinality(Successors(k)) \in Nat
    BY <2>1, <2>2, FS_Subset, FS_CardinalityType
  <2>4. tokens[k].kind = "refresh" => tokens[k].uses = Cardinality(Successors(k))
    <3>1. \A j \in DOMAIN tokens : tokens[j].kind = "refresh" =>
              tokens[j].uses = Cardinality({l \in DOMAIN tokens : tokens[l].from = j})
      BY DEF AInv, TokenInv, SpentMeansServed
    <3>2. tokens[k].kind = "refresh" =>
              tokens[k].uses = Cardinality({l \in DOMAIN tokens : tokens[l].from = k})
      BY <1>1, <3>1, ZenonT(30)
    <3>3. QED
      BY <3>2 DEF Successors
  <2>5. n + 1 \notin Successors(k)
    BY <1>1, <2>2
  <2>6. QED
    BY <2>3, <2>4, <2>5
<1>15. ASSUME NEW k \in DOMAIN tokens', tokens'[k].kind = "refresh"
       PROVE  tokens'[k].uses = Cardinality(Successors(k)')
  <2>1. CASE grown /\ k = n + 1
    BY <1>5, <1>13, <2>1, FS_EmptySet
  <2>2. CASE k \in 1..n /\ grown /\ k = i
    <3>1. Successors(k)' = Successors(k) \cup {n + 1}
      BY <1>12, <2>2
    <3>2. Cardinality(Successors(k) \cup {n + 1}) = Cardinality(Successors(k)) + 1
      BY <1>14, <2>2, FS_AddElement, ZenonT(30)
    <3>3. tokens'[k].uses = tokens[k].uses + 1 /\ tokens[k].uses = Cardinality(Successors(k))
      BY <1>6, <1>14, <1>15, <2>2
    <3>4. QED
      BY <3>1, <3>2, <3>3
  <2>3. CASE k \in 1..n /\ ~(grown /\ k = i)
    <3>1. Successors(k)' = Successors(k)
      BY <1>12, <2>3
    <3>2. tokens'[k].kind = tokens[k].kind /\ k # 0
      BY <1>1, <1>6, <2>3
    <3>3. k # i
      BY <1>15, <2>3, <3>2
    <3>4. tokens'[k].uses = tokens[k].uses
      BY <1>6, <2>3, <3>3
    <3>5. QED
      BY <1>14, <1>15, <2>3, <3>1, <3>2, <3>4
  <2>4. QED
    BY <1>4, <2>1, <2>2, <2>3
<1>16. SpentMeansServed'
  <2>1. \A k \in DOMAIN tokens' :
          tokens'[k].spent <=> tokens'[k].uses > 0 \/ tokens'[k].revoked
    BY <1>4, <1>5, <1>7
  <2>2. (\A k \in DOMAIN tokens : tokens[k].kind = "refresh" =>
            tokens[k].uses = Cardinality({j \in DOMAIN tokens : tokens[j].from = k}))'
    BY <1>15 DEF Successors
  <2>3. ASSUME NEW u \in Users, password'[u] \in Passwords
        PROVE  u \in verified' <=>
               \E k \in DOMAIN tokens' :
                  tokens'[k].kind = "verify" /\ tokens'[k].user = u /\ tokens'[k].uses > 0
    <3>1. u \in verified <=> \E k \in 1..n :
                  tokens[k].kind = "verify" /\ tokens[k].user = u /\ tokens[k].uses > 0
      BY <1>1, <2>3 DEF AInv, TokenInv, SpentMeansServed, Accounts
    <3>2. u \in verified' <=>
             u \in verified \/ (i # 0 /\ tokens[i].kind = "verify" /\ tokens[i].user = u)
      BY <2>3
    <3>3. \A k \in 1..n : tokens'[k].uses > 0 <=> tokens[k].uses > 0 \/ k = i
      BY <1>1, <1>6
    <3>4. grown => ~(tokens'[n + 1].uses > 0)
      BY <1>5
    <3>5. (\E k \in DOMAIN tokens' :
              tokens'[k].kind = "verify" /\ tokens'[k].user = u /\ tokens'[k].uses > 0)
          <=> \E k \in 1..n : tokens[k].kind = "verify" /\ tokens[k].user = u
                              /\ (tokens[k].uses > 0 \/ k = i)
      BY <1>3, <1>4, <1>6, <3>3, <3>4
    <3>6. QED
      BY <1>1, <1>8, <3>1, <3>2, <3>5
  <2>4. (\A u \in Accounts : u \in verified <=> \E k \in DOMAIN tokens :
            tokens[k].kind = "verify" /\ tokens[k].user = u /\ tokens[k].uses > 0)'
    BY <2>3 DEF Accounts
  <2>5. QED
    BY <2>1, <2>2, <2>4 DEF SpentMeansServed
<1>17. OverlapFits'
  <2> SUFFICES ASSUME NEW k \in DOMAIN tokens'
               PROVE  tokens'[k].uses + Number(Held, {k}, Requests)' <= Cardinality(Requests)
    BY DEF OverlapFits
  <2>1. Number(Held, {k}, Requests)' \in Nat /\ Cardinality(Requests) \in Nat
        /\ Number(Held, {k}, Requests)' <= Cardinality(Requests)
    BY AuthAssumption, FS_Subset, FS_CardinalityType DEF Number
  <2>2. CASE grown /\ k = n + 1
    BY <1>5, <2>1, <2>2
  <2>3. CASE k \in 1..n
    <3>1. /\ tokens[k].uses + Number(Held, {k}, Requests) <= Cardinality(Requests)
          /\ tokens[k].uses \in Nat /\ k \in Nat \ {0}
      BY <1>1, <2>3 DEF AInv, TokenInv, OverlapFits
    <3>2. Number(Held, {k}, Requests) \in Nat
      BY HeldBound
    <3>3. CASE req' = req
      <4>1. Number(Held, {k}, Requests)' = Number(Held, {k}, Requests)
        BY <3>3 DEF Number, Held, Kinds
      <4>2. i = 0 \/ i # k
        <5>1. i # 0 => req' = [req EXCEPT ![r] = q] /\ req[r].pc \in Kinds /\ req' # req
          <6>1. req \in [Requests -> Request]
            BY DEF AInv, LoginInv, LoginTypes
          <6>2. QED
            BY <6>1
        <5>2. QED
          BY <3>3, <5>1
      <4>3. tokens'[k].uses = tokens[k].uses
        BY <1>6, <2>3, <3>1, <4>2
      <4>4. QED
        BY <3>1, <4>1, <4>3
    <3>4. CASE req' = [req EXCEPT ![r] = q]
      <4>1. /\ Number(Held, {k}, Requests)' <= Number(Held, {k}, Requests)
            /\ req[r].pc \in Kinds /\ req[r].token = k
               => Number(Held, {k}, Requests)' = Number(Held, {k}, Requests) - 1
        <5>1. LoginInv /\ k \in Nat \ {0} /\ ~(q.pc \in Kinds /\ q.token = k)
          BY <3>1 DEF AInv
        <5>2. \A j \in Nat \ {0} :
                  /\ Number(Held, {j}, Requests)' <= Number(Held, {j}, Requests)
                  /\ req[r].pc \in Kinds /\ req[r].token = j
                     => Number(Held, {j}, Requests)' = Number(Held, {j}, Requests) - 1
          BY <3>4, <5>1, HeldReleased
        <5>3. QED
          BY <5>1, <5>2
      <4>2. CASE k = i
        <5>1. req[r].pc \in Kinds /\ req[r].token = k
          BY <3>1, <4>2
        <5>2. tokens'[k].uses = tokens[k].uses + 1
          BY <1>6, <2>3, <4>2
        <5>3. QED
          BY <2>1, <3>1, <3>2, <4>1, <5>1, <5>2
      <4>3. CASE k # i
        <5>1. tokens'[k].uses = tokens[k].uses
          BY <1>6, <2>3, <4>3
        <5>2. QED
          BY <2>1, <3>1, <3>2, <4>1, <5>1
      <4>4. QED
        BY <4>2, <4>3
    <3>5. QED
      BY <3>3, <3>4
  <2>4. QED
    BY <1>4, <2>2, <2>3
<1>18. QED
  BY <1>9, <1>10, <1>11, <1>16, <1>17 DEF TokenInv

(* The steps of a login that write no token. *)
LEMMA QuietMove ==
    ASSUME AInv, UNCHANGED <<clock, password, verified, attempts, tokens>>,
           window' \in [Users -> [count : 0..(RateMax + 1), end : 0..(MaxClock + RateWindow)]],
           lockedUntil' \in [Users -> Nat],
           \A u \in Users : \/ lockedUntil'[u] \in {lockedUntil[u], Unlocked}
                            \/ lockedUntil'[u] \in Nat /\ Due(u, lockedUntil'[u]),
           NEW r \in Requests, NEW q \in Request, req' = [req EXCEPT ![r] = q],
           q.pc = "purge" => q.seen < clock,
           q.pc = "lock" => \E t \in 0..clock : Earned(q.user, t),
           q.pc = "upsert" => Due(q.user, q.seen),
           \/ req[r] = Idle /\ started < MaxRequests /\ started' = started + 1
           \/ started' = started /\ (q.pc \in Unrecorded => req[r].pc \in Unrecorded),
           q.pc \in {"verification", "success", "clear", "issue"} => password[q.user] # NoAccount,
           q.pc \notin Kinds
    PROVE  AInv'
<1>1. password' \in [Users -> Passwords \cup {NoAccount, Deleted}]
  BY DEF AInv, LoginInv, LoginTypes
<1>2. LoginInv'
  BY <1>1, LoginSideQuiet DEF AInv
<1>3. TokenInv'
  BY <1>1, TokenSideQuiet
<1>4. QED
  BY <1>2, <1>3 DEF AInv

\* What the types say, in the form the steps use.
LEMMA Typed ==
    ASSUME AInv
    PROVE  /\ clock \in Nat /\ clock \in 0..MaxClock /\ MaxClock \in Nat
           /\ password \in [Users -> Passwords \cup {NoAccount, Deleted}]
           /\ window \in [Users -> [count : 0..(RateMax + 1), end : 0..(MaxClock + RateWindow)]]
           /\ lockedUntil \in [Users -> Nat]
           /\ started \in 0..MaxRequests /\ MaxRequests \in Nat
           /\ req \in [Requests -> Request]
BY AuthAssumption DEF AInv, LoginInv, LoginTypes

LEMMA LoginStep ==
    ASSUME AInv, NEW r \in Requests, NEW u \in Users, NEW pw \in Passwords, Login(r, u, pw)
    PROVE  AInv'
<1>1. /\ req[r] = Idle /\ started < MaxRequests /\ started' = started + 1
      /\ UNCHANGED <<clock, password, verified, attempts, lockedUntil, tokens>>
  BY DEF Login, Begin
<1>2. window' \in [Users -> [count : 0..(RateMax + 1), end : 0..(MaxClock + RateWindow)]]
  <2>1. window[u] \in [count : 0..(RateMax + 1), end : 0..(MaxClock + RateWindow)]
    BY Typed
  <2>2. RateMax \in Nat /\ RateWindow \in Nat /\ RateMax + 1 \in Nat
    BY AuthAssumption
  <2>3. Min2(window[u].count + 1, RateMax + 1) \in 0..(RateMax + 1)
    <3>1. window[u].count + 1 \in Nat
      BY <2>1, <2>2
    <3>2. QED
      BY <2>2, <3>1, MinOfTwo
  <2>4. clock + RateWindow \in 0..(MaxClock + RateWindow) /\ 1 \in 0..(RateMax + 1)
    BY <2>2, Typed
  <2>5. \/ window' = [window EXCEPT ![u] = [count |-> 1, end |-> clock + RateWindow]]
        \/ window' = [window EXCEPT ![u] = [window[u] EXCEPT !.count = Min2(window[u].count + 1, RateMax + 1)]]
    <3>1. Allow(u)
      BY DEF Login
    <3>2. CASE clock > window[u].end \/ window[u].count = 0
      BY <3>1, <3>2 DEF Allow
    <3>3. CASE ~(clock > window[u].end \/ window[u].count = 0)
      BY <3>1, <3>3 DEF Allow
    <3>4. QED
      BY <3>2, <3>3
  <2>6. [window[u] EXCEPT !.count = Min2(window[u].count + 1, RateMax + 1)]
           \in [count : 0..(RateMax + 1), end : 0..(MaxClock + RateWindow)]
    BY <2>1, <2>3
  <2>7. [count |-> 1, end |-> clock + RateWindow]
           \in [count : 0..(RateMax + 1), end : 0..(MaxClock + RateWindow)]
    BY <2>4
  <2>8. QED
    BY <2>5, <2>6, <2>7, Typed
<1>3. ASSUME NEW q \in Request, req' = [req EXCEPT ![r] = q], q.pc \in {"idle", "isLocked"}
      PROVE  AInv'
  <2>1. q.pc \notin Kinds
    BY <1>3 DEF Kinds
  <2>2. QED
    BY <1>1, <1>2, <1>3, <2>1, QuietMove, Typed
<1>4. CASE UNCHANGED req
  <2>1. req' = [req EXCEPT ![r] = Idle]
    BY <1>1, <1>4, Typed
  <2>2. QED
    BY <1>3, <2>1, IdleIsRequest
<1>5. CASE req' = [req EXCEPT ![r] = [pc |-> "isLocked", user |-> u, pw |-> pw, seen |-> Unlocked]]
  <2>1. [pc |-> "isLocked", user |-> u, pw |-> pw, seen |-> Unlocked] \in Request
    BY DEF Request, LoginSteps, Unlocked
  <2>2. QED
    BY <1>3, <1>5, <2>1
<1>6. QED
  BY <1>4, <1>5 DEF Login

\* A login that only moves on, or ends.
LEMMA LoginMoves ==
    ASSUME AInv, UNCHANGED <<clock, password, verified, window, attempts, tokens, started>>,
           lockedUntil' \in [Users -> Nat],
           \A u \in Users : \/ lockedUntil'[u] \in {lockedUntil[u], Unlocked}
                            \/ lockedUntil'[u] \in Nat /\ Due(u, lockedUntil'[u]),
           NEW r \in Requests, req[r].pc \in LoginSteps \ {"issue"}, NEW p \in LoginSteps,
           req' = [req EXCEPT ![r] = Idle] \/ req' = [req EXCEPT ![r].pc = p],
           p \notin {"purge", "upsert"},
           p = "lock" => \E t \in 0..clock : Earned(req[r].user, t),
           p \in Unrecorded => req[r].pc \in Unrecorded,
           p \in {"success", "clear", "issue"} => password[req[r].user] # NoAccount
    PROVE  AInv'
<1>1. window' \in [Users -> [count : 0..(RateMax + 1), end : 0..(MaxClock + RateWindow)]]
  BY Typed
<1>2. CASE req' = [req EXCEPT ![r] = Idle]
  <2>1. Idle \in Request /\ Idle.pc = "idle" /\ Idle.pc \notin Kinds /\ Idle.pc \notin Unrecorded
    BY IdleIsRequest DEF Kinds, Unrecorded
  <2>2. QED
    BY <1>1, <1>2, <2>1, QuietMove
<1>3. CASE req' = [req EXCEPT ![r].pc = p]
  <2> DEFINE q == [req[r] EXCEPT !.pc = p]
  <2>1. req[r] \in Request
    BY Typed
  <2>2. q \in Request /\ q = [pc |-> p, user |-> req[r].user, pw |-> req[r].pw, seen |-> req[r].seen]
    BY <2>1, LoginGoesOn
  <2>3. q.pc = p /\ q.user = req[r].user /\ p \notin Kinds
    BY <2>2 DEF LoginSteps, Kinds
  <2>4. req' = [req EXCEPT ![r] = q]
    BY <1>3
  <2> HIDE DEF q
  <2>5. q.pc \in {"verification", "success", "clear", "issue"} => password[q.user] # NoAccount
    BY <2>3 DEF LoginSteps
  <2>6. (q.pc = "purge" => q.seen < clock) /\ (q.pc = "lock" => \E t \in 0..clock : Earned(q.user, t))
        /\ (q.pc = "upsert" => Due(q.user, q.seen))
        /\ (q.pc \in Unrecorded => req[r].pc \in Unrecorded) /\ q.pc \notin Kinds
    BY <2>3
  <2>7. q \in Request
    BY <2>2
  <2>8. QED
    BY <1>1, <2>4, <2>5, <2>6, <2>7, QuietMove
<1>4. QED
  BY <1>2, <1>3

LEMMA IsLockedStep ==
    ASSUME AInv, NEW r \in Requests, IsLocked(r)
    PROVE  AInv'
<1>1. /\ req[r].pc = "isLocked" /\ UNCHANGED <<clock, password, verified, window, attempts, tokens, started>>
      /\ UNCHANGED lockedUntil
  BY DEF IsLocked, loginVars
<1>2. req[r] \in Request /\ req[r].user \in Users /\ lockedUntil[req[r].user] \in Nat
  BY <1>1, RequestShape, Typed
<1>3. /\ lockedUntil' \in [Users -> Nat]
      /\ \A u \in Users : \/ lockedUntil'[u] \in {lockedUntil[u], Unlocked}
                          \/ lockedUntil'[u] \in Nat /\ Due(u, lockedUntil'[u])
  BY <1>1, Typed
<1>4. CASE req' = [req EXCEPT ![r] = Idle] \/ req' = [req EXCEPT ![r].pc = "compare"]
  <2>1. "compare" \in LoginSteps /\ "compare" \in Unrecorded
    BY DEF LoginSteps, Unrecorded
  <2>2. req[r].pc \in LoginSteps \ {"issue"} /\ req[r].pc \in Unrecorded
    BY <1>1 DEF LoginSteps, Unrecorded
  <2>3. QED
    BY <1>1, <1>3, <1>4, <2>1, <2>2, LoginMoves
<1>5. ASSUME NEW until \in Nat, until < clock,
             req' = [req EXCEPT ![r].pc = "purge", ![r].seen = until]
      PROVE  AInv'
  <2> DEFINE q == [pc |-> "purge", user |-> req[r].user, pw |-> req[r].pw, seen |-> until]
  <2>1. req[r] = [pc |-> req[r].pc, user |-> req[r].user, pw |-> req[r].pw, seen |-> req[r].seen]
        /\ req[r].pw \in Passwords
    BY <1>1, <1>2, RequestShape
  <2>2. ASSUME NEW t, t = [req[r] EXCEPT !.pc = "purge", !.seen = until]
        PROVE  t = q
    BY <2>1, <2>2
  <2>3. req' = [req EXCEPT ![r] = q]
    <3>1. req' = [req EXCEPT ![r] = [req[r] EXCEPT !.pc = "purge", !.seen = until]]
      BY <1>5
    <3>2. QED
      BY <2>2, <3>1
  <2>4. q \in Request
    BY <1>2, <2>1 DEF Request, LoginSteps
  <2>5. q.pc = "purge" /\ q.seen = until /\ q.pc \notin Kinds
    BY DEF Kinds
  <2>6. req[r].pc \in Unrecorded
    BY <1>1 DEF Unrecorded
  <2> HIDE DEF q
  <2>7. window' \in [Users -> [count : 0..(RateMax + 1), end : 0..(MaxClock + RateWindow)]]
    BY <1>1, Typed
  <2>8. QED
    BY <1>1, <1>3, <1>5, <2>3, <2>4, <2>5, <2>6, <2>7, QuietMove
<1>6. \/ req' = [req EXCEPT ![r] = Idle] \/ req' = [req EXCEPT ![r].pc = "compare"]
      \/ lockedUntil[req[r].user] < clock
         /\ req' = [req EXCEPT ![r].pc = "purge", ![r].seen = lockedUntil[req[r].user]]
  BY <1>2, Typed DEF IsLocked, Goto, Finish
<1>7. QED
  BY <1>2, <1>4, <1>5, <1>6

LEMMA PurgeLockStep ==
    ASSUME AInv, NEW r \in Requests, PurgeLock(r)
    PROVE  AInv'
<1>1. /\ req[r].pc = "purge" /\ UNCHANGED <<clock, password, verified, window, attempts, tokens, started>>
      /\ req' = [req EXCEPT ![r].pc = "compare"]
      /\ lockedUntil' = [lockedUntil EXCEPT ![req[r].user] =
                            IF @ = req[r].seen THEN Unlocked ELSE @]
  BY DEF PurgeLock, Goto
<1>2. lockedUntil' \in [Users -> Nat] /\ \A u \in Users : lockedUntil'[u] \in {lockedUntil[u], Unlocked}
  BY <1>1, Typed DEF Unlocked
<1>3. /\ "compare" \in LoginSteps /\ "compare" \in Unrecorded
      /\ req[r].pc \in LoginSteps \ {"issue"} /\ req[r].pc \in Unrecorded
  BY <1>1 DEF LoginSteps, Unrecorded
<1>4. QED
  BY <1>1, <1>2, <1>3, LoginMoves

LEMMA CompareStep ==
    ASSUME AInv, NEW r \in Requests, Compare(r)
    PROVE  AInv'
<1> DEFINE p == IF password[req[r].user] = req[r].pw THEN "success" ELSE "failure"
<1>1. /\ req[r].pc = "compare" /\ UNCHANGED <<clock, password, verified, window, attempts, tokens, started>>
      /\ UNCHANGED lockedUntil /\ req' = [req EXCEPT ![r].pc = p]
  BY DEF Compare, Goto, loginVars
<1>2. lockedUntil' \in [Users -> Nat] /\ \A u \in Users : lockedUntil'[u] \in {lockedUntil[u], Unlocked}
  BY <1>1, Typed DEF Unlocked
<1>3. /\ p \in LoginSteps /\ p \in Unrecorded /\ p \notin {"purge", "upsert", "lock"}
      /\ req[r].pc \in LoginSteps \ {"issue"} /\ req[r].pc \in Unrecorded
  BY <1>1 DEF LoginSteps, Unrecorded
<1>4. p = "success" => password[req[r].user] # NoAccount
  <2>1. req[r].pw \in Passwords
    BY <1>1, RequestShape, Typed
  <2>2. NoAccount \notin Passwords
    BY AuthAssumption
  <2>3. QED
    BY <2>1, <2>2
<1>5. p \notin {"clear", "issue"}
  OBVIOUS
<1> HIDE DEF p
<1>6. QED
  BY <1>1, <1>2, <1>3, <1>4, <1>5, LoginMoves

LEMMA CountFailuresStep ==
    ASSUME AInv, NEW r \in Requests, CountFailures(r)
    PROVE  AInv'
<1>1. /\ req[r].pc = "count" /\ UNCHANGED <<clock, password, verified, window, attempts, tokens, started>>
      /\ UNCHANGED lockedUntil
  BY DEF CountFailures, loginVars
<1>2. lockedUntil' \in [Users -> Nat] /\ \A u \in Users : lockedUntil'[u] \in {lockedUntil[u], Unlocked}
  BY <1>1, Typed DEF Unlocked
<1>3. /\ "lock" \in LoginSteps /\ "lock" \notin Unrecorded /\ req[r].pc \in LoginSteps \ {"issue"}
      /\ "count" \in LoginSteps /\ "count" \notin Unrecorded
  BY <1>1 DEF LoginSteps, Unrecorded
<1>4. CASE req' = [req EXCEPT ![r] = Idle]
  BY <1>1, <1>2, <1>3, <1>4, LoginMoves
<1>5. CASE Cardinality(RecentFailures(req[r].user)) >= Threshold /\ req' = [req EXCEPT ![r].pc = "lock"]
  <2>1. RecentFailures(req[r].user) = FailuresAt(req[r].user, clock)
    <3>1. \A a \in attempts : a.at \in 0..clock
      <4>1. \A a \in attempts : a.at \in 0..MaxClock /\ a.at <= clock
        BY DEF AInv, LoginInv, LoginTypes, AttemptsFit
      <4>2. QED
        BY <4>1, Typed
    <3>2. \A a \in attempts : a.at + Window >= clock <=> clock <= a.at + Window
      BY <3>1, AuthAssumption, Typed
    <3>3. QED
      BY <3>1, <3>2 DEF RecentFailures, FailuresAt
  <2>2. Earned(req[r].user, clock) /\ clock \in 0..clock
    BY <1>5, <2>1, Typed DEF Earned
  <2>3. QED
    BY <1>1, <1>2, <1>3, <1>5, <2>2, LoginMoves
<1>6. QED
  BY <1>4, <1>5 DEF CountFailures, Finish, Goto

LEMMA LockUntilStep ==
    ASSUME AInv, NEW r \in Requests, LockUntil(r)
    PROVE  AInv'
<1> DEFINE until == clock + LockDuration
           q == [pc |-> "upsert", user |-> req[r].user, pw |-> req[r].pw, seen |-> until]
<1>1. /\ req[r].pc = "lock" /\ UNCHANGED <<clock, password, verified, window, attempts, tokens, started>>
      /\ UNCHANGED lockedUntil
      /\ req' = [req EXCEPT ![r].pc = "upsert", ![r].seen = until]
  BY DEF LockUntil, loginVars
<1>2. /\ req[r] = [pc |-> req[r].pc, user |-> req[r].user, pw |-> req[r].pw, seen |-> req[r].seen]
      /\ req[r].user \in Users /\ req[r].pw \in Passwords
  BY <1>1, RequestShape, Typed
<1>3. until \in Nat
  BY AuthAssumption, Typed
<1>4. ASSUME NEW t, t = [req[r] EXCEPT !.pc = "upsert", !.seen = until]
      PROVE  t = q
  BY <1>2, <1>4
<1>5. req' = [req EXCEPT ![r] = q]
  <2>1. req' = [req EXCEPT ![r] = [req[r] EXCEPT !.pc = "upsert", !.seen = until]]
    BY <1>1
  <2>2. QED
    BY <1>4, <2>1
<1>6. q \in Request
  BY <1>2, <1>3 DEF Request, LoginSteps
<1>7. q.pc = "upsert" /\ q.pc \notin Kinds /\ q.pc \notin Unrecorded
  BY DEF Kinds, Unrecorded
<1>8. Due(q.user, q.seen)
  <2>1. PICK t \in 0..clock : Earned(req[r].user, t)
    BY <1>1 DEF AInv, LoginInv, LoginsFit
  <2>2. t + LockDuration <= until /\ until <= clock + LockDuration
    <3>1. LockDuration \in Nat
      BY AuthAssumption
    <3>2. QED
      BY <3>1, Typed
  <2>3. Due(req[r].user, until)
    BY <2>1, <2>2 DEF Due
  <2>4. QED
    BY <2>3
<1> HIDE DEF q
<1>9. /\ window' \in [Users -> [count : 0..(RateMax + 1), end : 0..(MaxClock + RateWindow)]]
      /\ lockedUntil' \in [Users -> Nat] /\ \A u \in Users : lockedUntil'[u] \in {lockedUntil[u], Unlocked}
  BY <1>1, Typed
<1>10. QED
  BY <1>1, <1>5, <1>6, <1>7, <1>8, <1>9, QuietMove

LEMMA LockAccountStep ==
    ASSUME AInv, NEW r \in Requests, LockAccount(r)
    PROVE  AInv'
<1>1. /\ req[r].pc = "upsert" /\ UNCHANGED <<clock, password, verified, window, attempts, tokens, started>>
      /\ \/ lockedUntil' = [lockedUntil EXCEPT ![req[r].user] = req[r].seen]
         \/ lockedUntil' = lockedUntil
      /\ req' = [req EXCEPT ![r] = Idle]
  BY DEF LockAccount, Finish
<1>2. req[r].seen \in Nat /\ Due(req[r].user, req[r].seen)
  BY <1>1, RequestShape, Typed DEF AInv, LoginInv, LoginsFit
<1>3. lockedUntil' \in [Users -> Nat]
  BY <1>1, <1>2, Typed
<1>4. \A u \in Users : \/ lockedUntil'[u] \in {lockedUntil[u], Unlocked}
                       \/ lockedUntil'[u] \in Nat /\ Due(u, lockedUntil'[u])
  <2> SUFFICES ASSUME NEW u \in Users
               PROVE  \/ lockedUntil'[u] = lockedUntil[u]
                      \/ u = req[r].user /\ lockedUntil'[u] = req[r].seen
    BY <1>2
  <2>1. QED
    BY <1>1, Typed
<1>5. /\ "count" \notin {"purge", "upsert", "lock"} /\ "count" \notin {"success", "clear", "issue"}
      /\ "count" \in LoginSteps /\ "count" \notin Unrecorded /\ req[r].pc \in LoginSteps \ {"issue"}
  BY <1>1 DEF LoginSteps, Unrecorded
<1>6. /\ UNCHANGED <<clock, password, verified, window, attempts, tokens, started>>
      /\ req' = [req EXCEPT ![r] = Idle] \/ req' = [req EXCEPT ![r].pc = "count"]
  BY <1>1
<1>7. QED
  BY <1>3, <1>4, <1>5, <1>6, LoginMoves, ZenonT(30)

LEMMA ClearLockoutStep ==
    ASSUME AInv, NEW r \in Requests, ClearLockout(r)
    PROVE  AInv'
<1>1. /\ req[r].pc = "clear" /\ UNCHANGED <<clock, password, verified, window, attempts, tokens, started>>
      /\ lockedUntil' = [lockedUntil EXCEPT ![req[r].user] = Unlocked] \/ UNCHANGED lockedUntil
      /\ req' = [req EXCEPT ![r].pc = "issue"]
  BY DEF ClearLockout, Goto
<1>2. lockedUntil' \in [Users -> Nat] /\ \A u \in Users : lockedUntil'[u] \in {lockedUntil[u], Unlocked}
  BY <1>1, Typed DEF Unlocked
<1>3. "issue" \in LoginSteps /\ "issue" \notin Unrecorded /\ req[r].pc \in LoginSteps \ {"issue"}
  BY <1>1 DEF LoginSteps, Unrecorded
<1>4. password[req[r].user] # NoAccount
  BY <1>1 DEF AInv, TokenInv, HoldersFit
<1>5. QED
  BY <1>1, <1>2, <1>3, <1>4, LoginMoves

\* An attempt is recorded by a request that has not recorded one.
LEMMA RecordLoginAttemptStep ==
    ASSUME AInv, NEW r \in Requests, RecordLoginAttempt(r)
    PROVE  AInv'
<1> DEFINE p == IF req[r].pc = "success" THEN "clear" ELSE "count"
           q == [req[r] EXCEPT !.pc = p]
           x == Attempt(r, req[r].pc = "success")
           open == Number(Pcs, Unrecorded, Requests)
<1>1. /\ req[r].pc \in {"success", "failure"}
      /\ UNCHANGED <<clock, password, verified, window, lockedUntil, tokens, started>>
      /\ req' = [req EXCEPT ![r] = q]
      /\ attempts' = attempts \cup {x} \/ attempts' = attempts
  BY DEF RecordLoginAttempt, Goto
<1>2. req[r] \in Request /\ req[r].user \in Users
  BY <1>1, RequestShape, Typed
<1>3. q \in Request /\ q.pc = p /\ q.user = req[r].user
  <2>1. req[r].pc \in LoginSteps \ {"issue"} /\ p \in LoginSteps
    BY <1>1 DEF LoginSteps
  <2>2. [req[r] EXCEPT !.pc = p] = [pc |-> p, user |-> req[r].user, pw |-> req[r].pw, seen |-> req[r].seen]
        /\ [req[r] EXCEPT !.pc = p] \in Request
    BY <1>2, <2>1, LoginGoesOn
  <2>3. QED
    BY <2>2
<1>4. p \notin Unrecorded /\ req[r].pc \in Unrecorded /\ p \notin Kinds /\ p \notin {"purge", "upsert", "lock"}
  BY <1>1 DEF Unrecorded, Kinds
<1>5. p \in {"verification", "success", "clear", "issue"} => password[q.user] # NoAccount
  BY <1>1, <1>3 DEF AInv, TokenInv, HoldersFit
<1> HIDE DEF p, q
<1>6. open' < open /\ open' \in Nat /\ open \in Nat
  <2>1. LoginInv /\ (q.pc \in Unrecorded => req[r].pc \in Unrecorded)
    BY <1>4 DEF AInv
  <2>2. /\ Number(Pcs, Unrecorded, Requests)' \in Nat /\ Number(Pcs, Unrecorded, Requests) \in Nat
        /\ req[r].pc \in Unrecorded /\ q.pc \notin Unrecorded
              => Number(Pcs, Unrecorded, Requests)' < Number(Pcs, Unrecorded, Requests)
    BY <1>1, <2>1, UnrecordedFit
  <2>3. QED
    BY <1>3, <1>4, <2>2
<1>7. /\ IsFiniteSet(attempts) /\ Cardinality(attempts) \in Nat
      /\ Cardinality(attempts) + open <= started
      /\ attempts \subseteq [id : 1..MaxRequests, user : Users, at : 0..MaxClock, success : BOOLEAN]
  BY FS_CardinalityType DEF AInv, LoginInv, AttemptsFit, LoginTypes
<1> HIDE DEF open
<1>8. x \in [id : 1..MaxRequests, user : Users, at : 0..MaxClock, success : BOOLEAN] /\ x.at = clock
  <2> DEFINE same == {a \in attempts : a.user = req[r].user /\ a.at = clock
                                       /\ a.success = (req[r].pc = "success")}
  <2>1. same \subseteq attempts
    OBVIOUS
  <2>2. x = [id |-> Cardinality(same) + 1, user |-> req[r].user, at |-> clock,
             success |-> req[r].pc = "success"]
    BY DEF Attempt
  <2> HIDE DEF same, x
  <2>3. Cardinality(same) \in Nat /\ Cardinality(same) <= Cardinality(attempts)
    BY <1>7, <2>1, FS_Subset, FS_CardinalityType
  <2>4. Cardinality(same) + 1 \in 1..MaxRequests
    BY <1>6, <1>7, <2>3, Typed
  <2>5. clock \in 0..MaxClock /\ (req[r].pc = "success") \in BOOLEAN
    BY Typed
  <2>6. QED
    BY <1>2, <2>2, <2>4, <2>5
<1> HIDE DEF x
<1>9. attempts \subseteq attempts' /\ \A a \in attempts' \ attempts : a.at = clock
  BY <1>1, <1>8
<1>10. attempts' \subseteq [id : 1..MaxRequests, user : Users, at : 0..MaxClock, success : BOOLEAN]
  BY <1>1, <1>7, <1>8
<1>11. IsFiniteSet(attempts') /\ Cardinality(attempts') <= Cardinality(attempts) + 1
       /\ Cardinality(attempts') \in Nat
  <2>1. IsFiniteSet(attempts \cup {x}) /\ Cardinality(attempts \cup {x}) <= Cardinality(attempts) + 1
    <3>1. IsFiniteSet(attempts)
      BY <1>7
    <3>2. /\ IsFiniteSet(attempts \cup {x})
          /\ Cardinality(attempts \cup {x}) =
                IF x \in attempts THEN Cardinality(attempts) ELSE Cardinality(attempts) + 1
      BY <3>1, FS_AddElement, Zenon
    <3>3. QED
      BY <1>7, <3>2
  <2>2. IsFiniteSet(attempts') /\ Cardinality(attempts') <= Cardinality(attempts) + 1
    <3>1. CASE attempts' = attempts \cup {x}
      BY <2>1, <3>1
    <3>2. CASE attempts' = attempts
      <4>1. Cardinality(attempts') = Cardinality(attempts) /\ IsFiniteSet(attempts')
        BY <1>7, <3>2
      <4>2. QED
        BY <1>7, <4>1
    <3>3. QED
      BY <1>1, <3>1, <3>2
  <2>3. Cardinality(attempts') \in Nat
    BY <2>2, FS_CardinalityType
  <2>4. QED
    BY <2>2, <2>3
<1>12. Cardinality(attempts') + Number(Pcs, Unrecorded, Requests)' <= started'
  <2>1. Cardinality(attempts') + open' <= started'
    BY <1>1, <1>6, <1>7, <1>11, Typed
  <2>2. QED
    BY <2>1 DEF open
<1>13. LoginInv'
  <2>1. LoginInv /\ req' \in {req, [req EXCEPT ![r] = q]} /\ q.pc \notin {"purge", "upsert", "lock"}
    BY <1>1, <1>3, <1>4 DEF AInv
  <2>2. /\ lockedUntil' \in [Users -> Nat] /\ started' \in 0..MaxRequests
        /\ password' \in [Users -> Passwords \cup {NoAccount, Deleted}]
        /\ window' \in [Users -> [count : 0..(RateMax + 1), end : 0..(MaxClock + RateWindow)]]
        /\ \A u \in Users : lockedUntil'[u] \in {lockedUntil[u], Unlocked}
    BY <1>1, Typed
  <2>3. QED
    BY <1>1, <1>3, <1>9, <1>10, <1>11, <1>12, <2>1, <2>2, LoginSide
<1>14. TokenInv'
  <2>1. password' \in [Users -> Passwords \cup {NoAccount, Deleted}]
    BY <1>1, Typed
  <2>2. q.pc \notin Kinds /\ q.pc = p
    BY <1>3, <1>4
  <2>3. QED
    BY <1>1, <1>3, <1>5, <2>1, <2>2, TokenSideQuiet
<1>15. QED
  BY <1>13, <1>14 DEF AInv

(* The steps that write a token. *)
LEMMA FreshToken ==
    ASSUME AInv, NEW kind \in Kinds, NEW u \in Users, NEW parent \in Nat
    PROVE  /\ Token(kind, u, parent) \in Row
           /\ Token(kind, u, parent).kind = kind /\ Token(kind, u, parent).user = u
           /\ Token(kind, u, parent).from = parent /\ Token(kind, u, parent).uses = 0
           /\ ~Token(kind, u, parent).spent /\ ~Token(kind, u, parent).revoked
<1>1. clock + TokenTTL \in Nat
  BY AuthAssumption, Typed
<1>2. QED
  BY <1>1 DEF Token, Row

LEMMA Appended ==
    ASSUME tokens \in Seq(Row), NEW new \in Row, tokens' = Append(tokens, new)
    PROVE  /\ tokens' \in Seq(Row) /\ Len(tokens') = Len(tokens) + 1
           /\ tokens'[Len(tokens) + 1] = new
           /\ \A j \in DOMAIN tokens : tokens'[j] = tokens[j]
OBVIOUS

LEMMA AppendedTo ==
    ASSUME NEW s \in Seq(Row), NEW new \in Row, tokens' = Append(s, new)
    PROVE  /\ tokens' \in Seq(Row) /\ Len(tokens') = Len(s) + 1
           /\ tokens'[Len(s) + 1] = new
           /\ \A j \in DOMAIN s : tokens'[j] = s[j]
OBVIOUS

LEMMA Issued ==
    ASSUME AInv, UNCHANGED <<clock, password, verified>>, NEW kind \in Kinds, NEW u \in Users,
           password[u] # NoAccount, Issue(kind, u) \/ UNCHANGED tokens,
           NEW r \in Requests, NEW q \in Request, q.pc \notin Kinds,
           req' \in {req, [req EXCEPT ![r] = q]},
           q.pc \in {"verification", "success", "clear", "issue"} => password[q.user] # NoAccount
    PROVE  TokenInv'
<1>1. /\ tokens \in Seq(Row) /\ Len(tokens) \in Nat /\ DOMAIN tokens = 1..Len(tokens)
      /\ \A j \in DOMAIN tokens :
            /\ tokens[j].uses \in Nat
            /\ tokens[j].spent <=> tokens[j].uses > 0 \/ tokens[j].revoked
      /\ verified \subseteq Users
  BY TokenRows DEF AInv, TokenInv, TokenTypes, SpentMeansServed
<1>2. CASE Issue(kind, u)
  <2> DEFINE new == Token(kind, u, 0)
  <2>1. /\ new \in Row /\ new.user = u /\ new.from = 0 /\ new.uses = 0
        /\ ~new.spent /\ ~new.revoked
    BY FreshToken
  <2>2. tokens' = Append(tokens, new)
    BY <1>2 DEF Issue
  <2> HIDE DEF new
  <2>3. /\ tokens' \in Seq(Row) /\ Len(tokens') = Len(tokens) + 1
        /\ tokens'[Len(tokens) + 1] = new
        /\ \A j \in DOMAIN tokens : tokens'[j] = tokens[j]
    <3>1. tokens \in Seq(Row) /\ new \in Row
      BY <1>1, <2>1
    <3>2. QED
      BY <2>2, <3>1, Appended
  <2>4. \A j \in DOMAIN tokens :
              /\ tokens'[j].kind = tokens[j].kind /\ tokens'[j].user = tokens[j].user
              /\ tokens'[j].from = tokens[j].from
              /\ tokens'[j].uses = IF j = 0 THEN tokens[j].uses + 1 ELSE tokens[j].uses
              /\ tokens'[j].spent <=> tokens'[j].uses > 0 \/ tokens'[j].revoked
    BY <1>1, <2>3
  <2>5. LET t == tokens'[Len(tokens) + 1]
        IN t.uses = 0 /\ ~t.spent /\ ~t.revoked /\ t.from = 0 /\ password[t.user] # NoAccount
    BY <2>1, <2>3
  <2>6. Len(tokens') = IF TRUE THEN Len(tokens) + 1 ELSE Len(tokens)
    BY <2>3
  <2> QED
    BY <1>1, <2>3, <2>4, <2>5, <2>6, TokensWritten
<1>3. CASE UNCHANGED tokens
  <2>1. password' \in [Users -> Passwords \cup {NoAccount, Deleted}]
    BY Typed
  <2>2. req' = req \/ (r \in Requests /\ req' = [req EXCEPT ![r] = q])
    OBVIOUS
  <2>3. QED
    BY <1>3, <2>1, <2>2, TokenSideQuiet
<1>4. QED
  BY <1>2, <1>3

LEMMA RegisterStep ==
    ASSUME AInv, NEW r \in Requests, NEW u \in Users, NEW pw \in Passwords, Register(r, u, pw)
    PROVE  AInv'
<1> DEFINE q == [pc |-> "verification", user |-> u]
<1>1. /\ req[r] = Idle /\ started < MaxRequests /\ started' = started + 1
      /\ password[u] = NoAccount /\ password' = [password EXCEPT ![u] = pw]
      /\ req' = [req EXCEPT ![r] = q]
      /\ UNCHANGED <<clock, verified, window, attempts, lockedUntil, tokens>>
  BY DEF Register, Begin, loginVars
<1>2. q \in Request /\ q.pc = "verification" /\ q.user = u /\ q.pc \notin Kinds
  BY DEF Request, Kinds
<1> HIDE DEF q
<1>3. password' \in [Users -> Passwords \cup {NoAccount, Deleted}] /\ password'[u] = pw
      /\ \A v \in Users : v # u => password'[v] = password[v]
  BY <1>1, Typed
<1>4. NoAccount \notin Passwords
  BY AuthAssumption
<1>5. LoginInv'
  <2>1. /\ lockedUntil' \in [Users -> Nat] /\ LoginInv
        /\ window' \in [Users -> [count : 0..(RateMax + 1), end : 0..(MaxClock + RateWindow)]]
        /\ \A v \in Users : lockedUntil'[v] \in {lockedUntil[v], Unlocked}
    BY <1>1, Typed DEF AInv
  <2>2. QED
    BY <1>1, <1>2, <1>3, <2>1, LoginSideQuiet
<1>6. TokenInv'
  <2>1. /\ \A v \in Users : password'[v] = NoAccount => password[v] = NoAccount
        /\ \A v \in Users : password'[v] \in Passwords
              => password[v] \in Passwords \/ password[v] = NoAccount
        /\ verified' \subseteq verified
        /\ \A v \in Users : password[v] \in Passwords /\ password'[v] \in Passwords
              => (v \in verified' <=> v \in verified)
        /\ password'[q.user] # NoAccount
    BY <1>1, <1>2, <1>3, <1>4
  <2>2. QED
    BY <1>1, <1>2, <1>3, <2>1, TokenSideQuiet
<1>7. QED
  BY <1>5, <1>6 DEF AInv

LEMMA RegisterVerificationStep ==
    ASSUME AInv, NEW r \in Requests, RegisterVerification(r)
    PROVE  AInv'
<1> DEFINE q == [pc |-> "issue", user |-> req[r].user]
<1>1. /\ req[r].pc = "verification" /\ req' = [req EXCEPT ![r].pc = "issue"]
      /\ Issue("verify", req[r].user) \/ UNCHANGED tokens
      /\ UNCHANGED <<clock, password, verified, window, attempts, lockedUntil, started>>
  BY DEF RegisterVerification, Goto, loginVars
<1>2. req[r] = [pc |-> req[r].pc, user |-> req[r].user] /\ req[r].user \in Users
  BY <1>1, RequestShape, Typed
<1>3. req' = [req EXCEPT ![r] = q]
  <2>1. [req[r] EXCEPT !.pc = "issue"] = q
    BY <1>2
  <2>2. QED
    BY <1>1, <2>1
<1>4. q \in Request /\ q.pc = "issue" /\ q.user = req[r].user /\ q.pc \notin Kinds /\ q.pc \notin Unrecorded
  BY <1>2 DEF Request, Kinds, Unrecorded
<1> HIDE DEF q
<1>5. password[req[r].user] # NoAccount
  BY <1>1 DEF AInv, TokenInv, HoldersFit
<1>6. LoginInv'
  <2>1. /\ lockedUntil' \in [Users -> Nat] /\ LoginInv
        /\ window' \in [Users -> [count : 0..(RateMax + 1), end : 0..(MaxClock + RateWindow)]]
        /\ password' \in [Users -> Passwords \cup {NoAccount, Deleted}]
        /\ \A v \in Users : lockedUntil'[v] \in {lockedUntil[v], Unlocked}
    BY <1>1, Typed DEF AInv
  <2>2. QED
    BY <1>1, <1>3, <1>4, <2>1, LoginSideQuiet
<1>7. TokenInv'
  <2>1. "verify" \in Kinds
    BY DEF Kinds
  <2>2. req' \in {req, [req EXCEPT ![r] = q]}
    BY <1>3
  <2>3. QED
    BY <1>1, <1>2, <1>4, <1>5, <2>1, <2>2, Issued
<1>8. QED
  BY <1>6, <1>7 DEF AInv

LEMMA IssueRefreshStep ==
    ASSUME AInv, NEW r \in Requests, IssueRefresh(r)
    PROVE  AInv'
<1>1. /\ req[r].pc = "issue" /\ req' = [req EXCEPT ![r] = Idle]
      /\ Issue("refresh", req[r].user) \/ UNCHANGED tokens
      /\ UNCHANGED <<clock, password, verified, window, attempts, lockedUntil, started>>
  BY DEF IssueRefresh, Finish, loginVars
<1>2. req[r].user \in Users
  BY <1>1, RequestShape, Typed
<1>3. Idle \in Request /\ Idle.pc = "idle" /\ Idle.pc \notin Kinds /\ Idle.pc \notin Unrecorded
  BY IdleIsRequest DEF Kinds, Unrecorded
<1>4. password[req[r].user] # NoAccount
  BY <1>1 DEF AInv, TokenInv, HoldersFit
<1>5. LoginInv'
  <2>1. /\ lockedUntil' \in [Users -> Nat] /\ LoginInv
        /\ window' \in [Users -> [count : 0..(RateMax + 1), end : 0..(MaxClock + RateWindow)]]
        /\ password' \in [Users -> Passwords \cup {NoAccount, Deleted}]
        /\ \A v \in Users : lockedUntil'[v] \in {lockedUntil[v], Unlocked}
    BY <1>1, Typed DEF AInv
  <2>2. QED
    BY <1>1, <1>3, <2>1, LoginSideQuiet
<1>6. TokenInv'
  <2>1. "refresh" \in Kinds
    BY DEF Kinds
  <2>2. req' \in {req, [req EXCEPT ![r] = Idle]}
    BY <1>1
  <2>3. QED
    BY <1>1, <1>2, <1>3, <1>4, <2>1, <2>2, Issued
<1>7. QED
  BY <1>5, <1>6 DEF AInv

LEMMA RowReplaced ==
    ASSUME tokens \in Seq(Row), NEW i \in DOMAIN tokens, NEW new \in Row,
           NEW s, s = [tokens EXCEPT ![i] = new]
    PROVE  /\ s \in Seq(Row) /\ Len(s) = Len(tokens)
           /\ \A j \in 1..Len(tokens) : s[j] = IF j = i THEN new ELSE tokens[j]
OBVIOUS

\* The UPDATE of a token changes nothing but its marks.
LEMMA SpendShape ==
    ASSUME tokens \in Seq(Row), NEW i \in DOMAIN tokens, NEW s, s = Spend(i)
    PROVE  /\ s \in Seq(Row) /\ Len(s) = Len(tokens)
           /\ \A j \in DOMAIN tokens :
                 /\ s[j].kind = tokens[j].kind /\ s[j].user = tokens[j].user
                 /\ s[j].from = tokens[j].from /\ s[j].revoked = tokens[j].revoked
                 /\ s[j].uses = IF j = i THEN tokens[j].uses + 1 ELSE tokens[j].uses
                 /\ j = i => s[j].spent
                 /\ j # i => s[j].spent = tokens[j].spent
<1>1. /\ Len(tokens) \in Nat /\ DOMAIN tokens = 1..Len(tokens)
      /\ \A j \in 1..Len(tokens) : tokens[j] \in Row
  OBVIOUS
<1>2. tokens[i] = [kind |-> tokens[i].kind, user |-> tokens[i].user, from |-> tokens[i].from,
                   expires |-> tokens[i].expires, spent |-> tokens[i].spent,
                   uses |-> tokens[i].uses, revoked |-> tokens[i].revoked]
      /\ tokens[i].kind \in Kinds /\ tokens[i].user \in Users /\ tokens[i].from \in Nat
      /\ tokens[i].expires \in Nat /\ tokens[i].uses \in Nat /\ tokens[i].revoked \in BOOLEAN
  BY <1>1 DEF Row
<1> DEFINE new == [kind |-> tokens[i].kind, user |-> tokens[i].user, from |-> tokens[i].from,
                   expires |-> tokens[i].expires, spent |-> TRUE,
                   uses |-> tokens[i].uses + 1, revoked |-> tokens[i].revoked]
<1>3. ASSUME NEW t, t = [tokens[i] EXCEPT !.spent = TRUE, !.uses = tokens[i].uses + 1]
      PROVE  t = new
  BY <1>2, <1>3
<1>4. s = [tokens EXCEPT ![i] = new]
  <2>1. s = [tokens EXCEPT ![i] = [tokens[i] EXCEPT !.spent = TRUE, !.uses = tokens[i].uses + 1]]
    BY DEF Spend
  <2>2. QED
    BY <1>3, <2>1
<1>5. /\ new \in Row /\ new.kind = tokens[i].kind /\ new.user = tokens[i].user
      /\ new.from = tokens[i].from /\ new.revoked = tokens[i].revoked
      /\ new.uses = tokens[i].uses + 1 /\ new.spent
  BY <1>2 DEF Row
<1> HIDE DEF new
<1>6. /\ s \in Seq(Row) /\ Len(s) = Len(tokens)
      /\ \A j \in 1..Len(tokens) : s[j] = IF j = i THEN new ELSE tokens[j]
  BY <1>4, <1>5, RowReplaced
<1>7. QED
  BY <1>1, <1>5, <1>6

\* The row that a logout leaves.
LEMMA RevokeShape ==
    ASSUME tokens \in Seq(Row), NEW i \in DOMAIN tokens, NEW s
    PROVE  s = [tokens EXCEPT ![i].spent = TRUE, ![i].revoked = TRUE] =>
           /\ s \in Seq(Row) /\ Len(s) = Len(tokens)
           /\ \A j \in DOMAIN tokens :
                 /\ s[j].kind = tokens[j].kind /\ s[j].user = tokens[j].user
                 /\ s[j].from = tokens[j].from /\ s[j].uses = tokens[j].uses
                 /\ j = i => s[j].spent /\ s[j].revoked
                 /\ j # i => s[j].spent = tokens[j].spent /\ s[j].revoked = tokens[j].revoked
<1>0. HAVE s = [tokens EXCEPT ![i].spent = TRUE, ![i].revoked = TRUE]
<1>1. /\ Len(tokens) \in Nat /\ DOMAIN tokens = 1..Len(tokens)
      /\ \A j \in 1..Len(tokens) : tokens[j] \in Row
  OBVIOUS
<1>2. tokens[i] = [kind |-> tokens[i].kind, user |-> tokens[i].user, from |-> tokens[i].from,
                   expires |-> tokens[i].expires, spent |-> tokens[i].spent,
                   uses |-> tokens[i].uses, revoked |-> tokens[i].revoked]
      /\ tokens[i].kind \in Kinds /\ tokens[i].user \in Users /\ tokens[i].from \in Nat
      /\ tokens[i].expires \in Nat /\ tokens[i].uses \in Nat
  BY <1>1 DEF Row
<1> DEFINE new == [kind |-> tokens[i].kind, user |-> tokens[i].user, from |-> tokens[i].from,
                   expires |-> tokens[i].expires, spent |-> TRUE,
                   uses |-> tokens[i].uses, revoked |-> TRUE]
<1>3. ASSUME NEW t, t = [tokens[i] EXCEPT !.spent = TRUE, !.revoked = TRUE]
      PROVE  t = new
  BY <1>2, <1>3
<1>4. s = [tokens EXCEPT ![i] = new]
  <2>1. s = [tokens EXCEPT ![i] = [tokens[i] EXCEPT !.spent = TRUE, !.revoked = TRUE]]
    BY <1>0
  <2>2. QED
    BY <1>3, <2>1
<1>5. /\ new \in Row /\ new.kind = tokens[i].kind /\ new.user = tokens[i].user
      /\ new.from = tokens[i].from /\ new.revoked
      /\ new.uses = tokens[i].uses /\ new.spent
  BY <1>2 DEF Row
<1> HIDE DEF new
<1>6. /\ s \in Seq(Row) /\ Len(s) = Len(tokens)
      /\ \A j \in 1..Len(tokens) : s[j] = IF j = i THEN new ELSE tokens[j]
  <2>1. new \in Row
    BY <1>5
  <2>2. QED
    BY <1>4, <2>1, RowReplaced
<1>7. QED
  BY <1>1, <1>5, <1>6

\* The tables as the steps below use them.
LEMMA Tables ==
    ASSUME AInv
    PROVE  /\ tokens \in Seq(Row) /\ Len(tokens) \in Nat /\ DOMAIN tokens = 1..Len(tokens)
           /\ verified \subseteq Users
           /\ \A j \in DOMAIN tokens :
                 /\ j \in Nat \ {0} /\ tokens[j].uses \in Nat /\ tokens[j].user \in Users
                 /\ tokens[j].kind \in Kinds
                 /\ tokens[j].spent <=> tokens[j].uses > 0 \/ tokens[j].revoked
                 /\ password[tokens[j].user] # NoAccount
<1>1. /\ tokens \in Seq(Row) /\ Len(tokens) \in Nat /\ DOMAIN tokens = 1..Len(tokens)
      /\ verified \subseteq Users
      /\ \A j \in DOMAIN tokens :
            j \in Nat \ {0} /\ tokens[j].uses \in Nat /\ tokens[j].user \in Users /\ tokens[j].kind \in Kinds
  BY TokenRows DEF AInv, TokenInv, TokenTypes
<1>2. \A j \in DOMAIN tokens : tokens[j].spent <=> tokens[j].uses > 0 \/ tokens[j].revoked
  BY DEF AInv, TokenInv, SpentMeansServed
<1>3. \A j \in DOMAIN tokens : password[tokens[j].user] # NoAccount
  BY <1>1 DEF AInv, TokenInv, TokensHaveUsers
<1>4. QED
  BY <1>1, <1>2, <1>3

\* A request that is answered at once.
LEMMA AnsweredAtOnce ==
    ASSUME AInv, UNCHANGED <<clock, password, verified, window, attempts, lockedUntil, req>>,
           started < MaxRequests, started' = started + 1
    PROVE  LoginInv'
BY Typed, LoginSideStill DEF AInv

LEMMA LogoutStep ==
    ASSUME AInv, NEW r \in Requests, NEW i \in DOMAIN tokens, Logout(r, i)
    PROVE  AInv'
<1>1. /\ started < MaxRequests /\ started' = started + 1
      /\ UNCHANGED <<clock, password, verified, window, attempts, lockedUntil, req>>
  BY DEF Logout, Begin, loginVars
<1>2. LoginInv'
  BY <1>1, AnsweredAtOnce
<1>3. /\ tokens' \in Seq(Row) /\ Len(tokens') = Len(tokens)
      /\ \A j \in DOMAIN tokens :
            /\ tokens'[j].kind = tokens[j].kind /\ tokens'[j].user = tokens[j].user
            /\ tokens'[j].from = tokens[j].from /\ tokens'[j].uses = tokens[j].uses
            /\ j = i => tokens'[j].spent /\ tokens'[j].revoked
            /\ j # i => tokens'[j].spent = tokens[j].spent /\ tokens'[j].revoked = tokens[j].revoked
  <2>1. tokens' = [tokens EXCEPT ![i].spent = TRUE, ![i].revoked = TRUE]
    BY DEF Logout
  <2>2. tokens \in Seq(Row)
    BY Tables
  <2> DEFINE goal(t) ==
          /\ t \in Seq(Row) /\ Len(t) = Len(tokens)
          /\ \A j \in DOMAIN tokens :
                /\ t[j].kind = tokens[j].kind /\ t[j].user = tokens[j].user
                /\ t[j].from = tokens[j].from /\ t[j].uses = tokens[j].uses
                /\ j = i => t[j].spent /\ t[j].revoked
                /\ j # i => t[j].spent = tokens[j].spent /\ t[j].revoked = tokens[j].revoked
  <2>3. \A t : t = [tokens EXCEPT ![i].spent = TRUE, ![i].revoked = TRUE] => goal(t)
    BY <2>2, RevokeShape
  <2>4. goal(tokens')
    BY <2>1, <2>3, ZenonT(30)
  <2>5. QED
    BY <2>4
<1>4. \A j \in DOMAIN tokens :
            /\ tokens'[j].kind = tokens[j].kind /\ tokens'[j].user = tokens[j].user
            /\ tokens'[j].from = tokens[j].from
            /\ tokens'[j].uses = IF j = 0 THEN tokens[j].uses + 1 ELSE tokens[j].uses
            /\ tokens'[j].spent <=> tokens'[j].uses > 0 \/ tokens'[j].revoked
  BY <1>3, Tables
<1>5. TokenInv'
  <2>1. Len(tokens') = IF FALSE THEN Len(tokens) + 1 ELSE Len(tokens)
    BY <1>3
  <2>2. Idle \in Request /\ Idle.pc = "idle" /\ Idle.pc \notin Kinds
    BY IdleIsRequest DEF Kinds
  <2>3. verified \subseteq Users
    BY Tables
  <2>4. QED
    BY <1>1, <1>3, <1>4, <2>1, <2>2, <2>3, TokensWritten
<1>6. QED
  BY <1>2, <1>5 DEF AInv

LEMMA ForgotPasswordStep ==
    ASSUME AInv, NEW r \in Requests, NEW u \in Users,
           ForgotPassword(r, u) \/ ResendVerification(r, u)
    PROVE  AInv'
<1>1. /\ started < MaxRequests /\ started' = started + 1
      /\ UNCHANGED <<clock, password, verified, window, attempts, lockedUntil, req>>
  BY DEF ForgotPassword, ResendVerification, Begin, loginVars
<1>2. LoginInv'
  BY <1>1, AnsweredAtOnce
<1>3. PICK kind \in Kinds : Issue(kind, u)
  BY DEF ForgotPassword, ResendVerification, Kinds
<1>4. password[u] # NoAccount
  BY AuthAssumption DEF ForgotPassword, ResendVerification, Accounts
<1>5. Idle \in Request /\ Idle.pc = "idle" /\ Idle.pc \notin Kinds
  BY IdleIsRequest DEF Kinds
<1>6. TokenInv'
  BY <1>1, <1>3, <1>4, <1>5, Issued
<1>7. QED
  BY <1>2, <1>6 DEF AInv

\* The requests that hold a token are at the end of a transaction.
LEMMA HolderShape ==
    ASSUME AInv, NEW r \in Requests, req[r].pc \in Kinds
    PROVE  /\ req[r].token \in DOMAIN tokens /\ req[r].token \in Nat \ {0}
           /\ tokens[req[r].token].kind = req[r].pc
           /\ tokens[req[r].token].user \in Users
           /\ req[r].pc = "reset" => req[r].pw \in Passwords
           /\ Idle \in Request /\ Idle.pc = "idle" /\ Idle.pc \notin Kinds /\ Idle.pc \notin Unrecorded
<1>1. /\ req[r].token \in DOMAIN tokens /\ tokens[req[r].token].kind = req[r].pc
      /\ req[r].pc = "reset" => req[r].pw \in Passwords
  BY DEF AInv, TokenInv, HoldersFit
<1>2. QED
  BY <1>1, Tables, IdleIsRequest DEF Kinds, Unrecorded

\* Its login side, whatever it does to the password.
LEMMA HolderDone ==
    ASSUME AInv, NEW r \in Requests, req[r].pc \in Kinds, req' = [req EXCEPT ![r] = Idle],
           UNCHANGED <<clock, window, attempts, lockedUntil, started>>,
           password' \in [Users -> Passwords \cup {NoAccount, Deleted}]
    PROVE  LoginInv'
<1>1. /\ lockedUntil' \in [Users -> Nat] /\ LoginInv
      /\ window' \in [Users -> [count : 0..(RateMax + 1), end : 0..(MaxClock + RateWindow)]]
      /\ \A v \in Users : lockedUntil'[v] \in {lockedUntil[v], Unlocked}
  BY Typed DEF AInv
<1>2. QED
  BY <1>1, HolderShape, LoginSideQuiet

LEMMA RotateCommitStep ==
    ASSUME AInv, NEW r \in Requests, RotateCommit(r)
    PROVE  AInv'
<1> DEFINE i == req[r].token
           s == Spend(i)
           new == Token("refresh", tokens[i].user, i)
<1>1. /\ req[r].pc = "refresh" /\ req[r].pc \in Kinds /\ req' = [req EXCEPT ![r] = Idle]
      /\ tokens' = Append(s, new)
      /\ UNCHANGED <<clock, password, verified, window, attempts, lockedUntil, started>>
  BY DEF RotateCommit, Finish, loginVars, Kinds
<1>2. LoginInv'
  BY <1>1, HolderDone, Typed
<1>3. /\ i \in DOMAIN tokens /\ i \in Nat \ {0} /\ tokens[i].kind = "refresh" /\ tokens[i].user \in Users
      /\ Idle \in Request /\ Idle.pc = "idle" /\ Idle.pc \notin Kinds
  BY <1>1, HolderShape
<1>4. /\ s \in Seq(Row) /\ Len(s) = Len(tokens)
      /\ \A j \in DOMAIN tokens :
            /\ s[j].kind = tokens[j].kind /\ s[j].user = tokens[j].user
            /\ s[j].from = tokens[j].from /\ s[j].revoked = tokens[j].revoked
            /\ s[j].uses = IF j = i THEN tokens[j].uses + 1 ELSE tokens[j].uses
            /\ j = i => s[j].spent
            /\ j # i => s[j].spent = tokens[j].spent
  BY <1>3, Tables, SpendShape
<1>5. /\ new \in Row /\ new.user = tokens[i].user /\ new.from = i /\ new.uses = 0
      /\ ~new.spent /\ ~new.revoked
  <2>1. "refresh" \in Kinds /\ i \in Nat
    BY <1>3 DEF Kinds
  <2>2. QED
    BY <1>3, <2>1, FreshToken
<1> HIDE DEF s, new
<1>6. /\ tokens' \in Seq(Row) /\ Len(tokens') = Len(tokens) + 1
      /\ tokens'[Len(tokens) + 1] = new
      /\ \A j \in DOMAIN tokens : tokens'[j] = s[j]
  <2>1. DOMAIN s = DOMAIN tokens
    BY <1>4, Tables
  <2>2. QED
    BY <1>1, <1>4, <1>5, <2>1, AppendedTo
<1>7. \A j \in DOMAIN tokens :
         /\ tokens'[j].kind = tokens[j].kind /\ tokens'[j].user = tokens[j].user
         /\ tokens'[j].from = tokens[j].from
         /\ tokens'[j].uses = IF j = i THEN tokens[j].uses + 1 ELSE tokens[j].uses
         /\ tokens'[j].spent <=> tokens'[j].uses > 0 \/ tokens'[j].revoked
  BY <1>4, <1>6, Tables
<1>8. TokenInv'
  <2>1. Len(tokens') = IF TRUE THEN Len(tokens) + 1 ELSE Len(tokens)
    BY <1>6
  <2>2. LET t == tokens'[Len(tokens) + 1]
        IN /\ t.uses = 0 /\ ~t.spent /\ ~t.revoked /\ t.from = i
           /\ password[t.user] # NoAccount
           /\ i # 0 => tokens[i].kind = "refresh" /\ tokens[i].user = t.user
    BY <1>3, <1>5, <1>6, Tables
  <2>3. verified \subseteq Users /\ i \in Nat /\ i # 0
    BY <1>3, Tables
  <2>4. tokens[i].kind # "verify"
    BY <1>3
  <2>5. req[r].token = i
    OBVIOUS
  <2> HIDE DEF i
  <2>6. QED
    BY <1>1, <1>3, <1>6, <1>7, <2>1, <2>2, <2>3, <2>4, <2>5, TokensWritten
<1>9. QED
  BY <1>2, <1>8 DEF AInv

LEMMA RedeemedWritten ==
    ASSUME AInv, UNCHANGED clock, NEW i \in DOMAIN tokens, i \in Nat, i # 0,
           tokens' \in Seq(Row), Len(tokens') = Len(tokens),
           \A j \in DOMAIN tokens :
              /\ tokens'[j].kind = tokens[j].kind /\ tokens'[j].user = tokens[j].user
              /\ tokens'[j].from = tokens[j].from
              /\ tokens'[j].uses = IF j = i THEN tokens[j].uses + 1 ELSE tokens[j].uses
              /\ tokens'[j].spent <=> tokens'[j].uses > 0 \/ tokens'[j].revoked,
           tokens[i].kind # "refresh",
           \A u \in Users : password'[u] = NoAccount <=> password[u] = NoAccount,
           \A u \in Users : password'[u] \in Passwords <=> password[u] \in Passwords,
           verified' \subseteq Users, verified \subseteq verified',
           \A u \in verified' \ verified : password[u] # NoAccount,
           \A u \in Users : password[u] \in Passwords =>
              (u \in verified' <=>
                  u \in verified \/ (i # 0 /\ tokens[i].kind = "verify" /\ tokens[i].user = u)),
           NEW r \in Requests, req' = [req EXCEPT ![r] = Idle], req[r].pc \in Kinds, req[r].token = i
    PROVE  TokenInv'
<1>1. Idle \in Request /\ Idle.pc = "idle" /\ Idle.pc \notin Kinds
  BY IdleIsRequest DEF Kinds
<1>2. Idle.pc \in {"verification", "success", "clear", "issue"} => password'[Idle.user] # NoAccount
  BY <1>1
<1> DEFINE grown == FALSE
<1>3. grown \in BOOLEAN /\ ~grown
  OBVIOUS
<1> HIDE DEF grown
<1>4. Len(tokens') = IF grown THEN Len(tokens) + 1 ELSE Len(tokens)
  BY <1>3
<1>5. IF i = 0 THEN req' \in {req, [req EXCEPT ![r] = Idle]}
      ELSE req' = [req EXCEPT ![r] = Idle] /\ req[r].pc \in Kinds /\ req[r].token = i
  OBVIOUS
<1>6. QED
  BY <1>1, <1>2, <1>3, <1>4, <1>5, TokensWritten

\* A redemption without a successor: of a reset or a verification token.
LEMMA Redeemed ==
    ASSUME AInv, NEW r \in Requests, req[r].pc \in {"reset", "verify"},
           req' = [req EXCEPT ![r] = Idle], tokens' = Spend(req[r].token),
           UNCHANGED <<clock, window, attempts, lockedUntil, started>>,
           password' \in [Users -> Passwords \cup {NoAccount, Deleted}],
           \A u \in Users : password'[u] = NoAccount <=> password[u] = NoAccount,
           \A u \in Users : password'[u] \in Passwords <=> password[u] \in Passwords,
           verified' = IF req[r].pc = "verify"
                       THEN verified \cup ({tokens[req[r].token].user} \cap Accounts)
                       ELSE verified
    PROVE  AInv'
<1> DEFINE i == req[r].token
           s == Spend(i)
<1>1. req[r].pc \in Kinds
  BY DEF Kinds
<1>2. LoginInv'
  BY <1>1, HolderDone
<1>3. /\ i \in DOMAIN tokens /\ i \in Nat \ {0} /\ tokens[i].kind = req[r].pc /\ tokens[i].user \in Users
      /\ Idle \in Request /\ Idle.pc = "idle" /\ Idle.pc \notin Kinds
  BY <1>1, HolderShape
<1>4. /\ s \in Seq(Row) /\ Len(s) = Len(tokens)
      /\ \A j \in DOMAIN tokens :
            /\ s[j].kind = tokens[j].kind /\ s[j].user = tokens[j].user
            /\ s[j].from = tokens[j].from /\ s[j].revoked = tokens[j].revoked
            /\ s[j].uses = IF j = i THEN tokens[j].uses + 1 ELSE tokens[j].uses
            /\ j = i => s[j].spent
            /\ j # i => s[j].spent = tokens[j].spent
  BY <1>3, Tables, SpendShape
<1>5. tokens' = s
  OBVIOUS
<1> HIDE DEF s
<1>6. /\ tokens' \in Seq(Row) /\ Len(tokens') = Len(tokens)
      /\ \A j \in DOMAIN tokens :
         /\ tokens'[j].kind = tokens[j].kind /\ tokens'[j].user = tokens[j].user
         /\ tokens'[j].from = tokens[j].from
         /\ tokens'[j].uses = IF j = i THEN tokens[j].uses + 1 ELSE tokens[j].uses
         /\ tokens'[j].spent <=> tokens'[j].uses > 0 \/ tokens'[j].revoked
  BY <1>4, <1>5, Tables
<1>7. \A u \in Users : u \in Accounts <=> password[u] \in Passwords
  BY DEF Accounts
<1>8. /\ verified' \subseteq Users /\ verified \subseteq verified'
      /\ \A u \in verified' \ verified : password[u] # NoAccount
      /\ \A u \in Users : password[u] \in Passwords =>
            (u \in verified' <=>
                u \in verified \/ (i # 0 /\ tokens[i].kind = "verify" /\ tokens[i].user = u))
  <2>1. verified \subseteq Users /\ password[tokens[i].user] # NoAccount
    BY <1>3, Tables
  <2>2. CASE req[r].pc = "verify"
    <3>1. verified' = verified \cup ({tokens[i].user} \cap Accounts)
      BY <2>2
    <3>2. QED
      BY <1>3, <1>7, <2>1, <2>2, <3>1
  <2>3. CASE req[r].pc # "verify"
    BY <1>3, <2>1, <2>3
  <2>4. QED
    BY <2>2, <2>3
<1>9. TokenInv'
  <2>1. Len(tokens') = IF FALSE THEN Len(tokens) + 1 ELSE Len(tokens)
    BY <1>6
  <2>2. i \in Nat /\ i # 0 /\ tokens[i].kind # "refresh"
    BY <1>3
  <2>3. req[r].token = i
    OBVIOUS
  <2> HIDE DEF i
  <2>4. IF i = 0 THEN req' \in {req, [req EXCEPT ![r] = Idle]}
        ELSE req' = [req EXCEPT ![r] = Idle] /\ req[r].pc \in Kinds /\ req[r].token = i
    BY <1>1, <2>2, <2>3
  <2>5. Idle.pc \in {"verification", "success", "clear", "issue"} => password'[Idle.user] # NoAccount
    BY <1>3
  <2>6. QED
    BY <1>3, <1>6, <1>8, <2>1, <2>2, <2>4, <2>5, RedeemedWritten
<1>10. QED
  BY <1>2, <1>9 DEF AInv

LEMMA ResetCommitStep ==
    ASSUME AInv, NEW r \in Requests, ResetCommit(r)
    PROVE  AInv'
<1> DEFINE u == tokens[req[r].token].user
<1>1. /\ req[r].pc = "reset" /\ req' = [req EXCEPT ![r] = Idle]
      /\ tokens' = Spend(req[r].token)
      /\ password' = [password EXCEPT ![u] = IF u \in Accounts THEN req[r].pw ELSE @]
      /\ UNCHANGED <<clock, verified, window, attempts, lockedUntil, started>>
  BY DEF ResetCommit, Finish, loginVars
<1>2. req[r].pw \in Passwords
  BY <1>1, HolderShape DEF Kinds
<1> HIDE DEF u
<1>3. \A v \in Users : v \in Accounts <=> password[v] \in Passwords
  BY DEF Accounts
<1>4. /\ password' \in [Users -> Passwords \cup {NoAccount, Deleted}]
      /\ \A v \in Users : password'[v] = NoAccount <=> password[v] = NoAccount
      /\ \A v \in Users : password'[v] \in Passwords <=> password[v] \in Passwords
  <2>1. NoAccount \notin Passwords
    BY AuthAssumption
  <2>2. \A v \in Users : \/ password'[v] = password[v]
                         \/ password'[v] \in Passwords /\ password[v] \in Passwords
    BY <1>1, <1>2, <1>3, Typed
  <2>3. password' \in [Users -> Passwords \cup {NoAccount, Deleted}]
    BY <1>1, <1>2, Typed
  <2>4. QED
    BY <2>1, <2>2, <2>3
<1>5. QED
  BY <1>1, <1>4, Redeemed

LEMMA VerifyCommitStep ==
    ASSUME AInv, NEW r \in Requests, VerifyCommit(r)
    PROVE  AInv'
<1>1. /\ req[r].pc = "verify" /\ req' = [req EXCEPT ![r] = Idle]
      /\ tokens' = Spend(req[r].token)
      /\ verified' = verified \cup ({tokens[req[r].token].user} \cap Accounts)
      /\ UNCHANGED <<clock, password, window, attempts, lockedUntil, started>>
  BY DEF VerifyCommit, Finish, loginVars
<1>2. password' \in [Users -> Passwords \cup {NoAccount, Deleted}]
  BY <1>1, Typed
<1>3. QED
  BY <1>1, <1>2, Redeemed

\* A step of a request that writes no token and may set a password.
LEMMA PlainStep ==
    ASSUME AInv, UNCHANGED <<clock, verified, window, attempts, lockedUntil, tokens>>,
           password' \in [Users -> Passwords \cup {NoAccount, Deleted}],
           \A u \in Users : password'[u] = NoAccount => password[u] = NoAccount,
           \A u \in Users : password'[u] \in Passwords => password[u] \in Passwords,
           NEW r \in Requests, NEW q \in Request, req' = [req EXCEPT ![r] = q],
           q.pc \in {"idle", "change"} \cup Kinds,
           \/ req[r] = Idle /\ started < MaxRequests /\ started' = started + 1
           \/ started' = started,
           q.pc \in Kinds => /\ q.token \in DOMAIN tokens /\ tokens[q.token].kind = q.pc
                             /\ q.pc = "reset" => q.pw \in Passwords
                             /\ tokens[q.token].uses = 0
    PROVE  AInv'
<1>1. /\ q.pc \notin {"purge", "upsert", "lock"} /\ q.pc \notin {"verification", "success", "clear", "issue"}
      /\ q.pc \notin Unrecorded
  BY DEF Kinds, Unrecorded
<1>2. LoginInv'
  <2>1. /\ lockedUntil' \in [Users -> Nat] /\ LoginInv
        /\ window' \in [Users -> [count : 0..(RateMax + 1), end : 0..(MaxClock + RateWindow)]]
        /\ \A v \in Users : lockedUntil'[v] \in {lockedUntil[v], Unlocked}
    BY Typed DEF AInv
  <2>2. (q.pc = "purge" => q.seen < clock) /\ (q.pc = "lock" => \E t \in 0..clock : Earned(q.user, t))
        /\ (q.pc = "upsert" => Due(q.user, q.seen))
    BY <1>1
  <2>3. QED
    BY <1>1, <2>1, <2>2, LoginSideQuiet
<1>3. TokenInv'
  <2>1. \A u \in Users : password'[u] \in Passwords
            => password[u] \in Passwords \/ password[u] = NoAccount
    OBVIOUS
  <2>2. req' = req \/ (r \in Requests /\ req' = [req EXCEPT ![r] = q])
    OBVIOUS
  <2>3. QED
    BY <1>1, <2>1, <2>2, TokenSideQuiet
<1>4. QED
  BY <1>2, <1>3 DEF AInv

LEMMA RollbackStep ==
    ASSUME AInv, NEW r \in Requests, Rollback(r)
    PROVE  AInv'
<1>1. Idle \in Request /\ Idle.pc = "idle" /\ Idle.pc \notin Kinds
  BY IdleIsRequest DEF Kinds
<1>2. /\ req' = [req EXCEPT ![r] = Idle]
      /\ UNCHANGED <<clock, password, verified, window, attempts, lockedUntil, tokens, started>>
  BY DEF Rollback, Finish, loginVars
<1>3. password' \in [Users -> Passwords \cup {NoAccount, Deleted}]
  BY <1>2, Typed
<1>4. QED
  BY <1>1, <1>2, <1>3, PlainStep

LEMMA RedeemStep ==
    ASSUME AInv, NEW r \in Requests, NEW i \in DOMAIN tokens, NEW pw \in NewPasswords(i),
           Redeem(r, i, pw)
    PROVE  AInv'
<1> DEFINE q == [pc |-> tokens[i].kind, token |-> i, pw |-> pw]
<1>1. /\ req[r] = Idle /\ started < MaxRequests /\ started' = started + 1
      /\ req' = [req EXCEPT ![r] = q] /\ ~tokens[i].spent
      /\ UNCHANGED <<clock, password, verified, window, attempts, lockedUntil, tokens>>
  BY DEF Redeem, Begin, Redeemable, loginVars
<1>2. /\ tokens[i].kind \in Kinds /\ i \in Nat \ {0} /\ tokens[i].uses = 0
      /\ tokens[i].kind = "reset" => pw \in Passwords
      /\ pw \in Passwords \cup {NoAccount}
  <2>1. tokens[i].kind \in Kinds /\ i \in Nat \ {0} /\ tokens[i].uses \in Nat /\ ~(tokens[i].uses > 0)
    BY <1>1, Tables
  <2>2. QED
    BY <2>1 DEF NewPasswords
<1>3. q \in Request /\ q.pc = tokens[i].kind /\ q.token = i /\ q.pw = pw
  BY <1>2 DEF Request
<1> HIDE DEF q
<1>4. password' \in [Users -> Passwords \cup {NoAccount, Deleted}]
  BY <1>1, Typed
<1>5. QED
  BY <1>1, <1>2, <1>3, <1>4, PlainStep

LEMMA ChangeCheckStep ==
    ASSUME AInv, NEW r \in Requests, NEW u \in Users, NEW old \in Passwords, NEW new \in Passwords,
           ChangeCheck(r, u, old, new)
    PROVE  AInv'
<1> DEFINE q == [pc |-> "change", user |-> u, pw |-> new]
<1>1. /\ req[r] = Idle /\ started < MaxRequests /\ started' = started + 1
      /\ req' = [req EXCEPT ![r] = q]
      /\ UNCHANGED <<clock, password, verified, window, attempts, lockedUntil, tokens>>
  BY DEF ChangeCheck, Begin, loginVars
<1>2. q \in Request /\ q.pc = "change" /\ q.pc \notin Kinds
  BY DEF Request, Kinds
<1> HIDE DEF q
<1>3. password' \in [Users -> Passwords \cup {NoAccount, Deleted}]
  BY <1>1, Typed
<1>4. QED
  BY <1>1, <1>2, <1>3, PlainStep

LEMMA ChangeWriteStep ==
    ASSUME AInv, NEW r \in Requests, ChangeWrite(r)
    PROVE  AInv'
<1> DEFINE u == req[r].user
<1>1. /\ req[r].pc = "change" /\ req' = [req EXCEPT ![r] = Idle]
      /\ password' = [password EXCEPT ![u] = IF u \in Accounts THEN req[r].pw ELSE @]
      /\ UNCHANGED <<clock, verified, window, attempts, lockedUntil, tokens, started>>
  BY DEF ChangeWrite, Finish, loginVars
<1>2. req[r].pw \in Passwords /\ NoAccount \notin Passwords
  BY <1>1, RequestShape, Typed, AuthAssumption
<1> HIDE DEF u
<1>3. \A v \in Users : v \in Accounts <=> password[v] \in Passwords
  BY DEF Accounts
<1>4. /\ password' \in [Users -> Passwords \cup {NoAccount, Deleted}]
      /\ \A v \in Users : \/ password'[v] = password[v]
                          \/ password'[v] \in Passwords /\ password[v] \in Passwords
  BY <1>1, <1>2, <1>3, Typed
<1>5. Idle \in Request /\ Idle.pc = "idle" /\ Idle.pc \notin Kinds
  BY IdleIsRequest DEF Kinds
<1>6. /\ \A v \in Users : password'[v] = NoAccount => password[v] = NoAccount
      /\ \A v \in Users : password'[v] \in Passwords => password[v] \in Passwords
  BY <1>2, <1>4
<1>7. QED
  BY <1>1, <1>4, <1>5, <1>6, PlainStep

LEMMA DeleteUserStep ==
    ASSUME AInv, NEW u \in Users, DeleteUser(u)
    PROVE  AInv'
<1>1. /\ password' = [password EXCEPT ![u] = Deleted] /\ verified' = verified \ {u}
      /\ UNCHANGED <<clock, window, attempts, lockedUntil, tokens, req, started>>
  BY DEF DeleteUser, loginVars
<1>2. Deleted \notin Passwords /\ NoAccount # Deleted
  BY AuthAssumption DEF NoAccount, Deleted
<1>3. /\ password' \in [Users -> Passwords \cup {NoAccount, Deleted}]
      /\ password'[u] = Deleted /\ \A v \in Users \ {u} : password'[v] = password[v]
  BY <1>1, Typed
<1>4. LoginInv'
  <2>1. LoginInv /\ started' <= MaxRequests
    BY <1>1, Typed DEF AInv
  <2>2. QED
    BY <1>1, <1>3, <2>1, LoginSideStill
<1>5. TokenInv'
  <2>1. Idle \in Request /\ Idle.pc = "idle" /\ Idle.pc \notin Kinds
    BY IdleIsRequest DEF Kinds
  <2>2. /\ \A v \in Users : password'[v] = NoAccount => password[v] = NoAccount
        /\ \A v \in Users : password'[v] \in Passwords
              => password[v] \in Passwords \/ password[v] = NoAccount
        /\ verified' \subseteq verified
        /\ \A v \in Users : password[v] \in Passwords /\ password'[v] \in Passwords
              => (v \in verified' <=> v \in verified)
    BY <1>1, <1>2, <1>3
  <2>3. QED
    BY <1>1, <1>3, <2>1, <2>2, TokenSideQuiet
<1>6. QED
  BY <1>4, <1>5 DEF AInv

\* Time passes, or nothing happens.
LEMMA TickStep ==
    ASSUME AInv, Tick \/ UNCHANGED vars
    PROVE  AInv'
<1>1. UNCHANGED <<password, verified, window, attempts, lockedUntil, tokens, req, started>>
  BY DEF Tick, vars, loginVars
<1>2. password' \in [Users -> Passwords \cup {NoAccount, Deleted}]
  BY <1>1, Typed
<1>3. LoginInv'
  <2>1. CASE Tick
    BY <2>1, TickSide DEF AInv
  <2>2. CASE UNCHANGED vars
    <3>1. LoginInv /\ UNCHANGED clock /\ started' <= MaxRequests
      BY <1>1, <2>2, Typed DEF AInv, vars
    <3>2. QED
      BY <1>1, <1>2, <3>1, LoginSideStill
  <2>3. QED
    BY <2>1, <2>2
<1>4. TokenInv'
  <2>1. Idle \in Request /\ Idle.pc = "idle" /\ Idle.pc \notin Kinds
    BY IdleIsRequest DEF Kinds
  <2>2. \A v \in Users : password'[v] \in Passwords
              => password[v] \in Passwords \/ password[v] = NoAccount
    BY <1>1
  <2>3. QED
    BY <1>1, <1>2, <2>1, <2>2, TokenSideQuiet
<1>5. QED
  BY <1>3, <1>4 DEF AInv

LEMMA AuthStarts == ASSUME Init PROVE AInv
<1>1. /\ clock = 0 /\ started = 0 /\ attempts = {} /\ tokens = <<>> /\ verified = {}
      /\ password = [u \in Users |-> NoAccount]
      /\ lockedUntil = [u \in Users |-> Unlocked]
      /\ window = [u \in Users |-> [count |-> 0, end |-> 0]]
      /\ req = [r \in Requests |-> Idle]
  BY DEF Init
<1>2. /\ MaxClock \in Nat /\ MaxRequests \in Nat /\ RateMax \in Nat /\ RateWindow \in Nat
      /\ LockDuration \in Nat /\ IsFiniteSet(Requests)
  BY AuthAssumption
<1>3. LoginTypes
  <2>1. req \in [Requests -> Request]
    BY <1>1, IdleIsRequest
  <2>2. window \in [Users -> [count : 0..(RateMax + 1), end : 0..(MaxClock + RateWindow)]]
    BY <1>1, <1>2
  <2>3. lockedUntil \in [Users -> 0..(MaxClock + LockDuration)]
    BY <1>1, <1>2 DEF Unlocked
  <2>4. QED
    BY <1>1, <1>2, <2>1, <2>2, <2>3 DEF LoginTypes
<1>4. \A r \in Requests : req[r].pc = "idle"
  BY <1>1, IdleIsRequest
<1>5. Number(Pcs, Unrecorded, Requests) = 0
  <2>1. {r \in Requests : Pcs[r] \in Unrecorded} = {}
    BY <1>4 DEF Pcs, Unrecorded
  <2>2. QED
    BY <2>1, FS_EmptySet DEF Number
<1>6. AttemptsFit
  <2>1. IsFiniteSet(attempts) /\ Cardinality(attempts) = 0
    BY <1>1, FS_EmptySet
  <2>2. QED
    BY <1>1, <1>5, <2>1 DEF AttemptsFit
<1>7. LocksFit /\ LoginsFit
  BY <1>1, <1>4 DEF LocksFit, LoginsFit
<1>8. DOMAIN tokens = {} /\ tokens \in Seq(Row)
  BY <1>1
<1>9. TokenTypes /\ TokensHaveUsers /\ OverlapFits
  BY <1>1, <1>8 DEF TokenTypes, TokensHaveUsers, OverlapFits
<1>10. HoldersFit
  BY <1>4 DEF HoldersFit, Kinds
<1>11. SpentMeansServed
  BY <1>1, <1>8 DEF SpentMeansServed
<1>12. QED
  BY <1>3, <1>6, <1>7, <1>9, <1>10, <1>11 DEF AInv, LoginInv, TokenInv

LEMMA AuthSteps ==
    ASSUME AInv, [Next]_vars
    PROVE  AInv'
<1>1. CASE Tick \/ UNCHANGED vars
  BY <1>1, TickStep
<1>2. CASE \E u \in Users : DeleteUser(u)
  BY <1>2, DeleteUserStep
<1>3. ASSUME NEW r \in Requests,
             \/ \E u \in Users, pw \in Passwords : Register(r, u, pw) \/ Login(r, u, pw)
             \/ \E u \in Users, old, new \in Passwords : ChangeCheck(r, u, old, new)
             \/ \E u \in Users : ForgotPassword(r, u) \/ ResendVerification(r, u)
      PROVE  AInv'
  BY <1>3, RegisterStep, LoginStep, ChangeCheckStep, ForgotPasswordStep
<1>4. ASSUME NEW r \in Requests, NEW i \in DOMAIN tokens,
             Logout(r, i) \/ \E pw \in NewPasswords(i) : Redeem(r, i, pw)
      PROVE  AInv'
  BY <1>4, LogoutStep, RedeemStep
<1>5. ASSUME NEW r \in Requests,
             \/ RegisterVerification(r) \/ IsLocked(r) \/ PurgeLock(r) \/ Compare(r)
             \/ RecordLoginAttempt(r) \/ CountFailures(r) \/ LockUntil(r)
             \/ LockAccount(r) \/ ClearLockout(r) \/ IssueRefresh(r)
      PROVE  AInv'
  BY <1>5, RegisterVerificationStep, IsLockedStep, PurgeLockStep, CompareStep,
     RecordLoginAttemptStep, CountFailuresStep, LockUntilStep, LockAccountStep,
     ClearLockoutStep, IssueRefreshStep
<1>6. ASSUME NEW r \in Requests,
             \/ RotateCommit(r) \/ ResetCommit(r) \/ VerifyCommit(r) \/ Rollback(r)
             \/ ChangeWrite(r)
      PROVE  AInv'
  BY <1>6, RotateCommitStep, ResetCommitStep, VerifyCommitStep, RollbackStep, ChangeWriteStep
<1>7. QED
  BY <1>1, <1>2, <1>3, <1>4, <1>5, <1>6 DEF Next

LEMMA AuthAlways == Spec => []AInv
<1>1. Init => AInv
  BY AuthStarts
<1>2. AInv /\ [Next]_vars => AInv'
  BY AuthSteps
<1>3. QED
  BY <1>1, <1>2, PTL DEF Spec

\* Locks are earned, however the queries of logins mix; and tokens buy what they stand for,
\* once if the requests that redeem them do not overlap: for every number of users, requests
\* and attempts, and every length of the windows.
THEOREM AuthStaysSound == Spec => []AuthIsSound
<1>1. AInv => AuthIsSound
  <2> SUFFICES ASSUME AInv PROVE AuthIsSound
    OBVIOUS
  <2>1. SpentMeansServed
    BY DEF AInv, TokenInv
  <2>2. RedeemedOnlyByOverlap
    <3> SUFFICES ASSUME NEW i \in DOMAIN tokens
                 PROVE  tokens[i].uses <= Cardinality(Requests)
      BY DEF RedeemedOnlyByOverlap
    <3>1. tokens[i].uses + Number(Held, {i}, Requests) <= Cardinality(Requests)
      BY DEF AInv, TokenInv, OverlapFits
    <3>2. Number(Held, {i}, Requests) \in Nat /\ Cardinality(Requests) \in Nat
      BY HeldBound
    <3>3. tokens[i].uses \in Nat
      BY Tables
    <3>4. QED
      BY <3>1, <3>2, <3>3
  <2>3. LockIsEarned
    BY DEF AInv, LoginInv, LocksFit, Due, LockIsEarned, Earned, FailuresAt
  <2>4. TypeOK
    <3>1. \A i \in DOMAIN tokens :
          /\ tokens[i].kind \in Kinds /\ tokens[i].user \in Users
          /\ tokens[i].from \in 0..(i - 1)
          /\ tokens[i].from # 0 => /\ tokens[tokens[i].from].kind = "refresh"
                                   /\ tokens[tokens[i].from].user = tokens[i].user
      <4>1. \A i \in DOMAIN tokens : tokens[i].kind \in Kinds /\ tokens[i].user \in Users
        BY Tables
      <4>2. QED
        BY <4>1 DEF AInv, TokenInv, TokenTypes
    <3>2. verified \subseteq Users
      BY Tables
    <3>3. QED
      BY <3>1, <3>2 DEF TypeOK, AInv, LoginInv, LoginTypes
  <2>5. QED
    BY <2>1, <2>2, <2>3, <2>4 DEF AuthIsSound, TokensAreSound
<1>2. QED
  BY <1>1, AuthAlways, PTL

\* A lock that is running is only extended, lifted by the right password, or replaced by a lock
\* whose end was computed earlier, and then cut by no more than the time that lock's upsert was
\* under way; the request that saw an older lock does not remove it: for every number of logins
\* and length of the lock.
THEOREM RunningLocksStay == Spec => RunningLockStays
<1> DEFINE Excused(u) ==
          \E r \in Requests :
             \/ req[r].pc = "clear" /\ req[r].user = u
             \/ /\ req[r].pc = "upsert" /\ req[r].user = u
                /\ lockedUntil'[u] >= req[r].seen
                /\ lockedUntil[u] - lockedUntil'[u] <= clock + LockDuration - req[r].seen
           Stays == \A u \in Users :
          lockedUntil[u] # Unlocked /\ clock <= lockedUntil[u] =>
          \/ lockedUntil'[u] >= lockedUntil[u]
          \/ Excused(u)
<1>1. AInv /\ [Next]_vars => [Stays]_vars
  <2> SUFFICES ASSUME AInv, Next, NEW u \in Users,
                      lockedUntil[u] # Unlocked, clock <= lockedUntil[u]
               PROVE  lockedUntil'[u] >= lockedUntil[u] \/ Excused(u)
    OBVIOUS
  <2>1. lockedUntil \in [Users -> Nat] /\ clock \in Nat
    BY Typed
  <2>2. CASE UNCHANGED lockedUntil
    BY <2>1, <2>2
  <2>3. ASSUME NEW r \in Requests, PurgeLock(r) PROVE lockedUntil'[u] >= lockedUntil[u]
    <3>1. /\ req[r].pc = "purge"
          /\ lockedUntil' = [lockedUntil EXCEPT ![req[r].user] =
                                IF @ = req[r].seen THEN Unlocked ELSE @]
      BY <2>3 DEF PurgeLock
    <3>2. req[r].seen < clock /\ req[r].seen \in Nat
      BY <3>1, RequestShape, Typed DEF AInv, LoginInv, LoginsFit
    <3>3. lockedUntil[u] # req[r].seen
      BY <2>1, <3>2
    <3>4. lockedUntil'[u] = lockedUntil[u]
      BY <2>1, <3>1, <3>3
    <3>5. QED
      BY <2>1, <3>4
  <2>4. ASSUME NEW r \in Requests, LockAccount(r)
        PROVE  lockedUntil'[u] >= lockedUntil[u] \/ Excused(u)
    <3>1. /\ req[r].pc = "upsert"
          /\ \/ lockedUntil' = [lockedUntil EXCEPT ![req[r].user] = req[r].seen]
             \/ UNCHANGED lockedUntil
      BY <2>4 DEF LockAccount
    <3>2. req[r].seen \in Nat
      BY <3>1, RequestShape, Typed
    <3>3. lockedUntil[u] <= clock + LockDuration /\ LockDuration \in Nat
      BY AuthAssumption DEF AInv, LoginInv, LocksFit, Due
    <3>4. CASE req[r].user = u /\ lockedUntil' = [lockedUntil EXCEPT ![req[r].user] = req[r].seen]
      <4>1. lockedUntil'[u] = req[r].seen
        BY <2>1, <3>4
      <4>2. lockedUntil[u] - lockedUntil'[u] <= clock + LockDuration - req[r].seen
        BY <2>1, <3>2, <3>3, <4>1
      <4>3. lockedUntil'[u] >= req[r].seen
        BY <3>2, <4>1
      <4>4. QED
        BY <3>1, <3>4, <4>2, <4>3
    <3>5. CASE req[r].user # u \/ UNCHANGED lockedUntil
      <4>1. lockedUntil'[u] = lockedUntil[u]
        BY <2>1, <3>1, <3>5
      <4>2. QED
        BY <2>1, <4>1
    <3>6. QED
      BY <3>1, <3>4, <3>5
  <2>5. ASSUME NEW r \in Requests, ClearLockout(r)
        PROVE  lockedUntil'[u] >= lockedUntil[u] \/ Excused(u)
    <3>1. /\ req[r].pc = "clear"
          /\ lockedUntil' = [lockedUntil EXCEPT ![req[r].user] = Unlocked] \/ UNCHANGED lockedUntil
      BY <2>5 DEF ClearLockout
    <3>2. CASE req[r].user = u
      BY <3>1, <3>2
    <3>3. CASE req[r].user # u
      <4>1. lockedUntil'[u] = lockedUntil[u]
        BY <2>1, <3>1, <3>3
      <4>2. QED
        BY <2>1, <4>1
    <3>4. QED
      BY <3>2, <3>3
  <2>6. \/ UNCHANGED lockedUntil
        \/ \E r \in Requests : PurgeLock(r) \/ LockAccount(r) \/ ClearLockout(r)
    <3>1. CASE Tick \/ \E v \in Users : DeleteUser(v)
      BY <3>1 DEF Tick, DeleteUser, loginVars
    <3>2. CASE \E r \in Requests :
                  \/ \E v \in Users, pw \in Passwords : Register(r, v, pw) \/ Login(r, v, pw)
                  \/ \E v \in Users, old, new \in Passwords : ChangeCheck(r, v, old, new)
                  \/ \E v \in Users : ForgotPassword(r, v) \/ ResendVerification(r, v)
      BY <3>2 DEF Register, Login, ChangeCheck, ForgotPassword, ResendVerification, loginVars
    <3>3. CASE \E r \in Requests, i \in DOMAIN tokens :
                  Logout(r, i) \/ \E pw \in NewPasswords(i) : Redeem(r, i, pw)
      BY <3>3 DEF Logout, Redeem, loginVars
    <3>4. CASE \E r \in Requests :
                  \/ RegisterVerification(r) \/ IsLocked(r) \/ Compare(r)
                  \/ RecordLoginAttempt(r) \/ CountFailures(r) \/ LockUntil(r)
                  \/ IssueRefresh(r) \/ RotateCommit(r) \/ ResetCommit(r) \/ VerifyCommit(r) \/ Rollback(r)
                  \/ ChangeWrite(r)
      BY <3>4 DEF RegisterVerification, IsLocked, Compare, RecordLoginAttempt, CountFailures,
         LockUntil, IssueRefresh, RotateCommit, ResetCommit, VerifyCommit, Rollback, ChangeWrite, loginVars
    <3>5. QED
      BY <3>1, <3>2, <3>3, <3>4 DEF Next
  <2>7. QED
    BY <2>2, <2>3, <2>4, <2>5, <2>6
<1>2. QED
  BY <1>1, AuthAlways, PTL DEF Spec, RunningLockStays

-----------------------------------------------------------------------------
(* The in-memory cache of the web server. *)

\* A set has one size, whichever module counts it.
LEMMA SameSize == \A S : Cache!Cardinality(S) = Cardinality(S)
BY DEF Cardinality, Cache!Cardinality

LoadRecord ==
    [key : Keys, value : 0..MaxVersion \cup {Cache!Unread}, readAt : 0..MaxClock,
     raced : BOOLEAN]
CallerState ==
    {Cache!Idle} \cup [pc : {"error"}] \cup [pc : {"wait"}, load : Loads]
           \cup [pc : {"answered"}, key : Keys, value : Nat]
EntryIn(ks) == [value : Nat, expiresAt : Nat, raced : BOOLEAN, before : SUBSET ks]

CacheTypes ==
    /\ time \in 0..MaxClock
    /\ version \in 0..MaxVersion /\ floor \in 0..version /\ changing \in 0..version
    /\ inflight \in [Keys -> Loads \cup {Cache!NoLoad}]
    /\ loads \in [Loads -> {Cache!Free} \cup LoadRecord]
    /\ caller \in [Callers -> CallerState]
    /\ changedAt \in Seq(Nat) /\ Len(changedAt) = version
    /\ slowest \in Nat

\* The two entries say the same.
SameEntry(e, f) == e.value = f.value /\ e.expiresAt = f.expiresAt /\ e.raced = f.raced

\* A Map whose keys are in a strict order.
IsMap(s) ==
    /\ s \in [DOMAIN s -> EntryIn(DOMAIN s)]
    /\ DOMAIN s \subseteq Keys /\ IsFiniteSet(DOMAIN s)
    /\ \A k \in DOMAIN s :
          k \notin s[k].before /\ \A j \in s[k].before : s[j].before \subseteq s[k].before

\* An entry is no older than its time to live, has the changes that were invalidated
\* unless its load raced, and leaves out no change that was older than TTL + slowest
\* when it expires.
EntrySound(k, e) ==
    /\ e.value <= version
    /\ TTL <= e.expiresAt /\ e.expiresAt <= time + TTL
    /\ k \in Cache!Swept => e.value >= floor \/ e.raced
    /\ \A w \in (e.value + 1)..version : changedAt[w] + slowest + TTL >= e.expiresAt

StoreSound ==
    /\ IsMap(store) /\ Cardinality(Cache!Cached) <= MaxEntries
    /\ \A k \in Cache!Cached : EntrySound(k, store[k])

\* So does what a load has read.
ReadSound(l) ==
    /\ l.value <= version /\ l.readAt <= time
    /\ l.key \in Cache!Swept => l.value >= floor \/ l.raced
    /\ \A w \in (l.value + 1)..version : changedAt[w] >= l.readAt

LoadsSound ==
    \A l \in Cache!Running : loads[l].value # Cache!Unread => ReadSound(loads[l])
ReadTimes == \A l \in Cache!Running : loads[l].readAt <= time

\* inflight is the inverse of the keys of the running loads.
OneLoadPerKey ==
    /\ \A l \in Cache!Running : inflight[loads[l].key] = l
    /\ \A k \in Keys : inflight[k] # Cache!NoLoad =>
          inflight[k] \in Cache!Running /\ loads[inflight[k]].key = k

CInv == CacheTypes /\ StoreSound /\ LoadsSound /\ ReadTimes /\ OneLoadPerKey

-----------------------------------------------------------------------------
(* The Map. *)

LEMMA WithoutIsMap ==
    ASSUME NEW s, IsMap(s), NEW ks
    PROVE  /\ IsMap(Cache!Without(s, ks)) /\ DOMAIN Cache!Without(s, ks) = DOMAIN s \ ks
           /\ \A k \in DOMAIN s \ ks : SameEntry(Cache!Without(s, ks)[k], s[k])
<1> DEFINE t == Cache!Without(s, ks)
           D == DOMAIN s
<1>1. DOMAIN t = D \ ks
  BY DEF Cache!Without
<1>2. \A k \in D \ ks :
         /\ t[k].value = s[k].value /\ t[k].expiresAt = s[k].expiresAt
         /\ t[k].raced = s[k].raced /\ t[k].before = s[k].before \ ks
         /\ t[k] \in EntryIn(D \ ks)
  BY DEF Cache!Without, IsMap, EntryIn
<1>3. t \in [D \ ks -> EntryIn(D \ ks)]
  BY <1>2 DEF Cache!Without
<1>4. D \ ks \subseteq Keys /\ IsFiniteSet(D \ ks)
  BY FS_Subset DEF IsMap
<1> HIDE DEF t
<1>5. ASSUME NEW k \in D \ ks
      PROVE  k \notin t[k].before /\ \A j \in t[k].before : t[j].before \subseteq t[k].before
  <2>1. s[k].before \subseteq D
    BY DEF IsMap, EntryIn
  <2>2. \A j \in s[k].before : s[j].before \subseteq s[k].before
    BY DEF IsMap
  <2>3. k \notin s[k].before
    BY DEF IsMap
  <2>4. QED
    BY <1>2, <2>1, <2>2, <2>3
<1>6. IsMap(t)
  BY <1>1, <1>3, <1>4, <1>5 DEF IsMap
<1>7. QED
  BY <1>1, <1>2, <1>6 DEF t, SameEntry

LEMMA WithLastIsMap ==
    ASSUME NEW s, IsMap(s), NEW k \in Keys, k \notin DOMAIN s,
           NEW e, e \in EntryIn(Keys)
    PROVE  /\ IsMap(Cache!WithLast(s, k, e)) /\ DOMAIN Cache!WithLast(s, k, e) = DOMAIN s \cup {k}
           /\ \A j \in DOMAIN s : Cache!WithLast(s, k, e)[j] = s[j]
           /\ SameEntry(Cache!WithLast(s, k, e)[k], e)
<1> DEFINE t == Cache!WithLast(s, k, e)
           D == DOMAIN s
           E == D \cup {k}
<1>1. DOMAIN t = E
  BY DEF Cache!WithLast
<1>2. \A j \in D : t[j] = s[j]
  BY DEF Cache!WithLast
<1>3. /\ t[k].value = e.value /\ t[k].expiresAt = e.expiresAt /\ t[k].raced = e.raced
      /\ t[k].before = D /\ t[k] \in EntryIn(E)
  BY DEF Cache!WithLast, EntryIn
<1>4. \A j \in D : s[j] \in EntryIn(E)
  BY DEF IsMap, EntryIn
<1>5. t \in [E -> EntryIn(E)]
  BY <1>2, <1>3, <1>4 DEF Cache!WithLast
<1>6. E \subseteq Keys /\ IsFiniteSet(E)
  BY FS_AddElement DEF IsMap
<1> HIDE DEF t
<1>7. ASSUME NEW j \in E
      PROVE  j \notin t[j].before /\ \A i \in t[j].before : t[i].before \subseteq t[j].before
  <2>1. \A i \in D : s[i].before \subseteq D
    BY DEF IsMap, EntryIn
  <2>2. CASE j = k
    BY <1>2, <1>3, <2>1, <2>2
  <2>3. CASE j \in D
    <3>1. j \notin s[j].before /\ \A i \in s[j].before : s[i].before \subseteq s[j].before
      BY <2>3 DEF IsMap
    <3>2. QED
      BY <1>2, <2>1, <2>3, <3>1
  <2>4. QED
    BY <2>2, <2>3
<1>8. IsMap(t)
  BY <1>1, <1>5, <1>6, <1>7 DEF IsMap
<1>9. QED
  BY <1>1, <1>2, <1>3, <1>8 DEF t, SameEntry

\* A Map with entries has a first one.
LEMMA HasFirst ==
    ASSUME NEW s, IsMap(s), DOMAIN s # {}
    PROVE  \E k \in DOMAIN s : s[k].before = {}
<1> DEFINE D == DOMAIN s
           f == [k \in D |-> Cardinality(s[k].before)]
<1>1. \A k \in D : s[k].before \subseteq D
  BY DEF IsMap, EntryIn
<1>2. \A k \in D : IsFiniteSet(s[k].before) /\ f[k] \in Nat
  BY <1>1, FS_Subset, FS_CardinalityType DEF IsMap
<1>3. f \in [D -> Int]
  BY <1>2
<1>4. PICK k \in D : \A j \in D : f[k] <= f[j]
  BY <1>3, HasLeast DEF IsMap
<1>5. ASSUME NEW j \in s[k].before PROVE FALSE
  <2>1. j \in D /\ s[j].before \subseteq s[k].before \ {j}
    BY <1>1, <1>4 DEF IsMap
  <2>2. /\ IsFiniteSet(s[k].before \ {j})
        /\ Cardinality(s[k].before \ {j}) = Cardinality(s[k].before) - 1
    BY <1>2, <1>4, <1>5, FS_RemoveElement
  <2>3. Cardinality(s[j].before) <= Cardinality(s[k].before \ {j})
    BY <2>1, <2>2, FS_Subset
  <2>4. f[j] < f[k]
    BY <1>2, <1>4, <2>1, <2>2, <2>3
  <2>5. QED
    BY <1>2, <1>4, <2>1, <2>4
<1>6. QED
  BY <1>4, <1>5

\* A hit keeps every entry, a miss drops at most the expired one.
LEMMA TouchedKeeps ==
    ASSUME Cache!CacheConstants, StoreSound, NEW k \in Keys
    PROVE  /\ IsMap(Cache!Touched(k)) /\ Cardinality(DOMAIN Cache!Touched(k)) <= MaxEntries
           /\ DOMAIN Cache!Touched(k) \subseteq Cache!Cached
           /\ \A j \in DOMAIN Cache!Touched(k) : SameEntry(Cache!Touched(k)[j], store[j])
<1> DEFINE u == Cache!Without(store, {k})
<1>1. /\ IsMap(u) /\ DOMAIN u = Cache!Cached \ {k}
      /\ \A j \in Cache!Cached \ {k} : SameEntry(u[j], store[j])
  <2>1. IsMap(store)
    BY DEF StoreSound
  <2>2. QED
    BY <2>1, WithoutIsMap DEF Cache!Cached
<1>2. /\ IsFiniteSet(Cache!Cached) /\ Cardinality(Cache!Cached) \in Nat
      /\ Cardinality(Cache!Cached) <= MaxEntries
  BY FS_CardinalityType DEF StoreSound, IsMap, Cache!Cached
<1>3. \A S \in SUBSET Cache!Cached : Cardinality(S) <= MaxEntries
  BY <1>2, FS_Subset, FS_CardinalityType DEF Cache!CacheConstants
<1> HIDE DEF u
<1>4. CASE ~Cache!Alive(k)
  <2>1. Cache!Touched(k) = u
    BY <1>4 DEF Cache!Touched, u
  <2>2. QED
    BY <1>1, <1>3, <2>1
<1>5. CASE Cache!Alive(k)
  <2> DEFINE t == Cache!WithLast(u, k, store[k])
  <2>1. Cache!Touched(k) = t /\ k \in Cache!Cached
    BY <1>5 DEF Cache!Touched, u, Cache!Alive
  <2>2. store[k] \in EntryIn(Keys)
    BY <2>1 DEF StoreSound, IsMap, Cache!Cached, EntryIn
  <2>3. /\ IsMap(t) /\ DOMAIN t = (Cache!Cached \ {k}) \cup {k}
        /\ \A j \in DOMAIN u : t[j] = u[j]
        /\ SameEntry(t[k], store[k])
    <3>1. IsMap(u) /\ DOMAIN u = Cache!Cached \ {k}
      BY <1>1
    <3>2. k \notin DOMAIN u
      BY <3>1
    <3>3. /\ IsMap(t) /\ DOMAIN t = DOMAIN u \cup {k}
          /\ \A j \in DOMAIN u : t[j] = u[j]
          /\ SameEntry(t[k], store[k])
      BY <2>2, <3>1, <3>2, WithLastIsMap, ZenonT(30)
    <3>4. QED
      BY <3>1, <3>3
  <2> HIDE DEF t
  <2>4. DOMAIN t = Cache!Cached
    BY <2>1, <2>3
  <2>5. \A j \in DOMAIN t : SameEntry(t[j], store[j])
    BY <1>1, <2>3, <2>4
  <2>6. QED
    BY <1>3, <2>1, <2>3, <2>4, <2>5
<1>6. QED
  BY <1>4, <1>5

\* A new entry fits: what is dropped for it makes room.
LEMMA PutKeeps ==
    ASSUME Cache!CacheConstants, StoreSound, NEW k \in Keys, NEW e \in EntryIn({})
    PROVE  /\ IsMap(Cache!Put(k, e)) /\ Cardinality(DOMAIN Cache!Put(k, e)) <= MaxEntries
           /\ DOMAIN Cache!Put(k, e) \subseteq Cache!Cached \cup {k}
           /\ \A j \in DOMAIN Cache!Put(k, e) :
                 SameEntry(Cache!Put(k, e)[j], IF j = k THEN e ELSE store[j])
<1>1. /\ IsMap(store) /\ IsFiniteSet(Cache!Cached) /\ Cardinality(Cache!Cached) \in Nat
      /\ Cardinality(Cache!Cached) <= MaxEntries /\ MaxEntries \in Nat \ {0}
  BY FS_CardinalityType DEF StoreSound, IsMap, Cache!Cached, Cache!CacheConstants
<1>2. CASE k \in Cache!Cached
  <2> DEFINE t == [store EXCEPT ![k] = [e EXCEPT !.before = store[k].before]]
  <2>1. store \in [Cache!Cached -> EntryIn(Cache!Cached)]
    BY <1>1 DEF IsMap, Cache!Cached
  <2>2. DOMAIN t = Cache!Cached
    BY <2>1
  <2>3. \A j \in Cache!Cached : /\ t[j] \in EntryIn(Cache!Cached) /\ t[j].before = store[j].before
                          /\ SameEntry(t[j], IF j = k THEN e ELSE store[j])
    BY <1>2, <2>1 DEF EntryIn, SameEntry
  <2>4. t \in [Cache!Cached -> EntryIn(Cache!Cached)]
    BY <2>1, <2>3
  <2> HIDE DEF t
  <2>5. IsMap(t)
    BY <1>1, <2>1, <2>2, <2>3, <2>4 DEF IsMap, Cache!Cached, EntryIn
  <2>6. Cache!Put(k, e) = t
    BY <1>2 DEF Cache!Put, t
  <2>7. QED
    BY <1>1, <2>2, <2>3, <2>5, <2>6
<1>3. CASE k \notin Cache!Cached
  <2>1. /\ IsMap(Cache!Room) /\ DOMAIN Cache!Room \subseteq Cache!Cached
        /\ Cardinality(DOMAIN Cache!Room) < MaxEntries
        /\ \A j \in DOMAIN Cache!Room : SameEntry(Cache!Room[j], store[j])
    <3>1. CASE Cardinality(Cache!Cached) >= MaxEntries
      <4>1. Cache!Room = Cache!Without(store, Cache!First)
        BY <3>1, SameSize DEF Cache!Room
      <4>2. Cache!Cached # {}
        BY <1>1, <3>1, FS_EmptySet
      <4>3. PICK j \in Cache!Cached : j \in Cache!First
        BY <1>1, <4>2, HasFirst DEF Cache!First, Cache!Cached
      <4>4. /\ IsMap(Cache!Room) /\ DOMAIN Cache!Room = Cache!Cached \ Cache!First
            /\ \A i \in Cache!Cached \ Cache!First : SameEntry(Cache!Room[i], store[i])
        BY <1>1, <4>1, WithoutIsMap DEF Cache!Cached
      <4>5. /\ IsFiniteSet(Cache!Cached \ {j})
            /\ Cardinality(Cache!Cached \ {j}) = Cardinality(Cache!Cached) - 1
        BY <1>1, <4>3, FS_RemoveElement
      <4>6. Cache!Cached \ Cache!First \subseteq Cache!Cached \ {j}
        BY <4>3
      <4>7. /\ Cardinality(Cache!Cached \ Cache!First) \in Nat
            /\ Cardinality(Cache!Cached \ Cache!First) <= Cardinality(Cache!Cached \ {j})
        BY <4>5, <4>6, FS_Subset, FS_CardinalityType
      <4>8. QED
        BY <1>1, <4>4, <4>5, <4>7
    <3>2. CASE Cardinality(Cache!Cached) < MaxEntries
      BY <1>1, <3>2, SameSize DEF Cache!Room, Cache!Cached, SameEntry
    <3>3. QED
      BY <1>1, <3>1, <3>2
  <2> DEFINE t == Cache!WithLast(Cache!Room, k, e)
  <2>2. e \in EntryIn(Keys)
    BY DEF EntryIn
  <2>3. /\ IsMap(t) /\ DOMAIN t = DOMAIN Cache!Room \cup {k}
        /\ \A j \in DOMAIN Cache!Room : t[j] = Cache!Room[j]
        /\ SameEntry(t[k], e)
    BY <1>3, <2>1, <2>2, WithLastIsMap
  <2> HIDE DEF t
  <2>4. IsFiniteSet(DOMAIN Cache!Room) /\ Cardinality(DOMAIN Cache!Room) \in Nat
    BY <2>1, FS_CardinalityType DEF IsMap
  <2>5. Cardinality(DOMAIN t) = Cardinality(DOMAIN Cache!Room) + 1
    BY <1>3, <2>1, <2>3, <2>4, FS_AddElement
  <2>6. Cache!Put(k, e) = t
    BY <1>3 DEF Cache!Put, t
  <2>7. \A j \in DOMAIN t : SameEntry(t[j], IF j = k THEN e ELSE store[j])
    BY <1>3, <2>1, <2>3
  <2>8. QED
    BY <1>1, <2>1, <2>3, <2>4, <2>5, <2>6, <2>7
<1>4. QED
  BY <1>2, <1>3

-----------------------------------------------------------------------------
(* The steps. *)

LEMMA FreeIsNoLoad == Cache!Free \notin LoadRecord
<1> SUFFICES ASSUME Cache!Free \in LoadRecord PROVE FALSE
  OBVIOUS
<1>1. DOMAIN Cache!Free = {"key"}
  BY DEF Cache!Free
<1>2. "value" \in DOMAIN Cache!Free
  BY DEF LoadRecord
<1>3. QED
  BY <1>1, <1>2

\* What has been established of an entry stays so when nothing has changed but the time, and
\* the slowest load.
LEMMA EntryStays ==
    ASSUME CInv, CacheTypes', Cache!CacheConstants,
           UNCHANGED <<version, floor, changedAt>>, time <= time', slowest <= slowest',
           NEW k \in Cache!Cached, SameEntry(store'[k], store[k])
    PROVE  EntrySound(k, store[k])'
<1> DEFINE e == store[k]
           f == store'[k]
<1>1. e.value \in Nat /\ e.expiresAt \in Nat /\ EntrySound(k, e)
  BY DEF CInv, StoreSound, IsMap, Cache!Cached, EntryIn
<1>2. f.value = e.value /\ f.expiresAt = e.expiresAt /\ f.raced = e.raced
  BY DEF SameEntry
<1> HIDE DEF e, f
<1>3. slowest \in Nat /\ slowest' \in Nat /\ time \in Nat /\ time' \in Nat /\ TTL \in Nat
      /\ version \in Nat
  BY DEF CInv, CacheTypes, Cache!CacheConstants
<1>4. \A w \in (e.value + 1)..version :
         changedAt[w] \in Nat /\ changedAt[w] + slowest + TTL >= e.expiresAt
  <2>1. \A w \in 1..version : changedAt[w] \in Nat
    BY DEF CInv, CacheTypes
  <2>2. \A w \in (e.value + 1)..version : changedAt[w] + slowest + TTL >= e.expiresAt
    BY <1>1 DEF EntrySound
  <2>3. QED
    BY <1>1, <1>3, <2>1, <2>2
<1>5. \A w \in (f.value + 1)..version' : changedAt'[w] + slowest' + TTL >= f.expiresAt
  BY <1>1, <1>2, <1>3, <1>4
<1>6. f.value <= version' /\ TTL <= f.expiresAt /\ f.expiresAt <= time' + TTL
  BY <1>1, <1>2, <1>3 DEF EntrySound
<1>7. k \in Cache!Swept => f.value >= floor' \/ f.raced
  BY <1>1, <1>2 DEF EntrySound
<1>8. QED
  BY <1>5, <1>6, <1>7 DEF EntrySound, f

LEMMA CacheInit == Cache!CacheConstants /\ Cache!Init => CInv
<1> SUFFICES ASSUME Cache!CacheConstants, Cache!Init PROVE CInv
  OBVIOUS
<1>1. CacheTypes
  BY DEF Cache!Init, CacheTypes, Cache!CacheConstants, CallerState, Cache!Idle, Cache!Free
<1>2. IsMap(store) /\ Cache!Cached = {}
  BY FS_EmptySet DEF Cache!Init, IsMap, Cache!Cached, EntryIn
<1>3. StoreSound
  BY <1>2, FS_EmptySet DEF StoreSound, Cache!CacheConstants
<1>4. Cache!Running = {}
  BY DEF Cache!Init, Cache!Running
<1>5. LoadsSound /\ ReadTimes /\ OneLoadPerKey
  BY <1>4 DEF LoadsSound, ReadTimes, OneLoadPerKey, Cache!Init
<1>6. QED
  BY <1>1, <1>3, <1>5 DEF CInv

\* The step leaves the loads alone, or adds one that has not read.
LEMMA RememberStep ==
    ASSUME Cache!CacheConstants, CInv, NEW c \in Callers, NEW k \in Keys, Cache!Remember(c, k)
    PROVE  CInv'
<1> DEFINE l0 == [key |-> k, value |-> Cache!Unread, readAt |-> time, raced |-> FALSE]
<1>1. UNCHANGED <<time, version, changing, floor, changedAt, slowest>> /\ store' = Cache!Touched(k)
  BY DEF Cache!Remember, Cache!history
<1>2. l0 \in LoadRecord
  BY DEF LoadRecord, Cache!Unread, CInv, CacheTypes, Cache!CacheConstants
<1>3. \A j \in Cache!Cached : store[j].value \in Nat
  BY DEF CInv, StoreSound, IsMap, Cache!Cached, EntryIn
<1>4. CacheTypes'
  <2>1. CASE Cache!Hit(c, k)
    <3>1. Cache!Answer(k, store[k].value) \in CallerState
      BY <1>3, <2>1 DEF Cache!Hit, Cache!Alive, Cache!Answer, CallerState
    <3>2. caller' \in [Callers -> CallerState]
      BY <2>1, <3>1 DEF Cache!Hit, CInv, CacheTypes
    <3>3. QED
      BY <1>1, <2>1, <3>2 DEF Cache!Hit, CInv, CacheTypes
  <2>2. CASE Cache!Join(c, k)
    <3>1. [pc |-> "wait", load |-> inflight[k]] \in CallerState
      BY <2>2 DEF Cache!Join, CInv, CacheTypes, CallerState
    <3>2. caller' \in [Callers -> CallerState]
      BY <2>2, <3>1 DEF Cache!Join, CInv, CacheTypes
    <3>3. QED
      BY <1>1, <2>2, <3>2 DEF Cache!Join, CInv, CacheTypes
  <2>3. CASE Cache!Start(c, k)
    <3>1. PICK l \in Loads \ Cache!Running :
             /\ loads' = [loads EXCEPT ![l] = l0]
             /\ inflight' = [inflight EXCEPT ![k] = l]
             /\ caller' = [caller EXCEPT ![c] = [pc |-> "wait", load |-> l]]
      BY <2>3 DEF Cache!Start
    <3>2. [pc |-> "wait", load |-> l] \in CallerState
      BY DEF CallerState
    <3> HIDE DEF l0
    <3>3. /\ caller' \in [Callers -> CallerState]
          /\ inflight' \in [Keys -> Loads \cup {Cache!NoLoad}]
          /\ loads' \in [Loads -> {Cache!Free} \cup LoadRecord]
      BY <1>2, <3>1, <3>2 DEF CInv, CacheTypes
    <3>4. QED
      BY <1>1, <3>3 DEF CInv, CacheTypes
  <2>4. QED
    BY <2>1, <2>2, <2>3 DEF Cache!Remember
<1>5. StoreSound'
  <2>1. /\ IsMap(store') /\ Cardinality(DOMAIN store') <= MaxEntries
        /\ DOMAIN store' \subseteq Cache!Cached
        /\ \A j \in DOMAIN store' : SameEntry(store'[j], store[j])
    BY <1>1, TouchedKeeps DEF CInv
  <2>2. time <= time' /\ slowest <= slowest'
    BY <1>1 DEF CInv, CacheTypes
  <2>3. \A j \in DOMAIN store' : EntrySound(j, store[j])'
    BY <1>1, <1>4, <2>1, <2>2, EntryStays
  <2>4. QED
    BY <2>1, <2>3 DEF StoreSound, Cache!Cached
<1>6. LoadsSound' /\ ReadTimes' /\ OneLoadPerKey'
  <2>1. CASE UNCHANGED <<inflight, loads>>
    BY <1>1, <2>1 DEF CInv, LoadsSound, ReadTimes, ReadSound, OneLoadPerKey, Cache!Running
  <2>2. CASE Cache!Start(c, k)
    <3>1. PICK l \in Loads \ Cache!Running :
             /\ loads' = [loads EXCEPT ![l] = l0]
             /\ inflight' = [inflight EXCEPT ![k] = l]
      BY <2>2 DEF Cache!Start
    <3>2. l0.key = k /\ l0.value = Cache!Unread /\ l0.readAt = time /\ l0 # Cache!Free
      BY <1>2, FreeIsNoLoad
    <3> HIDE DEF l0
    <3>3. loads'[l] = l0 /\ \A m \in Loads \ {l} : loads'[m] = loads[m]
      BY <3>1 DEF CInv, CacheTypes
    <3>4. inflight'[k] = l /\ \A j \in Keys \ {k} : inflight'[j] = inflight[j]
      BY <3>1 DEF CInv, CacheTypes
    <3>5. Cache!Running' = Cache!Running \cup {l}
      BY <3>1, <3>2, <3>3 DEF Cache!Running
    <3>6. \A m \in Cache!Running : loads[m].key \in Keys /\ loads[m].key # k
      <4>1. inflight[k] = Cache!NoLoad /\ Cache!NoLoad \notin Loads
        BY <2>2 DEF Cache!Start, Cache!CacheConstants, Cache!NoLoad
      <4>2. QED
        BY <4>1 DEF CInv, OneLoadPerKey, Cache!Running, CacheTypes, LoadRecord
    <3>7. LoadsSound'
      BY <1>1, <3>1, <3>2, <3>3, <3>5 DEF CInv, LoadsSound, ReadSound, Cache!Running
    <3>8. ReadTimes'
      BY <1>1, <3>1, <3>2, <3>3, <3>5 DEF CInv, ReadTimes, Cache!Running, CacheTypes
    <3>9. OneLoadPerKey'
      <4>1. \A m \in Cache!Running' : inflight'[loads'[m].key] = m
        BY <3>1, <3>2, <3>3, <3>4, <3>5, <3>6 DEF CInv, OneLoadPerKey, Cache!Running
      <4>2. ASSUME NEW j \in Keys, inflight'[j] # Cache!NoLoad
            PROVE  inflight'[j] \in Cache!Running' /\ loads'[inflight'[j]].key = j
        BY <3>1, <3>2, <3>3, <3>4, <3>5, <4>2 DEF CInv, OneLoadPerKey, Cache!Running
      <4>3. QED
        BY <4>1, <4>2 DEF OneLoadPerKey
    <3>10. QED
      BY <3>7, <3>8, <3>9
  <2>3. QED
    BY <2>1, <2>2 DEF Cache!Remember, Cache!Hit, Cache!Join
<1>7. QED
  BY <1>4, <1>5, <1>6 DEF CInv

LEMMA LoadReadStep ==
    ASSUME Cache!CacheConstants, CInv, NEW l \in Loads, Cache!LoadRead(l)
    PROVE  CInv'
<1> DEFINE l1 == [loads[l] EXCEPT !.value = version, !.readAt = time]
<1>1. /\ UNCHANGED <<time, version, changing, store, inflight, caller, floor, changedAt, slowest>>
      /\ l \in Cache!Running /\ loads[l] \in LoadRecord
      /\ loads' = [loads EXCEPT ![l] = l1]
  BY DEF Cache!LoadRead, Cache!history, Cache!Running, CInv, CacheTypes
<1>2. /\ l1 \in LoadRecord /\ l1 # Cache!Free /\ l1.key = loads[l].key /\ l1.value = version
      /\ l1.readAt = time
  BY <1>1, FreeIsNoLoad DEF LoadRecord, CInv, CacheTypes
<1> HIDE DEF l1
<1>3. loads'[l] = l1 /\ \A m \in Loads \ {l} : loads'[m] = loads[m]
  BY <1>1 DEF CInv, CacheTypes
<1>4. Cache!Running' = Cache!Running
  BY <1>1, <1>2, <1>3 DEF Cache!Running
<1>5. CacheTypes'
  BY <1>1, <1>2 DEF CInv, CacheTypes
<1>6. StoreSound'
  BY <1>1 DEF CInv, StoreSound, EntrySound, Cache!Cached
<1>7. ReadSound(loads[l])'
  BY <1>1, <1>2, <1>3 DEF ReadSound, CInv, CacheTypes
<1>8. LoadsSound'
  BY <1>1, <1>3, <1>4, <1>7 DEF CInv, LoadsSound, ReadSound, Cache!Running
<1>9. ReadTimes'
  BY <1>1, <1>2, <1>3, <1>4 DEF CInv, CacheTypes, ReadTimes, Cache!Running
<1>10. OneLoadPerKey'
  BY <1>1, <1>2, <1>3, <1>4 DEF CInv, OneLoadPerKey, Cache!Running
<1>11. QED
  BY <1>5, <1>6, <1>8, <1>9, <1>10 DEF CInv

\* A load ends: nobody waits for it under its key.
LEMMA LoadEnds ==
    ASSUME CInv, NEW l \in Cache!Running, UNCHANGED <<version, floor, changedAt, time>>,
           loads' = [loads EXCEPT ![l] = Cache!Free],
           inflight' = [inflight EXCEPT ![loads[l].key] = Cache!NoLoad]
    PROVE  LoadsSound' /\ ReadTimes' /\ OneLoadPerKey'
<1>1. Cache!Running' = Cache!Running \ {l} /\ l \in Loads /\ loads[l] \in LoadRecord
  BY DEF Cache!Running, CInv, CacheTypes
<1>2. \A m \in Cache!Running \ {l} : loads'[m] = loads[m]
  BY DEF Cache!Running, CInv, CacheTypes
<1>3. LoadsSound' /\ ReadTimes'
  BY <1>1, <1>2 DEF CInv, LoadsSound, ReadTimes, ReadSound
<1>4. loads[l].key \in Keys /\ \A m \in Cache!Running \ {l} : loads[m].key # loads[l].key
  BY <1>1 DEF CInv, OneLoadPerKey, LoadRecord
<1>5. /\ inflight'[loads[l].key] = Cache!NoLoad
      /\ \A k \in Keys \ {loads[l].key} : inflight'[k] = inflight[k]
  BY <1>4 DEF CInv, CacheTypes
<1>6. \A m \in Cache!Running' : inflight'[loads'[m].key] = m
  <2> TAKE m \in Cache!Running'
  <2>1. m \in Cache!Running \ {l} /\ loads'[m] = loads[m] /\ loads[m].key # loads[l].key
    BY <1>1, <1>2, <1>4
  <2>2. loads[m].key \in Keys
    BY <2>1 DEF Cache!Running, CInv, CacheTypes, LoadRecord
  <2>3. QED
    BY <1>5, <2>1, <2>2 DEF CInv, OneLoadPerKey
<1>7. ASSUME NEW k \in Keys, inflight'[k] # Cache!NoLoad
      PROVE  inflight'[k] \in Cache!Running' /\ loads'[inflight'[k]].key = k
  <2>1. k # loads[l].key /\ inflight'[k] = inflight[k]
    BY <1>5, <1>7
  <2>2. inflight[k] \in Cache!Running /\ loads[inflight[k]].key = k
    BY <1>7, <2>1 DEF CInv, OneLoadPerKey
  <2>3. QED
    BY <1>1, <1>2, <2>1, <2>2
<1>8. QED
  BY <1>3, <1>6, <1>7 DEF OneLoadPerKey

LEMMA SettleTypes ==
    ASSUME CInv, NEW l, NEW o \in CallerState
    PROVE  Cache!Settle(l, o) \in [Callers -> CallerState]
BY DEF Cache!Settle, CInv, CacheTypes

LEMMA LoadFailStep ==
    ASSUME Cache!CacheConstants, CInv, NEW l \in Loads, Cache!LoadFail(l)
    PROVE  CInv'
<1>1. /\ UNCHANGED <<time, version, changing, store, floor, changedAt, slowest>>
      /\ l \in Cache!Running
      /\ loads' = [loads EXCEPT ![l] = Cache!Free]
      /\ inflight' = [inflight EXCEPT ![loads[l].key] = Cache!NoLoad]
      /\ caller' = Cache!Settle(l, [pc |-> "error"])
  BY DEF Cache!LoadFail, Cache!history
<1>2. [pc |-> "error"] \in CallerState
  BY DEF CallerState
<1>3. CacheTypes'
  BY <1>1, <1>2, SettleTypes DEF CInv, CacheTypes
<1>4. StoreSound'
  BY <1>1 DEF CInv, StoreSound, EntrySound, Cache!Cached
<1>5. QED
  BY <1>1, <1>3, <1>4, LoadEnds DEF CInv

\* What a load that ends has read is sound as an entry.
LEMMA NewEntry ==
    ASSUME Cache!CacheConstants, CInv, CacheTypes', NEW l \in Loads, Cache!LoadDone(l)
    PROVE  /\ Cache!Entry(loads[l].value, time + TTL, loads[l].raced) \in EntryIn({})
           /\ loads[l].key \in Keys /\ loads[l].value \in 0..version
           /\ slowest <= slowest' /\ time - loads[l].readAt <= slowest'
           /\ \A w \in (loads[l].value + 1)..version :
                 changedAt[w] + slowest' + TTL >= time + TTL
<1>1. /\ loads[l] \in LoadRecord /\ ReadSound(loads[l]) /\ loads[l].value # Cache!Unread
      /\ slowest' = Cache!Max2(slowest, time - loads[l].readAt)
  BY DEF Cache!LoadDone, Cache!Running, CInv, CacheTypes, LoadsSound
<1>2. /\ loads[l].key \in Keys /\ loads[l].value \in 0..version /\ loads[l].raced \in BOOLEAN
      /\ loads[l].readAt \in Nat /\ loads[l].readAt <= time
  BY <1>1 DEF LoadRecord, ReadSound, CInv, CacheTypes
<1>3. time \in Nat /\ TTL \in Nat /\ slowest \in Nat /\ version \in Nat
      /\ \A w \in 1..version : changedAt[w] \in Nat
  BY DEF CInv, CacheTypes, Cache!CacheConstants
<1>4. Cache!Entry(loads[l].value, time + TTL, loads[l].raced) \in EntryIn({})
  BY <1>2, <1>3 DEF Cache!Entry, EntryIn
<1>5. /\ slowest \in Int /\ slowest' \in Int /\ slowest <= slowest'
      /\ time - loads[l].readAt <= slowest'
  BY <1>1, <1>2, <1>3 DEF Cache!Max2
<1>6. \A w \in (loads[l].value + 1)..version : changedAt[w] >= loads[l].readAt
  BY <1>1 DEF ReadSound
<1>7. ASSUME NEW w \in (loads[l].value + 1)..version
      PROVE  changedAt[w] + slowest' + TTL >= time + TTL
  <2>1. changedAt[w] \in Nat /\ changedAt[w] >= loads[l].readAt
    BY <1>2, <1>3, <1>6
  <2>2. QED
    BY <1>2, <1>3, <1>5, <2>1
<1>8. QED
  BY <1>2, <1>4, <1>5, <1>7

LEMMA LoadDoneStep ==
    ASSUME Cache!CacheConstants, CInv, NEW l \in Loads, Cache!LoadDone(l)
    PROVE  CInv'
<1> DEFINE k == loads[l].key
           e == Cache!Entry(loads[l].value, time + TTL, loads[l].raced)
<1>1. /\ UNCHANGED <<time, version, changing, floor, changedAt>>
      /\ l \in Cache!Running /\ loads[l].value # Cache!Unread
      /\ store' = Cache!Put(k, e)
      /\ loads' = [loads EXCEPT ![l] = Cache!Free]
      /\ inflight' = [inflight EXCEPT ![k] = Cache!NoLoad]
      /\ caller' = Cache!Settle(l, Cache!Answer(k, loads[l].value))
      /\ slowest' = Cache!Max2(slowest, time - loads[l].readAt)
  BY DEF Cache!LoadDone
<1>2. CacheTypes'
  <2>1. loads[l] \in LoadRecord /\ ReadSound(loads[l])
    BY <1>1 DEF Cache!Running, CInv, CacheTypes, LoadsSound
  <2>2. /\ loads[l].key \in Keys /\ loads[l].value \in Nat
        /\ loads[l].readAt \in Nat /\ loads[l].readAt <= time
    BY <2>1 DEF LoadRecord, Cache!Unread, ReadSound, CInv, CacheTypes, Cache!CacheConstants
  <2>3. Cache!Answer(k, loads[l].value) \in CallerState
    BY <2>2 DEF Cache!Answer, CallerState
  <2>4. caller' \in [Callers -> CallerState]
    BY <1>1, <2>3, SettleTypes
  <2>5. slowest' \in Nat
    BY <1>1, <2>2 DEF Cache!Max2, CInv, CacheTypes
  <2>6. QED
    BY <1>1, <2>2, <2>4, <2>5 DEF CInv, CacheTypes
<1>3. StoreSound'
  <2>1. /\ e \in EntryIn({}) /\ k \in Keys /\ loads[l].value \in 0..version
        /\ slowest <= slowest'
        /\ \A w \in (loads[l].value + 1)..version :
              changedAt[w] + slowest' + TTL >= time + TTL
    BY <1>2, NewEntry
  <2>2. e.value = loads[l].value /\ e.expiresAt = time + TTL /\ e.raced = loads[l].raced
    BY DEF Cache!Entry
  <2> HIDE DEF e, k
  <2>3. /\ IsMap(store') /\ Cardinality(DOMAIN store') <= MaxEntries
        /\ DOMAIN store' \subseteq Cache!Cached \cup {k}
        /\ \A j \in DOMAIN store' : SameEntry(store'[j], IF j = k THEN e ELSE store[j])
    BY <1>1, <2>1, PutKeeps DEF CInv
  <2>4. ASSUME NEW j \in DOMAIN store' PROVE EntrySound(j, store[j])'
    <3>1. CASE j # k
      <4>1. j \in Cache!Cached /\ SameEntry(store'[j], store[j])
        BY <2>3, <3>1
      <4>2. time <= time' /\ slowest <= slowest'
        BY <1>1, <2>1 DEF CInv, CacheTypes
      <4>3. QED
        BY <1>1, <1>2, <4>1, <4>2, EntryStays
    <3>2. CASE j = k
      <4>1. SameEntry(store'[j], e)
        BY <2>3, <3>2
      <4>2. /\ store'[j].value = loads[l].value /\ store'[j].expiresAt = time + TTL
            /\ store'[j].raced = loads[l].raced
        BY <2>2, <4>1 DEF SameEntry
      <4>3. k \in Cache!Swept => loads[l].value >= floor \/ loads[l].raced
        BY <1>1 DEF CInv, LoadsSound, ReadSound, k
      <4>4. time \in Nat /\ TTL \in Nat
        BY DEF CInv, CacheTypes, Cache!CacheConstants
      <4>5. \A w \in (store'[j].value + 1)..version' :
               changedAt'[w] + slowest' + TTL >= store'[j].expiresAt
        BY <1>1, <2>1, <4>2
      <4>6. store'[j].value <= version' /\ TTL <= store'[j].expiresAt
            /\ store'[j].expiresAt <= time' + TTL
        BY <1>1, <2>1, <4>2, <4>4
      <4>7. j \in Cache!Swept => store'[j].value >= floor' \/ store'[j].raced
        BY <1>1, <3>2, <4>2, <4>3
      <4>8. QED
        BY <4>5, <4>6, <4>7 DEF EntrySound
    <3>3. QED
      BY <3>1, <3>2
  <2>5. QED
    BY <2>3, <2>4 DEF StoreSound, Cache!Cached
<1>4. LoadsSound' /\ ReadTimes' /\ OneLoadPerKey'
  BY <1>1, LoadEnds
<1>5. QED
  BY <1>2, <1>3, <1>4 DEF CInv

LEMMA RespondStep ==
    ASSUME Cache!CacheConstants, CInv, NEW c \in Callers, Cache!Respond(c)
    PROVE  CInv'
<1>1. /\ UNCHANGED <<time, version, changing, store, inflight, loads, floor, changedAt, slowest>>
      /\ caller' = [caller EXCEPT ![c] = Cache!Idle]
  BY DEF Cache!Respond, Cache!history
<1>2. caller' \in [Callers -> CallerState]
  BY <1>1 DEF CInv, CacheTypes, CallerState
<1>3. CacheTypes'
  BY <1>1, <1>2 DEF CInv, CacheTypes
<1>4. StoreSound' /\ LoadsSound' /\ ReadTimes' /\ OneLoadPerKey'
  BY <1>1 DEF CInv, StoreSound, EntrySound, Cache!Cached, LoadsSound, ReadSound, ReadTimes,
              OneLoadPerKey, Cache!Running
<1>5. QED
  BY <1>3, <1>4 DEF CInv

\* A change is later than what the entries and the loads that have read leave out before it.
LEMMA ChangeStep ==
    ASSUME Cache!CacheConstants, CInv, Cache!Change
    PROVE  CInv'
<1>1. /\ UNCHANGED <<time, store, inflight, loads, caller, floor, slowest>>
      /\ version < MaxVersion /\ version' = version + 1 /\ changing' = changing + 1
      /\ changedAt' = Append(changedAt, time)
  BY DEF Cache!Change
<1>2. /\ time \in Nat /\ version \in Nat /\ version' \in Nat /\ slowest \in Nat /\ TTL \in Nat
      /\ version' = version + 1
  BY <1>1 DEF CInv, CacheTypes, Cache!CacheConstants
<1>3. /\ changedAt' \in Seq(Nat) /\ Len(changedAt') = version'
      /\ changedAt'[version'] = time
      /\ \A w \in 1..version : changedAt'[w] = changedAt[w] /\ changedAt[w] \in Nat
  <2>1. changedAt \in Seq(Nat) /\ Len(changedAt) = version
    BY DEF CInv, CacheTypes
  <2>2. changedAt' = Append(changedAt, time)
    BY <1>1
  <2>3. /\ Append(changedAt, time) \in Seq(Nat)
        /\ Len(Append(changedAt, time)) = version + 1
        /\ Append(changedAt, time)[version + 1] = time
        /\ \A w \in 1..version : Append(changedAt, time)[w] = changedAt[w] /\ changedAt[w] \in Nat
    BY <1>2, <2>1
  <2>4. QED
    BY <1>2, <2>2, <2>3
<1>4. /\ changedAt'[version'] = time
       /\ \A w \in 1..version : changedAt'[w] = changedAt[w] /\ changedAt[w] \in Nat
  BY <1>3
<1>5. CacheTypes'
  BY <1>1, <1>3 DEF CInv, CacheTypes, Cache!CacheConstants
<1>6. ASSUME NEW k \in Cache!Cached PROVE EntrySound(k, store[k])'
  <2>1. EntrySound(k, store[k]) /\ store[k].value \in Nat /\ store[k].expiresAt \in Nat
    BY DEF CInv, StoreSound, IsMap, Cache!Cached, EntryIn
  <2>2. ASSUME NEW w \in (store[k].value + 1)..version'
        PROVE  changedAt'[w] + slowest + TTL >= store[k].expiresAt
    <3>1. CASE w = version'
      <4>1. store[k].expiresAt <= time + TTL
        BY <2>1 DEF EntrySound
      <4>2. QED
        BY <1>2, <1>4, <2>1, <3>1, <4>1
    <3>2. CASE w # version'
      <4>1. w \in (store[k].value + 1)..version
        BY <1>2, <2>1, <3>2
      <4>2. w \in 1..version /\ changedAt'[w] = changedAt[w]
        BY <1>2, <1>4, <2>1, <4>1
      <4>3. QED
        BY <2>1, <4>1, <4>2 DEF EntrySound
    <3>3. QED
      BY <3>1, <3>2
  <2>3. store[k].value <= version'
    <3>1. store[k].value <= version
      BY <2>1 DEF EntrySound
    <3>2. QED
      BY <1>2, <2>1, <3>1
  <2>4. QED
    BY <1>1, <2>1, <2>2, <2>3 DEF EntrySound
<1>7. StoreSound'
  BY <1>1, <1>6 DEF CInv, StoreSound, Cache!Cached
<1>8. ASSUME NEW l \in Cache!Running, loads[l].value # Cache!Unread
      PROVE  ReadSound(loads[l])'
  <2>1. ReadSound(loads[l]) /\ loads[l] \in LoadRecord
    BY <1>8 DEF CInv, LoadsSound, Cache!Running, CacheTypes
  <2>2. loads[l].value \in Nat /\ loads[l].readAt \in Nat /\ loads[l].readAt <= time
    BY <1>2, <2>1 DEF LoadRecord, Cache!Unread, Cache!CacheConstants, ReadSound
  <2>3. ASSUME NEW w \in (loads[l].value + 1)..version'
        PROVE  changedAt'[w] >= loads[l].readAt
    <3>1. CASE w = version'
      BY <1>4, <2>2, <3>1
    <3>2. CASE w # version'
      <4>1. w \in (loads[l].value + 1)..version /\ w \in 1..version
        BY <1>2, <2>2, <3>2
      <4>2. QED
        BY <1>4, <2>1, <4>1 DEF ReadSound
    <3>3. QED
      BY <3>1, <3>2
  <2>4. loads'[l] = loads[l] /\ floor' = floor /\ time' = time
    BY <1>1
  <2>5. loads[l].value <= version'
    BY <1>2, <2>1, <2>2 DEF ReadSound
  <2>6. QED
    BY <2>1, <2>3, <2>4, <2>5 DEF ReadSound
<1>9. LoadsSound' /\ ReadTimes' /\ OneLoadPerKey'
  BY <1>1, <1>8 DEF CInv, LoadsSound, ReadTimes, OneLoadPerKey, Cache!Running
<1>10. QED
  BY <1>5, <1>7, <1>9 DEF CInv

\* What an invalidation names is gone, and what a load has read of it is marked.
LEMMA InvalidateStep ==
    ASSUME Cache!CacheConstants, CInv, Cache!Invalidate
    PROVE  CInv'
<1> DEFINE Hurt(m) ==
             /\ m \in Cache!Running /\ loads[m].key \in Cache!Swept
             /\ loads[m].value # Cache!Unread
<1>1. /\ UNCHANGED <<time, version, inflight, caller, changedAt, slowest>>
      /\ changing' = changing - 1 /\ changing > 0
      /\ floor' = floor \/ floor' = version
      /\ store' = Cache!Without(store, Cache!Swept)
      /\ loads' = [m \in Loads |-> IF Hurt(m) THEN [loads[m] EXCEPT !.raced = TRUE] ELSE loads[m]]
  BY DEF Cache!Invalidate
<1>2. \A m \in Cache!Running : m \in Loads /\ loads[m] \in LoadRecord
  BY DEF Cache!Running, CInv, CacheTypes
<1>3. \A m \in Loads : ~Hurt(m) => loads'[m] = loads[m]
  BY <1>1
<1>4. \A m \in Loads : Hurt(m) =>
         /\ loads'[m] \in LoadRecord /\ loads'[m] # Cache!Free /\ loads'[m].raced
         /\ loads'[m].key = loads[m].key /\ loads'[m].value = loads[m].value
         /\ loads'[m].readAt = loads[m].readAt
  <2> TAKE m \in Loads
  <2> HAVE Hurt(m)
  <2>1. loads'[m] = [loads[m] EXCEPT !.raced = TRUE] /\ loads[m] \in LoadRecord
    BY <1>1, <1>2
  <2>2. QED
    BY <2>1, FreeIsNoLoad DEF LoadRecord
<1> HIDE DEF Hurt
<1>5. Cache!Running' = Cache!Running
  <2>1. \A m \in Loads : Hurt(m) => m \in Cache!Running
    BY DEF Hurt
  <2>2. QED
    BY <1>3, <1>4, <2>1 DEF Cache!Running
<1>6. loads' \in [Loads -> {Cache!Free} \cup LoadRecord]
  <2>1. \A m \in Loads : loads'[m] \in {Cache!Free} \cup LoadRecord
    BY <1>3, <1>4 DEF CInv, CacheTypes
  <2>2. QED
    BY <1>1, <2>1
<1>7. CacheTypes'
  BY <1>1, <1>6 DEF CInv, CacheTypes
<1>8. StoreSound'
  <2>1. /\ IsMap(store') /\ DOMAIN store' = Cache!Cached \ Cache!Swept
        /\ \A k \in Cache!Cached \ Cache!Swept : SameEntry(store'[k], store[k])
    BY <1>1, WithoutIsMap DEF CInv, StoreSound, Cache!Cached
  <2>2. Cardinality(DOMAIN store') <= MaxEntries
    <3>1. IsFiniteSet(Cache!Cached) /\ Cardinality(Cache!Cached) <= MaxEntries
      BY DEF CInv, StoreSound, IsMap, Cache!Cached
    <3>2. /\ Cardinality(Cache!Cached \ Cache!Swept) <= Cardinality(Cache!Cached)
          /\ Cardinality(Cache!Cached) \in Nat
          /\ Cardinality(Cache!Cached \ Cache!Swept) \in Nat
      BY <3>1, FS_Subset, FS_CardinalityType
    <3>3. QED
      BY <2>1, <3>1, <3>2 DEF Cache!CacheConstants
  <2>3. ASSUME NEW k \in Cache!Cached \ Cache!Swept PROVE EntrySound(k, store[k])'
    <3>1. EntrySound(k, store[k])
      BY DEF CInv, StoreSound
    <3>2. /\ store'[k].value = store[k].value /\ store'[k].expiresAt = store[k].expiresAt
          /\ store'[k].raced = store[k].raced
      BY <2>1 DEF SameEntry
    <3>3. QED
      BY <1>1, <3>1, <3>2 DEF EntrySound
  <2>4. QED
    BY <2>1, <2>2, <2>3 DEF StoreSound, Cache!Cached
<1>9. ASSUME NEW l \in Cache!Running, loads'[l].value # Cache!Unread
      PROVE  ReadSound(loads[l])'
  <2>1. l \in Loads /\ floor \in 0..version
    BY <1>2 DEF CInv, CacheTypes
  <2>2. CASE Hurt(l)
    <3>1. ReadSound(loads[l])
      BY <1>4, <1>9, <2>1, <2>2 DEF CInv, LoadsSound
    <3>2. QED
      BY <1>1, <1>4, <2>1, <2>2, <3>1 DEF ReadSound
  <2>3. CASE ~Hurt(l)
    <3>1. loads'[l] = loads[l] /\ ReadSound(loads[l]) /\ loads[l].key \notin Cache!Swept
      BY <1>3, <1>9, <2>1, <2>3 DEF Hurt, CInv, LoadsSound
    <3>2. QED
      BY <1>1, <3>1 DEF ReadSound
  <2>4. QED
    BY <2>2, <2>3
<1>10. \A m \in Cache!Running : loads'[m].key = loads[m].key /\ loads'[m].readAt = loads[m].readAt
  BY <1>2, <1>3, <1>4
<1>11. LoadsSound' /\ ReadTimes'
  BY <1>1, <1>5, <1>9, <1>10 DEF CInv, LoadsSound, ReadTimes
<1>12. OneLoadPerKey'
  BY <1>1, <1>5, <1>10 DEF CInv, OneLoadPerKey
<1>13. QED
  BY <1>7, <1>8, <1>11, <1>12 DEF CInv

LEMMA ChangeFailsStep ==
    ASSUME Cache!CacheConstants, CInv, Cache!ChangeFails
    PROVE  CInv'
<1>1. /\ UNCHANGED <<time, version, store, inflight, loads, caller, floor, changedAt, slowest>>
      /\ changing > 0 /\ changing' = changing - 1
  BY DEF Cache!ChangeFails, Cache!history
<1>2. CacheTypes'
  BY <1>1 DEF CInv, CacheTypes
<1>3. StoreSound' /\ LoadsSound' /\ ReadTimes' /\ OneLoadPerKey'
  BY <1>1 DEF CInv, StoreSound, EntrySound, Cache!Cached, LoadsSound, ReadSound, ReadTimes,
              OneLoadPerKey, Cache!Running
<1>4. QED
  BY <1>2, <1>3 DEF CInv

LEMMA CacheTickStep ==
    ASSUME Cache!CacheConstants, CInv, Cache!Tick
    PROVE  CInv'
<1>1. /\ UNCHANGED <<version, changing, store, inflight, loads, caller, floor, changedAt, slowest>>
      /\ time < MaxClock /\ time' = time + 1
  BY DEF Cache!Tick, Cache!history
<1>2. CacheTypes'
  BY <1>1 DEF CInv, CacheTypes, Cache!CacheConstants
<1>3. ASSUME NEW k \in Cache!Cached PROVE EntrySound(k, store[k])'
  <2>1. SameEntry(store'[k], store[k])
    BY <1>1 DEF SameEntry
  <2>2. time <= time' /\ slowest <= slowest'
    BY <1>1 DEF CInv, CacheTypes
  <2>3. QED
    BY <1>1, <1>2, <2>1, <2>2, EntryStays
<1>4. StoreSound'
  BY <1>1, <1>3 DEF CInv, StoreSound, Cache!Cached
<1>5. \A l \in Cache!Running : loads[l].readAt \in Nat /\ loads[l].readAt <= time'
  BY <1>1 DEF CInv, CacheTypes, ReadTimes, Cache!Running, LoadRecord
<1>6. LoadsSound' /\ ReadTimes' /\ OneLoadPerKey'
  BY <1>1, <1>5 DEF CInv, LoadsSound, ReadSound, ReadTimes, OneLoadPerKey, Cache!Running
<1>7. QED
  BY <1>2, <1>4, <1>6 DEF CInv

LEMMA CacheNext == Cache!CacheConstants /\ CInv /\ [Cache!Next]_(Cache!vars) => CInv'
<1> SUFFICES ASSUME Cache!CacheConstants, CInv, [Cache!Next]_(Cache!vars) PROVE CInv'
  OBVIOUS
<1>1. ASSUME NEW c \in Callers, NEW k \in Keys, Cache!Remember(c, k) PROVE CInv'
  BY <1>1, RememberStep
<1>2. ASSUME NEW c \in Callers, Cache!Respond(c) PROVE CInv'
  BY <1>2, RespondStep
<1>3. ASSUME NEW l \in Loads, Cache!LoadRead(l) PROVE CInv'
  BY <1>3, LoadReadStep
<1>4. ASSUME NEW l \in Loads, Cache!LoadDone(l) PROVE CInv'
  BY <1>4, LoadDoneStep
<1>5. ASSUME NEW l \in Loads, Cache!LoadFail(l) PROVE CInv'
  BY <1>5, LoadFailStep
<1>6. CASE Cache!Change
  BY <1>6, ChangeStep
<1>7. CASE Cache!Invalidate
  BY <1>7, InvalidateStep
<1>8. CASE Cache!ChangeFails
  BY <1>8, ChangeFailsStep
<1>9. CASE Cache!Tick
  BY <1>9, CacheTickStep
<1>10. CASE UNCHANGED Cache!vars
  BY <1>10 DEF Cache!vars, Cache!history, CInv, CacheTypes, StoreSound, EntrySound,
               Cache!Cached, LoadsSound, ReadSound, ReadTimes, OneLoadPerKey, Cache!Running
<1>11. QED
  BY <1>1, <1>2, <1>3, <1>4, <1>5, <1>6, <1>7, <1>8, <1>9, <1>10 DEF Cache!Next

-----------------------------------------------------------------------------
(* What follows. *)

LEMMA CacheTypeOK == Cache!CacheConstants /\ CInv => Cache!TypeOK
<1> SUFFICES ASSUME Cache!CacheConstants, CInv PROVE Cache!TypeOK
  OBVIOUS
<1>1. CacheTypes /\ StoreSound /\ ReadTimes /\ LoadsSound
  BY DEF CInv
<1>2. changing \in 0..MaxVersion
  BY <1>1 DEF CacheTypes, Cache!CacheConstants
<1>3. ASSUME NEW k \in Cache!Cached
      PROVE  store[k] \in [value : 0..version, expiresAt : TTL..(MaxClock + TTL),
                           raced : BOOLEAN, before : SUBSET Cache!Cached]
  <2>1. store[k] \in EntryIn(Cache!Cached) /\ EntrySound(k, store[k])
    BY <1>1 DEF StoreSound, IsMap, Cache!Cached
  <2>2. store[k].value \in 0..version
    BY <1>1, <2>1 DEF EntryIn, EntrySound, CacheTypes
  <2>3. store[k].expiresAt \in TTL..(MaxClock + TTL)
    BY <1>1, <2>1 DEF EntryIn, EntrySound, CacheTypes, Cache!CacheConstants
  <2>4. QED
    BY <2>1, <2>2, <2>3 DEF EntryIn
<1>4. Cache!Cached \subseteq Keys /\ Cardinality(Cache!Cached) <= MaxEntries
  BY <1>1 DEF StoreSound, IsMap, Cache!Cached
<1>5. ASSUME NEW l \in Cache!Running
      PROVE  loads[l] \in [key : Keys, value : 0..version \cup {Cache!Unread}, readAt : 0..time,
                           raced : BOOLEAN]
  <2>1. loads[l] \in LoadRecord
    BY <1>1 DEF Cache!Running, CacheTypes
  <2>2. loads[l].value \in 0..version \cup {Cache!Unread}
    BY <1>1, <2>1 DEF LoadRecord, LoadsSound, ReadSound, CacheTypes
  <2>3. loads[l].readAt \in 0..time
    BY <1>1, <2>1 DEF LoadRecord, ReadTimes, CacheTypes
  <2>4. QED
    BY <2>1, <2>2, <2>3 DEF LoadRecord
<1>6. ASSUME NEW c \in Callers PROVE caller[c].pc \in {"idle", "wait", "answered", "error"}
  BY <1>1 DEF CacheTypes, CallerState, Cache!Idle
<1>7. QED
  BY <1>1, <1>2, <1>3, <1>4, <1>5, <1>6, SameSize DEF Cache!TypeOK, CacheTypes

LEMMA CacheFlight == Cache!CacheConstants /\ CInv => Cache!SingleFlight
<1> SUFFICES ASSUME Cache!CacheConstants, CInv, NEW k \in Keys
             PROVE  {l \in Cache!Running : loads[l].key = k} = {inflight[k]} \ {Cache!NoLoad}
  BY DEF Cache!SingleFlight
<1>1. Cache!NoLoad \notin Cache!Running
  BY DEF Cache!Running, Cache!NoLoad, Cache!CacheConstants
<1>2. \A l \in Cache!Running : inflight[loads[l].key] = l
  BY DEF CInv, OneLoadPerKey
<1>3. inflight[k] # Cache!NoLoad => inflight[k] \in Cache!Running /\ loads[inflight[k]].key = k
  BY DEF CInv, OneLoadPerKey
<1>4. QED
  BY <1>1, <1>2, <1>3

\* The cache keeps within its size, one load runs per key and later callers find it, and a
\* key that an invalidation names is current unless its load raced, however misses,
\* expiries, failing loads and changes of the table interleave.
THEOREM CacheStaysSound == Cache!Spec => []CacheIsSound
<1>1. CInv => CacheIsSound
  <2>1. CInv => Cache!CurrentUnlessRaced
    BY DEF CInv, StoreSound, EntrySound, Cache!CurrentUnlessRaced
  <2>2. QED
    BY <2>1, CacheTypeOK, CacheFlight, CacheAssumption DEF CacheIsSound, Cache!CacheIsSound
<1>2. Cache!Init => CInv
  BY CacheInit, CacheAssumption
<1>3. CInv /\ [Cache!Next]_(Cache!vars) => CInv'
  BY CacheNext, CacheAssumption
<1>4. QED
  BY <1>1, <1>2, <1>3, PTL DEF Cache!Spec

\* No change is missing from v, as read no later than slowest before now.
Recent(v) == \A w \in (v + 1)..version : changedAt[w] + TTL + slowest' >= time

\* A hit is no older than its entry may be.
LEMMA HitIsRecent ==
    ASSUME Cache!CacheConstants, CInv, NEW k \in Cache!Cached, Cache!Alive(k), slowest' = slowest
    PROVE  Recent(store[k].value)
<1>1. EntrySound(k, store[k]) /\ store[k].value \in Nat /\ store[k].expiresAt \in Nat
  BY DEF CInv, StoreSound, IsMap, Cache!Cached, EntryIn
<1>2. store[k].expiresAt >= time
  BY DEF Cache!Alive
<1>3. time \in Nat /\ TTL \in Nat /\ slowest \in Nat /\ version \in Nat
      /\ \A w \in 1..version : changedAt[w] \in Nat
  BY DEF CInv, CacheTypes, Cache!CacheConstants
<1>4. ASSUME NEW w \in (store[k].value + 1)..version
      PROVE  changedAt[w] + TTL + slowest' >= time
  <2>1. changedAt[w] + slowest + TTL >= store[k].expiresAt /\ w \in 1..version
    BY <1>1, <1>3 DEF EntrySound
  <2>2. changedAt[w] \in Nat
    BY <1>3, <2>1
  <2>3. QED
    BY <1>1, <1>2, <1>3, <2>1, <2>2
<1>5. QED
  BY <1>4 DEF Recent

LEMMA LoadIsRecent ==
    ASSUME Cache!CacheConstants, CInv, CInv', NEW l \in Loads, Cache!LoadDone(l)
    PROVE  Recent(loads[l].value)
<1>1. /\ loads[l].value \in 0..version
      /\ \A w \in (loads[l].value + 1)..version : changedAt[w] + slowest' + TTL >= time + TTL
  BY NewEntry DEF CInv
<1>2. time \in Nat /\ TTL \in Nat /\ slowest' \in Nat /\ version \in Nat
      /\ \A w \in 1..version : changedAt[w] \in Nat
  BY DEF CInv, CacheTypes, Cache!CacheConstants
<1>3. ASSUME NEW w \in (loads[l].value + 1)..version
      PROVE  changedAt[w] + TTL + slowest' >= time
  <2>1. w \in 1..version /\ changedAt[w] \in Nat
    BY <1>1, <1>2
  <2>2. changedAt[w] + slowest' + TTL >= time + TTL
    BY <1>1
  <2>3. QED
    BY <1>2, <2>1, <2>2
<1>4. QED
  BY <1>3 DEF Recent

LEMMA AnswersAreRecent ==
    ASSUME Cache!CacheConstants, CInv, CInv', [Cache!Next]_(Cache!vars), NEW c \in Callers,
           caller[c] # caller'[c], caller'[c].pc = "answered"
    PROVE  Recent(caller'[c].value)
<1>1. caller \in [Callers -> CallerState]
  BY DEF CInv, CacheTypes
<1>2. ASSUME NEW d \in Callers, NEW k \in Keys, Cache!Remember(d, k)
      PROVE  Recent(caller'[c].value)
  <2>1. CASE Cache!Hit(d, k)
    <3>1. k \in Cache!Cached /\ Cache!Alive(k) /\ slowest' = slowest
      BY <1>2, <2>1 DEF Cache!Hit, Cache!Alive, Cache!Remember, Cache!history
    <3>2. c = d /\ caller'[c] = Cache!Answer(k, store[k].value)
      BY <1>1, <2>1 DEF Cache!Hit
    <3>3. caller'[c].value = store[k].value
      BY <3>2 DEF Cache!Answer
    <3>4. QED
      BY <3>1, <3>3, HitIsRecent
  <2>2. CASE Cache!Join(d, k)
    BY <1>1, <2>2 DEF Cache!Join
  <2>3. CASE Cache!Start(d, k)
    BY <1>1, <2>3 DEF Cache!Start
  <2>4. QED
    BY <1>2, <2>1, <2>2, <2>3 DEF Cache!Remember
<1>3. ASSUME NEW l \in Loads, Cache!LoadDone(l) PROVE Recent(caller'[c].value)
  <2>1. caller'[c] = Cache!Answer(loads[l].key, loads[l].value)
    BY <1>3 DEF Cache!LoadDone, Cache!Settle
  <2>2. caller'[c].value = loads[l].value
    BY <2>1 DEF Cache!Answer
  <2>3. QED
    BY <1>3, <2>2, LoadIsRecent
<1>4. ASSUME NEW l \in Loads, Cache!LoadFail(l) PROVE FALSE
  BY <1>4 DEF Cache!LoadFail, Cache!Settle
<1>5. ASSUME NEW d \in Callers, Cache!Respond(d) PROVE FALSE
  BY <1>1, <1>5 DEF Cache!Respond, Cache!Idle
<1>6. ASSUME caller' = caller PROVE FALSE
  BY <1>6
<1>7. QED
  BY <1>2, <1>3, <1>4, <1>5, <1>6
     DEF Cache!Next, Cache!vars, Cache!LoadRead, Cache!Change, Cache!Invalidate,
         Cache!ChangeFails, Cache!Tick

\* No answer leaves out a change older than the time to live and the slowest load together,
\* not even that of a raced load or of a key that no invalidation names.
THEOREM StaleNoLongerThanTTL == Cache!Spec => StaleForTTLOnly
<1>1. CInv /\ CInv' /\ [Cache!Next]_(Cache!vars) =>
        [\A c \in Callers :
          caller[c] # caller'[c] /\ caller'[c].pc = "answered" =>
          \A v \in (caller'[c].value + 1)..version :
              changedAt[v] + TTL + slowest' >= time]_(Cache!vars)
  BY AnswersAreRecent, CacheAssumption DEF Recent
<1>2. Cache!Init => CInv
  BY CacheInit, CacheAssumption
<1>3. CInv /\ [Cache!Next]_(Cache!vars) => CInv'
  BY CacheNext, CacheAssumption
<1>4. QED
  BY <1>1, <1>2, <1>3, PTL DEF Cache!Spec, StaleForTTLOnly, Cache!StaleForTTLOnly

-----------------------------------------------------------------------------
(* The pages.  What is kept of an answer, by a tab, the HTTP cache or the  *)
(* service worker, was true before its date by no more than the web server *)
(* keeps it and its load took (TrueThen), and a page that shows it was     *)
(* opened after that date by less than the life of a copy.                 *)

Routes ==
    {Pages!MeRoute, Pages!ProblemsRoute, Pages!TagsRoute, Pages!TagRoute, Pages!EditorialRoute,
     Pages!ContestsRoute, Pages!ChallengeRoute, Pages!RecommendationsRoute,
     Pages!PercentileRoute, Pages!PlansRoute, Pages!ProgressRoute, Pages!PlanRoute,
     Pages!EnrolmentRoute, Pages!SubmissionsRoute, Pages!SubmissionRoute,
     Pages!BookmarksRoute, Pages!AchievementsRoute, Pages!ProfileRoute,
     Pages!LeaderboardRoute}

Lives == [visitor : 0..1, account : 0..1]
AllRules == [how : {"cacheFirst", "networkFirst", "untouched"}, age : Lives, stale : Lives,
             gated : BOOLEAN, row : BOOLEAN, memo : Nat]

\* What the web server keeps, it lets the HTTP cache keep for an account.
Rules == {r \in AllRules : r.memo > 0 => r.age["account"] = 1}

\* Pages about the one who is signed in whose routes have nothing kept for an account.
Forgetting == Pages!Personal \ Pages!Remembering
Forgets(r) == r.how # "cacheFirst" /\ r.age.account = 0 /\ r.stale.account = 0

LEMMA PagesParameters ==
    /\ NoUser \notin Users
    /\ Day \in Nat /\ HalfHour \in Nat /\ MaxTicks \in Nat /\ MaxChanges \in Nat
    /\ MaxLoads \in Nat /\ MaxCuts \in Nat
BY PagesAssumption DEF Pages!PageConstants

LEMMA RoutesTyped == Routes \subseteq Rules
<1>1. /\ Pages!MeRoute \in Rules /\ Pages!TagRoute \in Rules /\ Pages!EditorialRoute \in Rules
  BY DEF Pages!MeRoute, Pages!TagRoute, Pages!EditorialRoute, Pages!Rule, Pages!Never, Rules,
     AllRules, Lives
<1>2. /\ Pages!ProblemsRoute \in Rules /\ Pages!TagsRoute \in Rules
      /\ Pages!ContestsRoute \in Rules
  BY DEF Pages!ProblemsRoute, Pages!TagsRoute, Pages!ContestsRoute, Pages!Rule, Pages!Long,
     Rules, AllRules, Lives
<1>3. Pages!RecommendationsRoute \in Rules
  BY PagesParameters DEF Pages!RecommendationsRoute, Pages!Rule, Pages!Short, Rules, AllRules,
     Lives
<1>4. Pages!PercentileRoute \in Rules /\ Pages!ChallengeRoute \in Rules
  <2>1. Pages!PercentileRoute \in Rules
    BY DEF Pages!PercentileRoute, Pages!Rule, Pages!Never, Pages!Short, Rules, AllRules, Lives
  <2>2. Pages!ChallengeRoute \in Rules
    BY DEF Pages!ChallengeRoute, Pages!Rule, Pages!Never, Pages!Long, Rules, AllRules, Lives
  <2>3. QED
    BY <2>1, <2>2
<1>5. /\ Pages!PlansRoute \in Rules /\ Pages!ProgressRoute \in Rules
      /\ Pages!PlanRoute \in Rules /\ Pages!EnrolmentRoute \in Rules
  BY DEF Pages!PlansRoute, Pages!ProgressRoute, Pages!PlanRoute, Pages!EnrolmentRoute,
     Pages!Rule, Pages!Long, Rules, AllRules, Lives
<1>6. /\ Pages!SubmissionsRoute \in Rules /\ Pages!SubmissionRoute \in Rules
      /\ Pages!BookmarksRoute \in Rules /\ Pages!AchievementsRoute \in Rules
      /\ Pages!ProfileRoute \in Rules /\ Pages!LeaderboardRoute \in Rules
  BY DEF Pages!SubmissionsRoute, Pages!SubmissionRoute, Pages!BookmarksRoute,
     Pages!AchievementsRoute, Pages!ProfileRoute, Pages!LeaderboardRoute, Pages!Rule,
     Pages!Never, Rules, AllRules, Lives
<1>7. QED
  BY <1>1, <1>2, <1>3, <1>4, <1>5, <1>6 DEF Routes

LEMMA PageHasRoute == \A p \in Pages!Names : Pages!RouteOf(p) \in Routes
<1> SUFFICES ASSUME NEW p \in Pages!Names PROVE Pages!RouteOf(p) \in Routes
  OBVIOUS
<1>1. QED
  BY DEF Pages!Names, Pages!RouteOf, Routes

LEMMA RuleTyped == page \in Pages!Names => Pages!rule \in Rules
BY PageHasRoute, RoutesTyped DEF Pages!rule

LEMMA ForgettingRules == page \in Forgetting => Forgets(Pages!rule)
<1> SUFFICES ASSUME page \in Forgetting PROVE Forgets(Pages!RouteOf(page))
  BY DEF Pages!rule
<1>1. page \in {"settings", "banner", "submissions", "submission", "dashboard", "bookmarks",
                "achievements"}
  BY DEF Forgetting, Pages!Personal, Pages!Remembering
<1>2. Pages!RouteOf(page) \in {Pages!MeRoute, Pages!ChallengeRoute, Pages!SubmissionsRoute,
         Pages!SubmissionRoute, Pages!BookmarksRoute, Pages!AchievementsRoute}
  BY <1>1 DEF Pages!RouteOf
<1>3. /\ Forgets(Pages!MeRoute) /\ Forgets(Pages!ChallengeRoute)
      /\ Forgets(Pages!SubmissionsRoute) /\ Forgets(Pages!SubmissionRoute)
      /\ Forgets(Pages!BookmarksRoute) /\ Forgets(Pages!AchievementsRoute)
  BY DEF Forgets, Pages!MeRoute, Pages!ChallengeRoute, Pages!SubmissionsRoute,
     Pages!SubmissionRoute, Pages!BookmarksRoute, Pages!AchievementsRoute, Pages!Rule,
     Pages!Never, Pages!Long
<1>4. QED
  BY <1>2, <1>3

LEMMA RuleFields ==
    ASSUME NEW r \in Rules
    PROVE  /\ r.age["visitor"] \in 0..1 /\ r.age["account"] \in 0..1
           /\ r.stale["visitor"] \in 0..1 /\ r.stale["account"] \in 0..1
           /\ r.memo \in Nat /\ (r.memo > 0 => r.age["account"] = 1)
<1>1. r.age \in Lives /\ r.stale \in Lives /\ r.memo \in Nat
  BY DEF Rules, AllRules
<1>2. ASSUME NEW f \in Lives PROVE f["visitor"] \in 0..1 /\ f["account"] \in 0..1
  BY DEF Lives
<1>3. QED
  BY <1>1, <1>2 DEF Rules

\* A copy that a rule lets be used is no older than CopyLife, which is the least such number;
\* it is no less than a tick where the web server keeps something too.
LEMMA CopiesDie ==
    ASSUME NEW w \in Pages!Names
    PROVE  /\ Pages!RouteOf(w) \in Rules /\ Pages!RouteOf(w).memo \in Nat
           /\ Pages!CopyLife[w] \in Nat
           /\ \A k \in {"visitor", "account"} :
                 Pages!RouteOf(w).age[k] + Pages!RouteOf(w).stale[k] <= Pages!CopyLife[w]
           /\ Pages!RouteOf(w).how = "cacheFirst" => Day <= Pages!CopyLife[w]
           /\ Pages!RouteOf(w).memo > 0 => Pages!CopyLife[w] > 0
<1>1. PICK r \in Rules : r = Pages!RouteOf(w)
  BY PageHasRoute, RoutesTyped
<1> DEFINE Kept(k) == r.age[k] + r.stale[k]
           Bounds(b) ==
               /\ \A k \in {"visitor", "account"} : Kept(k) <= b
               /\ r.how = "cacheFirst" => Day <= b
               /\ \/ r.how = "cacheFirst" /\ b = Day
                  \/ \E k \in {"visitor", "account"} : Kept(k) = b
<1>2. Pages!CopyLife[w] = CHOOSE b \in 0..(Day + 2) : Bounds(b)
  BY <1>1 DEF Pages!CopyLife
<1>3. /\ Kept("visitor") \in 0..2 /\ Kept("account") \in 0..2
      /\ r.memo \in Nat /\ (r.memo > 0 => Kept("account") > 0)
  BY RuleFields
<1> HIDE DEF Kept
<1>4. PICK v \in 0..2, a \in 0..2 : v = Kept("visitor") /\ a = Kept("account")
  BY <1>3
<1>5. PICK m \in 0..2 : v <= m /\ a <= m /\ (m = v \/ m = a)
  <2>1. v \in 0..2 /\ a \in 0..2
    BY <1>4
  <2>2. CASE v <= a
    BY <2>1, <2>2
  <2>3. CASE a <= v
    BY <2>1, <2>3
  <2>4. QED
    BY <2>1, <2>2, <2>3
<1>6. /\ \A b \in Nat : m <= b => \A k \in {"visitor", "account"} : Kept(k) <= b
      /\ \E k \in {"visitor", "account"} : Kept(k) = m
  BY <1>4, <1>5
<1>7. \E b \in 0..(Day + 2) : Bounds(b)
  <2>1. m \in Nat /\ Day \in Nat /\ Day \in 0..(Day + 2) /\ m \in 0..(Day + 2)
    BY <1>5, PagesParameters
  <2>2. CASE r.how = "cacheFirst" /\ m <= Day
    <3>1. Day <= Day
      BY <2>1
    <3>2. \A k \in {"visitor", "account"} : Kept(k) <= Day
      BY <1>6, <2>1, <2>2
    <3>3. Bounds(Day)
      BY <2>2, <3>1, <3>2
    <3>4. QED
      BY <2>1, <3>3
  <2>3. CASE r.how # "cacheFirst" \/ ~(m <= Day)
    <3>1. m <= m /\ (~(m <= Day) => Day <= m)
      BY <2>1
    <3>2. Bounds(m)
      BY <1>6, <2>1, <2>3, <3>1
    <3>3. QED
      BY <2>1, <3>2
  <2>4. QED
    BY <2>2, <2>3
<1> HIDE DEF Bounds
<1>8. Pages!CopyLife[w] \in 0..(Day + 2) /\ Bounds(Pages!CopyLife[w])
  BY <1>2, <1>7
<1>9. PICK c \in Nat : c = Pages!CopyLife[w] /\ Bounds(c)
  BY <1>8, PagesParameters
<1>10. c > 0 \/ r.memo = 0
  <2>1. a <= c
    BY <1>4, <1>9 DEF Bounds
  <2>2. QED
    BY <1>3, <1>4, <2>1
<1>11. \A k \in {"visitor", "account"} : r.age[k] + r.stale[k] <= c
  BY <1>9 DEF Bounds, Kept
<1>12. r.how = "cacheFirst" => Day <= c
  BY <1>9 DEF Bounds
<1>13. c > 0 \/ ~(r.memo > 0)
  BY <1>3, <1>10
<1>14. QED
  BY <1>1, <1>3, <1>9, <1>11, <1>12, <1>13

\* A tab, at time c, and what the web server holds and loads then.
TabSet(c) ==
    [pc : {"closed", "waiting", "shown"}, as : Users \cup {NoUser}, start : 0..c,
     net : {"none", "asked", "loading", "here"}, cut : BOOLEAN,
     held : Pages!Answers, reply : Pages!Answers, body : Pages!Answers]
MemoSet(c) == [there : BOOLEAN, version : Nat, stored : 0..c, took : Nat]
FlightSet(c) == [on : BOOLEAN, version : Nat, began : 0..c]

\* What was true of an answer when it was made, in the past p, on page w; and what holds then
\* of a tab, of what is held, and of a load when the data are at version h.
Tells(a) == a.is \in {"ok", "missing", "refused"}
TrueThen(p, w, a) ==
    Tells(a) =>
        /\ \E m \in p : m.at = a.date
        /\ \E m \in p : /\ m.version = a.version
                        /\ a.date <= m.at + a.took + Pages!RouteOf(w).memo
        /\ Pages!RouteOf(w).memo = 0 => a.took = 0

Shows(w, t) ==
    /\ t.body.is # "nothing"
    /\ Tells(t.body) =>
          /\ t.body.date >= t.start \/ t.body.date + Pages!CopyLife[w] > t.start
          /\ w \in Forgetting /\ t.body.user \in Users => t.body.user = t.as

TabTrue(p, w, t) ==
    /\ TrueThen(p, w, t.held) /\ TrueThen(p, w, t.reply) /\ TrueThen(p, w, t.body)
    /\ t.net = "here" =>
          t.reply.is # "nothing" /\ t.reply.date >= t.start /\ t.reply.user = t.as
    /\ t.cut \/ t.pc = "closed" => t.net = "none"
    /\ t.pc = "shown" /\ ~t.cut => Shows(w, t)

MemoTrue(p, w, x) ==
    x.there =>
        /\ Pages!RouteOf(w).memo > 0
        /\ \E m \in p : m.version = x.version /\ x.stored <= m.at + x.took

FlightTrue(p, w, h, f) ==
    f.on =>
        /\ Pages!RouteOf(w).memo > 0
        /\ \A v \in f.version..h : \E m \in p : m.version = v /\ f.began <= m.at

\* The invariant of the pages: what holds now is of the past, and every copy was true.
PagesInv ==
    /\ Pages!TypeOK
    /\ [at |-> ticks, version |-> held] \in past
    /\ TrueThen(past, page, worker) /\ TrueThen(past, page, http)
    /\ \A k \in Users \cup {NoUser} :
          MemoTrue(past, page, memo[k]) /\ FlightTrue(past, page, held, flight[k])
    /\ \A l \in Tabs : TabTrue(past, page, load[l])

\* The past only grows, so what was true then stays so.
LEMMA TrueForGood ==
    ASSUME NEW p, NEW q, p \subseteq q, NEW w
    PROVE  /\ \A a : TrueThen(p, w, a) => TrueThen(q, w, a)
           /\ \A t : TabTrue(p, w, t) => TabTrue(q, w, t)
           /\ \A x : MemoTrue(p, w, x) => MemoTrue(q, w, x)
           /\ \A h, f : FlightTrue(p, w, h, f) => FlightTrue(q, w, h, f)
<1>1. \A a : TrueThen(p, w, a) => TrueThen(q, w, a)
  BY DEF TrueThen
<1>2. \A t : TabTrue(p, w, t) => TabTrue(q, w, t)
  BY <1>1 DEF TabTrue
<1>3. QED
  BY <1>1, <1>2 DEF MemoTrue, FlightTrue

\* The parts of the invariant.
TabsSound ==
    /\ load \in [Tabs -> TabSet(ticks)]
    /\ \A k \in Tabs : load[k].pc = "waiting" => load[k].net # "none"
    /\ \A k \in Tabs : TabTrue(past, page, load[k])

CopiesSound ==
    /\ worker \in Pages!Answers /\ worker.is \in {"nothing", "ok", "empty"}
    /\ http \in Pages!Answers /\ http.is \in {"nothing", "ok"}
    /\ TrueThen(past, page, worker) /\ TrueThen(past, page, http)

MemosSound ==
    /\ memo \in [Users \cup {NoUser} -> MemoSet(ticks)]
    /\ flight \in [Users \cup {NoUser} -> FlightSet(ticks)]
    /\ \A k \in Users \cup {NoUser} :
          MemoTrue(past, page, memo[k]) /\ FlightTrue(past, page, held, flight[k])

DataSound ==
    /\ page \in Pages!Names /\ ticks \in 0..MaxTicks
    /\ cookie \in Users \cup {NoUser} /\ held \in Nat
    /\ \A m \in past : m.at \in 0..ticks /\ m.version \in 0..held
    /\ [at |-> ticks, version |-> held] \in past

CountsSound == changes \in 0..MaxChanges /\ begun \in 0..MaxLoads /\ cuts \in 0..MaxCuts

LEMMA PagesInvParts ==
    PagesInv <=> TabsSound /\ CopiesSound /\ MemosSound /\ DataSound /\ CountsSound
BY DEF PagesInv, Pages!TypeOK, TabsSound, TabSet, CopiesSound, MemosSound, MemoSet, FlightSet,
   DataSound, CountsSound

LEMMA PagesInvNext ==
    ASSUME TabsSound', CopiesSound', MemosSound', DataSound', CountsSound'
    PROVE  PagesInv'
BY DEF PagesInv, Pages!TypeOK, TabsSound, TabSet, CopiesSound, MemosSound, MemoSet, FlightSet,
   DataSound, CountsSound

\* An answer of the route was true as lately as its load, or what is held, says; that of a
\* failure says nothing.
LEMMA AnswersAreTrue ==
    ASSUME PagesInv, NEW u \in Users \cup {NoUser}, NEW v \in Nat, NEW d \in Nat,
           \E m \in past : m.version = v /\ ticks <= m.at + d + Pages!RouteOf(page).memo,
           Pages!RouteOf(page).memo = 0 => d = 0
    PROVE  /\ Pages!Served(u, v, d) \in Pages!Answers
           /\ TrueThen(past, page, Pages!Served(u, v, d))
           /\ Pages!Served(u, v, d).date = ticks /\ Pages!Served(u, v, d).user = u
           /\ Pages!Served(u, v, d).is # "nothing"
<1>1. ticks \in 0..MaxTicks /\ [at |-> ticks, version |-> held] \in past
  BY DEF PagesInv, Pages!TypeOK
<1>2. PICK i \in {"refused", "missing", "ok"} :
         Pages!Served(u, v, d) = [user |-> u, version |-> v, date |-> ticks, took |-> d, is |-> i]
  BY DEF Pages!Served, Pages!Answer
<1>3. PICK a : a = Pages!Served(u, v, d)
  OBVIOUS
<1>4. a.user = u /\ a.version = v /\ a.date = ticks /\ a.took = d /\ a.is = i
  BY <1>2, <1>3
<1>5. a \in Pages!Answers
  BY <1>1, <1>2, <1>3 DEF Pages!Answers
<1>6. \E m \in past : m.at = a.date
  BY <1>1, <1>4
<1>7. TrueThen(past, page, a)
  BY <1>4, <1>6 DEF TrueThen
<1>8. QED
  BY <1>3, <1>4, <1>5, <1>7

LEMMA FailuresSayNothing ==
    ASSUME PagesInv, NEW u \in Users \cup {NoUser}
    PROVE  /\ Pages!Failure(u) \in Pages!Answers /\ TrueThen(past, page, Pages!Failure(u))
           /\ Pages!Failure(u).date = ticks /\ Pages!Failure(u).user = u
           /\ Pages!Failure(u).is # "nothing"
<1>1. ticks \in 0..MaxTicks
  BY DEF PagesInv, Pages!TypeOK
<1>2. PICK j \in {"empty", "error"} :
         Pages!Failure(u) = [user |-> u, version |-> 0, date |-> ticks, took |-> 0, is |-> j]
  BY DEF Pages!Failure, Pages!Answer
<1>3. Pages!Failure(u) \in Pages!Answers
  BY <1>1, <1>2 DEF Pages!Answers
<1>4. QED
  BY <1>2, <1>3 DEF TrueThen, Tells

\* Any tabs change, and the new ones are sound.
LEMMA AnyTabs ==
    ASSUME PagesInv, past \subseteq past', page' = page, ticks' = ticks,
           load' \in [Tabs -> TabSet(ticks)],
           \A k \in Tabs :
              load'[k] = load[k] \/ ( /\ load'[k].pc = "waiting" => load'[k].net # "none"
                                     /\ TabTrue(past', page, load'[k]) )
    PROVE  TabsSound'
<1>1. TabsSound
  BY PagesInvParts
<1>2. \A k \in Tabs : load'[k].pc = "waiting" => load'[k].net # "none"
  BY <1>1 DEF TabsSound
<1>3. \A k \in Tabs : TabTrue(past', page, load'[k])
  BY <1>1, TrueForGood DEF TabsSound
<1>4. QED
  BY <1>2, <1>3 DEF TabsSound

\* One tab changes, and the new one is sound.
LEMMA OneTab ==
    ASSUME PagesInv, NEW l \in Tabs, NEW r \in TabSet(ticks),
           TabTrue(past', page, r), r.pc = "waiting" => r.net # "none",
           load' = [load EXCEPT ![l] = r], past \subseteq past', page' = page, ticks' = ticks
    PROVE  TabsSound'
<1>1. load \in [Tabs -> TabSet(ticks)]
  BY PagesInvParts DEF TabsSound
<1>2. load' \in [Tabs -> TabSet(ticks)] /\ \A k \in Tabs : load'[k] = IF k = l THEN r ELSE load[k]
  BY <1>1
<1>3. QED
  BY <1>2, AnyTabs

\* No tab changes.
LEMMA NoTab ==
    ASSUME PagesInv, load' = load, past \subseteq past', page' = page,
           ticks' \in Nat, ticks' >= ticks
    PROVE  TabsSound'
<1>1. TabsSound /\ ticks \in Nat
  BY PagesInvParts DEF DataSound
<1>2. TabSet(ticks) \subseteq TabSet(ticks')
  <2>1. 0..ticks \subseteq 0..ticks'
    BY <1>1
  <2>2. QED
    BY <2>1 DEF TabSet
<1>3. load' \in [Tabs -> TabSet(ticks')]
  BY <1>1, <1>2 DEF TabsSound
<1>4. \A k \in Tabs : TabTrue(past', page, load[k])
  BY <1>1, TrueForGood DEF TabsSound
<1>5. QED
  BY <1>1, <1>3, <1>4 DEF TabsSound

\* Nothing changes in what the web server holds and loads.
LEMMA NoMemo ==
    ASSUME PagesInv, UNCHANGED <<page, held, memo, flight>>, past \subseteq past',
           ticks' \in Nat, ticks' >= ticks
    PROVE  MemosSound'
<1>1. MemosSound /\ ticks \in Nat
  BY PagesInvParts DEF DataSound
<1>2. 0..ticks \subseteq 0..ticks'
  BY <1>1
<1>3. MemoSet(ticks) \subseteq MemoSet(ticks') /\ FlightSet(ticks) \subseteq FlightSet(ticks')
  BY <1>2 DEF MemoSet, FlightSet
<1>4. /\ memo' \in [Users \cup {NoUser} -> MemoSet(ticks')]
      /\ flight' \in [Users \cup {NoUser} -> FlightSet(ticks')]
  BY <1>1, <1>3 DEF MemosSound
<1>5. \A k \in Users \cup {NoUser} :
         MemoTrue(past', page, memo[k]) /\ FlightTrue(past', page, held, flight[k])
  BY <1>1, TrueForGood DEF MemosSound
<1>6. QED
  BY <1>4, <1>5 DEF MemosSound

LEMMA NobodyTellsNothing ==
    /\ Pages!Nobody.is = "nothing"
    /\ MaxTicks \in Nat => Pages!Nobody \in Pages!Answers
    /\ \A p, w : TrueThen(p, w, Pages!Nobody)
BY DEF Pages!Nobody, Pages!Answers, TrueThen, Tells

\* What is kept of a rule for the one an answer was made for.
LEMMA KindsKept ==
    ASSUME PagesInv, NEW u \in Users \cup {NoUser}
    PROVE  /\ Pages!rule.age[Pages!Kind(u)] \in 0..1 /\ Pages!rule.stale[Pages!Kind(u)] \in 0..1
           /\ Pages!rule.age[Pages!Kind(u)] + Pages!rule.stale[Pages!Kind(u)] <= Pages!CopyLife[page]
           /\ page \in Forgetting /\ u \in Users =>
                 Pages!rule.age[Pages!Kind(u)] + Pages!rule.stale[Pages!Kind(u)] = 0
<1>1. page \in Pages!Names /\ Pages!rule \in Rules /\ Pages!rule = Pages!RouteOf(page)
  BY RuleTyped DEF PagesInv, Pages!TypeOK, Pages!rule
<1>2. Pages!Kind(u) \in {"visitor", "account"} /\ (u \in Users => Pages!Kind(u) = "account")
  BY PagesParameters DEF Pages!Kind
<1>3. Pages!rule.age[Pages!Kind(u)] \in 0..1 /\ Pages!rule.stale[Pages!Kind(u)] \in 0..1
  BY <1>1, <1>2, RuleFields
<1>4. Pages!rule.age[Pages!Kind(u)] + Pages!rule.stale[Pages!Kind(u)] <= Pages!CopyLife[page]
  BY <1>1, <1>2, CopiesDie
<1>5. ASSUME page \in Forgetting, u \in Users
      PROVE  Pages!rule.age[Pages!Kind(u)] + Pages!rule.stale[Pages!Kind(u)] = 0
  <2>1. Pages!rule.age["account"] = 0 /\ Pages!rule.stale["account"] = 0
    BY <1>5, ForgettingRules DEF Forgets
  <2>2. QED
    BY <1>2, <1>5, <2>1
<1>6. QED
  BY <1>3, <1>4, <1>5

\* A copy that is used for a page opened now was true, recently, and of the right account.
LEMMA CopiesShow ==
    ASSUME PagesInv
    PROVE  /\ Pages!IsFresh /\ Pages!rule.how = "cacheFirst" =>
                 /\ worker.is = "ok" /\ worker.date + Pages!CopyLife[page] > ticks
                 /\ page \notin Forgetting
           /\ Pages!Usable =>
                 /\ http.is = "ok" /\ http.date + Pages!CopyLife[page] > ticks
                 /\ ~(page \in Forgetting /\ http.user \in Users)
           /\ Pages!Young => Pages!Usable
<1>1. /\ ticks \in Nat /\ worker \in Pages!Answers /\ http \in Pages!Answers
      /\ \A m \in past : m.at \in 0..ticks
  BY DEF PagesInv, Pages!TypeOK
<1>2. /\ worker.date \in 0..MaxTicks /\ http.date \in 0..MaxTicks
      /\ http.user \in Users \cup {NoUser}
  BY <1>1 DEF Pages!Answers
<1>3. PICK h \in Users \cup {NoUser} : h = http.user
  BY <1>2
<1>4. PICK a \in 0..1, s \in 0..1 :
         a = Pages!rule.age[Pages!Kind(h)] /\ s = Pages!rule.stale[Pages!Kind(h)]
  BY KindsKept
<1>5. /\ page \in Pages!Names /\ Pages!rule = Pages!RouteOf(page)
      /\ Pages!CopyLife[page] \in Nat
  BY CopiesDie DEF PagesInv, Pages!TypeOK, Pages!rule
<1>6. a + s <= Pages!CopyLife[page] /\ (page \in Forgetting /\ h \in Users => a + s = 0)
  BY <1>4, KindsKept
<1>7. ASSUME Pages!IsFresh, Pages!rule.how = "cacheFirst"
      PROVE  /\ worker.is = "ok" /\ worker.date + Pages!CopyLife[page] > ticks
             /\ page \notin Forgetting
  <2>1. worker.is = "ok" /\ ticks - worker.date < Day /\ Day <= Pages!CopyLife[page]
    BY <1>5, <1>7, CopiesDie DEF Pages!IsFresh
  <2>2. page \notin Forgetting
    BY <1>7, ForgettingRules DEF Forgets
  <2>3. QED
    BY <1>1, <1>2, <1>5, <2>1, <2>2, PagesParameters
<1>8. ASSUME Pages!Usable
      PROVE  /\ http.is = "ok" /\ http.date + Pages!CopyLife[page] > ticks
             /\ ~(page \in Forgetting /\ http.user \in Users)
  <2>1. http.is = "ok" /\ ticks - http.date < a + s
    BY <1>3, <1>4, <1>8 DEF Pages!Usable
  <2>2. http.date + Pages!CopyLife[page] > ticks
    BY <1>1, <1>2, <1>4, <1>5, <1>6, <2>1, PagesParameters
  <2>3. PICK m \in past : m.at = http.date
    BY <2>1 DEF PagesInv, TrueThen, Tells
  <2>4. http.date <= ticks
    BY <1>1, <2>3
  <2>5. a + s # 0
    BY <1>1, <1>2, <2>1, <2>4, PagesParameters
  <2>6. QED
    BY <1>3, <1>6, <2>1, <2>2, <2>5
<1>9. Pages!Young => Pages!Usable
  <2>1. ASSUME Pages!Young PROVE http.is = "ok" /\ ticks - http.date < a + s
    <3>1. http.is = "ok" /\ ticks - http.date < a
      BY <1>3, <1>4, <2>1 DEF Pages!Young
    <3>2. QED
      BY <1>1, <1>2, <1>4, <3>1, PagesParameters
  <2>2. QED
    BY <1>3, <1>4, <2>1 DEF Pages!Usable
<1>10. QED
  BY <1>7, <1>8, <1>9

\* A tab that was just opened is sound.
LEMMA OpenedTrue ==
    ASSUME PagesInv, NEW l \in Tabs
    PROVE  /\ Pages!Opened(l) \in TabSet(ticks)
           /\ Pages!Opened(l).pc = "waiting" => Pages!Opened(l).net # "none"
           /\ TabTrue(past, page, Pages!Opened(l))
<1>1. /\ ticks \in 0..MaxTicks /\ worker \in Pages!Answers /\ http \in Pages!Answers
      /\ cookie \in Users \cup {NoUser} /\ TrueThen(past, page, worker) /\ TrueThen(past, page, http)
  BY DEF PagesInv, Pages!TypeOK
<1>2. Pages!Nobody \in Pages!Answers /\ TrueThen(past, page, Pages!Nobody)
  BY NobodyTellsNothing, PagesParameters
<1> DEFINE first == Pages!rule.how = "cacheFirst"
           body == IF first /\ Pages!IsFresh THEN worker ELSE IF Pages!Usable THEN http ELSE Pages!Nobody
           kept == IF first THEN worker ELSE Pages!Nobody
<1>3. PICK b \in Pages!Answers, h \in Pages!Answers : b = body /\ h = kept
  BY <1>1, <1>2
<1>4. TrueThen(past, page, b) /\ TrueThen(past, page, h)
  BY <1>1, <1>2, <1>3
<1>5. PICK p \in {"waiting", "shown"}, n \in {"none", "asked"} :
        /\ p = IF Pages!Usable \/ (first /\ Pages!IsFresh) THEN "shown" ELSE "waiting"
        /\ n = IF Pages!Young THEN "none" ELSE "asked"
  OBVIOUS
<1>6. p = "waiting" => n # "none"
  BY <1>5, CopiesShow
<1>7. ASSUME p = "shown"
      PROVE  /\ b.is = "ok" /\ b.date + Pages!CopyLife[page] > ticks
             /\ ~(page \in Forgetting /\ b.user \in Users)
  <2>1. CASE first /\ Pages!IsFresh
    BY <1>3, <2>1, CopiesShow
  <2>2. CASE ~(first /\ Pages!IsFresh) /\ Pages!Usable
    BY <1>3, <2>2, CopiesShow
  <2>3. QED
    BY <1>5, <1>7, <2>1, <2>2
<1>8. Pages!Opened(l) =
        [pc |-> p, as |-> cookie, start |-> ticks, held |-> h, net |-> n,
         reply |-> Pages!Nobody, cut |-> FALSE, body |-> b]
  BY <1>3, <1>5 DEF Pages!Opened
<1> HIDE DEF first, body, kept
<1>9. PICK t : t = Pages!Opened(l)
  OBVIOUS
<1>10. /\ t.pc = p /\ t.as = cookie /\ t.start = ticks /\ t.held = h /\ t.net = n
       /\ t.reply = Pages!Nobody /\ t.cut = FALSE /\ t.body = b
  BY <1>8, <1>9
<1>11. t \in TabSet(ticks)
  BY <1>1, <1>2, <1>8, <1>9 DEF TabSet
<1>12. TabTrue(past, page, t)
  BY <1>2, <1>4, <1>7, <1>10 DEF TabTrue, Shows
<1>13. QED
  BY <1>6, <1>9, <1>10, <1>11, <1>12

LEMMA CopiesStay ==
    ASSUME CopiesSound, past \subseteq past',
           worker' = worker \/ worker' = http, http' = http, page' = page
    PROVE  CopiesSound'
<1>1. CASE worker' = worker
  BY <1>1, TrueForGood DEF CopiesSound
<1>2. CASE worker' = http
  BY <1>2, TrueForGood DEF CopiesSound
<1>3. QED
  BY <1>1, <1>2

LEMMA OpenStep ==
    ASSUME PagesInv, NEW l \in Tabs, Pages!Open(l)
    PROVE  PagesInv'
<1>1. /\ load' = [load EXCEPT ![l] = Pages!Opened(l)]
      /\ worker' = worker \/ worker' = http
      /\ begun < MaxLoads /\ begun' = begun + 1
      /\ UNCHANGED <<page, ticks, cookie, held, past, http, memo, flight, changes, cuts>>
  BY DEF Pages!Open
<1>2. PICK r : r = Pages!Opened(l)
  OBVIOUS
<1>3. r \in TabSet(ticks) /\ (r.pc = "waiting" => r.net # "none")
      /\ TabTrue(past', page, r) /\ load' = [load EXCEPT ![l] = r]
  BY <1>1, <1>2, OpenedTrue
<1>4. TabsSound'
  BY <1>1, <1>3, OneTab
<1>5. CopiesSound /\ DataSound /\ CountsSound
  BY PagesInvParts
<1>6. CopiesSound'
  BY <1>1, <1>5, CopiesStay
<1>7. DataSound' /\ CountsSound'
  BY <1>1, <1>5, PagesParameters DEF DataSound, CountsSound
<1>8. MemosSound'
  BY <1>1, <1>5, NoMemo DEF DataSound
<1>9. QED
  BY <1>4, <1>6, <1>7, <1>8, PagesInvNext

\* The fields of a tab.
LEMMA TabFields ==
    ASSUME PagesInv, NEW l \in Tabs
    PROVE  /\ load[l] \in TabSet(ticks) /\ TabTrue(past, page, load[l])
           /\ load[l].as \in Users \cup {NoUser} /\ load[l].start \in 0..ticks
           /\ load[l].pc \in {"closed", "waiting", "shown"}
           /\ load[l].held \in Pages!Answers /\ load[l].reply \in Pages!Answers
           /\ load[l].body \in Pages!Answers
           /\ load[l].cut \in BOOLEAN
<1>1. load[l] \in TabSet(ticks) /\ TabTrue(past, page, load[l])
  BY DEF PagesInv, Pages!TypeOK, TabSet
<1>2. QED
  BY <1>1 DEF TabSet

\* A tab that asked or waits for a load gets an answer that is true.
LEMMA Answering ==
    ASSUME PagesInv, NEW l \in Tabs, load[l].net \in {"asked", "loading"},
           NEW a \in Pages!Answers, TrueThen(past, page, a), a.date = ticks,
           a.user = load[l].as, a.is # "nothing",
           NEW r, r = [load[l] EXCEPT !.net = "here", !.reply = a]
    PROVE  /\ r \in TabSet(ticks) /\ TabTrue(past, page, r) /\ r.net = "here"
<1>1. PICK t : t = load[l]
  OBVIOUS
<1>2. /\ t \in TabSet(ticks) /\ TabTrue(past, page, t) /\ t.start \in 0..ticks
      /\ t.net \in {"asked", "loading"}
  BY <1>1, TabFields
<1>3. r \in TabSet(ticks)
  BY <1>1, <1>2 DEF TabSet
<1>4. /\ r.pc = t.pc /\ r.as = t.as /\ r.start = t.start /\ r.held = t.held
      /\ r.body = t.body /\ r.cut = t.cut /\ r.net = "here" /\ r.reply = a
  BY <1>1, <1>2 DEF TabSet
<1>5. ticks \in Nat /\ a.date >= t.start
  BY <1>2, PagesInvParts DEF DataSound
<1>6. QED
  BY <1>1, <1>2, <1>3, <1>4, <1>5 DEF TabTrue, Shows

\* What is held is answered only while it is less old than the rule says.
LEMMA HeldIsTrue ==
    ASSUME PagesInv, NEW k \in Users \cup {NoUser}, Pages!Held(k)
    PROVE  /\ memo[k].version \in Nat /\ memo[k].took \in Nat
           /\ Pages!RouteOf(page).memo > 0
           /\ \E m \in past : /\ m.version = memo[k].version
                              /\ ticks <= m.at + memo[k].took + Pages!RouteOf(page).memo
<1>1. PICK x : x = memo[k]
  OBVIOUS
<1>2. x \in MemoSet(ticks) /\ MemoTrue(past, page, x)
  BY <1>1, PagesInvParts DEF MemosSound
<1>3. /\ x.there /\ ticks - x.stored <= Pages!RouteOf(page).memo
      /\ x.version \in Nat /\ x.took \in Nat /\ x.stored \in 0..ticks
  BY <1>1, <1>2 DEF Pages!Held, Pages!rule, MemoSet
<1>4. /\ ticks \in Nat /\ page \in Pages!Names
      /\ \A m \in past : m.at \in 0..ticks
  BY PagesInvParts DEF DataSound
<1>5. PICK g \in Nat : g = Pages!RouteOf(page).memo
  BY <1>4, CopiesDie
<1>6. PICK m \in past : m.version = x.version /\ x.stored <= m.at + x.took
  BY <1>2, <1>3 DEF MemoTrue
<1>7. ticks <= m.at + x.took + g
  BY <1>3, <1>4, <1>5, <1>6
<1>8. g > 0
  BY <1>2, <1>3, <1>5 DEF MemoTrue
<1>9. QED
  BY <1>1, <1>3, <1>5, <1>6, <1>7, <1>8

LEMMA ServeStep ==
    ASSUME PagesInv, NEW l \in Tabs, Pages!Serve(l)
    PROVE  PagesInv'
<1>1. /\ load[l].net = "asked" /\ cuts' \in 0..MaxCuts
      /\ UNCHANGED <<page, ticks, cookie, held, past, worker, http, memo, flight, changes, begun>>
  <2>1. cuts \in 0..MaxCuts
    BY PagesInvParts DEF CountsSound
  <2>2. cuts' = cuts \/ (cuts < MaxCuts /\ cuts' = cuts + 1)
    BY DEF Pages!Serve
  <2>3. cuts' \in 0..MaxCuts
    BY <2>1, <2>2, PagesParameters
  <2>4. QED
    BY <2>3 DEF Pages!Serve
<1>2. PICK u \in Users \cup {NoUser} : u = load[l].as
  BY TabFields
<1>3. PICK k \in Users \cup {NoUser} : k = Pages!MemoKey(u)
  BY DEF Pages!MemoKey
<1>4. PICK a \in Pages!Answers :
         /\ load' = [load EXCEPT ![l] = [load[l] EXCEPT !.net = "here", !.reply = a]]
         /\ TrueThen(past, page, a) /\ a.date = ticks /\ a.user = u /\ a.is # "nothing"
  <2>1. /\ ticks \in Nat /\ held \in Nat /\ [at |-> ticks, version |-> held] \in past
        /\ page \in Pages!Names
    BY PagesInvParts DEF DataSound
  <2>2. CASE Pages!Replies(l, Pages!Served(u, held, 0))
    <3>1. \E m \in past : m.version = held /\ ticks <= m.at + 0 + Pages!RouteOf(page).memo
      <4>1. PICK g \in Nat : g = Pages!RouteOf(page).memo
        BY <2>1, CopiesDie
      <4>2. PICK m \in past : m.version = held /\ m.at = ticks
        BY <2>1
      <4>3. ticks <= m.at + 0 + g
        BY <2>1, <4>2
      <4>4. QED
        BY <4>1, <4>2, <4>3
    <3>2. PICK a : a = Pages!Served(u, held, 0)
      OBVIOUS
    <3>3. /\ a \in Pages!Answers /\ TrueThen(past, page, a) /\ a.date = ticks
          /\ a.user = u /\ a.is # "nothing"
      BY <2>1, <3>1, <3>2, AnswersAreTrue
    <3>4. load' = [load EXCEPT ![l] = [load[l] EXCEPT !.net = "here", !.reply = a]]
      BY <2>2, <3>2 DEF Pages!Replies
    <3>5. QED
      BY <3>3, <3>4
  <2>3. CASE /\ Pages!Held(k)
             /\ Pages!Replies(l, Pages!Served(u, memo[k].version, memo[k].took))
    <3>1. PICK v \in Nat, d \in Nat : v = memo[k].version /\ d = memo[k].took
      BY <2>3, HeldIsTrue
    <3>2. /\ \E m \in past : m.version = v /\ ticks <= m.at + d + Pages!RouteOf(page).memo
          /\ Pages!RouteOf(page).memo > 0 /\ Pages!RouteOf(page).memo \in Nat
      BY <2>1, <2>3, <3>1, HeldIsTrue, CopiesDie
    <3>3. Pages!RouteOf(page).memo # 0
      BY <3>2
    <3>4. PICK a : a = Pages!Served(u, v, d)
      OBVIOUS
    <3>5. /\ a \in Pages!Answers /\ TrueThen(past, page, a) /\ a.date = ticks
          /\ a.user = u /\ a.is # "nothing"
      BY <3>2, <3>3, <3>4, AnswersAreTrue
    <3>6. load' = [load EXCEPT ![l] = [load[l] EXCEPT !.net = "here", !.reply = a]]
      BY <2>3, <3>1, <3>4 DEF Pages!Replies
    <3>7. QED
      BY <3>5, <3>6
  <2>4. CASE Pages!Replies(l, Pages!Failure(u))
    BY <2>4, FailuresSayNothing DEF Pages!Replies
  <2>5. QED
    BY <1>2, <1>3, <2>2, <2>3, <2>4 DEF Pages!Serve
<1>5. PICK r : r = [load[l] EXCEPT !.net = "here", !.reply = a]
  OBVIOUS
<1>6. r \in TabSet(ticks) /\ TabTrue(past, page, r) /\ r.net = "here"
  BY <1>1, <1>2, <1>4, <1>5, Answering
<1>7. TabsSound'
  BY <1>1, <1>4, <1>5, <1>6, OneTab
<1>8. CopiesSound' /\ DataSound' /\ CountsSound'
  BY <1>1, PagesInvParts DEF CopiesSound, DataSound, CountsSound
<1>9. MemosSound'
  BY <1>1, PagesInvParts, NoMemo DEF DataSound
<1>10. QED
  BY <1>7, <1>8, <1>9, PagesInvNext

\* A load begins: it can read only what holds from now on.
LEMMA BegunTrue ==
    ASSUME PagesInv, NEW k \in Users \cup {NoUser}, Pages!rule.memo > 0,
           flight' = Pages!Begun(k), UNCHANGED <<page, ticks, held, past, memo>>
    PROVE  MemosSound'
<1>1. /\ ticks \in Nat /\ held \in Nat /\ [at |-> ticks, version |-> held] \in past
      /\ MemosSound
  BY PagesInvParts DEF DataSound
<1>2. PICK f : f = [on |-> TRUE, version |-> held, began |-> ticks]
  OBVIOUS
<1>3. flight' = [flight EXCEPT ![k] = f]
  BY <1>2 DEF Pages!Begun
<1>4. f \in FlightSet(ticks)
  BY <1>1, <1>2 DEF FlightSet
<1>5. FlightTrue(past, page, held, f)
  <2>1. \A v \in held..held : v = held
    BY <1>1
  <2>2. ticks <= [at |-> ticks, version |-> held].at
    BY <1>1
  <2>3. \A v \in held..held : \E m \in past : m.version = v /\ ticks <= m.at
    BY <1>1, <2>1, <2>2
  <2>4. QED
    BY <1>2, <2>3 DEF FlightTrue, Pages!rule
<1>6. \A j \in Users \cup {NoUser} : flight'[j] = f \/ flight'[j] = flight[j]
  BY <1>1, <1>3 DEF MemosSound
<1>7. flight' \in [Users \cup {NoUser} -> FlightSet(ticks)]
  BY <1>1, <1>3, <1>4 DEF MemosSound
<1>8. QED
  BY <1>1, <1>5, <1>6, <1>7 DEF MemosSound

LEMMA MissStep ==
    ASSUME PagesInv, NEW l \in Tabs, Pages!Miss(l)
    PROVE  PagesInv'
<1>1. /\ load[l].net = "asked" /\ Pages!rule.memo > 0
      /\ load' = [load EXCEPT ![l].net = "loading"]
      /\ UNCHANGED <<page, ticks, cookie, held, past, worker, http, memo, changes, begun, cuts>>
  BY DEF Pages!Miss
<1>2. PICK t : t = load[l]
  OBVIOUS
<1>3. t \in TabSet(ticks) /\ TabTrue(past, page, t) /\ t.net = "asked"
  BY <1>1, <1>2, TabFields
<1>4. PICK r : r = [t EXCEPT !.net = "loading"]
  OBVIOUS
<1>5. /\ r \in TabSet(ticks) /\ r.pc = t.pc /\ r.as = t.as /\ r.start = t.start
      /\ r.held = t.held /\ r.body = t.body /\ r.cut = t.cut /\ r.reply = t.reply
      /\ r.net = "loading"
  BY <1>3, <1>4 DEF TabSet
<1>6. TabTrue(past, page, r)
  BY <1>3, <1>5 DEF TabTrue, Shows
<1>7. TabsSound'
  BY <1>1, <1>2, <1>4, <1>5, <1>6, OneTab
<1>8. CopiesSound' /\ DataSound' /\ CountsSound'
  BY <1>1, PagesInvParts DEF CopiesSound, DataSound, CountsSound
<1>9. MemosSound'
  <2>1. PICK k \in Users \cup {NoUser} : flight' = flight \/ flight' = Pages!Begun(k)
    <3>1. Pages!MemoKey(load[l].as) \in Users \cup {NoUser}
      BY TabFields DEF Pages!MemoKey
    <3>2. QED
      BY <3>1 DEF Pages!Miss
  <2>2. CASE flight' = flight
    BY <1>1, <2>2, PagesInvParts, NoMemo DEF DataSound
  <2>3. CASE flight' = Pages!Begun(k)
    BY <1>1, <2>3, BegunTrue
  <2>4. QED
    BY <2>1, <2>2, <2>3
<1>10. QED
  BY <1>7, <1>8, <1>9, PagesInvNext

LEMMA ElsewhereStep ==
    ASSUME PagesInv, NEW k \in Users \cup {NoUser}, Pages!Elsewhere(k)
    PROVE  PagesInv'
<1>1. /\ Pages!rule.memo > 0 /\ flight' = Pages!Begun(k)
      /\ cuts < MaxCuts /\ cuts' = cuts + 1
      /\ UNCHANGED <<page, ticks, cookie, held, past, worker, http, memo, load, changes, begun>>
  BY DEF Pages!Elsewhere
<1>2. MemosSound'
  BY <1>1, BegunTrue
<1>3. TabsSound'
  BY <1>1, PagesInvParts, NoTab DEF DataSound
<1>4. CopiesSound' /\ DataSound'
  BY <1>1, PagesInvParts DEF CopiesSound, DataSound
<1>5. CountsSound'
  BY <1>1, PagesInvParts, PagesParameters DEF CountsSound
<1>6. QED
  BY <1>2, <1>3, <1>4, <1>5, PagesInvNext

\* A load that ends is under way no longer.
LEMMA LandedTrue ==
    ASSUME PagesInv, NEW k \in Users \cup {NoUser},
           flight' = [flight EXCEPT ![k] = Pages!Landed], UNCHANGED <<page, ticks, held, past>>
    PROVE  /\ flight' \in [Users \cup {NoUser} -> FlightSet(ticks)]
           /\ \A j \in Users \cup {NoUser} : FlightTrue(past, page, held, flight'[j])
<1>1. MemosSound /\ ticks \in Nat
  BY PagesInvParts DEF DataSound
<1>2. PICK f : f = Pages!Landed
  OBVIOUS
<1>3. f \in FlightSet(ticks) /\ FlightTrue(past, page, held, f)
  BY <1>1, <1>2 DEF Pages!Landed, FlightSet, FlightTrue
<1>4. \A j \in Users \cup {NoUser} : flight'[j] = f \/ flight'[j] = flight[j]
  BY <1>1, <1>2 DEF MemosSound
<1>5. flight' \in [Users \cup {NoUser} -> FlightSet(ticks)]
  BY <1>1, <1>2, <1>3 DEF MemosSound
<1>6. QED
  BY <1>1, <1>3, <1>4, <1>5 DEF MemosSound

LEMMA LandStep ==
    ASSUME PagesInv, NEW k \in Users \cup {NoUser}, Pages!Land(k)
    PROVE  PagesInv'
<1>1. PICK f, d : f = flight[k] /\ d = ticks - f.began
  OBVIOUS
<1>2. PICK v \in f.version..held :
        /\ memo' = [memo EXCEPT ![k] =
              [there |-> TRUE, version |-> v, stored |-> ticks, took |-> d]]
        /\ load' = [l \in Tabs |->
              IF Pages!Waits(l, k)
              THEN [load[l] EXCEPT !.net = "here", !.reply = Pages!Served(load[l].as, v, d)]
              ELSE load[l]]
  <2>1. PICK w \in flight[k].version..held :
          /\ memo' = [memo EXCEPT ![k] =
                [there |-> TRUE, version |-> w, stored |-> ticks,
                 took |-> ticks - flight[k].began]]
          /\ load' = [l \in Tabs |->
                IF Pages!Waits(l, k)
                THEN [load[l] EXCEPT !.net = "here",
                        !.reply = Pages!Served(load[l].as, w, ticks - flight[k].began)]
                ELSE load[l]]
    BY DEF Pages!Land
  <2>2. QED
    BY <1>1, <2>1, Zenon
<1>3. /\ f.on /\ flight' = [flight EXCEPT ![k] = Pages!Landed]
      /\ UNCHANGED <<page, ticks, cookie, held, past, worker, http, changes, begun, cuts>>
  BY <1>1 DEF Pages!Land
<1>4. /\ ticks \in Nat /\ held \in Nat /\ page \in Pages!Names /\ MemosSound /\ TabsSound
      /\ \A m \in past : m.at \in 0..ticks
  BY PagesInvParts DEF DataSound
<1>5. f \in FlightSet(ticks) /\ FlightTrue(past, page, held, f)
  BY <1>1, <1>4 DEF MemosSound
<1>6. PICK b \in 0..ticks : b = f.began
  BY <1>5 DEF FlightSet
<1>7. f.version \in Nat /\ v \in Nat /\ d \in Nat
  <2>1. f.version \in Nat
    BY <1>5 DEF FlightSet
  <2>2. v \in Nat
    BY <1>4, <2>1
  <2>3. QED
    BY <1>1, <1>4, <1>6, <2>1, <2>2
<1>8. PICK m \in past : m.version = v /\ b <= m.at
  BY <1>2, <1>3, <1>5, <1>6 DEF FlightTrue
<1>9. ticks <= m.at + d
  BY <1>1, <1>4, <1>6, <1>8
<1>10. PICK g \in Nat : g = Pages!RouteOf(page).memo /\ g > 0
  BY <1>3, <1>4, <1>5, CopiesDie DEF FlightTrue
<1>11. ticks <= m.at + d + g /\ g # 0
  BY <1>4, <1>7, <1>9, <1>10
<1>12. MemosSound'
  <2>1. PICK x : x = [there |-> TRUE, version |-> v, stored |-> ticks, took |-> d]
    OBVIOUS
  <2>2. x \in MemoSet(ticks)
    BY <1>4, <1>7, <2>1 DEF MemoSet
  <2>3. MemoTrue(past, page, x)
    BY <1>8, <1>9, <1>10, <2>1 DEF MemoTrue
  <2>4. \A j \in Users \cup {NoUser} : memo'[j] = x \/ memo'[j] = memo[j]
    BY <1>2, <1>4, <2>1 DEF MemosSound
  <2>5. memo' \in [Users \cup {NoUser} -> MemoSet(ticks)]
    BY <1>2, <1>4, <2>1, <2>2 DEF MemosSound
  <2>6. \A j \in Users \cup {NoUser} : MemoTrue(past, page, memo'[j])
    BY <1>4, <2>3, <2>4 DEF MemosSound
  <2>7. QED
    BY <1>3, <2>5, <2>6, LandedTrue DEF MemosSound
<1>13. ASSUME NEW l \in Tabs
       PROVE  /\ load'[l] \in TabSet(ticks)
              /\ load'[l] = load[l] \/ ( /\ load'[l].pc = "waiting" => load'[l].net # "none"
                                         /\ TabTrue(past, page, load'[l]) )
  <2>1. CASE ~Pages!Waits(l, k)
    BY <1>2, <1>4, <2>1 DEF TabsSound
  <2>2. CASE Pages!Waits(l, k)
    <3>1. PICK u \in Users \cup {NoUser} : u = load[l].as
      BY TabFields
    <3> DEFINE r == [load[l] EXCEPT !.net = "here", !.reply = Pages!Served(u, v, d)]
    <3>2. PICK a : a = Pages!Served(u, v, d)
      OBVIOUS
    <3>3. /\ a \in Pages!Answers /\ TrueThen(past, page, a) /\ a.date = ticks
          /\ a.user = u /\ a.is # "nothing"
      BY <1>7, <1>8, <1>10, <1>11, <3>2, AnswersAreTrue
    <3>4. load[l].net = "loading"
      BY <2>2 DEF Pages!Waits
    <3>5. r \in TabSet(ticks) /\ TabTrue(past, page, r) /\ r.net = "here"
      BY <3>1, <3>2, <3>3, <3>4, Answering
    <3>6. load'[l] = r
      BY <1>2, <2>2, <3>1
    <3>7. QED
      BY <3>5, <3>6
  <2>3. QED
    BY <2>1, <2>2
<1>14. TabsSound'
  <2>1. load' \in [Tabs -> TabSet(ticks)]
    BY <1>2, <1>13
  <2>2. QED
    BY <1>3, <1>13, <2>1, AnyTabs
<1>15. CopiesSound' /\ DataSound' /\ CountsSound'
  BY <1>3, PagesInvParts DEF CopiesSound, DataSound, CountsSound
<1>16. QED
  BY <1>12, <1>14, <1>15, PagesInvNext

LEMMA LandFailsStep ==
    ASSUME PagesInv, NEW k \in Users \cup {NoUser}, Pages!LandFails(k)
    PROVE  PagesInv'
<1>1. /\ cuts < MaxCuts /\ cuts' = cuts + 1
      /\ flight' = [flight EXCEPT ![k] = Pages!Landed]
      /\ load' = [l \in Tabs |->
            IF Pages!Waits(l, k)
            THEN [load[l] EXCEPT !.net = "here", !.reply = Pages!Failure(load[l].as)]
            ELSE load[l]]
      /\ UNCHANGED <<page, ticks, cookie, held, past, worker, http, memo, changes, begun>>
  BY DEF Pages!LandFails
<1>2. TabsSound /\ MemosSound
  BY PagesInvParts
<1>3. MemosSound'
  BY <1>1, <1>2, LandedTrue DEF MemosSound
<1>4. ASSUME NEW l \in Tabs
      PROVE  /\ load'[l] \in TabSet(ticks)
             /\ load'[l] = load[l] \/ ( /\ load'[l].pc = "waiting" => load'[l].net # "none"
                                        /\ TabTrue(past, page, load'[l]) )
  <2>1. CASE ~Pages!Waits(l, k)
    BY <1>1, <1>2, <2>1 DEF TabsSound
  <2>2. CASE Pages!Waits(l, k)
    <3>1. PICK u \in Users \cup {NoUser} : u = load[l].as
      BY TabFields
    <3> DEFINE r == [load[l] EXCEPT !.net = "here", !.reply = Pages!Failure(u)]
    <3>2. PICK a : a = Pages!Failure(u)
      OBVIOUS
    <3>3. /\ a \in Pages!Answers /\ TrueThen(past, page, a) /\ a.date = ticks
          /\ a.user = u /\ a.is # "nothing"
      BY <3>2, FailuresSayNothing
    <3>4. load[l].net = "loading"
      BY <2>2 DEF Pages!Waits
    <3>5. r \in TabSet(ticks) /\ TabTrue(past, page, r) /\ r.net = "here"
      BY <3>1, <3>2, <3>3, <3>4, Answering
    <3>6. load'[l] = r
      BY <1>1, <2>2, <3>1
    <3>7. QED
      BY <3>5, <3>6
  <2>3. QED
    BY <2>1, <2>2
<1>5. TabsSound'
  <2>1. load' \in [Tabs -> TabSet(ticks)]
    BY <1>1, <1>4
  <2>2. QED
    BY <1>1, <1>4, <2>1, AnyTabs
<1>6. CopiesSound' /\ DataSound'
  BY <1>1, PagesInvParts DEF CopiesSound, DataSound
<1>7. CountsSound'
  <2>1. CountsSound /\ cuts < MaxCuts /\ cuts' = cuts + 1 /\ changes' = changes /\ begun' = begun
    BY <1>1, PagesInvParts
  <2>2. QED
    BY <2>1, PagesParameters DEF CountsSound
<1>8. QED
  BY <1>3, <1>5, <1>6, <1>7, PagesInvNext

LEMMA ForgetStep ==
    ASSUME PagesInv, NEW k \in Users \cup {NoUser}, Pages!Forget(k)
    PROVE  PagesInv'
<1>1. /\ cuts < MaxCuts /\ cuts' = cuts + 1 /\ memo' = [memo EXCEPT ![k] = Pages!Absent]
      /\ UNCHANGED <<page, ticks, cookie, held, past, worker, http, flight, load, changes, begun>>
  BY DEF Pages!Forget
<1>2. MemosSound /\ ticks \in Nat
  BY PagesInvParts DEF DataSound
<1>3. MemosSound'
  <2>1. PICK x : x = Pages!Absent
    OBVIOUS
  <2>2. x \in MemoSet(ticks) /\ MemoTrue(past, page, x)
    BY <1>2, <2>1 DEF Pages!Absent, MemoSet, MemoTrue
  <2>3. \A j \in Users \cup {NoUser} : memo'[j] = x \/ memo'[j] = memo[j]
    BY <1>1, <1>2, <2>1 DEF MemosSound
  <2>4. memo' \in [Users \cup {NoUser} -> MemoSet(ticks)]
    BY <1>1, <1>2, <2>1, <2>2 DEF MemosSound
  <2>5. QED
    BY <1>1, <1>2, <2>2, <2>3, <2>4 DEF MemosSound
<1>4. TabsSound'
  BY <1>1, <1>2, NoTab
<1>5. CopiesSound' /\ DataSound'
  BY <1>1, PagesInvParts DEF CopiesSound, DataSound
<1>6. CountsSound'
  BY <1>1, PagesInvParts, PagesParameters DEF CountsSound
<1>7. QED
  BY <1>3, <1>4, <1>5, <1>6, PagesInvNext

LEMMA ArriveStep ==
    ASSUME PagesInv, NEW l \in Tabs, Pages!Arrive(l)
    PROVE  PagesInv'
<1>1. PICK t : t = load[l]
  OBVIOUS
<1>2. /\ t \in TabSet(ticks) /\ TabTrue(past, page, t)
      /\ t.as \in Users \cup {NoUser} /\ t.start \in 0..ticks
      /\ t.reply \in Pages!Answers /\ t.body \in Pages!Answers
  BY <1>1, TabFields
<1>3. PICK b \in Pages!Answers : b = IF t.pc = "waiting" THEN t.reply ELSE t.body
  BY <1>2
<1>4. PICK r : r = [t EXCEPT !.net = "none", !.reply = Pages!Nobody, !.held = Pages!Nobody,
                             !.pc = "shown", !.body = b]
  OBVIOUS
<1>5. /\ t.net = "here" /\ load' = [load EXCEPT ![l] = r]
  <2>1. load' = [load EXCEPT ![l] =
            [t EXCEPT !.net = "none", !.reply = Pages!Nobody, !.held = Pages!Nobody,
                      !.pc = "shown", !.body = b]]
    BY <1>1, <1>3 DEF Pages!Arrive
  <2>2. QED
    BY <1>1, <1>4, <2>1 DEF Pages!Arrive
<1>6. /\ http' = (IF Pages!Keeps(t.reply) THEN t.reply ELSE http)
      /\ worker' = (IF Pages!Puts(t.reply) THEN t.reply ELSE worker)
      /\ UNCHANGED <<page, ticks, cookie, held, past, memo, flight, changes, begun, cuts>>
  BY <1>1 DEF Pages!Arrive
<1>7. Pages!Nobody \in Pages!Answers /\ TrueThen(past, page, Pages!Nobody)
  BY NobodyTellsNothing, PagesParameters
<1>8. r \in TabSet(ticks)
  BY <1>2, <1>4, <1>7 DEF TabSet
<1>9. /\ r.pc = "shown" /\ r.as = t.as /\ r.start = t.start /\ r.held = Pages!Nobody
      /\ r.body = b /\ r.cut = t.cut /\ r.net = "none" /\ r.reply = Pages!Nobody
  BY <1>2, <1>4 DEF TabSet
<1>10. /\ t.reply.is # "nothing" /\ t.reply.date >= t.start /\ t.reply.user = t.as
      /\ TrueThen(past, page, t.reply) /\ TrueThen(past, page, t.body) /\ ~t.cut
  BY <1>2, <1>5 DEF TabTrue
<1>11. TrueThen(past, page, b)
  BY <1>3, <1>10
<1>12. Shows(page, r)
  <2>1. CASE t.pc = "waiting"
    BY <1>3, <1>9, <1>10, <2>1 DEF Shows
  <2>2. CASE t.pc = "shown"
    BY <1>2, <1>3, <1>9, <1>10, <2>2 DEF TabTrue, Shows
  <2>3. t.pc \in {"waiting", "shown"}
    BY <1>2, <1>5 DEF TabSet, TabTrue
  <2>4. QED
    BY <2>1, <2>2, <2>3
<1>13. TabTrue(past, page, r)
  BY <1>7, <1>9, <1>10, <1>11, <1>12 DEF TabTrue
<1>14. TabsSound'
  BY <1>5, <1>6, <1>8, <1>9, <1>13, OneTab
<1>15. CopiesSound'
  BY <1>2, <1>6, <1>10, PagesInvParts DEF CopiesSound, Pages!Keeps, Pages!Puts
<1>16. DataSound' /\ CountsSound'
  BY <1>6, PagesInvParts DEF DataSound, CountsSound
<1>17. MemosSound'
  BY <1>6, PagesInvParts, NoMemo DEF DataSound
<1>18. QED
  BY <1>14, <1>15, <1>16, <1>17, PagesInvNext

LEMMA CutStep ==
    ASSUME PagesInv, NEW l \in Tabs, Pages!Cut(l)
    PROVE  PagesInv'
<1>1. PICK t : t = load[l]
  OBVIOUS
<1>2. /\ t \in TabSet(ticks) /\ TabTrue(past, page, t)
      /\ t.as \in Users \cup {NoUser} /\ t.body \in Pages!Answers /\ t.held \in Pages!Answers
  BY <1>1, TabFields
<1>3. PICK f \in Pages!Answers : f = Pages!FallBack(l) /\ TrueThen(past, page, f)
  <2>1. \A u \in Users \cup {NoUser} :
           /\ Pages!Answer(u, 0, 0, "error") \in Pages!Answers
           /\ TrueThen(past, page, Pages!Answer(u, 0, 0, "error"))
    <3>1. ticks \in 0..MaxTicks
      BY DEF PagesInv, Pages!TypeOK
    <3>2. QED
      BY <3>1 DEF Pages!Answer, Pages!Answers, TrueThen, Tells
  <2>2. /\ worker \in Pages!Answers /\ TrueThen(past, page, worker) /\ TrueThen(past, page, t.held)
    BY <1>2 DEF PagesInv, Pages!TypeOK, TabTrue
  <2>3. Pages!FallBack(l) \in {worker, t.held, Pages!Answer(t.as, 0, 0, "error")}
    BY <1>1 DEF Pages!FallBack
  <2>4. QED
    BY <1>2, <2>1, <2>2, <2>3
<1>4. PICK b \in Pages!Answers : b = IF t.pc = "waiting" THEN f ELSE t.body
  BY <1>2
<1>5. PICK c \in BOOLEAN : c = (t.pc = "waiting")
  OBVIOUS
<1>6. PICK r : r = [t EXCEPT !.net = "none", !.reply = Pages!Nobody, !.held = Pages!Nobody,
                             !.pc = "shown", !.cut = c, !.body = b]
  OBVIOUS
<1>7. load' = [load EXCEPT ![l] = r]
  BY <1>1, <1>3, <1>4, <1>5, <1>6 DEF Pages!Cut
<1>8. /\ t.net \in {"asked", "loading", "here"} /\ cuts < MaxCuts /\ cuts' = cuts + 1
      /\ UNCHANGED <<page, ticks, cookie, held, past, worker, http, memo, flight, changes, begun>>
  BY <1>1 DEF Pages!Cut
<1>9. Pages!Nobody \in Pages!Answers /\ TrueThen(past, page, Pages!Nobody)
  BY NobodyTellsNothing, PagesParameters
<1>10. r \in TabSet(ticks)
  BY <1>2, <1>6, <1>9 DEF TabSet
<1>11. /\ r.pc = "shown" /\ r.as = t.as /\ r.start = t.start /\ r.held = Pages!Nobody
       /\ r.body = b /\ r.cut = c /\ r.net = "none" /\ r.reply = Pages!Nobody
  BY <1>2, <1>6 DEF TabSet
<1>12. TrueThen(past, page, t.body) /\ ~t.cut /\ t.pc # "closed"
  BY <1>2, <1>8 DEF TabTrue
<1>13. TrueThen(past, page, b)
  BY <1>3, <1>4, <1>12
<1>14. ~c => Shows(page, r)
  <2>1. ~c => t.pc = "shown" /\ b = t.body
    BY <1>2, <1>4, <1>5, <1>12 DEF TabSet
  <2>2. QED
    BY <1>2, <1>11, <1>12, <2>1 DEF TabTrue, Shows
<1>15. TabTrue(past, page, r)
  BY <1>9, <1>11, <1>13, <1>14 DEF TabTrue
<1>16. TabsSound'
  BY <1>7, <1>8, <1>10, <1>11, <1>15, OneTab
<1>17. CopiesSound' /\ DataSound'
  BY <1>8, PagesInvParts DEF CopiesSound, DataSound
<1>18. CountsSound'
  BY <1>8, PagesInvParts, PagesParameters DEF CountsSound
<1>19. MemosSound'
  BY <1>8, PagesInvParts, NoMemo DEF DataSound
<1>20. QED
  BY <1>16, <1>17, <1>18, <1>19, PagesInvNext

\* The data change, or who is signed in: the past grows by what holds then.
LEMMA DataChange ==
    ASSUME PagesInv, NEW user \in Users \cup {NoUser}, NEW v \in {held, held + 1},
           Pages!Becomes(user, v), UNCHANGED <<ticks, page, memo, flight>>
    PROVE  /\ DataSound' /\ changes' \in 0..MaxChanges /\ past \subseteq past'
           /\ MemosSound'
<1>1. DataSound /\ changes \in 0..MaxChanges
  BY PagesInvParts DEF CountsSound
<1>2. /\ changes < MaxChanges /\ changes' = changes + 1 /\ cookie' = user /\ held' = v
      /\ past' = past \cup {[at |-> ticks, version |-> v]}
  BY DEF Pages!Becomes
<1>3. held \in Nat /\ ticks \in 0..MaxTicks /\ v \in Nat /\ held <= v
  BY <1>1 DEF DataSound
<1>4. \A m \in past' : m.at \in 0..ticks' /\ m.version \in 0..held'
  <2>1. \A m \in past : m.at \in 0..ticks /\ m.version \in 0..v
    BY <1>1, <1>3 DEF DataSound
  <2>2. ticks \in 0..ticks /\ v \in 0..v
    BY <1>3, PagesParameters
  <2>3. QED
    BY <1>2, <2>1, <2>2
<1>5. DataSound'
  BY <1>1, <1>2, <1>3, <1>4 DEF DataSound
<1>6. MemosSound'
  <2>1. MemosSound
    BY PagesInvParts
  <2>2. ASSUME NEW f \in FlightSet(ticks), FlightTrue(past, page, held, f)
        PROVE  FlightTrue(past', page, v, f)
    <3> SUFFICES ASSUME f.on PROVE /\ Pages!RouteOf(page).memo > 0
                                   /\ \A n \in f.version..v :
                                         \E m \in past' : m.version = n /\ f.began <= m.at
      BY DEF FlightTrue
    <3>1. /\ Pages!RouteOf(page).memo > 0
          /\ \A n \in f.version..held : \E m \in past : m.version = n /\ f.began <= m.at
      BY <2>2 DEF FlightTrue
    <3>2. f.began \in 0..ticks /\ f.version \in Nat
      BY DEF FlightSet
    <3>3. PICK e : e = [at |-> ticks, version |-> v] /\ e \in past'
      BY <1>2
    <3>4. e.version = v /\ f.began <= e.at
      BY <1>3, <3>2, <3>3
    <3>5. \A n \in f.version..v : n = v \/ n \in f.version..held
      BY <1>3, <3>2
    <3>6. past \subseteq past'
      BY <1>2
    <3>7. QED
      BY <3>1, <3>3, <3>4, <3>5, <3>6
  <2>3. \A k \in Users \cup {NoUser} :
           MemoTrue(past', page, memo[k]) /\ FlightTrue(past', page, v, flight[k])
    <3>1. past \subseteq past'
      BY <1>2
    <3>2. \A k \in Users \cup {NoUser} : flight[k] \in FlightSet(ticks)
      BY <2>1 DEF MemosSound
    <3>3. QED
      BY <2>1, <2>2, <3>1, <3>2, TrueForGood DEF MemosSound
  <2>4. QED
    BY <1>2, <2>1, <2>3 DEF MemosSound
<1>7. QED
  BY <1>1, <1>2, <1>5, <1>6, PagesParameters

LEMMA HappensStep ==
    ASSUME PagesInv, Pages!Happens
    PROVE  PagesInv'
<1>1. cookie \in Users \cup {NoUser} /\ ticks \in Nat
  BY PagesInvParts DEF DataSound
<1>2. PICK user \in Users \cup {NoUser}, v \in {held, held + 1} : Pages!Becomes(user, v)
  BY <1>1 DEF Pages!Happens
<1>3. UNCHANGED <<page, ticks, worker, http, memo, flight, load, begun, cuts>>
  BY DEF Pages!Happens
<1>4. DataSound' /\ MemosSound' /\ changes' \in 0..MaxChanges /\ past \subseteq past'
  BY <1>2, <1>3, DataChange
<1>5. TabsSound'
  BY <1>1, <1>3, <1>4, NoTab
<1>6. CopiesSound'
  BY <1>3, <1>4, PagesInvParts, CopiesStay
<1>7. CountsSound'
  BY <1>3, <1>4, PagesInvParts DEF CountsSound
<1>8. QED
  BY <1>4, <1>5, <1>6, <1>7, PagesInvNext

LEMMA StartOrAbandonStep ==
    ASSUME PagesInv, NEW l \in Tabs, Pages!StartOrAbandon(l)
    PROVE  PagesInv'
<1>1. /\ Pages!Becomes(cookie, held + 1) /\ load' = [load EXCEPT ![l] = Pages!Opened(l)]
      /\ begun < MaxLoads /\ begun' = begun + 1
      /\ UNCHANGED <<page, ticks, worker, http, memo, flight, cuts>>
  BY DEF Pages!StartOrAbandon
<1>2. cookie \in Users \cup {NoUser}
  BY PagesInvParts DEF DataSound
<1>3. DataSound' /\ MemosSound' /\ changes' \in 0..MaxChanges /\ past \subseteq past'
  BY <1>1, <1>2, DataChange
<1>4. PICK r : r = Pages!Opened(l)
  OBVIOUS
<1>5. r \in TabSet(ticks) /\ (r.pc = "waiting" => r.net # "none")
      /\ TabTrue(past', page, r) /\ load' = [load EXCEPT ![l] = r]
  BY <1>1, <1>3, <1>4, OpenedTrue, TrueForGood
<1>6. TabsSound'
  BY <1>1, <1>3, <1>5, OneTab
<1>7. CopiesSound'
  BY <1>1, <1>3, PagesInvParts, CopiesStay
<1>8. CountsSound'
  BY <1>1, <1>3, PagesInvParts, PagesParameters DEF CountsSound
<1>9. QED
  BY <1>3, <1>6, <1>7, <1>8, PagesInvNext

LEMMA PagesTickStep ==
    ASSUME PagesInv, Pages!Tick
    PROVE  PagesInv'
<1>1. /\ ticks < MaxTicks /\ ticks' = ticks + 1
      /\ past' = past \cup {[at |-> ticks + 1, version |-> held]}
      /\ UNCHANGED <<page, cookie, held, worker, http, memo, flight, load, changes, begun, cuts>>
  BY DEF Pages!Tick
<1>2. DataSound
  BY PagesInvParts
<1>3. ticks \in 0..MaxTicks /\ held \in Nat
  BY <1>2 DEF DataSound
<1>4. ticks' \in 0..MaxTicks /\ ticks' \in Nat /\ ticks' >= ticks
  BY <1>1, <1>3, PagesParameters
<1>5. \A m \in past' : m.at \in 0..ticks' /\ m.version \in 0..held
  <2>1. \A m \in past : m.at \in 0..ticks' /\ m.version \in 0..held
    BY <1>1, <1>2, <1>3 DEF DataSound
  <2>2. ticks + 1 \in 0..ticks' /\ held \in 0..held
    BY <1>1, <1>3, PagesParameters
  <2>3. QED
    BY <1>1, <2>1, <2>2
<1>6. DataSound'
  BY <1>1, <1>2, <1>4, <1>5 DEF DataSound
<1>7. TabsSound'
  BY <1>1, <1>4, NoTab
<1>8. CopiesSound'
  BY <1>1, PagesInvParts, CopiesStay
<1>9. CountsSound'
  BY <1>1, PagesInvParts DEF CountsSound
<1>10. MemosSound'
  BY <1>1, <1>4, NoMemo
<1>11. QED
  BY <1>6, <1>7, <1>8, <1>9, <1>10, PagesInvNext

LEMMA PagesStart == Pages!Init => PagesInv
<1> SUFFICES ASSUME Pages!Init PROVE PagesInv
  OBVIOUS
<1>1. /\ page \in Pages!Names /\ ticks = 0 /\ cookie \in Users \cup {NoUser} /\ held \in {0, 1}
      /\ past = {[at |-> 0, version |-> held]} /\ load = [l \in Tabs |-> Pages!Idle]
      /\ memo = [k \in Users \cup {NoUser} |-> Pages!Absent]
      /\ flight = [k \in Users \cup {NoUser} |-> Pages!Landed]
      /\ changes = 0 /\ begun = 0 /\ cuts = 0
  BY DEF Pages!Init
<1>2. PICK user \in Users \cup {NoUser} :
        /\ http \in {Pages!Nobody} \cup {a \in {Pages!Served(user, held, 0)} : Pages!Keeps(a)}
        /\ worker \in {Pages!Nobody} \cup {a \in {Pages!Served(user, held, 0)} : Pages!Puts(a)}
  BY DEF Pages!Init
<1>3. PICK i \in {"refused", "missing", "ok"} :
         Pages!Served(user, held, 0) = [user |-> user, version |-> held, date |-> 0, took |-> 0, is |-> i]
  BY <1>1 DEF Pages!Served, Pages!Answer
<1>4. PICK a : a = Pages!Served(user, held, 0)
  OBVIOUS
<1>5. a \in Pages!Answers /\ TrueThen(past, page, a)
  <2>1. a.version = held /\ a.date = 0 /\ a.took = 0 /\ a \in Pages!Answers
    BY <1>1, <1>3, <1>4, PagesParameters DEF Pages!Answers
  <2>2. PICK m \in past : m.at = 0 /\ m.version = held
    BY <1>1
  <2>3. Pages!RouteOf(page).memo \in Nat
    BY <1>1, CopiesDie
  <2>4. a.date <= m.at + a.took + Pages!RouteOf(page).memo
    BY <2>1, <2>2, <2>3
  <2>5. QED
    BY <2>1, <2>2, <2>4 DEF TrueThen
<1>6. Pages!Nobody \in Pages!Answers /\ TrueThen(past, page, Pages!Nobody) /\ Pages!Nobody.is = "nothing"
  BY NobodyTellsNothing, PagesParameters DEF Pages!Nobody
<1>7. /\ http = Pages!Nobody \/ (http = a /\ a.is = "ok")
      /\ worker = Pages!Nobody \/ (worker = a /\ a.is \in {"ok", "empty"})
  BY <1>2, <1>4 DEF Pages!Keeps, Pages!Puts
<1>8. CopiesSound
  BY <1>5, <1>6, <1>7 DEF CopiesSound
<1>9. DataSound /\ CountsSound
  BY <1>1, PagesParameters DEF DataSound, CountsSound
<1>10. TabsSound
  <2>1. Pages!Idle \in TabSet(0)
    BY <1>6 DEF Pages!Idle, TabSet
  <2>2. TabTrue(past, page, Pages!Idle) /\ Pages!Idle.pc = "closed"
    BY <1>6 DEF Pages!Idle, TabTrue
  <2>3. QED
    BY <1>1, <2>1, <2>2 DEF TabsSound
<1>11. MemosSound
  BY <1>1 DEF MemosSound, MemoSet, FlightSet, MemoTrue, FlightTrue, Pages!Absent, Pages!Landed
<1>12. QED
  BY <1>8, <1>9, <1>10, <1>11, PagesInvParts

LEMMA PagesNext == PagesInv /\ [Pages!Next]_(Pages!vars) => PagesInv'
<1> SUFFICES ASSUME PagesInv, [Pages!Next]_(Pages!vars) PROVE PagesInv'
  OBVIOUS
<1>1. ASSUME NEW l \in Tabs,
             Pages!Open(l) \/ Pages!Step(l) \/ Pages!Cut(l) \/ Pages!StartOrAbandon(l)
      PROVE  PagesInv'
  BY <1>1, OpenStep, ServeStep, MissStep, ArriveStep, CutStep, StartOrAbandonStep DEF Pages!Step
<1>2. ASSUME NEW k \in Users \cup {NoUser}, Pages!CacheStep(k)
      PROVE  PagesInv'
  BY <1>2, ElsewhereStep, LandStep, LandFailsStep, ForgetStep DEF Pages!CacheStep
<1>3. CASE Pages!Happens
  BY <1>3, HappensStep
<1>4. CASE Pages!Tick
  BY <1>4, PagesTickStep
<1>5. CASE UNCHANGED Pages!vars
  <2>1. UNCHANGED <<page, ticks, cookie, held, past, worker, http, memo, flight, load, changes,
                    begun, cuts>>
    BY <1>5 DEF Pages!vars
  <2>2. TabsSound' /\ MemosSound'
    BY <2>1, PagesInvParts DEF TabsSound, MemosSound
  <2>3. CopiesSound' /\ DataSound' /\ CountsSound'
    BY <2>1, PagesInvParts DEF CopiesSound, DataSound, CountsSound
  <2>4. QED
    BY <2>2, <2>3, PagesInvNext
<1>6. QED
  BY <1>1, <1>2, <1>3, <1>4, <1>5 DEF Pages!Next

\* A page shows something that was true, of the right account, as PagesInv says of its tab.
LEMMA PagesShow == PagesInv => PagesShowTheTruth
<1> SUFFICES ASSUME PagesInv
             PROVE  /\ Pages!ShownWasTrue /\ Pages!ForeignOnlyWhereRemembered
                    /\ Pages!BlankIsExplained
  BY DEF PagesShowTheTruth, Pages!PagesShowTheTruth, PagesInv
<1>1. ASSUME NEW l \in Tabs, Pages!Answered(l), ~load[l].cut
      PROVE  \E m \in past : m.version = load[l].body.version /\ Pages!Recent(l, m)
  <2>1. Tells(load[l].body) /\ load[l].pc = "shown"
    BY <1>1 DEF Pages!Answered, Tells
  <2>2. PICK b \in Pages!Answers, n \in 0..ticks : b = load[l].body /\ n = load[l].start
    BY TabFields
  <2>3. PICK c \in Nat, g \in Nat :
          /\ c = Pages!CopyLife[page] /\ g = Pages!RouteOf(page).memo /\ (g > 0 => c > 0)
    BY PagesInvParts, CopiesDie DEF DataSound
  <2>4. /\ TrueThen(past, page, b)
        /\ b.date >= n \/ b.date + c > n
    BY <1>1, <2>1, <2>2, <2>3, TabFields DEF TabTrue, Shows
  <2>5. PICK m \in past : m.version = b.version /\ b.date <= m.at + b.took + g
    BY <2>1, <2>2, <2>3, <2>4 DEF TrueThen
  <2>6. g = 0 => b.took = 0
    BY <2>1, <2>2, <2>3, <2>4 DEF TrueThen
  <2>7. /\ m.at \in Nat /\ b.date \in Nat /\ b.took \in Nat /\ n \in Nat
    BY PagesInvParts, <2>2, <2>5, PagesParameters DEF DataSound, Pages!Answers
  <2>8. m.at >= n \/ m.at + b.took + (c + g) > n
    BY <2>3, <2>4, <2>5, <2>6, <2>7
  <2>9. QED
    BY <2>2, <2>3, <2>5, <2>8 DEF Pages!Recent, Pages!Life, Pages!rule
<1>2. Pages!ShownWasTrue
  BY <1>1 DEF Pages!ShownWasTrue
<1>3. Pages!ForeignOnlyWhereRemembered
  <2> SUFFICES ASSUME NEW l \in Tabs, Pages!Answered(l), page \in Pages!Personal,
                      load[l].body.user \in Users \ {load[l].as},
                      ~load[l].cut, page \notin Pages!Remembering
               PROVE  FALSE
    BY DEF Pages!ForeignOnlyWhereRemembered
  <2>1. Tells(load[l].body) /\ load[l].pc = "shown" /\ page \in Forgetting
    BY DEF Pages!Answered, Tells, Forgetting
  <2>2. QED
    BY <2>1, TabFields DEF TabTrue, Shows
<1>4. Pages!BlankIsExplained
  <2> SUFFICES ASSUME NEW l \in Tabs, Pages!View(l) \in {"nothing", "missing"},
                      load[l].body.is \notin {"error", "refused", "empty"}, ~load[l].cut
               PROVE  \E m \in past : m.version = 0 /\ Pages!Recent(l, m)
    BY DEF Pages!BlankIsExplained
  <2>1. load[l].pc = "shown" /\ load[l].body.version = 0
    BY DEF Pages!View
  <2>2. Shows(page, load[l])
    BY <2>1, TabFields DEF TabTrue
  <2>3. load[l].body.is \in {"nothing", "ok", "missing", "refused", "empty", "error"}
    BY TabFields DEF Pages!Answers
  <2>4. Pages!Answered(l)
    BY <2>1, <2>2, <2>3 DEF Shows, Pages!Answered
  <2>5. QED
    BY <1>1, <2>1, <2>4
<1>5. QED
  BY <1>2, <1>3, <1>4

\* What a page shows was true no longer before it was opened than a copy lives in the browser
\* and in the web server, and its load took; it is not of another account but where that is
\* said, and a blank page has a reason: with any number of tabs, accounts, changes and
\* failures, whatever the order of loads, answers and revalidations (sw.js, cache.remember).
THEOREM PagesStayTrue == Pages!Spec => []PagesShowTheTruth
<1>1. QED
  BY PagesStart, PagesNext, PagesShow, PTL DEF Pages!Spec
=============================================================================
