---------------------------- MODULE AuthService -----------------------------
(***************************************************************************)
(* auth-go: registration, login behind two rate limiters and the           *)
(* persistent account lockout, refresh tokens that are rotated on use, and *)
(* the one-time tokens of password reset and e-mail verification.          *)
(*                                                                         *)
(* A request is a record whose pc is its next query; other requests run    *)
(* between two queries.  The transactions that redeem a token run under    *)
(* READ COMMITTED: they read the token, and write it unconditionally       *)
(* later.  The row lock makes a second writer wait, not fail, so the       *)
(* writes and the commit of a transaction are one step.  Hashes and random *)
(* tokens are the tokens' indices.  The tables have no foreign keys.       *)
(***************************************************************************)
EXTENDS Naturals, FiniteSets, Sequences

CONSTANTS
    Users,          \* ids; also the identifiers they log in with
    Passwords,
    Requests,       \* requests in flight at once
    RateMax, RateWindow,                \* rateLimitMax, rateLimitWin
    Threshold, Window, LockDuration,    \* of lockout.go
    TokenTTL,       \* RefreshTTL, passwordResetTTL, emailVerifyTTL
    MaxClock,       \* bound: the time of the last tick
    MaxRequests     \* bound: requests in one behaviour

NoAccount == "no_account"
Deleted == "deleted"

ASSUME AuthAssumption ==
    /\ {RateMax, RateWindow, Threshold, Window, LockDuration, TokenTTL} \subseteq Nat \ {0}
    /\ MaxClock \in Nat /\ MaxRequests \in Nat
    /\ IsFiniteSet(Requests) /\ {NoAccount, Deleted} \cap Passwords = {}

VARIABLES
    clock,
    password,   \* User.password; NoAccount without a row
    verified,   \* users with emailVerified
    window,     \* accountRL: count and windowEnd of each identifier's window
    attempts,   \* the rows of LoginAttempt
    lockedUntil,\* AccountLockout; Unlocked without a row
    tokens,     \* rows of the three token tables, in the order they were issued
    req,        \* the requests in flight
    started     \* requests so far

loginVars == <<window, attempts, lockedUntil>>
vars == <<clock, password, verified, loginVars, tokens, req, started>>

Unlocked == 0
Idle == [pc |-> "idle"]
Kinds == {"refresh", "reset", "verify"}
Accounts == {u \in Users : password[u] \in Passwords}
Min2(a, b) == IF a < b THEN a ELSE b

TypeOK ==
    /\ clock \in 0..MaxClock
    /\ password \in [Users -> Passwords \cup {NoAccount, Deleted}]
    /\ verified \subseteq Users
    /\ window \in [Users -> [count : 0..(RateMax + 1), end : 0..(MaxClock + RateWindow)]]
    /\ attempts \subseteq [id : 1..MaxRequests, user : Users, at : 0..MaxClock, success : BOOLEAN]
    /\ lockedUntil \in [Users -> 0..(MaxClock + LockDuration)]
    /\ \A i \in DOMAIN tokens :
          /\ tokens[i].kind \in Kinds
          /\ tokens[i].user \in Users
          /\ tokens[i].from \in 0..(i - 1)
          /\ tokens[i].from # 0 =>
                LET parent == tokens[tokens[i].from]
                IN parent.kind = "refresh" /\ parent.user = tokens[i].user
    /\ started \in 0..MaxRequests

Init ==
    /\ clock = 0
    /\ password = [u \in Users |-> NoAccount]
    /\ verified = {}
    /\ window = [u \in Users |-> [count |-> 0, end |-> 0]]
    /\ attempts = {}
    /\ lockedUntil = [u \in Users |-> Unlocked]
    /\ tokens = <<>>
    /\ req = [r \in Requests |-> Idle]
    /\ started = 0

\* A request arrives at a free handler.
Begin(r) ==
    /\ req[r] = Idle
    /\ started < MaxRequests
    /\ started' = started + 1

Goto(r, pc) == req' = [req EXCEPT ![r].pc = pc]
Finish(r) == req' = [req EXCEPT ![r] = Idle]

\* A fresh token; uses and revoked are history: how often it was redeemed, and whether
\* a logout revoked it.
Token(kind, u, parent) ==
    [kind |-> kind, user |-> u, from |-> parent, expires |-> clock + TokenTTL,
     spent |-> FALSE, uses |-> 0, revoked |-> FALSE]

\* IssueRefresh, issueEmailVerification, forgotPassword: one INSERT.
Issue(kind, u) == tokens' = Append(tokens, Token(kind, u, 0))
-----------------------------------------------------------------------------
(* register *)

\* The INSERT of the user.  The check before it only tells 409 from the 500 of the
\* unique key: nothing changes if the row is there.
Register(r, u, pw) ==
    /\ Begin(r)
    /\ password[u] = NoAccount
    /\ password' = [password EXCEPT ![u] = pw]
    /\ req' = [req EXCEPT ![r] = [pc |-> "verification", user |-> u]]
    /\ UNCHANGED <<clock, verified, loginVars, tokens>>

\* issueEmailVerification, whose failure is ignored.
RegisterVerification(r) ==
    /\ req[r].pc = "verification"
    /\ \/ Issue("verify", req[r].user)
       \/ UNCHANGED tokens
    /\ Goto(r, "issue")
    /\ UNCHANGED <<clock, password, verified, loginVars, started>>
-----------------------------------------------------------------------------
(* login *)

\* rateLimiter.allow: a new window, or one more in the current one.
Allow(u) ==
    LET w == window[u]
        fresh == clock > w.end
    IN window' = [window EXCEPT ![u] =
          IF fresh \/ w.count = 0
          THEN [count |-> 1, end |-> clock + RateWindow]
          ELSE [w EXCEPT !.count = Min2(w.count + 1, RateMax + 1)]]

\* Refused by the account's window, or admitted to the lockout check.  The second limiter
\* is keyed by RemoteAddr, host and port: it may refuse any request.
Login(r, u, pw) ==
    /\ Begin(r)
    /\ Allow(u)
    /\ \/ UNCHANGED req
       \/ /\ window'[u].count <= RateMax
          /\ req' = [req EXCEPT ![r] = [pc |-> "isLocked", user |-> u, pw |-> pw, seen |-> Unlocked]]
    /\ UNCHANGED <<clock, password, verified, attempts, lockedUntil, tokens>>

\* isLocked: a running lock answers 429, an expired one is purged, a failing query is
\* taken for no lock.
IsLocked(r) ==
    /\ req[r].pc = "isLocked"
    /\ LET until == lockedUntil[req[r].user]
       IN \/ until # Unlocked /\ clock <= until /\ Finish(r)
          \/ until # Unlocked /\ clock > until
             /\ req' = [req EXCEPT ![r].pc = "purge", ![r].seen = until]
          \/ Goto(r, "compare")
    /\ UNCHANGED <<clock, password, verified, loginVars, tokens, started>>

\* Mutant: the DELETE names the identifier only.
PurgeLockAny(r) ==
    /\ req[r].pc = "purge"
    /\ lockedUntil' = [lockedUntil EXCEPT ![req[r].user] = Unlocked]
    /\ Goto(r, "compare")
    /\ UNCHANGED <<clock, password, verified, window, attempts, tokens, started>>

\* isLocked: DELETE ... WHERE identifier = $1 AND "lockedUntil" = $2.  Its failure is
\* ignored, as if the lock had not been seen.
PurgeLock(r) ==
    /\ req[r].pc = "purge"
    /\ lockedUntil' = [lockedUntil EXCEPT ![req[r].user] =
                          IF @ = req[r].seen THEN Unlocked ELSE @]
    /\ Goto(r, "compare")
    /\ UNCHANGED <<clock, password, verified, window, attempts, tokens, started>>

\* SELECT the user and compare; an unknown user is compared with dummyHash and fails.
Compare(r) ==
    /\ req[r].pc = "compare"
    /\ Goto(r, IF password[req[r].user] = req[r].pw THEN "success" ELSE "failure")
    /\ UNCHANGED <<clock, password, verified, loginVars, tokens, started>>

\* A new row; equal rows are told apart by a number.
Attempt(r, ok) ==
    LET same == {a \in attempts : a.user = req[r].user /\ a.at = clock /\ a.success = ok}
    IN [id |-> Cardinality(same) + 1, user |-> req[r].user, at |-> clock, success |-> ok]

\* recordLoginAttempt; its errors are ignored.
RecordLoginAttempt(r) ==
    /\ req[r].pc \in {"success", "failure"}
    /\ \/ attempts' = attempts \cup {Attempt(r, req[r].pc = "success")}
       \/ UNCHANGED attempts
    /\ Goto(r, IF req[r].pc = "success" THEN "clear" ELSE "count")
    /\ UNCHANGED <<clock, password, verified, window, lockedUntil, tokens, started>>

\* Mutant: successful logins are counted too.
RecentFailuresAll(u) == {a \in attempts : a.user = u /\ a.at + Window >= clock}

\* recentFailureCount: failures within the rolling window.
RecentFailures(u) == {a \in attempts : a.user = u /\ ~a.success /\ a.at + Window >= clock}

\* maybeLockAccount: below the threshold, or if the count fails, the answer is 401.
CountFailures(r) ==
    /\ req[r].pc = "count"
    /\ \/ Finish(r)
       \/ Cardinality(RecentFailures(req[r].user)) >= Threshold /\ Goto(r, "lock")
    /\ UNCHANGED <<clock, password, verified, loginVars, tokens, started>>

\* lockAccount: the end of the lock is computed ...
LockUntil(r) ==
    /\ req[r].pc = "lock"
    /\ req' = [req EXCEPT ![r].pc = "upsert", ![r].seen = clock + LockDuration]
    /\ UNCHANGED <<clock, password, verified, loginVars, tokens, started>>

\* ... and then upserted, over any lock that was stored since; a failure answers 401.
LockAccount(r) ==
    /\ req[r].pc = "upsert"
    /\ \/ lockedUntil' = [lockedUntil EXCEPT ![req[r].user] = req[r].seen]
       \/ UNCHANGED lockedUntil
    /\ Finish(r)
    /\ UNCHANGED <<clock, password, verified, window, attempts, tokens, started>>

\* clearLockout, by a login with the right password; its failure is ignored.
ClearLockout(r) ==
    /\ req[r].pc = "clear"
    /\ \/ lockedUntil' = [lockedUntil EXCEPT ![req[r].user] = Unlocked]
       \/ UNCHANGED lockedUntil
    /\ Goto(r, "issue")
    /\ UNCHANGED <<clock, password, verified, window, attempts, tokens, started>>

\* The end of register and login: IssueRefresh, or 500.
IssueRefresh(r) ==
    /\ req[r].pc = "issue"
    /\ Issue("refresh", req[r].user) \/ UNCHANGED tokens
    /\ Finish(r)
    /\ UNCHANGED <<clock, password, verified, loginVars, started>>
-----------------------------------------------------------------------------
(* tokens *)

\* logout: RevokeRefresh, one conditional UPDATE.
Logout(r, i) ==
    /\ Begin(r)
    /\ tokens[i].kind = "refresh" /\ ~tokens[i].spent
    /\ tokens' = [tokens EXCEPT ![i].spent = TRUE, ![i].revoked = TRUE]
    /\ UNCHANGED <<clock, password, verified, loginVars, req>>

\* forgotPassword for a known address.
ForgotPassword(r, u) ==
    /\ Begin(r)
    /\ u \in Accounts
    /\ Issue("reset", u)
    /\ UNCHANGED <<clock, password, verified, loginVars, req>>

\* resendVerification, with the access token of u, which may outlive u's account.
ResendVerification(r, u) ==
    /\ Begin(r)
    /\ password[u] # NoAccount
    /\ Issue("verify", u)
    /\ UNCHANGED <<clock, password, verified, loginVars, req>>

\* Mutant: the reader forgets revokedAt and usedAt.
RedeemableSpent(i) == clock <= tokens[i].expires

Redeemable(i) == ~tokens[i].spent /\ clock <= tokens[i].expires

\* Only a reset comes with a new password.
NewPasswords(i) == IF tokens[i].kind = "reset" THEN Passwords ELSE {NoAccount}

\* Mutant: the token is marked before the transaction.
RedeemMarked(r, i, pw) ==
    /\ Begin(r)
    /\ Redeemable(i)
    /\ tokens' = [tokens EXCEPT ![i].spent = TRUE]
    /\ req' = [req EXCEPT ![r] = [pc |-> tokens[i].kind, token |-> i, pw |-> pw]]
    /\ UNCHANGED <<clock, password, verified, loginVars>>

\* RotateRefresh, resetPassword, verifyEmail: the SELECT of the transaction; a token that
\* is spent or expired answers 401.
Redeem(r, i, pw) ==
    /\ Begin(r)
    /\ Redeemable(i)
    /\ req' = [req EXCEPT ![r] = [pc |-> tokens[i].kind, token |-> i, pw |-> pw]]
    /\ UNCHANGED <<clock, password, verified, loginVars, tokens>>

\* UPDATE ... WHERE "tokenHash" = $1, whatever the row holds by now.
Spend(i) == [tokens EXCEPT ![i].spent = TRUE, ![i].uses = @ + 1]

\* RotateRefresh: the old row is revoked and the new one inserted.
RotateCommit(r) ==
    /\ req[r].pc = "refresh"
    /\ LET i == req[r].token
       IN tokens' = Append(Spend(i), Token("refresh", tokens[i].user, i))
    /\ Finish(r)
    /\ UNCHANGED <<clock, password, verified, loginVars, started>>

\* resetPassword: the token is used, the password set if the user is still there.
ResetCommit(r) ==
    /\ req[r].pc = "reset"
    /\ LET i == req[r].token
       IN /\ tokens' = Spend(i)
          /\ password' = [password EXCEPT ![tokens[i].user] =
                             IF tokens[i].user \in Accounts THEN req[r].pw ELSE @]
    /\ Finish(r)
    /\ UNCHANGED <<clock, verified, loginVars, started>>

\* verifyEmail: the token is used, the flag set if the user is still there.
VerifyCommit(r) ==
    /\ req[r].pc = "verify"
    /\ LET i == req[r].token
       IN /\ tokens' = Spend(i)
          /\ verified' = verified \cup ({tokens[i].user} \cap Accounts)
    /\ Finish(r)
    /\ UNCHANGED <<clock, password, loginVars, started>>

\* A query or the commit fails: the transaction is rolled back.
Rollback(r) ==
    /\ req[r].pc \in Kinds
    /\ Finish(r)
    /\ UNCHANGED <<clock, password, verified, loginVars, tokens, started>>
-----------------------------------------------------------------------------
(* change-password; an administrator's delete; time *)

\* changePassword: the current password is compared ...
ChangeCheck(r, u, current, new) ==
    /\ Begin(r)
    /\ password[u] = current
    /\ req' = [req EXCEPT ![r] = [pc |-> "change", user |-> u, pw |-> new]]
    /\ UNCHANGED <<clock, password, verified, loginVars, tokens>>

\* ... and the new one stored, by id.
ChangeWrite(r) ==
    /\ req[r].pc = "change"
    /\ password' = [password EXCEPT ![req[r].user] =
                       IF req[r].user \in Accounts THEN req[r].pw ELSE @]
    /\ Finish(r)
    /\ UNCHANGED <<clock, verified, loginVars, tokens, started>>

\* The web tier deletes the row of User; nothing here refers to it.
DeleteUser(u) ==
    /\ u \in Accounts
    /\ password' = [password EXCEPT ![u] = Deleted]
    /\ verified' = verified \ {u}
    /\ UNCHANGED <<clock, loginVars, tokens, req, started>>

Tick ==
    /\ clock < MaxClock
    /\ clock' = clock + 1
    /\ UNCHANGED <<password, verified, loginVars, tokens, req, started>>

Next ==
    \/ Tick
    \/ \E u \in Users : DeleteUser(u)
    \/ \E r \in Requests :
          \/ \E u \in Users, pw \in Passwords : Register(r, u, pw) \/ Login(r, u, pw)
          \/ \E u \in Users, old, new \in Passwords : ChangeCheck(r, u, old, new)
          \/ \E u \in Users : ForgotPassword(r, u) \/ ResendVerification(r, u)
          \/ \E i \in DOMAIN tokens : Logout(r, i) \/ \E pw \in NewPasswords(i) : Redeem(r, i, pw)
          \/ RegisterVerification(r) \/ IsLocked(r) \/ PurgeLock(r) \/ Compare(r)
          \/ RecordLoginAttempt(r) \/ CountFailures(r) \/ LockUntil(r)
          \/ LockAccount(r) \/ ClearLockout(r) \/ IssueRefresh(r)
          \/ RotateCommit(r) \/ ResetCommit(r) \/ VerifyCommit(r) \/ Rollback(r)
          \/ ChangeWrite(r)

Spec == Init /\ [][Next]_vars
-----------------------------------------------------------------------------
\* A lock that is running is only extended, lifted by a login with the right password that
\* was already past its lockout check, or replaced by the lock of a request that computed
\* its end before the running one was stored, and then cut by no more than the time its
\* upsert was under way.  A request that saw an older, expired lock never removes the one
\* that replaced it.
RunningLockStays ==
    [][\A u \in Users :
          lockedUntil[u] # Unlocked /\ clock <= lockedUntil[u] =>
          \/ lockedUntil'[u] >= lockedUntil[u]
          \/ \E r \in Requests :
                \/ req[r].pc = "clear" /\ req[r].user = u
                \/ /\ req[r].pc = "upsert" /\ req[r].user = u
                   /\ lockedUntil'[u] >= req[r].seen
                   /\ lockedUntil[u] - lockedUntil'[u] <= clock + LockDuration - req[r].seen]_vars

\* Whoever is locked out had Threshold failed logins within one Window at some moment no
\* later than the lock was set, although count and lock are two queries and other
\* requests record, purge and clear in between.
LockIsEarned ==
    \A u \in Users :
        lockedUntil[u] # Unlocked =>
        \E t \in 0..clock :
            /\ t + LockDuration <= lockedUntil[u]
            /\ Cardinality({a \in attempts :
                   a.user = u /\ ~a.success /\ a.at \in 0..t /\ t <= a.at + Window}) >= Threshold

\* A token is redeemed at most as often as requests were in flight at once, however many
\* come one after the other: once if they do not overlap.
RedeemedOnlyByOverlap ==
    \A i \in DOMAIN tokens : tokens[i].uses <= Cardinality(Requests)

\* What a token buys and the mark that it is spent are stored together or not at all: a
\* spent token was redeemed or logged out, each redemption of a refresh token left exactly
\* one successor, and users are verified exactly if one of their tokens was redeemed.
SpentMeansServed ==
    /\ \A i \in DOMAIN tokens :
          /\ tokens[i].spent <=> tokens[i].uses > 0 \/ tokens[i].revoked
          /\ tokens[i].kind = "refresh" =>
                tokens[i].uses = Cardinality({j \in DOMAIN tokens : tokens[j].from = i})
    /\ \A u \in Accounts :
          u \in verified <=>
          \E i \in DOMAIN tokens :
              tokens[i].kind = "verify" /\ tokens[i].user = u /\ tokens[i].uses > 0

\* The tokens are sound: each descends from a refresh token of its own user, and a spent one
\* has bought what it stands for.
TokensAreSound == TypeOK /\ SpentMeansServed /\ RedeemedOnlyByOverlap

\* No user is locked out for nothing, and no token buys more than it should.
AuthIsSound == TokensAreSound /\ LockIsEarned
=============================================================================
