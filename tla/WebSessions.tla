---------------------------- MODULE WebSessions ----------------------------
(***************************************************************************)
(* Sessions of the web tier: the cookie with its signed token (lib/auth.ts,*)
(* middleware.ts), signing in and out, registering and changing the        *)
(* password (api/auth/...), the limits on logins (lib/rate-limit.ts,       *)
(* lib/auth-buckets.ts), and the user the navigation bar shows.            *)
(*                                                                         *)
(* One browser with several tabs: they share the cookie and the address    *)
(* the limits see, and each has its own store.  A token cannot be revoked: *)
(* it is good until it expires, whatever happens to the account.           *)
(***************************************************************************)
EXTENDS Naturals, Sequences, FiniteSets

CONSTANTS
    Emails, Names,   \* an email as it was typed, which is how a row keeps it
    Lower,           \* an email trimmed and in lower case, which is how the limits key it
    Passwords, First,   \* those of one account; it is registered with the first
    Tabs,
    Life,        \* of a token and its cookie: 15 minutes
    Window,      \* of both limits on logins: 15 minutes
    Max,         \* RATE_LIMIT_MAX and ACCOUNT_LIMIT_MAX
    MaxClock,    \* bound on time
    MaxOps       \* bound on what users, admins and operators do

\* normalize: the addresses that the budgets of logins belong to.
Normalized == {Lower[e] : e \in Emails}

\* No address is "login", the other name space of the limiter's keys.
WebConstants ==
    /\ "none" \notin Emails /\ First \in Passwords
    /\ DOMAIN Lower = Emails /\ "login" \notin Normalized
    /\ {Life, Window, MaxOps} \subseteq Nat /\ {Max, MaxClock} \subseteq Nat \ {0}

VARIABLES
    fallback,    \* LEGACY_HS256_FALLBACK, or not production
    clock,
    row,         \* User rows by email; NoRow if there is none
    cookie,      \* the token in the browser, or NoToken
    buckets,     \* of rate-limit.ts, by key
    generation,  \* generationByEmail: by address in lower case
    req,         \* the form a tab has sent
    me,          \* the requests GET /api/auth/me of a tab, and their answers
    store,       \* useAuth of a tab: the user, or "none"
    page,        \* what a tab shows
    ops,         \* counted against MaxOps
    lastAdmin,   \* history: when each account was last an admin's
    tries,       \* history: the times of the comparisons for an address since the last
                 \* restart or change
    told         \* history: the store of the tab is from an answer to the cookie there is

server == <<fallback, clock, row, buckets, generation>>
browser == <<cookie, req, me, store, page, ops>>
history == <<lastAdmin, tries, told>>
vars == <<server, browser, history>>

NoRow == [there |-> FALSE, name |-> "none", password |-> "none", role |-> "user"]
NoToken == [user |-> "none", role |-> "user", exp |-> 0, slack |-> 0]
NoReq == [pc |-> "idle", email |-> "none", with |-> "none", new |-> "none", saw |-> NoRow,
          at |-> 0, token |-> NoToken]
\* A request with the cookie of the moment; fresh as long as that is the browser's.
Asked(token) == [pc |-> "sent", token |-> token, user |-> "none", fresh |-> TRUE]
Stale(asked) == {[a EXCEPT !.fresh = FALSE] : a \in asked}

Accounts == {e \in Emails : row[e].there}
AdminsIn(rows) == {e \in Emails : rows[e].there /\ rows[e].role = "admin"}

\* getSession and verifyAny: the same checks in both places.
Valid(token) == token # NoToken /\ clock < token.exp /\ fallback
UserOf(token) == IF Valid(token) /\ row[token.user].there THEN token.user ELSE "none"

Init ==
    /\ fallback \in BOOLEAN /\ clock = 1
    /\ \E e \in Emails, n \in Names :
          row = [x \in Emails |-> IF x = e THEN [there |-> TRUE, name |-> n, password |-> First,
                                                 role |-> "admin"]
                                  ELSE NoRow]
    /\ buckets = <<>> /\ generation = [m \in Normalized |-> 0]
    /\ cookie = NoToken
    /\ req = [t \in Tabs |-> NoReq] /\ me = [t \in Tabs |-> {}]
    /\ store = [t \in Tabs |-> "none"] /\ page \in [Tabs -> {"login", "register"}]
    /\ ops = 0
    /\ lastAdmin = [e \in Emails |-> IF e \in AdminsIn(row) THEN clock ELSE 0]
    /\ tries = [m \in Normalized |-> <<>>]
    /\ told = [t \in Tabs |-> FALSE]

Tick ==
    /\ clock < MaxClock
    /\ clock' = clock + 1
    /\ lastAdmin' = [e \in Emails |-> IF e \in AdminsIn(row) THEN clock' ELSE lastAdmin[e]]
    /\ UNCHANGED <<fallback, row, buckets, generation, browser, tries, told>>

-----------------------------------------------------------------------------
(* The limiter *)

BucketOf(key) ==
    IF key \in DOMAIN buckets /\ clock <= buckets[key].resetAt
    THEN buckets[key] ELSE [count |-> 0, resetAt |-> clock + Window]

\* Mutant of Refuses: one call more.
RefusesLate(key) == BucketOf(key).count > Max

Refuses(key) == BucketOf(key).count >= Max

\* memoryCheck for a call that is allowed; expired buckets are replaced, or collected.
Counted(key) ==
    [k \in DOMAIN buckets \cup {key} |->
        IF k = key THEN [BucketOf(key) EXCEPT !.count = @ + 1] ELSE buckets[k]]

IpKey == <<"login", "ip">>

\* Mutant of AccountKey: the generation is forgotten.
AccountKeyPlain(e) == <<Lower[e], "gen">>

\* loginAccountKey: emails that differ in case or blanks alone share the budget, whoever's
\* accounts they are.
AccountKey(e) == <<Lower[e], generation[Lower[e]]>>

Act == ops < MaxOps /\ ops' = ops + 1

\* The process starts anew: buckets and generations are gone, forms in flight are lost.
Restart ==
    /\ Act /\ buckets # <<>>
    /\ buckets' = <<>> /\ generation' = [m \in Normalized |-> 0]
    /\ req' = [t \in Tabs |-> IF req[t].pc = "reply" THEN req[t] ELSE NoReq]
    /\ tries' = [m \in Normalized |-> <<>>]
    /\ UNCHANGED <<fallback, clock, row, cookie, me, store, page, lastAdmin, told>>

-----------------------------------------------------------------------------
(* Signing in *)

Sends(t, form) ==
    /\ req[t].pc = "idle" /\ page[t] = form
    /\ Act

\* POST /api/auth/login: both limits and the row.  The first limit counts a call that the
\* second refuses.
LoginStart(t) ==
    /\ Sends(t, "login")
    /\ \E e \in Emails, p \in Passwords :
          /\ ~Refuses(IpKey)
          /\ IF Refuses(AccountKey(e))
             THEN /\ buckets' = Counted(IpKey)
                  /\ UNCHANGED <<req, tries>>
             ELSE /\ buckets' = [k \in DOMAIN Counted(IpKey) \cup {AccountKey(e)} |->
                                    IF k = IpKey THEN Counted(IpKey)[k]
                                    ELSE Counted(AccountKey(e))[k]]
                  /\ tries' = [tries EXCEPT ![Lower[e]] = Append(@, clock)]
                  /\ req' = IF row[e].there
                            THEN [req EXCEPT ![t] = [NoReq EXCEPT !.pc = "login", !.email = e,
                                                         !.with = p, !.saw = row[e], !.at = clock]]
                            ELSE req
    /\ UNCHANGED <<fallback, clock, row, generation, cookie, me, store, page, lastAdmin, told>>

\* Somebody tries a password from another address; the limit counts before the row is read.
GuessElsewhere(e) ==
    /\ Act
    /\ ~Refuses(AccountKey(e))
    /\ buckets' = Counted(AccountKey(e))
    /\ tries' = [tries EXCEPT ![Lower[e]] = Append(@, clock)]
    /\ UNCHANGED <<fallback, clock, row, generation, cookie, req, me, store, page, lastAdmin, told>>

\* Mutant of TokenFor: the cookie outlives its 15 minutes.
TokenForEver(e, saw, readAt) ==
    [user |-> e, role |-> saw.role, exp |-> MaxClock + 1, slack |-> clock - readAt]

\* signToken of the row as it was read.  The slack is history: how long ago that was.
TokenFor(e, saw, readAt) ==
    [user |-> e, role |-> saw.role, exp |-> clock + Life, slack |-> clock - readAt]

\* bcrypt.compare with the hash read before, and a token if it fits.
LoginIssue(t) ==
    LET r == req[t]
    IN
    /\ r.pc = "login"
    /\ req' = [req EXCEPT ![t] =
                  IF r.with = r.saw.password
                  THEN [NoReq EXCEPT !.pc = "reply", !.token = TokenFor(r.email, r.saw, r.at)]
                  ELSE NoReq]
    /\ UNCHANGED <<server, cookie, me, store, page, ops, history>>

\* A page is opened: its navigation bar asks who is signed in.  The requests of the page
\* left behind still set the store.
Opens(t, shown, token, pending) ==
    /\ page' = [page EXCEPT ![t] = shown]
    /\ IF shown \in {"login", "register"}
       THEN me' = pending
       ELSE /\ Cardinality(pending[t]) < 2
            /\ me' = [pending EXCEPT ![t] = @ \cup {Asked(token)}]

\* The cookie changes under every tab.
CookieIs(token) ==
    /\ cookie' = token
    /\ told' = [x \in Tabs |-> FALSE]

\* The answer sets the cookie and leads to the problems, or wherever the user came from.
SignedIn(t) ==
    /\ req[t].pc = "reply"
    /\ CookieIs(req[t].token)
    /\ req' = [req EXCEPT ![t] = NoReq]
    /\ Opens(t, "public", req[t].token, [x \in Tabs |-> Stale(me[x])])
    /\ UNCHANGED <<server, store, ops, lastAdmin, tries>>

-----------------------------------------------------------------------------
(* Registering *)

\* POST /api/auth/register: nobody has the email or the name.  Its limits may refuse too.
RegisterStart(t) ==
    /\ Sends(t, "register")
    /\ \E e \in Emails, n \in Names :
          req' = IF \E x \in Accounts : x = e \/ row[x].name = n
                 THEN req
                 ELSE [req EXCEPT ![t] = [NoReq EXCEPT !.pc = "register", !.email = e, !.at = clock,
                         !.saw = [there |-> TRUE, name |-> n, password |-> First, role |-> "user"]]]
    /\ UNCHANGED <<server, cookie, me, store, page, history>>

\* Mutant of RegisterCreate: the name is not looked at again.
RegisterCreateBlind(t) ==
    LET r == req[t]
        free == r.email \notin Accounts
    IN
    /\ r.pc = "register"
    /\ row' = IF free THEN [row EXCEPT ![r.email] = r.saw] ELSE row
    /\ req' = [req EXCEPT ![t] =
                  IF free THEN [NoReq EXCEPT !.pc = "reply", !.token = TokenFor(r.email, r.saw, clock)]
                  ELSE NoReq]
    /\ UNCHANGED <<fallback, clock, buckets, generation, cookie, me, store, page, ops, history>>

\* create, after the hash: the unique columns decide; a conflict is answered with 500.
RegisterCreate(t) ==
    LET r == req[t]
        free == \A x \in Accounts : x # r.email /\ row[x].name # r.saw.name
    IN
    /\ r.pc = "register"
    /\ row' = IF free THEN [row EXCEPT ![r.email] = r.saw] ELSE row
    /\ req' = [req EXCEPT ![t] =
                  IF free THEN [NoReq EXCEPT !.pc = "reply", !.token = TokenFor(r.email, r.saw, clock)]
                  ELSE NoReq]
    /\ UNCHANGED <<fallback, clock, buckets, generation, cookie, me, store, page, ops, history>>

-----------------------------------------------------------------------------
(* Changing the password *)

\* POST /api/auth/change-password: a session, a different password, and the row.
ChangeStart(t) ==
    /\ Sends(t, "dashboard")
    /\ UserOf(cookie) # "none"
    /\ \E old, new \in Passwords :
          /\ old # new
          /\ req' = [req EXCEPT ![t] = [NoReq EXCEPT !.pc = "change", !.email = UserOf(cookie),
                                            !.with = old, !.new = new, !.saw = row[UserOf(cookie)]]]
    /\ UNCHANGED <<server, cookie, me, store, page, history>>

\* The current password is compared with the hash read before; the new one is written.
ChangeWrite(t) ==
    LET r == req[t]
        fits == r.with = r.saw.password /\ row[r.email].there
    IN
    /\ r.pc = "change"
    /\ row' = IF fits THEN [row EXCEPT ![r.email].password = r.new] ELSE row
    /\ req' = [req EXCEPT ![t] = IF fits THEN [r EXCEPT !.pc = "changed"] ELSE NoReq]
    /\ UNCHANGED <<fallback, clock, buckets, generation, cookie, me, store, page, ops, history>>

\* bumpLoginBucketFor, the answer, and the page of the settings.
ChangeDone(t) ==
    LET m == Lower[req[t].email]
    IN
    /\ req[t].pc = "changed"
    /\ generation' = [generation EXCEPT ![m] = @ + 1]
    /\ tries' = [tries EXCEPT ![m] = <<>>]
    /\ req' = [req EXCEPT ![t] = NoReq]
    /\ Opens(t, "dashboard", cookie, me)
    /\ UNCHANGED <<fallback, clock, row, buckets, cookie, store, ops, lastAdmin, told>>

-----------------------------------------------------------------------------
(* Pages and the store *)

\* middleware: the pages behind a session, and behind the role in the token.
Gate(where) ==
    CASE where \notin {"dashboard", "admin"} -> where
      [] ~Valid(cookie) -> "login"
      [] where = "admin" /\ cookie.role # "admin" -> "forbidden"
      [] OTHER -> where

Visit(t) ==
    /\ req[t].pc = "idle"
    /\ Act
    /\ \E where \in {"public", "login", "register", "dashboard", "admin"} :
          Opens(t, Gate(where), cookie, me)
    /\ UNCHANGED <<server, cookie, req, store, history>>

\* GET /api/auth/me: the user of the token while the account is there; or a failure.
MeReads(t, a) ==
    /\ a.pc = "sent"
    /\ \E user \in {UserOf(a.token), "none"} :
          me' = [me EXCEPT ![t] = (@ \ {a}) \cup {[a EXCEPT !.pc = "answered", !.user = user]}]
    /\ UNCHANGED <<server, cookie, req, store, page, ops, history>>

\* Mutant of MeAnswered: a failure leaves the user.
MeAnsweredKeeps(t, a) ==
    /\ a.pc = "answered"
    /\ me' = [me EXCEPT ![t] = @ \ {a}]
    /\ store' = [store EXCEPT ![t] = IF a.user = "none" THEN @ ELSE a.user]
    /\ told' = [told EXCEPT ![t] = a.fresh]
    /\ UNCHANGED <<server, cookie, req, page, ops, lastAdmin, tries>>

\* setUser: the user of the answer; nobody after 401, 404 or a failure.
MeAnswered(t, a) ==
    /\ a.pc = "answered"
    /\ me' = [me EXCEPT ![t] = @ \ {a}]
    /\ store' = [store EXCEPT ![t] = a.user]
    /\ told' = [told EXCEPT ![t] = a.fresh]
    /\ UNCHANGED <<server, cookie, req, page, ops, lastAdmin, tries>>

\* logout: the cookie is gone, the store of this tab is empty, and the start page opens.  An
\* answer of /me that is under way comes after it.
Logout(t) ==
    /\ Act
    /\ store[t] # "none" /\ req[t].pc = "idle"
    /\ page[t] \notin {"login", "register"}
    /\ CookieIs(NoToken)
    /\ store' = [store EXCEPT ![t] = "none"]
    /\ page' = [page EXCEPT ![t] = "public"]
    /\ me' = [x \in Tabs |-> Stale(me[x])]
    /\ UNCHANGED <<server, req, lastAdmin, tries>>

\* An admin changes the role of an account or deletes it (api/admin/users/[id]).
AdminChanges(e) ==
    /\ Act /\ e \in Accounts
    /\ \/ row' = [row EXCEPT ![e].role = IF @ = "admin" THEN "user" ELSE "admin"]
       \/ row' = [row EXCEPT ![e] = NoRow]
    /\ lastAdmin' = [x \in Emails |-> IF x \in AdminsIn(row') THEN clock ELSE lastAdmin[x]]
    /\ UNCHANGED <<fallback, clock, buckets, generation, cookie, req, me, store, page, tries, told>>

Next ==
    \/ Tick \/ Restart
    \/ \E t \in Tabs :
          \/ LoginStart(t) \/ LoginIssue(t) \/ SignedIn(t)
          \/ RegisterStart(t) \/ RegisterCreate(t)
          \/ ChangeStart(t) \/ ChangeWrite(t) \/ ChangeDone(t)
          \/ Visit(t) \/ Logout(t)
          \/ \E a \in me[t] : MeReads(t, a) \/ MeAnswered(t, a)
    \/ \E e \in Emails : AdminChanges(e) \/ GuessElsewhere(e)

Spec == Init /\ [][Next]_vars

-----------------------------------------------------------------------------
(* Properties *)

TypeOK ==
    /\ clock \in 1..MaxClock /\ fallback \in BOOLEAN
    /\ cookie.user \in Emails \cup {"none"}
    /\ store \in [Tabs -> Emails \cup {"none"}]
    /\ \A t \in Tabs : page[t] \in {"public", "login", "register", "dashboard", "admin", "forbidden"}
    /\ \A k \in DOMAIN buckets : buckets[k].count \in 1..Max

\* A browser passes for an admin's at most 15 minutes after the account ceased to be one,
\* plus the time the password took to compare (the role is read before it, and the token is
\* never revoked).
AdminIsRecent ==
    Valid(cookie) /\ cookie.role = "admin" =>
        clock - lastAdmin[cookie.user] <= Life + cookie.slack

\* Two accounts never share a name, although registering looks before it creates.
NamesAreUnique ==
    \A d, e \in Accounts : row[d].name = row[e].name => d = e

\* However the windows fall, all the accounts of one address in lower case together see at
\* most two budgets of comparisons within one window, as long as nobody who knows a password
\* of theirs changes it and the process lives.
GuessesAreCapped ==
    \A m \in Normalized :
        Cardinality({i \in DOMAIN tries[m] : tries[m][i] + Window >= clock}) <= 2 * Max

\* The limit of an account refuses only after a full budget of comparisons, for this account
\* or for one whose email differs in case alone, since the password of one of them was changed.
BudgetIsFresh ==
    \A e \in Emails : Refuses(AccountKey(e)) => Len(tries[Lower[e]]) >= Max

\* A tab whose last answer was to the cookie the browser has shows the user of that cookie,
\* or nobody once the account is gone; an answer to an older cookie may come last.
NavbarIsTrue ==
    \A t \in Tabs : told[t] /\ Valid(cookie) => store[t] \in {cookie.user, "none"}

SessionsAreSound ==
    /\ TypeOK /\ AdminIsRecent /\ NamesAreUnique
    /\ GuessesAreCapped /\ BudgetIsFresh /\ NavbarIsTrue
=============================================================================
