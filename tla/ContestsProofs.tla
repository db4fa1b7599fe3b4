---------------------------- MODULE ContestsProofs ----------------------------
(***************************************************************************)
(* Ratings and ranks of contests, for any users, contests, requests in     *)
(* flight, scores and ratings; what accepted submissions earn; and the     *)
(* hub that passes messages on to clients.                                 *)
(*                                                                         *)
(* First the pure part: the standings exist, and the loop over them        *)
(* computes competition ranks (an induction over the list).                *)
(*                                                                         *)
(* Then the protocol.  A request that has read the ratings holds a plan    *)
(* which may be stale when it commits; the inductive invariant says what   *)
(* the plan still knows of the changes that were there when it was made,   *)
(* and that a request that fills in ranks fills in what it rated.          *)
(***************************************************************************)
EXTENDS Members, Counting, SequenceTheorems

-----------------------------------------------------------------------------
(* Standings and ranks. *)

(* A finite set can be listed with the greatest first. *)
LEMMA CanBeRanked ==
    ASSUME NEW U, NEW f \in [U -> Int], NEW S \in SUBSET U, IsFiniteSet(S)
    PROVE  \E places \in [1..Cardinality(S) -> S] :
              /\ IsInjective(places)
              /\ \A i, j \in 1..Cardinality(S) : i < j => f[places[i]] >= f[places[j]]
<1> DEFINE Ranked(X, n, p) == /\ p \in [1..n -> X] /\ IsInjective(p)
                              /\ \A i, j \in 1..n : i < j => f[p[i]] >= f[p[j]]
           T == {n \in Nat : \A X \in SUBSET U :
                                IsFiniteSet(X) /\ Cardinality(X) = n => \E p : Ranked(X, n, p)}
<1>1. 0 \in T
  <2> SUFFICES ASSUME NEW X \in SUBSET U PROVE \E p : Ranked(X, 0, p)
    OBVIOUS
  <2> DEFINE p == [i \in 1..0 |-> i]
  <2>1. p \in [1..0 -> X] /\ DOMAIN p = 1..0 /\ 1..0 = {}
    OBVIOUS
  <2> HIDE DEF p
  <2>2. Ranked(X, 0, p)
    BY <2>1 DEF IsInjective
  <2>3. QED
    BY <2>2
<1>2. ASSUME NEW n \in Nat, n \in T PROVE n + 1 \in T
  <2> SUFFICES ASSUME NEW X \in SUBSET U, IsFiniteSet(X), Cardinality(X) = n + 1
               PROVE  \E p : Ranked(X, n + 1, p)
    OBVIOUS
  <2>1. PICK m \in X : \A u \in X : f[m] <= f[u]
    BY HasLeast, FS_EmptySet
  <2>2. IsFiniteSet(X \ {m}) /\ Cardinality(X \ {m}) = n
    <3>1. IsFiniteSet(X \ {m}) /\ Cardinality(X \ {m}) = Cardinality(X) - 1
      BY <2>1, FS_RemoveElement, Zenon
    <3>2. QED
      BY <3>1
  <2>3. PICK q : Ranked(X \ {m}, n, q)
    <3>1. X \ {m} \in SUBSET U
      OBVIOUS
    <3>2. QED
      BY <1>2, <2>2, <3>1
  <2> DEFINE p == [i \in 1..(n + 1) |-> IF i = n + 1 THEN m ELSE q[i]]
  <2>4. \A i \in 1..(n + 1) : i = n + 1 \/ i \in 1..n
    OBVIOUS
  <2>5. \A i \in 1..n : i \in 1..(n + 1) /\ i # n + 1 /\ q[i] \in X \ {m} /\ p[i] = q[i]
    BY <2>3
  <2>6. n + 1 \in 1..(n + 1) /\ p[n + 1] = m /\ DOMAIN p = 1..(n + 1)
    OBVIOUS
  <2> HIDE DEF p
  <2>7. p \in [1..(n + 1) -> X]
    <3>1. \A i \in 1..(n + 1) : p[i] \in X
      BY <2>1, <2>4, <2>5, <2>6
    <3>2. QED
      BY <3>1 DEF p
  <2>8. IsInjective(p)
    <3>1. \A i, j \in 1..n : q[i] = q[j] => i = j
      BY <2>3 DEF IsInjective
    <3>2. QED
      BY <2>4, <2>5, <2>6, <3>1 DEF IsInjective
  <2>9. \A i, j \in 1..(n + 1) : i < j => f[p[i]] >= f[p[j]]
    <3> SUFFICES ASSUME NEW i \in 1..(n + 1), NEW j \in 1..(n + 1), i < j
                 PROVE  f[p[i]] >= f[p[j]]
      OBVIOUS
    <3>1. i \in 1..n
      OBVIOUS
    <3>2. CASE j = n + 1
      BY <2>1, <2>5, <2>6, <3>1, <3>2
    <3>3. CASE j \in 1..n
      BY <2>3, <2>5, <3>1, <3>3
    <3>4. QED
      BY <2>4, <3>2, <3>3
  <2>10. QED
    BY <2>7, <2>8, <2>9
<1> HIDE DEF T
<1>3. Nat \subseteq T
  BY <1>1, <1>2, NatInSteps
<1>4. Cardinality(S) \in T
  BY <1>3, FS_CardinalityType
<1>5. QED
  BY <1>4 DEF T

\* What the loop stores for each place.
RankFunction(scores, n, f) ==
    f = [i \in 0..n |-> IF i > 1 /\ scores[i] = scores[i - 1] THEN f[i - 1] ELSE i]

LEMMA RankFunctionExists ==
    ASSUME NEW scores, NEW n \in Nat
    PROVE  \E f : RankFunction(scores, n, f)
<1> DEFINE After(i, f) == IF i > 1 /\ scores[i] = scores[i - 1] THEN f[i - 1] ELSE i
           Fits(k, f) == f \in [0..k -> Nat] /\ \A i \in 0..k : f[i] = After(i, f)
           T == {k \in Nat : \E f : Fits(k, f)}
<1>1. 0 \in T
  <2> DEFINE f == [i \in 0..0 |-> 0]
  <2>1. f \in [0..0 -> Nat] /\ \A i \in 0..0 : i = 0 /\ f[i] = 0
    OBVIOUS
  <2> HIDE DEF f
  <2>2. Fits(0, f)
    BY <2>1
  <2>3. QED
    BY <2>2
<1>2. ASSUME NEW k \in Nat, k \in T PROVE k + 1 \in T
  <2>1. PICK g : Fits(k, g)
    BY <1>2
  <2> DEFINE h == [i \in 0..(k + 1) |-> IF i = k + 1 THEN After(k + 1, g) ELSE g[i]]
  <2>2. \A i \in 0..(k + 1) : i = k + 1 \/ i \in 0..k
    OBVIOUS
  <2>3. \A i \in 0..k : i \in 0..(k + 1) /\ i # k + 1 /\ h[i] = g[i] /\ g[i] \in Nat
    BY <2>1
  <2>4. h[k + 1] = After(k + 1, g) /\ k + 1 \in 0..(k + 1)
    OBVIOUS
  <2>5. (k + 1) - 1 \in 0..k /\ After(k + 1, g) = After(k + 1, h) /\ After(k + 1, g) \in Nat
    <3>1. (k + 1) - 1 = k /\ k \in 0..k
      OBVIOUS
    <3>2. h[k] = g[k] /\ g[k] \in Nat
      BY <2>3, <3>1
    <3> HIDE DEF h
    <3>3. QED
      BY <3>1, <3>2
  <2>6. h \in [0..(k + 1) -> Nat]
    <3>1. \A i \in 0..(k + 1) : h[i] \in Nat
      BY <2>2, <2>3, <2>4, <2>5
    <3>2. QED
      BY <3>1
  <2>7. ASSUME NEW i \in 0..(k + 1) PROVE h[i] = After(i, h)
    <3> HIDE DEF h
    <3>1. CASE i = k + 1
      BY <2>4, <2>5, <3>1
    <3>2. CASE i \in 0..k
      <4>1. g[i] = After(i, g) /\ h[i] = g[i]
        BY <2>1, <2>3, <3>2
      <4>2. i > 1 => i - 1 \in 0..k
        BY <3>2
      <4>3. i > 1 => h[i - 1] = g[i - 1]
        BY <2>3, <4>2
      <4>4. QED
        BY <4>1, <4>3
    <3>3. QED
      BY <2>2, <3>1, <3>2
  <2> HIDE DEF h
  <2>8. QED
    BY <2>6, <2>7
<1> HIDE DEF T
<1>3. n \in T
  BY <1>1, <1>2, NatInSteps
<1>4. PICK f : Fits(n, f)
  BY <1>3 DEF T
<1>5. f = [i \in 0..n |-> After(i, f)]
  BY <1>4
<1>6. QED
  BY <1>5 DEF RankFunction

(* What Ranks computes, place by place. *)
LEMMA RankOfPlace ==
    ASSUME NEW n \in Nat, NEW scores \in [1..n -> Int]
    PROVE  /\ Ranks(scores) \in [1..n -> 1..n]
           /\ \A i \in 1..n : Ranks(scores)[i] = IF i > 1 /\ scores[i] = scores[i - 1]
                                                THEN Ranks(scores)[i - 1] ELSE i
<1>1. Len(scores) = n
  OBVIOUS
<1> DEFINE f == CHOOSE g : RankFunction(scores, n, g)
<1>2. RankFunction(scores, n, f)
  BY RankFunctionExists, Zenon
<1>3. Ranks(scores) = [k \in 1..n |-> f[k]]
  BY <1>1 DEF Ranks, RankFunction
<1> HIDE DEF f
<1>4. \A k \in 0..n : f[k] = IF k > 1 /\ scores[k] = scores[k - 1] THEN f[k - 1] ELSE k
  BY <1>2, Zenon DEF RankFunction
<1> DEFINE T == {k \in Nat : k + 1 \in 1..n => f[k + 1] \in 1..(k + 1)}
<1>5. 0 \in T
  BY <1>4
<1>6. ASSUME NEW k \in Nat, k \in T PROVE k + 1 \in T
  <2> SUFFICES ASSUME (k + 1) + 1 \in 1..n PROVE f[(k + 1) + 1] \in 1..((k + 1) + 1)
    OBVIOUS
  <2>1. k + 1 \in 1..n /\ f[k + 1] \in 1..(k + 1)
    BY <1>6
  <2>2. ((k + 1) + 1) - 1 = k + 1 /\ (k + 1) + 1 \in 0..n
    OBVIOUS
  <2>3. f[(k + 1) + 1] \in {f[k + 1], (k + 1) + 1}
    BY <1>4, <2>2
  <2>4. QED
    BY <2>1, <2>3
<1> HIDE DEF T
<1>7. Nat \subseteq T
  BY <1>5, <1>6, NatInSteps
<1>8. \A i \in 1..n : f[i] \in 1..n
  <2> SUFFICES ASSUME NEW i \in 1..n PROVE f[i] \in 1..n
    OBVIOUS
  <2>1. i - 1 \in T /\ (i - 1) + 1 = i
    BY <1>7
  <2>2. QED
    BY <2>1 DEF T
<1>9. \A i \in 1..n : i \in 0..n /\ (i > 1 => i - 1 \in 1..n)
  OBVIOUS
<1>10. QED
  BY <1>3, <1>4, <1>8, <1>9

\* The loop computes standard competition ranking, for a list in score order of any length:
\* the rank of a place is one more than the number of better scores.
THEOREM RanksCountTheBetter ==
    ASSUME NEW n \in Nat, NEW scores \in [1..n -> Int],
           \A i, j \in 1..n : i < j => scores[i] >= scores[j]
    PROVE  \A i \in 1..n :
              Ranks(scores)[i] = 1 + Cardinality({j \in 1..n : scores[j] > scores[i]})
<1> DEFINE Better(i) == {j \in 1..n : scores[j] > scores[i]}
           T == {k \in Nat : k + 1 \in 1..n
                             => Ranks(scores)[k + 1] = 1 + Cardinality(Better(k + 1))}
<1>1. \A i \in 1..n : Ranks(scores)[i] = IF i > 1 /\ scores[i] = scores[i - 1]
                                        THEN Ranks(scores)[i - 1] ELSE i
  BY RankOfPlace
<1>2. 0 \in T
  <2> SUFFICES ASSUME 1 \in 1..n PROVE Ranks(scores)[1] = 1 + Cardinality(Better(1))
    OBVIOUS
  <2>1. Ranks(scores)[1] = 1
    BY <1>1
  <2>2. Better(1) = {}
    <3>1. \A j \in 1..n : j = 1 \/ 1 < j
      OBVIOUS
    <3>2. QED
      BY <3>1
  <2>3. QED
    BY <2>1, <2>2, FS_EmptySet
<1>3. ASSUME NEW k \in Nat, k \in T PROVE k + 1 \in T
  <2> DEFINE i == k + 2
  <2> SUFFICES ASSUME i \in 1..n PROVE Ranks(scores)[i] = 1 + Cardinality(Better(i))
    OBVIOUS
  <2>1. k + 1 \in 1..n /\ Ranks(scores)[k + 1] = 1 + Cardinality(Better(k + 1))
    BY <1>3
  <2>2. i - 1 = k + 1 /\ i > 1
    OBVIOUS
  <2>3. CASE scores[i] = scores[k + 1]
    <3>1. Better(i) = Better(k + 1)
      BY <2>3
    <3>2. Ranks(scores)[i] = Ranks(scores)[k + 1]
      BY <1>1, <2>2, <2>3
    <3>3. QED
      BY <2>1, <3>1, <3>2
  <2>4. CASE scores[i] # scores[k + 1]
    <3>1. Better(i) = 1..(k + 1)
      <4>1. scores[k + 1] > scores[i]
        BY <2>1, <2>4
      <4>2. \A j \in 1..n : j <= k + 1 => scores[j] >= scores[k + 1]
        <5> SUFFICES ASSUME NEW j \in 1..n, j <= k + 1 PROVE scores[j] >= scores[k + 1]
          OBVIOUS
        <5>1. CASE j = k + 1
          BY <2>1, <5>1
        <5>2. CASE j < k + 1
          BY <2>1, <5>2
        <5>3. QED
          BY <5>1, <5>2
      <4>3. \A j \in 1..n : j > k + 1 => ~(scores[j] > scores[i])
        <5> SUFFICES ASSUME NEW j \in 1..n, j > k + 1 PROVE scores[i] >= scores[j]
          OBVIOUS
        <5>1. CASE j = i
          BY <5>1
        <5>2. CASE i < j
          BY <5>2
        <5>3. QED
          BY <5>1, <5>2
      <4>4. \A j \in 1..n : j <= k + 1 => scores[j] > scores[i]
        <5> SUFFICES ASSUME NEW j \in 1..n, j <= k + 1 PROVE scores[j] > scores[i]
          OBVIOUS
        <5>1. scores[j] >= scores[k + 1] /\ scores[j] \in Int /\ scores[k + 1] \in Int
          BY <2>1, <4>2
        <5>2. QED
          BY <4>1, <5>1
      <4>5. QED
        BY <2>1, <4>3, <4>4
    <3>2. Cardinality(1..(k + 1)) = k + 1
      BY FS_Interval
    <3>3. Ranks(scores)[i] = i
      <4>1. Ranks(scores)[i] = IF i > 1 /\ scores[i] = scores[i - 1]
                               THEN Ranks(scores)[i - 1] ELSE i
        BY <1>1
      <4>2. scores[i] # scores[i - 1]
        BY <2>2, <2>4
      <4>3. QED
        BY <4>1, <4>2
    <3> HIDE DEF Better
    <3>4. Cardinality(Better(i)) = k + 1
      BY <3>1, <3>2
    <3>5. QED
      BY <3>3, <3>4
  <2>5. QED
    BY <2>3, <2>4
<1> HIDE DEF T
<1>4. Nat \subseteq T
  BY <1>2, <1>3, NatInSteps
<1>5. ASSUME NEW i \in 1..n PROVE Ranks(scores)[i] = 1 + Cardinality(Better(i))
  <2>1. i - 1 \in T /\ (i - 1) + 1 = i
    BY <1>4
  <2>2. QED
    BY <2>1 DEF T
<1>6. QED
  BY <1>5

-----------------------------------------------------------------------------
(* The inductive invariant. *)

\* A change was read for, and its transaction began, before it was committed, and a user's changes have times of their own.
TimesFit ==
    \A c \in ContestIds, u \in Users :
        changes[c][u] # NoChange =>
            /\ changes[c][u].read < changes[c][u].done /\ changes[c][u].done <= clock
            /\ changes[c][u].at < changes[c][u].done
            /\ \A d \in ContestIds \ {c} : changes[d][u].done # changes[c][u].done

\* The changes of u that were there at the time t.
SeenAt(u, t) == {c \in RowsOf(u) : changes[c][u].done <= t}

\* No finalisation that ended up to the time t after the one of d has missed it.
NotMissedUpTo(u, d, t) ==
    \A e \in SeenAt(u, t) :
        changes[e][u].done > changes[d][u].done => changes[e][u].read >= changes[d][u].done

\* A plan made at the time t starts from the last change seen then, and its maximum covers
\* those that were not missed.
PlanFits(u, p, t) ==
    /\ \A c \in SeenAt(u, t) :
          (\A d \in SeenAt(u, t) : changes[d][u].done <= changes[c][u].done)
          => p.before = changes[c][u].after
    /\ p.max >= p.after
    /\ \A d \in SeenAt(u, t) : NotMissedUpTo(u, d, t) => p.max >= changes[d][u].after

PlansFit ==
    \A r \in Requests : req[r].pc \in {"begin", "commit"} =>
        /\ req[r].read <= clock
        /\ req[r].pc = "commit" => req[r].at <= clock
        /\ \A u \in DOMAIN req[r].plan \cap accounts : PlanFits(u, req[r].plan[u], req[r].read)

\* The ranks still to be filled in are those that were rated.
FillsAgree ==
    \A r \in Requests : req[r].pc = "fill" =>
        /\ req[r].todo \subseteq DOMAIN req[r].plan
        /\ \A u \in req[r].todo \cap accounts :
              changes[req[r].contest][u] # NoChange
              /\ changes[req[r].contest][u].rank = req[r].plan[u].rank

\* Whoever was rated and has no rank in an entry, or no entry, is excused or still to be filled in.
Filling(r, c, u) == req[r].pc = "fill" /\ req[r].contest = c /\ u \in req[r].todo
RankAwaited(c, u) == <<c, u>> \in excused \/ \E r \in Requests : Filling(r, c, u)
Unranked == {NoEntry.rank, NoRank}
RanksFilled ==
    \A c \in ContestIds, u \in Users :
        changes[c][u] # NoChange /\ entry[c][u].rank \in Unranked => RankAwaited(c, u)

CInv ==
    /\ TypeOK /\ TimesFit
    /\ RatingIsLastChange /\ RatingsChain /\ MaxCoversWhatWasSeen /\ PlansFit
    /\ RanksAgree /\ FillsAgree

(* What can be a plan. *)
PlanRow == [before : Ratings, after : Ratings, max : Ratings, rank : 1..Cardinality(Users)]

LEMMA MaxOfTwo ==
    ASSUME NEW a \in Int, NEW b \in Int
    PROVE  Max({a, b}) \in {a, b} /\ Max({a, b}) >= a /\ Max({a, b}) >= b
<1>1. \E x \in {a, b} : \A y \in {a, b} : x >= y
  <2>1. CASE a >= b
    BY <2>1
  <2>2. CASE b >= a
    BY <2>2
  <2>3. QED
    BY <2>1, <2>2
<1>2. QED
  BY <1>1 DEF Max

LEMMA ScoreIsInt ==
    ASSUME NEW e \in Entry \cup {NoEntry}
    PROVE  e.score \in Int
<1>1. CASE e = NoEntry
  BY <1>1 DEF NoEntry
<1>2. CASE e \in Entry
  <2>1. e.score \in Scores
    BY <1>2 DEF Entry
  <2>2. QED
    BY <2>1, ContestsAssumption
<1>3. QED
  BY <1>1, <1>2

LEMMA StandingsList ==
    ASSUME TypeOK, NEW c \in ContestIds
    PROVE  /\ Cardinality(Entrants(c)) \in Nat
           /\ Cardinality(Entrants(c)) <= Cardinality(Users)
           /\ Cardinality(Users) \in Nat
           /\ Standings(c) \in [1..Cardinality(Entrants(c)) -> Entrants(c)]
           /\ \A u \in Entrants(c) : \E i \in 1..Cardinality(Entrants(c)) : Standings(c)[i] = u
<1> DEFINE E == Entrants(c)
           n == Cardinality(E)
           f == [u \in Users |-> entry[c][u].score]
           Fits(places) == /\ IsInjective(places)
                           /\ \A i, j \in 1..n : i < j => entry[c][places[i]].score
                                                         >= entry[c][places[j]].score
<1>1. E \in SUBSET Users /\ IsFiniteSet(Users)
  BY ContestsAssumption DEF Entrants
<1>2. IsFiniteSet(E) /\ n \in Nat /\ n <= Cardinality(Users) /\ Cardinality(Users) \in Nat
  BY <1>1, FS_Subset, FS_CardinalityType
<1>3. f \in [Users -> Int]
  <2> SUFFICES ASSUME NEW u \in Users PROVE entry[c][u].score \in Int
    OBVIOUS
  <2>1. entry[c][u] \in Entry \cup {NoEntry}
    BY DEF TypeOK
  <2>2. QED
    BY <2>1, ScoreIsInt
<1> HIDE DEF n
<1>4. \E places \in [1..n -> E] : Fits(places)
  <2>1. \E places \in [1..n -> E] : /\ IsInjective(places)
                                    /\ \A i, j \in 1..n : i < j => f[places[i]] >= f[places[j]]
    BY <1>1, <1>2, <1>3, CanBeRanked, ZenonT(30) DEF n
  <2>2. PICK places \in [1..n -> E] : /\ IsInjective(places)
                                     /\ \A i, j \in 1..n : i < j => f[places[i]] >= f[places[j]]
    BY <2>1
  <2>3. \A i \in 1..n : f[places[i]] = entry[c][places[i]].score
    BY <1>1, <2>2
  <2>4. QED
    BY <2>2, <2>3
<1>5. Standings(c) = CHOOSE places \in [1..n -> E] : Fits(places)
  BY DEF Standings, n
<1> HIDE DEF Fits
<1>6. Standings(c) \in [1..n -> E] /\ Fits(Standings(c))
  BY <1>4, <1>5
<1>7. \A u \in E : \E i \in 1..n : Standings(c)[i] = u
  <2>1. Standings(c) \in Injection(1..n, E)
    BY <1>6 DEF Injection, Fits
  <2>2. Cardinality(1..n) = Cardinality(E)
    BY <1>2, FS_Interval DEF n
  <2>3. Standings(c) \in Surjection(1..n, E)
    BY <1>2, <2>1, <2>2, FS_Injection
  <2>4. QED
    BY <2>3 DEF Surjection
<1>8. QED
  BY <1>2, <1>6, <1>7 DEF n

LEMMA PlanType ==
    ASSUME TypeOK, NEW c \in ContestIds, NEW after \in [Entrants(c) -> Ratings]
    PROVE  /\ Plan(c, after) \in [Entrants(c) -> PlanRow]
           /\ \A u \in Entrants(c) :
                 /\ Plan(c, after)[u].before = rating[u] /\ Plan(c, after)[u].after = after[u]
                 /\ Plan(c, after)[u].max >= maxRating[u] /\ Plan(c, after)[u].max >= after[u]
<1> DEFINE n == Cardinality(Entrants(c))
           places == Standings(c)
           scores == [i \in 1..Len(places) |-> entry[c][places[i]].score]
           ranks == Ranks(scores)
           place(u) == CHOOSE i \in 1..Len(places) : places[i] = u
<1>1. /\ n \in Nat /\ n <= Cardinality(Users) /\ Cardinality(Users) \in Nat
      /\ places \in [1..n -> Entrants(c)] /\ Entrants(c) \subseteq Users
      /\ \A u \in Entrants(c) : \E i \in 1..n : places[i] = u
  BY StandingsList DEF Entrants
<1> HIDE DEF n, places
<1>2. Len(places) = n
  BY <1>1
<1>3. scores \in [1..n -> Int]
  <2> SUFFICES ASSUME NEW i \in 1..n PROVE entry[c][places[i]].score \in Int
    BY <1>2
  <2>1. entry[c][places[i]] \in Entry \cup {NoEntry}
    BY <1>1 DEF TypeOK
  <2>2. QED
    BY <2>1, ScoreIsInt
<1> HIDE DEF scores
<1>4. ranks \in [1..n -> 1..n]
  BY <1>1, <1>3, RankOfPlace
<1> HIDE DEF ranks
<1>5. \A u \in Entrants(c) : place(u) \in 1..n
  BY <1>1, <1>2
<1> HIDE DEF place
<1>6. \A u \in Entrants(c) : ranks[place(u)] \in 1..Cardinality(Users)
  BY <1>1, <1>4, <1>5
<1>7. Plan(c, after) =
        [u \in Entrants(c) |-> [before |-> rating[u], after |-> after[u],
                               max |-> Max({maxRating[u], after[u]}), rank |-> ranks[place(u)]]]
  BY DEF Plan, ranks, scores, places, place
<1>8. ASSUME NEW u \in Entrants(c)
      PROVE  /\ rating[u] \in Ratings /\ after[u] \in Ratings
             /\ Max({maxRating[u], after[u]}) \in Ratings
             /\ Max({maxRating[u], after[u]}) >= maxRating[u]
             /\ Max({maxRating[u], after[u]}) >= after[u]
  <2>1. rating[u] \in Ratings /\ after[u] \in Ratings /\ maxRating[u] \in Ratings
    BY <1>1 DEF TypeOK
  <2>2. after[u] \in Int /\ maxRating[u] \in Int
    BY <2>1, ContestsAssumption
  <2>3. QED
    BY <2>1, <2>2, MaxOfTwo
<1>9. QED
  BY <1>6, <1>7, <1>8 DEF PlanRow

-----------------------------------------------------------------------------
(* Requests. *)

LEMMA CommitShape ==
    ASSUME NEW q \in Request, q.pc \in {"begin", "commit"}
    PROVE  /\ q.contest \in ContestIds /\ q.read \in Nat /\ q.plan \in Plans
           /\ q.pc = "commit" => q.at \in Nat
           /\ DOMAIN q.plan \subseteq Users
           /\ \A u \in DOMAIN q.plan : q.plan[u] \in PlanRow
<1>1. \/ q \in [pc : {"begin"}, contest : ContestIds, plan : Plans, read : Nat]
      \/ q \in [pc : {"commit"}, contest : ContestIds, plan : Plans, read : Nat, at : Nat]
  BY DEF Request, Idle
<1>2. PICK S \in SUBSET Users : q.plan \in [S -> PlanRow]
  BY <1>1 DEF Plans, PlanRow
<1>3. QED
  BY <1>1, <1>2

LEMMA FillShape ==
    ASSUME NEW q \in Request, q.pc = "fill"
    PROVE  /\ q = [pc |-> "fill", contest |-> q.contest, plan |-> q.plan, todo |-> q.todo]
           /\ q.contest \in ContestIds /\ q.plan \in Plans /\ q.todo \in SUBSET Users
           /\ \A u \in DOMAIN q.plan : q.plan[u] \in PlanRow
<1>1. q \in [pc : {"fill"}, contest : ContestIds, plan : Plans, todo : SUBSET Users]
  BY DEF Request, Idle
<1>2. PICK S \in SUBSET Users : q.plan \in [S -> PlanRow]
  BY <1>1 DEF Plans, PlanRow
<1>3. QED
  BY <1>1, <1>2

LEMMA WriteShape ==
    ASSUME NEW q \in Request, q.pc \in {"join", "leave"}
    PROVE  q.contest \in ContestIds /\ q.user \in Users
BY DEF Request, Idle

LEMMA ReadShape ==
    ASSUME NEW q \in Request, q.pc \in {"count", "read"}
    PROVE  q.contest \in ContestIds
BY DEF Request, Idle

(* Plans are judged by the changes alone. *)
LEMMA SameChanges ==
    ASSUME changes' = changes
    PROVE  /\ \A u : RowsOf(u)' = RowsOf(u)
           /\ \A u, t : SeenAt(u, t)' = SeenAt(u, t)
           /\ \A u, p, t : PlanFits(u, p, t) => PlanFits(u, p, t)'
<1>1. \A u : RowsOf(u)' = RowsOf(u)
  BY DEF RowsOf
<1>2. \A u, t : SeenAt(u, t)' = SeenAt(u, t)
  BY <1>1 DEF SeenAt
<1>3. \A u, d, t : NotMissedUpTo(u, d, t)' = NotMissedUpTo(u, d, t)
  BY <1>2 DEF NotMissedUpTo
<1>4. ASSUME NEW u, NEW p, NEW t, PlanFits(u, p, t) PROVE PlanFits(u, p, t)'
  BY <1>2, <1>3, <1>4 DEF PlanFits
<1>5. QED
  BY <1>1, <1>2, <1>4

(* Steps that write no row but the contest's status: one request goes on, or none. *)
LEMMA NothingWritten ==
    ASSUME CInv, UNCHANGED <<accounts, entry, rating, maxRating, changes, clock>>,
           status' \in [ContestIds -> Statuses], over' \in [ContestIds -> BOOLEAN],
           events' \in 0..MaxEvents, excused' \subseteq ContestIds \X Users,
           NEW r, NEW q \in Request, req' \in {req, [req EXCEPT ![r] = q]},
           q.pc # "fill",
           q.pc \in {"begin", "commit"} =>
               /\ q.read <= clock
               /\ q.pc = "commit" => q.at <= clock
               /\ \A u \in DOMAIN q.plan \cap accounts : PlanFits(u, q.plan[u], q.read)
    PROVE  CInv'
<1>1. \A s \in Requests : req'[s] = req[s] \/ req'[s] = q
  BY DEF CInv, TypeOK
<1>2. TypeOK'
  <2>1. req' \in [Requests -> Request]
    BY DEF CInv, TypeOK
  <2>2. (req \in [Requests -> Request])'
    BY <2>1 DEF Request, Plans, Idle
  <2>3. (entry \in [ContestIds -> [Users -> Entry \cup {NoEntry}]])'
    BY DEF CInv, TypeOK, Entry, NoEntry
  <2>4. (changes \in [ContestIds -> [Users -> Change \cup {NoChange}]])'
    BY DEF CInv, TypeOK, Change, NoChange
  <2>5. (\A c \in ContestIds, u \in Users \ accounts :
            entry[c][u] = NoEntry /\ changes[c][u] = NoChange)'
    BY DEF CInv, TypeOK, NoEntry, NoChange
  <2>6. (accounts \subseteq Users /\ status \in [ContestIds -> Statuses])'
    BY DEF CInv, TypeOK, Statuses
  <2>7. (/\ over \in [ContestIds -> BOOLEAN] /\ clock \in Nat /\ events \in 0..MaxEvents
         /\ excused \subseteq ContestIds \X Users
         /\ rating \in [Users -> Ratings] /\ maxRating \in [Users -> Ratings])'
    BY DEF CInv, TypeOK
  <2>8. QED
    BY <2>2, <2>3, <2>4, <2>5, <2>6, <2>7 DEF TypeOK
<1>3. TimesFit' /\ RanksAgree'
  <2>1. TimesFit'
    BY DEF CInv, TimesFit, NoChange
  <2>2. (\A c : Entrants(c)' = Entrants(c)) /\ NoRank' = NoRank
    BY DEF Entrants, NoEntry, NoRank
  <2>3. RanksAgree'
    BY <2>2 DEF CInv, RanksAgree
  <2>4. QED
    BY <2>1, <2>3
<1>4. RatingIsLastChange' /\ RatingsChain' /\ MaxCoversWhatWasSeen'
  BY SameChanges DEF CInv, RatingIsLastChange, RatingsChain, MaxCoversWhatWasSeen
<1>5. PlansFit'
  <2> SUFFICES ASSUME NEW s \in Requests, (req[s].pc \in {"begin", "commit"})'
               PROVE  (/\ req[s].read <= clock
                       /\ req[s].pc = "commit" => req[s].at <= clock
                       /\ \A u \in DOMAIN req[s].plan \cap accounts :
                             PlanFits(u, req[s].plan[u], req[s].read))'
    BY DEF PlansFit
  <2>1. /\ req'[s].read <= clock
        /\ req'[s].pc = "commit" => req'[s].at <= clock
        /\ \A u \in DOMAIN req'[s].plan \cap accounts : PlanFits(u, req'[s].plan[u], req'[s].read)
    BY <1>1 DEF CInv, PlansFit
  <2>2. QED
    BY <2>1, SameChanges
<1>6. FillsAgree'
  BY <1>1 DEF CInv, FillsAgree, NoChange
<1>7. QED
  BY <1>2, <1>3, <1>4, <1>5, <1>6 DEF CInv

LEMMA RowType ==
    ASSUME TypeOK, NEW c \in ContestIds, NEW u \in Users
    PROVE  /\ changes[c][u] \in Change \cup {NoChange}
           /\ changes[c][u].done \in Nat /\ changes[c][u].read \in Nat
           /\ changes[c][u].at \in Nat /\ changes[c][u].after \in Int
<1>1. changes[c][u] \in Change \cup {NoChange}
  BY DEF TypeOK
<1>2. CASE changes[c][u] = NoChange
  BY <1>2 DEF NoChange
<1>3. CASE changes[c][u] \in Change
  BY <1>3, ContestsAssumption DEF Change
<1>4. QED
  BY <1>1, <1>2, <1>3

(* A plan that starts from the ratings of now fits the changes of now. *)
LEMMA NewPlanFits ==
    ASSUME CInv, NEW u \in accounts, NEW p,
           p.before = rating[u], p.max \in Int, p.max >= p.after, p.max >= maxRating[u]
    PROVE  PlanFits(u, p, clock)
<1>1. u \in Users /\ clock \in Nat /\ maxRating[u] \in Int
  BY ContestsAssumption DEF CInv, TypeOK
<1>2. \A d \in ContestIds : changes[d][u].done \in Nat /\ changes[d][u].read \in Nat
                            /\ changes[d][u].after \in Int
  BY <1>1, RowType DEF CInv
<1>3. RowsOf(u) \subseteq ContestIds /\ \A d \in RowsOf(u) : changes[d][u] # NoChange
  BY DEF RowsOf
<1>4. SeenAt(u, clock) = RowsOf(u)
  BY <1>1, <1>3 DEF SeenAt, CInv, TimesFit
<1>5. ASSUME NEW c \in RowsOf(u), \A d \in RowsOf(u) : changes[d][u].done <= changes[c][u].done
      PROVE  p.before = changes[c][u].after
  BY <1>5 DEF CInv, RatingIsLastChange
<1>6. ASSUME NEW d \in RowsOf(u), NotMissedUpTo(u, d, clock)
      PROVE  p.max >= changes[d][u].after
  <2>1. maxRating[u] >= changes[d][u].after
    BY <1>4, <1>6 DEF CInv, MaxCoversWhatWasSeen, NotMissedUpTo
  <2>2. QED
    BY <1>1, <1>2, <1>3, <2>1
<1>7. QED
  BY <1>4, <1>5, <1>6 DEF PlanFits

(* An entry is written, with the rank that was rated or with none. *)
LEMMA EntryWritten ==
    ASSUME CInv,
           UNCHANGED <<accounts, status, over, rating, maxRating, changes, clock, events>>,
           excused' \subseteq ContestIds \X Users,
           NEW c \in ContestIds, NEW u \in Users, NEW e \in Entry \cup {NoEntry},
           entry' \in {entry, [entry EXCEPT ![c][u] = e]},
           u \notin accounts => e = NoEntry,
           e = NoEntry \/ e.rank = NoRank \/ e.rank = changes[c][u].rank,
           NEW r \in Requests, NEW q \in Request, req' = [req EXCEPT ![r] = q],
           q.pc \notin {"begin", "commit"},
           q.pc = "fill" =>
               /\ q.todo \subseteq DOMAIN q.plan
               /\ \A v \in q.todo \cap accounts : changes[q.contest][v] # NoChange
                                                 /\ changes[q.contest][v].rank = q.plan[v].rank
    PROVE  CInv'
<1>1. \A s \in Requests : req'[s] = req[s] \/ req'[s] = q
  BY DEF CInv, TypeOK
<1>2. entry \in [ContestIds -> [Users -> Entry \cup {NoEntry}]]
  BY DEF CInv, TypeOK
<1>3. \A d \in ContestIds, v \in Users : entry'[d][v] = entry[d][v] \/ (d = c /\ v = u /\ entry'[d][v] = e)
  BY <1>2
<1>4. entry' \in [ContestIds -> [Users -> Entry \cup {NoEntry}]]
  BY <1>2
<1>5. TypeOK'
  <2>1. req' \in [Requests -> Request]
    BY DEF CInv, TypeOK
  <2>2. (req \in [Requests -> Request])'
    BY <2>1 DEF Request, Plans, Idle
  <2>3. (entry \in [ContestIds -> [Users -> Entry \cup {NoEntry}]])'
    BY <1>4 DEF Entry, NoEntry
  <2>4. (changes \in [ContestIds -> [Users -> Change \cup {NoChange}]])'
    BY DEF CInv, TypeOK, Change, NoChange
  <2>5. (\A d \in ContestIds, v \in Users \ accounts :
            entry[d][v] = NoEntry /\ changes[d][v] = NoChange)'
    <3>1. \A d \in ContestIds, v \in Users \ accounts :
            entry'[d][v] = NoEntry /\ changes[d][v] = NoChange
      BY <1>3 DEF CInv, TypeOK
    <3>2. QED
      BY <3>1 DEF NoEntry, NoChange
  <2>6. (accounts \subseteq Users /\ status \in [ContestIds -> Statuses])'
    BY DEF CInv, TypeOK, Statuses
  <2>7. (/\ over \in [ContestIds -> BOOLEAN] /\ clock \in Nat /\ events \in 0..MaxEvents
         /\ excused \subseteq ContestIds \X Users
         /\ rating \in [Users -> Ratings] /\ maxRating \in [Users -> Ratings])'
    BY DEF CInv, TypeOK
  <2>8. QED
    BY <2>2, <2>3, <2>4, <2>5, <2>6, <2>7 DEF TypeOK
<1>6. TimesFit'
  BY DEF CInv, TimesFit, NoChange
<1>7. RatingIsLastChange' /\ RatingsChain' /\ MaxCoversWhatWasSeen'
  BY SameChanges DEF CInv, RatingIsLastChange, RatingsChain, MaxCoversWhatWasSeen
<1>8. PlansFit'
  <2> SUFFICES ASSUME NEW s \in Requests, (req[s].pc \in {"begin", "commit"})'
               PROVE  (/\ req[s].read <= clock
                       /\ req[s].pc = "commit" => req[s].at <= clock
                       /\ \A v \in DOMAIN req[s].plan \cap accounts :
                             PlanFits(v, req[s].plan[v], req[s].read))'
    BY DEF PlansFit
  <2>1. /\ req'[s].read <= clock
        /\ req'[s].pc = "commit" => req'[s].at <= clock
        /\ \A v \in DOMAIN req'[s].plan \cap accounts : PlanFits(v, req'[s].plan[v], req'[s].read)
    BY <1>1 DEF CInv, PlansFit
  <2>2. QED
    BY <2>1, SameChanges
<1>9. RanksAgree'
  <2>1. \A d \in ContestIds, v \in Users : entry'[d][v] # NoEntry /\ entry'[d][v].rank # NoRank =>
            entry'[d][v].rank = changes[d][v].rank
    BY <1>3 DEF CInv, RanksAgree, Entrants
  <2>2. QED
    BY <2>1 DEF RanksAgree, Entrants, NoEntry, NoRank
<1>10. FillsAgree'
  BY <1>1 DEF CInv, FillsAgree, NoChange
<1>11. QED
  BY <1>5, <1>6, <1>7, <1>8, <1>9, <1>10 DEF CInv

-----------------------------------------------------------------------------
(* The steps. *)

LEMMA InitSound == Init => CInv
<1> SUFFICES ASSUME Init PROVE CInv
  OBVIOUS
<1>1. TypeOK
  <2>1. entry \in [ContestIds -> [Users -> Entry \cup {NoEntry}]]
    <3>1. Cardinality(Users) \in Nat
      BY ContestsAssumption, FS_CardinalityType
    <3>2. [score : Scores \ {0}, rank : {NoRank}] \subseteq Entry
      BY <3>1 DEF Entry, NoRank
    <3>3. QED
      BY <3>2 DEF Init
  <2>2. changes \in [ContestIds -> [Users -> Change \cup {NoChange}]]
    BY DEF Init
  <2>3. \A c \in ContestIds, u \in Users \ accounts :
          entry[c][u] = NoEntry /\ changes[c][u] = NoChange
    BY DEF Init
  <2>4. req \in [Requests -> Request]
    BY DEF Init, Request
  <2>5. /\ accounts \subseteq Users /\ status \in [ContestIds -> Statuses]
        /\ over \in [ContestIds -> BOOLEAN]
        /\ rating \in [Users -> Ratings] /\ maxRating \in [Users -> Ratings]
        /\ clock \in Nat /\ events \in 0..MaxEvents /\ excused \subseteq ContestIds \X Users
    BY ContestsAssumption DEF Init, Statuses
  <2>6. QED
    BY <2>1, <2>2, <2>3, <2>4, <2>5 DEF TypeOK
<1>2. \A u \in Users : RowsOf(u) = {}
  BY DEF Init, RowsOf
<1>3. TimesFit /\ PlansFit /\ FillsAgree
  BY DEF Init, TimesFit, PlansFit, FillsAgree, Idle
<1>4. RatingIsLastChange /\ RatingsChain /\ MaxCoversWhatWasSeen
  BY <1>2 DEF Init, RatingIsLastChange, RatingsChain, MaxCoversWhatWasSeen
<1>5. RanksAgree
  <2>1. \A c \in ContestIds, u \in Users : entry[c][u].rank = NoRank
    BY DEF Init
  <2>2. QED
    BY <2>1 DEF RanksAgree, Entrants
<1>6. QED
  BY <1>1, <1>3, <1>4, <1>5 DEF CInv

LEMMA AskingSound ==
    ASSUME CInv, NEW r \in Requests, NEW c \in ContestIds, NEW u \in Users,
           JoinCheck(r, c, u) \/ LeaveCheck(r, c, u)
    PROVE  CInv'
<1>1. PICK q \in Request : q.pc \in {"join", "leave"} /\ req' = [req EXCEPT ![r] = q]
  <2>1. \A pc \in {"join", "leave"} : [pc |-> pc, contest |-> c, user |-> u] \in Request
    BY DEF Request
  <2>2. QED
    BY <2>1 DEF JoinCheck, LeaveCheck, Goto
<1>2. events' \in 0..MaxEvents /\ excused' \subseteq ContestIds \X Users
  BY ContestsAssumption DEF CInv, TypeOK, JoinCheck, LeaveCheck, CountEvent
<1>3. /\ UNCHANGED <<accounts, entry, rating, maxRating, changes, clock>>
      /\ status' \in [ContestIds -> Statuses] /\ over' \in [ContestIds -> BOOLEAN]
  BY DEF CInv, TypeOK, JoinCheck, LeaveCheck
<1>4. QED
  BY <1>1, <1>2, <1>3, NothingWritten

LEMMA JoinCreateSound ==
    ASSUME CInv, NEW r \in Requests, JoinCreate(r)
    PROVE  CInv'
<1> DEFINE c == req[r].contest  u == req[r].user
           e == IF u \in accounts THEN [score |-> 0, rank |-> NoRank] ELSE NoEntry
<1>1. c \in ContestIds /\ u \in Users /\ Idle \in Request
  BY WriteShape DEF CInv, TypeOK, JoinCreate, Request
<1>2. e \in Entry \cup {NoEntry} /\ (u \notin accounts => e = NoEntry)
      /\ (e = NoEntry \/ e.rank = NoRank)
  <2>1. Cardinality(Users) \in Nat
    BY ContestsAssumption, FS_CardinalityType
  <2>2. QED
    BY <2>1, ContestsAssumption DEF Entry, NoRank
<1>3. /\ entry' \in {entry, [entry EXCEPT ![c][u] = e]} /\ req' = [req EXCEPT ![r] = Idle]
      /\ UNCHANGED <<accounts, status, over, rating, maxRating, changes, clock, events>>
      /\ excused' \subseteq ContestIds \X Users
  BY DEF JoinCreate, Done, Goto, CInv, TypeOK
<1>4. Idle.pc = "idle"
  BY DEF Idle
<1> HIDE DEF c, u, e
<1>5. QED
  BY <1>1, <1>2, <1>3, <1>4, EntryWritten

LEMMA LeaveDeleteSound ==
    ASSUME CInv, NEW r \in Requests, LeaveDelete(r)
    PROVE  CInv'
<1> DEFINE c == req[r].contest  u == req[r].user
<1>1. c \in ContestIds /\ u \in Users /\ Idle \in Request
  BY WriteShape DEF CInv, TypeOK, LeaveDelete, Request
<1>2. /\ entry' = [entry EXCEPT ![c][u] = NoEntry] /\ req' = [req EXCEPT ![r] = Idle]
      /\ UNCHANGED <<accounts, status, over, rating, maxRating, changes, clock, events>>
      /\ excused' \subseteq ContestIds \X Users
  BY <1>1 DEF LeaveDelete, Done, Goto, CInv, TypeOK, Excusing
<1>3. Idle.pc = "idle"
  BY DEF Idle
<1> HIDE DEF c, u
<1>4. QED
  BY <1>1, <1>2, <1>3, EntryWritten

LEMMA OverrideSound ==
    ASSUME CInv, NEW c \in ContestIds,
           EndTimePasses(c) \/ \E s \in Statuses : SetStatus(c, s)
    PROVE  CInv'
<1>1. /\ UNCHANGED <<accounts, entry, rating, maxRating, changes, clock>> /\ req' = req
      /\ status' \in [ContestIds -> Statuses] /\ over' \in [ContestIds -> BOOLEAN]
  BY DEF CInv, TypeOK, EndTimePasses, SetStatus
<1>2. events' \in 0..MaxEvents /\ excused' \subseteq ContestIds \X Users
  BY ContestsAssumption DEF CInv, TypeOK, EndTimePasses, SetStatus, CountEvent
<1>3. Idle \in Request /\ Idle.pc = "idle"
  BY DEF Request, Idle
<1>4. QED
  BY <1>1, <1>2, <1>3, NothingWritten

LEMMA FailSound ==
    ASSUME CInv, NEW r \in Requests, Fail(r)
    PROVE  CInv'
<1>1. /\ UNCHANGED <<accounts, entry, rating, maxRating, changes, clock>>
      /\ req' = [req EXCEPT ![r] = Idle]
      /\ status' \in [ContestIds -> Statuses] /\ over' \in [ContestIds -> BOOLEAN]
  BY DEF CInv, TypeOK, Fail, Done, Goto
<1>2. events' \in 0..MaxEvents /\ excused' \subseteq ContestIds \X Users
  <2>1. events' \in 0..MaxEvents
    BY ContestsAssumption DEF CInv, TypeOK, Fail, CountEvent
  <2>2. CASE req[r].pc = "fill"
    <3>1. req[r].contest \in ContestIds /\ req[r].todo \in SUBSET Users
      BY <2>2, FillShape DEF CInv, TypeOK
    <3>2. QED
      BY <2>1, <2>2, <3>1 DEF CInv, TypeOK, Fail, Excusing
  <2>3. CASE req[r].pc # "fill"
    BY <2>1, <2>3 DEF CInv, TypeOK, Fail
  <2>4. QED
    BY <2>2, <2>3
<1>3. Idle \in Request /\ Idle.pc = "idle"
  BY DEF Request, Idle
<1>4. QED
  BY <1>1, <1>2, <1>3, NothingWritten

LEMMA FinaliseCheckSound ==
    ASSUME CInv, NEW r \in Requests, NEW c \in ContestIds, FinaliseCheck(r, c)
    PROVE  CInv'
<1> DEFINE q == [pc |-> "count", contest |-> c]
<1>1. q \in Request /\ q.pc = "count"
  BY DEF Request
<1>2. /\ UNCHANGED <<accounts, entry, rating, maxRating, changes, clock>>
      /\ req' = [req EXCEPT ![r] = q]
      /\ status' \in [ContestIds -> Statuses] /\ over' \in [ContestIds -> BOOLEAN]
      /\ events' \in 0..MaxEvents /\ excused' \subseteq ContestIds \X Users
  BY DEF CInv, TypeOK, FinaliseCheck, Goto
<1> HIDE DEF q
<1>3. QED
  BY <1>1, <1>2, NothingWritten

LEMMA FinaliseCountSound ==
    ASSUME CInv, NEW r \in Requests, FinaliseCount(r)
    PROVE  CInv'
<1>1. req[r].contest \in ContestIds
  BY ReadShape DEF CInv, TypeOK, FinaliseCount
<1>2. PICK q \in Request : q.pc \in {"idle", "read"} /\ req' = [req EXCEPT ![r] = q]
  <2>1. Idle \in Request /\ Idle.pc = "idle"
        /\ [pc |-> "read", contest |-> req[r].contest] \in Request
    BY <1>1 DEF Request, Idle
  <2>2. QED
    BY <2>1 DEF FinaliseCount, Done, Goto
<1>3. /\ UNCHANGED <<accounts, entry, rating, maxRating, changes, clock>>
      /\ status' \in [ContestIds -> Statuses] /\ over' \in [ContestIds -> BOOLEAN]
      /\ events' \in 0..MaxEvents /\ excused' \subseteq ContestIds \X Users
  BY DEF CInv, TypeOK, FinaliseCount
<1>4. QED
  BY <1>2, <1>3, NothingWritten

LEMMA FinaliseReadSound ==
    ASSUME CInv, NEW r \in Requests, FinaliseRead(r)
    PROVE  CInv'
<1> DEFINE c == req[r].contest
<1>1. c \in ContestIds
  BY ReadShape DEF CInv, TypeOK, FinaliseRead
<1>2. /\ UNCHANGED <<accounts, entry, rating, maxRating, changes, clock>>
      /\ status' \in [ContestIds -> Statuses] /\ over' \in [ContestIds -> BOOLEAN]
      /\ events' \in 0..MaxEvents /\ excused' \subseteq ContestIds \X Users
  BY DEF CInv, TypeOK, FinaliseRead
<1>3. CASE req' = [req EXCEPT ![r] = Idle]
  <2>1. Idle \in Request /\ Idle.pc = "idle"
    BY DEF Request, Idle
  <2>2. QED
    BY <1>2, <1>3, <2>1, NothingWritten
<1>4. ASSUME NEW after \in [Entrants(c) -> Ratings],
             req' = [req EXCEPT ![r] = [pc |-> "begin", contest |-> c,
                                        plan |-> Plan(c, after), read |-> clock]]
      PROVE  CInv'
  <2> DEFINE plan == Plan(c, after)
             q == [pc |-> "begin", contest |-> c, plan |-> plan, read |-> clock]
  <2>1. /\ plan \in [Entrants(c) -> PlanRow]
        /\ \A u \in Entrants(c) :
              /\ plan[u].before = rating[u] /\ plan[u].after = after[u]
              /\ plan[u].max >= maxRating[u] /\ plan[u].max >= after[u]
    BY <1>1, PlanType DEF CInv
  <2> HIDE DEF plan
  <2>2. Entrants(c) \in SUBSET Users /\ clock \in Nat
    BY DEF Entrants, CInv, TypeOK
  <2>3. plan \in Plans
    BY <2>1, <2>2 DEF Plans, PlanRow
  <2>4. q \in Request
    BY <1>1, <2>2, <2>3 DEF Request
  <2>5. /\ q.pc = "begin" /\ q.read = clock /\ q.plan = plan /\ q.read <= clock
        /\ DOMAIN plan = Entrants(c)
    BY <2>1, <2>2
  <2>6. ASSUME NEW u \in Entrants(c) \cap accounts PROVE PlanFits(u, plan[u], clock)
    <3>1. plan[u].max \in Ratings
      BY <2>1 DEF PlanRow
    <3>2. plan[u].max \in Int
      BY <3>1, ContestsAssumption
    <3>3. plan[u].before = rating[u] /\ plan[u].max >= plan[u].after /\ plan[u].max >= maxRating[u]
      BY <2>1
    <3>4. QED
      BY <3>2, <3>3, NewPlanFits
  <2>7. req' = [req EXCEPT ![r] = q]
    BY <1>4 DEF plan
  <2> HIDE DEF q
  <2>8. QED
    BY <1>2, <2>4, <2>5, <2>6, <2>7, NothingWritten
<1>5. QED
  BY <1>3, <1>4 DEF FinaliseRead, Done, Goto, calculateRatingChanges

LEMMA FinaliseBeginSound ==
    ASSUME CInv, NEW r \in Requests, FinaliseBegin(r)
    PROVE  CInv'
<1> DEFINE q == [pc |-> "commit", contest |-> req[r].contest, plan |-> req[r].plan,
                 read |-> req[r].read, at |-> clock]
<1>1. /\ req[r].contest \in ContestIds /\ req[r].plan \in Plans /\ req[r].read \in Nat
      /\ clock \in Nat
  BY CommitShape DEF CInv, TypeOK, FinaliseBegin
<1>2. q \in Request
  BY <1>1 DEF Request
<1>3. /\ q.pc = "commit" /\ q.plan = req[r].plan /\ q.read = req[r].read /\ q.at = clock
      /\ clock <= clock
  BY <1>1
<1>4. /\ req[r].read <= clock
      /\ \A u \in DOMAIN req[r].plan \cap accounts : PlanFits(u, req[r].plan[u], req[r].read)
  BY DEF CInv, PlansFit, FinaliseBegin
<1>5. /\ UNCHANGED <<accounts, entry, rating, maxRating, changes, clock>>
      /\ req' = [req EXCEPT ![r] = q]
      /\ status' \in [ContestIds -> Statuses] /\ over' \in [ContestIds -> BOOLEAN]
      /\ events' \in 0..MaxEvents /\ excused' \subseteq ContestIds \X Users
  BY DEF CInv, TypeOK, FinaliseBegin, Goto
<1> HIDE DEF q
<1>6. QED
  BY <1>2, <1>3, <1>4, <1>5, NothingWritten

LEMMA FinaliseFillSound ==
    ASSUME CInv, NEW r \in Requests, FinaliseFill(r)
    PROVE  CInv'
<1> DEFINE c == req[r].contest  plan == req[r].plan  todo == req[r].todo
<1>1. PICK u \in todo :
        /\ entry' = IF entry[c][u] = NoEntry THEN entry
                    ELSE [entry EXCEPT ![c][u].rank = plan[u].rank]
        /\ excused' = IF entry[c][u] = NoEntry THEN Excusing(c, {u}) ELSE excused
        /\ IF todo = {u} THEN Done(r) ELSE Goto(r, [req[r] EXCEPT !.todo = @ \ {u}])
  BY DEF FinaliseFill
<1>2. /\ req[r] = [pc |-> "fill", contest |-> c, plan |-> plan, todo |-> todo]
      /\ c \in ContestIds /\ plan \in Plans /\ todo \in SUBSET Users
      /\ \A v \in DOMAIN plan : plan[v] \in PlanRow
  BY FillShape DEF CInv, TypeOK, FinaliseFill
<1>3. /\ todo \subseteq DOMAIN plan
      /\ \A v \in todo \cap accounts : changes[c][v] # NoChange /\ changes[c][v].rank = plan[v].rank
  BY <1>2 DEF CInv, FillsAgree, FinaliseFill
<1>4. /\ UNCHANGED <<accounts, status, over, rating, maxRating, changes, clock, events>>
      /\ excused' \subseteq ContestIds \X Users
  BY <1>1, <1>2 DEF FinaliseFill, CInv, TypeOK, Excusing
<1> DEFINE e == IF entry[c][u] = NoEntry THEN NoEntry
                ELSE [score |-> entry[c][u].score, rank |-> plan[u].rank]
           next == IF todo = {u} THEN Idle
                   ELSE [pc |-> "fill", contest |-> c, plan |-> plan, todo |-> todo \ {u}]
<1>5. req' = [req EXCEPT ![r] = next]
  BY <1>1, <1>2 DEF Done, Goto
<1> HIDE DEF c, plan, todo
<1>6. u \in Users /\ plan[u].rank \in 1..Cardinality(Users) /\ Cardinality(Users) \in Nat
  <2>1. u \in DOMAIN plan /\ plan[u] \in PlanRow
    BY <1>1, <1>2, <1>3
  <2>2. QED
    BY <1>1, <1>2, <2>1, ContestsAssumption, FS_CardinalityType DEF PlanRow
<1>7. entry[c][u] \in Entry \cup {NoEntry} /\ (u \notin accounts => entry[c][u] = NoEntry)
  BY <1>2, <1>6 DEF CInv, TypeOK
<1>8. e \in Entry \cup {NoEntry} /\ (e # NoEntry => e.rank = plan[u].rank)
  <2>1. CASE entry[c][u] = NoEntry
    BY <2>1
  <2>2. CASE entry[c][u] # NoEntry
    <3>1. entry[c][u] \in Entry
      BY <1>7, <2>2
    <3>2. QED
      BY <1>6, <2>2, <3>1 DEF Entry
  <2>3. QED
    BY <2>1, <2>2
<1>9. entry' \in {entry, [entry EXCEPT ![c][u] = e]}
  <2>1. CASE entry[c][u] = NoEntry
    BY <1>1, <2>1 DEF c
  <2>2. CASE entry[c][u] # NoEntry
    <3>1. entry[c][u] = [score |-> entry[c][u].score, rank |-> entry[c][u].rank]
      BY <1>7, <2>2 DEF Entry
    <3>2. [entry[c][u] EXCEPT !.rank = plan[u].rank] = e
      BY <2>2, <3>1
    <3>3. entry' = [entry EXCEPT ![c][u].rank = plan[u].rank]
      BY <1>1, <2>2 DEF c, plan
    <3> HIDE DEF e
    <3>4. QED
      BY <3>2, <3>3
  <2>3. QED
    BY <2>1, <2>2
<1>10. next \in Request
  BY <1>2 DEF Request, Idle
<1>11. /\ next.pc \notin {"begin", "commit"}
       /\ next.pc = "fill" => /\ next.contest = c /\ next.plan = plan /\ next.todo = todo \ {u}
  BY DEF Idle
<1>12. /\ u \notin accounts => e = NoEntry
       /\ e = NoEntry \/ e.rank = NoRank \/ e.rank = changes[c][u].rank
  BY <1>1, <1>3, <1>7, <1>8 DEF todo
<1> HIDE DEF next, e
<1>13. next.pc = "fill" =>
          /\ next.todo \subseteq DOMAIN next.plan
          /\ \A v \in next.todo \cap accounts : changes[next.contest][v] # NoChange
                               /\ changes[next.contest][v].rank = next.plan[v].rank
  BY <1>3, <1>11
<1>14. QED
  BY <1>2, <1>4, <1>5, <1>6, <1>8, <1>9, <1>10, <1>11, <1>12, <1>13, EntryWritten

(* Deleting a user takes the user's rows away, and touches nobody else's. *)
LEMMA DeleteUserSound ==
    ASSUME CInv, NEW w \in Users, DeleteUser(w)
    PROVE  CInv'
<1>1. /\ UNCHANGED <<status, over, rating, maxRating, clock, req>>
      /\ accounts' = accounts \ {w}
  BY DEF DeleteUser
<1>2. /\ entry \in [ContestIds -> [Users -> Entry \cup {NoEntry}]]
      /\ changes \in [ContestIds -> [Users -> Change \cup {NoChange}]]
  BY DEF CInv, TypeOK
<1>3. \A c \in ContestIds, u \in Users :
         /\ entry'[c][u] = IF u = w THEN NoEntry ELSE entry[c][u]
         /\ changes'[c][u] = IF u = w THEN NoChange ELSE changes[c][u]
  BY <1>2 DEF DeleteUser
<1>4. /\ entry' \in [ContestIds -> [Users -> Entry \cup {NoEntry}]]
      /\ changes' \in [ContestIds -> [Users -> Change \cup {NoChange}]]
  BY <1>2 DEF DeleteUser
<1>5. \A u \in accounts' : u \in accounts /\ u \in Users /\ u # w
  BY <1>1 DEF CInv, TypeOK
<1>6. \A u \in accounts' : RowsOf(u)' = RowsOf(u) /\ \A c \in ContestIds : changes'[c][u] = changes[c][u]
  BY <1>3, <1>5 DEF RowsOf, NoChange
<1>7. TypeOK'
  <2>1. (req \in [Requests -> Request])'
    BY <1>1 DEF CInv, TypeOK, Request, Plans, Idle
  <2>2. (entry \in [ContestIds -> [Users -> Entry \cup {NoEntry}]])'
    BY <1>4 DEF Entry, NoEntry
  <2>3. (changes \in [ContestIds -> [Users -> Change \cup {NoChange}]])'
    BY <1>4 DEF Change, NoChange
  <2>4. (\A c \in ContestIds, u \in Users \ accounts :
            entry[c][u] = NoEntry /\ changes[c][u] = NoChange)'
    <3>1. \A c \in ContestIds, u \in Users \ accounts' :
             entry'[c][u] = NoEntry /\ changes'[c][u] = NoChange
      BY <1>1, <1>3 DEF CInv, TypeOK
    <3>2. QED
      BY <3>1 DEF NoEntry, NoChange
  <2>5. (accounts \subseteq Users /\ status \in [ContestIds -> Statuses])'
    BY <1>1 DEF CInv, TypeOK, Statuses
  <2>6. (/\ over \in [ContestIds -> BOOLEAN] /\ clock \in Nat /\ events \in 0..MaxEvents
         /\ excused \subseteq ContestIds \X Users
         /\ rating \in [Users -> Ratings] /\ maxRating \in [Users -> Ratings])'
    BY <1>1, ContestsAssumption DEF CInv, TypeOK, DeleteUser, CountEvent
  <2>7. QED
    BY <2>1, <2>2, <2>3, <2>4, <2>5, <2>6 DEF TypeOK
<1>8. TimesFit'
  BY <1>1, <1>3 DEF CInv, TimesFit, NoChange
<1>9. \A u : RowsOf(u) \subseteq ContestIds
  BY DEF RowsOf
<1>10. RatingIsLastChange'
  BY <1>1, <1>5, <1>6, <1>9 DEF CInv, RatingIsLastChange
<1>11. RatingsChain'
  <2> SUFFICES ASSUME NEW u \in accounts', NEW c \in RowsOf(u)', NEW d \in RowsOf(u)',
                      changes'[c][u].done <= changes'[d][u].read,
                      \A e \in RowsOf(u)' : changes'[e][u].done <= changes'[c][u].done
                                            \/ changes'[e][u].done >= changes'[d][u].done
               PROVE  changes'[d][u].before = changes'[c][u].after
    BY DEF RatingsChain
  <2>1. /\ changes'[c][u] = changes[c][u] /\ changes'[d][u] = changes[d][u]
        /\ c \in RowsOf(u) /\ d \in RowsOf(u)
        /\ \A e \in RowsOf(u) : changes'[e][u] = changes[e][u] /\ e \in RowsOf(u)'
    BY <1>6, <1>9
  <2>2. QED
    BY <1>5, <2>1 DEF CInv, RatingsChain
<1>12. MaxCoversWhatWasSeen'
  BY <1>1, <1>5, <1>6, <1>9 DEF CInv, MaxCoversWhatWasSeen
<1>13. ASSUME NEW u \in accounts', NEW p, NEW t, PlanFits(u, p, t) PROVE PlanFits(u, p, t)'
  <2>1. SeenAt(u, t)' = SeenAt(u, t) /\ \A c \in SeenAt(u, t) : c \in ContestIds
    BY <1>6, <1>9 DEF SeenAt
  <2>2. \A c \in SeenAt(u, t) : changes'[c][u] = changes[c][u]
    BY <1>6, <2>1
  <2>3. \A d \in SeenAt(u, t) : NotMissedUpTo(u, d, t)' = NotMissedUpTo(u, d, t)
    BY <2>1, <2>2 DEF NotMissedUpTo
  <2>4. QED
    BY <1>13, <2>1, <2>2, <2>3 DEF PlanFits
<1>14. PlansFit'
  <2> SUFFICES ASSUME NEW s \in Requests, (req[s].pc \in {"begin", "commit"})'
               PROVE  (/\ req[s].read <= clock
                       /\ req[s].pc = "commit" => req[s].at <= clock
                       /\ \A u \in DOMAIN req[s].plan \cap accounts :
                             PlanFits(u, req[s].plan[u], req[s].read))'
    BY DEF PlansFit
  <2>1. /\ req[s].read <= clock
        /\ req[s].pc = "commit" => req[s].at <= clock
        /\ \A u \in DOMAIN req[s].plan \cap accounts' : PlanFits(u, req[s].plan[u], req[s].read)
    BY <1>1, <1>5 DEF CInv, PlansFit
  <2>2. QED
    BY <1>1, <1>13, <2>1
<1>15. RanksAgree'
  <2>1. \A c \in ContestIds, u \in Users : entry'[c][u] # NoEntry /\ entry'[c][u].rank # NoRank =>
            entry'[c][u].rank = changes'[c][u].rank
    BY <1>3 DEF CInv, RanksAgree, Entrants
  <2>2. QED
    BY <2>1 DEF RanksAgree, Entrants, NoEntry, NoRank
<1>16. FillsAgree'
  <2> SUFFICES ASSUME NEW s \in Requests, req[s].pc = "fill"
               PROVE  /\ req[s].todo \subseteq DOMAIN req[s].plan
                      /\ \A u \in req[s].todo \cap accounts' :
                            changes'[req[s].contest][u] # NoChange
                            /\ changes'[req[s].contest][u].rank = req[s].plan[u].rank
    BY <1>1 DEF FillsAgree, NoChange
  <2>1. req[s].contest \in ContestIds
    BY FillShape DEF CInv, TypeOK
  <2>2. QED
    BY <1>5, <1>6, <2>1 DEF CInv, FillsAgree
<1>17. QED
  BY <1>7, <1>8, <1>10, <1>11, <1>12, <1>14, <1>15, <1>16 DEF CInv

(* The transaction. *)
LEMMA FinaliseCommitSound ==
    ASSUME CInv, NEW r \in Requests, FinaliseCommit(r)
    PROVE  CInv'
<1> DEFINE c == req[r].contest  plan == req[r].plan  P == DOMAIN plan
<1>1. CASE ~Committable(c, plan)
  <2>1. /\ UNCHANGED <<accounts, entry, rating, maxRating, changes, clock>>
        /\ req' = [req EXCEPT ![r] = Idle]
        /\ status' \in [ContestIds -> Statuses] /\ over' \in [ContestIds -> BOOLEAN]
        /\ events' \in 0..MaxEvents /\ excused' \subseteq ContestIds \X Users
    BY <1>1 DEF CInv, TypeOK, FinaliseCommit, Done, Goto
  <2>2. Idle \in Request /\ Idle.pc = "idle"
    BY DEF Request, Idle
  <2>3. QED
    BY <2>1, <2>2, NothingWritten
<1>2. CASE Committable(c, plan)
  <2> DEFINE next == [pc |-> "fill", contest |-> c, plan |-> plan, todo |-> P]
             written(u) == [before |-> plan[u].before, after |-> plan[u].after, rank |-> plan[u].rank,
                        at |-> req[r].at, read |-> req[r].read, done |-> clock + 1]
  <2>1. /\ req' = [req EXCEPT ![r] = next] /\ clock' = clock + 1
        /\ rating' = [u \in Users |-> IF u \in P THEN plan[u].after ELSE rating[u]]
        /\ maxRating' = [u \in Users |-> IF u \in P THEN plan[u].max ELSE maxRating[u]]
        /\ changes' = [changes EXCEPT ![c] = [u \in Users |-> IF u \in P THEN written(u)
                                                              ELSE changes[c][u]]]
        /\ status' = [status EXCEPT ![c] = "ended"]
        /\ UNCHANGED <<accounts, over, entry, events, excused>>
    BY <1>2 DEF FinaliseCommit, Goto
  <2>2. /\ c \in ContestIds /\ req[r].read \in Nat /\ req[r].at \in Nat /\ plan \in Plans /\ P \subseteq Users
        /\ \A u \in P : plan[u] \in PlanRow
    BY CommitShape DEF CInv, TypeOK, FinaliseCommit
  <2>3. /\ P \subseteq accounts
        /\ \A u \in P : u \in Users /\ changes[c][u] = NoChange
    BY <1>2, <2>2 DEF Committable, Rated
  <2>4. /\ req[r].read <= clock /\ req[r].at <= clock /\ clock \in Nat
        /\ \A u \in P : PlanFits(u, plan[u], req[r].read)
    BY <2>3 DEF CInv, PlansFit, TypeOK, FinaliseCommit
  <2> DEFINE read == req[r].read  began == req[r].at
  <2>5. /\ read \in Nat /\ read <= clock /\ clock \in Nat
        /\ began \in Nat /\ began <= clock
        /\ \A u \in P : PlanFits(u, plan[u], read)
        /\ next.pc = "fill" /\ next.contest = c /\ next.plan = plan /\ next.todo = P
        /\ \A u : /\ written(u).before = plan[u].before /\ written(u).after = plan[u].after
                  /\ written(u).rank = plan[u].rank /\ written(u).done = clock + 1
                  /\ written(u).read = read /\ written(u).at = began
    BY <2>2, <2>4
  <2>6. /\ next \in Request
        /\ \A s \in Requests : (req'[s] = req[s] /\ s # r) \/ req'[s] = next
    BY <2>1, <2>2 DEF Request, CInv, TypeOK
  <2>7. ASSUME NEW u \in P PROVE written(u) \in Change /\ written(u) # NoChange
    <3>1. plan[u].before \in Ratings /\ plan[u].after \in Ratings /\ plan[u].rank \in 1..Cardinality(Users)
      BY <2>2 DEF PlanRow
    <3>2. clock + 1 \in Nat \ {0}
      BY <2>5
    <3>3. QED
      BY <2>5, <3>1, <3>2 DEF Change, NoChange
  <2> HIDE DEF next, written, read, began, c, plan
  <2>8. \A d \in ContestIds, u \in Users :
           changes'[d][u] = IF d = c /\ u \in P THEN written(u) ELSE changes[d][u]
    BY <2>1, <2>2 DEF CInv, TypeOK
  <2>9. changes' \in [ContestIds -> [Users -> Change \cup {NoChange}]]
    BY <2>1, <2>2, <2>7 DEF CInv, TypeOK
  <2>10. TypeOK'
    <3>1. req' \in [Requests -> Request]
      BY <2>1, <2>6 DEF CInv, TypeOK
    <3>2. (req \in [Requests -> Request])'
      BY <3>1 DEF Request, Plans, Idle
    <3>3. (entry \in [ContestIds -> [Users -> Entry \cup {NoEntry}]])'
      BY <2>1 DEF CInv, TypeOK, Entry, NoEntry
    <3>4. (changes \in [ContestIds -> [Users -> Change \cup {NoChange}]])'
      BY <2>9 DEF Change, NoChange
    <3>5. (\A d \in ContestIds, u \in Users \ accounts :
              entry[d][u] = NoEntry /\ changes[d][u] = NoChange)'
      <4>1. \A d \in ContestIds, u \in Users \ accounts :
               entry[d][u] = NoEntry /\ changes'[d][u] = NoChange
        BY <2>3, <2>8 DEF CInv, TypeOK
      <4>2. QED
        BY <2>1, <4>1 DEF NoEntry, NoChange
    <3>6. (accounts \subseteq Users /\ status \in [ContestIds -> Statuses])'
      BY <2>1 DEF CInv, TypeOK, Statuses
    <3>7. (/\ over \in [ContestIds -> BOOLEAN] /\ clock \in Nat /\ events \in 0..MaxEvents
           /\ excused \subseteq ContestIds \X Users)'
      BY <2>1 DEF CInv, TypeOK
    <3>8. (rating \in [Users -> Ratings] /\ maxRating \in [Users -> Ratings])'
      <4>1. \A u \in P : plan[u].after \in Ratings /\ plan[u].max \in Ratings
        BY <2>2 DEF PlanRow
      <4>2. QED
        BY <2>1, <4>1 DEF CInv, TypeOK
    <3>9. QED
      BY <3>2, <3>3, <3>4, <3>5, <3>6, <3>7, <3>8 DEF TypeOK
  <2>11. \A d \in ContestIds, u \in Users :
            /\ changes[d][u].done \in Nat /\ changes[d][u].read \in Nat
            /\ changes[d][u].at \in Nat /\ changes[d][u].after \in Int
            /\ changes[d][u] # NoChange => changes[d][u].done <= clock
                                           /\ changes[d][u].read < changes[d][u].done
                                           /\ changes[d][u].at < changes[d][u].done
    BY RowType DEF CInv, TimesFit
  <2>12. TimesFit'
    <3> SUFFICES ASSUME NEW d \in ContestIds, NEW u \in Users, changes'[d][u] # NoChange
                 PROVE  /\ changes'[d][u].read < changes'[d][u].done
                        /\ changes'[d][u].at < changes'[d][u].done
                        /\ changes'[d][u].done <= clock'
                        /\ \A e \in ContestIds \ {d} : changes'[e][u].done # changes'[d][u].done
      BY DEF TimesFit, NoChange
    <3>1. CASE d = c /\ u \in P
      <4>1. /\ changes'[d][u].read = read /\ changes'[d][u].done = clock + 1
            /\ changes'[d][u].at = began
        BY <2>5, <2>8, <3>1
      <4>2. \A e \in ContestIds \ {d} : changes'[e][u] = changes[e][u] /\ changes[e][u].done <= clock
        BY <2>5, <2>8, <2>11, <3>1 DEF NoChange
      <4>3. QED
        BY <2>1, <2>5, <4>1, <4>2, <2>11
    <3>2. CASE ~(d = c /\ u \in P)
      <4>1. changes'[d][u] = changes[d][u] /\ changes[d][u] # NoChange
        BY <2>8, <3>2
      <4>2. /\ changes[d][u].read < changes[d][u].done /\ changes[d][u].done <= clock
            /\ changes[d][u].at < changes[d][u].done
        BY <2>11, <4>1
      <4>3. \A e \in ContestIds \ {d} : changes'[e][u].done # changes[d][u].done
        <5> SUFFICES ASSUME NEW e \in ContestIds \ {d} PROVE changes'[e][u].done # changes[d][u].done
          OBVIOUS
        <5>1. CASE e = c /\ u \in P
          BY <2>5, <2>8, <2>11, <4>2, <5>1
        <5>2. CASE ~(e = c /\ u \in P)
          BY <2>8, <4>1, <5>2 DEF CInv, TimesFit
        <5>3. QED
          BY <5>1, <5>2
      <4>4. QED
        BY <2>1, <2>5, <2>11, <4>1, <4>2, <4>3
    <3>3. QED
      BY <3>1, <3>2
  <2>13. \A u \in Users \ P : RowsOf(u)' = RowsOf(u) /\ \A d \in RowsOf(u) : changes'[d][u] = changes[d][u]
    BY <2>8 DEF RowsOf, NoChange
  <2>14. \A u \in P : /\ RowsOf(u)' = RowsOf(u) \cup {c} /\ c \notin RowsOf(u)
                      /\ changes'[c][u] = written(u)
                      /\ \A d \in RowsOf(u) : changes'[d][u] = changes[d][u]
    BY <2>2, <2>3, <2>7, <2>8 DEF RowsOf, NoChange
  <2>15. \A u \in Users : \A d \in RowsOf(u) : /\ changes[d][u].done \in Nat /\ changes[d][u].read \in Nat
                                          /\ changes[d][u].done <= clock
                                          /\ changes[d][u].read < changes[d][u].done
                                          /\ changes[d][u].after \in Int
    BY <2>11 DEF RowsOf
  <2>16. accounts' = accounts /\ accounts \subseteq Users /\ P \subseteq Users
    BY <2>1, <2>2 DEF CInv, TypeOK
  <2>17. RatingIsLastChange'
    <3> SUFFICES ASSUME NEW u \in accounts, NEW last \in RowsOf(u)',
                        \A d \in RowsOf(u)' : changes'[d][u].done <= changes'[last][u].done
                 PROVE  rating'[u] = changes'[last][u].after
      BY <2>16 DEF RatingIsLastChange
    <3>1. CASE u \in P
      <4>1. /\ RowsOf(u)' = RowsOf(u) \cup {c} /\ changes'[c][u].done = clock + 1
            /\ changes'[c][u].after = plan[u].after /\ rating'[u] = plan[u].after
        BY <2>1, <2>5, <2>14, <2>16, <3>1, ZenonT(30)
      <4>2. \A d \in RowsOf(u) : changes'[d][u].done <= clock /\ changes'[d][u].done \in Nat
        BY <2>14, <2>15, <2>16, <3>1
      <4>3. last = c
        BY <2>5, <4>1, <4>2
      <4>4. QED
        BY <4>1, <4>3
    <3>2. CASE u \notin P
      <4>1. RowsOf(u)' = RowsOf(u) /\ \A d \in RowsOf(u) : changes'[d][u] = changes[d][u]
        BY <2>13, <2>16, <3>2
      <4>2. rating'[u] = rating[u]
        BY <2>1, <2>16, <3>2
      <4>3. QED
        BY <4>1, <4>2 DEF CInv, RatingIsLastChange
    <3>3. QED
      BY <3>1, <3>2
  <2>18. RatingsChain'
    <3> SUFFICES ASSUME NEW u \in accounts, NEW a \in RowsOf(u)', NEW b \in RowsOf(u)',
                        changes'[a][u].done <= changes'[b][u].read,
                        \A e \in RowsOf(u)' : changes'[e][u].done <= changes'[a][u].done
                                              \/ changes'[e][u].done >= changes'[b][u].done
                 PROVE  changes'[b][u].before = changes'[a][u].after
      BY <2>16 DEF RatingsChain
    <3>1. CASE u \notin P
      <4>1. RowsOf(u)' = RowsOf(u) /\ \A d \in RowsOf(u) : changes'[d][u] = changes[d][u]
        BY <2>13, <2>16, <3>1
      <4>2. QED
        BY <4>1 DEF CInv, RatingsChain
    <3>2. CASE u \in P /\ b = c
      <4>1. /\ changes'[b][u].before = plan[u].before /\ changes'[b][u].done = clock + 1
            /\ changes'[b][u].read = read
        BY <2>5, <2>14, <3>2
      <4>2. a # c
        BY <2>5, <4>1, <3>2
      <4>3. /\ a \in RowsOf(u) /\ changes'[a][u] = changes[a][u]
            /\ \A e \in RowsOf(u) : e \in RowsOf(u)' /\ changes'[e][u] = changes[e][u]
        BY <2>14, <3>2, <4>2
      <4>4. a \in SeenAt(u, read)
        BY <4>1, <4>3 DEF SeenAt
      <4>5. \A e \in RowsOf(u) : changes[e][u].done <= changes[a][u].done
        <5> SUFFICES ASSUME NEW e \in RowsOf(u) PROVE changes[e][u].done <= changes[a][u].done
          OBVIOUS
        <5>1. changes[e][u].done <= clock /\ changes[e][u].done \in Nat
          BY <2>15, <2>16
        <5>2. changes[e][u].done <= changes[a][u].done \/ changes[e][u].done >= clock + 1
          BY <4>1, <4>3
        <5>3. QED
          BY <2>5, <5>1, <5>2
      <4>6. \A e \in SeenAt(u, read) : changes[e][u].done <= changes[a][u].done
        BY <4>5 DEF SeenAt
      <4>7. plan[u].before = changes[a][u].after
        BY <2>5, <3>2, <4>4, <4>6 DEF PlanFits
      <4>8. QED
        BY <4>1, <4>3, <4>7
    <3>3. CASE u \in P /\ b # c
      <4>1. b \in RowsOf(u) /\ changes'[b][u] = changes[b][u]
        BY <2>14, <3>3
      <4>2. changes[b][u].done <= clock /\ changes[b][u].read < changes[b][u].done
            /\ changes[b][u].done \in Nat /\ changes[b][u].read \in Nat
        BY <2>15, <2>16, <4>1
      <4>3. a # c
        <5>1. changes'[c][u].done = clock + 1
          BY <2>5, <2>14, <3>3
        <5>2. QED
          BY <2>5, <4>1, <4>2, <5>1
      <4>4. /\ a \in RowsOf(u) /\ changes'[a][u] = changes[a][u]
            /\ \A e \in RowsOf(u) : e \in RowsOf(u)' /\ changes'[e][u] = changes[e][u]
        BY <2>14, <3>3, <4>3
      <4>5. QED
        BY <4>1, <4>4 DEF CInv, RatingsChain
    <3>4. QED
      BY <3>1, <3>2, <3>3
  <2>19. MaxCoversWhatWasSeen'
    <3> SUFFICES ASSUME NEW u \in accounts, NEW d \in RowsOf(u)',
                        \A e \in RowsOf(u)' : changes'[e][u].done > changes'[d][u].done
                                              => changes'[e][u].read >= changes'[d][u].done
                 PROVE  maxRating'[u] >= changes'[d][u].after
      BY <2>16 DEF MaxCoversWhatWasSeen
    <3>1. CASE u \notin P
      <4>1. RowsOf(u)' = RowsOf(u) /\ \A e \in RowsOf(u) : changes'[e][u] = changes[e][u]
        BY <2>13, <2>16, <3>1
      <4>2. maxRating'[u] = maxRating[u]
        BY <2>1, <2>16, <3>1
      <4>3. QED
        BY <4>1, <4>2 DEF CInv, MaxCoversWhatWasSeen
    <3>2. CASE u \in P /\ d = c
      <4>1. changes'[d][u].after = plan[u].after /\ maxRating'[u] = plan[u].max
        <5>1. maxRating'[u] = plan[u].max
          BY <2>1, <2>16, <3>2
        <5>2. QED
          BY <2>5, <2>14, <3>2, <5>1
      <4>2. QED
        BY <2>5, <3>2, <4>1 DEF PlanFits
    <3>3. CASE u \in P /\ d # c
      <4>1. /\ d \in RowsOf(u) /\ maxRating'[u] = plan[u].max
            /\ \A e \in RowsOf(u) : e \in RowsOf(u)' /\ changes'[e][u] = changes[e][u]
            /\ c \in RowsOf(u)' /\ changes'[c][u].done = clock + 1 /\ changes'[c][u].read = read
            /\ changes'[d][u] = changes[d][u] /\ changes'[d][u].done = changes[d][u].done
        <5>1. maxRating'[u] = plan[u].max
          BY <2>1, <2>16, <3>3
        <5>2. changes'[c][u].done = clock + 1 /\ changes'[c][u].read = read
          BY <2>5, <2>14, <3>3
        <5>3. QED
          BY <2>14, <3>3, <5>1, <5>2
      <4>2. changes[d][u].done <= clock /\ changes[d][u].done \in Nat
        BY <2>15, <2>16, <4>1
      <4>3. clock + 1 > changes[d][u].done
        BY <2>5, <4>2
      <4>4. read >= changes[d][u].done
        <5>1. changes'[c][u].done > changes'[d][u].done => changes'[c][u].read >= changes'[d][u].done
          BY <4>1
        <5>2. QED
          BY <4>1, <4>3, <5>1
      <4>5. d \in SeenAt(u, read)
        BY <2>5, <4>1, <4>2, <4>4 DEF SeenAt
      <4>6. NotMissedUpTo(u, d, read)
        BY <4>1 DEF NotMissedUpTo, SeenAt
      <4>7. QED
        BY <2>5, <3>3, <4>1, <4>5, <4>6 DEF PlanFits
    <3>4. QED
      BY <3>1, <3>2, <3>3
  <2>20. ASSUME NEW u \in accounts, NEW p, NEW t, t \in Nat, t <= clock, PlanFits(u, p, t)
         PROVE  PlanFits(u, p, t)'
    <3>1. SeenAt(u, t)' = SeenAt(u, t)
      <4>1. CASE u \in P
        <5>1. ~(changes'[c][u].done <= t)
          BY <2>5, <2>14, <2>20, <4>1
        <5>2. QED
          BY <2>14, <4>1, <5>1 DEF SeenAt
      <4>2. CASE u \notin P
        BY <2>13, <2>16, <4>2 DEF SeenAt
      <4>3. QED
        BY <4>1, <4>2
    <3>2. \A d \in SeenAt(u, t) : changes'[d][u] = changes[d][u]
      <4>1. SeenAt(u, t) \subseteq RowsOf(u) /\ u \in Users
        BY <2>16 DEF SeenAt
      <4>2. QED
        BY <2>13, <2>14, <4>1
    <3>3. \A d \in SeenAt(u, t) : NotMissedUpTo(u, d, t)' = NotMissedUpTo(u, d, t)
      BY <3>1, <3>2 DEF NotMissedUpTo
    <3>4. QED
      BY <2>20, <3>1, <3>2, <3>3 DEF PlanFits
  <2>21. PlansFit'
    <3> SUFFICES ASSUME NEW s \in Requests, (req[s].pc \in {"begin", "commit"})'
                 PROVE  (/\ req[s].read <= clock
                         /\ req[s].pc = "commit" => req[s].at <= clock
                         /\ \A u \in DOMAIN req[s].plan \cap accounts :
                               PlanFits(u, req[s].plan[u], req[s].read))'
      BY DEF PlansFit
    <3>1. req'[s] = req[s] /\ req[s].pc \in {"begin", "commit"}
      BY <2>5, <2>6
    <3>2. /\ req[s].read <= clock /\ req[s].read \in Nat
          /\ req[s].pc = "commit" => req[s].at <= clock /\ req[s].at \in Nat
          /\ \A u \in DOMAIN req[s].plan \cap accounts : PlanFits(u, req[s].plan[u], req[s].read)
      BY <3>1, CommitShape DEF CInv, PlansFit, TypeOK
    <3>3. req'[s].read <= clock' /\ (req'[s].pc = "commit" => req'[s].at <= clock')
      BY <2>1, <2>5, <3>1, <3>2
    <3>4. QED
      BY <2>16, <2>20, <3>1, <3>2, <3>3
  <2>22. RanksAgree'
    <3>1. ASSUME NEW d \in ContestIds, NEW u \in Users, entry[d][u] # NoEntry, entry[d][u].rank # NoRank
          PROVE  entry[d][u].rank = changes'[d][u].rank
      <4>1. entry[d][u].rank = changes[d][u].rank
        BY <3>1 DEF CInv, RanksAgree, Entrants
      <4>2. ~(d = c /\ u \in P)
        BY <2>3, <3>1, <4>1 DEF NoChange, NoRank
      <4>3. QED
        BY <2>8, <4>1, <4>2
    <3>2. QED
      BY <2>1, <3>1 DEF RanksAgree, Entrants, NoEntry, NoRank
  <2>23. FillsAgree'
    <3> SUFFICES ASSUME NEW s \in Requests, req'[s].pc = "fill"
                 PROVE  /\ req'[s].todo \subseteq DOMAIN req'[s].plan
                        /\ \A u \in req'[s].todo \cap accounts :
                              changes'[req'[s].contest][u] # NoChange
                              /\ changes'[req'[s].contest][u].rank = req'[s].plan[u].rank
      BY <2>16 DEF FillsAgree, NoChange
    <3>1. CASE req'[s] = next
      BY <2>2, <2>5, <2>7, <2>14, <3>1
    <3>2. CASE req'[s] = req[s]
      <4>1. req[s].contest \in ContestIds
        BY <3>2, FillShape DEF CInv, TypeOK
      <4>2. /\ req[s].todo \subseteq DOMAIN req[s].plan
            /\ \A u \in req[s].todo \cap accounts :
                  changes[req[s].contest][u] # NoChange
                  /\ changes[req[s].contest][u].rank = req[s].plan[u].rank
        BY <3>2 DEF CInv, FillsAgree
      <4>3. \A u \in req[s].todo \cap accounts : changes'[req[s].contest][u] = changes[req[s].contest][u]
        BY <2>3, <2>8, <2>16, <4>1, <4>2
      <4>4. QED
        BY <3>2, <4>2, <4>3
    <3>3. QED
      BY <2>6, <3>1, <3>2
  <2>24. QED
    BY <2>10, <2>12, <2>17, <2>18, <2>19, <2>21, <2>22, <2>23 DEF CInv
<1>3. QED
  BY <1>1, <1>2

LEMMA ContestStepSound == CInv /\ [Next]_vars => CInv'
<1> SUFFICES ASSUME CInv, [Next]_vars PROVE CInv'
  OBVIOUS
<1>1. CASE UNCHANGED vars
  <2>1. /\ UNCHANGED <<accounts, entry, rating, maxRating, changes, clock>> /\ req' = req
        /\ status' \in [ContestIds -> Statuses] /\ over' \in [ContestIds -> BOOLEAN]
        /\ events' \in 0..MaxEvents /\ excused' \subseteq ContestIds \X Users
    BY <1>1 DEF vars, CInv, TypeOK
  <2>2. Idle \in Request /\ Idle.pc = "idle"
    BY DEF Request, Idle
  <2>3. QED
    BY <2>1, <2>2, NothingWritten
<1>2. ASSUME NEW r \in Requests, NEW c \in ContestIds, FinaliseCheck(r, c) PROVE CInv'
  BY <1>2, FinaliseCheckSound
<1>3. ASSUME NEW r \in Requests, NEW c \in ContestIds, NEW u \in Users,
             JoinCheck(r, c, u) \/ LeaveCheck(r, c, u)
      PROVE  CInv'
  BY <1>3, AskingSound
<1>4. ASSUME NEW r \in Requests,
             \/ JoinCreate(r) \/ LeaveDelete(r) \/ FinaliseCount(r) \/ FinaliseRead(r)
             \/ FinaliseBegin(r) \/ FinaliseCommit(r) \/ FinaliseFill(r) \/ Fail(r)
      PROVE  CInv'
  BY <1>4, JoinCreateSound, LeaveDeleteSound, FinaliseCountSound, FinaliseReadSound,
     FinaliseBeginSound, FinaliseCommitSound, FinaliseFillSound, FailSound
<1>5. ASSUME NEW c \in ContestIds, EndTimePasses(c) \/ \E s \in Statuses : SetStatus(c, s)
      PROVE  CInv'
  BY <1>5, OverrideSound
<1>6. ASSUME NEW u \in Users, DeleteUser(u) PROVE CInv'
  BY <1>6, DeleteUserSound
<1>7. QED
  BY <1>1, <1>2, <1>3, <1>4, <1>5, <1>6 DEF Next

-----------------------------------------------------------------------------
(* The ranks of the entries. *)

LEMMA RatedHaveAccounts ==
    ASSUME TypeOK, NEW c \in ContestIds, NEW u \in Users, changes[c][u] # NoChange
    PROVE  u \in accounts
BY DEF TypeOK

LEMMA FillsGoOn ==
    ASSUME CInv, RanksFilled, changes' = changes, entry' = entry, excused' = excused,
           NEW r \in Requests, NEW q, req' = [req EXCEPT ![r] = q], req[r].pc # "fill"
    PROVE  RanksFilled'
<1>1. \A s \in Requests : req[s].pc = "fill" => req'[s] = req[s]
  BY DEF CInv, TypeOK
<1>2. ASSUME NEW c \in ContestIds, NEW u \in Users, RankAwaited(c, u) PROVE RankAwaited(c, u)'
  BY <1>1, <1>2 DEF RankAwaited, Filling
<1>3. QED
  BY <1>2 DEF RanksFilled, Unranked, NoEntry, NoRank, NoChange

LEMMA EntriesMoveSound ==
    ASSUME CInv, RanksFilled, NEW r \in Requests, JoinCreate(r) \/ LeaveDelete(r)
    PROVE  RanksFilled'
<1> DEFINE c == req[r].contest  u == req[r].user
<1>1. c \in ContestIds /\ u \in Users /\ req[r].pc \in {"join", "leave"}
  BY WriteShape DEF CInv, TypeOK, JoinCreate, LeaveDelete
<1>2. /\ changes' = changes /\ excused \subseteq excused'
      /\ \A s \in Requests : req[s].pc = "fill" => req'[s] = req[s]
  BY <1>1 DEF CInv, TypeOK, JoinCreate, LeaveDelete, Done, Goto, Excusing
<1>3. \A d \in ContestIds, v \in Users : entry'[d][v] = entry[d][v] \/ (d = c /\ v = u)
  BY <1>1 DEF CInv, TypeOK, JoinCreate, LeaveDelete
<1>4. entry'[c][u] = entry[c][u] \/ entry[c][u] = NoEntry
      \/ (changes[c][u] # NoChange => <<c, u>> \in excused')
  <2>1. CASE JoinCreate(r)
    BY <1>1, <2>1 DEF JoinCreate
  <2>2. CASE LeaveDelete(r)
    BY <1>1, <2>2, RatedHaveAccounts DEF CInv, LeaveDelete, Excusing, Rated
  <2>3. QED
    BY <2>1, <2>2
<1> HIDE DEF c, u
<1>5. ASSUME NEW d \in ContestIds, NEW v \in Users, RankAwaited(d, v) PROVE RankAwaited(d, v)'
  BY <1>2, <1>5 DEF RankAwaited, Filling
<1>6. ASSUME NEW d \in ContestIds, NEW v \in Users, changes'[d][v] # NoChange,
             entry'[d][v].rank \in {NoEntry.rank, NoRank}
      PROVE  RankAwaited(d, v)'
  <2>1. CASE entry[d][v].rank \in {NoEntry.rank, NoRank}
    BY <1>2, <1>5, <1>6, <2>1 DEF RanksFilled, Unranked
  <2>2. CASE entry[d][v].rank \notin {NoEntry.rank, NoRank}
    BY <1>2, <1>3, <1>4, <1>6, <2>2 DEF RankAwaited
  <2>3. QED
    BY <2>1, <2>2
<1>7. QED
  BY <1>6 DEF RanksFilled, Unranked, NoEntry, NoRank, NoChange

LEMMA FailExcuses ==
    ASSUME CInv, RanksFilled, NEW r \in Requests, Fail(r)
    PROVE  RanksFilled'
<1>1. /\ UNCHANGED <<changes, entry>> /\ excused \subseteq excused'
      /\ \A s \in Requests : req'[s] = req[s] \/ s = r
  BY DEF CInv, TypeOK, Fail, Done, Goto, Excusing
<1>2. ASSUME NEW c \in ContestIds, NEW u \in Users, changes[c][u] # NoChange, Filling(r, c, u)
      PROVE  <<c, u>> \in excused'
  BY <1>2, RatedHaveAccounts DEF CInv, Fail, Filling, Excusing
<1>3. ASSUME NEW c \in ContestIds, NEW u \in Users, changes[c][u] # NoChange, RankAwaited(c, u)
      PROVE  RankAwaited(c, u)'
  <2>1. CASE <<c, u>> \in excused \/ Filling(r, c, u)
    BY <1>1, <1>2, <1>3, <2>1 DEF RankAwaited
  <2>2. CASE \E s \in Requests \ {r} : Filling(s, c, u)
    BY <1>1, <2>2 DEF RankAwaited, Filling
  <2>3. QED
    BY <1>3, <2>1, <2>2 DEF RankAwaited
<1>4. QED
  BY <1>1, <1>3 DEF RanksFilled, Unranked, NoEntry, NoRank, NoChange

LEMMA FillRanks ==
    ASSUME CInv, RanksFilled, NEW r \in Requests, FinaliseFill(r)
    PROVE  RanksFilled'
<1>0. PICK c, plan, todo : c = req[r].contest /\ plan = req[r].plan /\ todo = req[r].todo
  OBVIOUS
<1>1. PICK u \in todo :
        /\ entry' = IF entry[c][u] = NoEntry THEN entry
                    ELSE [entry EXCEPT ![c][u].rank = plan[u].rank]
        /\ excused' = IF entry[c][u] = NoEntry THEN Excusing(c, {u}) ELSE excused
        /\ IF todo = {u} THEN Done(r) ELSE Goto(r, [req[r] EXCEPT !.todo = @ \ {u}])
  BY <1>0 DEF FinaliseFill
<1>2. /\ req[r] = [pc |-> "fill", contest |-> c, plan |-> plan, todo |-> todo]
      /\ c \in ContestIds /\ plan \in Plans /\ todo \in SUBSET Users
      /\ \A v \in DOMAIN plan : plan[v] \in PlanRow
  BY <1>0, FillShape DEF CInv, TypeOK, FinaliseFill
<1>3. changes' = changes /\ excused \subseteq excused' /\ u \in Users /\ u \in DOMAIN plan
  BY <1>0, <1>1, <1>2 DEF FinaliseFill, Excusing, CInv, FillsAgree
<1>4. plan[u].rank \in 1..Cardinality(Users) /\ plan[u].rank \notin {NoEntry.rank, NoRank}
  <2>1. plan[u].rank \in 1..Cardinality(Users)
    BY <1>2, <1>3 DEF PlanRow
  <2>2. QED
    BY <2>1, ContestsAssumption, FS_CardinalityType DEF NoEntry, NoRank
<1>5. \A d \in ContestIds, v \in Users : (d # c \/ v # u) => entry'[d][v] = entry[d][v]
  BY <1>1, <1>2, <1>3 DEF CInv, TypeOK
<1>6. entry'[c][u].rank \in {NoEntry.rank, NoRank} => entry[c][u] = NoEntry
  <2>1. ASSUME entry[c][u] # NoEntry PROVE entry'[c][u].rank = plan[u].rank
    <3>1. entry[c][u] \in Entry
      BY <1>2, <1>3, <2>1 DEF CInv, TypeOK
    <3>2. entry'[c][u] = [entry[c][u] EXCEPT !.rank = plan[u].rank]
      BY <1>1, <1>2, <1>3, <2>1 DEF CInv, TypeOK
    <3>3. QED
      BY <3>1, <3>2 DEF Entry
  <2>2. QED
    BY <1>4, <2>1
<1>7. ASSUME NEW v \in todo \ {u} PROVE Filling(r, c, v)'
  <2>1. todo # {u}
    OBVIOUS
  <2>2. req'[r] = [req[r] EXCEPT !.todo = @ \ {u}]
    BY <1>1, <2>1 DEF CInv, TypeOK, Goto
  <2>3. req'[r].pc = "fill" /\ req'[r].contest = c /\ req'[r].todo = todo \ {u}
    BY <1>2, <2>2
  <2>4. QED
    BY <2>3 DEF Filling
<1>8. \A s \in Requests \ {r} : req'[s] = req[s]
  BY <1>1 DEF CInv, TypeOK, Done, Goto
<1>9. ASSUME NEW d \in ContestIds, NEW v \in Users, d # c \/ v # u, RankAwaited(d, v)
      PROVE  RankAwaited(d, v)'
  <2>1. CASE <<d, v>> \in excused
    BY <1>3, <2>1 DEF RankAwaited
  <2>2. CASE \E s \in Requests \ {r} : Filling(s, d, v)
    BY <1>8, <2>2 DEF RankAwaited, Filling
  <2>3. CASE Filling(r, d, v)
    <3>1. d = c /\ v \in todo \ {u}
      BY <1>0, <1>9, <2>3 DEF Filling
    <3>2. QED
      BY <1>7, <3>1 DEF RankAwaited
  <2>4. QED
    BY <1>9, <2>1, <2>2, <2>3 DEF RankAwaited
<1>10. ASSUME changes[c][u] # NoChange, entry[c][u] = NoEntry PROVE <<c, u>> \in excused'
  BY <1>1, <1>2, <1>3, <1>10, RatedHaveAccounts DEF CInv, Excusing
<1>11. ASSUME NEW d \in ContestIds, NEW v \in Users, changes'[d][v] # NoChange,
              entry'[d][v].rank \in {NoEntry.rank, NoRank}
       PROVE  RankAwaited(d, v)'
  <2>1. CASE d = c /\ v = u
    BY <1>3, <1>6, <1>10, <1>11, <2>1 DEF RankAwaited
  <2>2. CASE d # c \/ v # u
    BY <1>3, <1>5, <1>9, <1>11, <2>2 DEF RanksFilled, Unranked
  <2>3. QED
    BY <2>1, <2>2
<1>12. QED
  BY <1>11 DEF RanksFilled, Unranked, NoEntry, NoRank, NoChange

LEMMA CommitAwaits ==
    ASSUME CInv, RanksFilled, NEW r \in Requests, FinaliseCommit(r)
    PROVE  RanksFilled'
<1>0. PICK c, plan, P : c = req[r].contest /\ plan = req[r].plan /\ P = DOMAIN plan
  OBVIOUS
<1>1. /\ c \in ContestIds /\ P \subseteq Users /\ req[r].pc = "commit"
      /\ entry' = entry /\ excused' = excused
  BY <1>0, CommitShape DEF CInv, TypeOK, FinaliseCommit
<1>2. CASE ~Committable(c, plan)
  <2>1. changes' = changes /\ req' = [req EXCEPT ![r] = Idle]
    BY <1>0, <1>2 DEF FinaliseCommit, Done, Goto
  <2>2. QED
    BY <1>1, <2>1, FillsGoOn
<1>3. CASE Committable(c, plan)
  <2>1. /\ req' = [req EXCEPT ![r] = [pc |-> "fill", contest |-> c, plan |-> plan, todo |-> P]]
        /\ \A d \in ContestIds, u \in Users : (d # c \/ u \notin P) => changes'[d][u] = changes[d][u]
    BY <1>0, <1>1, <1>3 DEF FinaliseCommit, Goto, CInv, TypeOK
  <2>2. \A s \in Requests : req[s].pc = "fill" => req'[s] = req[s]
    BY <1>1, <2>1 DEF CInv, TypeOK
  <2>3. \A u \in P : Filling(r, c, u)'
    BY <2>1 DEF Filling, CInv, TypeOK
  <2>4. ASSUME NEW d \in ContestIds, NEW u \in Users, changes'[d][u] # NoChange,
               entry[d][u].rank \in {NoEntry.rank, NoRank}
        PROVE  RankAwaited(d, u)'
    <3>1. CASE d = c /\ u \in P
      BY <2>3, <3>1 DEF RankAwaited
    <3>2. CASE d # c \/ u \notin P
      <4>1. RankAwaited(d, u)
        BY <2>1, <2>4, <3>2 DEF RanksFilled, Unranked
      <4>2. QED
        BY <1>1, <2>2, <4>1 DEF RankAwaited, Filling
    <3>3. QED
      BY <3>1, <3>2
  <2>5. QED
    BY <1>1, <2>4 DEF RanksFilled, Unranked, NoEntry, NoRank, NoChange
<1>4. QED
  BY <1>2, <1>3

LEMMA DeleteKeepsRanks ==
    ASSUME CInv, RanksFilled, NEW w \in Users, DeleteUser(w)
    PROVE  RanksFilled'
<1>1. /\ req' = req /\ excused' = {p \in excused : p[2] # w}
      /\ \A c \in ContestIds, u \in Users :
            /\ changes'[c][u] = IF u = w THEN NoChange ELSE changes[c][u]
            /\ u # w => entry'[c][u] = entry[c][u]
  BY DEF DeleteUser, CInv, TypeOK
<1>2. ASSUME NEW c \in ContestIds, NEW u \in Users, u # w, RankAwaited(c, u) PROVE RankAwaited(c, u)'
  BY <1>1, <1>2 DEF RankAwaited, Filling
<1>3. ASSUME NEW c \in ContestIds, NEW u \in Users, changes'[c][u] # NoChange,
             entry'[c][u].rank \in {NoEntry.rank, NoRank}
      PROVE  RankAwaited(c, u)'
  BY <1>1, <1>2, <1>3 DEF RanksFilled, Unranked
<1>4. QED
  BY <1>3 DEF RanksFilled, Unranked, NoEntry, NoRank, NoChange

LEMMA RanksStayFilled == CInv /\ RanksFilled /\ [Next]_vars => RanksFilled'
<1> SUFFICES ASSUME CInv, RanksFilled, [Next]_vars PROVE RanksFilled'
  OBVIOUS
<1>1. CASE UNCHANGED vars
  BY <1>1 DEF vars, RanksFilled, RankAwaited, Filling, Unranked, NoEntry, NoRank, NoChange
<1>2. ASSUME NEW r \in Requests, NEW c \in ContestIds, NEW u \in Users,
             JoinCheck(r, c, u) \/ LeaveCheck(r, c, u)
      PROVE  RanksFilled'
  <2>1. PICK q : req' = [req EXCEPT ![r] = q]
    BY <1>2 DEF JoinCheck, LeaveCheck, Goto
  <2>2. req[r].pc # "fill" /\ changes' = changes /\ entry' = entry /\ excused' = excused
    BY <1>2 DEF JoinCheck, LeaveCheck, Idle
  <2>3. QED
    BY <2>1, <2>2, FillsGoOn
<1>3. ASSUME NEW r \in Requests, JoinCreate(r) \/ LeaveDelete(r) PROVE RanksFilled'
  BY <1>3, EntriesMoveSound
<1>4. ASSUME NEW r \in Requests, FinaliseCommit(r) \/ FinaliseFill(r) \/ Fail(r) PROVE RanksFilled'
  BY <1>4, CommitAwaits, FillRanks, FailExcuses
<1>5. ASSUME NEW c \in ContestIds, EndTimePasses(c) \/ \E s \in Statuses : SetStatus(c, s)
      PROVE  RanksFilled'
  BY <1>5 DEF EndTimePasses, SetStatus, RanksFilled, RankAwaited, Filling, Unranked, NoEntry, NoRank,
     NoChange
<1>6. ASSUME NEW u \in Users, DeleteUser(u) PROVE RanksFilled'
  BY <1>6, DeleteKeepsRanks
<1>7. ASSUME NEW r \in Requests, NEW c \in ContestIds, FinaliseCheck(r, c) PROVE RanksFilled'
  <2>1. req[r].pc # "fill" /\ changes' = changes /\ entry' = entry /\ excused' = excused
        /\ req' = [req EXCEPT ![r] = [pc |-> "count", contest |-> c]]
    BY <1>7 DEF FinaliseCheck, Idle, Goto
  <2>2. QED
    BY <2>1, FillsGoOn
<1>8. ASSUME NEW r \in Requests, FinaliseCount(r) \/ FinaliseRead(r) \/ FinaliseBegin(r)
      PROVE  RanksFilled'
  <2>1. PICK q : req' = [req EXCEPT ![r] = q]
    BY <1>8 DEF FinaliseCount, FinaliseRead, FinaliseBegin, Done, Goto
  <2>2. req[r].pc # "fill" /\ changes' = changes /\ entry' = entry /\ excused' = excused
    BY <1>8 DEF FinaliseCount, FinaliseRead, FinaliseBegin
  <2>3. QED
    BY <2>1, <2>2, FillsGoOn
<1>9. QED
  BY <1>1, <1>2, <1>3, <1>4, <1>5, <1>6, <1>7, <1>8 DEF Next

\* Ratings and ranks are sound in every state, for any number of users, contests and
\* requests in flight: a rating is that of the change committed last, and of the one created last
\* unless their transactions overlapped; changes that did not
\* overlap continue each other, the maximum covers what was seen, and an entry shows the
\* competition rank that was rated, or none before the backfill, after one that was cut short,
\* or after leaving.
THEOREM ContestsStaySound == Spec => []ContestsAreSound
<1>1. ASSUME CInv, RanksFilled PROVE ContestsAreSound
  <2>1. RanksAreCompetitionRanks
    <3> SUFFICES ASSUME NEW n \in 0..4, NEW scores \in [1..n -> 0..2],
                        \A i, j \in 1..n : i < j => scores[i] >= scores[j]
                 PROVE  \A i \in 1..n : Ranks(scores)[i] =
                                          1 + Cardinality({j \in 1..n : scores[j] > scores[i]})
      BY DEF RanksAreCompetitionRanks
    <3>1. n \in Nat /\ scores \in [1..n -> Int]
      OBVIOUS
    <3>2. QED
      BY <3>1, RanksCountTheBetter
  <2>2. ASSUME NEW u \in accounts, NEW c \in RowsOf(u),
               \A d \in RowsOf(u) \ {c} : changes[d][u].done <= changes[c][u].at
        PROVE  rating[u] = changes[c][u].after
    <3>1. u \in Users /\ RowsOf(u) \subseteq ContestIds
      BY <1>1 DEF CInv, TypeOK, RowsOf
    <3>2. \A d \in RowsOf(u) : changes[d][u].done \in Nat /\ changes[d][u].at \in Nat
      BY <1>1, <3>1, RowType DEF CInv
    <3>3. changes[c][u].at < changes[c][u].done
      BY <1>1, <3>1 DEF CInv, TimesFit, RowsOf
    <3>4. \A d \in RowsOf(u) : changes[d][u].done <= changes[c][u].done
      BY <2>2, <3>2, <3>3
    <3>5. QED
      BY <1>1, <2>2, <3>1, <3>4 DEF CInv, RatingIsLastChange
  <2>3. ChartEndsAtRating
    BY <2>2 DEF ChartEndsAtRating
  <2>4. RanksAreFilled
    BY <1>1 DEF RanksFilled, RanksAreFilled, RankAwaited, Filling, Unranked, Entrants, Rated
  <2>5. QED
    BY <1>1, <2>1, <2>3, <2>4 DEF CInv, ContestsAreSound, RatingsAreSound, RanksAreRight
<1>2. Init => RanksFilled
  BY DEF Init, RanksFilled
<1>3. QED
  BY <1>1, <1>2, InitSound, ContestStepSound, RanksStayFilled, PTL DEF Spec

\* A rating change is written once and never rewritten: of requests that both found the
\* contest unrated, the second is refused, for every user of both.
THEOREM ContestsAreRatedOnce == Spec => RatedOnce
<1> DEFINE Kept == \A c \in ContestIds, u \in Users :
                      changes[c][u] # NoChange /\ u \in accounts' => changes'[c][u] = changes[c][u]
<1>1. ASSUME CInv, Next PROVE Kept \/ UNCHANGED changes
  <2>1. ASSUME NEW u \in Users, DeleteUser(u) PROVE Kept
    <3>1. changes \in [ContestIds -> [Users -> Change \cup {NoChange}]]
      BY <1>1 DEF CInv, TypeOK
    <3>2. QED
      BY <2>1, <3>1 DEF DeleteUser
  <2>2. ASSUME NEW r \in Requests, FinaliseCommit(r) PROVE Kept \/ UNCHANGED changes
    <3>1. CASE UNCHANGED changes
      BY <3>1
    <3>2. ASSUME NEW new, Committable(req[r].contest, req[r].plan),
                 changes' = [changes EXCEPT ![req[r].contest] =
                     [u \in Users |-> IF u \in DOMAIN req[r].plan THEN new[u]
                                      ELSE changes[req[r].contest][u]]]
          PROVE  Kept \/ UNCHANGED changes
      <4>1. \A u \in DOMAIN req[r].plan : u \in Users => changes[req[r].contest][u] = NoChange
        BY <3>2 DEF Committable, Rated
      <4>2. QED
        BY <1>1, <3>2, <4>1 DEF CInv, TypeOK
    <3> DEFINE plan == req[r].plan
               new == [u \in DOMAIN plan |->
                         [before |-> plan[u].before, after |-> plan[u].after, rank |-> plan[u].rank,
                          at |-> req[r].at, read |-> req[r].read, done |-> clock + 1]]
    <3>3. CASE /\ Committable(req[r].contest, plan)
               /\ changes' = [changes EXCEPT ![req[r].contest] =
                     [u \in Users |->
                       IF u \in DOMAIN plan
                       THEN [before |-> plan[u].before, after |-> plan[u].after,
                             rank |-> plan[u].rank, at |-> req[r].at, read |-> req[r].read,
                             done |-> clock + 1]
                       ELSE changes[req[r].contest][u]]]
      <4>1. changes' = [changes EXCEPT ![req[r].contest] =
                          [u \in Users |-> IF u \in DOMAIN plan THEN new[u]
                                           ELSE changes[req[r].contest][u]]]
        BY <3>3
      <4> HIDE DEF new
      <4>2. QED
        BY <3>2, <3>3, <4>1
    <3>4. QED
      BY <2>2, <3>1, <3>3 DEF FinaliseCommit
  <2>3. QED
    BY <1>1, <2>1, <2>2 DEF Next, FinaliseCheck, JoinCheck, LeaveCheck, JoinCreate, LeaveDelete,
       FinaliseCount, FinaliseRead, FinaliseBegin, FinaliseFill, Fail, EndTimePasses, SetStatus
<1>2. CInv /\ [Next]_vars => [Kept]_vars
  BY <1>1 DEF vars
<1>3. QED
  BY <1>2, InitSound, ContestStepSound, PTL DEF Spec, RatedOnce

-----------------------------------------------------------------------------
(***************************************************************************)
(* What an accepted submission earns (SolveEffects), for any users,        *)
(* requests, problems, days and catalogue.                                 *)
(*                                                                         *)
(* Nothing that was solved is unsolved, so a fact about the submissions    *)
(* that was true when a request read them is true when it writes.  The     *)
(* inductive invariant says this of everything a request carries: the      *)
(* streak it read was made of solves then, the day it counts was solved,   *)
(* and what the criteria found to be earned was deserved.  A request that  *)
(* has still to increment a completion count is not among the solves the   *)
(* count is compared with.                                                 *)
(***************************************************************************)

\* A set has one size, whichever module counts it.
LEMMA SolveSameSize == \A S : Solving!Cardinality(S) = Cardinality(S)
BY DEF Solving!Cardinality, Cardinality

LEMMA SolvesAreFinite == Solving!SolveConstants => IsFiniteSet(Users) /\ IsFiniteSet(Requests)
<1>1. \A S : Solving!IsFiniteSet(S) = IsFiniteSet(S)
  BY DEF Solving!IsFiniteSet, IsFiniteSet
<1>2. QED
  BY <1>1, Zenon DEF Solving!SolveConstants

SolvePCs == {"idle", "daily", "streak", "upsert", "count", "stats", "list", "award", "done"}
StreakRow == [current : Nat, longest : Nat, last : Days \cup {0}]
Verdict == [earned : BOOLEAN, progress : Nat]
Results == {<<>>} \cup [Solving!Badges -> Verdict]
Handling ==
    [pc : SolvePCs, day : Days \cup {0}, prev : StreakRow, results : Results,
     have : SUBSET Solving!Badges, next : Nat, announced : SUBSET Solving!Badges]
SolveRow ==
    [status : {"accepted", "wrong_answer", "runtime_error"}, problem : Problems,
     language : Languages, runtime : Runtimes, created : Days]
BadgeRow == [state : {"none", "progress", "earned"}, progress : Nat]

SolveTypes ==
    /\ today \in Days
    /\ row \in [Requests -> {Solving!NoRow} \cup SolveRow]
    /\ streak \in [Users -> StreakRow]
    /\ completions \in [Days -> Nat]
    /\ badge \in [Users \X Solving!Badges -> BadgeRow]
    /\ handling \in [Requests -> Handling]

\* The user solved the challenges of the n days that end with d.
SolvedRun(u, n, d) == \A k \in (d - n + 1)..d : k \in Days /\ Solving!SolvedDaily(u, k)

\* A streak that is made of solves.
StreakSound(u, s) ==
    /\ s.last <= today
    /\ s.last = 0 => s.current = 0 /\ s.longest = 0
    /\ s.last # 0 => SolvedRun(u, s.current, s.last)
    /\ s.current <= s.longest
    /\ s.longest > 0 => \E d \in Days : d <= today /\ SolvedRun(u, s.longest, d)

StreaksSound == \A u \in Users : StreakSound(u, streak[u])

\* The submission of r solves the challenge of day d.
Solves(r, d) == row[r].status = "accepted" /\ row[r].problem = Challenge[d] /\ row[r].created <= d

\* What the submission of r has, and what the request carries as h.
RowFits(r, h) ==
    /\ h.pc = "idle" <=> row[r] = Solving!NoRow
    /\ row[r] # Solving!NoRow => row[r].created <= today
    /\ h.pc \in {"daily", "streak", "upsert", "count"} => row[r].status = "accepted"
    /\ h.pc \in {"streak", "upsert", "count"} => h.day \in Days /\ h.day <= today /\ Solves(r, h.day)
    /\ h.pc = "upsert" => StreakSound(UserOf[r], h.prev)
RowsFit == \A r \in Requests : RowFits(r, handling[r])

\* The solves whose increment is over, or will not come.
Uncounted == {"idle", "daily", "streak", "upsert", "count"}
Counted(d) == {r \in Requests : Solves(r, d) /\ handling[r].pc \notin Uncounted}
CountsSound == \A d \in Days : completions[d] <= Cardinality(Counted(d))

\* What has been found to be earned was deserved then, and is still.
ResultsFit(r, h) ==
    /\ h.pc \in {"list", "award"} =>
          /\ h.results \in [Solving!Badges -> Verdict]
          /\ \A b \in Solving!Badges : h.results[b].earned => Solving!Deserved(UserOf[r], Catalog[b])
    /\ \A b \in h.announced : Solving!Deserved(UserOf[r], Catalog[b])
ResultsHold == \A r \in Requests : ResultsFit(r, handling[r])
BadgesSound ==
    \A u \in Users, b \in Solving!Badges : badge[u, b].state = "earned" => Solving!Deserved(u, Catalog[b])

\* The inductive invariant of the solves.
VInv == SolveTypes /\ StreaksSound /\ RowsFit /\ CountsSound /\ ResultsHold /\ BadgesSound

-----------------------------------------------------------------------------
LEMMA FreshTyped ==
    ASSUME Solving!SolveConstants, NEW p \in SolvePCs
    PROVE  [Solving!Fresh EXCEPT !.pc = p] \in Handling /\ [Solving!Fresh EXCEPT !.pc = p].announced = {}
           /\ [Solving!Fresh EXCEPT !.pc = p].pc = p
<1>1. Solving!Unsolved \in StreakRow
  BY DEF Solving!Unsolved, StreakRow
<1> DEFINE nothing == <<>>
<1>2. nothing \in Results
  BY DEF Results
<1>3. Solving!Fresh = [pc |-> "idle", day |-> 0, prev |-> Solving!Unsolved, results |-> nothing,
              have |-> {}, next |-> 0, announced |-> {}]
  BY DEF Solving!Fresh
<1> HIDE DEF nothing
<1>4. Solving!Fresh \in Handling /\ Solving!Fresh.announced = {}
  BY <1>1, <1>2, <1>3 DEF Handling, SolvePCs
<1>5. QED
  BY <1>4 DEF Handling

LEMMA SolvesInit == Solving!SolveConstants /\ Solving!Init => VInv
<1> SUFFICES ASSUME Solving!SolveConstants, Solving!Init PROVE VInv
  OBVIOUS
<1>1. Solving!Unsolved \in StreakRow /\ Solving!NoBadge \in BadgeRow /\ Solving!NoBadge.state # "earned"
  BY DEF Solving!Unsolved, StreakRow, Solving!NoBadge, BadgeRow
<1>2. Solving!Fresh \in Handling /\ Solving!Fresh.pc = "idle" /\ Solving!Fresh.announced = {}
  <2>1. Solving!Fresh.pc = "idle" /\ Solving!Fresh.announced = {} /\ Solving!Fresh.day = 0
        /\ Solving!Fresh.prev = Solving!Unsolved
        /\ Solving!Fresh.have = {} /\ Solving!Fresh.next = 0
    BY DEF Solving!Fresh
  <2>2. Solving!Fresh.results \in Results
    BY DEF Solving!Fresh, Results
  <2>3. Solving!Fresh = [pc |-> Solving!Fresh.pc, day |-> Solving!Fresh.day, prev |-> Solving!Fresh.prev,
                results |-> Solving!Fresh.results,
                have |-> Solving!Fresh.have, next |-> Solving!Fresh.next, announced |-> Solving!Fresh.announced]
    BY DEF Solving!Fresh
  <2>4. QED
    BY <1>1, <2>1, <2>2, <2>3 DEF Handling, SolvePCs
<1>3. SolveTypes
  BY <1>1, <1>2 DEF Solving!Init, SolveTypes, Solving!SolveConstants
<1>4. StreaksSound
  BY <1>3 DEF Solving!Init, StreaksSound, StreakSound, Solving!Unsolved, Solving!SolveConstants
<1>5. RowsFit
  BY <1>2 DEF Solving!Init, RowsFit, RowFits
<1>6. CountsSound
  <2>1. \A d \in Days : Counted(d) = {}
    BY <1>2 DEF Solving!Init, Counted, Uncounted
  <2>2. \A d \in Days : completions[d] = 0
    BY DEF Solving!Init
  <2>3. Cardinality({}) = 0
    BY FS_EmptySet
  <2>4. QED
    BY <2>1, <2>2, <2>3, SolveSameSize DEF CountsSound
<1>7. ResultsHold
  <2>1. \A r \in Requests : handling[r].pc \notin {"list", "award"} /\ handling[r].announced = {}
    BY <1>2 DEF Solving!Init
  <2>2. QED
    BY <2>1, Zenon DEF ResultsHold, ResultsFit
<1>8. BadgesSound
  <2>1. \A u \in Users, b \in Solving!Badges : badge[u, b].state # "earned"
    BY <1>1 DEF Solving!Init
  <2>2. QED
    BY <2>1 DEF BadgesSound
<1>9. QED
  BY <1>3, <1>4, <1>5, <1>6, <1>7, <1>8 DEF VInv

-----------------------------------------------------------------------------
(* Nothing that was solved is unsolved. *)

\* No row of an accepted submission changes.
Kept == \A r \in Requests : row[r].status = "accepted" => row'[r] = row[r]

LEMMA AcceptedGrows ==
    ASSUME Solving!SolveConstants, Kept, NEW u
    PROVE  /\ Solving!Accepted(u) \subseteq Solving!Accepted(u)'
           /\ Solving!Solved(u) \subseteq Solving!Solved(u)'
           /\ IsFiniteSet(Solving!Accepted(u)) /\ IsFiniteSet(Solving!Solved(u))
           /\ IsFiniteSet(Solving!Accepted(u)') /\ IsFiniteSet(Solving!Solved(u)')
<1>1. Solving!Accepted(u) \subseteq Solving!Accepted(u)' /\ \A r \in Solving!Accepted(u) : row'[r] = row[r]
  BY DEF Solving!Accepted, Kept
<1>2. Solving!Solved(u) \subseteq Solving!Solved(u)'
  BY <1>1 DEF Solving!Solved
<1>3. IsFiniteSet(Solving!Accepted(u)) /\ IsFiniteSet(Solving!Accepted(u)')
  BY SolvesAreFinite, FS_Subset DEF Solving!Accepted
<1>4. IsFiniteSet(Solving!Solved(u))
  <2> DEFINE f == [r \in Solving!Accepted(u) |-> row[r].problem]
  <2>1. f \in Surjection(Solving!Accepted(u), Solving!Solved(u))
    BY DEF Surjection, Solving!Solved
  <2>2. QED
    BY <1>3, <2>1, FS_Surjection
<1>5. IsFiniteSet(Solving!Solved(u)')
  <2> DEFINE f == [r \in Solving!Accepted(u)' |-> row'[r].problem]
  <2>1. f \in Surjection(Solving!Accepted(u)', Solving!Solved(u)')
    BY DEF Surjection, Solving!Solved
  <2>2. QED
    BY <1>3, <2>1, FS_Surjection
<1>6. QED
  BY <1>1, <1>2, <1>3, <1>4, <1>5

LEMMA DaysAreNat == Solving!SolveConstants => Days \subseteq Nat
BY DEF Solving!SolveConstants

LEMMA DailyGrows ==
    ASSUME Solving!SolveConstants, Kept, NEW u, NEW d, Solving!SolvedDaily(u, d)
    PROVE  Solving!SolvedDaily(u, d)'
BY DEF Solving!SolvedDaily, Solving!Accepted, Kept

LEMMA RunGrows ==
    ASSUME Solving!SolveConstants, Kept, NEW u, NEW n, NEW d, SolvedRun(u, n, d)
    PROVE  SolvedRun(u, n, d)'
BY DailyGrows DEF SolvedRun

LEMMA StreakSoundGrows ==
    ASSUME Solving!SolveConstants, Kept, today \in Days, today' \in Days, today <= today', NEW u,
           NEW s \in StreakRow, StreakSound(u, s)
    PROVE  StreakSound(u, s)'
<1>1. ASSUME NEW n, NEW d, SolvedRun(u, n, d) PROVE SolvedRun(u, n, d)'
  BY <1>1, RunGrows, Zenon
<1>2. s.last <= today'
  <2>1. s.last \in Nat /\ today \in Nat /\ today' \in Nat /\ s.last <= today
    BY DaysAreNat DEF StreakSound, StreakRow
  <2>2. QED
    BY <2>1
<1>3. s.last = 0 => s.current = 0 /\ s.longest = 0
  BY DEF StreakSound
<1>4. s.last # 0 => SolvedRun(u, s.current, s.last)'
  BY <1>1 DEF StreakSound
<1>5. ASSUME s.longest > 0 PROVE \E d \in Days : d <= today' /\ SolvedRun(u, s.longest, d)'
  <2>1. PICK d \in Days : d <= today /\ SolvedRun(u, s.longest, d)
    BY <1>5 DEF StreakSound
  <2>2. d <= today'
    BY <2>1, DaysAreNat
  <2>3. QED
    BY <1>1, <2>1, <2>2
<1>6. s.current <= s.longest
  BY DEF StreakSound
<1>7. QED
  BY <1>2, <1>3, <1>4, <1>5, <1>6 DEF StreakSound

LEMMA DeservedGrows ==
    ASSUME Solving!SolveConstants, Kept, NEW u, NEW b \in Solving!Badges, Solving!Deserved(u, Catalog[b])
    PROVE  Solving!Deserved(u, Catalog[b])'
<1> DEFINE c == Catalog[b]
<1>1. CASE c.type = "firstSolution"
  BY <1>1, AcceptedGrows DEF Solving!Deserved
<1>2. CASE c.type = "problemsSolved"
  <2>1. /\ Solving!Solved(u) \subseteq Solving!Solved(u)' /\ IsFiniteSet(Solving!Solved(u)')
    BY AcceptedGrows
  <2>2. /\ Cardinality(Solving!Solved(u)) \in Nat /\ Cardinality(Solving!Solved(u)') \in Nat
        /\ Cardinality(Solving!Solved(u)) <= Cardinality(Solving!Solved(u)')
    BY <2>1, FS_Subset, FS_CardinalityType
  <2>3. c.threshold \in Nat
    BY <1>2 DEF Solving!SolveConstants
  <2>4. Cardinality(Solving!Solved(u)) >= c.threshold
    BY <1>2, SolveSameSize DEF Solving!Deserved
  <2>5. Cardinality(Solving!Solved(u)') >= c.threshold
    BY <2>2, <2>3, <2>4
  <2>6. QED
    BY <1>2, <2>5, SolveSameSize DEF Solving!Deserved
<1>3. CASE c.type \in {"currentStreak", "longestStreak"}
  <2>1. PICK d \in Days : \A k \in (d - c.threshold + 1)..d : k \in Days /\ Solving!SolvedDaily(u, k)
    BY <1>3 DEF Solving!Deserved
  <2>2. \A k \in (d - c.threshold + 1)..d : k \in Days /\ Solving!SolvedDaily(u, k)'
    BY <2>1, DailyGrows
  <2>3. QED
    BY <1>3, <2>2 DEF Solving!Deserved
<1>4. CASE c.type \notin {"firstSolution", "problemsSolved", "currentStreak", "longestStreak"}
  BY <1>4 DEF Solving!Deserved
<1>5. QED
  BY <1>1, <1>2, <1>3, <1>4

-----------------------------------------------------------------------------
(* Steps. *)

\* What holds of a request goes on holding while nothing is unsolved and its row stays.
LEMMA FitsGrow ==
    ASSUME Solving!SolveConstants, SolveTypes, Kept, today' \in Days, today <= today',
           NEW q \in Requests, row'[q] = row[q], NEW h \in Handling, RowFits(q, h), ResultsFit(q, h)
    PROVE  RowFits(q, h)' /\ ResultsFit(q, h)'
<1>1. today \in Days
  BY DEF SolveTypes
<1>2. today \in Nat /\ today' \in Nat
  BY <1>1, DaysAreNat
<1>3. RowFits(q, h)'
  <2>1. ASSUME h.pc = "upsert" PROVE StreakSound(UserOf[q], h.prev)'
    <3>1. PICK s \in StreakRow : s = h.prev
      BY DEF Handling
    <3>2. StreakSound(UserOf[q], s)
      BY <2>1, <3>1 DEF RowFits
    <3>3. StreakSound(UserOf[q], s)'
      BY <1>1, <3>2, StreakSoundGrows
    <3>4. QED
      BY <3>1, <3>3
  <2>2. h.pc = "idle" <=> row'[q] = Solving!NoRow
    BY DEF RowFits
  <2>3. row'[q] # Solving!NoRow => row'[q].created <= today'
    <3>1. row[q] = Solving!NoRow \/ row[q] \in SolveRow
      BY DEF SolveTypes
    <3>2. ASSUME row[q] # Solving!NoRow PROVE row[q].created <= today'
      <4>1. row[q].created \in Days /\ row[q].created <= today
        BY <3>1, <3>2 DEF RowFits, SolveRow
      <4>2. row[q].created \in Nat
        BY <4>1, DaysAreNat
      <4>3. QED
        BY <1>2, <4>1, <4>2
    <3>3. QED
      BY <3>2
  <2>4. h.pc \in {"daily", "streak", "upsert", "count"} => row'[q].status = "accepted"
    BY DEF RowFits
  <2>5. ASSUME h.pc \in {"streak", "upsert", "count"}
        PROVE  h.day \in Days /\ h.day <= today' /\ Solves(q, h.day)'
    <3>1. h.day \in Days /\ h.day <= today /\ Solves(q, h.day)
      BY <2>5 DEF RowFits
    <3>2. h.day \in Nat
      BY <3>1, DaysAreNat
    <3>3. h.day <= today'
      BY <1>2, <3>1, <3>2
    <3>4. Solves(q, h.day)'
      BY <3>1 DEF Solves
    <3>5. QED
      BY <3>1, <3>3, <3>4
  <2>6. QED
    BY <2>1, <2>2, <2>3, <2>4, <2>5, Zenon DEF RowFits
<1>4. ResultsFit(q, h)'
  <2>1. ASSUME h.pc \in {"list", "award"}
        PROVE  /\ h.results \in [Solving!Badges -> Verdict]
               /\ \A b \in Solving!Badges : h.results[b].earned => Solving!Deserved(UserOf[q], Catalog[b])'
    <3>1. /\ h.results \in [Solving!Badges -> Verdict]
          /\ \A b \in Solving!Badges : h.results[b].earned => Solving!Deserved(UserOf[q], Catalog[b])
      BY <2>1, Zenon DEF ResultsFit
    <3>2. QED
      BY <3>1, DeservedGrows, Zenon
  <2>2. \A b \in h.announced : Solving!Deserved(UserOf[q], Catalog[b])'
    <3>1. h.announced \subseteq Solving!Badges
      BY DEF Handling
    <3>2. \A b \in h.announced : Solving!Deserved(UserOf[q], Catalog[b])
      BY Zenon DEF ResultsFit
    <3>3. QED
      BY <3>1, <3>2, DeservedGrows, Zenon
  <2>3. QED
    BY <2>1, <2>2, Zenon DEF ResultsFit
<1>5. QED
  BY <1>3, <1>4

LEMMA StreaksStay ==
    ASSUME Solving!SolveConstants, VInv, Kept, today' \in Days, today <= today', streak' = streak
    PROVE  StreaksSound'
<1> SUFFICES ASSUME NEW u \in Users PROVE StreakSound(u, streak[u])'
  BY DEF StreaksSound
<1>1. PICK s \in StreakRow : s = streak[u]
  BY DEF VInv, SolveTypes
<1>2. StreakSound(u, s) /\ today \in Days
  BY <1>1 DEF VInv, StreaksSound, SolveTypes
<1>3. StreakSound(u, s)'
  BY <1>2, StreakSoundGrows
<1>4. QED
  BY <1>1, <1>3

LEMMA BadgesStay ==
    ASSUME Solving!SolveConstants, VInv, Kept, badge' = badge
    PROVE  BadgesSound'
BY DeservedGrows, Zenon DEF VInv, BadgesSound

LEMMA CountedFinite ==
    ASSUME Solving!SolveConstants, NEW d
    PROVE  /\ IsFiniteSet(Counted(d)) /\ Cardinality(Counted(d)) \in Nat
           /\ IsFiniteSet(Counted(d)') /\ Cardinality(Counted(d)') \in Nat
<1>1. Counted(d) \subseteq Requests /\ Counted(d)' \subseteq Requests
  BY DEF Counted
<1>2. IsFiniteSet(Counted(d)) /\ IsFiniteSet(Counted(d)')
  BY <1>1, SolvesAreFinite, FS_Subset
<1>3. QED
  BY <1>2, FS_CardinalityType

LEMMA CountsStay ==
    ASSUME Solving!SolveConstants, VInv, Kept, completions' = completions,
           \A q \in Requests : handling[q].pc \notin Uncounted => handling'[q].pc \notin Uncounted
    PROVE  CountsSound'
<1> SUFFICES ASSUME NEW d \in Days PROVE completions[d] <= Cardinality(Counted(d)')
  BY SolveSameSize DEF CountsSound
<1>1. Counted(d) \subseteq Counted(d)'
  BY DEF Counted, Solves, Kept
<1>2. Cardinality(Counted(d)) <= Cardinality(Counted(d)')
  BY <1>1, CountedFinite, FS_Subset
<1>3. completions[d] \in Nat /\ completions[d] <= Cardinality(Counted(d))
  BY SolveSameSize DEF VInv, SolveTypes, CountsSound
<1>4. QED
  BY <1>2, <1>3, CountedFinite

\* A step of the request r that keeps what was solved.
LEMMA OneRequest ==
    ASSUME Solving!SolveConstants, VInv, SolveTypes', Kept, today' = today, NEW r \in Requests,
           \A q \in Requests \ {r} : handling'[q] = handling[q] /\ row'[q] = row[q],
           RowFits(r, handling[r])', ResultsFit(r, handling[r])', StreaksSound', CountsSound', BadgesSound'
    PROVE  VInv'
<1>1. ASSUME NEW q \in Requests, q # r PROVE RowFits(q, handling[q])' /\ ResultsFit(q, handling[q])'
  <2>1. PICK h \in Handling : h = handling[q]
    BY DEF VInv, SolveTypes
  <2>2. RowFits(q, h) /\ ResultsFit(q, h)
    BY <2>1 DEF VInv, RowsFit, ResultsHold
  <2>3. today \in Days /\ today \in Nat
    BY DaysAreNat DEF VInv, SolveTypes
  <2>4. RowFits(q, h)' /\ ResultsFit(q, h)'
    BY <1>1, <2>2, <2>3, FitsGrow DEF VInv
  <2>5. h = handling'[q]
    BY <1>1, <2>1
  <2>6. QED
    BY <2>4, <2>5
<1>2. RowsFit' /\ ResultsHold'
  BY <1>1 DEF RowsFit, ResultsHold
<1>3. QED
  BY <1>2 DEF VInv

\* A step that moves the request r on and writes no table.
LEMMA QuietStep ==
    ASSUME Solving!SolveConstants, VInv, NEW r \in Requests, NEW h \in Handling,
           UNCHANGED <<today, row, streak, completions, badge>>, handling' = [handling EXCEPT ![r] = h],
           handling[r].pc \notin Uncounted => h.pc \notin Uncounted,
           RowFits(r, h), ResultsFit(r, h)
    PROVE  VInv'
<1>1. SolveTypes /\ today \in Days /\ today \in Nat
  BY DaysAreNat DEF VInv, SolveTypes
<1>2. handling'[r] = h /\ \A q \in Requests \ {r} : handling'[q] = handling[q] /\ row'[q] = row[q]
  BY <1>1 DEF SolveTypes
<1>3. Kept
  BY DEF Kept
<1>4. SolveTypes'
  BY <1>1 DEF SolveTypes
<1>5. RowFits(r, h)' /\ ResultsFit(r, h)'
  BY <1>1, <1>3, FitsGrow
<1>6. RowFits(r, handling[r])' /\ ResultsFit(r, handling[r])'
  BY <1>2, <1>5
<1>7. StreaksSound' /\ BadgesSound'
  BY <1>1, <1>3, StreaksStay, BadgesStay
<1>8. \A q \in Requests : handling[q].pc \notin Uncounted => handling'[q].pc \notin Uncounted
  BY <1>2
<1>9. CountsSound'
  BY <1>3, <1>8, CountsStay
<1>10. QED
  BY <1>2, <1>3, <1>4, <1>6, <1>7, <1>9, OneRequest

-----------------------------------------------------------------------------
(* The steps of a request that write no table. *)

LEMMA Returns ==
    ASSUME Solving!SolveConstants, VInv, NEW r \in Requests, NEW p \in {"stats", "done"}, Solving!Return(r, p),
           UNCHANGED <<today, row, streak, completions, badge>>, handling[r].pc # "idle"
    PROVE  VInv'
<1>1. PICK h : h = [Solving!Fresh EXCEPT !.pc = p]
  OBVIOUS
<1>2. h \in Handling /\ h.announced = {} /\ h.pc = p
  BY <1>1, FreshTyped DEF SolvePCs
<1>3. handling' = [handling EXCEPT ![r] = h]
  BY <1>1 DEF Solving!Return
<1>4. RowFits(r, handling[r])
  BY DEF VInv, RowsFit
<1>5. RowFits(r, h)
  BY <1>2, <1>4 DEF RowFits
<1>6. ResultsFit(r, h)
  <2>1. h.pc \notin {"list", "award"}
    BY <1>2
  <2>2. QED
    BY <1>2, <2>1, Zenon DEF ResultsFit
<1>7. h.pc \notin Uncounted
  BY <1>2 DEF Uncounted
<1>8. QED
  BY <1>2, <1>3, <1>5, <1>6, <1>7, QuietStep

\* What a request carries, field by field.
LEMMA HandlingFields ==
    ASSUME NEW h \in Handling
    PROVE  /\ h.pc \in SolvePCs /\ h.day \in Days \cup {0} /\ h.prev \in StreakRow /\ h.results \in Results
           /\ h.have \subseteq Solving!Badges /\ h.next \in Nat /\ h.announced \subseteq Solving!Badges
BY DEF Handling

LEMMA DailyFailsStep ==
    ASSUME Solving!SolveConstants, VInv, NEW r \in Requests, Solving!DailyFails(r) PROVE VInv'
<1>1. handling[r].pc # "idle"
  BY DEF Solving!DailyFails
<1>2. Solving!Return(r, "stats") /\ UNCHANGED <<today, row, streak, completions, badge>>
  BY DEF Solving!DailyFails
<1>3. QED
  BY <1>1, <1>2, Returns

LEMMA EvaluationFailsStep ==
    ASSUME Solving!SolveConstants, VInv, NEW r \in Requests, Solving!EvaluationFails(r) PROVE VInv'
<1>1. handling[r].pc # "idle"
  BY DEF Solving!EvaluationFails
<1>2. Solving!Return(r, "done") /\ UNCHANGED <<today, row, streak, completions, badge>>
  BY DEF Solving!EvaluationFails
<1>3. QED
  BY <1>1, <1>2, Returns

LEMMA RespondStep ==
    ASSUME Solving!SolveConstants, VInv, NEW r \in Requests, Solving!Respond(r) PROVE VInv'
<1>1. handling[r].pc # "idle"
  BY DEF Solving!Respond, Solving!At
<1>2. Solving!Return(r, "done") /\ UNCHANGED <<today, row, streak, completions, badge>>
  BY DEF Solving!Respond
<1>3. QED
  BY <1>1, <1>2, Returns

LEMMA FindChallengeStep ==
    ASSUME Solving!SolveConstants, VInv, NEW r \in Requests, Solving!FindChallenge(r) PROVE VInv'
<1>1. handling[r].pc = "daily" /\ UNCHANGED <<today, row, streak, completions, badge>>
  BY DEF Solving!FindChallenge, Solving!At
<1>2. CASE Challenge[today] # row[r].problem
  <2>1. Solving!Return(r, "stats")
    BY <1>2 DEF Solving!FindChallenge
  <2>2. handling[r].pc # "idle"
    BY <1>1
  <2>3. QED
    BY <1>1, <2>1, <2>2, Returns
<1>3. CASE Challenge[today] = row[r].problem
  <2>1. PICK g \in Handling : g = handling[r]
    BY DEF VInv, SolveTypes
  <2>2. PICK h : h = [g EXCEPT !.pc = "streak", !.day = today]
    OBVIOUS
  <2>3. handling' = [handling EXCEPT ![r] = h]
    BY <1>3, <2>1, <2>2, Zenon DEF Solving!FindChallenge
  <2>4. today \in Days /\ today \in Nat /\ RowFits(r, g) /\ ResultsFit(r, g) /\ g.pc = "daily"
    BY <1>1, <2>1, DaysAreNat DEF VInv, SolveTypes, RowsFit, ResultsHold
  <2>5. h \in Handling /\ h.pc = "streak" /\ h.day = today /\ h.announced = g.announced
    BY <2>2, <2>4 DEF Handling, SolvePCs
  <2>6. row[r].status = "accepted" /\ row[r] # Solving!NoRow /\ row[r].created <= today
    BY <2>4 DEF RowFits
  <2>7. RowFits(r, h)
    BY <1>3, <2>4, <2>5, <2>6 DEF RowFits, Solves
  <2>8. ResultsFit(r, h)
    <3>1. h.pc \notin {"list", "award"}
      BY <2>5
    <3>2. QED
      BY <2>4, <2>5, <3>1, Zenon DEF ResultsFit
  <2>9. handling[r].pc \in Uncounted
    BY <1>1 DEF Uncounted
  <2>10. QED
    BY <1>1, <2>3, <2>5, <2>7, <2>8, <2>9, QuietStep
<1>4. QED
  BY <1>2, <1>3

LEMMA FindStreakStep ==
    ASSUME Solving!SolveConstants, VInv, NEW r \in Requests, Solving!FindStreak(r) PROVE VInv'
<1>1. handling[r].pc = "streak" /\ UNCHANGED <<today, row, streak, completions, badge>>
  BY DEF Solving!FindStreak, Solving!At
<1>2. PICK g \in Handling : g = handling[r]
  BY DEF VInv, SolveTypes
<1>3. PICK s : s = streak[UserOf[r]]
  OBVIOUS
<1>4. UserOf[r] \in Users
  BY DEF Solving!SolveConstants
<1>5. s \in StreakRow /\ StreakSound(UserOf[r], s)
  BY <1>3, <1>4 DEF VInv, SolveTypes, StreaksSound
<1>6. PICK h : h = [g EXCEPT !.pc = "upsert", !.prev = s]
  OBVIOUS
<1>7. handling' = [handling EXCEPT ![r] = h]
  BY <1>2, <1>3, <1>6, Zenon DEF Solving!FindStreak
<1>8. RowFits(r, g) /\ ResultsFit(r, g) /\ g.pc = "streak"
  BY <1>1, <1>2 DEF VInv, RowsFit, ResultsHold
<1>9. h \in Handling /\ h.pc = "upsert" /\ h.prev = s /\ h.day = g.day /\ h.announced = g.announced
  BY <1>5, <1>6 DEF Handling, SolvePCs
<1>10. RowFits(r, h)
  BY <1>5, <1>8, <1>9 DEF RowFits
<1>11. ResultsFit(r, h)
  <2>1. h.pc \notin {"list", "award"}
    BY <1>9
  <2>2. QED
    BY <1>8, <1>9, <2>1, Zenon DEF ResultsFit
<1>12. handling[r].pc \in Uncounted
  BY <1>1 DEF Uncounted
<1>13. QED
  BY <1>1, <1>7, <1>9, <1>10, <1>11, <1>12, QuietStep

LEMMA ListBadgesStep ==
    ASSUME Solving!SolveConstants, VInv, NEW r \in Requests, Solving!ListBadges(r) PROVE VInv'
<1>1. handling[r].pc = "list" /\ UNCHANGED <<today, row, streak, completions, badge>>
  BY DEF Solving!ListBadges, Solving!At
<1>2. PICK g \in Handling : g = handling[r]
  BY DEF VInv, SolveTypes
<1>3. PICK H \in SUBSET Solving!Badges : H = {b \in Solving!Badges : badge[UserOf[r], b] # Solving!NoBadge}
  OBVIOUS
<1>4. PICK h : h = [g EXCEPT !.pc = "award", !.next = 1, !.have = H]
  OBVIOUS
<1>5. handling' = [handling EXCEPT ![r] = h]
  BY <1>2, <1>3, <1>4, Zenon DEF Solving!ListBadges
<1>6. RowFits(r, g) /\ ResultsFit(r, g) /\ g.pc = "list"
  BY <1>1, <1>2 DEF VInv, RowsFit, ResultsHold
<1>7. h \in Handling /\ h.pc = "award" /\ h.results = g.results /\ h.announced = g.announced
  BY <1>4 DEF Handling, SolvePCs
<1>8. RowFits(r, h)
  BY <1>6, <1>7 DEF RowFits
<1>9. ResultsFit(r, h)
  <2>1. g.pc \in {"list", "award"}
    BY <1>6
  <2>2. QED
    BY <1>6, <1>7, <2>1, Zenon DEF ResultsFit
<1>10. h.pc \notin Uncounted
  BY <1>7 DEF Uncounted
<1>11. QED
  BY <1>1, <1>5, <1>7, <1>8, <1>9, <1>10, QuietStep

LEMMA ProgressFailsStep ==
    ASSUME Solving!SolveConstants, VInv, NEW r \in Requests, Solving!ProgressFails(r) PROVE VInv'
<1>1. handling[r].pc = "award" /\ UNCHANGED <<today, row, streak, completions, badge>>
  BY DEF Solving!ProgressFails, Solving!At
<1>2. PICK g \in Handling : g = handling[r]
  BY DEF VInv, SolveTypes
<1>3. PICK n : n = g.next + 1
  OBVIOUS
<1>4. PICK h : h = [g EXCEPT !.next = n]
  OBVIOUS
<1>5. handling' = [handling EXCEPT ![r] = h]
  BY <1>2, <1>3, <1>4, Zenon DEF Solving!ProgressFails
<1>6. RowFits(r, g) /\ ResultsFit(r, g) /\ g.pc = "award"
  BY <1>1, <1>2 DEF VInv, RowsFit, ResultsHold
<1>7. n \in Nat
  BY <1>3, HandlingFields
<1>8. h \in Handling /\ h.pc = "award" /\ h.results = g.results /\ h.announced = g.announced
  BY <1>4, <1>6, <1>7 DEF Handling
<1>9. RowFits(r, h)
  BY <1>6, <1>8 DEF RowFits
<1>10. ResultsFit(r, h)
  <2>1. g.pc \in {"list", "award"}
    BY <1>6
  <2>2. QED
    BY <1>6, <1>8, <2>1, Zenon DEF ResultsFit
<1>11. h.pc \notin Uncounted
  BY <1>8 DEF Uncounted
<1>12. QED
  BY <1>1, <1>5, <1>8, <1>9, <1>10, <1>11, QuietStep

-----------------------------------------------------------------------------
(* The steps that write a table. *)

LEMMA NextDayStep ==
    ASSUME Solving!SolveConstants, VInv, Solving!NextDay PROVE VInv'
<1>1. today' \in Days /\ today' = today + 1 /\ UNCHANGED <<row, streak, completions, badge, handling>>
  BY DEF Solving!NextDay
<1>2. today \in Days /\ today \in Nat /\ SolveTypes
  BY DaysAreNat DEF VInv, SolveTypes
<1>3. Kept /\ today <= today'
  BY <1>1, <1>2 DEF Kept
<1>4. SolveTypes'
  BY <1>1, <1>2 DEF SolveTypes
<1>5. StreaksSound' /\ BadgesSound'
  BY <1>1, <1>3, StreaksStay, BadgesStay
<1>6. CountsSound'
  BY <1>1, <1>3, CountsStay
<1>7. ASSUME NEW q \in Requests PROVE RowFits(q, handling[q])' /\ ResultsFit(q, handling[q])'
  <2>1. PICK h \in Handling : h = handling[q]
    BY <1>2 DEF SolveTypes
  <2>2. RowFits(q, h) /\ ResultsFit(q, h)
    BY <2>1 DEF VInv, RowsFit, ResultsHold
  <2>3. RowFits(q, h)' /\ ResultsFit(q, h)'
    BY <1>1, <1>2, <1>3, <2>2, FitsGrow
  <2>4. h = handling'[q]
    BY <1>1, <2>1
  <2>5. QED
    BY <2>3, <2>4
<1>8. QED
  BY <1>4, <1>5, <1>6, <1>7 DEF VInv, RowsFit, ResultsHold

\* The verdict of a submission: it has no row yet, so nothing that was solved changes.
LEMMA JudgeStep ==
    ASSUME Solving!SolveConstants, VInv, NEW r \in Requests, Solving!Judge(r) PROVE VInv'
<1>1. /\ handling[r].pc = "idle" /\ UNCHANGED <<today, streak, completions, badge>>
      /\ SolveTypes /\ today \in Days /\ today \in Nat
  BY DaysAreNat DEF Solving!Judge, Solving!At, VInv, SolveTypes
<1>2. PICK l \in Languages, t \in Runtimes, verdict \in {"accepted", "wrong_answer", "runtime_error"} :
        /\ row' = [row EXCEPT ![r] = [status |-> verdict, problem |-> ProblemOf[r], language |-> l,
                                      runtime |-> t, created |-> today]]
        /\ Solving!Goto(r, IF verdict = "accepted" THEN "daily" ELSE "done")
  BY DEF Solving!Judge, Solving!Status
<1>3. PICK p \in {"daily", "done"} :
        /\ p = "daily" => verdict = "accepted"
        /\ handling' = [handling EXCEPT ![r].pc = p]
  BY <1>2 DEF Solving!Goto
<1>4. PICK g \in Handling : g = handling[r]
  BY <1>1 DEF SolveTypes
<1>5. PICK h : h = [g EXCEPT !.pc = p]
  OBVIOUS
<1>6. handling' = [handling EXCEPT ![r] = h]
  BY <1>3, <1>4, <1>5, Zenon
<1>7. h \in Handling /\ h.pc = p /\ h.announced = g.announced /\ h.results = g.results
  BY <1>5 DEF Handling, SolvePCs
<1>8. RowFits(r, g) /\ ResultsFit(r, g) /\ g.pc = "idle"
  BY <1>1, <1>4 DEF VInv, RowsFit, ResultsHold
<1>9. PICK n : n = [status |-> verdict, problem |-> ProblemOf[r], language |-> l, runtime |-> t,
                     created |-> today]
  OBVIOUS
<1>10. n \in SolveRow /\ n # Solving!NoRow /\ n.created = today /\ n.status = verdict
  <2>1. ProblemOf[r] \in Problems
    BY DEF Solving!SolveConstants
  <2>2. n \in SolveRow /\ n.created = today /\ n.status = verdict
    BY <1>1, <1>9, <2>1 DEF SolveRow
  <2>3. n.status # Solving!NoRow.status
    BY <2>2 DEF Solving!NoRow
  <2>4. QED
    BY <2>2, <2>3
<1>11. row' = [row EXCEPT ![r] = n]
  BY <1>2, <1>9
<1>12. row'[r] = n /\ handling'[r] = h
       /\ \A q \in Requests \ {r} : handling'[q] = handling[q] /\ row'[q] = row[q]
  BY <1>1, <1>6, <1>11 DEF SolveTypes
<1>13. SolveTypes'
  BY <1>1, <1>6, <1>7, <1>10, <1>11 DEF SolveTypes
<1>14. row[r] = Solving!NoRow /\ Solving!NoRow.status # "accepted"
  BY <1>8 DEF RowFits, Solving!NoRow
<1>15. Kept
  BY <1>12, <1>14 DEF Kept
<1>16. RowFits(r, h)'
  BY <1>1, <1>3, <1>7, <1>10, <1>12 DEF RowFits
<1>17. ResultsFit(r, h)'
  <2>1. h.pc \notin {"list", "award"}
    BY <1>7
  <2>2. h.announced \subseteq Solving!Badges /\ \A b \in h.announced : Solving!Deserved(UserOf[r], Catalog[b])
    BY <1>7, <1>8, HandlingFields, Zenon DEF ResultsFit
  <2>3. \A b \in h.announced : Solving!Deserved(UserOf[r], Catalog[b])'
    BY <1>15, <2>2, DeservedGrows, Zenon
  <2>4. QED
    BY <2>1, <2>3, Zenon DEF ResultsFit
<1>18. RowFits(r, handling[r])' /\ ResultsFit(r, handling[r])'
  BY <1>12, <1>16, <1>17
<1>19. StreaksSound' /\ BadgesSound'
  BY <1>1, <1>15, StreaksStay, BadgesStay
<1>20. \A q \in Requests : handling[q].pc \notin Uncounted => handling'[q].pc \notin Uncounted
  BY <1>1, <1>12 DEF Uncounted
<1>21. CountsSound'
  BY <1>1, <1>15, <1>20, CountsStay
<1>22. QED
  BY <1>1, <1>12, <1>13, <1>15, <1>18, <1>19, <1>21, OneRequest

LEMMA LargerNat == ASSUME NEW a \in Nat, NEW b \in Nat
                   PROVE  /\ Solving!Larger(a, b) \in {a, b}
                          /\ Solving!Larger(a, b) >= a /\ Solving!Larger(a, b) >= b
BY DEF Solving!Larger

\* applyDailySolve makes a sound streak of a sound one and a solved day.
LEMMA ApplySound ==
    ASSUME Solving!SolveConstants, today \in Days, NEW u, NEW s \in StreakRow, StreakSound(u, s),
           NEW d \in Days, d <= today, Solving!SolvedDaily(u, d)
    PROVE  LET update == Solving!applyDailySolve(s, d)
           IN update.state \in StreakRow /\ StreakSound(u, update.state)
<1> DEFINE next == IF d - s.last = 1 /\ s.last # 0 THEN s.current + 1 ELSE 1
           best == Solving!Larger(s.longest, next)
           new == [current |-> next, longest |-> best, last |-> d]
<1>1. /\ s.last \in Nat /\ s.current \in Nat /\ s.longest \in Nat
      /\ d \in Nat \ {0} /\ today \in Nat
  <2>1. s.last \in Days \cup {0} /\ s.current \in Nat /\ s.longest \in Nat
    BY DEF StreakRow
  <2>2. \A n \in Days : n \in Nat /\ n # 0
    BY DEF Solving!SolveConstants
  <2>3. s.last \in Nat
    BY <2>1, <2>2
  <2>4. d \in Nat \ {0} /\ today \in Nat
    BY <2>2
  <2>5. QED
    BY <2>1, <2>3, <2>4
<1>2. CASE s.last >= d
  BY <1>2 DEF Solving!applyDailySolve
<1>3. CASE ~(s.last >= d)
  <2>1. Solving!applyDailySolve(s, d).state = new
    BY <1>3 DEF Solving!applyDailySolve
  <2>2. next \in Nat \ {0}
    BY <1>1
  <2>3. best \in {s.longest, next} /\ best \in Nat /\ best >= next
    BY <1>1, <2>2, LargerNat
  <2>4. SolvedRun(u, next, d)
    <3>1. CASE next = 1
      <4>1. \A k \in (d - next + 1)..d : k = d
        BY <1>1, <3>1
      <4>2. QED
        BY <4>1 DEF SolvedRun
    <3>2. CASE next # 1
      <4>1. next = s.current + 1 /\ s.last = d - 1 /\ s.last # 0
        BY <1>1, <3>2
      <4>2. SolvedRun(u, s.current, s.last)
        BY <4>1 DEF StreakSound
      <4>3. ASSUME NEW k \in (d - next + 1)..d PROVE k = d \/ k \in (s.last - s.current + 1)..s.last
        BY <1>1, <4>1
      <4>4. QED
        BY <4>2, <4>3 DEF SolvedRun
    <3>3. QED
      BY <3>1, <3>2
  <2>5. \E e \in Days : e <= today /\ SolvedRun(u, best, e)
    <3>1. CASE best = next
      BY <2>4, <3>1
    <3>2. CASE best # next
      <4>1. best = s.longest /\ s.longest > 0
        BY <1>1, <2>2, <2>3, <3>2
      <4>2. QED
        BY <4>1 DEF StreakSound
    <3>3. QED
      BY <3>1, <3>2
  <2> HIDE DEF next, best
  <2>6. new \in StreakRow /\ new.last = d /\ new.current = next /\ new.longest = best
    BY <1>1, <2>2, <2>3 DEF StreakRow
  <2>7. next <= best /\ d # 0
    BY <1>1, <2>2, <2>3
  <2> HIDE DEF new
  <2>8. StreakSound(u, new)
    BY <2>4, <2>5, <2>6, <2>7, Zenon DEF StreakSound
  <2>9. QED
    BY <2>1, <2>6, <2>8
<1>4. QED
  BY <1>2, <1>3

LEMMA UpsertStreakStep ==
    ASSUME Solving!SolveConstants, VInv, NEW r \in Requests, Solving!UpsertStreak(r) PROVE VInv'
<1>1. /\ handling[r].pc = "upsert" /\ UNCHANGED <<today, row, completions, badge>>
      /\ SolveTypes /\ today \in Days /\ today \in Nat
  BY DaysAreNat DEF Solving!UpsertStreak, Solving!At, VInv, SolveTypes
<1>2. PICK g \in Handling : g = handling[r]
  BY <1>1 DEF SolveTypes
<1>3. PICK update : update = Solving!applyDailySolve(g.prev, g.day)
  OBVIOUS
<1>4. PICK s : s = update.state
  OBVIOUS
<1>5. PICK u \in Users : u = UserOf[r]
  BY DEF Solving!SolveConstants
<1>6. /\ streak' = [streak EXCEPT ![u] = s]
      /\ IF update.advanced
         THEN handling' = [handling EXCEPT ![r].pc = "count", ![r].prev = Solving!Unsolved]
         ELSE Solving!Return(r, "stats")
  BY <1>2, <1>3, <1>4, <1>5, Zenon DEF Solving!UpsertStreak
<1>7. RowFits(r, g) /\ ResultsFit(r, g) /\ g.pc = "upsert"
  BY <1>1, <1>2 DEF VInv, RowsFit, ResultsHold
<1>8. /\ g.day \in Days /\ g.day <= today /\ Solves(r, g.day) /\ StreakSound(u, g.prev)
      /\ row[r].status = "accepted" /\ row[r] # Solving!NoRow /\ row[r].created <= today
  BY <1>5, <1>7 DEF RowFits
<1>9. s \in StreakRow /\ StreakSound(u, s)
  <2>1. Solving!SolvedDaily(u, g.day)
    BY <1>5, <1>8 DEF Solving!SolvedDaily, Solves, Solving!Accepted
  <2>2. PICK p \in StreakRow : p = g.prev
    BY HandlingFields
  <2>3. PICK d \in Days : d = g.day
    BY <1>8
  <2>4. StreakSound(u, p) /\ Solving!SolvedDaily(u, d) /\ d <= today
    BY <1>8, <2>1, <2>2, <2>3
  <2>5. Solving!applyDailySolve(p, d).state \in StreakRow /\ StreakSound(u, Solving!applyDailySolve(p, d).state)
    BY <1>1, <2>4, ApplySound
  <2>6. QED
    BY <1>3, <1>4, <2>2, <2>3, <2>5
<1>10. \E h \in Handling :
         /\ handling' = [handling EXCEPT ![r] = h]
         /\ h.pc \in {"count", "stats"}
         /\ h.pc = "count" => h.day = g.day
         /\ \A b \in h.announced : Solving!Deserved(UserOf[r], Catalog[b])
  <2>1. CASE update.advanced
    <3>1. PICK none \in StreakRow : none = Solving!Unsolved
      BY DEF Solving!Unsolved, StreakRow
    <3>2. PICK h : h = [g EXCEPT !.pc = "count", !.prev = none]
      OBVIOUS
    <3>3. h \in Handling /\ h.pc = "count" /\ h.day = g.day /\ h.announced = g.announced
      BY <3>2 DEF Handling, SolvePCs
    <3>4. handling' = [handling EXCEPT ![r] = h]
      BY <1>2, <1>6, <2>1, <3>1, <3>2, Zenon
    <3>5. \A b \in h.announced : Solving!Deserved(UserOf[r], Catalog[b])
      BY <1>7, <3>3, Zenon DEF ResultsFit
    <3>6. QED
      BY <3>3, <3>4, <3>5
  <2>2. CASE ~update.advanced
    <3>1. Solving!Return(r, "stats")
      BY <1>6, <2>2
    <3>2. PICK h : h = [Solving!Fresh EXCEPT !.pc = "stats"]
      OBVIOUS
    <3>3. h \in Handling /\ h.pc = "stats" /\ h.announced = {}
      BY <3>2, FreshTyped DEF SolvePCs
    <3>4. handling' = [handling EXCEPT ![r] = h]
      BY <3>1, <3>2 DEF Solving!Return
    <3>5. QED
      BY <3>3, <3>4
  <2>3. QED
    BY <2>1, <2>2
<1>11. PICK h \in Handling :
         /\ handling' = [handling EXCEPT ![r] = h]
         /\ h.pc \in {"count", "stats"}
         /\ h.pc = "count" => h.day = g.day
         /\ \A b \in h.announced : Solving!Deserved(UserOf[r], Catalog[b])
  BY <1>10
<1>12. RowFits(r, h) /\ ResultsFit(r, h)
  <2>1. h.pc \notin {"list", "award"}
    BY <1>11
  <2>2. ResultsFit(r, h)
    BY <1>11, <2>1, Zenon DEF ResultsFit
  <2>3. RowFits(r, h)
    BY <1>8, <1>11 DEF RowFits
  <2>4. QED
    BY <2>2, <2>3
<1>13. handling'[r] = h /\ \A q \in Requests \ {r} : handling'[q] = handling[q] /\ row'[q] = row[q]
  BY <1>1, <1>11 DEF SolveTypes
<1>14. SolveTypes' /\ Kept
  BY <1>1, <1>6, <1>9, <1>11 DEF SolveTypes, Kept
<1>15. RowFits(r, h)' /\ ResultsFit(r, h)'
  BY <1>1, <1>12, <1>14, FitsGrow
<1>16. RowFits(r, handling[r])' /\ ResultsFit(r, handling[r])'
  BY <1>13, <1>15
<1>17. StreaksSound'
  <2> SUFFICES ASSUME NEW v \in Users PROVE StreakSound(v, streak[v])'
    BY DEF StreaksSound
  <2>1. PICK t \in StreakRow : t = streak'[v] /\ (v = u => t = s) /\ (v # u => t = streak[v])
    BY <1>1, <1>6, <1>9 DEF SolveTypes
  <2>2. StreakSound(v, t)
    BY <1>9, <2>1 DEF VInv, StreaksSound
  <2>3. StreakSound(v, t)'
    BY <1>1, <1>14, <2>2, StreakSoundGrows
  <2>4. QED
    BY <2>1, <2>3
<1>18. BadgesSound'
  BY <1>1, <1>14, BadgesStay
<1>19. \A q \in Requests : handling[q].pc \notin Uncounted => handling'[q].pc \notin Uncounted
  BY <1>1, <1>13 DEF Uncounted
<1>20. CountsSound'
  BY <1>1, <1>14, <1>19, CountsStay
<1>21. QED
  BY <1>1, <1>13, <1>14, <1>16, <1>17, <1>18, <1>20, OneRequest

LEMMA CountCompletionStep ==
    ASSUME Solving!SolveConstants, VInv, NEW r \in Requests, Solving!CountCompletion(r) PROVE VInv'
<1>1. /\ handling[r].pc = "count" /\ UNCHANGED <<today, row, streak, badge>>
      /\ SolveTypes /\ today \in Days /\ today \in Nat
  BY DaysAreNat DEF Solving!CountCompletion, Solving!At, VInv, SolveTypes
<1>2. PICK g \in Handling : g = handling[r]
  BY <1>1 DEF SolveTypes
<1>3. RowFits(r, g) /\ g.pc = "count"
  BY <1>1, <1>2 DEF VInv, RowsFit
<1>4. PICK d \in Days : d = g.day /\ Solves(r, d)
  BY <1>3 DEF RowFits
<1>5. completions' = [completions EXCEPT ![d] = completions[d] + 1]
  BY <1>2, <1>4 DEF Solving!CountCompletion
<1>6. PICK h : h = [Solving!Fresh EXCEPT !.pc = "stats"]
  OBVIOUS
<1>7. h \in Handling /\ h.announced = {} /\ h.pc = "stats"
  BY <1>6, FreshTyped DEF SolvePCs
<1>8. handling' = [handling EXCEPT ![r] = h]
  BY <1>6 DEF Solving!CountCompletion, Solving!Return
<1>9. handling'[r] = h /\ \A q \in Requests \ {r} : handling'[q] = handling[q] /\ row'[q] = row[q]
  BY <1>1, <1>8 DEF SolveTypes
<1>10. \A e \in Days : completions[e] \in Nat
  BY <1>1 DEF SolveTypes
<1>11. SolveTypes' /\ Kept
  BY <1>1, <1>5, <1>7, <1>8, <1>10 DEF SolveTypes, Kept
<1>12. RowFits(r, h) /\ ResultsFit(r, h)
  <2>1. h.pc \notin {"list", "award"}
    BY <1>7
  <2>2. ResultsFit(r, h)
    BY <1>7, <2>1, Zenon DEF ResultsFit
  <2>3. RowFits(r, h)
    BY <1>3, <1>7 DEF RowFits
  <2>4. QED
    BY <2>2, <2>3
<1>13. RowFits(r, h)' /\ ResultsFit(r, h)'
  BY <1>1, <1>7, <1>9, <1>11, <1>12, FitsGrow
<1>14. RowFits(r, handling[r])' /\ ResultsFit(r, handling[r])'
  BY <1>9, <1>13
<1>15. StreaksSound' /\ BadgesSound'
  BY <1>1, <1>11, StreaksStay, BadgesStay
<1>16. CountsSound'
  <2> SUFFICES ASSUME NEW e \in Days PROVE completions'[e] <= Cardinality(Counted(e)')
    BY SolveSameSize DEF CountsSound
  <2>1. Counted(e) \subseteq Counted(e)'
    BY <1>1, <1>7, <1>9 DEF Counted, Solves, Uncounted
  <2>2. completions[e] \in Nat /\ completions[e] <= Cardinality(Counted(e))
    BY <1>10, SolveSameSize DEF VInv, CountsSound
  <2>3. CASE e # d
    <3>1. completions'[e] = completions[e]
      BY <1>1, <1>5, <2>3 DEF SolveTypes
    <3>2. Cardinality(Counted(e)) <= Cardinality(Counted(e)')
      BY <2>1, CountedFinite, FS_Subset
    <3>3. QED
      BY <2>2, <3>1, <3>2, CountedFinite
  <2>4. CASE e = d
    <3>1. completions'[e] = completions[e] + 1
      BY <1>1, <1>5, <2>4 DEF SolveTypes
    <3>2. r \notin Counted(e) /\ r \in Counted(e)'
      BY <1>1, <1>4, <1>7, <1>9, <2>4 DEF Counted, Solves, Uncounted
    <3>3. Cardinality(Counted(e) \cup {r}) = Cardinality(Counted(e)) + 1
      BY <3>2, CountedFinite, FS_AddElement
    <3>4. Counted(e) \cup {r} \subseteq Counted(e)'
      BY <2>1, <3>2
    <3>5. Cardinality(Counted(e) \cup {r}) <= Cardinality(Counted(e)')
      BY <3>4, CountedFinite, FS_Subset
    <3>6. QED
      BY <2>2, <3>1, <3>3, <3>5, CountedFinite
  <2>5. QED
    BY <2>3, <2>4
<1>17. QED
  BY <1>1, <1>9, <1>11, <1>14, <1>15, <1>16, OneRequest

-----------------------------------------------------------------------------
(* What the criteria find was deserved. *)

LEMMA ReachesTyped ==
    ASSUME NEW n \in Nat, NEW t \in Nat
    PROVE  Solving!Reaches(n, t) \in Verdict /\ (Solving!Reaches(n, t).earned => n >= t)
<1>1. PICK e \in BOOLEAN : e <=> n >= t
  OBVIOUS
<1>2. PICK p \in Nat : p = IF n < t THEN n ELSE t
  OBVIOUS
<1>3. Solving!Reaches(n, t) = [earned |-> e, progress |-> p]
  BY <1>1, <1>2 DEF Solving!Reaches
<1>4. QED
  BY <1>1, <1>3 DEF Verdict

LEMMA AtMostTyped ==
    ASSUME NEW S \in SUBSET Nat, NEW t
    PROVE  Solving!AtMost(S, t) \in Verdict
<1>1. PICK p \in Nat : p = IF S = {} THEN 0 ELSE Solving!Min(S)
  <2>1. CASE S = {}
    BY <2>1
  <2>2. CASE S # {}
    <3>1. \E m \in S : \A n \in S : m <= n
      BY <2>2, LeastNat
    <3>2. Solving!Min(S) \in S
      BY <3>1, Zenon DEF Solving!Min
    <3>3. QED
      BY <2>2, <3>2
  <2>3. QED
    BY <2>1, <2>2
<1>2. PICK e \in BOOLEAN : e <=> (S # {} /\ Solving!Min(S) <= t)
  OBVIOUS
<1>3. Solving!AtMost(S, t) = [earned |-> e, progress |-> p]
  BY <1>1, <1>2, Zenon DEF Solving!AtMost
<1>4. QED
  BY <1>3 DEF Verdict

\* The numbers of gatherStats.
LEMMA StatsTyped ==
    ASSUME Solving!SolveConstants, VInv, NEW u \in Users
    PROVE  LET s == Solving!Stats(u) IN
           /\ s.accepted = Cardinality(Solving!Accepted(u)) /\ s.accepted \in Nat
           /\ s.solved = Cardinality(Solving!Solved(u)) /\ s.solved \in Nat
           /\ \A p \in Problems : s.byDifficulty[DifficultyOf[p]] \in Nat
           /\ s.languages \in Nat /\ s.runtimes \subseteq Nat
           /\ s.current = streak[u].current /\ s.longest = streak[u].longest
           /\ s.rating \in Nat /\ s.entries \in Nat /\ s.ranks \subseteq Nat
           /\ s.leaderRank \in Nat /\ s.posts \in Nat
<1> DEFINE A == Solving!Accepted(u)
           L == {row[r].language : r \in A}
           T == {row[r].runtime : r \in A}
           D == {DifficultyOf[p] : p \in Problems}
           Of(d) == {p \in Solving!Solved(u) : DifficultyOf[p] = d}
           by == [d \in D |-> Cardinality(Of(d))]
           V == {v \in Users : Profile[v].rating > Profile[u].rating}
           p == Profile[u]
<1>1. IsFiniteSet(A) /\ IsFiniteSet(Solving!Solved(u))
  <2>1. IsFiniteSet(A)
    BY SolvesAreFinite, FS_Subset DEF Solving!Accepted
  <2>2. [r \in A |-> row[r].problem] \in Surjection(A, Solving!Solved(u))
    BY DEF Surjection, Solving!Solved
  <2>3. QED
    BY <2>1, <2>2, FS_Surjection
<1>2. Cardinality(A) \in Nat /\ Cardinality(Solving!Solved(u)) \in Nat
  BY <1>1, FS_CardinalityType
<1>3. \A q \in Problems : by[DifficultyOf[q]] \in Nat
  <2> SUFFICES ASSUME NEW q \in Problems PROVE Cardinality(Of(DifficultyOf[q])) \in Nat
    OBVIOUS
  <2>1. QED
    BY <1>1, FS_Subset, FS_CardinalityType
<1>4. Cardinality(L) \in Nat
  <2>1. [r \in A |-> row[r].language] \in Surjection(A, L)
    BY DEF Surjection
  <2>2. QED
    BY <1>1, <2>1, FS_Surjection, FS_CardinalityType
<1>5. T \subseteq Nat
  <2>1. \A r \in A : r \in Requests /\ row[r].status = "accepted" /\ row[r] \in {Solving!NoRow} \cup SolveRow
    BY DEF Solving!Accepted, VInv, SolveTypes
  <2>2. \A r \in A : row[r] # Solving!NoRow
    BY <2>1 DEF Solving!NoRow
  <2>3. Runtimes \subseteq Nat
    BY DEF Solving!SolveConstants
  <2>4. \A r \in A : row[r].runtime \in Nat
    BY <2>1, <2>2, <2>3 DEF SolveRow
  <2>5. QED
    BY <2>4
<1>6. p.rating \in Nat /\ p.entries \in Nat /\ p.ranks \subseteq Nat /\ p.posts \in Nat
  BY DEF Solving!SolveConstants
<1>7. 1 + Cardinality(V) \in Nat
  <2>1. IsFiniteSet(V)
    BY SolvesAreFinite, FS_Subset
  <2>2. QED
    BY <2>1, FS_CardinalityType
<1>8. Solving!Stats(u) =
                 [accepted |-> Cardinality(A), solved |-> Cardinality(Solving!Solved(u)), byDifficulty |-> by,
                  languages |-> Cardinality(L), runtimes |-> T,
                  current |-> streak[u].current, longest |-> streak[u].longest,
                  rating |-> p.rating, entries |-> p.entries, ranks |-> p.ranks,
                  leaderRank |-> 1 + Cardinality(V), posts |-> p.posts]
  BY SolveSameSize, Zenon DEF Solving!Stats
<1> HIDE DEF A, L, T, by, V, p
<1>9. PICK c \in Nat, n \in Nat, l \in Nat, k \in Nat, X \in SUBSET Nat :
        c = Cardinality(A) /\ n = Cardinality(Solving!Solved(u)) /\ l = Cardinality(L)
        /\ k = 1 + Cardinality(V) /\ X = T
  BY <1>2, <1>4, <1>5, <1>7
<1>10. Solving!Stats(u) = [accepted |-> c, solved |-> n, byDifficulty |-> by, languages |-> l, runtimes |-> X,
                  current |-> streak[u].current, longest |-> streak[u].longest,
                  rating |-> p.rating, entries |-> p.entries, ranks |-> p.ranks,
                  leaderRank |-> k, posts |-> p.posts]
  BY <1>8, <1>9
<1>11. c = Cardinality(Solving!Accepted(u))
  BY <1>9 DEF A
<1>12. QED
  BY <1>3, <1>6, <1>9, <1>10, <1>11

LEMMA EvaluationSound ==
    ASSUME Solving!SolveConstants, VInv, NEW u \in Users, NEW b \in Solving!Badges
    PROVE  LET result == Solving!evaluateCriteria(Catalog[b], Solving!Stats(u))
           IN result \in Verdict /\ (result.earned => Solving!Deserved(u, Catalog[b]))
<1>1. PICK s : s = Solving!Stats(u)
  OBVIOUS
<1>2. PICK c : c = Catalog[b]
  OBVIOUS
<1>3. /\ c.type \in Solving!Types
      /\ c.type \notin {"firstSolution", "speedDemon"} => c.threshold \in Nat
      /\ c.type = "difficultyMaster" => c.difficulty \in {DifficultyOf[p] : p \in Problems}
  BY <1>2 DEF Solving!SolveConstants
<1>4. /\ s.accepted = Cardinality(Solving!Accepted(u)) /\ s.accepted \in Nat
      /\ s.solved = Cardinality(Solving!Solved(u)) /\ s.solved \in Nat
      /\ \A p \in Problems : s.byDifficulty[DifficultyOf[p]] \in Nat
      /\ s.languages \in Nat /\ s.runtimes \subseteq Nat
      /\ s.current = streak[u].current /\ s.longest = streak[u].longest
      /\ s.rating \in Nat /\ s.entries \in Nat /\ s.ranks \subseteq Nat
      /\ s.leaderRank \in Nat /\ s.posts \in Nat
  BY <1>1, StatsTyped
<1>5. PICK result : result = Solving!evaluateCriteria(c, s)
  OBVIOUS
<1> SUFFICES result \in Verdict /\ (result.earned => Solving!Deserved(u, c))
  BY <1>1, <1>2, <1>5
<1>6. PICK row1 \in StreakRow : row1 = streak[u] /\ StreakSound(u, row1)
  BY DEF VInv, SolveTypes, StreaksSound
<1>7. row1.current \in Nat /\ row1.longest \in Nat /\ row1.last \in Days \cup {0}
      /\ s.current = row1.current /\ s.longest = row1.longest
  BY <1>4, <1>6 DEF StreakRow
<1>8. ASSUME NEW n \in Nat, NEW t \in Nat, t <= n, NEW d \in Days, SolvedRun(u, n, d)
      PROVE  \E e \in Days : \A k \in (e - t + 1)..e : k \in Days /\ Solving!SolvedDaily(u, k)
  <2>1. d \in Nat
    BY DaysAreNat
  <2>2. \A k \in (d - t + 1)..d : k \in (d - n + 1)..d
    BY <1>8, <2>1
  <2>3. \A k \in (d - t + 1)..d : k \in Days /\ Solving!SolvedDaily(u, k)
    BY <1>8, <2>2, Zenon DEF SolvedRun
  <2>4. QED
    BY <2>3
<1>9. \E e \in Days : \A k \in (e - 0 + 1)..e : k \in Days /\ Solving!SolvedDaily(u, k)
  <2>1. 1 \in Days
    BY DEF Solving!SolveConstants
  <2>2. \A k \in (1 - 0 + 1)..1 : FALSE
    OBVIOUS
  <2>3. QED
    BY <2>1, <2>2
<1>10. CASE c.type = "firstSolution"
  <2>1. result = [earned |-> s.accepted >= 1, progress |-> s.accepted]
    BY <1>5, <1>10 DEF Solving!evaluateCriteria
  <2>2. result \in Verdict
    BY <1>4, <2>1 DEF Verdict
  <2>3. ASSUME result.earned PROVE Solving!Accepted(u) # {}
    <3>1. Cardinality(Solving!Accepted(u)) >= 1
      BY <1>4, <2>1, <2>3
    <3>2. QED
      BY <3>1, FS_EmptySet
  <2>4. QED
    BY <1>10, <2>2, <2>3 DEF Solving!Deserved
<1>11. CASE c.type = "problemsSolved"
  <2>1. result = Solving!Reaches(s.solved, c.threshold) /\ c.threshold \in Nat
    BY <1>3, <1>5, <1>11 DEF Solving!evaluateCriteria
  <2>2. result \in Verdict /\ (result.earned => s.solved >= c.threshold)
    BY <1>4, <2>1, ReachesTyped
  <2>3. QED
    BY <1>4, <1>11, <2>2, SolveSameSize DEF Solving!Deserved
<1>12. CASE c.type = "difficultyMaster"
  <2>1. PICK p \in Problems : c.difficulty = DifficultyOf[p]
    BY <1>3, <1>12
  <2>2. PICK n \in Nat : n = s.byDifficulty[c.difficulty]
    BY <1>4, <2>1
  <2>3. result = Solving!Reaches(n, c.threshold) /\ c.threshold \in Nat
    BY <1>3, <1>5, <1>12, <2>2 DEF Solving!evaluateCriteria
  <2>4. QED
    BY <1>12, <2>3, ReachesTyped DEF Solving!Deserved
<1>13. CASE c.type = "polyglot"
  <2>1. result = Solving!Reaches(s.languages, c.threshold) /\ c.threshold \in Nat
    BY <1>3, <1>5, <1>13 DEF Solving!evaluateCriteria
  <2>2. QED
    BY <1>4, <1>13, <2>1, ReachesTyped DEF Solving!Deserved
<1>14. CASE c.type = "ratingThreshold"
  <2>1. result = Solving!Reaches(s.rating, c.threshold) /\ c.threshold \in Nat
    BY <1>3, <1>5, <1>14 DEF Solving!evaluateCriteria
  <2>2. QED
    BY <1>4, <1>14, <2>1, ReachesTyped DEF Solving!Deserved
<1>15. CASE c.type = "contestParticipated"
  <2>1. result = Solving!Reaches(s.entries, c.threshold) /\ c.threshold \in Nat
    BY <1>3, <1>5, <1>15 DEF Solving!evaluateCriteria
  <2>2. QED
    BY <1>4, <1>15, <2>1, ReachesTyped DEF Solving!Deserved
<1>16. CASE c.type = "discussionPosted"
  <2>1. result = Solving!Reaches(s.posts, c.threshold) /\ c.threshold \in Nat
    BY <1>3, <1>5, <1>16 DEF Solving!evaluateCriteria
  <2>2. QED
    BY <1>4, <1>16, <2>1, ReachesTyped DEF Solving!Deserved
<1>17. CASE c.type = "speedDemon"
  <2>1. result = Solving!AtMost(s.runtimes, c.maxRuntimeMs)
    BY <1>5, <1>17 DEF Solving!evaluateCriteria
  <2>2. QED
    BY <1>4, <1>17, <2>1, AtMostTyped DEF Solving!Deserved
<1>18. CASE c.type = "contestTopRank"
  <2>1. result = Solving!AtMost(s.ranks, c.threshold)
    BY <1>5, <1>18 DEF Solving!evaluateCriteria
  <2>2. QED
    BY <1>4, <1>18, <2>1, AtMostTyped DEF Solving!Deserved
<1>19. CASE c.type = "leaderboardTopN"
  <2>1. PICK S \in SUBSET Nat : S = {s.leaderRank}
    BY <1>4
  <2>2. result = Solving!AtMost(S, c.threshold)
    BY <1>5, <1>19, <2>1 DEF Solving!evaluateCriteria
  <2>3. QED
    BY <1>19, <2>2, AtMostTyped DEF Solving!Deserved
<1>20. CASE c.type = "currentStreak"
  <2>1. result = Solving!Reaches(row1.current, c.threshold) /\ c.threshold \in Nat
    BY <1>3, <1>5, <1>7, <1>20 DEF Solving!evaluateCriteria
  <2>2. result \in Verdict /\ (result.earned => c.threshold <= row1.current)
    BY <1>7, <2>1, ReachesTyped
  <2>3. ASSUME c.threshold <= row1.current
        PROVE  \E e \in Days : \A k \in (e - c.threshold + 1)..e : k \in Days /\ Solving!SolvedDaily(u, k)
    <3>1. CASE row1.last = 0
      <4>1. c.threshold = 0
        BY <1>6, <1>7, <2>1, <2>3, <3>1 DEF StreakSound
      <4>2. QED
        BY <1>9, <4>1
    <3>2. CASE row1.last # 0
      <4>1. row1.last \in Days /\ SolvedRun(u, row1.current, row1.last)
        BY <1>6, <1>7, <3>2 DEF StreakSound
      <4>2. QED
        BY <1>7, <1>8, <2>1, <2>3, <4>1
    <3>3. QED
      BY <3>1, <3>2
  <2>4. QED
    BY <1>20, <2>2, <2>3 DEF Solving!Deserved
<1>21. CASE c.type = "longestStreak"
  <2>1. result = Solving!Reaches(row1.longest, c.threshold) /\ c.threshold \in Nat
    BY <1>3, <1>5, <1>7, <1>21 DEF Solving!evaluateCriteria
  <2>2. result \in Verdict /\ (result.earned => c.threshold <= row1.longest)
    BY <1>7, <2>1, ReachesTyped
  <2>3. ASSUME c.threshold <= row1.longest
        PROVE  \E e \in Days : \A k \in (e - c.threshold + 1)..e : k \in Days /\ Solving!SolvedDaily(u, k)
    <3>1. CASE row1.longest = 0
      <4>1. c.threshold = 0
        BY <1>7, <2>1, <2>3, <3>1
      <4>2. QED
        BY <1>9, <4>1
    <3>2. CASE row1.longest # 0
      <4>1. PICK d \in Days : SolvedRun(u, row1.longest, d)
        BY <1>6, <1>7, <3>2 DEF StreakSound
      <4>2. QED
        BY <1>7, <1>8, <2>1, <2>3, <4>1
    <3>3. QED
      BY <3>1, <3>2
  <2>4. QED
    BY <1>21, <2>2, <2>3 DEF Solving!Deserved
<1>22. QED
  BY <1>3, <1>10, <1>11, <1>12, <1>13, <1>14, <1>15, <1>16, <1>17, <1>18, <1>19, <1>20, <1>21 DEF Solving!Types

LEMMA GatherStatsStep ==
    ASSUME Solving!SolveConstants, VInv, NEW r \in Requests, Solving!GatherStats(r) PROVE VInv'
<1>1. handling[r].pc = "stats" /\ UNCHANGED <<today, row, streak, completions, badge>>
  BY DEF Solving!GatherStats, Solving!At
<1>2. PICK g \in Handling : g = handling[r]
  BY DEF VInv, SolveTypes
<1>3. PICK u \in Users : u = UserOf[r]
  BY DEF Solving!SolveConstants
<1>4. PICK res : res = [b \in Solving!Badges |-> Solving!evaluateCriteria(Catalog[b], Solving!Stats(u))]
  OBVIOUS
<1>5. \A b \in Solving!Badges : res[b] \in Verdict /\ (res[b].earned => Solving!Deserved(UserOf[r], Catalog[b]))
  BY <1>3, <1>4, EvaluationSound
<1>6. res \in [Solving!Badges -> Verdict]
  BY <1>4, <1>5
<1>7. PICK h : h = [g EXCEPT !.pc = "list", !.results = res]
  OBVIOUS
<1>8. handling' = [handling EXCEPT ![r] = h]
  BY <1>2, <1>3, <1>4, <1>7, Zenon DEF Solving!GatherStats
<1>9. RowFits(r, g) /\ ResultsFit(r, g) /\ g.pc = "stats"
  BY <1>1, <1>2 DEF VInv, RowsFit, ResultsHold
<1>10. h \in Handling /\ h.pc = "list" /\ h.results = res /\ h.announced = g.announced
  <2>1. PICK w \in Results : w = res
    BY <1>6 DEF Results
  <2>2. h = [g EXCEPT !.pc = "list", !.results = w]
    BY <1>7, <2>1
  <2>3. QED
    BY <2>1, <2>2 DEF Handling, SolvePCs
<1>11. RowFits(r, h)
  BY <1>9, <1>10 DEF RowFits
<1>12. ResultsFit(r, h)
  BY <1>5, <1>6, <1>9, <1>10, Zenon DEF ResultsFit
<1>13. h.pc \notin Uncounted
  BY <1>10 DEF Uncounted
<1>14. QED
  BY <1>1, <1>8, <1>10, <1>11, <1>12, <1>13, QuietStep

LEMMA EvaluateStep ==
    ASSUME Solving!SolveConstants, VInv, NEW r \in Requests, Solving!Evaluate(r) PROVE VInv'
<1>1. /\ handling[r].pc = "award" /\ handling[r].next \in Solving!Badges
      /\ UNCHANGED <<today, row, streak, completions>>
      /\ SolveTypes /\ today \in Days /\ today \in Nat
  BY DaysAreNat DEF Solving!Evaluate, Solving!At, VInv, SolveTypes
<1>2. PICK g \in Handling : g = handling[r]
  BY <1>1 DEF SolveTypes
<1>3. RowFits(r, g) /\ ResultsFit(r, g) /\ g.pc = "award"
  BY <1>1, <1>2 DEF VInv, RowsFit, ResultsHold
<1>4. PICK u \in Users, b \in Solving!Badges : u = UserOf[r] /\ b = g.next
  BY <1>1, <1>2 DEF Solving!SolveConstants
<1>0. PICK result : result = g.results[b]
  OBVIOUS
<1>5. PICK award \in BOOLEAN :
         result = g.results[b] /\ (award <=> (result.earned /\ b \notin g.have))
  BY <1>0
<1>6. /\ badge' = IF award \/ ~result.earned
                  THEN [badge EXCEPT ![<<u, b>>] =
                           Solving!Upserted(@, IF award THEN "earned" ELSE "progress", result.progress)]
                  ELSE badge
      /\ handling' = [handling EXCEPT ![r].next = b + 1, ![r].announced = IF award THEN @ \cup {b} ELSE @]
  BY <1>2, <1>4, <1>5, Zenon DEF Solving!Evaluate
<1>7. result \in Verdict /\ (result.earned => Solving!Deserved(u, Catalog[b]))
  <2>1. /\ g.results \in [Solving!Badges -> Verdict]
        /\ \A c \in Solving!Badges : g.results[c].earned => Solving!Deserved(UserOf[r], Catalog[c])
    BY <1>3 DEF ResultsFit
  <2>2. QED
    BY <1>4, <1>5, <2>1
<1>8. PICK n : n = b + 1
  OBVIOUS
<1>9. PICK A : A = IF award THEN g.announced \cup {b} ELSE g.announced
  OBVIOUS
<1>10. PICK h : h = [g EXCEPT !.next = n, !.announced = A]
  OBVIOUS
<1>11. handling' = [handling EXCEPT ![r] = h]
  BY <1>2, <1>6, <1>8, <1>9, <1>10, Zenon
<1>12. n \in Nat /\ A \in SUBSET Solving!Badges
  <2>1. b \in Nat
    BY DEF Solving!SolveConstants
  <2>2. g.announced \subseteq Solving!Badges
    BY HandlingFields
  <2>3. QED
    BY <1>8, <1>9, <2>1, <2>2
<1>13. h \in Handling /\ h.pc = "award" /\ h.results = g.results /\ h.announced = A
  BY <1>3, <1>10, <1>12 DEF Handling
<1>14. RowFits(r, h)
  BY <1>3, <1>13 DEF RowFits
<1>15. ResultsFit(r, h)
  <2>1. \A c \in A : Solving!Deserved(UserOf[r], Catalog[c])
    <3>1. \A c \in g.announced : Solving!Deserved(UserOf[r], Catalog[c])
      BY <1>3, Zenon DEF ResultsFit
    <3>2. award => Solving!Deserved(UserOf[r], Catalog[b])
      BY <1>4, <1>5, <1>7
    <3>3. QED
      BY <1>9, <3>1, <3>2, Zenon
  <2>2. g.pc \in {"list", "award"}
    BY <1>3
  <2>3. QED
    BY <1>3, <1>13, <2>1, <2>2, Zenon DEF ResultsFit
<1>16. handling'[r] = h /\ \A q \in Requests \ {r} : handling'[q] = handling[q] /\ row'[q] = row[q]
  BY <1>1, <1>11 DEF SolveTypes
<1>17. PICK old \in BadgeRow : old = badge[<<u, b>>]
  BY <1>1 DEF SolveTypes
<1>18. PICK new : new = IF award \/ ~result.earned
                       THEN Solving!Upserted(old, IF award THEN "earned" ELSE "progress", result.progress)
                       ELSE old
  OBVIOUS
<1>19. new \in BadgeRow /\ (new.state = "earned" => old.state = "earned" \/ award)
  <2>1. result.progress \in Nat
    BY <1>7 DEF Verdict
  <2>2. PICK state \in {"earned", "progress"} : state = IF award THEN "earned" ELSE "progress"
    OBVIOUS
  <2>3. PICK st \in {"none", "progress", "earned"} :
          /\ st = IF old = Solving!NoBadge THEN state ELSE old.state
          /\ st = "earned" => old.state = "earned" \/ award
    BY <2>2 DEF BadgeRow
  <2>4. Solving!Upserted(old, state, result.progress) = [state |-> st, progress |-> result.progress]
    BY <2>3 DEF Solving!Upserted
  <2>5. Solving!Upserted(old, state, result.progress) \in BadgeRow
        /\ Solving!Upserted(old, state, result.progress).state = st
    BY <2>1, <2>3, <2>4 DEF BadgeRow
  <2>6. new = Solving!Upserted(old, state, result.progress) \/ new = old
    BY <1>18, <2>2
  <2>7. QED
    BY <2>3, <2>5, <2>6
<1>20. badge' = [badge EXCEPT ![<<u, b>>] = new]
  <2>1. CASE award \/ ~result.earned
    BY <1>6, <1>17, <1>18, <2>1, Zenon
  <2>2. CASE ~(award \/ ~result.earned)
    <3>1. badge = [badge EXCEPT ![<<u, b>>] = badge[<<u, b>>]]
      BY <1>1 DEF SolveTypes
    <3>2. QED
      BY <1>6, <1>17, <1>18, <2>2, <3>1, Zenon
  <2>3. QED
    BY <2>1, <2>2
<1>21. SolveTypes' /\ Kept
  BY <1>1, <1>11, <1>13, <1>19, <1>20 DEF SolveTypes, Kept
<1>22. RowFits(r, h)' /\ ResultsFit(r, h)'
  BY <1>1, <1>13, <1>14, <1>15, <1>21, FitsGrow
<1>23. RowFits(r, handling[r])' /\ ResultsFit(r, handling[r])'
  BY <1>16, <1>22
<1>24. StreaksSound'
  BY <1>1, <1>21, StreaksStay
<1>25. \A q \in Requests : handling[q].pc \notin Uncounted => handling'[q].pc \notin Uncounted
  BY <1>3, <1>13, <1>16 DEF Uncounted
<1>26. CountsSound'
  BY <1>1, <1>21, <1>25, CountsStay
<1>27. BadgesSound'
  <2> SUFFICES ASSUME NEW v \in Users, NEW c \in Solving!Badges, badge'[<<v, c>>].state = "earned"
               PROVE  Solving!Deserved(v, Catalog[c])'
    BY Zenon DEF BadgesSound
  <2>1. CASE <<v, c>> = <<u, b>>
    <3>1. v = u /\ c = b
      BY <2>1
    <3>2. badge'[<<v, c>>] = new
      BY <1>1, <1>20, <3>1 DEF SolveTypes
    <3>3. old.state = "earned" \/ award
      BY <1>19, <3>2
    <3>4. Solving!Deserved(u, Catalog[b])
      <4>1. CASE award
        BY <1>5, <1>7, <4>1
      <4>2. CASE old.state = "earned"
        BY <1>17, <4>2, Zenon DEF VInv, BadgesSound
      <4>3. QED
        BY <3>3, <4>1, <4>2
    <3>5. QED
      BY <1>21, <3>1, <3>4, DeservedGrows
  <2>2. CASE <<v, c>> # <<u, b>>
    <3>1. badge'[<<v, c>>] = badge[<<v, c>>]
      BY <1>1, <1>20, <2>2 DEF SolveTypes
    <3>2. Solving!Deserved(v, Catalog[c])
      BY <3>1, Zenon DEF VInv, BadgesSound
    <3>3. QED
      BY <1>21, <3>2, DeservedGrows
  <2>3. QED
    BY <2>1, <2>2
<1>28. QED
  BY <1>1, <1>16, <1>21, <1>23, <1>24, <1>26, <1>27, OneRequest

-----------------------------------------------------------------------------

LEMMA SolvesStep == Solving!SolveConstants /\ VInv /\ [Solving!Next]_(Solving!vars) => VInv'
<1> SUFFICES ASSUME Solving!SolveConstants, VInv, [Solving!Next]_(Solving!vars) PROVE VInv'
  OBVIOUS
<1>1. CASE Solving!NextDay
  BY <1>1, NextDayStep
<1>2. ASSUME NEW r \in Requests,
             \/ Solving!Judge(r)
             \/ Solving!FindChallenge(r) \/ Solving!FindStreak(r) \/ Solving!UpsertStreak(r) 
             \/ Solving!CountCompletion(r) \/ Solving!DailyFails(r)
             \/ Solving!GatherStats(r) \/ Solving!ListBadges(r) \/ Solving!Evaluate(r)
             \/ Solving!ProgressFails(r)
             \/ Solving!EvaluationFails(r) \/ Solving!Respond(r)
      PROVE  VInv'
  <2>1. CASE Solving!Judge(r)
    BY <2>1, JudgeStep
  <2>2. CASE Solving!FindChallenge(r)
    BY <2>2, FindChallengeStep
  <2>3. CASE Solving!FindStreak(r)
    BY <2>3, FindStreakStep
  <2>4. CASE Solving!UpsertStreak(r)
    BY <2>4, UpsertStreakStep
  <2>5. CASE Solving!CountCompletion(r)
    BY <2>5, CountCompletionStep
  <2>6. CASE Solving!DailyFails(r)
    BY <2>6, DailyFailsStep
  <2>7. CASE Solving!GatherStats(r)
    BY <2>7, GatherStatsStep
  <2>8. CASE Solving!ListBadges(r)
    BY <2>8, ListBadgesStep
  <2>9. CASE Solving!Evaluate(r)
    BY <2>9, EvaluateStep
  <2>10. CASE Solving!ProgressFails(r)
    BY <2>10, ProgressFailsStep
  <2>11. CASE Solving!EvaluationFails(r)
    BY <2>11, EvaluationFailsStep
  <2>12. CASE Solving!Respond(r)
    BY <2>12, RespondStep
  <2>13. QED
    BY <1>2, <2>1, <2>2, <2>3, <2>4, <2>5, <2>6, <2>7, <2>8, <2>9, <2>10, <2>11, <2>12
<1>3. CASE UNCHANGED Solving!vars
  <2>1. UNCHANGED <<today, row, streak, completions, badge, handling>>
    BY <1>3 DEF Solving!vars
  <2>2. SolveTypes /\ today \in Days /\ today \in Nat
    BY DaysAreNat DEF VInv, SolveTypes
  <2>3. SolveTypes' /\ Kept /\ today' \in Days /\ today <= today'
    BY <2>1, <2>2 DEF SolveTypes, Kept
  <2>4. StreaksSound' /\ BadgesSound'
    BY <2>1, <2>3, StreaksStay, BadgesStay
  <2>5. CountsSound'
    BY <2>1, <2>3, CountsStay
  <2>6. ASSUME NEW q \in Requests PROVE RowFits(q, handling[q])' /\ ResultsFit(q, handling[q])'
    <3>1. PICK h \in Handling : h = handling[q]
      BY <2>2 DEF SolveTypes
    <3>2. RowFits(q, h) /\ ResultsFit(q, h)
      BY <3>1 DEF VInv, RowsFit, ResultsHold
    <3>3. RowFits(q, h)' /\ ResultsFit(q, h)'
      BY <2>1, <2>2, <2>3, <3>2, FitsGrow
    <3>4. h = handling'[q]
      BY <2>1, <3>1
    <3>5. QED
      BY <3>3, <3>4
  <2>7. QED
    BY <2>3, <2>4, <2>5, <2>6 DEF VInv, RowsFit, ResultsHold
<1>4. QED
  BY <1>1, <1>2, <1>3, Zenon DEF Solving!Next

LEMMA VInvIsSound == Solving!SolveConstants /\ VInv => Solving!CreditIsSound
<1> SUFFICES ASSUME Solving!SolveConstants, VInv PROVE Solving!CreditIsSound
  OBVIOUS
<1>1. SolveTypes /\ today \in Days /\ today \in Nat
  BY DaysAreNat DEF VInv, SolveTypes
<1>2. Solving!TypeOK
  <2>1. ASSUME NEW r \in Requests
        PROVE  /\ row[r] = Solving!NoRow \/ row[r] \in SolveRow
               /\ handling[r].pc \in SolvePCs /\ handling[r].announced \subseteq Solving!Badges
    BY <1>1, HandlingFields DEF SolveTypes
  <2>2. /\ streak \in [Users -> StreakRow] /\ completions \in [Days -> Nat]
        /\ badge \in [Users \X Solving!Badges -> BadgeRow]
    BY <1>1 DEF SolveTypes
  <2>3. QED
    BY <1>1, <2>1, <2>2, Zenon DEF Solving!TypeOK, SolveRow, SolvePCs, StreakRow, BadgeRow
<1>3. Solving!StreakIsEarned
  <2> SUFFICES ASSUME NEW u \in Users
               PROVE  /\ Solving!effectiveCurrentStreak(streak[u], today) > 0 =>
                            \E d \in {today - 1, today} :
                                SolvedRun(u, Solving!effectiveCurrentStreak(streak[u], today), d)
                      /\ streak[u].current <= streak[u].longest
                      /\ streak[u].longest > 0 =>
                            \E d \in Days : d <= today /\ SolvedRun(u, streak[u].longest, d)
    BY Zenon DEF Solving!StreakIsEarned, SolvedRun
  <2>1. PICK s \in StreakRow : s = streak[u] /\ StreakSound(u, s)
    BY <1>1 DEF VInv, SolveTypes, StreaksSound
  <2>2. ASSUME Solving!effectiveCurrentStreak(s, today) > 0
        PROVE  \E d \in {today - 1, today} : SolvedRun(u, Solving!effectiveCurrentStreak(s, today), d)
    <3>1. Solving!isStreakActive(s, today) /\ Solving!effectiveCurrentStreak(s, today) = s.current
      BY <2>2 DEF Solving!effectiveCurrentStreak
    <3>2. s.last # 0 /\ today - s.last \in {0, 1}
      BY <3>1 DEF Solving!isStreakActive
    <3>3. s.last \in Nat
      BY <3>2, DaysAreNat DEF StreakRow
    <3>4. s.last \in {today - 1, today}
      BY <1>1, <3>2, <3>3
    <3>5. SolvedRun(u, s.current, s.last)
      BY <2>1, <3>2 DEF StreakSound
    <3>6. QED
      BY <3>1, <3>4, <3>5
  <2>3. /\ s.current <= s.longest
        /\ s.longest > 0 => \E d \in Days : d <= today /\ SolvedRun(u, s.longest, d)
    BY <2>1 DEF StreakSound
  <2>4. QED
    BY <2>1, <2>2, <2>3
<1>4. Solving!CompletionsAreSolves
  <2> DEFINE All(d) == {r \in Requests : row[r].status = "accepted" /\ row[r].problem = Challenge[d]
                                        /\ row[r].created <= d}
  <2> SUFFICES ASSUME NEW d \in Days PROVE completions[d] <= Cardinality(All(d))
    BY SolveSameSize, Zenon DEF Solving!CompletionsAreSolves
  <2>1. Counted(d) \subseteq All(d)
    BY DEF Counted, Solves
  <2>2. IsFiniteSet(All(d))
    BY SolvesAreFinite, FS_Subset
  <2> HIDE DEF All
  <2>3. Cardinality(Counted(d)) <= Cardinality(All(d)) /\ Cardinality(All(d)) \in Nat
    BY <2>1, <2>2, FS_Subset, FS_CardinalityType
  <2>4. completions[d] \in Nat /\ completions[d] <= Cardinality(Counted(d))
    BY <1>1, SolveSameSize DEF VInv, SolveTypes, CountsSound
  <2>5. QED
    BY <2>3, <2>4, CountedFinite
<1>5. Solving!EarnedIsDeserved
  <2>1. \A u \in Users : \A b \in Solving!ShownEarned(u) : Solving!Deserved(u, Catalog[b])
    BY Zenon DEF VInv, BadgesSound, Solving!ShownEarned
  <2>2. \A r \in Requests : \A b \in handling[r].announced : Solving!Deserved(UserOf[r], Catalog[b])
    BY Zenon DEF VInv, ResultsHold, ResultsFit
  <2>3. QED
    BY <2>1, <2>2 DEF Solving!EarnedIsDeserved
<1>6. QED
  BY <1>2, <1>3, <1>4, <1>5 DEF Solving!CreditIsSound

\* The streaks, the completion counts and the badges that accepted submissions leave are made
\* of solves (recordDailySolveIfApplicable, evaluateAchievements), however many requests
\* overlap, fail half way or write on a later day than they read.
THEOREM CreditStaysSound == Solving!Spec => []CreditIsSound
<1>1. Solving!Init => VInv
  BY SolveAssumption, SolvesInit
<1>2. VInv /\ [Solving!Next]_(Solving!vars) => VInv'
  BY SolveAssumption, SolvesStep
<1>3. VInv => CreditIsSound
  BY SolveAssumption, VInvIsSound DEF CreditIsSound
<1>4. QED
  BY <1>1, <1>2, <1>3, PTL DEF Solving!Spec

\* What a fresh read writes is not behind what it read.
LEMMA ApplyAdvances ==
    ASSUME Solving!SolveConstants, NEW s \in StreakRow, NEW d \in Days
    PROVE  LET new == Solving!applyDailySolve(s, d).state
           IN new.longest >= s.longest /\ new.last >= s.last
<1>1. s.last \in Nat /\ s.current \in Nat /\ s.longest \in Nat
  BY DaysAreNat DEF StreakRow
<1>2. d \in Nat
  BY DaysAreNat
<1>3. CASE s.last >= d
  BY <1>1, <1>3 DEF Solving!applyDailySolve
<1>4. CASE ~(s.last >= d)
  <2>1. PICK n \in Nat : n = IF d - s.last = 1 /\ s.last # 0 THEN s.current + 1 ELSE 1
    BY <1>1
  <2>2. PICK best : best = Solving!Larger(s.longest, n)
    OBVIOUS
  <2>3. best >= s.longest
    BY <1>1, <2>2, LargerNat
  <2>4. Solving!applyDailySolve(s, d).state = [current |-> n, longest |-> best, last |-> d]
    BY <1>4, <2>1, <2>2 DEF Solving!applyDailySolve
  <2>5. QED
    BY <1>1, <1>2, <1>4, <2>3, <2>4
<1>5. QED
  BY <1>3, <1>4

\* The upsert of a streak takes its longest run or its last day back only when the row has
\* changed since the request read it (recordDailySolveIfApplicable): an answer of
\* applyDailySolve to the row as it is only goes forward.
THEOREM FreshStreaksOnlyGrow == Solving!Spec => StreakGoesBackOnlyWhenStale
<1> DEFINE GoesBack(u) == streak'[u].longest < streak[u].longest \/ streak'[u].last < streak[u].last
           Stale(u) == \E r \in Requests :
                          /\ UserOf[r] = u /\ Solving!At(r, "upsert") /\ ~Solving!At(r, "upsert")'
                          /\ handling[r].prev # streak[u]
<1>1. VInv /\ [Solving!Next]_(Solving!vars) =>
        [\A u \in Users :
            \/ streak'[u].longest < streak[u].longest
            \/ streak'[u].last < streak[u].last
            => \E r \in Requests :
                  /\ UserOf[r] = u /\ Solving!At(r, "upsert") /\ ~Solving!At(r, "upsert")'
                  /\ handling[r].prev # streak[u]]_(Solving!vars)
  <2> SUFFICES ASSUME VInv, Solving!Next, NEW u \in Users, GoesBack(u) PROVE Stale(u)
    OBVIOUS
  <2>1. Solving!SolveConstants /\ SolveTypes
    BY SolveAssumption DEF VInv
  <2>2. PICK s \in StreakRow : s = streak[u]
    BY <2>1 DEF SolveTypes
  <2>3. s.last \in Nat /\ s.longest \in Nat
    BY <2>1, DaysAreNat DEF StreakRow
  <2>4. streak' # streak
    BY <2>2, <2>3
  <2>5. PICK r \in Requests : Solving!UpsertStreak(r)
    BY <2>4, Zenon DEF Solving!Next, Solving!NextDay, Solving!Judge, Solving!FindChallenge,
                Solving!FindStreak, Solving!CountCompletion, Solving!DailyFails,
                Solving!GatherStats, Solving!ListBadges, Solving!Evaluate, Solving!ProgressFails,
                Solving!EvaluationFails, Solving!Respond
  <2>6. PICK g \in Handling : g = handling[r]
    BY <2>1 DEF SolveTypes
  <2>7. g.pc = "upsert" /\ RowFits(r, g)
    BY <2>5, <2>6 DEF Solving!UpsertStreak, Solving!At, VInv, RowsFit
  <2>8. PICK d \in Days : d = g.day
    BY <2>7 DEF RowFits
  <2>9. PICK w : w = Solving!applyDailySolve(g.prev, d)
    OBVIOUS
  <2>10. /\ streak' = [streak EXCEPT ![UserOf[r]] = w.state]
         /\ IF w.advanced
            THEN handling' = [handling EXCEPT ![r].pc = "count", ![r].prev = Solving!Unsolved]
            ELSE Solving!Return(r, "stats")
    BY <2>5, <2>6, <2>8, <2>9, Zenon DEF Solving!UpsertStreak
  <2>11. UserOf[r] = u /\ streak'[u] = w.state
    BY <2>1, <2>2, <2>3, <2>10 DEF SolveTypes
  <2>12. g.prev # s
    <3> SUFFICES ASSUME g.prev = s PROVE FALSE
      OBVIOUS
    <3>1. w.state.longest >= s.longest /\ w.state.last >= s.last
      BY <2>1, <2>9, ApplyAdvances
    <3>2. w.state \in StreakRow
      BY <2>1, <2>5, <2>11, SolvesStep DEF VInv, SolveTypes
    <3>3. w.state.last \in Nat /\ w.state.longest \in Nat
      BY <2>1, <3>2, DaysAreNat DEF StreakRow
    <3>4. QED
      BY <2>2, <2>3, <2>11, <3>1, <3>3
  <2>13. handling'[r].pc # "upsert"
    <3>1. CASE w.advanced
      BY <2>1, <2>6, <2>10, <3>1 DEF SolveTypes, Handling
    <3>2. CASE ~w.advanced
      <4>1. PICK h : h = [Solving!Fresh EXCEPT !.pc = "stats"]
        OBVIOUS
      <4>2. h.pc = "stats"
        BY <2>1, <4>1, FreshTyped DEF SolvePCs
      <4>3. handling' = [handling EXCEPT ![r] = h]
        BY <2>10, <3>2, <4>1 DEF Solving!Return
      <4>4. QED
        BY <2>1, <4>2, <4>3 DEF SolveTypes
    <3>3. QED
      BY <3>1, <3>2
  <2>14. Solving!At(r, "upsert") /\ ~Solving!At(r, "upsert")'
    BY <2>6, <2>7, <2>13 DEF Solving!At
  <2>15. QED
    BY <2>2, <2>6, <2>11, <2>12, <2>14
<1> HIDE DEF GoesBack, Stale
<1>2. Solving!Init => VInv
  BY SolveAssumption, SolvesInit
<1>3. VInv /\ [Solving!Next]_(Solving!vars) => VInv'
  BY SolveAssumption, SolvesStep
<1>4. QED
  BY <1>1, <1>2, <1>3, PTL DEF Solving!Spec, StreakGoesBackOnlyWhenStale,
     Solving!StreakGoesBackOnlyWhenStale
-----------------------------------------------------------------------------
(* The hub.  What is on its way to a client is earlier than the message    *)
(* being fanned out to it, and that is earlier than what is still in the   *)
(* feed (InOrder); what a client knows of a channel is so, and whoever     *)
(* knows it has left a channel is in no snapshot for a later message       *)
(* (KnownIsSo).  First sequences: a stream is what was received, the       *)
(* message in the hand and the buffer, and each step of the connection     *)
(* leaves it, appends to it or takes one element out of it.                *)

\* What a client may know of a channel when n messages are out, and a command under way.
View(n) == [is : {"on", "off", "joining", "leaving"}, at : 0..n]
Commands == [do : {"subscribe", "unsubscribe"}, channel : Channels, at : {"server", "client"}]

HubTypes ==
    /\ published \in Seq(Channels)
    /\ feed \in Seq(1..Len(published))
    /\ fan \in [message : 0..Len(published), left : SUBSET Clients]
    /\ socket \in [Clients -> {"none", "open", "closed", "removed"}]
    /\ channels \in [Clients -> SUBSET Channels]
    /\ DOMAIN bySub \subseteq Channels
    /\ send \in [Clients -> Seq(1..Len(published))]
           /\ got \in [Clients -> Seq(1..Len(published))]
    /\ hand \in [Clients -> 0..Len(published)]
    /\ \A c \in Clients : Len(send[c]) <= Buffer
    /\ command \in [Clients -> {Hub!NoCommand} \cup Commands]
    /\ view \in [Clients -> [Channels -> View(Len(published))]]
    /\ dropped \in [Clients -> SUBSET (1..Len(published))]
    /\ commands \in 0..MaxCommands /\ losses \in 0..MaxLosses

Ordered(q) == \A i, j \in DOMAIN q : i < j => q[i] < q[j]

\* What is still to come is later than what a client has, and in order.
InOrder ==
    /\ Ordered(feed)
    /\ \A i \in DOMAIN feed : fan.message < feed[i]
    /\ fan.left # {} => fan.message \in 1..Len(published)
    /\ \A c \in Clients : Ordered(Hub!Stream(c))
    /\ \A c \in Clients, m \in 1..Len(published) : Hub!Holds(c, m) =>
          /\ \A i \in DOMAIN feed : m < feed[i]
          /\ c \in fan.left => m < fan.message

\* What the command under way of a client says of its channel.
CommandKnown(c, q) ==
    /\ q.do = "subscribe" =>
          /\ view[c][q.channel].is \in {"joining", "on"}
          /\ q.at = "client" => q.channel \in channels[c]
    /\ q.do = "unsubscribe" =>
          /\ view[c][q.channel].is = "leaving"
          /\ q.at = "client" => q.channel \notin channels[c]

\* What a client knows is so.
KnownOf(c) ==
    /\ CommandKnown(c, command[c])
    /\ socket[c] = "none" => command[c] = Hub!NoCommand
    /\ \A ch \in Channels :
          /\ view[c][ch].is = "on" => ch \in channels[c]
          /\ view[c][ch].is = "off" => ch \notin channels[c] \/ socket[c] = "none"
          /\ view[c][ch].is = "off" /\ c \in fan.left /\ published[fan.message] = ch =>
                fan.message <= view[c][ch].at
KnownIsSo == \A c \in Clients : KnownOf(c)

\* The inductive invariant of the hub.
HInv ==
    /\ HubTypes /\ Hub!IndexIsExact /\ InOrder /\ KnownIsSo
    /\ Hub!NothingIsMissed /\ Hub!NothingAfterLeaving

Cat(g, h, s) == g \o (IF h = 0 THEN <<>> ELSE <<h>>) \o s
In(q, m) == \E i \in DOMAIN q : q[i] = m

LEMMA StreamIsCat ==
    \A c : /\ Hub!Stream(c) = Cat(got[c], hand[c], send[c])
           /\ Hub!Stream(c)' = Cat(got'[c], hand'[c], send'[c])
           /\ \A m : Hub!Holds(c, m) = In(Hub!Stream(c), m)
           /\ \A m : Hub!Holds(c, m)' = In(Hub!Stream(c)', m)
BY DEF Hub!Stream, Cat, Hub!Holds, In

LEMMA CatWithout ==
    ASSUME NEW g \in Seq(Nat), NEW s \in Seq(Nat)
    PROVE  /\ Cat(g, 0, s) \in Seq(Nat) /\ Len(Cat(g, 0, s)) = Len(g) + Len(s)
           /\ \A i \in 1..(Len(g) + Len(s)) :
                 Cat(g, 0, s)[i] = IF i <= Len(g) THEN g[i] ELSE s[i - Len(g)]
BY DEF Cat

LEMMA CatWith ==
    ASSUME NEW g \in Seq(Nat), NEW s \in Seq(Nat), NEW h \in Nat \ {0}
    PROVE  /\ Cat(g, h, s) \in Seq(Nat) /\ Len(Cat(g, h, s)) = Len(g) + 1 + Len(s)
           /\ \A i \in 1..(Len(g) + 1 + Len(s)) :
                 Cat(g, h, s)[i] = IF i <= Len(g) THEN g[i]
                                   ELSE IF i = Len(g) + 1 THEN h ELSE s[i - Len(g) - 1]
<1>1. Cat(g, h, s) = g \o <<h>> \o s /\ <<h>> \in Seq(Nat) /\ Len(<<h>>) = 1 /\ <<h>>[1] = h
  BY DEF Cat
<1>2. /\ g \o <<h>> \in Seq(Nat) /\ Len(g \o <<h>>) = Len(g) + 1
      /\ \A i \in 1..(Len(g) + 1) : (g \o <<h>>)[i] = IF i <= Len(g) THEN g[i] ELSE h
  BY <1>1
<1>3. PICK k \in Seq(Nat) : k = g \o <<h>>
  BY <1>2
<1>4. /\ k \o s \in Seq(Nat) /\ Len(k \o s) = Len(k) + Len(s)
      /\ \A i \in 1..(Len(k) + Len(s)) : (k \o s)[i] = IF i <= Len(k) THEN k[i]
             ELSE s[i - Len(k)]
  BY ConcatProperties
<1>5. Cat(g, h, s) = k \o s /\ Len(k) = Len(g) + 1
  BY <1>1, <1>2, <1>3
<1>6. ASSUME NEW i \in 1..(Len(g) + 1 + Len(s))
      PROVE  (k \o s)[i] = IF i <= Len(g) THEN g[i] ELSE IF i = Len(g) + 1 THEN h
                 ELSE s[i - Len(g) - 1]
  <2>1. Len(g) \in Nat /\ Len(s) \in Nat /\ i \in 1..(Len(k) + Len(s))
    BY <1>5
  <2>2. (k \o s)[i] = IF i <= Len(k) THEN k[i] ELSE s[i - Len(k)]
    BY <1>4, <2>1
  <2>3. i <= Len(g) + 1 => k[i] = IF i <= Len(g) THEN g[i] ELSE h
    BY <1>2, <1>3, <2>1
  <2>4. i - Len(k) = i - Len(g) - 1
    BY <1>5, <2>1
  <2>5. QED
    BY <1>5, <2>1, <2>2, <2>3, <2>4
<1>7. QED
  BY <1>4, <1>5, <1>6

\* A sequence without its element p + 1.
At(p, i) == IF i <= p THEN i ELSE i + 1

LEMMA AtGrows ==
    ASSUME NEW p \in Nat, NEW r \in Nat
    PROVE  /\ \A i \in 1..(p + r) : At(p, i) \in 1..(p + 1 + r) \ {p + 1}
           /\ \A i, j \in 1..(p + r) : i < j => At(p, i) < At(p, j)
           /\ \A i \in 1..(p + 1 + r) : i # p + 1 => \E j \in 1..(p + r) : At(p, j) = i
<1>1. \A i \in 1..(p + r) : At(p, i) \in 1..(p + 1 + r) \ {p + 1}
  BY DEF At
<1>2. \A i, j \in 1..(p + r) : i < j => At(p, i) < At(p, j)
  BY DEF At
<1>3. ASSUME NEW i \in 1..(p + 1 + r), i # p + 1 PROVE \E j \in 1..(p + r) : At(p, j) = i
  <2>1. CASE i <= p
    BY <2>1 DEF At
  <2>2. CASE i > p
    <3>1. i - 1 \in 1..(p + r) /\ At(p, i - 1) = i
      BY <1>3, <2>2 DEF At
    <3>2. QED
      BY <3>1
  <2>3. QED
    BY <2>1, <2>2
<1>4. QED
  BY <1>1, <1>2, <1>3

\* a is b without its element p + 1.
Skips(a, b, p, r) ==
    /\ DOMAIN a = 1..(p + r) /\ DOMAIN b = 1..(p + 1 + r)
    /\ \A i \in 1..(p + r) : a[i] = b[At(p, i)]

LEMMA WithoutOne ==
    ASSUME NEW p \in Nat, NEW r \in Nat, NEW a, NEW b, Ordered(b), Skips(a, b, p, r)
    PROVE  /\ Ordered(a)
           /\ \A m : m # b[p + 1] => (In(a, m) <=> In(b, m))
           /\ \A m : In(a, m) => In(b, m)
<1>1. Ordered(a)
  BY AtGrows, ZenonT(30) DEF Ordered, Skips
<1>2. ASSUME NEW m, In(a, m) PROVE In(b, m)
  BY <1>2, AtGrows DEF In, Skips
<1>3. ASSUME NEW m, m # b[p + 1], In(b, m) PROVE In(a, m)
  <2>1. PICK i \in 1..(p + 1 + r) : b[i] = m /\ i # p + 1
    BY <1>3 DEF In, Skips
  <2>2. PICK j \in 1..(p + r) : At(p, j) = i
    BY <2>1, AtGrows, SMTT(30)
  <2>3. QED
    BY <2>1, <2>2 DEF In, Skips
<1>4. QED
  BY <1>1, <1>2, <1>3

LEMMA WithoutFirst ==
    ASSUME NEW n \in Nat \ {0}, NEW q, NEW t, Ordered(q), DOMAIN q = 1..n,
           DOMAIN t = 1..(n - 1),
           \A i \in 1..(n - 1) : t[i] = q[i + 1]
    PROVE  /\ Ordered(t) /\ \A i \in DOMAIN t : q[1] < t[i]
           /\ \A m : In(q, m) <=> In(t, m) \/ m = q[1]
<1>1. PICK r \in Nat : n = r + 1 /\ n - 1 = r
  <2>1. n - 1 \in Nat
    OBVIOUS
  <2>2. QED
    BY <2>1
<1>2. \A i \in 1..r : i + 1 \in 1..n /\ 1 < i + 1
  BY <1>1
<1>3. \A i, j \in 1..r : i < j => i + 1 < j + 1
  OBVIOUS
<1>4. Ordered(t)
  BY <1>1, <1>2, <1>3 DEF Ordered
<1>5. \A i \in DOMAIN t : q[1] < t[i]
  BY <1>1, <1>2 DEF Ordered
<1>6. ASSUME NEW m, In(q, m) PROVE In(t, m) \/ m = q[1]
  <2>1. PICK i \in 1..n : q[i] = m
    BY <1>6 DEF In
  <2>2. CASE i # 1
    <3>1. PICK j \in 1..r : i = j + 1
      <4>1. i - 1 \in 1..r /\ i = (i - 1) + 1
        BY <1>1, <2>2
      <4>2. QED
        BY <4>1
    <3>2. t[j] = m
      BY <1>1, <2>1, <3>1
    <3>3. QED
      BY <1>1, <3>2 DEF In
  <2>3. QED
    BY <2>1, <2>2
<1>7. ASSUME NEW m, In(t, m) \/ m = q[1] PROVE In(q, m)
  <2>1. 1 \in DOMAIN q
    OBVIOUS
  <2>2. QED
    BY <1>1, <1>2, <1>7, <2>1 DEF In
<1>8. QED
  BY <1>4, <1>5, <1>6, <1>7

\* A message taken into the hand stays where it was.
LEMMA CatReceive ==
    ASSUME NEW g \in Seq(Nat), NEW s \in Seq(Nat), s # <<>>, Head(s) # 0
    PROVE  Cat(g, Head(s), Tail(s)) = Cat(g, 0, s)
<1>1. PICK h \in Nat \ {0} : h = Head(s) /\ h = s[1]
  OBVIOUS
<1>2. PICK t : t = Tail(s)
  OBVIOUS
<1>3. t \in Seq(Nat) /\ Len(t) = Len(s) - 1 /\ \A i \in 1..Len(t) : t[i] = s[i + 1]
  BY <1>2, HeadTailProperties
<1>4. PICK p \in Nat, r \in Nat : p = Len(g) /\ r = Len(t)
  BY <1>3
<1>5. Len(s) = r + 1
  <2>1. Len(s) \in Nat
    OBVIOUS
  <2>2. QED
    BY <1>3, <1>4, <2>1
<1>6. /\ Cat(g, h, t) \in Seq(Nat) /\ Len(Cat(g, h, t)) = p + 1 + r
      /\ \A i \in 1..(p + 1 + r) :
            Cat(g, h, t)[i] = IF i <= p THEN g[i] ELSE IF i = p + 1 THEN h ELSE t[i - p - 1]
  <2>1. t \in Seq(Nat)
    BY <1>3
  <2>2. /\ Cat(g, h, t) \in Seq(Nat) /\ Len(Cat(g, h, t)) = Len(g) + 1 + Len(t)
        /\ \A i \in 1..(Len(g) + 1 + Len(t)) :
              Cat(g, h, t)[i] = IF i <= Len(g) THEN g[i]
                                ELSE IF i = Len(g) + 1 THEN h ELSE t[i - Len(g) - 1]
    BY <2>1, CatWith, ZenonT(30)
  <2>3. QED
    BY <1>4, <2>2
<1>7. /\ Cat(g, 0, s) \in Seq(Nat) /\ Len(Cat(g, 0, s)) = p + (r + 1)
      /\ \A i \in 1..(p + (r + 1)) : Cat(g, 0, s)[i] = IF i <= p THEN g[i] ELSE s[i - p]
  <2>1. /\ Cat(g, 0, s) \in Seq(Nat) /\ Len(Cat(g, 0, s)) = Len(g) + Len(s)
        /\ \A i \in 1..(Len(g) + Len(s)) :
              Cat(g, 0, s)[i] = IF i <= Len(g) THEN g[i] ELSE s[i - Len(g)]
    BY CatWithout
  <2>2. Len(g) = p /\ Len(s) = r + 1
    BY <1>4, <1>5
  <2>3. QED
    BY <2>1, <2>2
<1>8. ASSUME NEW i \in 1..(p + 1 + r) PROVE Cat(g, h, t)[i] = Cat(g, 0, s)[i]
  <2>1. Cat(g, 0, s)[i] = IF i <= p THEN g[i] ELSE s[i - p]
    <3>1. i \in 1..(p + (r + 1))
      OBVIOUS
    <3>2. QED
      BY <1>7, <3>1
  <2>2. Cat(g, h, t)[i] = IF i <= p THEN g[i] ELSE IF i = p + 1 THEN h ELSE t[i - p - 1]
    BY <1>6
  <2>3. CASE i <= p
    BY <2>1, <2>2, <2>3
  <2>4. CASE i = p + 1
    <3>1. i - p = 1 /\ ~(i <= p)
      BY <2>4
    <3>2. QED
      BY <1>1, <2>1, <2>2, <2>4, <3>1
  <2>5. CASE i > p + 1
    <3>1. PICK j \in 1..r : j = i - p - 1
      BY <2>5
    <3>2. j + 1 = i - p /\ ~(i <= p) /\ i # p + 1
      BY <2>5, <3>1
    <3>3. t[j] = s[j + 1]
      BY <1>3, <1>4
    <3>4. QED
      BY <2>1, <2>2, <3>1, <3>2, <3>3
  <2>6. QED
    BY <2>3, <2>4, <2>5
<1>9. p + 1 + r = p + (r + 1)
  OBVIOUS
<1>10. Cat(g, h, t) = Cat(g, 0, s)
  BY <1>6, <1>7, <1>8, <1>9, SeqEqual
<1>11. QED
  BY <1>1, <1>2, <1>10

LEMMA CatWrite ==
    ASSUME NEW g \in Seq(Nat), NEW s \in Seq(Nat), NEW h \in Nat \ {0}
    PROVE  Cat(Append(g, h), 0, s) = Cat(g, h, s)
<1>1. Append(g, h) = g \o <<h>>
  OBVIOUS
<1>2. Cat(Append(g, h), 0, s) = Append(g, h) \o s
  BY DEF Cat
<1>3. Cat(g, h, s) = g \o <<h>> \o s
  BY DEF Cat
<1>4. QED
  BY <1>1, <1>2, <1>3

LEMMA CatOffer ==
    ASSUME NEW g \in Seq(Nat), NEW s \in Seq(Nat), NEW h \in Nat, NEW m \in Nat
    PROVE  Cat(g, h, Append(s, m)) = Append(Cat(g, h, s), m)
<1>1. PICK e : e = IF h = 0 THEN <<>> ELSE <<h>>
  OBVIOUS
<1>7. e \in Seq(Nat)
  <2>1. <<>> \in Seq(Nat) /\ <<h>> \in Seq(Nat)
    OBVIOUS
  <2>2. QED
    BY <1>1, <2>1
<1>2. PICK k \in Seq(Nat) : k = g \o e
  BY <1>7, ConcatProperties
<1>3. /\ Append(s, m) = s \o <<m>> /\ <<m>> \in Seq(Nat)
      /\ Append(k \o s, m) = (k \o s) \o <<m>>
  <2>1. PICK l \in Seq(Nat) : l = k \o s
    BY ConcatProperties
  <2>2. Append(s, m) = s \o <<m>> /\ <<m>> \in Seq(Nat)
    OBVIOUS
  <2>3. Append(l, m) = l \o <<m>>
    OBVIOUS
  <2>4. QED
    BY <2>1, <2>2, <2>3
<1>4. k \o (s \o <<m>>) = (k \o s) \o <<m>>
  BY <1>3, ConcatAssociative
<1>5. Cat(g, h, Append(s, m)) = k \o Append(s, m) /\ Cat(g, h, s) = k \o s
  BY <1>1, <1>2 DEF Cat
<1>6. QED
  BY <1>3, <1>4, <1>5

\* A refused payload is left out; the rest keeps its order.
LEMMA CatRefuse ==
    ASSUME NEW g \in Seq(Nat), NEW s \in Seq(Nat), NEW h \in Nat \ {0}, Ordered(Cat(g, h, s))
    PROVE  /\ Ordered(Cat(g, 0, s))
           /\ \A m : m # h => (In(Cat(g, 0, s), m) <=> In(Cat(g, h, s), m))
           /\ \A m : In(Cat(g, 0, s), m) => In(Cat(g, h, s), m)
<1>1. PICK b \in Seq(Nat) :
          /\ b = Cat(g, h, s) /\ Len(b) = Len(g) + 1 + Len(s)
          /\ \A i \in 1..(Len(g) + 1 + Len(s)) :
                b[i] = IF i <= Len(g) THEN g[i] ELSE IF i = Len(g) + 1 THEN h
                    ELSE s[i - Len(g) - 1]
  BY CatWith
<1>2. PICK a \in Seq(Nat) :
          /\ a = Cat(g, 0, s) /\ Len(a) = Len(g) + Len(s)
          /\ \A i \in 1..(Len(g) + Len(s)) : a[i] = IF i <= Len(g) THEN g[i] ELSE s[i - Len(g)]
  BY CatWithout
<1>3. PICK p \in Nat, r \in Nat : p = Len(g) /\ r = Len(s)
  OBVIOUS
<1>4. b[p + 1] = h
  BY <1>1, <1>3
<1>10. DOMAIN a = 1..(p + r) /\ DOMAIN b = 1..(p + 1 + r)
  BY <1>1, <1>2, <1>3
<1>5. ASSUME NEW i \in 1..(p + r) PROVE a[i] = b[At(p, i)]
  <2>1. a[i] = IF i <= p THEN g[i] ELSE s[i - p]
    BY <1>2, <1>3
  <2>2. PICK k \in 1..(p + 1 + r) : k = At(p, i)
    BY AtGrows
  <2>3. b[k] = IF k <= p THEN g[k] ELSE IF k = p + 1 THEN h ELSE s[k - p - 1]
    BY <1>1, <1>3
  <2>4. CASE i <= p
    BY <2>1, <2>2, <2>3, <2>4 DEF At
  <2>5. CASE i > p
    <3>1. k = i + 1 /\ k - p - 1 = i - p
      BY <2>2, <2>5 DEF At
    <3>2. QED
      BY <2>1, <2>2, <2>3, <2>5, <3>1
  <2>6. QED
    BY <2>4, <2>5
<1>6. Ordered(b)
  BY <1>1
<1>11. Skips(a, b, p, r)
  BY <1>5, <1>10 DEF Skips
<1>7. /\ Ordered(a)
      /\ \A m : m # b[p + 1] => (In(a, m) <=> In(b, m))
      /\ \A m : In(a, m) => In(b, m)
  BY <1>6, <1>11, WithoutOne
<1>8. a = Cat(g, 0, s) /\ b = Cat(g, h, s) /\ b[p + 1] = h
  BY <1>1, <1>2, <1>4
<1>9. QED
  BY <1>7, <1>8

\* Appending a later element keeps a sequence in order.
LEMMA OrderedAppend ==
    ASSUME NEW q \in Seq(Nat), NEW m \in Nat, Ordered(q), \A i \in DOMAIN q : q[i] < m
    PROVE  /\ Ordered(Append(q, m))
           /\ \A n : In(Append(q, m), n) <=> In(q, n) \/ n = m
<1>1. /\ DOMAIN q = 1..Len(q) /\ DOMAIN Append(q, m) = 1..(Len(q) + 1) /\ Len(q) \in Nat
      /\ \A i \in 1..Len(q) : Append(q, m)[i] = q[i]
      /\ Append(q, m)[Len(q) + 1] = m
  OBVIOUS
<1> DEFINE a == Append(q, m)
<1>2. a[Len(q) + 1] = m /\ DOMAIN a = 1..(Len(q) + 1) /\ \A i \in DOMAIN q : a[i] = q[i]
  BY <1>1
<1> HIDE DEF a
<1>3. Ordered(a)
  BY <1>1, <1>2 DEF Ordered
<1>4. \A n : In(a, n) <=> In(q, n) \/ n = m
  BY <1>1, <1>2 DEF In
<1>5. QED
  BY <1>3, <1>4 DEF a

LEMMA OrderedTail ==
    ASSUME NEW q \in Seq(Nat), q # <<>>, Ordered(q)
    PROVE  /\ Ordered(Tail(q)) /\ \A i \in DOMAIN Tail(q) : Head(q) < Tail(q)[i]
           /\ \A n : In(q, n) <=> In(Tail(q), n) \/ n = Head(q)
<1>1. PICK n \in Nat \ {0} : n = Len(q)
  OBVIOUS
<1>2. Head(q) = q[1] /\ DOMAIN q = 1..n
  BY <1>1
<1>3. Len(Tail(q)) = n - 1 /\ Tail(q) \in Seq(Nat)
          /\ \A i \in 1..(n - 1) : Tail(q)[i] = q[i + 1]
  BY <1>1, HeadTailProperties
<1>4. DOMAIN Tail(q) = 1..(n - 1)
  BY <1>3
<1>5. PICK t : t = Tail(q)
  OBVIOUS
<1>6. \A i \in 1..(n - 1) : t[i] = q[i + 1]
  BY <1>3, <1>5
<1>7. DOMAIN t = 1..(n - 1)
  BY <1>4, <1>5
<1>8. /\ Ordered(t) /\ \A i \in DOMAIN t : q[1] < t[i]
      /\ \A m : In(q, m) <=> In(t, m) \/ m = q[1]
  BY <1>2, <1>6, <1>7, WithoutFirst
<1>9. QED
  BY <1>2, <1>5, <1>8

-----------------------------------------------------------------------------
\* What a step leaves of the invariant when it keeps to its own part of the state.
LEMMA SameStreams ==
    ASSUME UNCHANGED <<got, hand, send>>
    PROVE  \A c : Hub!Stream(c)' = Hub!Stream(c) /\ \A m : Hub!Holds(c, m)' = Hub!Holds(c, m)
BY DEF Hub!Stream, Hub!Holds

LEMMA OrderKept ==
    ASSUME InOrder, UNCHANGED <<published, feed, fan>>,
           \A c \in Clients : Ordered(Hub!Stream(c)'),
           \A c \in Clients, m \in Hub!Messages : Hub!Holds(c, m)' => Hub!Holds(c, m),
           published \in Seq(Channels)
    PROVE  InOrder'
<1>1. Hub!Messages = 1..Len(published)
  BY DEF Hub!Messages
<1>2. UNCHANGED published
  OBVIOUS
<1>3. Ordered(feed)' /\ \A c \in Clients : Ordered(Hub!Stream(c))'
  BY DEF InOrder, Ordered
<1>4. QED
  BY <1>1, <1>2, <1>3 DEF InOrder

LEMMA KnownKept ==
    ASSUME KnownIsSo, UNCHANGED <<published, fan, channels, view, command>>,
           \A c \in Clients : socket'[c] = "none" <=> socket[c] = "none"
    PROVE  KnownIsSo'
<1>1. \A c \in Clients : CommandKnown(c, command[c])'
  BY DEF KnownIsSo, KnownOf, CommandKnown
<1>2. QED
  BY <1>1 DEF KnownIsSo, KnownOf

\* A view that begins with this step speaks of no message there is.
Begins(c, ch) == view'[c][ch].at = Len(published)

LEMMA MissedKept ==
    ASSUME Hub!NothingIsMissed, UNCHANGED <<published, feed, fan>>, published \in Seq(Channels),
           \A c \in Clients, ch \in Channels :
               socket'[c] = "open" /\ view'[c][ch].is = "on" =>
                   (socket[c] = "open" /\ view'[c][ch] = view[c][ch]) \/ Begins(c, ch),
           \A c \in Clients, m \in Hub!Messages :
               (m \notin Malformed /\ Hub!Holds(c, m) => Hub!Holds(c, m)')
                   /\ (m \in dropped[c] => m \in dropped'[c]),
           losses > 0 => losses' > 0
    PROVE  Hub!NothingIsMissed'
<1> SUFFICES ASSUME NEW c \in Clients, NEW m \in Hub!Messages,
                    socket'[c] = "open", Hub!Handled(c, m)', m \notin Malformed,
                    view'[c][Hub!ChannelOf(m)].is = "on", m > view'[c][Hub!ChannelOf(m)].at
             PROVE  Hub!Holds(c, m)' \/ m \in dropped'[c] \/ losses' > 0
  BY DEF Hub!NothingIsMissed, Hub!Messages, Hub!ChannelOf
<1>1. m \in 1..Len(published) /\ Hub!ChannelOf(m) \in Channels
  BY DEF Hub!Messages, Hub!ChannelOf
<1>2. Hub!Handled(c, m)
  BY DEF Hub!Handled
<1>3. ~Begins(c, Hub!ChannelOf(m))
  BY <1>1 DEF Begins
<1>4. socket[c] = "open" /\ view[c][Hub!ChannelOf(m)] = view'[c][Hub!ChannelOf(m)]
  BY <1>1, <1>3
<1>5. Hub!Holds(c, m) \/ m \in dropped[c] \/ losses > 0
  BY <1>2, <1>4 DEF Hub!NothingIsMissed
<1>6. QED
  BY <1>5

LEMMA LeavingKept ==
    ASSUME Hub!NothingAfterLeaving, UNCHANGED published, published \in Seq(Channels),
           \A c \in Clients, ch \in Channels :
               view'[c][ch].is = "off" => view'[c][ch] = view[c][ch] \/ Begins(c, ch),
           \A c \in Clients, m \in Hub!Messages : Hub!Holds(c, m)' => Hub!Holds(c, m)
    PROVE  Hub!NothingAfterLeaving'
<1> SUFFICES ASSUME NEW c \in Clients, NEW m \in Hub!Messages, Hub!Holds(c, m)',
                    view'[c][Hub!ChannelOf(m)].is = "off", m > view'[c][Hub!ChannelOf(m)].at
             PROVE  FALSE
  BY DEF Hub!NothingAfterLeaving, Hub!Messages, Hub!ChannelOf
<1>1. m \in 1..Len(published) /\ Hub!ChannelOf(m) \in Channels
  BY DEF Hub!Messages, Hub!ChannelOf
<1>2. ~Begins(c, Hub!ChannelOf(m))
  BY <1>1 DEF Begins
<1>3. view'[c][Hub!ChannelOf(m)] = view[c][Hub!ChannelOf(m)] /\ Hub!Holds(c, m)
  BY <1>1, <1>2
<1>4. QED
  BY <1>3 DEF Hub!NothingAfterLeaving

\* The index keeps what it says when it and the channels stay, and nobody joins or leaves.
LEMMA IndexKept ==
    ASSUME Hub!IndexIsExact, UNCHANGED <<bySub, channels>>,
           \A c \in Clients :
               socket'[c] \in {"open", "closed"} <=> socket[c] \in {"open", "closed"}
    PROVE  Hub!IndexIsExact'
BY DEF Hub!IndexIsExact, Hub!Subs

\* With and Without, seen through Subs.
LEMMA SubsOfWith ==
    ASSUME NEW C \in SUBSET Channels, NEW c, bySub' = Hub!With(bySub, C, c), NEW ch \in Channels
    PROVE  /\ Hub!Subs(ch)' = Hub!Subs(ch) \cup (IF ch \in C THEN {c} ELSE {})
           /\ DOMAIN bySub' = DOMAIN bySub \cup C
           /\ ch \in DOMAIN bySub' => bySub'[ch] = Hub!Subs(ch)'
BY DEF Hub!With, Hub!Subs

LEMMA SubsOfWithout ==
    ASSUME NEW C \in SUBSET Channels, NEW c, bySub' = Hub!Without(bySub, C, c),
           NEW ch \in Channels,
           ch \in DOMAIN bySub => bySub[ch] # {}
    PROVE  /\ Hub!Subs(ch)' = IF ch \in C THEN Hub!Subs(ch) \ {c} ELSE Hub!Subs(ch)
           /\ DOMAIN bySub' \subseteq DOMAIN bySub
           /\ ch \in DOMAIN bySub' => bySub'[ch] # {}
<1> DEFINE rest(k) == IF k \in C THEN bySub[k] \ {c} ELSE bySub[k]
           D == {k \in DOMAIN bySub : rest(k) # {}}
<1>1. bySub' = [k \in D |-> rest(k)]
  BY DEF Hub!Without
<1>2. DOMAIN bySub' = D /\ \A k \in D : bySub'[k] = rest(k)
  BY <1>1
<1>3. CASE ch \in D
  BY <1>2, <1>3 DEF Hub!Subs
<1>4. CASE ch \notin D
  BY <1>2, <1>4 DEF Hub!Subs
<1>5. QED
  BY <1>2, <1>3, <1>4

-----------------------------------------------------------------------------
(* The steps. *)

LEMMA HubQuietStep ==
    ASSUME HInv, HubTypes', UNCHANGED <<published, feed, fan, channels, bySub, view, command,
                                        dropped, losses>>,
           \A c \in Clients :
               /\ socket'[c] = "none" <=> socket[c] = "none"
               /\ socket'[c] \in {"open", "closed"} <=> socket[c] \in {"open", "closed"}
               /\ socket'[c] = "open" => socket[c] = "open",
           \A c \in Clients : Ordered(Hub!Stream(c)'),
           \A c \in Clients, m \in Hub!Messages :
               /\ Hub!Holds(c, m)' => Hub!Holds(c, m)
               /\ m \notin Malformed /\ Hub!Holds(c, m) => Hub!Holds(c, m)'
    PROVE  HInv'
<1>1. published \in Seq(Channels)
  BY DEF HInv, HubTypes
<1>2. InOrder'
  BY <1>1, OrderKept DEF HInv
<1>3. KnownIsSo'
  BY KnownKept DEF HInv
<1>4. Hub!IndexIsExact'
  BY IndexKept DEF HInv
<1>5. Hub!NothingIsMissed'
  <2>1. \A c \in Clients, ch \in Channels :
            socket'[c] = "open" /\ view'[c][ch].is = "on" =>
                (socket[c] = "open" /\ view'[c][ch] = view[c][ch]) \/ Begins(c, ch)
    OBVIOUS
  <2>2. \A c \in Clients, m \in Hub!Messages :
            (m \notin Malformed /\ Hub!Holds(c, m) => Hub!Holds(c, m)')
                /\ (m \in dropped[c] => m \in dropped'[c])
    OBVIOUS
  <2>3. QED
    BY <1>1, <2>1, <2>2, MissedKept DEF HInv
<1>6. Hub!NothingAfterLeaving'
  <2>1. \A c \in Clients, ch \in Channels :
            view'[c][ch].is = "off" => view'[c][ch] = view[c][ch] \/ Begins(c, ch)
    OBVIOUS
  <2>2. QED
    BY <1>1, <2>1, LeavingKept DEF HInv
<1>7. QED
  BY <1>2, <1>3, <1>4, <1>5, <1>6 DEF HInv

\* The streams of a step of c are those of before, c's apart.
LEMMA OtherStreams ==
    ASSUME NEW c,
           \A d \in Clients \ {c} : got'[d] = got[d] /\ hand'[d] = hand[d] /\ send'[d] = send[d]
    PROVE  \A d \in Clients \ {c} : /\ Hub!Stream(d)' = Hub!Stream(d)
                                    /\ \A m : Hub!Holds(d, m)' = Hub!Holds(d, m)
BY DEF Hub!Stream, Hub!Holds

LEMMA HeadAndTail ==
    ASSUME NEW S, NEW q \in Seq(S), q # <<>>
    PROVE  Head(q) \in S /\ Tail(q) \in Seq(S) /\ Len(Tail(q)) = Len(q) - 1 /\ Len(q) \in Nat
BY HeadTailProperties

LEMMA ReceiveStep ==
    ASSUME HInv, NEW c \in Clients, Hub!Receive(c)
    PROVE  HInv'
<1>1. /\ hand[c] = 0 /\ send[c] # <<>> /\ hand' = [hand EXCEPT ![c] = Head(send[c])]
      /\ send' = [send EXCEPT ![c] = Tail(send[c])]
      /\ UNCHANGED <<published, feed, fan, socket, channels, bySub, command, got, view,
                     dropped, commands, losses>>
      /\ HubTypes
  BY DEF Hub!Receive, HInv
<1>2. PICK n \in Nat : n = Len(published)
  BY <1>1 DEF HubTypes
<1>3. send[c] \in Seq(1..n) /\ got[c] \in Seq(1..n) /\ send[c] \in Seq(Nat)
          /\ got[c] \in Seq(Nat)
  BY <1>1, <1>2 DEF HubTypes
<1>4. PICK q \in Seq(1..n) : q = send[c] /\ q # <<>>
  BY <1>1, <1>3
<1>5. Head(q) \in 1..n /\ Tail(q) \in Seq(1..n) /\ Len(Tail(q)) = Len(q) - 1 /\ Len(q) \in Nat
  BY <1>4, HeadAndTail
<1>6. HubTypes'
  <2>1. hand' \in [Clients -> 0..n] /\ send' \in [Clients -> Seq(1..n)]
    BY <1>1, <1>2, <1>4, <1>5 DEF HubTypes
  <2>2. \A d \in Clients : Len(send'[d]) <= Buffer
    BY <1>1, <1>4, <1>5, HubAssumption DEF HubTypes, Hub!HubConstants
  <2>3. QED
    BY <1>1, <1>2, <2>1, <2>2 DEF HubTypes
<1>7. Hub!Stream(c)' = Hub!Stream(c)
  <2>1. hand'[c] = Head(send[c]) /\ send'[c] = Tail(send[c]) /\ got'[c] = got[c]
            /\ Head(send[c]) # 0
    BY <1>1, <1>4, <1>5 DEF HubTypes
  <2>2. Cat(got[c], Head(send[c]), Tail(send[c])) = Cat(got[c], 0, send[c])
    BY <1>1, <1>3, <2>1, CatReceive
  <2>3. QED
    BY <1>1, <2>1, <2>2, StreamIsCat
<1>8. \A d \in Clients : /\ Hub!Stream(d)' = Hub!Stream(d)
                         /\ \A m : Hub!Holds(d, m)' = Hub!Holds(d, m)
  <2>1. \A d \in Clients \ {c} : got'[d] = got[d] /\ hand'[d] = hand[d] /\ send'[d] = send[d]
    BY <1>1 DEF HubTypes
  <2>2. \A m : Hub!Holds(c, m)' = Hub!Holds(c, m)
    BY <1>7, StreamIsCat
  <2>3. QED
    BY <1>7, <2>1, <2>2, OtherStreams
<1>9. \A d \in Clients : Ordered(Hub!Stream(d)')
  BY <1>8 DEF HInv, InOrder
<1>10. QED
  BY <1>1, <1>6, <1>8, <1>9, HubQuietStep

LEMMA WriteStep ==
    ASSUME HInv, NEW c \in Clients, Hub!Write(c)
    PROVE  HInv'
<1>1. /\ hand[c] # 0 /\ hand' = [hand EXCEPT ![c] = 0]
      /\ got' = IF hand[c] \in Malformed THEN got
             ELSE [got EXCEPT ![c] = Append(got[c], hand[c])]
      /\ UNCHANGED <<published, feed, fan, socket, channels, bySub, send, command, view,
                     dropped, commands, losses>>
      /\ HubTypes
  BY DEF Hub!Write, HInv
<1>2. PICK n \in Nat : n = Len(published)
  BY <1>1 DEF HubTypes
<1>3. PICK g \in Seq(1..n), s \in Seq(1..n), h \in 1..n : g = got[c] /\ s = send[c]
          /\ h = hand[c]
  BY <1>1, <1>2 DEF HubTypes
<1>4. g \in Seq(Nat) /\ s \in Seq(Nat) /\ h \in Nat \ {0}
  BY <1>2
<1>5. Append(g, h) \in Seq(1..n)
  OBVIOUS
<1>6. HubTypes'
  <2>1. hand' \in [Clients -> 0..n] /\ got' \in [Clients -> Seq(1..n)]
    BY <1>1, <1>2, <1>3, <1>5 DEF HubTypes
  <2>2. QED
    BY <1>1, <1>2, <2>1 DEF HubTypes
<1>7. Hub!Stream(c) = Cat(g, h, s) /\ Ordered(Hub!Stream(c))
          /\ \A m : Hub!Holds(c, m) = In(Cat(g, h, s), m)
  BY <1>3, StreamIsCat DEF HInv, InOrder
<1>8. hand'[c] = 0 /\ send'[c] = s
  BY <1>1, <1>3 DEF HubTypes
<1>9. /\ Ordered(Hub!Stream(c)')
      /\ \A m : Hub!Holds(c, m)' => Hub!Holds(c, m)
      /\ \A m : m \notin Malformed /\ Hub!Holds(c, m) => Hub!Holds(c, m)'
  <2>1. CASE h \in Malformed
    <3>1. Hub!Stream(c)' = Cat(g, 0, s) /\ \A m : Hub!Holds(c, m)' = In(Cat(g, 0, s), m)
      BY <1>1, <1>3, <1>8, <2>1, StreamIsCat
    <3>2. /\ Ordered(Cat(g, 0, s))
          /\ \A m : m # h => (In(Cat(g, 0, s), m) <=> In(Cat(g, h, s), m))
          /\ \A m : In(Cat(g, 0, s), m) => In(Cat(g, h, s), m)
      BY <1>4, <1>7, CatRefuse
    <3>3. QED
      BY <1>7, <2>1, <3>1, <3>2
  <2>2. CASE h \notin Malformed
    <3>1. got'[c] = Append(g, h)
      BY <1>1, <1>3, <2>2 DEF HubTypes
    <3>4. Hub!Stream(c)' = Cat(Append(g, h), 0, s)
      BY <1>8, <3>1, StreamIsCat
    <3>5. Cat(Append(g, h), 0, s) = Cat(g, h, s)
      BY <1>4, CatWrite
    <3>2. Hub!Stream(c)' = Cat(g, h, s)
      BY <3>4, <3>5
    <3>3. QED
      BY <1>7, <3>2, StreamIsCat
  <2>3. QED
    BY <2>1, <2>2
<1>10. \A d \in Clients \ {c} : /\ Hub!Stream(d)' = Hub!Stream(d)
                                /\ \A m : Hub!Holds(d, m)' = Hub!Holds(d, m)
  <2>1. \A d \in Clients \ {c} : got'[d] = got[d] /\ hand'[d] = hand[d] /\ send'[d] = send[d]
    BY <1>1 DEF HubTypes
  <2>2. QED
    BY <2>1, OtherStreams
<1>11. \A d \in Clients : Ordered(Hub!Stream(d)')
  BY <1>9, <1>10 DEF HInv, InOrder
<1>12. QED
  BY <1>1, <1>6, <1>9, <1>10, <1>11, HubQuietStep

LEMMA CloseStep ==
    ASSUME HInv, NEW c \in Clients, Hub!Close(c)
    PROVE  HInv'
<1>1. /\ socket[c] = "open" /\ socket' = [socket EXCEPT ![c] = "closed"]
      /\ UNCHANGED <<published, feed, fan, channels, bySub, send, hand, command, got, view,
                     dropped, commands, losses>>
      /\ HubTypes
  BY DEF Hub!Close, HInv
<1>2. HubTypes'
  BY <1>1 DEF HubTypes
<1>3. \A d \in Clients :
          /\ socket'[d] = "none" <=> socket[d] = "none"
          /\ socket'[d] \in {"open", "closed"} <=> socket[d] \in {"open", "closed"}
          /\ socket'[d] = "open" => socket[d] = "open"
  BY <1>1 DEF HubTypes
<1>4. \A d \in Clients : /\ Hub!Stream(d)' = Hub!Stream(d)
                         /\ \A m : Hub!Holds(d, m)' = Hub!Holds(d, m)
  BY <1>1, SameStreams
<1>5. \A d \in Clients : Ordered(Hub!Stream(d)')
  BY <1>4 DEF HInv, InOrder
<1>6. QED
  BY <1>1, <1>2, <1>3, <1>4, <1>5, HubQuietStep
\* A step that leaves the streams alone.
LEMMA StreamsStay ==
    ASSUME HInv, HubTypes', Hub!IndexIsExact', KnownIsSo',
           UNCHANGED <<published, feed, fan, send, hand, got, dropped, losses>>,
           \A c \in Clients, ch \in Channels :
               socket'[c] = "open" /\ view'[c][ch].is = "on" =>
                   (socket[c] = "open" /\ view'[c][ch] = view[c][ch]) \/ Begins(c, ch),
           \A c \in Clients, ch \in Channels :
               view'[c][ch].is = "off" => view'[c][ch] = view[c][ch] \/ Begins(c, ch)
    PROVE  HInv'
<1>1. published \in Seq(Channels)
  BY DEF HInv, HubTypes
<1>2. \A c : Hub!Stream(c)' = Hub!Stream(c) /\ \A m : Hub!Holds(c, m)' = Hub!Holds(c, m)
  BY SameStreams
<1>3. InOrder'
  <2>1. \A c \in Clients : Ordered(Hub!Stream(c)')
    BY <1>2 DEF HInv, InOrder
  <2>2. QED
    BY <1>1, <1>2, <2>1, OrderKept DEF HInv
<1>4. Hub!NothingIsMissed'
  <2>1. \A c \in Clients, m \in Hub!Messages :
            (m \notin Malformed /\ Hub!Holds(c, m) => Hub!Holds(c, m)')
                /\ (m \in dropped[c] => m \in dropped'[c])
    BY <1>2
  <2>2. QED
    BY <1>1, <2>1, MissedKept DEF HInv
<1>5. Hub!NothingAfterLeaving'
  BY <1>1, <1>2, LeavingKept DEF HInv
<1>6. QED
  BY <1>3, <1>4, <1>5 DEF HInv

LEMMA RemoveStep ==
    ASSUME HInv, NEW c \in Clients, Hub!Remove(c)
    PROVE  HInv'
<1>1. /\ socket[c] = "closed" /\ socket' = [socket EXCEPT ![c] = "removed"]
      /\ bySub' = Hub!Without(bySub, channels[c], c)
      /\ UNCHANGED <<published, feed, fan, channels, send, hand, command, got, view, dropped,
                     commands, losses>>
      /\ HubTypes /\ Hub!IndexIsExact
  BY DEF Hub!Remove, HInv
<1>2. channels[c] \in SUBSET Channels
  BY <1>1 DEF HubTypes
<1>3. \A ch \in Channels :
          /\ Hub!Subs(ch)' = IF ch \in channels[c] THEN Hub!Subs(ch) \ {c} ELSE Hub!Subs(ch)
          /\ DOMAIN bySub' \subseteq DOMAIN bySub
          /\ ch \in DOMAIN bySub' => bySub'[ch] # {}
  BY <1>1, <1>2, SubsOfWithout DEF Hub!IndexIsExact
<1>4. DOMAIN bySub' \subseteq Channels
  BY <1>1 DEF HubTypes, Hub!Without
<1>5. HubTypes'
  BY <1>1, <1>4 DEF HubTypes
<1>6. \A d \in Clients : socket'[d] = IF d = c THEN "removed" ELSE socket[d]
  BY <1>1 DEF HubTypes
<1>7. Hub!IndexIsExact'
  BY <1>1, <1>3, <1>6 DEF Hub!IndexIsExact
<1>8. KnownIsSo'
  <2>1. \A d \in Clients : socket'[d] = "none" <=> socket[d] = "none"
    BY <1>1, <1>6
  <2>2. QED
    BY <1>1, <2>1, KnownKept DEF HInv
<1>9. QED
  BY <1>1, <1>5, <1>6, <1>7, <1>8, StreamsStay

LEMMA AddStep ==
    ASSUME HInv, NEW c \in Clients, Hub!Add(c)
    PROVE  HInv'
<1>1. /\ socket[c] = "none" /\ socket' = [socket EXCEPT ![c] = "open"]
      /\ bySub' = Hub!With(bySub, channels[c], c)
      /\ view' = [view EXCEPT ![c] = [ch \in Channels |->
             [is |-> IF ch \in channels[c] THEN "on" ELSE "off", at |-> Len(published)]]]
      /\ UNCHANGED <<published, feed, fan, channels, send, hand, command, got, dropped,
                     commands, losses>>
      /\ HubTypes /\ Hub!IndexIsExact /\ KnownIsSo
  BY DEF Hub!Add, HInv
<1>2. channels[c] \in SUBSET Channels /\ Len(published) \in Nat
  BY <1>1 DEF HubTypes
<1>3. \A ch \in Channels :
          /\ Hub!Subs(ch)' = Hub!Subs(ch) \cup (IF ch \in channels[c] THEN {c} ELSE {})
          /\ DOMAIN bySub' = DOMAIN bySub \cup channels[c]
          /\ ch \in DOMAIN bySub => bySub'[ch] = Hub!Subs(ch)'
  BY <1>1, <1>2, SubsOfWith
<1>4. DOMAIN bySub' \subseteq Channels
  BY <1>1, <1>2 DEF HubTypes, Hub!With
<1>5. /\ \A d \in Clients : socket'[d] = IF d = c THEN "open" ELSE socket[d]
      /\ \A d \in Clients \ {c} : view'[d] = view[d]
      /\ \A ch \in Channels : view'[c][ch] =
             [is |-> IF ch \in channels[c] THEN "on" ELSE "off", at |-> Len(published)]
  BY <1>1 DEF HubTypes
<1>11. \A ch \in Channels :
          /\ view'[c][ch].is = "on" => ch \in channels[c]
          /\ view'[c][ch].is = "off" => ch \notin channels[c]
          /\ view'[c][ch].at = Len(published)
  <2>1. TAKE ch \in Channels
  <2>2. view'[c][ch] =
            [is |-> IF ch \in channels[c] THEN "on" ELSE "off", at |-> Len(published)]
    BY <1>5
  <2>3. CASE ch \in channels[c]
    BY <2>2, <2>3
  <2>4. CASE ch \notin channels[c]
    BY <2>2, <2>4
  <2>5. QED
    BY <2>3, <2>4
<1>6. HubTypes'
  <2>1. view' \in [Clients -> [Channels -> View(Len(published))]]
    <3>1. [ch \in Channels |->
              [is |-> IF ch \in channels[c] THEN "on" ELSE "off", at |-> Len(published)]]
              \in [Channels -> View(Len(published))]
      BY <1>2 DEF View
    <3>2. QED
      BY <1>1, <3>1 DEF HubTypes
  <2>2. QED
    BY <1>1, <1>4, <2>1 DEF HubTypes
<1>7. Hub!IndexIsExact'
  <2>1. ASSUME NEW ch \in Channels
        PROVE  Hub!Subs(ch)' = {d \in Clients : socket'[d] \in {"open", "closed"}
                   /\ ch \in channels[d]}
    BY <1>1, <1>3, <1>5 DEF Hub!IndexIsExact
  <2>2. ASSUME NEW ch \in Channels, ch \in DOMAIN bySub' PROVE bySub'[ch] # {}
    <3>1. bySub'[ch] = Hub!Subs(ch)'
      BY <2>2 DEF Hub!Subs
    <3>2. CASE ch \in DOMAIN bySub
      BY <1>1, <1>3, <3>1, <3>2 DEF Hub!IndexIsExact, Hub!Subs
    <3>3. CASE ch \in channels[c]
      BY <1>3, <3>1, <3>3
    <3>4. QED
      BY <1>3, <2>2, <3>2, <3>3
  <2>3. QED
    BY <1>1, <2>1, <2>2 DEF Hub!IndexIsExact
<1>8. KnownIsSo'
  <2>1. ASSUME NEW d \in Clients, d # c PROVE KnownOf(d)'
    BY <1>1, <1>5, <2>1 DEF KnownIsSo, KnownOf, CommandKnown
  <2>2. CommandKnown(c, command[c])' /\ command[c] = Hub!NoCommand
    BY <1>1 DEF KnownIsSo, KnownOf, CommandKnown, Hub!NoCommand
  <2>4. fan.message <= Len(published)
    BY <1>1 DEF HubTypes
  <2>5. KnownOf(c)'
    BY <1>1, <1>11, <2>2, <2>4 DEF KnownOf
  <2>6. QED
    BY <2>1, <2>5 DEF KnownIsSo
<1>9. \A d \in Clients, ch \in Channels :
          \/ (socket'[d] = "open" => socket[d] = "open") /\ view'[d][ch] = view[d][ch]
          \/ Begins(d, ch)
  BY <1>5, <1>11 DEF Begins
<1>10. QED
  BY <1>1, <1>5, <1>6, <1>7, <1>8, <1>9, StreamsStay

LEMMA KnowsOne ==
    ASSUME HubTypes, NEW c \in Clients, NEW ch \in Channels,
           NEW is \in {"on", "off", "joining", "leaving"}, Hub!Knows(c, ch, is)
    PROVE  /\ view' \in [Clients -> [Channels -> View(Len(published))]]
           /\ view'[c][ch].is = is /\ view'[c][ch].at = Len(published) /\ Begins(c, ch)
           /\ \A d \in Clients, k \in Channels : d # c \/ k # ch => view'[d][k] = view[d][k]
<1>1. PICK n \in Nat : n = Len(published)
  BY DEF HubTypes
<1> DEFINE V == View(n)
           v == [is |-> is, at |-> n]
<1>2. view \in [Clients -> [Channels -> V]] /\ v \in V /\ v.is = is /\ v.at = n
  BY <1>1 DEF HubTypes, View
<1>3. view' = [view EXCEPT ![c] = [view[c] EXCEPT ![ch] = v]]
  BY <1>1 DEF Hub!Knows
<1> HIDE DEF V, v
<1>4. view' \in [Clients -> [Channels -> V]] /\ view'[c][ch] = v
  BY <1>2, <1>3
<1>5. \A d \in Clients, k \in Channels : d # c \/ k # ch => view'[d][k] = view[d][k]
  BY <1>2, <1>3
<1>6. QED
  BY <1>1, <1>2, <1>4, <1>5 DEF Begins, V
\* Of a client, what it knows depends on its own part of the state.
LEMMA KnownOfOthers ==
    ASSUME KnownIsSo, NEW d \in Clients, UNCHANGED <<published, fan>>,
           socket'[d] = "none" <=> socket[d] = "none",
           channels'[d] = channels[d], command'[d] = command[d],
           \A ch \in Channels : view'[d][ch] = view[d][ch], HubTypes
    PROVE  KnownOf(d)'
<1>1. KnownOf(d)
  BY DEF KnownIsSo
<1>2. command[d] = Hub!NoCommand \/ command[d].channel \in Channels
  BY DEF HubTypes, Commands
<1>3. CommandKnown(d, command[d])'
  BY <1>1, <1>2 DEF KnownOf, CommandKnown, Hub!NoCommand
<1>4. QED
  BY <1>1, <1>3 DEF KnownOf

LEMMA SendStep ==
    ASSUME HInv, NEW c \in Clients, NEW do \in {"subscribe", "unsubscribe"},
           NEW ch \in Channels,
           Hub!Send(c, do, ch)
    PROVE  HInv'
<1> DEFINE q == [do |-> do, channel |-> ch, at |-> "server"]
<1>1. /\ socket[c] = "open" /\ command[c] = Hub!NoCommand
      /\ commands < MaxCommands /\ commands' = commands + 1
      /\ command' = [command EXCEPT ![c] = q]
      /\ UNCHANGED <<published, feed, fan, socket, channels, bySub, send, hand, got, dropped,
                     losses>>
      /\ HubTypes /\ Hub!IndexIsExact /\ KnownIsSo
  BY DEF Hub!Send, HInv
<1>2. \/ do = "subscribe" /\ view[c][ch].is = "on" /\ UNCHANGED view
      \/ do = "subscribe" /\ Hub!Knows(c, ch, "joining")
      \/ do = "unsubscribe" /\ Hub!Knows(c, ch, "leaving")
  BY DEF Hub!Send
<1>3. /\ q \in Commands
      /\ q.do = do /\ q.channel = ch /\ q.at = "server"
  BY DEF Commands
<1> HIDE DEF q
<1>4. /\ view' \in [Clients -> [Channels -> View(Len(published))]]
      /\ \A d \in Clients, k \in Channels :
             \/ view'[d][k] = view[d][k]
             \/ d = c /\ k = ch /\ view'[d][k].is \in {"joining", "leaving"}
      /\ q.do = "subscribe" => view'[c][ch].is \in {"joining", "on"}
      /\ q.do = "unsubscribe" => view'[c][ch].is = "leaving"
  <2>1. CASE do = "subscribe" /\ view[c][ch].is = "on" /\ UNCHANGED view
    BY <1>1, <1>3, <2>1 DEF HubTypes
  <2>2. CASE do = "subscribe" /\ Hub!Knows(c, ch, "joining")
    BY <1>1, <1>3, <2>2, KnowsOne
  <2>3. CASE do = "unsubscribe" /\ Hub!Knows(c, ch, "leaving")
    BY <1>1, <1>3, <2>3, KnowsOne
  <2>4. QED
    BY <1>2, <2>1, <2>2, <2>3
<1>5. command'[c] = q /\ \A d \in Clients \ {c} : command'[d] = command[d]
  BY <1>1 DEF HubTypes
<1>6. HubTypes'
  <2>1. command' \in [Clients -> {Hub!NoCommand} \cup Commands]
    BY <1>1, <1>3 DEF HubTypes
  <2>2. commands' \in 0..MaxCommands
    BY <1>1, HubAssumption DEF HubTypes, Hub!HubConstants
  <2>3. QED
    BY <1>1, <1>4, <2>1, <2>2 DEF HubTypes
<1>7. Hub!IndexIsExact'
  BY <1>1, IndexKept
<1>8. KnownIsSo'
  <2>1. ASSUME NEW d \in Clients, d # c PROVE KnownOf(d)'
    BY <1>1, <1>4, <1>5, <2>1, KnownOfOthers
  <2>2. CommandKnown(c, q)'
    BY <1>3, <1>4 DEF CommandKnown
  <2>3. \A k \in Channels : view'[c][k].is \in {"on", "off"} => view'[c][k] = view[c][k]
    BY <1>4
  <2>4. KnownOf(c)'
    BY <1>1, <1>5, <2>2, <2>3 DEF KnownIsSo, KnownOf
  <2>5. QED
    BY <2>1, <2>4 DEF KnownIsSo
<1>9. \A d \in Clients, k \in Channels : view'[d][k].is \in {"on", "off"} =>
          view'[d][k] = view[d][k]
  BY <1>4
<1>10. QED
  BY <1>1, <1>6, <1>7, <1>8, <1>9, StreamsStay

LEMMA ReadStep ==
    ASSUME HInv, NEW c \in Clients, Hub!Read(c)
    PROVE  HInv'
<1>1. /\ socket[c] = "open" /\ command[c].do # "none" /\ command[c].at = "server"
      /\ Hub!Subscribe(c) \/ Hub!Unsubscribe(c)
      /\ command' = [command EXCEPT ![c].at = "client"]
      /\ UNCHANGED <<published, feed, fan, socket, send, hand, got, view, dropped, commands,
                     losses>>
      /\ HubTypes /\ Hub!IndexIsExact /\ KnownIsSo
  BY DEF Hub!Read, HInv
<1>2. PICK q \in Commands :
          command[c] = q
  BY <1>1 DEF HubTypes, Hub!NoCommand
<1>3. PICK ch \in Channels : ch = q.channel
  BY <1>2 DEF Commands
<1>4. PICK r \in Commands :
          r = [q EXCEPT !.at = "client"] /\ r.do = q.do /\ r.channel = ch /\ r.at = "client"
  <2>1. [q EXCEPT !.at = "client"] = [do |-> q.do, channel |-> q.channel, at |-> "client"]
    BY DEF Commands
  <2>2. [do |-> q.do, channel |-> q.channel, at |-> "client"] \in Commands
    BY DEF Commands
  <2>3. QED
    BY <1>3, <2>1, <2>2
<1>5. /\ command' = [command EXCEPT ![c] = r]
      /\ command'[c] = r /\ \A d \in Clients \ {c} : command'[d] = command[d]
  BY <1>1, <1>2, <1>4 DEF HubTypes
<1>6. \/ q.do = "subscribe" /\ channels' = [channels EXCEPT ![c] = channels[c] \cup {ch}]
            /\ bySub' = Hub!With(bySub, {ch}, c)
      \/ q.do = "unsubscribe" /\ channels' = [channels EXCEPT ![c] = channels[c] \ {ch}]
            /\ bySub' = Hub!Without(bySub, {ch}, c)
  BY <1>2, <1>3 DEF Hub!Read, Hub!Subscribe, Hub!Unsubscribe
<1>7. /\ \A d \in Clients \ {c} : channels'[d] = channels[d]
      /\ \A k \in Channels \ {ch} : k \in channels'[c] <=> k \in channels[c]
      /\ q.do = "subscribe" => ch \in channels'[c]
      /\ q.do = "unsubscribe" => ch \notin channels'[c]
      /\ channels' \in [Clients -> SUBSET Channels]
  <2>1. PICK C \in SUBSET Channels : C = channels[c]
    BY <1>1 DEF HubTypes
  <2>2. CASE q.do = "subscribe"
    <3>1. channels' = [channels EXCEPT ![c] = C \cup {ch}]
      BY <1>6, <2>1, <2>2
    <3>2. QED
      BY <1>1, <2>1, <2>2, <3>1 DEF HubTypes
  <2>3. CASE q.do = "unsubscribe"
    <3>1. channels' = [channels EXCEPT ![c] = C \ {ch}]
      BY <1>6, <2>1, <2>3
    <3>2. QED
      BY <1>1, <2>1, <2>3, <3>1 DEF HubTypes
  <2>4. QED
    BY <1>2, <2>2, <2>3 DEF Commands
<1>8. /\ \A k \in Channels :
             Hub!Subs(k)' = IF k # ch THEN Hub!Subs(k)
                            ELSE IF q.do = "subscribe" THEN Hub!Subs(k) \cup {c}
                                ELSE Hub!Subs(k) \ {c}
      /\ DOMAIN bySub' \subseteq Channels
      /\ \A k \in DOMAIN bySub' : bySub'[k] # {}
  <2>1. DOMAIN bySub \subseteq Channels /\ \A k \in DOMAIN bySub : bySub[k] # {}
    BY <1>1 DEF HubTypes, Hub!IndexIsExact
  <2>2. CASE q.do = "subscribe"
    <3>1. bySub' = Hub!With(bySub, {ch}, c)
      BY <1>6, <2>2
    <3>2. ASSUME NEW k \in Channels
          PROVE  /\ Hub!Subs(k)' = Hub!Subs(k) \cup (IF k \in {ch} THEN {c} ELSE {})
                 /\ DOMAIN bySub' = DOMAIN bySub \cup {ch}
      <4>1. {ch} \in SUBSET Channels
        OBVIOUS
      <4>2. QED
        BY ONLY <3>1, <4>1, SubsOfWith, k \in Channels
    <3>3. ASSUME NEW k \in DOMAIN bySub' PROVE bySub'[k] # {}
      <4>1. /\ k \in Channels /\ bySub'[k] = Hub!Subs(k)'
            /\ k = ch \/ (k \in DOMAIN bySub /\ bySub[k] = Hub!Subs(k))
        BY <1>1, <3>2, <3>3 DEF HubTypes, Hub!Subs
      <4>2. QED
        BY <2>1, <3>2, <4>1
    <3>4. QED
      BY <1>3, <2>1, <2>2, <3>2, <3>3, ZenonT(30)
  <2>3. CASE q.do = "unsubscribe"
    <3>1. bySub' = Hub!Without(bySub, {ch}, c)
      BY <1>6, <2>3
    <3>2. ASSUME NEW k \in Channels
          PROVE  /\ Hub!Subs(k)' = IF k \in {ch} THEN Hub!Subs(k) \ {c} ELSE Hub!Subs(k)
                 /\ DOMAIN bySub' \subseteq DOMAIN bySub
                 /\ k \in DOMAIN bySub' => bySub'[k] # {}
      BY <2>1, <3>1, SubsOfWithout
    <3>3. QED
      BY <1>3, <2>1, <2>3, <3>2
  <2>4. QED
    BY <1>2, <2>2, <2>3 DEF Commands
<1>9. HubTypes'
  <2>1. command' \in [Clients -> {Hub!NoCommand} \cup Commands]
    BY <1>1, <1>4, <1>5 DEF HubTypes
  <2>2. QED
    BY <1>1, <1>7, <1>8, <2>1 DEF HubTypes
<1>10. Hub!IndexIsExact'
  <2>1. ASSUME NEW k \in Channels
        PROVE  Hub!Subs(k)' = {d \in Clients : socket[d] \in {"open", "closed"}
                   /\ k \in channels'[d]}
    <3>1. Hub!Subs(k) = {d \in Clients : socket[d] \in {"open", "closed"} /\ k \in channels[d]}
      BY <1>1 DEF Hub!IndexIsExact
    <3>2. CASE k # ch
      BY <1>7, <1>8, <3>1, <3>2
    <3>3. CASE k = ch /\ q.do = "subscribe"
      BY <1>1, <1>7, <1>8, <3>1, <3>3
    <3>4. CASE k = ch /\ q.do = "unsubscribe"
      BY <1>1, <1>7, <1>8, <3>1, <3>4
    <3>5. QED
      BY <1>2, <3>2, <3>3, <3>4 DEF Commands
  <2>2. QED
    BY <1>1, <1>8, <2>1 DEF Hub!IndexIsExact
<1>11. KnownIsSo'
  <2>1. ASSUME NEW d \in Clients, d # c PROVE KnownOf(d)'
    BY <1>1, <1>5, <1>7, <2>1, KnownOfOthers
  <2>2. KnownOf(c)
    BY <1>1 DEF KnownIsSo
  <2>3. CommandKnown(c, q)
    BY <1>2, <2>2 DEF KnownOf
  <2>4. CommandKnown(c, r)'
    BY <1>1, <1>3, <1>4, <1>7, <2>3 DEF CommandKnown
  <2>5. (view[c][ch].is \in {"joining", "on"} /\ q.do = "subscribe")
            \/ view[c][ch].is = "leaving"
    BY <1>2, <1>3, <2>3 DEF CommandKnown, Commands
  <2>6. \A k \in Channels :
            /\ view[c][k].is = "on" => k \in channels'[c]
            /\ view[c][k].is = "off" => k \notin channels'[c]
    BY <1>1, <1>7, <2>2, <2>5 DEF KnownOf
  <2>7. KnownOf(c)'
    BY <1>1, <1>5, <2>2, <2>4, <2>6 DEF KnownOf
  <2>8. QED
    BY <2>1, <2>7 DEF KnownIsSo
<1>12. QED
  BY <1>1, <1>9, <1>10, <1>11, StreamsStay

LEMMA AckStep ==
    ASSUME HInv, NEW c \in Clients, Hub!Ack(c)
    PROVE  HInv'
<1>1. /\ socket[c] = "open" /\ command[c].do # "none" /\ command[c].at = "client"
      /\ command' = [command EXCEPT ![c] = Hub!NoCommand]
      /\ UNCHANGED <<published, feed, fan, socket, channels, bySub, send, hand, got, dropped,
                     commands, losses>>
      /\ HubTypes /\ Hub!IndexIsExact /\ KnownIsSo
  BY DEF Hub!Ack, HInv
<1>2. PICK q \in Commands :
          command[c] = q
  BY <1>1 DEF HubTypes, Hub!NoCommand
<1>3. PICK ch \in Channels : ch = q.channel
  BY <1>2 DEF Commands
<1>4. \/ q.do = "subscribe" /\ UNCHANGED view
      \/ q.do = "subscribe" /\ Hub!Knows(c, ch, "on")
      \/ q.do = "unsubscribe" /\ Hub!Knows(c, ch, "off")
  BY <1>2, <1>3 DEF Hub!Ack, Commands
<1>5. KnownOf(c) /\ CommandKnown(c, q)
  BY <1>1, <1>2 DEF KnownIsSo, KnownOf
<1>6. /\ q.do = "subscribe" => ch \in channels[c]
      /\ q.do = "unsubscribe" => ch \notin channels[c]
  BY <1>1, <1>2, <1>3, <1>5 DEF CommandKnown
<1>7. /\ view' \in [Clients -> [Channels -> View(Len(published))]]
      /\ \A d \in Clients, k \in Channels :
             view'[d][k] = view[d][k]
             \/ /\ d = c /\ k = ch /\ Begins(d, k)
                /\ view'[d][k].is = "on" => ch \in channels[c]
                /\ view'[d][k].is = "off" => ch \notin channels[c]
  <2>1. CASE UNCHANGED view
    BY <1>1, <2>1 DEF HubTypes
  <2>2. CASE q.do = "subscribe" /\ Hub!Knows(c, ch, "on")
    BY <1>1, <1>6, <2>2, KnowsOne
  <2>3. CASE q.do = "unsubscribe" /\ Hub!Knows(c, ch, "off")
    BY <1>1, <1>6, <2>3, KnowsOne
  <2>4. QED
    BY <1>4, <2>1, <2>2, <2>3
<1>8. command'[c] = Hub!NoCommand /\ \A d \in Clients \ {c} : command'[d] = command[d]
  BY <1>1 DEF HubTypes
<1>9. HubTypes'
  <2>1. command' \in [Clients -> {Hub!NoCommand} \cup Commands]
    BY <1>1 DEF HubTypes
  <2>2. QED
    BY <1>1, <1>7, <2>1 DEF HubTypes
<1>10. Hub!IndexIsExact'
  BY <1>1, IndexKept
<1>11. KnownIsSo'
  <2>1. ASSUME NEW d \in Clients, d # c PROVE KnownOf(d)'
    BY <1>1, <1>7, <1>8, <2>1, KnownOfOthers
  <2>2. CommandKnown(c, Hub!NoCommand)'
    BY DEF CommandKnown, Hub!NoCommand
  <2>3. fan.message <= Len(published)
    BY <1>1 DEF HubTypes
  <2>4. \A k \in Channels :
            /\ view'[c][k].is = "on" => k \in channels[c]
            /\ view'[c][k].is = "off" => k \notin channels[c]
            /\ view'[c][k].is = "off" /\ c \in fan.left /\ published[fan.message] = k =>
                  fan.message <= view'[c][k].at
    BY <1>1, <1>5, <1>7, <2>3 DEF KnownOf, Begins
  <2>5. KnownOf(c)'
    BY <1>1, <1>8, <2>2, <2>4 DEF KnownOf
  <2>6. QED
    BY <2>1, <2>5 DEF KnownIsSo
<1>12. QED
  BY <1>1, <1>7, <1>9, <1>10, <1>11, StreamsStay
LEMMA StreamTypes ==
    ASSUME HubTypes
    PROVE  \A c \in Clients :
               /\ Hub!Stream(c) \in Seq(1..Len(published)) /\ Hub!Stream(c) \in Seq(Nat)
               /\ \A m : Hub!Holds(c, m) => m \in 1..Len(published)
<1>1. TAKE c \in Clients
<1>2. PICK n \in Nat : n = Len(published)
  BY DEF HubTypes
<1>3. PICK g \in Seq(1..n), s \in Seq(1..n), h \in 0..n : g = got[c] /\ s = send[c]
          /\ h = hand[c]
  BY <1>2 DEF HubTypes
<1>4. PICK e \in Seq(1..n) : e = IF h = 0 THEN <<>> ELSE <<h>>
  <2>1. CASE h = 0
    <3>1. <<>> \in Seq(1..n)
      OBVIOUS
    <3>2. QED
      BY <2>1, <3>1
  <2>2. CASE h # 0
    <3>1. h \in 1..n
      BY <2>2
    <3>2. <<h>> \in Seq(1..n)
      BY <3>1
    <3>3. QED
      BY <2>2, <3>2
  <2>3. QED
    BY <2>1, <2>2
<1>5. Hub!Stream(c) = g \o e \o s
  BY <1>3, <1>4 DEF Hub!Stream
<1>6. PICK k \in Seq(1..n) : k = g \o e
  BY ConcatProperties
<1>7. PICK q \in Seq(1..n) : q = k \o s
  BY ConcatProperties
<1>8. q \in Seq(Nat) /\ \A i \in DOMAIN q : q[i] \in 1..n
  OBVIOUS
<1>9. q = Hub!Stream(c)
  BY <1>5, <1>6, <1>7
<1>10. QED
  BY <1>2, <1>8, <1>9 DEF Hub!Holds

LEMMA PublishStep ==
    ASSUME HInv, NEW ch \in Channels, Hub!Publish(ch)
    PROVE  HInv'
<1>1. /\ published' = Append(published, ch)
      /\ UNCHANGED <<fan, socket, channels, bySub, send, hand, command, got, view, dropped,
                     commands>>
      /\ HubTypes /\ Hub!IndexIsExact /\ InOrder /\ KnownIsSo /\ Hub!NothingIsMissed
             /\ Hub!NothingAfterLeaving
  BY DEF Hub!Publish, HInv
<1>2. PICK n \in Nat : n = Len(published)
  BY <1>1 DEF HubTypes
<1>3. /\ published' \in Seq(Channels) /\ Len(published') = n + 1
      /\ \A m \in 1..n : published'[m] = published[m]
      /\ published'[n + 1] = ch
      /\ Hub!Messages = 1..n /\ Hub!Messages' = 1..(n + 1)
  BY <1>1, <1>2 DEF HubTypes, Hub!Messages
<1>4. \/ feed' = Append(feed, n + 1) /\ losses' = losses
      \/ losses < MaxLosses /\ losses' = losses + 1 /\ feed' = feed
  BY <1>3 DEF Hub!Publish
<1>5. feed \in Seq(1..n) /\ feed \in Seq(Nat) /\ \A i \in DOMAIN feed : feed[i] < n + 1
  <2>1. feed \in Seq(1..n)
    BY <1>1, <1>2 DEF HubTypes
  <2>2. QED
    BY <2>1
<1>6. /\ Ordered(feed')
      /\ \A m : In(feed, m) => In(feed', m)
      /\ \A m : In(feed', m) => In(feed, m) \/ m = n + 1
      /\ In(feed', n + 1) \/ (losses' \in Nat /\ losses' > 0)
      /\ losses' >= losses /\ losses' \in 0..MaxLosses
      /\ feed' \in Seq(1..(n + 1))
  <2>1. Ordered(feed) /\ losses \in 0..MaxLosses /\ MaxLosses \in Nat
    BY <1>1, HubAssumption DEF InOrder, HubTypes, Hub!HubConstants
  <2>2. CASE feed' = Append(feed, n + 1) /\ losses' = losses
    <3>1. /\ Ordered(Append(feed, n + 1))
          /\ \A m : In(Append(feed, n + 1), m) <=> In(feed, m) \/ m = n + 1
      BY <1>5, <2>1, OrderedAppend
    <3>2. feed' \in Seq(1..(n + 1))
      <4>1. feed \in Seq(1..(n + 1)) /\ n + 1 \in 1..(n + 1)
        BY <1>5
      <4>2. QED
        BY <2>2, <4>1
    <3>3. QED
      BY <2>1, <2>2, <3>1, <3>2
  <2>3. CASE losses < MaxLosses /\ losses' = losses + 1 /\ feed' = feed
    <3>1. feed \in Seq(1..(n + 1))
      BY <1>5
    <3>2. QED
      BY <2>1, <2>3, <3>1
  <2>4. QED
    BY <1>4, <2>2, <2>3
<1>7. \A c : Hub!Stream(c)' = Hub!Stream(c) /\ \A m : Hub!Holds(c, m)' = Hub!Holds(c, m)
  BY <1>1, SameStreams
<1>8. \A c \in Clients : \A m : Hub!Holds(c, m)' => m \in 1..n
  BY <1>1, <1>2, <1>7, StreamTypes
<1>9. HubTypes'
  <2>1. \A q \in Seq(1..n) : q \in Seq(1..(n + 1))
    OBVIOUS
  <2>2. send' \in [Clients -> Seq(1..(n + 1))] /\ got' \in [Clients -> Seq(1..(n + 1))]
    <3>1. \A c \in Clients : send[c] \in Seq(1..(n + 1)) /\ got[c] \in Seq(1..(n + 1))
      BY <1>1, <1>2, <2>1 DEF HubTypes
    <3>2. QED
      BY <1>1, <3>1 DEF HubTypes
  <2>3. /\ fan' \in [message : 0..(n + 1), left : SUBSET Clients]
        /\ hand' \in [Clients -> 0..(n + 1)] /\ dropped' \in [Clients -> SUBSET (1..(n + 1))]
    BY <1>1, <1>2 DEF HubTypes
  <2>4. view' \in [Clients -> [Channels -> View(n + 1)]]
    <3>1. \A v \in View(n) : v \in View(n + 1)
      BY DEF View
    <3>2. QED
      BY <1>1, <1>2, <3>1 DEF HubTypes
  <2>5. QED
    BY <1>1, <1>3, <1>6, <2>2, <2>3, <2>4 DEF HubTypes
<1>10. Hub!IndexIsExact'
  BY <1>1, IndexKept
<1>11. fan.message \in 0..n /\ (fan.left # {} => fan.message \in 1..n)
  BY <1>1, <1>2 DEF HubTypes, InOrder
<1>12. InOrder'
  <2>1. \A i \in DOMAIN feed' : In(feed, feed'[i]) \/ feed'[i] = n + 1
    BY <1>6 DEF In
  <2>2. \A i \in DOMAIN feed' : fan.message < feed'[i]
    BY <1>1, <1>11, <2>1 DEF InOrder, In
  <2>3. \A c \in Clients, m \in 1..n : Hub!Holds(c, m) => \A i \in DOMAIN feed' : m < feed'[i]
    BY <1>1, <1>2, <2>1 DEF InOrder, In
  <2>4. \A c \in Clients, m \in 1..(n + 1) : Hub!Holds(c, m)' =>
            (\A i \in DOMAIN feed' : m < feed'[i]) /\ (c \in fan.left => m < fan.message)
    BY <1>1, <1>2, <1>7, <1>8, <2>3 DEF InOrder
  <2>5. \A c \in Clients : Ordered(Hub!Stream(c)')
    BY <1>1, <1>7 DEF InOrder
  <2>6. fan'.left # {} => fan'.message \in 1..(n + 1)
    BY <1>1, <1>11
  <2>7. Ordered(feed)' /\ \A c \in Clients : Ordered(Hub!Stream(c))'
    BY <1>6, <2>5 DEF Ordered
  <2>8. QED
    BY <1>1, <1>3, <2>2, <2>4, <2>6, <2>7 DEF InOrder
<1>13. KnownIsSo'
  <2>1. SUFFICES ASSUME NEW c \in Clients PROVE KnownOf(c)'
    BY DEF KnownIsSo
  <2>2. KnownOf(c)
    BY <1>1 DEF KnownIsSo
  <2>3. CommandKnown(c, command[c])'
    BY <1>1, <2>2 DEF KnownOf, CommandKnown
  <2>4. c \in fan.left => published'[fan.message] = published[fan.message]
    BY <1>3, <1>11
  <2>5. QED
    BY <1>1, <2>2, <2>3, <2>4 DEF KnownOf
<1>14. Hub!NothingIsMissed'
  <2>1. SUFFICES ASSUME NEW c \in Clients, NEW m \in 1..(n + 1),
                        socket[c] = "open", Hub!Handled(c, m)', m \notin Malformed,
                        view[c][published'[m]].is = "on", m > view[c][published'[m]].at
                 PROVE  Hub!Holds(c, m) \/ m \in dropped[c] \/ losses' > 0
    BY <1>1, <1>3, <1>7 DEF Hub!NothingIsMissed, Hub!ChannelOf
  <2>2. ~In(feed', m) /\ ~(fan.message = m /\ c \in fan.left)
    BY <1>1, <2>1 DEF Hub!Handled, In
  <2>3. CASE m = n + 1
    BY <1>6, <2>2, <2>3
  <2>4. CASE m # n + 1
    <3>1. m \in 1..n /\ published'[m] = published[m]
      BY <1>3, <2>4
    <3>2. Hub!Handled(c, m)
      BY <1>6, <2>2 DEF Hub!Handled, In
    <3>3. Hub!Holds(c, m) \/ m \in dropped[c] \/ losses > 0
      BY <1>1, <1>3, <2>1, <3>1, <3>2 DEF Hub!NothingIsMissed, Hub!ChannelOf
    <3>4. losses \in Nat /\ losses' \in Nat /\ losses' >= losses
      BY <1>1, <1>6, HubAssumption DEF HubTypes, Hub!HubConstants
    <3>5. QED
      BY <3>3, <3>4
  <2>5. QED
    BY <2>3, <2>4
<1>15. Hub!NothingAfterLeaving'
  <2>1. SUFFICES ASSUME NEW c \in Clients, NEW m \in 1..(n + 1), Hub!Holds(c, m)',
                        view[c][published'[m]].is = "off", m > view[c][published'[m]].at
                 PROVE  FALSE
    BY <1>1, <1>3 DEF Hub!NothingAfterLeaving, Hub!ChannelOf
  <2>2. m \in 1..n /\ Hub!Holds(c, m) /\ published'[m] = published[m]
    BY <1>3, <1>7, <1>8, <2>1
  <2>3. QED
    BY <1>1, <1>3, <2>1, <2>2 DEF Hub!NothingAfterLeaving, Hub!ChannelOf
<1>16. QED
  BY <1>9, <1>10, <1>12, <1>13, <1>14, <1>15 DEF HInv

LEMMA TakeStep ==
    ASSUME HInv, Hub!Take
    PROVE  HInv'
<1>1. /\ fan.left = {} /\ feed # <<>>
      /\ fan' = [message |-> Head(feed), left |-> Hub!Subs(published[Head(feed)])]
      /\ feed' = Tail(feed)
      /\ UNCHANGED <<published, socket, channels, bySub, send, hand, command, got, view,
                     dropped, commands, losses>>
      /\ HubTypes /\ Hub!IndexIsExact /\ InOrder /\ KnownIsSo /\ Hub!NothingIsMissed
             /\ Hub!NothingAfterLeaving
  BY DEF Hub!Take, HInv, Hub!ChannelOf
<1>2. PICK n \in Nat : n = Len(published)
  BY <1>1 DEF HubTypes
<1>3. Hub!Messages = 1..n /\ Hub!Messages' = 1..n
  BY <1>1, <1>2 DEF HubTypes, Hub!Messages
<1>4. PICK q \in Seq(1..n) : q = feed /\ q # <<>> /\ Ordered(q)
  BY <1>1, <1>2 DEF HubTypes, InOrder
<1>5. PICK h \in 1..n, t \in Seq(1..n) : h = Head(q) /\ t = Tail(q)
  BY <1>4, HeadAndTail
<1>6. /\ Ordered(t) /\ \A i \in DOMAIN t : h < t[i]
      /\ \A m : In(q, m) <=> In(t, m) \/ m = h
  <2>1. q \in Seq(Nat)
    BY <1>4
  <2>2. QED
    BY <1>4, <1>5, <2>1, OrderedTail
<1>7. PICK ch \in Channels : ch = published[h]
  BY <1>1, <1>2 DEF HubTypes
<1>8. /\ fan'.message = h /\ fan'.left = Hub!Subs(ch) /\ feed' = t
      /\ fan' = [message |-> h, left |-> Hub!Subs(ch)]
  BY <1>1, <1>4, <1>5, <1>7
<1>9. Hub!Subs(ch) = {c \in Clients : socket[c] \in {"open", "closed"} /\ ch \in channels[c]}
  BY <1>1 DEF Hub!IndexIsExact
<1>10. \A c : Hub!Stream(c)' = Hub!Stream(c) /\ \A m : Hub!Holds(c, m)' = Hub!Holds(c, m)
  BY <1>1, SameStreams
<1>11. HubTypes'
  <2>1. fan' \in [message : 0..n, left : SUBSET Clients]
    BY <1>8, <1>9
  <2>2. feed' \in Seq(1..n)
    BY <1>8
  <2>3. QED
    BY <1>1, <1>2, <2>1, <2>2 DEF HubTypes
<1>12. Hub!IndexIsExact'
  BY <1>1, IndexKept
<1>13. InOrder'
  <2>1. \A c \in Clients, m \in 1..n : Hub!Holds(c, m) => \A k : In(q, k) => m < k
    BY <1>1, <1>2, <1>4 DEF InOrder, In
  <2>2. \A i \in DOMAIN t : In(t, t[i])
    BY DEF In
  <2>3. \A c \in Clients, m \in 1..n : Hub!Holds(c, m)' =>
            (\A i \in DOMAIN t : m < t[i]) /\ (c \in fan'.left => m < fan'.message)
    BY <1>6, <1>8, <1>10, <2>1, <2>2
  <2>4. Ordered(feed)' /\ \A c \in Clients : Ordered(Hub!Stream(c))'
    BY <1>1, <1>6, <1>8, <1>10 DEF Ordered, InOrder
  <2>5. QED
    BY <1>1, <1>2, <1>6, <1>8, <2>3, <2>4 DEF InOrder
<1>14. KnownIsSo'
  <2>1. SUFFICES ASSUME NEW c \in Clients PROVE KnownOf(c)'
    BY DEF KnownIsSo
  <2>2. KnownOf(c)
    BY <1>1 DEF KnownIsSo
  <2>3. CommandKnown(c, command[c])'
    BY <1>1, <2>2 DEF KnownOf, CommandKnown
  <2>4. c \in fan'.left => view[c][ch].is # "off"
    BY <1>8, <1>9, <2>2 DEF KnownOf
  <2>5. published'[fan'.message] = ch
    BY <1>1, <1>7, <1>8
  <2>6. QED
    BY <1>1, <2>2, <2>3, <2>4, <2>5 DEF KnownOf
<1>15. Hub!NothingIsMissed'
  <2>1. SUFFICES ASSUME NEW c \in Clients, NEW m \in 1..n,
                        socket[c] = "open", Hub!Handled(c, m)', m \notin Malformed,
                        view[c][published[m]].is = "on", m > view[c][published[m]].at
                 PROVE  Hub!Holds(c, m) \/ m \in dropped[c] \/ losses > 0
    BY <1>1, <1>3, <1>10 DEF Hub!NothingIsMissed, Hub!ChannelOf
  <2>2. ~In(t, m) /\ ~(h = m /\ c \in Hub!Subs(ch))
    BY <1>8, <2>1 DEF Hub!Handled, In
  <2>3. m # h
    <3>1. m = h => ch \in channels[c]
      BY <1>1, <1>7, <2>1 DEF KnownIsSo, KnownOf
    <3>2. QED
      BY <1>9, <2>1, <2>2, <3>1
  <2>4. Hub!Handled(c, m)
    BY <1>1, <1>4, <1>6, <2>2, <2>3 DEF Hub!Handled, In
  <2>5. QED
    BY <1>1, <1>3, <2>1, <2>4 DEF Hub!NothingIsMissed, Hub!ChannelOf
<1>16. Hub!NothingAfterLeaving'
  BY <1>1, <1>3, <1>10 DEF Hub!NothingAfterLeaving, Hub!ChannelOf
<1>17. QED
  BY <1>11, <1>12, <1>13, <1>14, <1>15, <1>16 DEF HInv
\* What an offer does to a client.
LEMMA OfferTo ==
    ASSUME HInv, NEW c \in fan.left, Hub!Offer(c), UNCHANGED <<published, got, hand>>
    PROVE  /\ c \in Clients /\ fan.message \in 1..Len(published)
           /\ send' \in [Clients -> Seq(1..Len(published))]
                  /\ \A d \in Clients : Len(send'[d]) <= Buffer
           /\ dropped' \in [Clients -> SUBSET (1..Len(published))]
           /\ \A d \in Clients : dropped[d] \subseteq dropped'[d] /\ Ordered(Hub!Stream(d)')
           /\ \A d \in Clients : \A m : Hub!Holds(d, m) => Hub!Holds(d, m)'
           /\ \A d \in Clients : \A m :
                  Hub!Holds(d, m)' => Hub!Holds(d, m) \/ (d = c /\ m = fan.message)
           /\ \A m : m = fan.message => Hub!Holds(c, m)' \/ m \in dropped'[c]
<1>1. HubTypes /\ InOrder
  BY DEF HInv
<1>2. PICK n \in Nat : n = Len(published)
  BY <1>1 DEF HubTypes
<1>3. c \in Clients /\ fan.left # {}
  BY <1>1 DEF HubTypes
<1>4. PICK m0 \in 1..n : m0 = fan.message
  BY <1>1, <1>2, <1>3 DEF InOrder
<1>5. \/ /\ Len(send[c]) < Buffer /\ send' = [send EXCEPT ![c] = Append(send[c], m0)]
         /\ dropped' = dropped
      \/ /\ dropped' = [dropped EXCEPT ![c] = dropped[c] \cup {m0}] /\ send' = send
  BY <1>4 DEF Hub!Offer
<1>6. PICK g \in Seq(1..n), s \in Seq(1..n), h \in 0..n : g = got[c] /\ s = send[c]
          /\ h = hand[c]
  BY <1>1, <1>2, <1>3 DEF HubTypes
<1>7. PICK q \in Seq(Nat) : q = Hub!Stream(c) /\ Ordered(q) /\ q = Cat(g, h, s)
  BY <1>1, <1>3, <1>6, StreamTypes, StreamIsCat DEF InOrder
<1>8. \A i \in DOMAIN q : q[i] < m0
  <2>1. ASSUME NEW i \in DOMAIN q PROVE Hub!Holds(c, q[i]) /\ q[i] \in 1..n
    BY <1>1, <1>2, <1>3, <1>7, <2>1, StreamTypes DEF Hub!Holds
  <2>2. QED
    BY <1>1, <1>2, <1>3, <1>4, <2>1 DEF InOrder
<1>9. CASE Len(send[c]) < Buffer /\ send' = [send EXCEPT ![c] = Append(send[c], m0)]
               /\ dropped' = dropped
  <2>1. send'[c] = Append(s, m0) /\ got'[c] = g /\ hand'[c] = h
            /\ \A d \in Clients \ {c} : send'[d] = send[d]
    BY <1>1, <1>3, <1>6, <1>9 DEF HubTypes
  <2>2. Append(s, m0) \in Seq(1..n) /\ Len(Append(s, m0)) = Len(s) + 1 /\ Len(s) \in Nat
    OBVIOUS
  <2>3. send' \in [Clients -> Seq(1..n)] /\ \A d \in Clients : Len(send'[d]) <= Buffer
    <3>1. Len(s) + 1 <= Buffer
      BY <1>6, <1>9, <2>2, HubAssumption DEF Hub!HubConstants
    <3>2. \A d \in Clients : send[d] \in Seq(1..n) /\ Len(send[d]) <= Buffer
      BY <1>1, <1>2 DEF HubTypes
    <3>3. QED
      BY <1>1, <1>2, <1>6, <1>9, <2>1, <2>2, <3>1, <3>2 DEF HubTypes
  <2>4. Cat(g, h, Append(s, m0)) = Append(q, m0)
    <3>1. g \in Seq(Nat) /\ s \in Seq(Nat) /\ h \in Nat /\ m0 \in Nat
      OBVIOUS
    <3>2. QED
      BY <1>7, <3>1, CatOffer
  <2>5. Hub!Stream(c)' = Append(q, m0)
    BY <2>1, <2>4, StreamIsCat
  <2>6. Ordered(Append(q, m0)) /\ \A k : In(Append(q, m0), k) <=> In(q, k) \/ k = m0
    BY <1>7, <1>8, OrderedAppend, SMTT(30)
  <2>7. Ordered(Hub!Stream(c)') /\ \A k : Hub!Holds(c, k)' <=> Hub!Holds(c, k) \/ k = m0
    BY <1>7, <2>5, <2>6, StreamIsCat
  <2>8. \A d \in Clients \ {c} : /\ Hub!Stream(d)' = Hub!Stream(d)
                                 /\ \A m : Hub!Holds(d, m)' = Hub!Holds(d, m)
    BY <2>1, OtherStreams
  <2>9. \A d \in Clients : Ordered(Hub!Stream(d)')
    BY <1>1, <2>7, <2>8 DEF InOrder
  <2>10. dropped' \in [Clients -> SUBSET (1..n)]
             /\ \A d \in Clients : dropped[d] \subseteq dropped'[d]
    BY <1>1, <1>2, <1>9 DEF HubTypes
  <2>11. \A d \in Clients : \A m : Hub!Holds(d, m)' <=> Hub!Holds(d, m) \/ (d = c /\ m = m0)
    BY <2>7, <2>8
  <2>12. Hub!Holds(c, m0)'
    BY <1>3, <2>11
  <2>13. QED
    BY <1>2, <1>3, <1>4, <2>3, <2>9, <2>10, <2>11, <2>12
<1>10. CASE dropped' = [dropped EXCEPT ![c] = dropped[c] \cup {m0}] /\ send' = send
  <2>1. \A d : Hub!Stream(d)' = Hub!Stream(d) /\ \A m : Hub!Holds(d, m)' = Hub!Holds(d, m)
    BY <1>10, SameStreams
  <2>2. /\ dropped' \in [Clients -> SUBSET (1..n)] /\ m0 \in dropped'[c]
        /\ \A d \in Clients : dropped[d] \subseteq dropped'[d]
    BY <1>1, <1>2, <1>3, <1>10 DEF HubTypes
  <2>3. \A d \in Clients : Ordered(Hub!Stream(d)')
    BY <1>1, <2>1 DEF InOrder
  <2>4. send' \in [Clients -> Seq(1..n)] /\ \A d \in Clients : Len(send'[d]) <= Buffer
    BY <1>1, <1>2, <1>10 DEF HubTypes
  <2>5. QED
    BY <1>2, <1>3, <1>4, <2>1, <2>2, <2>3, <2>4
<1>11. QED
  BY <1>5, <1>9, <1>10

LEMMA FanOutStep ==
    ASSUME HInv, Hub!FanOut
    PROVE  HInv'
<1>1. PICK c \in fan.left :
          /\ Hub!Offer(c)
          /\ fan' = IF fan.left = {c} THEN Hub!Idle ELSE [fan EXCEPT !.left = fan.left \ {c}]
          /\ UNCHANGED <<published, feed, socket, channels, bySub, hand, command, got, view,
                         commands, losses>>
  BY DEF Hub!FanOut
<1>2. HubTypes /\ Hub!IndexIsExact /\ InOrder /\ KnownIsSo /\ Hub!NothingIsMissed
          /\ Hub!NothingAfterLeaving
  BY DEF HInv
<1>14. PICK n \in Nat : n = Len(published)
  BY <1>2 DEF HubTypes
<1>3. n = Len(published) /\ Hub!Messages = 1..n /\ Hub!Messages' = 1..n
  <2>1. Hub!Messages = 1..n
    BY <1>2, <1>14 DEF HubTypes, Hub!Messages
  <2>2. Hub!Messages' = Hub!Messages
    BY <1>1 DEF Hub!Messages
  <2>3. QED
    BY <1>14, <2>1, <2>2
<1>4. /\ c \in Clients /\ fan.message \in 1..n
      /\ send' \in [Clients -> Seq(1..n)] /\ \A d \in Clients : Len(send'[d]) <= Buffer
      /\ dropped' \in [Clients -> SUBSET (1..n)]
      /\ \A d \in Clients : dropped[d] \subseteq dropped'[d] /\ Ordered(Hub!Stream(d)')
      /\ \A d \in Clients : \A m : Hub!Holds(d, m) => Hub!Holds(d, m)'
      /\ \A d \in Clients : \A m :
             Hub!Holds(d, m)' => Hub!Holds(d, m) \/ (d = c /\ m = fan.message)
      /\ \A m : m = fan.message => Hub!Holds(c, m)' \/ m \in dropped'[c]
  BY <1>1, <1>3, OfferTo
<1>5. /\ fan' \in [message : 0..n, left : SUBSET Clients]
      /\ fan'.left = fan.left \ {c}
      /\ fan'.left # {} => fan'.message = fan.message
      /\ fan'.message <= fan.message
  <2>1. CASE fan.left = {c}
    BY <1>1, <1>4, <2>1 DEF Hub!Idle
  <2>2. CASE fan.left # {c}
    <3>1. fan \in [message : 0..n, left : SUBSET Clients]
      BY <1>2, <1>3 DEF HubTypes
    <3>2. fan' = [fan EXCEPT !.left = fan.left \ {c}]
      BY <1>1, <2>2
    <3>3. fan' = [message |-> fan.message, left |-> fan.left \ {c}]
      BY <3>1, <3>2
    <3>4. fan.message \in 0..n /\ fan.left \ {c} \in SUBSET Clients
      BY <3>1
    <3>5. QED
      BY <1>14, <3>3, <3>4
  <2>3. QED
    BY <2>1, <2>2
<1>6. HubTypes'
  BY <1>1, <1>2, <1>3, <1>4, <1>5 DEF HubTypes
<1>7. Hub!IndexIsExact'
  BY <1>1, <1>2, IndexKept
<1>8. \A i \in DOMAIN feed : fan.message < feed[i] /\ feed[i] \in 1..n
  BY <1>2, <1>3 DEF InOrder, HubTypes
<1>9. InOrder'
  <2>1. \A i \in DOMAIN feed : fan'.message < feed[i]
    BY <1>4, <1>5, <1>8
  <2>2. ASSUME NEW d \in Clients, NEW m \in 1..n, Hub!Holds(d, m)'
        PROVE  (\A i \in DOMAIN feed : m < feed[i]) /\ (d \in fan'.left => m < fan'.message)
    <3>1. CASE Hub!Holds(d, m)
      BY <1>2, <1>3, <1>5, <3>1 DEF InOrder
    <3>2. CASE d = c /\ m = fan.message
      BY <1>5, <1>8, <3>2
    <3>3. QED
      BY <1>4, <2>2, <3>1, <3>2
  <2>3. Ordered(feed)' /\ \A d \in Clients : Ordered(Hub!Stream(d))'
    BY <1>1, <1>2, <1>4 DEF Ordered, InOrder
  <2>4. fan'.left # {} => fan'.message \in 1..n
    BY <1>4, <1>5
  <2>5. QED
    BY <1>1, <1>3, <2>1, <2>2, <2>3, <2>4 DEF InOrder
<1>10. KnownIsSo'
  <2>1. SUFFICES ASSUME NEW d \in Clients PROVE KnownOf(d)'
    BY DEF KnownIsSo
  <2>2. KnownOf(d)
    BY <1>2 DEF KnownIsSo
  <2>3. CommandKnown(d, command[d])'
    BY <1>1, <2>2 DEF KnownOf, CommandKnown
  <2>4. d \in fan'.left => d \in fan.left /\ fan'.message = fan.message
    BY <1>5
  <2>5. QED
    BY <1>1, <2>2, <2>3, <2>4 DEF KnownOf
<1>11. Hub!NothingIsMissed'
  <2>1. SUFFICES ASSUME NEW d \in Clients, NEW m \in 1..n,
                        socket[d] = "open", Hub!Handled(d, m)', m \notin Malformed,
                        view[d][published[m]].is = "on", m > view[d][published[m]].at
                 PROVE  Hub!Holds(d, m)' \/ m \in dropped'[d] \/ losses > 0
    BY <1>1, <1>3 DEF Hub!NothingIsMissed, Hub!ChannelOf
  <2>2. CASE Hub!Handled(d, m)
    <3>1. Hub!Holds(d, m) \/ m \in dropped[d] \/ losses > 0
      BY <1>2, <1>3, <2>1, <2>2 DEF Hub!NothingIsMissed, Hub!ChannelOf
    <3>2. QED
      BY <1>4, <3>1
  <2>3. CASE ~Hub!Handled(d, m)
    <3>1. m = fan.message /\ d \in fan.left
      BY <1>1, <2>1, <2>3 DEF Hub!Handled
    <3>2. d = c
      BY <1>5, <2>1, <3>1 DEF Hub!Handled
    <3>3. QED
      BY <1>4, <3>1, <3>2
  <2>4. QED
    BY <2>2, <2>3
<1>12. Hub!NothingAfterLeaving'
  <2>1. SUFFICES ASSUME NEW d \in Clients, NEW m \in 1..n, Hub!Holds(d, m)',
                        view[d][published[m]].is = "off", m > view[d][published[m]].at
                 PROVE  FALSE
    BY <1>1, <1>3 DEF Hub!NothingAfterLeaving, Hub!ChannelOf
  <2>2. CASE Hub!Holds(d, m)
    BY <1>2, <1>3, <2>1, <2>2 DEF Hub!NothingAfterLeaving, Hub!ChannelOf
  <2>3. CASE d = c /\ m = fan.message
    <3>1. PICK ch \in Channels : ch = published[m]
      BY <1>2, <1>3 DEF HubTypes
    <3>2. fan.message <= view[d][ch].at
      BY <1>2, <2>1, <2>3, <3>1 DEF KnownIsSo, KnownOf
    <3>3. view[d][ch].at \in Nat
      BY <1>2, <1>3 DEF HubTypes, View
    <3>4. QED
      BY <1>3, <2>1, <2>3, <3>1, <3>2, <3>3
  <2>4. QED
    BY <1>4, <2>1, <2>2, <2>3
<1>13. QED
  BY <1>6, <1>7, <1>9, <1>10, <1>11, <1>12 DEF HInv

-----------------------------------------------------------------------------
LEMMA HInvInit == Hub!Init => HInv
<1> SUFFICES ASSUME Hub!Init PROVE HInv
  OBVIOUS
<1>1. published = <<>> /\ Len(published) = 0 /\ feed = <<>> /\ DOMAIN feed = {}
          /\ Hub!Messages = {}
  BY DEF Hub!Init, Hub!Messages
<1>2. \A c \in Clients : Hub!Stream(c) = <<>> /\ DOMAIN Hub!Stream(c) = {}
          /\ \A m : ~Hub!Holds(c, m)
  <2>1. <<>> \o <<>> = <<>> /\ DOMAIN <<>> = {}
    OBVIOUS
  <2>2. \A c \in Clients : got[c] = <<>> /\ hand[c] = 0 /\ send[c] = <<>>
    BY DEF Hub!Init
  <2>3. \A c \in Clients : Hub!Stream(c) = <<>>
    BY <2>1, <2>2 DEF Hub!Stream
  <2>4. \A c \in Clients : DOMAIN Hub!Stream(c) = {}
    BY <2>1, <2>3
  <2>5. QED
    BY <2>3, <2>4 DEF Hub!Holds
<1>3. HubTypes
  <2>1. published \in Seq(Channels) /\ feed \in Seq(1..0) /\ <<>> \in Seq(1..0)
    BY <1>1
  <2>2. fan \in [message : 0..0, left : SUBSET Clients]
    BY DEF Hub!Init, Hub!Idle
  <2>3. /\ socket \in [Clients -> {"none", "open", "closed", "removed"}]
        /\ channels \in [Clients -> SUBSET Channels]
        /\ DOMAIN bySub \subseteq Channels
        /\ command \in [Clients -> {Hub!NoCommand} \cup Commands]
        /\ hand \in [Clients -> 0..0]
        /\ dropped \in [Clients -> SUBSET (1..0)]
    BY DEF Hub!Init
  <2>4. /\ send \in [Clients -> Seq(1..0)] /\ got \in [Clients -> Seq(1..0)]
        /\ \A c \in Clients : Len(send[c]) <= Buffer
    BY <2>1, HubAssumption DEF Hub!Init, Hub!HubConstants
  <2>5. view \in [Clients -> [Channels -> View(0)]]
    BY DEF Hub!Init, View
  <2>6. commands \in 0..MaxCommands /\ losses \in 0..MaxLosses
    BY HubAssumption DEF Hub!Init, Hub!HubConstants
  <2>7. QED
    BY <1>1, <2>1, <2>2, <2>3, <2>4, <2>5, <2>6 DEF HubTypes
<1>4. Hub!IndexIsExact
  BY DEF Hub!Init, Hub!IndexIsExact, Hub!Subs
<1>5. InOrder
  BY <1>1, <1>2 DEF InOrder, Ordered, Hub!Init, Hub!Idle
<1>6. KnownIsSo
  <2>1. SUFFICES ASSUME NEW c \in Clients PROVE KnownOf(c)
    BY DEF KnownIsSo
  <2>2. socket[c] = "none" /\ command[c] = Hub!NoCommand /\ fan.left = {}
        /\ \A ch \in Channels : view[c][ch].is = "off"
    BY DEF Hub!Init, Hub!Idle
  <2>3. CommandKnown(c, Hub!NoCommand)
    BY DEF CommandKnown, Hub!NoCommand
  <2>4. QED
    BY <2>2, <2>3 DEF KnownOf
<1>7. Hub!NothingIsMissed /\ Hub!NothingAfterLeaving
  BY <1>1 DEF Hub!NothingIsMissed, Hub!NothingAfterLeaving
<1>8. QED
  BY <1>3, <1>4, <1>5, <1>6, <1>7 DEF HInv

LEMMA HInvStep == HInv /\ [Hub!Next]_(Hub!vars) => HInv'
<1> SUFFICES ASSUME HInv, [Hub!Next]_(Hub!vars) PROVE HInv'
  OBVIOUS
<1>1. CASE Hub!Take
  BY <1>1, TakeStep
<1>2. CASE Hub!FanOut
  BY <1>2, FanOutStep
<1>3. ASSUME NEW ch \in Channels, Hub!Publish(ch) PROVE HInv'
  BY <1>3, PublishStep
<1>4. ASSUME NEW c \in Clients, Hub!Serve(c) PROVE HInv'
  BY <1>4, AddStep, ReadStep, AckStep, ReceiveStep, WriteStep, CloseStep,
     RemoveStep DEF Hub!Serve
<1>5. ASSUME NEW c \in Clients, NEW ch \in Channels, NEW do \in {"subscribe", "unsubscribe"},
             Hub!Send(c, do, ch)
      PROVE  HInv'
  BY <1>5, SendStep
<1>6. CASE UNCHANGED Hub!vars
  <2>1. UNCHANGED <<got, hand, send>>
    BY <1>6 DEF Hub!vars
  <2>2. \A c : Hub!Stream(c)' = Hub!Stream(c) /\ \A m : Hub!Holds(c, m)' = Hub!Holds(c, m)
    BY <2>1, SameStreams
  <2>3. HubTypes'
    BY <1>6 DEF HInv, HubTypes, Hub!vars
  <2>4. \A c \in Clients : Ordered(Hub!Stream(c)')
    BY <2>2 DEF HInv, InOrder
  <2>5. QED
    BY <1>6, <2>2, <2>3, <2>4, HubQuietStep DEF Hub!vars
<1>7. QED
  BY <1>1, <1>2, <1>3, <1>4, <1>5, <1>6 DEF Hub!Next, Hub!Consume

LEMMA HInvIsEnough == HInv => Hub!FanoutIsSound
<1> SUFFICES ASSUME HInv PROVE Hub!FanoutIsSound
  OBVIOUS
<1>1. HubTypes /\ Hub!IndexIsExact /\ InOrder /\ Hub!NothingIsMissed /\ Hub!NothingAfterLeaving
  BY DEF HInv
<1>2. Hub!Messages = 1..Len(published)
  BY <1>1 DEF HubTypes, Hub!Messages
<1>3. Hub!TypeOK
  BY <1>1, <1>2 DEF HubTypes, Hub!TypeOK, Hub!ChannelOf
<1>4. Hub!StreamsAreOrdered
  BY <1>1 DEF InOrder, Ordered, Hub!StreamsAreOrdered
<1>5. QED
  BY <1>1, <1>3, <1>4 DEF Hub!FanoutIsSound

(* Whatever the clients, channels, buffer and publishers: the index of the hub leads to   *)
(* exactly the registered clients of a channel, a client receives messages in the order   *)
(* they were published, none twice and none after it learned it had left, and it misses   *)
(* one only if its buffer was full, the payload is not JSON or Redis lost it.             *)
THEOREM FanoutStaysSound == Hub!Spec => []FanoutIsSound
<1>1. Hub!Spec => []HInv
  BY HInvInit, HInvStep, PTL DEF Hub!Spec
<1>2. QED
  BY <1>1, HInvIsEnough, PTL DEF FanoutIsSound
=============================================================================
