------------------------------ MODULE Counting ------------------------------
(***************************************************************************)
(* Facts the proofs share.  Counters that stand for "how many processes    *)
(* are at certain places": a step moves one process, so it changes a count *)
(* by one, or not at all.  And induction over the natural numbers, for     *)
(* what a recursive function computes and for the least of a finite set.   *)
(***************************************************************************)
EXTENDS Naturals, FiniteSetTheorems, TLAPS

\* How many members of D are at one of the places ps, when f says where each is.
Number(f, ps, D) == Cardinality({x \in D : f[x] \in ps})

\* A count over a finite set is a natural number.
LEMMA NumberIsNat ==
    ASSUME NEW f, NEW ps, NEW D, IsFiniteSet(D)
    PROVE  Number(f, ps, D) \in Nat
BY FS_Subset, FS_CardinalityType DEF Number

\* Nobody enters or leaves the places: the count stays.
LEMMA OneStays ==
    ASSUME NEW f, NEW g, NEW ps, NEW D,
           \A x \in D : g[x] \in ps <=> f[x] \in ps
    PROVE  Number(g, ps, D) = Number(f, ps, D)
<1>1. {x \in D : g[x] \in ps} = {x \in D : f[x] \in ps}
  OBVIOUS
<1>2. QED
  BY <1>1 DEF Number

\* Only r moves, into the places.
LEMMA OneEnters ==
    ASSUME NEW f, NEW g, NEW r, NEW ps, NEW D, IsFiniteSet(D),
           \A x \in D \ {r} : g[x] = f[x],
           r \in D, f[r] \notin ps, g[r] \in ps
    PROVE  Number(g, ps, D) = Number(f, ps, D) + 1
<1> DEFINE S == {x \in D : f[x] \in ps}
           T == {x \in D : g[x] \in ps}
<1>1. IsFiniteSet(S)
  BY FS_Subset
<1>2. T = S \cup {r} /\ r \notin S
  OBVIOUS
<1> HIDE DEF S, T
<1>3. Cardinality(T) = Cardinality(S) + 1
  BY <1>1, <1>2, FS_AddElement
<1>4. QED
  BY <1>3 DEF Number, S, T

\* Only r moves, out of the places.
LEMMA OneLeaves ==
    ASSUME NEW f, NEW g, NEW r, NEW ps, NEW D, IsFiniteSet(D),
           \A x \in D \ {r} : g[x] = f[x],
           r \in D, f[r] \in ps, g[r] \notin ps
    PROVE  Number(g, ps, D) = Number(f, ps, D) - 1 /\ Number(f, ps, D) > 0
<1> DEFINE S == {x \in D : f[x] \in ps}
           T == {x \in D : g[x] \in ps}
<1>1. IsFiniteSet(S)
  BY FS_Subset
<1>2. T = S \ {r} /\ r \in S
  OBVIOUS
<1> HIDE DEF S, T
<1>3. Cardinality(T) = Cardinality(S) - 1 /\ Cardinality(S) # 0
  BY <1>1, <1>2, FS_RemoveElement, FS_EmptySet
<1>4. Cardinality(S) > 0
  BY <1>1, <1>3, FS_CardinalityType
<1>5. QED
  BY <1>3, <1>4 DEF Number, S, T

-----------------------------------------------------------------------------
(* Induction. *)

NatBelow == {p \in Nat \X Nat : p[1] < p[2]}

\* Induction over the natural numbers, for a set of them.
LEMMA NatInSteps ==
    ASSUME NEW T, 0 \in T, \A n \in Nat : n \in T => n + 1 \in T
    PROVE  Nat \subseteq T
<1>1. IsWellFoundedOn(NatBelow, Nat)
  <2>1. OpToRel(<, Nat) = NatBelow
    BY Zenon DEF OpToRel, NatBelow
  <2>2. QED
    BY <2>1, NatLessThanWellFounded, Zenon
<1>2. SUFFICES ASSUME Nat \ T # {} PROVE FALSE
  OBVIOUS
<1>3. PICK n \in Nat \ T : \A m \in Nat \ T : <<m, n>> \notin NatBelow
  BY <1>1, <1>2, WFMin, Zenon
<1>4. n # 0 /\ n - 1 \in Nat /\ (n - 1) + 1 = n
  BY <1>3
<1>5. <<n - 1, n>> \in NatBelow
  BY <1>3, <1>4, n - 1 < n DEF NatBelow
<1>6. n - 1 \in T
  BY <1>3, <1>4, <1>5, Zenon
<1>7. QED
  BY <1>3, <1>4, <1>6

\* A finite set has a member at which f is least.
LEMMA HasLeast ==
    ASSUME NEW U, NEW f \in [U -> Int], NEW S \in SUBSET U, IsFiniteSet(S), S # {}
    PROVE  \E m \in S : \A u \in S : f[m] <= f[u]
<1> DEFINE P(n) == \A X \in SUBSET U : IsFiniteSet(X) /\ Cardinality(X) = n + 1
                        => \E m \in X : \A u \in X : f[m] <= f[u]
           T == {n \in Nat : P(n)}
<1>1. 0 \in T
  <2> SUFFICES ASSUME NEW X \in SUBSET U, IsFiniteSet(X), Cardinality(X) = 1
               PROVE  \E m \in X : \A u \in X : f[m] <= f[u]
    OBVIOUS
  <2>1. PICK x : X = {x}
    BY FS_Singleton
  <2>2. QED
    BY <2>1
<1>2. ASSUME NEW n \in Nat, n \in T PROVE n + 1 \in T
  <2> SUFFICES ASSUME NEW X \in SUBSET U, IsFiniteSet(X), Cardinality(X) = n + 2
               PROVE  \E m \in X : \A u \in X : f[m] <= f[u]
    OBVIOUS
  <2>1. PICK x : x \in X
    BY FS_EmptySet
  <2>2. IsFiniteSet(X \ {x}) /\ Cardinality(X \ {x}) = n + 1
    BY <2>1, FS_RemoveElement
  <2>3. PICK m \in X \ {x} : \A u \in X \ {x} : f[m] <= f[u]
    BY <1>2, <2>2
  <2>4. CASE f[x] <= f[m]
    BY <2>1, <2>3, <2>4
  <2>5. CASE f[m] < f[x]
    BY <2>1, <2>3, <2>5
  <2>6. QED
    BY <2>1, <2>3, <2>4, <2>5
<1> HIDE DEF T
<1>3. Nat \subseteq T
  BY <1>1, <1>2, NatInSteps
<1>4. Cardinality(S) \in Nat \ {0}
  BY FS_CardinalityType, FS_EmptySet
<1>5. Cardinality(S) - 1 \in T
  BY <1>3, <1>4
<1>6. QED
  BY <1>4, <1>5 DEF T

\* A set of naturals that is not empty has a least member.
LEMMA LeastNat ==
    ASSUME NEW S, S \subseteq Nat, S # {}
    PROVE  \E m \in S : \A n \in S : m <= n
<1>1. IsWellFoundedOn(NatBelow, Nat)
  <2>1. OpToRel(<, Nat) = NatBelow
    BY DEF OpToRel, NatBelow
  <2>2. QED
    BY <2>1, NatLessThanWellFounded
<1>2. PICK m \in S : \A n \in S : ~(<<n, m>> \in NatBelow)
  BY <1>1, WFMin
<1>3. \A n \in S : ~(n < m) /\ n \in Nat /\ m \in Nat
  BY <1>2 DEF NatBelow
<1>4. QED
  BY <1>3
=============================================================================
