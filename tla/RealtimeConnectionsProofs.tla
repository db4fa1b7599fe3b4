--------------------- MODULE RealtimeConnectionsProofs ---------------------
(***************************************************************************)
(* The connection limiter for any number of connections, subjects and      *)
(* addresses and any caps.  Its two counters obey the same law, so the law *)
(* is proved once, for one counter n of one key (Law and LawKept), and     *)
(* then used for bySub and for byIP.                                       *)
(* Two sections follow about the rest of the site: the tables of           *)
(* Community, for any users, threads, comments and solutions, and the      *)
(* sessions of the web tier, for any accounts, tabs and limits.            *)
(***************************************************************************)
EXTENDS Site, Integers, Sequences, Counting, FiniteSetTheorems, TLAPS

\* Connections whose quota has not been given back, and refused ones that gave back.
Owing == Holding \cup {"upgradeFailed"}
Away == {"turnedAway"}

Of(key, k) == {c \in Conns : key[c] = k}

\* The counter n of key k when f says where each connection is.
Law(f, n, key, k, cap) ==
    /\ n \in 0..cap
    /\ n <= Number(f, Owing, Of(key, k))
    /\ Number(f, Owing, Of(key, k)) <= n + Number(f, Away, Of(key, k))

\* The inductive invariant.
RInv ==
    /\ pc \in [Conns -> PCs]
    /\ bySub \in [Subjects -> 0..PerSubject]
    /\ byIP \in [Addrs -> 0..PerIP]
    /\ \A s \in Subjects : Law(pc, bySub[s], SubOf, s, PerSubject)
    /\ \A a \in Addrs : Law(pc, byIP[a], IpOf, a, PerIP)
    /\ socket \in [Conns -> {"none", "open", "closed"}]
    /\ clients \subseteq Conns
    /\ phase \in Phases
    /\ told \subseteq Conns
    /\ toClose \subseteq Conns

Dec(n) == IF n > 0 THEN n - 1 ELSE 0

-----------------------------------------------------------------------------
\* The four ways ServeWS may move a connection c keep the law of a counter.
LEMMA LawKept ==
    ASSUME NEW f, NEW g, NEW c \in Conns, \A x \in Conns \ {c} : g[x] = f[x],
           NEW key, NEW k, NEW cap \in Nat, NEW n, NEW m, Law(f, n, key, k, cap),
           \/ key[c] # k /\ m = n
           \/ (f[c] \in Owing <=> g[c] \in Owing) /\ (f[c] \in Away <=> g[c] \in Away) /\ m = n
           \/ /\ key[c] = k /\ f[c] \notin Owing /\ g[c] \in Owing /\ f[c] \notin Away
              /\ g[c] \notin Away /\ n < cap /\ m = n + 1
           \/ /\ key[c] = k /\ f[c] \in Owing /\ g[c] \notin Owing /\ f[c] \notin Away
              /\ g[c] \notin Away /\ m = Dec(n)
           \/ /\ key[c] = k /\ f[c] \notin Owing /\ g[c] \notin Owing /\ f[c] \notin Away
              /\ g[c] \in Away /\ m = Dec(n)
    PROVE  Law(g, m, key, k, cap)
<1> DEFINE D == Of(key, k)
           A == Number(f, Owing, D)
           B == Number(f, Away, D)
           A1 == Number(g, Owing, D)
           B1 == Number(g, Away, D)
<1>1. IsFiniteSet(D) /\ D \subseteq Conns /\ (c \in D <=> key[c] = k)
  BY FS_Subset, RealtimeAssumption DEF Of
<1>2. \A x \in D \ {c} : g[x] = f[x]
  BY <1>1
<1>3. A \in Nat /\ B \in Nat
  BY <1>1, NumberIsNat
<1>4. n \in 0..cap /\ n <= A /\ A <= n + B
  BY DEF Law
<1> HIDE DEF D
<1>5. CASE key[c] # k /\ m = n
  <2>1. A1 = A /\ B1 = B
    <3>1. \A x \in D : g[x] = f[x]
      BY <1>1, <1>2, <1>5
    <3>2. QED
      BY <3>1, OneStays
  <2>2. QED
    BY <1>4, <1>5, <2>1 DEF Law, D
<1>6. CASE (f[c] \in Owing <=> g[c] \in Owing) /\ (f[c] \in Away <=> g[c] \in Away) /\ m = n
  <2>1. \A x \in D : (g[x] \in Owing <=> f[x] \in Owing) /\ (g[x] \in Away <=> f[x] \in Away)
    BY <1>2, <1>6
  <2>2. A1 = A /\ B1 = B
    BY <2>1, OneStays
  <2>3. QED
    BY <1>4, <1>6, <2>2 DEF Law, D
<1>7. CASE /\ key[c] = k /\ f[c] \notin Owing /\ g[c] \in Owing /\ f[c] \notin Away
           /\ g[c] \notin Away /\ n < cap /\ m = n + 1
  <2>1. A1 = A + 1
    BY <1>1, <1>2, <1>7, OneEnters
  <2>2. \A x \in D : g[x] \in Away <=> f[x] \in Away
    BY <1>2, <1>7
  <2>3. B1 = B
    BY <2>2, OneStays
  <2>4. m \in 0..cap /\ m <= A1 /\ A1 <= m + B1
    <3> HIDE DEF A, B, A1, B1
    <3> QED BY <1>3, <1>4, <1>7, <2>1, <2>3
  <2>5. QED
    BY <2>4 DEF Law, D
<1>8. CASE /\ key[c] = k /\ f[c] \in Owing /\ g[c] \notin Owing /\ f[c] \notin Away
           /\ g[c] \notin Away /\ m = Dec(n)
  <2>1. A1 = A - 1 /\ A > 0
    BY <1>1, <1>2, <1>8, OneLeaves
  <2>2. \A x \in D : g[x] \in Away <=> f[x] \in Away
    BY <1>2, <1>8
  <2>3. B1 = B
    BY <2>2, OneStays
  <2>4. m \in 0..cap /\ m <= A1 /\ A1 <= m + B1
    <3> HIDE DEF A, B, A1, B1
    <3> QED BY <1>3, <1>4, <1>8, <2>1, <2>3 DEF Dec
  <2>5. QED
    BY <2>4 DEF Law, D
<1>9. CASE /\ key[c] = k /\ f[c] \notin Owing /\ g[c] \notin Owing /\ f[c] \notin Away
           /\ g[c] \in Away /\ m = Dec(n)
  <2>1. B1 = B + 1
    BY <1>1, <1>2, <1>9, OneEnters
  <2>2. \A x \in D : g[x] \in Owing <=> f[x] \in Owing
    BY <1>2, <1>9
  <2>3. A1 = A
    BY <2>2, OneStays
  <2>4. m \in 0..cap /\ m <= A1 /\ A1 <= m + B1
    <3> HIDE DEF A, B, A1, B1
    <3> QED BY <1>3, <1>4, <1>9, <2>1, <2>3 DEF Dec
  <2>5. QED
    BY <2>4 DEF Law, D
<1>10. QED
  BY <1>5, <1>6, <1>7, <1>8, <1>9

-----------------------------------------------------------------------------
\* Steps of a connection that touch neither counter nor the set of those owing.
LEMMA QuietStep ==
    ASSUME RInv, NEW c \in Conns, NEW q \in PCs, Goto(c, q), UNCHANGED quota,
           pc[c] \in Owing <=> q \in Owing, pc[c] \in Away <=> q \in Away
    PROVE  /\ pc' \in [Conns -> PCs]
           /\ \A s \in Subjects : Law(pc', bySub'[s], SubOf, s, PerSubject)
           /\ \A a \in Addrs : Law(pc', byIP'[a], IpOf, a, PerIP)
<1>1. pc' \in [Conns -> PCs] /\ pc'[c] = q /\ \A x \in Conns \ {c} : pc'[x] = pc[x]
  BY DEF RInv, Goto
<1>2. /\ PerSubject \in Nat /\ PerIP \in Nat /\ bySub' = bySub /\ byIP' = byIP
      /\ \A s \in Subjects : Law(pc, bySub[s], SubOf, s, PerSubject)
      /\ \A a \in Addrs : Law(pc, byIP[a], IpOf, a, PerIP)
  BY RealtimeAssumption DEF RInv, quota
<1>3. (pc[c] \in Owing <=> pc'[c] \in Owing) /\ (pc[c] \in Away <=> pc'[c] \in Away)
  BY <1>1
<1>4. ASSUME NEW s \in Subjects PROVE Law(pc', bySub'[s], SubOf, s, PerSubject)
  <2>1. Law(pc, bySub[s], SubOf, s, PerSubject) /\ bySub'[s] = bySub[s]
    BY <1>2
  <2>2. QED
    BY <1>1, <1>2, <1>3, <2>1, LawKept
<1>5. ASSUME NEW a \in Addrs PROVE Law(pc', byIP'[a], IpOf, a, PerIP)
  <2>1. Law(pc, byIP[a], IpOf, a, PerIP) /\ byIP'[a] = byIP[a]
    BY <1>2
  <2>2. QED
    BY <1>1, <1>2, <1>3, <2>1, LawKept
<1>6. QED
  BY <1>1, <1>4, <1>5

\* Release, by the deferred call of a served connection or by a refused one.
LEMMA ReleaseStep ==
    ASSUME RInv, NEW c \in Conns, NEW q \in PCs, Goto(c, q), Release(c), pc[c] \notin Away,
           \/ pc[c] \in Owing /\ q \notin Owing /\ q \notin Away
           \/ pc[c] \notin Owing /\ q \notin Owing /\ q \in Away
    PROVE  /\ pc' \in [Conns -> PCs]
           /\ bySub' \in [Subjects -> 0..PerSubject]
           /\ byIP' \in [Addrs -> 0..PerIP]
           /\ \A s \in Subjects : Law(pc', bySub'[s], SubOf, s, PerSubject)
           /\ \A a \in Addrs : Law(pc', byIP'[a], IpOf, a, PerIP)
<1>1. pc' \in [Conns -> PCs] /\ pc'[c] = q /\ \A x \in Conns \ {c} : pc'[x] = pc[x]
  BY DEF RInv, Goto
<1>2. /\ PerSubject \in Nat /\ PerIP \in Nat /\ SubOf[c] \in Subjects /\ IpOf[c] \in Addrs
      /\ bySub \in [Subjects -> 0..PerSubject] /\ byIP \in [Addrs -> 0..PerIP]
      /\ \A s \in Subjects : Law(pc, bySub[s], SubOf, s, PerSubject)
      /\ \A a \in Addrs : Law(pc, byIP[a], IpOf, a, PerIP)
  BY RealtimeAssumption DEF RInv
<1>3. /\ bySub' \in [Subjects -> 0..PerSubject]
      /\ \A s \in Subjects : bySub'[s] = IF s = SubOf[c] THEN Dec(bySub[s]) ELSE bySub[s]
  BY <1>2 DEF Release, Dec
<1>4. /\ byIP' \in [Addrs -> 0..PerIP]
      /\ \A a \in Addrs : byIP'[a] = IF a = IpOf[c] THEN Dec(byIP[a]) ELSE byIP[a]
  BY <1>2 DEF Release, Dec
<1>5. ASSUME NEW s \in Subjects PROVE Law(pc', bySub'[s], SubOf, s, PerSubject)
  <2>1. Law(pc, bySub[s], SubOf, s, PerSubject)
    BY <1>2
  <2>2. CASE s = SubOf[c]
    <3>1. bySub'[s] = Dec(bySub[s])
      BY <1>3, <2>2
    <3>2. QED
      BY <1>1, <1>2, <2>1, <2>2, <3>1, LawKept
  <2>3. CASE s # SubOf[c]
    <3>1. bySub'[s] = bySub[s]
      BY <1>3, <2>3
    <3>2. QED
      BY <1>1, <1>2, <2>1, <2>3, <3>1, LawKept
  <2>4. QED
    BY <2>2, <2>3
<1>6. ASSUME NEW a \in Addrs PROVE Law(pc', byIP'[a], IpOf, a, PerIP)
  <2>1. Law(pc, byIP[a], IpOf, a, PerIP)
    BY <1>2
  <2>2. CASE a = IpOf[c]
    <3>1. byIP'[a] = Dec(byIP[a])
      BY <1>4, <2>2
    <3>2. QED
      BY <1>1, <1>2, <2>1, <2>2, <3>1, LawKept
  <2>3. CASE a # IpOf[c]
    <3>1. byIP'[a] = byIP[a]
      BY <1>4, <2>3
    <3>2. QED
      BY <1>1, <1>2, <2>1, <2>3, <3>1, LawKept
  <2>4. QED
    BY <2>2, <2>3
<1>7. QED
  BY <1>1, <1>3, <1>4, <1>5, <1>6

\* Limiter.Acquire, successful or not.
LEMMA AcquireStep ==
    ASSUME RInv, NEW c \in Conns, Acquire(c)
    PROVE  RInv'
<1>1. /\ pc[c] = "acquire"
      /\ UNCHANGED <<socket, clients, shutdown>>
      /\ "accept" \in PCs /\ "refuse" \in PCs
      /\ pc[c] \notin Owing /\ pc[c] \notin Away
      /\ "accept" \in Owing /\ "accept" \notin Away
      /\ "refuse" \notin Owing /\ "refuse" \notin Away
  BY DEF Acquire, PCs, Owing, Away, Holding
<1>2. CASE Goto(c, "refuse") /\ UNCHANGED quota
  BY <1>1, <1>2, QuietStep DEF RInv, quota, shutdown
<1>3. CASE /\ Goto(c, "accept")
           /\ bySub[SubOf[c]] < PerSubject /\ byIP[IpOf[c]] < PerIP
           /\ bySub' = [bySub EXCEPT ![SubOf[c]] = @ + 1]
           /\ byIP' = [byIP EXCEPT ![IpOf[c]] = @ + 1]
  <2>1. /\ pc' \in [Conns -> PCs] /\ pc'[c] = "accept"
        /\ \A x \in Conns \ {c} : pc'[x] = pc[x]
    BY <1>1, <1>3 DEF RInv, Goto
  <2>2. /\ PerSubject \in Nat /\ PerIP \in Nat /\ SubOf[c] \in Subjects /\ IpOf[c] \in Addrs
        /\ bySub \in [Subjects -> 0..PerSubject] /\ byIP \in [Addrs -> 0..PerIP]
        /\ \A s \in Subjects : Law(pc, bySub[s], SubOf, s, PerSubject)
        /\ \A a \in Addrs : Law(pc, byIP[a], IpOf, a, PerIP)
    BY RealtimeAssumption DEF RInv
  <2>3. /\ bySub' \in [Subjects -> 0..PerSubject]
        /\ \A s \in Subjects : bySub'[s] = IF s = SubOf[c] THEN bySub[s] + 1 ELSE bySub[s]
    BY <1>3, <2>2
  <2>4. /\ byIP' \in [Addrs -> 0..PerIP]
        /\ \A a \in Addrs : byIP'[a] = IF a = IpOf[c] THEN byIP[a] + 1 ELSE byIP[a]
    BY <1>3, <2>2
  <2>5. ASSUME NEW s \in Subjects PROVE Law(pc', bySub'[s], SubOf, s, PerSubject)
    <3>1. Law(pc, bySub[s], SubOf, s, PerSubject)
      BY <2>2
    <3>2. CASE s = SubOf[c]
      <4>1. bySub'[s] = bySub[s] + 1 /\ bySub[s] < PerSubject
        BY <1>3, <2>3, <3>2
      <4>2. PerSubject \in Nat /\ SubOf[c] = s
        BY <2>2, <3>2
      <4>3. QED
        BY <1>1, <2>1, <3>1, <4>1, <4>2, LawKept
    <3>3. CASE s # SubOf[c]
      <4>1. bySub'[s] = bySub[s]
        BY <2>3, <3>3
      <4>2. QED
        BY <2>1, <2>2, <3>1, <3>3, <4>1, LawKept
    <3>4. QED
      BY <3>2, <3>3
  <2>6. ASSUME NEW a \in Addrs PROVE Law(pc', byIP'[a], IpOf, a, PerIP)
    <3>1. Law(pc, byIP[a], IpOf, a, PerIP)
      BY <2>2
    <3>2. CASE a = IpOf[c]
      <4>1. byIP'[a] = byIP[a] + 1 /\ byIP[a] < PerIP
        BY <1>3, <2>4, <3>2
      <4>2. QED
        BY <1>1, <2>1, <2>2, <3>1, <3>2, <4>1, LawKept
    <3>3. CASE a # IpOf[c]
      <4>1. byIP'[a] = byIP[a]
        BY <2>4, <3>3
      <4>2. QED
        BY <2>1, <2>2, <3>1, <3>3, <4>1, LawKept
    <3>4. QED
      BY <3>2, <3>3
  <2>7. QED
    BY <1>1, <2>1, <2>3, <2>4, <2>5, <2>6 DEF RInv, shutdown
<1>4. QED
  BY <1>2, <1>3 DEF Acquire

\* The other steps of ServeWS and of the peer.
LEMMA ServeStep ==
    ASSUME RInv, NEW c \in Conns,
           \/ Arrive(c) \/ Refuse(c) \/ Accept(c) \/ Add(c)
           \/ Remove(c) \/ ReleaseAtEnd(c) \/ PeerLeaves(c)
    PROVE  RInv'
<1> USE DEF PCs, Owing, Away, Holding
<1>1. CASE Arrive(c)
  <2>1. PICK q \in {"acquire", "done"} : Goto(c, q)
    BY <1>1 DEF Arrive
  <2>2. pc[c] = "arrive" /\ UNCHANGED <<socket, quota, clients, shutdown>>
    BY <1>1 DEF Arrive
  <2>3. QED
    BY <2>1, <2>2, QuietStep DEF RInv, quota, shutdown
<1>2. CASE Refuse(c)
  <2>1. /\ pc[c] = "refuse" /\ Goto(c, "turnedAway") /\ Release(c)
        /\ UNCHANGED <<socket, clients, shutdown>>
    BY <1>2 DEF Refuse
  <2>2. QED
    BY <2>1, ReleaseStep DEF RInv, shutdown
<1>3. CASE Accept(c)
  <2>1. PICK q \in {"add", "upgradeFailed"} : Goto(c, q)
    BY <1>3 DEF Accept
  <2>2. pc[c] = "accept" /\ UNCHANGED <<quota, clients, shutdown>>
    BY <1>3 DEF Accept
  <2>3. socket' \in [Conns -> {"none", "open", "closed"}]
    BY <1>3 DEF Accept, RInv
  <2>4. QED
    BY <2>1, <2>2, <2>3, QuietStep DEF RInv, quota, shutdown
<1>4. CASE Add(c)
  <2>1. /\ pc[c] = "add" /\ Goto(c, "serving") /\ clients' = clients \cup {c}
        /\ UNCHANGED <<socket, quota, shutdown>>
    BY <1>4 DEF Add
  <2>2. QED
    BY <2>1, QuietStep DEF RInv, quota, shutdown
<1>5. CASE Remove(c)
  <2>1. /\ pc[c] = "serving" /\ Goto(c, "release") /\ clients' = clients \ {c}
        /\ UNCHANGED <<socket, quota, shutdown>>
    BY <1>5 DEF Remove
  <2>2. QED
    BY <2>1, QuietStep DEF RInv, quota, shutdown
<1>6. CASE ReleaseAtEnd(c)
  <2>1. /\ pc[c] = "release" /\ Goto(c, "done") /\ Release(c)
        /\ UNCHANGED <<socket, clients, shutdown>>
    BY <1>6 DEF ReleaseAtEnd
  <2>2. QED
    BY <2>1, ReleaseStep DEF RInv, shutdown
<1>7. CASE PeerLeaves(c)
  BY <1>7 DEF PeerLeaves, RInv, quota, shutdown
<1>8. QED
  BY <1>1, <1>2, <1>3, <1>4, <1>5, <1>6, <1>7

\* The steps of main touch neither the goroutines nor the counters.
LEMMA ShutdownStep ==
    ASSUME RInv, Signal \/ MainStep
    PROVE  RInv'
<1>1. UNCHANGED <<pc, bySub, byIP, clients>>
  BY DEF Signal, MainStep, Main, BroadcastShutdown, Drain, ForceClose, CloseOne, AllClosed,
         Exit, quota
<1>2. phase' \in Phases
  BY DEF Signal, MainStep, Main, BroadcastShutdown, Drain, ForceClose, CloseOne, AllClosed,
         Exit, Phases, RInv
<1>3. socket' \in [Conns -> {"none", "open", "closed"}]
  BY DEF Signal, MainStep, Main, BroadcastShutdown, Drain, ForceClose, CloseOne, AllClosed,
         Exit, RInv
<1>4. told' \subseteq Conns /\ toClose' \subseteq Conns
  BY DEF Signal, MainStep, Main, BroadcastShutdown, Drain, ForceClose, CloseOne, AllClosed,
         Exit, RInv
<1>5. QED
  BY <1>1, <1>2, <1>3, <1>4 DEF RInv

-----------------------------------------------------------------------------
LEMMA InitEstablishesRInv == Init => RInv
<1> SUFFICES ASSUME Init PROVE RInv
  OBVIOUS
<1>1. /\ pc \in [Conns -> PCs] /\ \A c \in Conns : pc[c] = "arrive"
      /\ bySub \in [Subjects -> 0..PerSubject] /\ \A s \in Subjects : bySub[s] = 0
      /\ byIP \in [Addrs -> 0..PerIP] /\ \A a \in Addrs : byIP[a] = 0
      /\ PerSubject \in Nat /\ PerIP \in Nat
  BY RealtimeAssumption DEF Init, PCs
<1>2. ASSUME NEW key, NEW k, NEW cap \in Nat PROVE Law(pc, 0, key, k, cap)
  <2>1. /\ {c \in Of(key, k) : pc[c] \in Owing} = {}
        /\ {c \in Of(key, k) : pc[c] \in Away} = {}
    BY <1>1 DEF Of, Owing, Away, Holding
  <2>2. Number(pc, Owing, Of(key, k)) = 0 /\ Number(pc, Away, Of(key, k)) = 0
    BY <2>1, FS_EmptySet DEF Number
  <2>3. QED
    BY <1>2, <2>2 DEF Law
<1>3. /\ \A s \in Subjects : Law(pc, bySub[s], SubOf, s, PerSubject)
      /\ \A a \in Addrs : Law(pc, byIP[a], IpOf, a, PerIP)
  BY <1>1, <1>2
<1>4. QED
  BY <1>1, <1>3 DEF Init, RInv, Phases

LEMMA NextKeepsRInv == RInv /\ [Next]_vars => RInv'
<1> SUFFICES ASSUME RInv, [Next]_vars PROVE RInv'
  OBVIOUS
<1>1. CASE \E c \in Conns : ServeWS(c) \/ PeerLeaves(c)
  BY <1>1, AcquireStep, ServeStep DEF ServeWS
<1>2. CASE Signal \/ MainStep
  BY <1>2, ShutdownStep
<1>3. CASE UNCHANGED vars
  BY <1>3 DEF vars, quota, shutdown, RInv
<1>4. QED
  BY <1>1, <1>2, <1>3 DEF Next

LEMMA AlwaysRInv == Spec => []RInv
BY InitEstablishesRInv, NextKeepsRInv, PTL DEF Spec

\* HowMany is a count over the connections of one key.
LEMMA HowManyIsNumber ==
    ASSUME NEW ps, NEW key, NEW k
    PROVE  HowMany(ps, key, k) = Number(pc, ps, Of(key, k))
<1>1. {c \in Conns : pc[c] \in ps /\ key[c] = k} = {c \in Of(key, k) : pc[c] \in ps}
  BY DEF Of
<1>2. QED
  BY <1>1 DEF HowMany, Number

(* The limiter's counters stay within their caps and the hub within its clients. *)
THEOREM RealtimeTypeCorrect == Spec => []TypeOK
<1>1. RInv => TypeOK
  BY DEF RInv, TypeOK
<1>2. QED
  BY <1>1, AlwaysRInv, PTL

(* Limiter.Acquire and Release: for any number of connections and any caps, a    *)
(* counter never exceeds the connections that owe quota, and falls short of them *)
(* by at most one per refused request.                                           *)
THEOREM QuotaAlwaysAccounted == Spec => []QuotaIsAccounted
<1>1. RInv => QuotaIsAccounted
  <2> SUFFICES ASSUME RInv PROVE QuotaIsAccounted
    OBVIOUS
  <2>1. /\ \A s \in Subjects : Law(pc, bySub[s], SubOf, s, PerSubject)
        /\ \A a \in Addrs : Law(pc, byIP[a], IpOf, a, PerIP)
    BY DEF RInv
  <2>2. QED
    BY <2>1, HowManyIsNumber DEF Law, QuotaIsAccounted, Accounted, Owing, Away
<1>2. QED
  BY <1>1, AlwaysRInv, PTL

(* Hence a cap is exceeded by at most one connection per refused request.        *)
THEOREM OverrunAlwaysBounded == Spec => []OverrunIsBounded
<1>1. ASSUME NEW n, NEW key, NEW k, NEW cap \in Nat, Law(pc, n, key, k, cap)
      PROVE  HowMany(Holding, key, k) <= cap + HowMany({"turnedAway"}, key, k)
  <2> DEFINE H == HowMany(Holding, key, k)
             A == Number(pc, Owing, Of(key, k))
             T == HowMany({"turnedAway"}, key, k)
  <2>1. IsFiniteSet(Of(key, k))
    BY FS_Subset, RealtimeAssumption DEF Of
  <2>2. H \in Nat /\ T \in Nat /\ A \in Nat
    BY <2>1, HowManyIsNumber, NumberIsNat
  <2>3. H <= A
    <3> DEFINE SH == {c \in Of(key, k) : pc[c] \in Holding}
               SA == {c \in Of(key, k) : pc[c] \in Owing}
    <3>1. SH \subseteq SA /\ IsFiniteSet(SA)
      BY <2>1, FS_Subset DEF Owing
    <3>2. Cardinality(SH) <= Cardinality(SA)
      BY <3>1, FS_Subset
    <3>3. H = Cardinality(SH) /\ A = Cardinality(SA)
      BY HowManyIsNumber DEF Number
    <3>4. QED
      BY <3>2, <3>3
  <2>4. n \in 0..cap /\ A <= n + T
    BY <1>1, HowManyIsNumber DEF Law, Away
  <2> HIDE DEF H, A, T
  <2>5. H <= cap + T
    BY <2>2, <2>3, <2>4
  <2>6. QED
    BY <2>5 DEF H, T
<1>2. RInv => OverrunIsBounded
  <2> SUFFICES ASSUME RInv PROVE OverrunIsBounded
    OBVIOUS
  <2>1. /\ \A s \in Subjects : Law(pc, bySub[s], SubOf, s, PerSubject)
        /\ \A a \in Addrs : Law(pc, byIP[a], IpOf, a, PerIP)
        /\ PerSubject \in Nat /\ PerIP \in Nat
    BY RealtimeAssumption DEF RInv
  <2>2. QED
    BY <1>1, <2>1 DEF OverrunIsBounded
<1>3. QED
  BY <1>2, AlwaysRInv, PTL

-----------------------------------------------------------------------------
(* The drain.  A client that was told is served or has left, so its socket can *)
(* not open again; it stays registered until the socket is closed.             *)

ToldShape(c) ==
    /\ pc[c] \in {"serving", "release", "done"}
    /\ socket[c] = "closed" \/ c \in clients
    /\ phase = "closing" => socket[c] = "closed" \/ c \in toClose
    /\ phase \in {"stopping", "exited"} => socket[c] = "closed"

DInv ==
    /\ RInv
    /\ \A c \in clients : pc[c] = "serving"
    /\ phase \in {"up", "notify"} => told = {}
    /\ \A c \in told : ToldShape(c)

LEMMA InitEstablishesDInv == Init => DInv
BY InitEstablishesRInv DEF DInv, Init

\* A step of one connection: what it does to a client that was told.
LEMMA ServeKeepsDInv ==
    ASSUME DInv, RInv', NEW d \in Conns, ServeWS(d) \/ PeerLeaves(d)
    PROVE  DInv'
<1>1. UNCHANGED <<phase, told, toClose>>
  BY DEF ServeWS, Arrive, Acquire, Refuse, Accept, Add, Remove, ReleaseAtEnd, PeerLeaves, shutdown
<1>2. pc \in [Conns -> PCs] /\ socket \in [Conns -> {"none", "open", "closed"}]
      /\ clients \subseteq Conns /\ told \subseteq Conns
  BY DEF DInv, RInv
<1>3. ASSUME NEW c \in clients' PROVE pc'[c] = "serving"
  BY <1>2, <1>3 DEF DInv, ServeWS, Arrive, Acquire, Refuse, Accept, Add, Remove, ReleaseAtEnd,
                    PeerLeaves, Goto
<1>4. ASSUME NEW c \in told PROVE ToldShape(c)'
  <2>1. ToldShape(c) /\ c \in Conns
    BY <1>2, <1>4 DEF DInv
  <2>2. pc'[c] \in {"serving", "release", "done"}
    BY <1>2, <2>1 DEF ToldShape, ServeWS, Arrive, Acquire, Refuse, Accept, Add, Remove,
                      ReleaseAtEnd, PeerLeaves, Goto
  <2>3. socket[c] = "closed" => socket'[c] = "closed"
    BY <1>2, <2>1 DEF ToldShape, ServeWS, Arrive, Acquire, Refuse, Accept, Add, Remove,
                      ReleaseAtEnd, PeerLeaves
  <2>4. c \in clients => socket'[c] = "closed" \/ c \in clients'
    BY <1>2, <2>1 DEF ToldShape, ServeWS, Arrive, Acquire, Refuse, Accept, Add, Remove,
                      ReleaseAtEnd, PeerLeaves
  <2>5. QED
    BY <1>1, <2>1, <2>2, <2>3, <2>4 DEF ToldShape
<1>5. QED
  BY <1>1, <1>3, <1>4 DEF DInv

\* A step of main.
LEMMA MainKeepsDInv ==
    ASSUME DInv, RInv', Signal \/ MainStep
    PROVE  DInv'
<1>1. UNCHANGED <<pc, clients>>
  BY DEF Signal, MainStep, Main, BroadcastShutdown, Drain, ForceClose, CloseOne, AllClosed, Exit
<1>2. socket \in [Conns -> {"none", "open", "closed"}] /\ clients \subseteq Conns
      /\ told \subseteq Conns /\ \A c \in clients : pc[c] = "serving"
  BY DEF DInv, RInv
<1>3. phase' \in {"up", "notify"} => told' = {}
  BY DEF DInv, Signal, MainStep, Main, BroadcastShutdown, Drain, ForceClose, CloseOne,
         AllClosed, Exit
<1>4. ASSUME NEW c \in told' PROVE ToldShape(c)'
  <2>1. CASE BroadcastShutdown
    BY <1>1, <1>2, <1>4, <2>1 DEF BroadcastShutdown, Main, ToldShape
  <2>2. CASE ~BroadcastShutdown
    <3>1. told' = told /\ ToldShape(c)
      BY <1>4, <2>2 DEF DInv, Signal, MainStep, Drain, ForceClose, CloseOne, AllClosed, Exit
    <3>2. CASE Signal
      BY <1>1, <3>1, <3>2 DEF Signal, Main, ToldShape
    <3>3. CASE Drain
      BY <1>1, <3>1, <3>3 DEF Drain, Main, ToldShape
    <3>4. CASE ForceClose
      BY <1>1, <3>1, <3>4 DEF ForceClose, Main, ToldShape
    <3>5. CASE \E d \in Conns : CloseOne(d)
      BY <1>1, <1>2, <3>1, <3>5 DEF CloseOne, ToldShape
    <3>6. CASE AllClosed
      BY <1>1, <3>1, <3>6 DEF AllClosed, Main, ToldShape
    <3>7. CASE Exit
      BY <1>1, <3>1, <3>7 DEF Exit, Main, ToldShape
    <3>8. QED
      BY <2>2, <3>2, <3>3, <3>4, <3>5, <3>6, <3>7 DEF MainStep
  <2>3. QED
    BY <2>1, <2>2
<1>5. QED
  BY <1>1, <1>2, <1>3, <1>4 DEF DInv

LEMMA NextKeepsDInv == DInv /\ [Next]_vars => DInv'
<1> SUFFICES ASSUME DInv, [Next]_vars PROVE DInv'
  OBVIOUS
<1>1. RInv'
  BY NextKeepsRInv DEF DInv
<1>2. CASE \E c \in Conns : ServeWS(c) \/ PeerLeaves(c)
  BY <1>1, <1>2, ServeKeepsDInv
<1>3. CASE Signal \/ MainStep
  BY <1>1, <1>3, MainKeepsDInv
<1>4. CASE UNCHANGED vars
  BY <1>1, <1>4 DEF vars, shutdown, DInv, ToldShape
<1>5. QED
  BY <1>2, <1>3, <1>4 DEF Next

(* hub/drain.go: whoever was told of the shutdown is disconnected when the       *)
(* process exits, for any number of clients and any schedule.                    *)
THEOREM ToldClientsAlwaysClosed == Spec => []ToldClientsAreClosed
<1>1. DInv => ToldClientsAreClosed
  BY DEF DInv, ToldShape, ToldClientsAreClosed
<1>2. QED
  BY <1>1, InitEstablishesDInv, NextKeepsDInv, PTL DEF Spec

(* The four together: what a connection takes of the limiter it gives back, up to the  *)
(* two leaks the code has, and the drain leaves no notified client connected.          *)
THEOREM ConnectionsStaySound == Spec => []ConnectionsAreSound
BY RealtimeTypeCorrect, QuotaAlwaysAccounted, OverrunAlwaysBounded, ToldClientsAlwaysClosed,
   PTL DEF ConnectionsAreSound

-----------------------------------------------------------------------------
(* The tables of what users write. *)

\* The operators that Community takes from the libraries are those of this module.
LEMMA DbSameSize == \A S : Db!Cardinality(S) = Cardinality(S) /\ Db!IsFiniteSet(S) = IsFiniteSet(S)
BY DEF Db!Cardinality, Cardinality, Db!IsFiniteSet, IsFiniteSet

CommentRow == [thread : Threads, parent : Comments \cup {Db!Top}, author : Users]
MarkRow == [value : {-1, 1}, id : 1..MaxRequests]
RequestRow ==
    {Db!Idle}
    \cup [pc : {"comment"}, user : Users, thread : Threads, parent : Comments \cup {Db!Top}]
    \cup [pc : {"write"}, user : Users, post : Db!Posts, value : {-1, 1},
          seen : MarkRow \cup {Db!NoMark}, id : 1..MaxRequests]
    \cup [pc : {"sum"}, post : Solutions]
    \cup [pc : {"store"}, post : Solutions, sum : Int, fresh : BOOLEAN]

TableTypes ==
    /\ accounts \subseteq Users
    /\ author \in [Threads \cup Solutions -> Users \cup {Db!Unused, Db!Gone}]
    /\ comment \in [Comments -> CommentRow \cup {Db!NoComment(Db!Unused), Db!NoComment(Db!Gone)}]
    /\ mark \in [Db!Posts -> [Users -> MarkRow \cup {Db!NoMark}]]
    /\ voteCount \in [Solutions -> Int]
    /\ req \in [Requests -> RequestRow]
    /\ started \in 0..MaxRequests
    /\ excused \subseteq Solutions

\* A reply is in the thread of its parent.
Attached ==
    \A k \in Db!Written :
        Db!Parent(k) # Db!Top => Db!Parent(k) \in Db!Written /\ comment[Db!Parent(k)].thread = comment[k].thread
Shallow == \A k \in Db!Written : Cardinality(Db!Upwards(k)) <= MaxReplyDepth

\* A parent that was checked and is still there is where it was, and as deep.
RepliesHold ==
    \A r \in Requests, p \in Comments : req[r].pc = "comment" /\ req[r].parent = p =>
        /\ comment[p].thread # Db!Unused
        /\ p \in Db!Written =>
              comment[p].thread = req[r].thread /\ Cardinality(Db!Upwards(p)) < MaxReplyDepth

\* Nobody has voted for what does not exist yet.
Unvoted ==
    \A s \in Solutions : author[s] = Db!Unused =>
        /\ voteCount[s] = 0
        /\ \A r \in Requests : req[r].pc \in {"write", "sum", "store"} => req[r].post # s

\* A sum that no vote has overtaken is right.
SumsHold ==
    \A r \in Requests :
        req[r].pc = "store" /\ req[r].fresh /\ req[r].post \in Db!Authored =>
            req[r].sum = Db!Score(req[r].post)

TreesHold == Attached /\ Shallow /\ RepliesHold
CountsHold == Unvoted /\ SumsHold /\ Db!CountIsExactUnlessExcused

\* The inductive invariant of the tables.
TInv == TableTypes /\ TreesHold /\ Db!NoOrphans /\ CountsHold
-----------------------------------------------------------------------------
\* Upwards, for any table of comments.
Above(C, k) ==
    {c \in Comments :
        \A S \in SUBSET Comments :
            k \in S /\ (\A d \in S : C[d].parent \in S \cup {Db!Top}) => c \in S}
TableOf(C) == \A d \in Comments : C[d].parent \in Comments \cup {Db!Top}

LEMMA UpwardsIsAbove == \A k \in Comments : Db!Upwards(k) = Above(comment, k) /\ Db!Upwards(k)' = Above(comment', k)
BY DEF Db!Upwards, Above, Db!Parent

LEMMA AboveIsClosed ==
    ASSUME NEW C, TableOf(C), NEW k \in Comments
    PROVE  /\ k \in Above(C, k) /\ Above(C, k) \subseteq Comments
           /\ \A d \in Above(C, k) : C[d].parent \in Above(C, k) \cup {Db!Top}
<1>1. k \in Above(C, k) /\ Above(C, k) \subseteq Comments
  BY DEF Above
<1>2. ASSUME NEW d \in Above(C, k), C[d].parent # Db!Top PROVE C[d].parent \in Above(C, k)
  <2>1. C[d].parent \in Comments
    BY <1>1, <1>2 DEF TableOf
  <2>2. ASSUME NEW S \in SUBSET Comments, k \in S, \A e \in S : C[e].parent \in S \cup {Db!Top}
        PROVE  C[d].parent \in S
    BY <1>2, <2>2 DEF Above
  <2>3. QED
    BY <2>1, <2>2 DEF Above
<1>3. QED
  BY <1>1, <1>2

LEMMA AboveIsLeast ==
    ASSUME NEW C, NEW k, NEW S \in SUBSET Comments, k \in S,
           \A d \in S : C[d].parent \in S \cup {Db!Top}
    PROVE  Above(C, k) \subseteq S
BY DEF Above

LEMMA AboveIsSmaller ==
    ASSUME NEW C, TableOf(C), NEW k \in Comments, NEW d \in Above(C, k)
    PROVE  Above(C, d) \subseteq Above(C, k)
BY AboveIsClosed, AboveIsLeast

\* A thread's written comments are closed upwards.
LEMMA AboveStays ==
    ASSUME TableTypes, Attached, NEW k \in Db!Written
    PROVE  /\ Db!Upwards(k) \subseteq Db!Written
           /\ \A d \in Db!Upwards(k) : comment[d].thread = comment[k].thread
<1> DEFINE S == {d \in Db!Written : comment[d].thread = comment[k].thread}
<1>1. S \in SUBSET Comments /\ k \in S
  BY DEF Db!Written
<1>2. \A d \in S : comment[d].parent \in S \cup {Db!Top}
  BY DEF Attached, Db!Parent
<1>3. Above(comment, k) \subseteq S
  BY <1>1, <1>2, AboveIsLeast
<1>4. QED
  BY <1>1, <1>3, UpwardsIsAbove

LEMMA TopIsNoComment == Db!CommunityConstants => Db!Top \notin Comments
BY DEF Db!CommunityConstants

LEMMA TypedTable == TableTypes => TableOf(comment)
<1> SUFFICES ASSUME TableTypes, NEW d \in Comments PROVE comment[d].parent \in Comments \cup {Db!Top}
  BY DEF TableOf
<1>1. comment[d] \in CommentRow \cup {Db!NoComment(Db!Unused), Db!NoComment(Db!Gone)}
  BY DEF TableTypes
<1>2. QED
  BY <1>1 DEF CommentRow, Db!NoComment

\* Written comments are the rows.
LEMMA WrittenRows ==
    ASSUME Db!CommunityConstants, TableTypes, NEW k \in Comments
    PROVE  /\ k \in Db!Written => comment[k] \in CommentRow
           /\ k \notin Db!Written => comment[k] \in {Db!NoComment(Db!Unused), Db!NoComment(Db!Gone)}
           /\ comment[k].thread = Db!Unused => k \notin Db!Written
<1>1. comment[k] \in CommentRow \cup {Db!NoComment(Db!Unused), Db!NoComment(Db!Gone)}
  BY DEF TableTypes
<1>2. comment[k] \in CommentRow => comment[k].thread \in Threads /\ comment[k].thread # Db!Unused
  BY DEF CommentRow, Db!CommunityConstants
<1>3. \A w \in {Db!Unused, Db!Gone} : Db!NoComment(w).thread = w /\ w \notin Threads
  BY DEF Db!NoComment, Db!CommunityConstants
<1>4. QED
  BY <1>1, <1>2, <1>3 DEF Db!Written

\* What Upwards was, it still is where no comment of it has changed.
LEMMA AboveKept ==
    ASSUME TableTypes, NEW k \in Comments, TableOf(comment'),
           \A d \in Db!Upwards(k) : comment'[d] = comment[d]
    PROVE  Db!Upwards(k)' \subseteq Db!Upwards(k)
<1>1. k \in Db!Upwards(k) /\ Db!Upwards(k) \in SUBSET Comments
      /\ \A d \in Db!Upwards(k) : comment[d].parent \in Db!Upwards(k) \cup {Db!Top}
  BY TypedTable, UpwardsIsAbove, AboveIsClosed
<1>2. \A d \in Db!Upwards(k) : comment'[d].parent \in Db!Upwards(k) \cup {Db!Top}
  BY <1>1
<1>3. PICK S : S = Db!Upwards(k)
  OBVIOUS
<1>4. Above(comment', k) \subseteq S
  BY <1>1, <1>2, <1>3, AboveIsLeast
<1>5. QED
  BY <1>3, <1>4, UpwardsIsAbove

LEMMA SmallerIsSmall ==
    ASSUME Db!CommunityConstants, NEW S, NEW T \in SUBSET Comments, S \subseteq T
    PROVE  Cardinality(S) \in Nat /\ Cardinality(T) \in Nat /\ Cardinality(S) <= Cardinality(T)
<1>1. IsFiniteSet(Comments)
  BY DbSameSize DEF Db!CommunityConstants
<1>2. IsFiniteSet(T)
  BY <1>1, FS_Subset
<1>3. QED
  BY <1>2, FS_Subset, FS_CardinalityType

\* A smaller path stays below a bound.
LEMMA SmallerThanSmall ==
    ASSUME Db!CommunityConstants, NEW k \in Comments, Db!Upwards(k)' \subseteq Db!Upwards(k)
    PROVE  /\ Cardinality(Db!Upwards(k)) <= MaxReplyDepth => Cardinality(Db!Upwards(k)') <= MaxReplyDepth
           /\ Cardinality(Db!Upwards(k)) < MaxReplyDepth => Cardinality(Db!Upwards(k)') < MaxReplyDepth
<1>1. Db!Upwards(k) \in SUBSET Comments
  BY DEF Db!Upwards
<1>2. /\ Cardinality(Db!Upwards(k)') \in Nat /\ Cardinality(Db!Upwards(k)) \in Nat
      /\ Cardinality(Db!Upwards(k)') <= Cardinality(Db!Upwards(k))
  BY <1>1, SmallerIsSmall
<1>3. QED
  BY <1>2 DEF Db!CommunityConstants

-----------------------------------------------------------------------------
\* A step that leaves the comments alone and keeps what is known of the parents.
LEMMA TreesUntouched ==
    ASSUME TableTypes, TreesHold, UNCHANGED comment,
           \A r \in Requests : req'[r].pc = "comment" => req'[r] = req[r]
    PROVE  TreesHold'
<1>1. Db!Written' = Db!Written /\ \A k \in Comments : Db!Upwards(k)' = Db!Upwards(k)
  BY DEF Db!Written, Db!Upwards, Db!Parent
<1>2. Attached'
  BY <1>1 DEF TreesHold, Attached, Db!Parent, Db!Written
<1>3. Shallow'
  BY <1>1 DEF TreesHold, Shallow, Db!Written
<1>4. RepliesHold'
  BY <1>1 DEF TreesHold, RepliesHold, Db!Written
<1>5. QED
  BY <1>2, <1>3, <1>4 DEF TreesHold

LEMMA CheckKeepsTrees ==
    ASSUME Db!CommunityConstants, TableTypes, TreesHold, NEW r \in Requests, NEW u \in Users, NEW t \in Threads,
           NEW k \in Comments \cup {Db!Top}, Db!CommentCheck(r, u, t, k)
    PROVE  TreesHold'
<1>1. Db!Written' = Db!Written /\ \A j \in Comments : Db!Upwards(j)' = Db!Upwards(j)
  BY DEF Db!Written, Db!Upwards, Db!Parent, Db!CommentCheck
<1>2. Attached'
  BY <1>1 DEF TreesHold, Attached, Db!Parent, Db!Written, Db!CommentCheck
<1>3. Shallow'
  BY <1>1 DEF TreesHold, Shallow, Db!Written
<1>4. RepliesHold'
  <2> SUFFICES ASSUME NEW q \in Requests, NEW p \in Comments,
                      req'[q].pc = "comment", req'[q].parent = p
               PROVE  /\ comment[p].thread # Db!Unused
                      /\ p \in Db!Written =>
                            comment[p].thread = req'[q].thread /\ Cardinality(Db!Upwards(p)) < MaxReplyDepth
    BY <1>1 DEF RepliesHold, Db!CommentCheck
  <2>1. CASE q # r
    <3>1. req'[q] = req[q]
      BY <2>1 DEF Db!CommentCheck, TableTypes
    <3>2. QED
      BY <1>1, <3>1 DEF TreesHold, RepliesHold, Db!Written
  <2>2. CASE q = r
    <3>1. p = k /\ req'[q].thread = t
      BY <2>2 DEF Db!CommentCheck, TableTypes
    <3>2. k \in Db!Written /\ comment[k].thread = t /\ Db!Depth(k) < MaxReplyDepth /\ k \in Comments
      BY <3>1, TopIsNoComment DEF Db!CommentCheck, Db!MayReply, Db!Written
    <3>3. Db!Upwards(k) \in SUBSET Comments
      BY DEF Db!Upwards
    <3>4. Cardinality(Db!Upwards(k)) \in Nat
      BY <3>3, SmallerIsSmall
    <3>5. Cardinality(Db!Upwards(k)) < MaxReplyDepth
      <4> DEFINE n == Cardinality(Db!Upwards(k))
      <4>1. \E x \in {n, MaxReplyDepth} : \A y \in {n, MaxReplyDepth} : x <= y
        BY <3>4 DEF Db!CommunityConstants
      <4>2. Db!Depth(k) \in {n, MaxReplyDepth} /\ \A y \in {n, MaxReplyDepth} : Db!Depth(k) <= y
        BY <4>1, DbSameSize DEF Db!Depth, Db!Min
      <4>3. QED
        BY <3>2, <3>4, <4>2 DEF Db!CommunityConstants
    <3>6. comment[k].thread # Db!Unused
      BY <3>2, WrittenRows
    <3>7. QED
      BY <1>1, <3>1, <3>2, <3>5, <3>6
  <2>3. QED
    BY <2>1, <2>2
<1>5. QED
  BY <1>2, <1>3, <1>4 DEF TreesHold

LEMMA CreateKeepsTrees ==
    ASSUME Db!CommunityConstants, TableTypes, TableTypes', TreesHold, NEW r \in Requests, NEW k \in Comments,
           Db!CommentCreate(r, k)
    PROVE  TreesHold'
<1>1. req[r].pc = "comment" /\ req'[r].pc # "comment" /\ \A q \in Requests \ {r} : req'[q] = req[q]
  BY DEF Db!CommentCreate, TableTypes, Db!Idle
<1>2. CASE UNCHANGED comment
  BY <1>1, <1>2, TreesUntouched
<1>3. CASE ~(UNCHANGED comment)
  <2>1. /\ req[r].parent \in Db!Written \cup {Db!Top}
        /\ comment' = [comment EXCEPT ![k] = [thread |-> req[r].thread, parent |-> req[r].parent,
                                              author |-> req[r].user]]
    BY <1>3 DEF Db!CommentCreate
  <2>2. PICK t, p, u : t = req[r].thread /\ p = req[r].parent /\ u = req[r].user
    OBVIOUS
  <2>3. k \notin Db!Written
    BY WrittenRows DEF Db!CommentCreate
  <2>4. comment'[k].parent = p /\ comment'[k].thread = t /\ \A d \in Comments \ {k} : comment'[d] = comment[d]
    BY <2>1, <2>2 DEF TableTypes
  <2>5. Db!Written' \subseteq Db!Written \cup {k}
    BY <2>4 DEF Db!Written
  <2>6. Db!Written \subseteq Db!Written'
    BY <2>3, <2>4 DEF Db!Written
  <2>7. TableOf(comment')
    <3> SUFFICES ASSUME NEW d \in Comments PROVE comment'[d].parent \in Comments \cup {Db!Top}
      BY DEF TableOf
    <3>1. comment'[d] \in CommentRow \cup {Db!NoComment(Db!Unused), Db!NoComment(Db!Gone)}
      BY DEF TableTypes
    <3>2. QED
      BY <3>1 DEF CommentRow, Db!NoComment
  <2>8. \A d \in Db!Written : Db!Upwards(d)' \subseteq Db!Upwards(d)
    BY <2>3, <2>4, <2>7, AboveKept, AboveStays DEF TreesHold, Db!Written
  <2>9. \A d \in Db!Written : Cardinality(Db!Upwards(d)') <= Cardinality(Db!Upwards(d))
    <3>1. \A d \in Db!Written : Db!Upwards(d) \in SUBSET Comments
      BY DEF Db!Upwards
    <3>2. QED
      BY <2>8, <3>1, SmallerIsSmall
  <2>10. p # Db!Top => p \in Db!Written /\ comment[p].thread = t /\ Cardinality(Db!Upwards(p)) < MaxReplyDepth
    BY <1>1, <2>1, <2>2, TopIsNoComment DEF TreesHold, RepliesHold, Db!Written
  <2>11. Attached'
    <3> SUFFICES ASSUME NEW d \in Db!Written', comment'[d].parent # Db!Top
                 PROVE  /\ comment'[d].parent \in Db!Written'
                        /\ comment'[comment'[d].parent].thread = comment'[d].thread
      BY DEF Attached, Db!Parent
    <3>1. CASE d = k
      BY <2>3, <2>4, <2>6, <2>10, <3>1 DEF Db!Written
    <3>2. CASE d # k
      <4>1. d \in Db!Written /\ comment'[d] = comment[d]
        BY <2>4, <2>5, <3>2 DEF Db!Written
      <4>2. comment[d].parent \in Db!Written /\ comment[comment[d].parent].thread = comment[d].thread
        BY <4>1 DEF TreesHold, Attached, Db!Parent
      <4>3. QED
        BY <2>3, <2>4, <2>6, <4>1, <4>2 DEF Db!Written
    <3>3. QED
      BY <3>1, <3>2
  <2>12. Cardinality(Db!Upwards(k)') <= MaxReplyDepth
    <3> DEFINE U == IF p = Db!Top THEN {} ELSE Db!Upwards(p)
    <3>1. U \subseteq Db!Written /\ U \in SUBSET Comments /\ k \notin U
      BY <2>3, <2>10, AboveStays DEF TreesHold, Db!Written
    <3>2. \A d \in U : comment'[d].parent \in U \cup {Db!Top}
      <4>1. \A d \in U : comment'[d] = comment[d]
        BY <2>4, <3>1
      <4>2. \A d \in U : comment[d].parent \in U \cup {Db!Top}
        BY <2>10, TypedTable, AboveIsClosed, UpwardsIsAbove DEF Db!Written
      <4>3. QED
        BY <4>1, <4>2
    <3>3. p # Db!Top => p \in U
      BY <2>10, TypedTable, AboveIsClosed, UpwardsIsAbove DEF Db!Written
    <3>4. PICK V : V = U
      OBVIOUS
    <3> HIDE DEF U
    <3>5. Above(comment', k) \subseteq V \cup {k}
      <4>1. V \cup {k} \in SUBSET Comments
        BY <3>1, <3>4
      <4>2. \A d \in V \cup {k} : comment'[d].parent \in (V \cup {k}) \cup {Db!Top}
        BY <2>4, <3>2, <3>3, <3>4
      <4>3. QED
        BY <4>1, <4>2, AboveIsLeast
    <3>6. V \cup {k} \in SUBSET Comments /\ IsFiniteSet(V)
      BY <3>1, <3>4, FS_Subset, DbSameSize DEF Db!CommunityConstants
    <3>7. Cardinality(V \cup {k}) = Cardinality(V) + 1
      BY <3>1, <3>4, <3>6, FS_AddElement
    <3>8. Cardinality(V) < MaxReplyDepth /\ Cardinality(V) \in Nat
      <4>1. p = Db!Top => V = {}
        BY <3>4 DEF U
      <4>2. p # Db!Top => V = Db!Upwards(p)
        BY <3>4 DEF U
      <4>3. QED
        BY <2>10, <3>6, <4>1, <4>2, FS_EmptySet, FS_CardinalityType DEF Db!CommunityConstants
    <3>9. Cardinality(Above(comment', k)) <= Cardinality(V \cup {k}) /\ Cardinality(Above(comment', k)) \in Nat
      BY <3>5, <3>6, SmallerIsSmall
    <3>10. Db!Upwards(k)' = Above(comment', k)
      BY UpwardsIsAbove
    <3>11. QED
      BY <3>7, <3>8, <3>9, <3>10 DEF Db!CommunityConstants
  <2>13. Shallow'
    <3> SUFFICES ASSUME NEW d \in Db!Written' PROVE Cardinality(Db!Upwards(d)') <= MaxReplyDepth
      BY DEF Shallow
    <3>1. CASE d = k
      BY <2>12, <3>1
    <3>2. CASE d # k
      <4>1. d \in Db!Written /\ Cardinality(Db!Upwards(d)) <= MaxReplyDepth
        BY <2>5, <3>2 DEF TreesHold, Shallow
      <4>2. QED
        BY <4>1, <2>8, SmallerThanSmall DEF Db!Written
    <3>3. QED
      BY <3>1, <3>2
  <2>14. RepliesHold'
    <3> SUFFICES ASSUME NEW q \in Requests, NEW c \in Comments,
                        req'[q].pc = "comment", req'[q].parent = c
                 PROVE  /\ comment'[c].thread # Db!Unused
                        /\ c \in Db!Written' => /\ comment'[c].thread = req'[q].thread
                                                /\ Cardinality(Db!Upwards(c)') < MaxReplyDepth
      BY DEF RepliesHold
    <3>1. req'[q] = req[q]
      BY <1>1
    <3>2. /\ comment[c].thread # Db!Unused
          /\ c \in Db!Written => comment[c].thread = req[q].thread /\ Cardinality(Db!Upwards(c)) < MaxReplyDepth
      BY <3>1 DEF TreesHold, RepliesHold
    <3>3. c # k /\ comment'[c] = comment[c]
      BY <2>4, <3>2 DEF Db!CommentCreate
    <3>4. c \in Db!Written' => c \in Db!Written
      BY <2>5, <3>3
    <3>5. QED
      BY <2>8, <3>1, <3>2, <3>3, <3>4, SmallerThanSmall
  <2>15. QED
    BY <2>11, <2>13, <2>14 DEF TreesHold
<1>4. QED
  BY <1>2, <1>3

\* A deletion leaves whole threads, whole branches and what hangs on neither.
LEMMA CascadeSpares ==
    ASSUME Db!CommunityConstants, TableTypes, Attached, NEW posts, NEW comments, Db!Cascade(posts, comments)
    PROVE  /\ Db!Written' \subseteq Db!Written
           /\ \A k \in Comments : comment'[k] \in {comment[k], Db!NoComment(Db!Gone)}
           /\ \A k \in Db!Written' : comment[k].thread \notin posts
           /\ \A k \in Db!Written' : \A d \in Db!Upwards(k) : d \in Db!Written' /\ comment'[d] = comment[d]
<1> DEFINE Hit(k) == comment[k].thread \in posts \/ Db!Upwards(k) \cap comments # {}
<1>1. \A k \in Comments :
          comment'[k] = IF k \in Db!Written /\ Hit(k) THEN Db!NoComment(Db!Gone) ELSE comment[k]
  BY DEF Db!Cascade
<1>2. Db!NoComment(Db!Gone).thread \notin Threads
  BY DEF Db!NoComment, Db!CommunityConstants
<1>3. \A k \in Db!Written' : k \in Db!Written /\ ~Hit(k)
  BY <1>1, <1>2 DEF Db!Written
<1>4. \A k \in Db!Written : ~Hit(k) => k \in Db!Written' /\ comment'[k] = comment[k]
  BY <1>1 DEF Db!Written
<1>5. ASSUME NEW k \in Db!Written', NEW d \in Db!Upwards(k) PROVE d \in Db!Written /\ ~Hit(d)
  <2>1. d \in Db!Written /\ comment[d].thread = comment[k].thread
    BY <1>3, AboveStays
  <2>2. Db!Upwards(d) \subseteq Db!Upwards(k)
    <3>1. k \in Comments /\ d \in Comments
      BY <2>1 DEF Db!Written
    <3>2. QED
      BY <3>1, <1>5, TypedTable, AboveIsSmaller, UpwardsIsAbove
  <2>3. QED
    BY <1>3, <1>5, <2>1, <2>2
<1>6. QED
  BY <1>1, <1>3, <1>4, <1>5

LEMMA CascadeKeepsTrees ==
    ASSUME Db!CommunityConstants, TableTypes, TableTypes', TreesHold, NEW posts, NEW comments, Db!Cascade(posts, comments),
           \A r \in Requests : req'[r].pc = "comment" => req'[r] = req[r]
    PROVE  TreesHold'
<1>1. TableOf(comment')
  <2> SUFFICES ASSUME NEW d \in Comments PROVE comment'[d].parent \in Comments \cup {Db!Top}
    BY DEF TableOf
  <2>1. comment'[d] \in CommentRow \cup {Db!NoComment(Db!Unused), Db!NoComment(Db!Gone)}
    BY DEF TableTypes
  <2>2. QED
    BY <2>1 DEF CommentRow, Db!NoComment
<1>2. /\ Db!Written' \subseteq Db!Written /\ Db!Written' \subseteq Comments
      /\ \A k \in Comments : comment'[k] \in {comment[k], Db!NoComment(Db!Gone)}
      /\ \A k \in Db!Written' : \A d \in Db!Upwards(k) : d \in Db!Written' /\ comment'[d] = comment[d]
  BY CascadeSpares DEF TreesHold, Db!Written
<1>3. \A k \in Db!Written' : Db!Upwards(k)' \subseteq Db!Upwards(k)
  BY <1>1, <1>2, AboveKept
<1>4. \A k \in Db!Written' : k \in Db!Upwards(k) /\ comment'[k] = comment[k]
      /\ (comment[k].parent # Db!Top => comment[k].parent \in Db!Upwards(k))
  BY <1>2, TypedTable, UpwardsIsAbove, AboveIsClosed
<1>5. Attached'
  <2> SUFFICES ASSUME NEW k \in Db!Written', comment'[k].parent # Db!Top
               PROVE  /\ comment'[k].parent \in Db!Written'
                      /\ comment'[comment'[k].parent].thread = comment'[k].thread
    BY DEF Attached, Db!Parent
  <2>1. comment[comment[k].parent].thread = comment[k].thread
    BY <1>2, <1>4 DEF TreesHold, Attached, Db!Parent
  <2>2. QED
    BY <1>2, <1>4, <2>1
<1>6. Shallow'
  <2> SUFFICES ASSUME NEW k \in Db!Written' PROVE Cardinality(Db!Upwards(k)') <= MaxReplyDepth
    BY DEF Shallow
  <2>1. QED
    BY <1>2, <1>3, SmallerThanSmall DEF TreesHold, Shallow
<1>7. RepliesHold'
  <2> SUFFICES ASSUME NEW q \in Requests, NEW c \in Comments,
                      req'[q].pc = "comment", req'[q].parent = c
               PROVE  /\ comment'[c].thread # Db!Unused
                      /\ c \in Db!Written' => /\ comment'[c].thread = req'[q].thread
                                              /\ Cardinality(Db!Upwards(c)') < MaxReplyDepth
    BY DEF RepliesHold
  <2>1. req'[q] = req[q]
    OBVIOUS
  <2>2. /\ comment[c].thread # Db!Unused
        /\ c \in Db!Written => comment[c].thread = req[q].thread /\ Cardinality(Db!Upwards(c)) < MaxReplyDepth
    BY <2>1 DEF TreesHold, RepliesHold
  <2>3. Db!NoComment(Db!Gone).thread # Db!Unused
    BY DEF Db!NoComment, Db!Gone, Db!Unused
  <2>4. comment'[c].thread # Db!Unused
    BY <1>2, <2>2, <2>3
  <2>5. QED
    BY <1>2, <1>3, <1>4, <2>1, <2>2, <2>4, SmallerThanSmall
<1>8. QED
  BY <1>5, <1>6, <1>7 DEF TreesHold

-----------------------------------------------------------------------------
LEMMA ScoreIsInt == ASSUME Db!CommunityConstants PROVE \A s : Db!Score(s) \in Int /\ Db!Score(s)' \in Int
<1> SUFFICES ASSUME NEW s PROVE Db!Score(s) \in Int /\ Db!Score(s)' \in Int
  OBVIOUS
<1>1. \A value : Db!Voters(s, value) \in SUBSET Users /\ Db!Voters(s, value)' \in SUBSET Users
  BY DEF Db!Voters
<1>2. \A S \in SUBSET Users : Cardinality(S) \in Nat
  BY FS_Subset, FS_CardinalityType, DbSameSize DEF Db!CommunityConstants
<1>3. QED
  BY <1>1, <1>2, DbSameSize DEF Db!Score

LEMMA ScoreKept == \A s : mark'[s] = mark[s] => Db!Score(s)' = Db!Score(s)
BY DEF Db!Score, Db!Voters

\* A step that does not store a count keeps the counts right if it names what it spoils.
LEMMA CountsKept ==
    ASSUME Db!CommunityConstants, TableTypes, CountsHold, UNCHANGED voteCount, excused \subseteq excused',
           \A s \in Solutions : author'[s] = Db!Unused => author[s] = Db!Unused,
           \A s \in Solutions \cap Db!Authored' :
               /\ s \in Db!Authored
               /\ \/ mark'[s] = mark[s]
                  \/ /\ s \in excused' \/ \E r \in Requests : req'[r].pc = "sum" /\ req'[r].post = s
                     /\ \A r \in Requests :
                           ~(req'[r].pc = "store" /\ req'[r].fresh /\ req'[r].post = s),
           \A r \in Requests : req[r].pc \in {"sum", "store"} =>
               \/ req[r].post \in excused'
               \/ req'[r].pc \in {"sum", "store"} /\ req'[r].post = req[r].post,
           \A r \in Requests : req'[r].pc = "store" /\ req'[r].fresh =>
               /\ req[r].pc = "store" /\ req[r].fresh
               /\ req'[r].post = req[r].post /\ req'[r].sum = req[r].sum,
           \A r \in Requests : req'[r].pc \in {"write", "sum", "store"} =>
               \/ req[r].pc \in {"write", "sum", "store"} /\ req'[r].post = req[r].post
               \/ Db!Exists(req'[r].post)
    PROVE  CountsHold'
<1>1. Unvoted'
  <2>1. \A s \in Solutions : author[s] = Db!Unused => ~Db!Exists(s)
    BY DEF Db!Exists, Db!Authored, Db!CommunityConstants
  <2>2. QED
    BY <2>1 DEF CountsHold, Unvoted
<1>2. SumsHold'
  <2> SUFFICES ASSUME NEW r \in Requests, req'[r].pc = "store", req'[r].fresh, req'[r].post \in Db!Authored'
               PROVE  req'[r].sum = Db!Score(req[r].post)'
    BY DEF SumsHold
  <2>1. PICK s : s = req'[r].post
    OBVIOUS
  <2>2. s \in Solutions
    <3>1. req[r] \in RequestRow /\ req[r].pc = "store"
      BY DEF TableTypes
    <3>2. req[r].post \in Solutions
      BY <3>1 DEF RequestRow, Db!Idle
    <3>3. QED
      BY <2>1, <3>2
  <2>3. s \in Db!Authored /\ mark'[s] = mark[s]
    BY <2>1, <2>2
  <2>4. req[r].sum = Db!Score(s)
    BY <2>1, <2>3 DEF CountsHold, SumsHold
  <2>5. Db!Score(s)' = Db!Score(s)
    BY <2>3, ScoreKept
  <2>6. Db!Score(req[r].post)' = Db!Score(s)'
    BY <2>1 DEF Db!Score, Db!Voters
  <2>7. QED
    BY <2>4, <2>5, <2>6
<1>3. Db!CountIsExactUnlessExcused'
  <2> SUFFICES ASSUME NEW s \in Solutions, s \in Db!Authored',
                      \A r \in Requests : req'[r].pc \in {"sum", "store"} => req'[r].post # s,
                      s \notin excused'
               PROVE  voteCount'[s] = Db!Score(s)'
    BY DEF Db!CountIsExactUnlessExcused
  <2>1. s \in Db!Authored /\ mark'[s] = mark[s]
    OBVIOUS
  <2>2. \A r \in Requests : req[r].pc \in {"sum", "store"} => req[r].post # s
    OBVIOUS
  <2>3. voteCount[s] = Db!Score(s)
    BY <2>1, <2>2 DEF CountsHold, Db!CountIsExactUnlessExcused
  <2>4. QED
    BY <2>1, <2>3, ScoreKept
<1>4. QED
  BY <1>1, <1>2, <1>3 DEF CountsHold

-----------------------------------------------------------------------------
LEMMA TableInit == Db!CommunityConstants /\ Db!Init => TInv
<1> SUFFICES ASSUME Db!CommunityConstants, Db!Init PROVE TInv
  OBVIOUS
<1>1. TableTypes
  BY DEF Db!Init, TableTypes, Db!CommunityConstants, RequestRow
<1>2. Db!Written = {} /\ Db!Authored = {}
  BY DEF Db!Init, Db!Written, Db!Authored, Db!NoComment, Db!CommunityConstants
<1>3. \A r \in Requests : req[r].pc = "idle"
  BY DEF Db!Init, Db!Idle
<1>4. TreesHold
  BY <1>2, <1>3 DEF TreesHold, Attached, Shallow, RepliesHold
<1>5. Db!NoOrphans
  BY <1>2 DEF Db!NoOrphans, Db!Init
<1>6. CountsHold
  BY <1>2, <1>3 DEF CountsHold, Unvoted, SumsHold, Db!CountIsExactUnlessExcused, Db!Init
<1>7. QED
  BY <1>1, <1>4, <1>5, <1>6 DEF TInv

LEMMA CreateThreadKeeps ==
    ASSUME Db!CommunityConstants, TInv, NEW t \in Threads, NEW u \in Users, Db!CreateThread(t, u)
    PROVE  TInv'
<1>1. TableTypes'
  BY DEF TInv, TableTypes, Db!CreateThread, Db!Begin, Db!CommunityConstants
<1>2. TreesHold'
  BY TreesUntouched DEF TInv, Db!CreateThread
<1>3. /\ t \notin Solutions /\ author'[t] = u /\ u \notin {Db!Unused, Db!Gone}
      /\ \A p \in (Threads \cup Solutions) \ {t} : author'[p] = author[p]
  BY DEF Db!CreateThread, Db!CommunityConstants, TInv, TableTypes
<1>4. Db!Authored' = Db!Authored \cup {t}
  BY <1>3 DEF Db!Authored
<1>5. Db!NoOrphans'
  <2>1. \A p \in Db!Posts : Db!Exists(p) => Db!Exists(p)'
    BY <1>4 DEF Db!Exists
  <2>2. \A p \in Db!Authored' : author'[p] \in accounts'
    BY <1>3, <1>4 DEF TInv, Db!NoOrphans, Db!CreateThread, Db!Authored
  <2>3. QED
    BY <2>1, <2>2, <1>4 DEF TInv, Db!NoOrphans, Db!CreateThread, Db!Written
<1>6. CountsHold'
  BY <1>3, <1>4, CountsKept DEF TInv, Db!CreateThread
<1>7. QED
  BY <1>1, <1>2, <1>5, <1>6 DEF TInv

LEMMA CreateSolutionKeeps ==
    ASSUME Db!CommunityConstants, TInv, NEW s \in Solutions, NEW u \in Users, Db!CreateSolution(s, u)
    PROVE  TInv'
<1>1. TableTypes'
  BY DEF TInv, TableTypes, Db!CreateSolution, Db!Begin, Db!CommunityConstants
<1>2. TreesHold'
  BY TreesUntouched DEF TInv, Db!CreateSolution
<1>3. /\ author'[s] = u /\ u \notin {Db!Unused, Db!Gone}
      /\ \A p \in (Threads \cup Solutions) \ {s} : author'[p] = author[p]
  BY DEF Db!CreateSolution, Db!CommunityConstants, TInv, TableTypes
<1>4. Db!Authored' = Db!Authored \cup {s} /\ s \notin Db!Authored
  BY <1>3 DEF Db!Authored, Db!CreateSolution
<1>5. Db!NoOrphans'
  <2>1. \A p \in Db!Posts : Db!Exists(p) => Db!Exists(p)'
    BY <1>4 DEF Db!Exists
  <2>2. \A p \in Db!Authored' : author'[p] \in accounts'
    BY <1>3, <1>4 DEF TInv, Db!NoOrphans, Db!CreateSolution, Db!Authored
  <2>3. QED
    BY <2>1, <2>2, <1>4 DEF TInv, Db!NoOrphans, Db!CreateSolution, Db!Written
<1>6. voteCount[s] = 0 /\ Db!Score(s) = 0
  <2>1. voteCount[s] = 0
    BY DEF TInv, CountsHold, Unvoted, Db!CreateSolution
  <2>2. \A v \in Users : mark[s][v] = Db!NoMark
    <3>1. ~Db!Exists(s) /\ s \in Db!Posts
      BY <1>4 DEF Db!Exists, Db!Posts, Db!CommunityConstants
    <3>2. QED
      BY <3>1 DEF TInv, Db!NoOrphans
  <2>3. Db!Voters(s, 1) = {} /\ Db!Voters(s, -1) = {}
    BY <2>2 DEF Db!Voters, Db!NoMark
  <2>4. QED
    BY <2>1, <2>3, FS_EmptySet, DbSameSize DEF Db!Score
<1>7. Db!Score(s)' = 0 /\ voteCount'[s] = 0
  BY <1>6, ScoreKept DEF Db!CreateSolution
<1>8. CountsHold'
  <2>1. \A p \in Solutions \cap Db!Authored' : p # s => p \in Db!Authored
    BY <1>4
  <2>2. Unvoted'
    BY <1>3 DEF TInv, CountsHold, Unvoted, Db!CreateSolution
  <2>3. \A p : Db!Score(p)' = Db!Score(p)
    BY ScoreKept DEF Db!CreateSolution
  <2>4. Db!CountIsExactUnlessExcused'
    <3> SUFFICES ASSUME NEW p \in Solutions, p \in Db!Authored',
                        \A r \in Requests : req[r].pc \in {"sum", "store"} => req[r].post # p,
                        p \notin excused
                 PROVE  voteCount[p] = Db!Score(p)
      BY <2>3 DEF Db!CountIsExactUnlessExcused, Db!CreateSolution
    <3>1. QED
      BY <1>6, <2>1 DEF TInv, CountsHold, Db!CountIsExactUnlessExcused
  <2>5. SumsHold'
    <3> SUFFICES ASSUME NEW r \in Requests, req[r].pc = "store", req[r].fresh, req[r].post \in Db!Authored'
                 PROVE  req[r].sum = Db!Score(req[r].post)
      BY <2>3 DEF SumsHold, Db!CreateSolution
    <3>1. req[r].post # s
      BY DEF TInv, CountsHold, Unvoted, Db!CreateSolution
    <3>2. QED
      BY <1>4, <3>1 DEF TInv, CountsHold, SumsHold
  <2>6. QED
    BY <2>2, <2>4, <2>5 DEF CountsHold
<1>9. QED
  BY <1>1, <1>2, <1>5, <1>8 DEF TInv

LEMMA CommentCheckKeeps ==
    ASSUME Db!CommunityConstants, TInv, NEW r \in Requests, NEW u \in Users, NEW t \in Threads,
           NEW k \in Comments \cup {Db!Top}, Db!CommentCheck(r, u, t, k)
    PROVE  TInv'
<1>1. \A q \in Requests : req'[q] = IF q = r THEN [pc |-> "comment", user |-> u, thread |-> t, parent |-> k]
                                    ELSE req[q]
  BY DEF Db!CommentCheck, TInv, TableTypes
<1>2. TableTypes'
  <2>1. [pc |-> "comment", user |-> u, thread |-> t, parent |-> k] \in RequestRow
    BY DEF RequestRow
  <2>2. req' \in [Requests -> RequestRow]
    BY <2>1 DEF Db!CommentCheck, TInv, TableTypes
  <2>3. QED
    BY <2>2 DEF TInv, TableTypes, Db!CommentCheck, Db!Begin, Db!CommunityConstants
<1>3. TreesHold'
  BY CheckKeepsTrees DEF TInv
<1>4. Db!NoOrphans'
  BY DEF TInv, Db!NoOrphans, Db!CommentCheck, Db!Authored, Db!Written, Db!Exists
<1>5. CountsHold'
  <2>1. Db!Authored' = Db!Authored /\ req[r].pc = "idle"
    BY DEF Db!CommentCheck, Db!Authored, Db!Idle
  <2>2. QED
    BY <1>1, <2>1, CountsKept DEF TInv, Db!CommentCheck
<1>6. QED
  BY <1>2, <1>3, <1>4, <1>5 DEF TInv

LEMMA CommentCreateKeeps ==
    ASSUME Db!CommunityConstants, TInv, NEW r \in Requests, NEW k \in Comments, Db!CommentCreate(r, k)
    PROVE  TInv'
<1>1. \A q \in Requests : req'[q] = IF q = r THEN Db!Idle ELSE req[q]
  BY DEF Db!CommentCreate, TInv, TableTypes
<1>2. req[r].thread \in Threads /\ req[r].parent \in Comments \cup {Db!Top} /\ req[r].user \in Users
  <2>1. req[r] \in RequestRow /\ req[r].pc = "comment"
    BY DEF Db!CommentCreate, TInv, TableTypes
  <2>2. QED
    BY <2>1 DEF RequestRow, Db!Idle
<1>3. PICK new : new = [thread |-> req[r].thread, parent |-> req[r].parent, author |-> req[r].user]
  OBVIOUS
<1>4. new \in CommentRow
  BY <1>2, <1>3 DEF CommentRow
<1>5. \/ UNCHANGED comment
      \/ /\ req[r].user \in accounts /\ req[r].thread \in Db!Authored
         /\ comment' = [comment EXCEPT ![k] = new]
  BY <1>3 DEF Db!CommentCreate
<1>6. TableTypes'
  <2>1. comment' \in [Comments -> CommentRow \cup {Db!NoComment(Db!Unused), Db!NoComment(Db!Gone)}]
    BY <1>4, <1>5 DEF TInv, TableTypes
  <2>2. req' \in [Requests -> RequestRow]
    BY <1>1 DEF Db!CommentCreate, TInv, TableTypes, RequestRow
  <2>3. QED
    BY <2>1, <2>2 DEF TInv, TableTypes, Db!CommentCreate
<1>7. TreesHold'
  BY <1>6, CreateKeepsTrees DEF TInv
<1>8. Db!NoOrphans'
  <2>1. Db!Authored' = Db!Authored /\ \A p : Db!Exists(p)' = Db!Exists(p)
    BY DEF Db!CommentCreate, Db!Authored, Db!Exists
  <2>2. ASSUME NEW j \in Db!Written' PROVE comment'[j].author \in accounts /\ comment'[j].thread \in Db!Authored
    <3>1. j \in Comments
      BY DEF Db!Written
    <3>2. CASE comment'[j] = comment[j]
      <4>1. j \in Db!Written
        BY <3>1, <3>2 DEF Db!Written
      <4>2. QED
        BY <3>2, <4>1 DEF TInv, Db!NoOrphans
    <3>3. CASE comment'[j] # comment[j]
      BY <1>3, <1>5, <3>1, <3>3 DEF TInv, TableTypes
    <3>4. QED
      BY <3>2, <3>3
  <2>3. QED
    BY <2>1, <2>2 DEF TInv, Db!NoOrphans, Db!CommentCreate
<1>9. CountsHold'
  <2>1. Db!Authored' = Db!Authored /\ req[r].pc = "comment"
    BY DEF Db!CommentCreate, Db!Authored
  <2>2. QED
    BY <1>1, <2>1, CountsKept DEF TInv, Db!CommentCreate, Db!Idle
<1>10. QED
  BY <1>6, <1>7, <1>8, <1>9 DEF TInv

-----------------------------------------------------------------------------
\* What a cascade leaves of authors, comments and marks.
LEMMA CascadeTyped ==
    ASSUME TableTypes, NEW posts, NEW comments, Db!Cascade(posts, comments)
    PROVE  /\ author' \in [Threads \cup Solutions -> Users \cup {Db!Unused, Db!Gone}]
           /\ comment' \in [Comments -> CommentRow \cup {Db!NoComment(Db!Unused), Db!NoComment(Db!Gone)}]
<1>1. author' \in [Threads \cup Solutions -> Users \cup {Db!Unused, Db!Gone}]
  BY DEF TableTypes, Db!Cascade
<1>2. \A k \in Comments : comment[k] \in CommentRow \cup {Db!NoComment(Db!Unused), Db!NoComment(Db!Gone)}
  BY DEF TableTypes
<1>3. comment' \in [Comments -> CommentRow \cup {Db!NoComment(Db!Unused), Db!NoComment(Db!Gone)}]
  BY <1>2 DEF Db!Cascade
<1>4. QED
  BY <1>1, <1>3

LEMMA CascadeAuthors ==
    ASSUME Db!CommunityConstants, TableTypes, NEW posts, NEW comments, Db!Cascade(posts, comments)
    PROVE  /\ Db!Authored' = Db!Authored \ posts
           /\ \A p \in Db!Authored' : author'[p] = author[p]
           /\ \A p \in Threads \cup Solutions : author'[p] = Db!Unused => author[p] = Db!Unused
<1>1. \A p \in Threads \cup Solutions : author'[p] = IF p \in posts THEN Db!Gone ELSE author[p]
  BY DEF Db!Cascade, TableTypes
<1>2. Db!Gone # Db!Unused
  BY DEF Db!Gone, Db!Unused
<1>3. QED
  BY <1>1, <1>2 DEF Db!Authored

LEMMA UnmarkTyped ==
    ASSUME TableTypes, NEW rows, Db!Unmark(rows)
    PROVE  /\ mark' \in [Db!Posts -> [Users -> MarkRow \cup {Db!NoMark}]]
           /\ \A p \in Db!Posts, u \in Users :
                 mark'[p][u] = IF <<p, u>> \in rows THEN Db!NoMark ELSE mark[p][u]
           /\ \A p \in Db!Posts : (\A u \in Users : <<p, u>> \in rows => mark[p][u] = Db!NoMark) => mark'[p] = mark[p]
<1>1. \A p \in Db!Posts : mark[p] \in [Users -> MarkRow \cup {Db!NoMark}]
  BY DEF TableTypes
<1>2. \A p \in Db!Posts : mark'[p] = [u \in Users |-> IF <<p, u>> \in rows THEN Db!NoMark ELSE mark[p][u]]
  BY DEF Db!Unmark
<1>3. mark' \in [Db!Posts -> [Users -> MarkRow \cup {Db!NoMark}]]
  BY <1>1 DEF Db!Unmark
<1>4. \A p \in Db!Posts : (\A u \in Users : <<p, u>> \in rows => mark[p][u] = Db!NoMark) => mark'[p] = mark[p]
  BY <1>1, <1>2
<1>5. QED
  BY <1>2, <1>3, <1>4

LEMMA DeletePostKeeps ==
    ASSUME Db!CommunityConstants, TInv, NEW u \in Users, NEW p \in Threads \cup Solutions, Db!DeletePost(p, u)
    PROVE  TInv'
<1>1. Db!Cascade({p}, {}) /\ Db!Unmark({p} \X Users) /\ TableTypes
  BY DEF Db!DeletePost, TInv
<1>2. UNCHANGED <<accounts, voteCount, req, excused>>
  BY DEF Db!DeletePost
<1>3. TableTypes'
  BY <1>1, <1>2, CascadeTyped, UnmarkTyped DEF TableTypes, Db!DeletePost, Db!Begin, Db!CommunityConstants
<1>4. TreesHold'
  BY <1>1, <1>2, <1>3, CascadeKeepsTrees DEF TInv
<1>5. /\ Db!Authored' = Db!Authored \ {p}
      /\ \A q \in Db!Authored' : author'[q] = author[q]
      /\ \A q \in Threads \cup Solutions : author'[q] = Db!Unused => author[q] = Db!Unused
  BY <1>1, CascadeAuthors
<1>6. \A q \in Db!Posts, v \in Users : mark'[q][v] = IF q = p THEN Db!NoMark ELSE mark[q][v]
  <2>1. \A q \in Db!Posts, v \in Users :
            mark'[q][v] = IF <<q, v>> \in {p} \X Users THEN Db!NoMark ELSE mark[q][v]
    BY <1>1, UnmarkTyped, ZenonT(30)
  <2>2. QED
    BY <2>1
<1>7. Db!NoOrphans'
  <2>1. \A q \in Db!Authored' : author'[q] \in accounts'
    BY <1>2, <1>5 DEF TInv, Db!NoOrphans
  <2>2. ASSUME NEW k \in Db!Written' PROVE comment'[k].author \in accounts' /\ comment'[k].thread \in Db!Authored'
    <3>1. k \in Db!Written /\ k \in Db!Upwards(k) /\ comment[k].thread # p
      BY <1>1, CascadeSpares, TypedTable, UpwardsIsAbove, AboveIsClosed DEF TInv, TreesHold, Db!Written
    <3>2. comment'[k] = comment[k]
      BY <1>1, <3>1, CascadeSpares DEF TInv, TreesHold
    <3>3. QED
      BY <1>2, <1>5, <3>1, <3>2 DEF TInv, Db!NoOrphans
  <2>3. ASSUME NEW q \in Db!Posts, NEW v \in Users, mark'[q][v] # Db!NoMark PROVE Db!Exists(q)' /\ v \in accounts'
    <3>1. q # p /\ mark[q][v] # Db!NoMark
      BY <1>6, <2>3
    <3>2. QED
      BY <1>2, <1>5, <3>1 DEF TInv, Db!NoOrphans, Db!Exists
  <2>4. QED
    BY <2>1, <2>2, <2>3 DEF Db!NoOrphans
<1>8. CountsHold'
  <2>1. \A s \in Solutions \cap Db!Authored' : s \in Db!Authored /\ mark'[s] = mark[s]
    <3>1. \A s \in Solutions \cap Db!Authored' : s \in Db!Authored /\ s # p /\ s \in Db!Posts
      BY <1>5 DEF Db!Posts
    <3>2. QED
      BY <1>1, <3>1, UnmarkTyped
  <2>2. QED
    BY <1>2, <1>5, <2>1, CountsKept DEF TInv
<1>9. QED
  BY <1>3, <1>4, <1>7, <1>8 DEF TInv

LEMMA DeleteCommentKeeps ==
    ASSUME Db!CommunityConstants, TInv, NEW u \in Users, NEW k \in Comments, Db!DeleteComment(k, u)
    PROVE  TInv'
<1>1. Db!Cascade({}, {k}) /\ TableTypes
  BY DEF Db!DeleteComment, TInv
<1>2. UNCHANGED <<accounts, mark, voteCount, req, excused>>
  BY DEF Db!DeleteComment
<1>3. TableTypes'
  BY <1>1, <1>2, CascadeTyped DEF TableTypes, Db!DeleteComment, Db!Begin, Db!CommunityConstants
<1>4. TreesHold'
  BY <1>1, <1>2, <1>3, CascadeKeepsTrees DEF TInv
<1>5. /\ Db!Authored' = Db!Authored
      /\ \A q \in Db!Authored' : author'[q] = author[q]
      /\ \A q \in Threads \cup Solutions : author'[q] = Db!Unused => author[q] = Db!Unused
  BY <1>1, CascadeAuthors
<1>6. Db!NoOrphans'
  <2>1. \A q \in Db!Authored' : author'[q] \in accounts'
    BY <1>2, <1>5 DEF TInv, Db!NoOrphans
  <2>2. ASSUME NEW j \in Db!Written' PROVE comment'[j].author \in accounts' /\ comment'[j].thread \in Db!Authored'
    <3>1. j \in Db!Written /\ j \in Db!Upwards(j)
      BY <1>1, CascadeSpares, TypedTable, UpwardsIsAbove, AboveIsClosed DEF TInv, TreesHold, Db!Written
    <3>2. comment'[j] = comment[j]
      BY <1>1, <3>1, CascadeSpares DEF TInv, TreesHold
    <3>3. QED
      BY <1>2, <1>5, <3>1, <3>2 DEF TInv, Db!NoOrphans
  <2>3. QED
    BY <1>2, <1>5, <2>1, <2>2 DEF TInv, Db!NoOrphans, Db!Exists
<1>7. CountsHold'
  BY <1>2, <1>5, CountsKept DEF TInv
<1>8. QED
  BY <1>3, <1>4, <1>6, <1>7 DEF TInv

LEMMA DeleteUserKeeps ==
    ASSUME Db!CommunityConstants, TInv, NEW u \in Users, NEW by \in Users, Db!DeleteUser(u, by)
    PROVE  TInv'
<1> DEFINE posts == {p \in Db!Authored : author[p] = u}
           own == {k \in Db!Written : comment[k].author = u}
           rows == (posts \X Users) \cup (Db!Posts \X {u})
           voted == {s \in Solutions : mark[s][u] # Db!NoMark}
<1>1. Db!Cascade(posts, own) /\ Db!Unmark(rows) /\ TableTypes
  BY DEF Db!DeleteUser, TInv
<1>2. /\ accounts' = accounts \ {u} /\ voteCount' = voteCount
      /\ excused' = excused \cup voted /\ req' = Db!Outdate(req, voted)
      /\ started' \in 0..MaxRequests
  BY DEF Db!DeleteUser, Db!Begin, TInv, TableTypes, Db!CommunityConstants
<1>3. PICK P, C, R, V : P = posts /\ C = own /\ R = rows /\ V = voted
  OBVIOUS
<1> HIDE DEF posts, own, rows, voted
<1>4. Db!Cascade(P, C) /\ Db!Unmark(R)
  BY <1>1, <1>3
<1>5. \A r \in Requests :
          req'[r] = IF req[r].pc = "store" /\ req[r].post \in voted
                    THEN [req[r] EXCEPT !.fresh = FALSE] ELSE req[r]
  BY <1>2 DEF Db!Outdate
<1>6. \A r \in Requests :
          /\ req[r].pc = "store" => /\ req'[r] \in RequestRow /\ req'[r].pc = "store"
                                    /\ req'[r].post = req[r].post /\ req'[r].sum = req[r].sum
                                    /\ req'[r].fresh => req[r].fresh /\ req[r].post \notin voted
          /\ req[r].pc # "store" => req'[r] = req[r]
  <2> SUFFICES ASSUME NEW r \in Requests, req[r].pc = "store"
               PROVE  /\ req'[r] \in RequestRow /\ req'[r].pc = "store"
                      /\ req'[r].post = req[r].post /\ req'[r].sum = req[r].sum
                      /\ req'[r].fresh => req[r].fresh /\ req[r].post \notin voted
    BY <1>5
  <2>1. req[r] \in [pc : {"store"}, post : Solutions, sum : Int, fresh : BOOLEAN]
    <3>1. req[r] \in RequestRow
      BY <1>1 DEF TableTypes
    <3>2. QED
      BY <3>1 DEF RequestRow, Db!Idle
  <2>2. CASE req[r].post \in voted
    <3>1. req'[r] = [req[r] EXCEPT !.fresh = FALSE]
      BY <1>5, <2>2
    <3>2. /\ req'[r] \in [pc : {"store"}, post : Solutions, sum : Int, fresh : BOOLEAN]
          /\ req'[r].post = req[r].post /\ req'[r].sum = req[r].sum /\ req'[r].fresh = FALSE
      BY <2>1, <3>1
    <3>3. QED
      BY <3>2 DEF RequestRow
  <2>3. CASE req[r].post \notin voted
    BY <1>5, <2>1, <2>3 DEF RequestRow
  <2>4. QED
    BY <2>2, <2>3
<1>7. TableTypes'
  <2>1. \A r \in Requests : req[r] \in RequestRow
    BY <1>1 DEF TableTypes
  <2>2. \A r \in Requests : req'[r] \in RequestRow
    BY <1>6, <2>1
  <2>3. req' \in [Requests -> RequestRow]
    BY <1>2, <2>2 DEF Db!Outdate
  <2>4. excused' \subseteq Solutions
    BY <1>1, <1>2 DEF TableTypes, voted
  <2>5. QED
    BY <1>1, <1>2, <1>4, <2>3, <2>4, CascadeTyped, UnmarkTyped DEF TableTypes
<1>8. \A r \in Requests : req'[r].pc = "comment" => req'[r] = req[r]
  BY <1>6
<1>9. TreesHold'
  BY <1>1, <1>4, <1>7, <1>8, CascadeKeepsTrees DEF TInv
<1>10. /\ Db!Authored' = Db!Authored \ P
       /\ \A p \in Db!Authored' : author'[p] = author[p]
       /\ \A p \in Threads \cup Solutions : author'[p] = Db!Unused => author[p] = Db!Unused
  BY <1>1, <1>4, CascadeAuthors
<1>11. Db!NoOrphans'
  <2>1. \A p \in Db!Authored' : author'[p] \in accounts'
    BY <1>2, <1>3, <1>10 DEF TInv, Db!NoOrphans, posts
  <2>2. ASSUME NEW k \in Db!Written' PROVE comment'[k].author \in accounts' /\ comment'[k].thread \in Db!Authored'
    <3>1. k \in Db!Written /\ k \in Db!Upwards(k) /\ comment[k].thread \notin P
      BY <1>1, <1>4, CascadeSpares, TypedTable, UpwardsIsAbove, AboveIsClosed DEF TInv, TreesHold, Db!Written
    <3>2. comment'[k] = comment[k]
      BY <1>1, <1>4, <3>1, CascadeSpares DEF TInv, TreesHold
    <3>3. comment[k].author # u
      <4>1. comment'[k] = IF k \in Db!Written /\ (comment[k].thread \in P \/ Db!Upwards(k) \cap C # {})
                          THEN Db!NoComment(Db!Gone) ELSE comment[k]
        BY <1>4, <3>1 DEF Db!Cascade, Db!Written
      <4>2. Db!NoComment(Db!Gone).thread \notin Threads
        BY DEF Db!NoComment, Db!CommunityConstants
      <4>3. k \notin C
        BY <3>1, <4>1, <4>2 DEF Db!Written
      <4>4. QED
        BY <1>3, <3>1, <4>3 DEF own
    <3>4. comment[k].author \in accounts /\ comment[k].thread \in Db!Authored
      BY <3>1 DEF TInv, Db!NoOrphans
    <3>5. QED
      BY <1>2, <1>10, <3>1, <3>2, <3>3, <3>4
  <2>3. ASSUME NEW p \in Db!Posts, NEW v \in Users, mark'[p][v] # Db!NoMark PROVE Db!Exists(p)' /\ v \in accounts'
    <3>1. <<p, v>> \notin R /\ mark[p][v] # Db!NoMark
      BY <1>1, <1>4, <2>3, UnmarkTyped
    <3>2. p \notin P /\ v # u
      BY <1>3, <3>1 DEF rows
    <3>3. Db!Exists(p) /\ v \in accounts
      BY <3>1 DEF TInv, Db!NoOrphans
    <3>4. QED
      BY <1>2, <1>10, <3>2, <3>3 DEF Db!Exists
  <2>4. QED
    BY <2>1, <2>2, <2>3 DEF Db!NoOrphans
<1>12. CountsHold'
  <2>1. ASSUME NEW s \in Solutions, s \in Db!Authored'
        PROVE  s \in Db!Authored /\ (mark'[s] = mark[s] \/ s \in voted)
    <3>1. s \in Db!Authored /\ s \notin P /\ s \in Db!Posts
      BY <1>10, <2>1 DEF Db!Posts
    <3>2. ASSUME s \notin voted PROVE mark'[s] = mark[s]
      <4>1. \A v \in Users : <<s, v>> \in R => v = u
        BY <1>3, <3>1 DEF rows
      <4>2. mark[s][u] = Db!NoMark
        BY <3>2 DEF voted
      <4>3. QED
        BY <1>1, <1>4, <3>1, <4>1, <4>2, UnmarkTyped
    <3>3. QED
      BY <3>1, <3>2
  <2>2. \A s \in Solutions \cap Db!Authored' :
            /\ s \in Db!Authored
            /\ \/ mark'[s] = mark[s]
               \/ /\ s \in excused'
                  /\ \A r \in Requests : ~(req'[r].pc = "store" /\ req'[r].fresh /\ req'[r].post = s)
    <3>1. \A s \in voted, r \in Requests : ~(req'[r].pc = "store" /\ req'[r].fresh /\ req'[r].post = s)
      BY <1>6
    <3>2. QED
      BY <1>2, <2>1, <3>1
  <2>3. UNCHANGED voteCount /\ excused \subseteq excused'
    BY <1>2
  <2>4. \A r \in Requests : req[r].pc \in {"sum", "store"} =>
            req'[r].pc \in {"sum", "store"} /\ req'[r].post = req[r].post
    BY <1>6
  <2>5. \A r \in Requests : req'[r].pc = "store" /\ req'[r].fresh =>
            /\ req[r].pc = "store" /\ req[r].fresh
            /\ req'[r].post = req[r].post /\ req'[r].sum = req[r].sum
    BY <1>6
  <2>6. \A r \in Requests : req'[r].pc \in {"write", "sum", "store"} =>
            req[r].pc \in {"write", "sum", "store"} /\ req'[r].post = req[r].post
    BY <1>6
  <2>7. QED
    BY <1>1, <1>10, <2>2, <2>3, <2>4, <2>5, <2>6, CountsKept DEF TInv
<1>13. QED
  BY <1>7, <1>9, <1>11, <1>12 DEF TInv

-----------------------------------------------------------------------------
LEMMA MarkReadKeeps ==
    ASSUME Db!CommunityConstants, TInv, NEW r \in Requests, NEW u \in Users, NEW p \in Db!Posts,
           NEW value \in {-1, 1}, Db!MarkRead(r, u, p, value)
    PROVE  TInv'
<1> DEFINE q == [pc |-> "write", user |-> u, post |-> p, value |-> value,
                 seen |-> mark[p][u], id |-> started + 1]
<1>1. \A o \in Requests : req'[o] = IF o = r THEN q ELSE req[o]
  BY DEF Db!MarkRead, TInv, TableTypes
<1>2. q \in RequestRow /\ q.pc = "write" /\ q.post = p
  <2>1. mark[p][u] \in MarkRow \cup {Db!NoMark} /\ started + 1 \in 1..MaxRequests
    BY DEF Db!MarkRead, Db!Begin, TInv, TableTypes, Db!CommunityConstants
  <2>2. QED
    BY <2>1 DEF RequestRow
<1> HIDE DEF q
<1>3. TableTypes'
  <2>1. req' \in [Requests -> RequestRow]
    BY <1>1, <1>2 DEF Db!MarkRead, TInv, TableTypes
  <2>2. QED
    BY <2>1 DEF TInv, TableTypes, Db!MarkRead, Db!Begin, Db!CommunityConstants
<1>4. TreesHold'
  BY <1>1, <1>2, TreesUntouched DEF TInv, Db!MarkRead
<1>5. Db!NoOrphans'
  BY DEF TInv, Db!NoOrphans, Db!MarkRead, Db!Authored, Db!Written, Db!Exists
<1>6. CountsHold'
  <2>1. Db!Authored' = Db!Authored /\ req[r].pc = "idle" /\ Db!Exists(p)
    BY DEF Db!MarkRead, Db!Authored, Db!Idle
  <2>2. QED
    BY <1>1, <1>2, <2>1, CountsKept DEF TInv, Db!MarkRead
<1>7. QED
  BY <1>3, <1>4, <1>5, <1>6 DEF TInv

\* What a request at "write" is.
LEMMA WriteTyped ==
    ASSUME TableTypes, NEW r \in Requests, req[r].pc = "write"
    PROVE  req[r] \in [pc : {"write"}, user : Users, post : Db!Posts, value : {-1, 1},
                       seen : MarkRow \cup {Db!NoMark}, id : 1..MaxRequests]
<1>1. req[r] \in RequestRow
  BY DEF TableTypes
<1>2. QED
  BY <1>1 DEF RequestRow, Db!Idle

LEMMA ToggledTyped ==
    ASSUME TableTypes, NEW r \in Requests, req[r].pc = "write", Db!Writable(req[r]), Db!Matches(req[r])
    PROVE  /\ Db!Toggled(req[r]) \in MarkRow \cup {Db!NoMark}
           /\ \/ Db!Toggled(req[r]) = Db!NoMark
              \/ mark[req[r].post][req[r].user] # Db!NoMark
              \/ Db!Exists(req[r].post) /\ req[r].user \in accounts
<1>1. req[r] \in [pc : {"write"}, user : Users, post : Db!Posts, value : {-1, 1},
                  seen : MarkRow \cup {Db!NoMark}, id : 1..MaxRequests]
  BY WriteTyped
<1>2. PICK q : q = req[r]
  OBVIOUS
<1>3. mark[q.post][q.user] \in MarkRow \cup {Db!NoMark}
  BY <1>1, <1>2 DEF TableTypes
<1>4. CASE q.seen = Db!NoMark
  <2>1. Db!Toggled(q) = [value |-> q.value, id |-> q.id]
    <3>1. q.seen.value # q.value
      BY <1>1, <1>2, <1>4 DEF Db!NoMark
    <3>2. QED
      BY <1>4, <3>1 DEF Db!Toggled
  <2>2. Db!Toggled(q) \in MarkRow
    BY <1>1, <1>2, <2>1 DEF MarkRow
  <2>3. Db!Exists(q.post) /\ q.user \in accounts
    BY <1>2, <1>4, Zenon DEF Db!Writable
  <2>4. QED
    BY <1>2, <2>2, <2>3
<1>5. CASE q.seen # Db!NoMark /\ q.seen.value = q.value
  <2>1. Db!Toggled(q) = Db!NoMark
    BY <1>5 DEF Db!Toggled
  <2>2. QED
    BY <1>2, <2>1
<1>6. CASE q.seen # Db!NoMark /\ q.seen.value # q.value
  <2>1. Db!Toggled(q) = [value |-> q.value, id |-> mark[q.post][q.user].id]
    BY <1>6 DEF Db!Toggled
  <2>2. mark[q.post][q.user] # Db!NoMark
    BY <1>2, <1>6 DEF Db!Matches
  <2>3. QED
    BY <1>1, <1>2, <1>3, <2>1, <2>2 DEF MarkRow
<1>7. QED
  BY <1>4, <1>5, <1>6

LEMMA MarkWriteKeeps ==
    ASSUME Db!CommunityConstants, TInv, NEW r \in Requests, Db!MarkWrite(r)
    PROVE  TInv'
<1> DEFINE writes == Db!Writable(req[r]) /\ Db!Matches(req[r])
           touched == IF writes THEN {req[r].post} ELSE {}
           next == IF req[r].post \in Solutions /\ Db!Writable(req[r])
                   THEN [pc |-> "sum", post |-> req[r].post] ELSE Db!Idle
           old == Db!Outdate(req, touched)
<1>1. /\ req[r].pc = "write"
      /\ mark' = IF writes THEN [mark EXCEPT ![req[r].post][req[r].user] = Db!Toggled(req[r])] ELSE mark
      /\ req' = [old EXCEPT ![r] = next]
      /\ UNCHANGED <<accounts, author, comment, voteCount, started, excused>>
  BY DEF Db!MarkWrite
<1>2. TableTypes
  BY DEF TInv
<1>3. req[r] \in [pc : {"write"}, user : Users, post : Db!Posts, value : {-1, 1},
                  seen : MarkRow \cup {Db!NoMark}, id : 1..MaxRequests]
  BY <1>1, <1>2, WriteTyped
<1>4. PICK p, v, w : p = req[r].post /\ v = req[r].user /\ w = Db!Toggled(req[r])
  OBVIOUS
<1>5. p \in Db!Posts /\ v \in Users
  BY <1>3, <1>4
<1>6. \A o \in Requests :
          old[o] = IF req[o].pc = "store" /\ req[o].post \in touched
                   THEN [req[o] EXCEPT !.fresh = FALSE] ELSE req[o]
  BY DEF Db!Outdate
<1>7. \A o \in Requests : req'[o] = IF o = r THEN next ELSE old[o]
  BY <1>1 DEF Db!Outdate
<1>8. /\ \/ next = Db!Idle
         \/ next = [pc |-> "sum", post |-> p] /\ p \in Solutions
      /\ writes /\ p \in Solutions => next = [pc |-> "sum", post |-> p]
      /\ ~writes => touched = {}
      /\ writes => touched = {p}
  BY <1>4
<1>9. writes => /\ w \in MarkRow \cup {Db!NoMark}
                /\ w = Db!NoMark \/ mark[p][v] # Db!NoMark \/ (Db!Exists(p) /\ v \in accounts)
  BY <1>1, <1>2, <1>4, ToggledTyped
<1>10. mark' = IF writes THEN [mark EXCEPT ![p][v] = w] ELSE mark
  BY <1>1, <1>4
<1>11. \A o \in Requests \ {r} :
          /\ req[o].pc = "store" => /\ req'[o] \in RequestRow /\ req'[o].pc = "store"
                                    /\ req'[o].post = req[o].post /\ req'[o].sum = req[o].sum
                                    /\ req'[o].fresh => req[o].fresh /\ req[o].post \notin touched
          /\ req[o].pc # "store" => req'[o] = req[o]
  <2> HIDE DEF touched, next, old, writes
  <2> SUFFICES ASSUME NEW o \in Requests \ {r}, req[o].pc = "store"
               PROVE  /\ req'[o] \in RequestRow /\ req'[o].pc = "store"
                      /\ req'[o].post = req[o].post /\ req'[o].sum = req[o].sum
                      /\ req'[o].fresh => req[o].fresh /\ req[o].post \notin touched
    BY <1>6, <1>7
  <2>1. req[o] \in [pc : {"store"}, post : Solutions, sum : Int, fresh : BOOLEAN]
    <3>1. req[o] \in RequestRow
      BY <1>2 DEF TableTypes
    <3>2. QED
      BY <3>1 DEF RequestRow, Db!Idle
  <2>2. CASE req[o].post \in touched
    <3>1. req'[o] = [req[o] EXCEPT !.fresh = FALSE]
      BY <1>6, <1>7, <2>2
    <3>2. /\ req'[o] \in [pc : {"store"}, post : Solutions, sum : Int, fresh : BOOLEAN]
          /\ req'[o].post = req[o].post /\ req'[o].sum = req[o].sum /\ req'[o].fresh = FALSE
      BY <2>1, <3>1
    <3>3. QED
      BY <3>2 DEF RequestRow
  <2>3. CASE req[o].post \notin touched
    BY <1>6, <1>7, <2>1, <2>3 DEF RequestRow
  <2>4. QED
    BY <2>2, <2>3
<1>12. req'[r] = next /\ next \in RequestRow /\ next.pc \in {"idle", "sum"} /\ (next.pc = "sum" => next.post = p)
  BY <1>7, <1>8 DEF RequestRow, Db!Idle
<1> HIDE DEF touched, next, old, writes
<1>13. TableTypes'
  <2>1. \A o \in Requests : req[o] \in RequestRow
    BY <1>2 DEF TableTypes
  <2>2. \A o \in Requests : req'[o] \in RequestRow
    BY <1>11, <1>12, <2>1
  <2>3. req' \in [Requests -> RequestRow]
    BY <1>1, <2>2 DEF old, Db!Outdate
  <2>4. mark' \in [Db!Posts -> [Users -> MarkRow \cup {Db!NoMark}]]
    BY <1>2, <1>5, <1>9, <1>10 DEF TableTypes
  <2>5. QED
    BY <1>1, <1>2, <2>3, <2>4 DEF TableTypes
<1>14. TreesHold'
  <2>1. \A o \in Requests : req'[o].pc = "comment" => req'[o] = req[o]
    BY <1>11, <1>12
  <2>2. QED
    BY <1>1, <2>1, TreesUntouched DEF TInv
<1>15. Db!Authored' = Db!Authored /\ \A x : Db!Exists(x)' = Db!Exists(x)
  BY <1>1 DEF Db!Authored, Db!Exists
<1>16. Db!NoOrphans'
  <2>1. ASSUME NEW x \in Db!Posts, NEW y \in Users, mark'[x][y] # Db!NoMark PROVE Db!Exists(x) /\ y \in accounts
    <3>1. CASE mark'[x][y] = mark[x][y]
      BY <2>1, <3>1 DEF TInv, Db!NoOrphans
    <3>2. CASE mark'[x][y] # mark[x][y]
      <4>1. writes /\ x = p /\ y = v /\ mark'[x][y] = w
        BY <1>2, <1>5, <1>10, <3>2 DEF TableTypes
      <4>2. QED
        BY <1>5, <1>9, <2>1, <4>1 DEF TInv, Db!NoOrphans
    <3>3. QED
      BY <3>1, <3>2
  <2>2. Db!Written' = Db!Written
    BY <1>1 DEF Db!Written
  <2>3. QED
    BY <1>1, <1>15, <2>1, <2>2 DEF TInv, Db!NoOrphans
<1>17. CountsHold'
  <2>1. ASSUME NEW s \in Solutions \cap Db!Authored'
        PROVE  /\ s \in Db!Authored
               /\ \/ mark'[s] = mark[s]
                  \/ /\ \E o \in Requests : req'[o].pc = "sum" /\ req'[o].post = s
                     /\ \A o \in Requests : ~(req'[o].pc = "store" /\ req'[o].fresh /\ req'[o].post = s)
    <3>1. s \in Db!Authored
      BY <1>15
    <3>2. CASE mark'[s] = mark[s]
      BY <3>1, <3>2
    <3>3. CASE mark'[s] # mark[s]
      <4>1. writes /\ s = p
        BY <1>2, <1>5, <1>10, <3>3 DEF TableTypes
      <4>2. req'[r].pc = "sum" /\ req'[r].post = s
        BY <1>8, <1>12, <4>1
      <4>3. touched = {s}
        BY <1>8, <4>1
      <4>4. \A o \in Requests : ~(req'[o].pc = "store" /\ req'[o].fresh /\ req'[o].post = s)
        BY <1>11, <1>12, <4>3
      <4>5. QED
        BY <3>1, <4>2, <4>4
    <3>4. QED
      BY <3>2, <3>3
  <2>2. \A o \in Requests : req[o].pc \in {"sum", "store"} =>
            req'[o].pc \in {"sum", "store"} /\ req'[o].post = req[o].post
    BY <1>1, <1>11
  <2>3. \A o \in Requests : req'[o].pc = "store" /\ req'[o].fresh =>
            /\ req[o].pc = "store" /\ req[o].fresh
            /\ req'[o].post = req[o].post /\ req'[o].sum = req[o].sum
    BY <1>11, <1>12
  <2>4. \A o \in Requests : req'[o].pc \in {"write", "sum", "store"} =>
            req[o].pc \in {"write", "sum", "store"} /\ req'[o].post = req[o].post
    BY <1>1, <1>4, <1>11, <1>12
  <2>5. UNCHANGED voteCount /\ excused \subseteq excused' /\ author' = author
    BY <1>1
  <2>6. QED
    BY <1>2, <2>1, <2>2, <2>3, <2>4, <2>5, CountsKept DEF TInv
<1>18. QED
  BY <1>13, <1>14, <1>16, <1>17 DEF TInv

LEMMA RecomputeSumKeeps ==
    ASSUME Db!CommunityConstants, TInv, NEW r \in Requests, Db!RecomputeSum(r)
    PROVE  TInv'
<1>1. req[r].post \in Solutions
  <2>1. req[r] \in RequestRow /\ req[r].pc = "sum"
    BY DEF Db!RecomputeSum, TInv, TableTypes
  <2>2. QED
    BY <2>1 DEF RequestRow, Db!Idle
<1>2. PICK s, n : s = req[r].post /\ n = Db!Score(s)
  OBVIOUS
<1>3. /\ \A o \in Requests :
            req'[o] = IF o = r THEN [pc |-> "store", post |-> s, sum |-> n, fresh |-> TRUE] ELSE req[o]
      /\ req' = [req EXCEPT ![r] = [pc |-> "store", post |-> s, sum |-> n, fresh |-> TRUE]]
      /\ req[r].pc = "sum"
      /\ UNCHANGED <<accounts, author, comment, mark, voteCount, started, excused>>
  BY <1>2 DEF Db!RecomputeSum, TInv, TableTypes
<1>4. TableTypes'
  <2>1. [pc |-> "store", post |-> s, sum |-> n, fresh |-> TRUE] \in RequestRow
    BY <1>1, <1>2, ScoreIsInt DEF RequestRow
  <2>2. req' \in [Requests -> RequestRow]
    BY <1>3, <2>1 DEF TInv, TableTypes
  <2>3. QED
    BY <1>3, <2>2 DEF TInv, TableTypes
<1>5. TreesHold'
  BY <1>3, TreesUntouched DEF TInv
<1>6. Db!Authored' = Db!Authored /\ Db!Written' = Db!Written /\ \A x : Db!Exists(x)' = Db!Exists(x) /\ Db!Score(x)' = Db!Score(x)
  BY <1>3, ScoreKept DEF Db!Authored, Db!Written, Db!Exists
<1>7. Db!NoOrphans'
  BY <1>3, <1>6 DEF TInv, Db!NoOrphans
<1>8. Unvoted'
  BY <1>2, <1>3 DEF TInv, CountsHold, Unvoted
<1>9. SumsHold'
  <2> SUFFICES ASSUME NEW o \in Requests, req'[o].pc = "store", req'[o].fresh, req'[o].post \in Db!Authored
               PROVE  req'[o].sum = Db!Score(req[o].post)'
    BY <1>6 DEF SumsHold
  <2>1. PICK p : p = req'[o].post
    OBVIOUS
  <2>2. Db!Score(req[o].post)' = Db!Score(p)'
    BY <2>1 DEF Db!Score, Db!Voters
  <2>3. req'[o].sum = Db!Score(p)
    BY <1>2, <1>3, <2>1 DEF TInv, CountsHold, SumsHold
  <2>4. QED
    BY <1>6, <2>2, <2>3
<1>10. Db!CountIsExactUnlessExcused'
  <2> SUFFICES ASSUME NEW p \in Solutions, p \in Db!Authored,
                      \A o \in Requests : req'[o].pc \in {"sum", "store"} => req'[o].post # p,
                      p \notin excused
               PROVE  voteCount[p] = Db!Score(p)
    BY <1>3, <1>6 DEF Db!CountIsExactUnlessExcused
  <2>1. \A o \in Requests : req[o].pc \in {"sum", "store"} => req[o].post # p
    BY <1>2, <1>3
  <2>2. QED
    BY <2>1 DEF TInv, CountsHold, Db!CountIsExactUnlessExcused
<1>11. QED
  BY <1>4, <1>5, <1>7, <1>8, <1>9, <1>10 DEF TInv, CountsHold

LEMMA RecomputeStoreKeeps ==
    ASSUME Db!CommunityConstants, TInv, NEW r \in Requests, Db!RecomputeStore(r)
    PROVE  TInv'
<1>1. req[r] \in [pc : {"store"}, post : Solutions, sum : Int, fresh : BOOLEAN]
  <2>1. req[r] \in RequestRow /\ req[r].pc = "store"
    BY DEF Db!RecomputeStore, TInv, TableTypes
  <2>2. QED
    BY <2>1 DEF RequestRow, Db!Idle
<1>2. PICK s, n : s = req[r].post /\ n = req[r].sum
  OBVIOUS
<1>3. /\ \A o \in Requests : req'[o] = IF o = r THEN Db!Idle ELSE req[o]
      /\ voteCount' = IF s \in Db!Authored THEN [voteCount EXCEPT ![s] = n] ELSE voteCount
      /\ excused' = IF req[r].fresh THEN excused \ {s} ELSE excused \cup {s}
      /\ UNCHANGED <<accounts, author, comment, mark, started>>
  BY <1>2 DEF Db!RecomputeStore, TInv, TableTypes
<1>4. TableTypes'
  <2>1. req' \in [Requests -> RequestRow]
    BY DEF Db!RecomputeStore, TInv, TableTypes, RequestRow
  <2>2. voteCount' \in [Solutions -> Int]
    BY <1>1, <1>2, <1>3 DEF TInv, TableTypes
  <2>3. excused' \subseteq Solutions
    BY <1>1, <1>2, <1>3 DEF TInv, TableTypes
  <2>4. QED
    BY <1>3, <2>1, <2>2, <2>3 DEF TInv, TableTypes
<1>5. TreesHold'
  <2>1. \A o \in Requests : req'[o].pc = "comment" => req'[o] = req[o]
    BY <1>3 DEF Db!Idle
  <2>2. QED
    BY <1>3, <2>1, TreesUntouched DEF TInv
<1>6. Db!Authored' = Db!Authored /\ Db!Written' = Db!Written /\ \A x : Db!Exists(x)' = Db!Exists(x) /\ Db!Score(x)' = Db!Score(x)
  BY <1>3, ScoreKept DEF Db!Authored, Db!Written, Db!Exists
<1>7. Db!NoOrphans'
  BY <1>3, <1>6 DEF TInv, Db!NoOrphans
<1>8. \A p \in Solutions : p # s => voteCount'[p] = voteCount[p] /\ (p \in excused' <=> p \in excused)
  BY <1>3 DEF TInv, TableTypes
<1>9. Unvoted'
  <2> SUFFICES ASSUME NEW p \in Solutions, author[p] = Db!Unused
               PROVE  /\ voteCount'[p] = 0
                      /\ \A o \in Requests : req'[o].pc \in {"write", "sum", "store"} => req'[o].post # p
    BY <1>3 DEF Unvoted
  <2>1. /\ voteCount[p] = 0
        /\ \A o \in Requests : req[o].pc \in {"write", "sum", "store"} => req[o].post # p
    BY DEF TInv, CountsHold, Unvoted
  <2>2. p # s
    BY <1>1, <1>2, <2>1
  <2>3. QED
    BY <1>3, <1>8, <2>1, <2>2 DEF Db!Idle
<1>10. SumsHold'
  <2> SUFFICES ASSUME NEW o \in Requests, req'[o].pc = "store", req'[o].fresh, req'[o].post \in Db!Authored
               PROVE  req'[o].sum = Db!Score(req[o].post)'
    BY <1>6 DEF SumsHold
  <2>1. req'[o] = req[o]
    BY <1>3 DEF Db!Idle
  <2>2. PICK p : p = req[o].post
    OBVIOUS
  <2>3. Db!Score(req[o].post)' = Db!Score(p)'
    BY <2>1, <2>2 DEF Db!Score, Db!Voters
  <2>4. req[o].sum = Db!Score(p)
    BY <2>1, <2>2 DEF TInv, CountsHold, SumsHold
  <2>5. QED
    BY <1>6, <2>1, <2>3, <2>4
<1>11. Db!CountIsExactUnlessExcused'
  <2> SUFFICES ASSUME NEW p \in Solutions, p \in Db!Authored,
                      \A o \in Requests : req'[o].pc \in {"sum", "store"} => req'[o].post # p,
                      p \notin excused'
               PROVE  voteCount'[p] = Db!Score(p)
    BY <1>6 DEF Db!CountIsExactUnlessExcused
  <2>1. CASE p = s
    <3>1. req[r].fresh /\ voteCount'[s] = n
      BY <1>1, <1>3, <2>1 DEF TInv, TableTypes
    <3>2. n = Db!Score(s)
      BY <1>1, <1>2, <2>1, <3>1 DEF TInv, CountsHold, SumsHold
    <3>3. QED
      BY <2>1, <3>1, <3>2
  <2>2. CASE p # s
    <3>1. \A o \in Requests : req[o].pc \in {"sum", "store"} => req[o].post # p
      BY <1>2, <1>3, <2>2
    <3>2. QED
      BY <1>8, <2>2, <3>1 DEF TInv, CountsHold, Db!CountIsExactUnlessExcused
  <2>3. QED
    BY <2>1, <2>2
<1>12. QED
  BY <1>4, <1>5, <1>7, <1>9, <1>10, <1>11 DEF TInv, CountsHold

LEMMA FailKeeps ==
    ASSUME Db!CommunityConstants, TInv, NEW r \in Requests, Db!Fail(r)
    PROVE  TInv'
<1>1. req[r].post \in Solutions
  <2>1. req[r] \in RequestRow /\ req[r].pc \in {"sum", "store"}
    BY DEF Db!Fail, TInv, TableTypes
  <2>2. QED
    BY <2>1 DEF RequestRow, Db!Idle
<1>2. /\ \A o \in Requests : req'[o] = IF o = r THEN Db!Idle ELSE req[o]
      /\ excused' = excused \cup {req[r].post}
      /\ UNCHANGED <<accounts, author, comment, mark, voteCount, started>>
  BY DEF Db!Fail, TInv, TableTypes
<1>3. TableTypes'
  <2>1. req' \in [Requests -> RequestRow]
    BY DEF Db!Fail, TInv, TableTypes, RequestRow
  <2>2. QED
    BY <1>1, <1>2, <2>1 DEF TInv, TableTypes
<1>4. TreesHold'
  <2>1. \A o \in Requests : req'[o].pc = "comment" => req'[o] = req[o]
    BY <1>2 DEF Db!Idle
  <2>2. QED
    BY <1>2, <2>1, TreesUntouched DEF TInv
<1>5. Db!Authored' = Db!Authored /\ Db!Written' = Db!Written /\ \A x : Db!Exists(x)' = Db!Exists(x)
  BY <1>2 DEF Db!Authored, Db!Written, Db!Exists
<1>6. Db!NoOrphans'
  BY <1>2, <1>5 DEF TInv, Db!NoOrphans
<1>7. CountsHold'
  <2>1. \A o \in Requests : req'[o].pc \in {"write", "sum", "store"} => o # r /\ req'[o] = req[o]
    BY <1>2 DEF Db!Idle
  <2>2. \A o \in Requests : req[o].pc \in {"sum", "store"} =>
            \/ req[o].post \in excused'
            \/ req'[o].pc \in {"sum", "store"} /\ req'[o].post = req[o].post
    BY <1>2
  <2>3. QED
    BY <1>2, <1>5, <2>1, <2>2, CountsKept DEF TInv
<1>8. QED
  BY <1>3, <1>4, <1>6, <1>7 DEF TInv
-----------------------------------------------------------------------------
LEMMA TableStep == Db!CommunityConstants /\ TInv /\ [Db!Next]_(Db!vars) => TInv'
<1> SUFFICES ASSUME Db!CommunityConstants, TInv, [Db!Next]_(Db!vars) PROVE TInv'
  OBVIOUS
<1>1. ASSUME NEW u \in Users, NEW t \in Threads, Db!CreateThread(t, u) PROVE TInv'
  BY <1>1, CreateThreadKeeps
<1>2. ASSUME NEW u \in Users, NEW s \in Solutions, Db!CreateSolution(s, u) PROVE TInv'
  BY <1>2, CreateSolutionKeeps
<1>3. ASSUME NEW u \in Users, NEW p \in Threads \cup Solutions, Db!DeletePost(p, u) PROVE TInv'
  BY <1>3, DeletePostKeeps
<1>4. ASSUME NEW u \in Users, NEW k \in Comments, Db!DeleteComment(k, u) PROVE TInv'
  BY <1>4, DeleteCommentKeeps
<1>5. ASSUME NEW u \in Users, NEW by \in Users, Db!DeleteUser(u, by) PROVE TInv'
  BY <1>5, DeleteUserKeeps
<1>6. ASSUME NEW u \in Users, NEW r \in Requests, NEW t \in Threads, NEW k \in Comments \cup {Db!Top},
             Db!CommentCheck(r, u, t, k)
      PROVE  TInv'
  BY <1>6, CommentCheckKeeps
<1>7. ASSUME NEW u \in Users, NEW r \in Requests, NEW p \in Db!Posts, NEW value \in {-1, 1},
             Db!MarkRead(r, u, p, value)
      PROVE  TInv'
  BY <1>7, MarkReadKeeps
<1>8. ASSUME NEW r \in Requests, NEW k \in Comments, Db!CommentCreate(r, k) PROVE TInv'
  BY <1>8, CommentCreateKeeps
<1>9. ASSUME NEW r \in Requests, Db!MarkWrite(r) \/ Db!RecomputeSum(r) \/ Db!RecomputeStore(r) \/ Db!Fail(r) PROVE TInv'
  BY <1>9, MarkWriteKeeps, RecomputeSumKeeps, RecomputeStoreKeeps, FailKeeps
<1>10. CASE UNCHANGED Db!vars
  <2>1. TableTypes'
    BY <1>10 DEF TInv, TableTypes, Db!vars
  <2>2. TreesHold'
    BY <1>10, TreesUntouched DEF TInv, Db!vars
  <2>3. Db!Authored' = Db!Authored /\ Db!Written' = Db!Written /\ \A x : Db!Exists(x)' = Db!Exists(x)
    BY <1>10 DEF Db!Authored, Db!Written, Db!Exists, Db!vars
  <2>4. Db!NoOrphans'
    BY <1>10, <2>3 DEF TInv, Db!NoOrphans, Db!vars
  <2>5. CountsHold'
    BY <1>10, <2>3, CountsKept DEF TInv, Db!vars
  <2>6. QED
    BY <2>1, <2>2, <2>4, <2>5 DEF TInv
<1>11. CASE Db!Next
  BY <1>1, <1>2, <1>3, <1>4, <1>5, <1>6, <1>7, <1>8, <1>9, <1>11, Zenon DEF Db!Next
<1>12. QED
  BY <1>10, <1>11

LEMMA TInvSuffices == ASSUME Db!CommunityConstants, TInv PROVE Db!CommunityIsSound
<1>1. Db!TypeOK
  <2>1. \A k \in Db!Written : comment[k] \in CommentRow
    BY WrittenRows DEF TInv, Db!Written
  <2>2. \A r \in Requests : req[r].pc \in {"idle", "comment", "write", "sum", "store"}
    <3> SUFFICES ASSUME NEW r \in Requests PROVE req[r].pc \in {"idle", "comment", "write", "sum", "store"}
      OBVIOUS
    <3>1. req[r] \in RequestRow
      BY DEF TInv, TableTypes
    <3>2. QED
      BY <3>1 DEF RequestRow, Db!Idle
  <2>3. \A p \in Db!Posts, u \in Users : mark[p][u] \in MarkRow \cup {Db!NoMark}
    BY DEF TInv, TableTypes
  <2>4. QED
    BY <2>1, <2>2, <2>3 DEF TInv, TableTypes, Db!TypeOK, CommentRow, MarkRow
<1>2. Db!TreesAreShallow
  BY DbSameSize DEF TInv, TreesHold, Shallow, Attached, Db!TreesAreShallow, Db!InThread, Db!Roots, Db!Written
<1>3. QED
  BY <1>1, <1>2 DEF Db!CommunityIsSound, Db!TablesAreSound, TInv, CountsHold

\* Comment trees stay shallow and whole, no row outlives what it hangs on, and a count of votes
\* is exact unless its last write raced or was cut off (the routes of discussions, solutions,
\* votes and bookmarks, and the cascades of their deletions).
THEOREM CommunityStaysSound == Db!Spec => []CommunityIsSound
<1>1. Db!Init => TInv
  BY TableInit, CommunityAssumption
<1>2. TInv /\ [Db!Next]_(Db!vars) => TInv'
  BY TableStep, CommunityAssumption
<1>3. TInv => CommunityIsSound
  BY TInvSuffices, CommunityAssumption DEF CommunityIsSound
<1>4. QED
  BY <1>1, <1>2, <1>3, PTL DEF Db!Spec

-----------------------------------------------------------------------------
(* The sessions of the web tier.  The accounts: what a form has read of an *)
(* account was so when it was read, and a token says how long ago that was *)
(* (AccountsInv).  The limits: the tries of an account are those its       *)
(* bucket counts, at most a budget more that can still be in a window with *)
(* them, and older ones (LimiterInv).  The tabs: an answer to the cookie   *)
(* there is names its user (TabsInv).                                      *)

Roles == {"user", "admin"}
Rows == [there : BOOLEAN, name : Names \cup {"none"}, password : Passwords \cup {"none"},
         role : Roles]
Tokens == {Web!NoToken} \cup [user : Emails, role : Roles, exp : Nat, slack : Nat]
Form == [pc : {"idle", "login", "register", "change", "changed", "reply"},
         email : Emails \cup {"none"}, with : Passwords \cup {"none"},
         new : Passwords \cup {"none"}, saw : Rows, at : Nat, token : Tokens]

\* An admin's token tells how long before its expiry the account was an admin's.
TokenHolds(k, last) ==
    k.role = "admin" => k.user \in Emails /\ k.exp <= last[k.user] + Life + k.slack

FormHolds(f, last, now) ==
    /\ f.pc \notin {"idle", "reply"} => f.email \in Emails
    /\ f.pc = "login" => f.at <= now /\ (f.saw.role = "admin" => f.at <= last[f.email])
    /\ f.pc = "register" => f.saw.role = "user" /\ f.saw.there
    /\ TokenHolds(f.token, last)

AccountTypes ==
    /\ clock \in 1..MaxClock /\ fallback \in BOOLEAN
    /\ row \in [Emails -> Rows]
    /\ cookie \in Tokens
    /\ forms \in [Tabs -> Form]
    /\ lastAdmin \in [Emails -> Nat]

AdminTimes ==
    \A e \in Emails :
        /\ lastAdmin[e] <= clock
        /\ row[e].there /\ row[e].role = "admin" => lastAdmin[e] = clock

AccountsInv ==
    /\ AccountTypes
    /\ AdminTimes
    /\ Web!NamesAreUnique
    /\ TokenHolds(cookie, lastAdmin)
    /\ \A t \in Tabs : FormHolds(forms[t], lastAdmin, clock)

\* The constants, as the steps below use them.
LEMMA WebParameters ==
    /\ "none" \notin Emails /\ "login" \notin Web!Normalized /\ First \in Passwords
    /\ Life \in Nat /\ Window \in Nat /\ MaxOps \in Nat
    /\ Max \in Nat /\ MaxClock \in Nat /\ Max >= 1 /\ MaxClock >= 1
BY WebAssumption DEF Web!WebConstants

LEMMA WebSameSize == \A S : Web!Cardinality(S) = Cardinality(S)
BY DEF Web!Cardinality, Cardinality

LEMMA EmptyForm ==
    /\ Web!NoRow \in Rows /\ Web!NoToken \in Tokens /\ Web!NoReq \in Form
    /\ \A last, now : FormHolds(Web!NoReq, last, now) /\ TokenHolds(Web!NoToken, last)
BY DEF Rows, Roles, Tokens, Form, FormHolds, TokenHolds, Web!NoRow, Web!NoToken, Web!NoReq

LEMMA AccountsStart == Web!Init => AccountsInv
<1> SUFFICES ASSUME Web!Init PROVE AccountsInv
  OBVIOUS
<1>1. PICK e \in Emails, n \in Names :
         row = [x \in Emails |-> IF x = e THEN [there |-> TRUE, name |-> n, password |-> First,
                                                role |-> "admin"]
                                 ELSE Web!NoRow]
  BY DEF Web!Init
<1>2. /\ clock = 1 /\ fallback \in BOOLEAN /\ cookie = Web!NoToken
      /\ forms = [t \in Tabs |-> Web!NoReq]
      /\ lastAdmin = [x \in Emails |-> IF x \in Web!AdminsIn(row) THEN clock ELSE 0]
  BY DEF Web!Init
<1>3. row \in [Emails -> Rows]
  BY <1>1, WebParameters, EmptyForm DEF Rows, Roles
<1>4. AccountTypes
  BY <1>2, <1>3, WebParameters, EmptyForm DEF AccountTypes
<1>5. AdminTimes
  BY <1>2 DEF AdminTimes, Web!AdminsIn
<1>6. Web!NamesAreUnique
  BY <1>1 DEF Web!NamesAreUnique, Web!Accounts, Web!NoRow
<1>7. QED
  BY <1>2, <1>4, <1>5, <1>6, EmptyForm DEF AccountsInv

\* Time passes and admins come: what holds of a form or a token holds on.
LEMMA HoldsOn ==
    ASSUME NEW last \in [Emails -> Nat], NEW next \in [Emails -> Nat],
           \A e \in Emails : last[e] <= next[e],
           NEW now \in Nat, NEW later \in Nat, now <= later
    PROVE  /\ \A k \in Tokens : TokenHolds(k, last) => TokenHolds(k, next)
           /\ \A f \in Form : FormHolds(f, last, now) => FormHolds(f, next, later)
<1>1. ASSUME NEW k \in Tokens, TokenHolds(k, last) PROVE TokenHolds(k, next)
  <2> SUFFICES ASSUME k.role = "admin"
               PROVE  k.user \in Emails /\ k.exp <= next[k.user] + Life + k.slack
    BY DEF TokenHolds
  <2>1. k.user \in Emails /\ k.exp <= last[k.user] + Life + k.slack
    BY <1>1 DEF TokenHolds
  <2>2. k.exp \in Nat /\ k.slack \in Nat
    BY DEF Tokens, Web!NoToken
  <2>3. last[k.user] \in Nat /\ next[k.user] \in Nat /\ last[k.user] <= next[k.user]
    BY <2>1
  <2>4. QED
    BY <2>1, <2>2, <2>3, WebParameters
<1>2. ASSUME NEW f \in Form, FormHolds(f, last, now) PROVE FormHolds(f, next, later)
  <2>1. f.at \in Nat /\ f.token \in Tokens
    BY DEF Form
  <2>2. TokenHolds(f.token, next)
    BY <1>1, <1>2, <2>1 DEF FormHolds
  <2>3. f.pc = "login" => f.at <= later /\ (f.saw.role = "admin" => f.at <= next[f.email])
    <3> SUFFICES ASSUME f.pc = "login"
                 PROVE  f.at <= later /\ (f.saw.role = "admin" => f.at <= next[f.email])
      OBVIOUS
    <3>1. f.email \in Emails /\ f.at <= now /\ (f.saw.role = "admin" => f.at <= last[f.email])
      BY <1>2 DEF FormHolds
    <3>2. last[f.email] \in Nat /\ next[f.email] \in Nat /\ last[f.email] <= next[f.email]
      BY <3>1
    <3>3. QED
      BY <2>1, <3>1, <3>2
  <2>4. QED
    BY <1>2, <2>2, <2>3 DEF FormHolds
<1>3. QED
  BY <1>1, <1>2

\* One form is replaced, and nothing else of the accounts but the cookie.
LEMMA FormReplaced ==
    ASSUME AccountsInv, NEW t \in Tabs, NEW f \in Form, FormHolds(f, lastAdmin, clock),
           forms' = [forms EXCEPT ![t] = f],
           UNCHANGED <<clock, fallback, row, lastAdmin>>,
           cookie' \in Tokens, TokenHolds(cookie', lastAdmin)
    PROVE  AccountsInv'
<1>1. forms' \in [Tabs -> Form] /\ \A u \in Tabs : forms'[u] = IF u = t THEN f ELSE forms[u]
  BY DEF AccountsInv, AccountTypes
<1>2. AccountTypes'
  BY <1>1 DEF AccountsInv, AccountTypes
<1>3. AdminTimes' /\ Web!NamesAreUnique'
  BY DEF AccountsInv, AdminTimes, Web!NamesAreUnique, Web!Accounts
<1>4. \A u \in Tabs : FormHolds(forms'[u], lastAdmin', clock')
  BY <1>1 DEF AccountsInv
<1>5. QED
  BY <1>2, <1>3, <1>4 DEF AccountsInv

\* The rows change, with the form that asked for it or with no form.
LEMMA RowsReplaced ==
    ASSUME AccountsInv, row' \in [Emails -> Rows], forms' \in [Tabs -> Form],
           UNCHANGED <<clock, fallback, cookie, lastAdmin>>,
           \A t \in Tabs : FormHolds(forms'[t], lastAdmin, clock),
           \A e \in Emails : row'[e].there /\ row'[e].role = "admin" =>
               row[e].there /\ row[e].role = "admin",
           Web!NamesAreUnique'
    PROVE  AccountsInv'
<1>1. AccountTypes'
  BY DEF AccountsInv, AccountTypes
<1>2. AdminTimes'
  BY DEF AccountsInv, AdminTimes
<1>3. TokenHolds(cookie', lastAdmin')
  BY DEF AccountsInv
<1>4. QED
  BY <1>1, <1>2, <1>3 DEF AccountsInv

\* Time passes, or an admin changes an account: the history follows the rows.
LEMMA AdminsFollow ==
    ASSUME AccountsInv, row' \in [Emails -> Rows], Web!NamesAreUnique',
           clock' \in 1..MaxClock, clock <= clock',
           lastAdmin' = [e \in Emails |-> IF e \in Web!AdminsIn(row') THEN clock' ELSE lastAdmin[e]],
           UNCHANGED <<fallback, cookie, forms>>
    PROVE  AccountsInv'
<1>1. /\ lastAdmin' \in [Emails -> Nat] /\ clock \in Nat /\ clock' \in Nat
      /\ \A e \in Emails : lastAdmin[e] \in Nat /\ lastAdmin[e] <= clock
      /\ lastAdmin \in [Emails -> Nat]
  BY DEF AccountsInv, AccountTypes, AdminTimes
<1>2. \A e \in Emails : lastAdmin[e] <= lastAdmin'[e]
  BY <1>1
<1>3. AccountTypes'
  BY <1>1 DEF AccountsInv, AccountTypes
<1>4. AdminTimes'
  BY <1>1 DEF AdminTimes, Web!AdminsIn
<1>5. TokenHolds(cookie', lastAdmin')
  BY <1>1, <1>2, HoldsOn DEF AccountsInv, AccountTypes
<1>6. ASSUME NEW t \in Tabs PROVE FormHolds(forms'[t], lastAdmin', clock')
  <2>1. forms[t] \in Form /\ FormHolds(forms[t], lastAdmin, clock)
    BY DEF AccountsInv, AccountTypes
  <2>2. QED
    BY <1>1, <1>2, <2>1, HoldsOn
<1>7. QED
  BY <1>3, <1>4, <1>5, <1>6 DEF AccountsInv

LEMMA TickKeepsAccounts == AccountsInv /\ Web!Tick => AccountsInv'
<1> SUFFICES ASSUME AccountsInv, Web!Tick PROVE AccountsInv'
  OBVIOUS
<1>1. /\ clock' = clock + 1 /\ clock < MaxClock
      /\ lastAdmin' = [e \in Emails |-> IF e \in Web!AdminsIn(row) THEN clock' ELSE lastAdmin[e]]
      /\ UNCHANGED <<fallback, row, cookie, forms>>
  BY DEF Web!Tick, Web!browser
<1>2. clock' \in 1..MaxClock /\ clock <= clock' /\ row' \in [Emails -> Rows]
  BY <1>1, WebParameters DEF AccountsInv, AccountTypes
<1>3. Web!NamesAreUnique' /\ Web!AdminsIn(row') = Web!AdminsIn(row)
  BY <1>1 DEF AccountsInv, Web!NamesAreUnique, Web!Accounts
<1>4. QED
  BY <1>1, <1>2, <1>3, AdminsFollow

LEMMA AdminChangesSound ==
    ASSUME AccountsInv, NEW e \in Emails, Web!AdminChanges(e)
    PROVE  AccountsInv'
<1>1. /\ lastAdmin' = [x \in Emails |-> IF x \in Web!AdminsIn(row') THEN clock ELSE lastAdmin[x]]
      /\ UNCHANGED <<clock, fallback, cookie, forms>>
      /\ \/ row' = [row EXCEPT ![e].role = IF @ = "admin" THEN "user" ELSE "admin"]
         \/ row' = [row EXCEPT ![e] = Web!NoRow]
  BY DEF Web!AdminChanges
<1>2. row \in [Emails -> Rows]
  BY DEF AccountsInv, AccountTypes
<1>3. row' \in [Emails -> Rows] /\ \A x \in Emails : row'[x].there => row[x].there /\ row'[x].name = row[x].name
  <2>1. CASE row' = [row EXCEPT ![e] = Web!NoRow]
    BY <1>2, <2>1, EmptyForm DEF Web!NoRow
  <2>2. CASE row' = [row EXCEPT ![e].role = IF @ = "admin" THEN "user" ELSE "admin"]
    BY <1>2, <2>2 DEF Rows, Roles
  <2>3. QED
    BY <1>1, <2>1, <2>2
<1>4. Web!NamesAreUnique'
  BY <1>3 DEF AccountsInv, Web!NamesAreUnique, Web!Accounts
<1>5. clock' \in 1..MaxClock /\ clock <= clock' /\ clock' = clock
  BY <1>1 DEF AccountsInv, AccountTypes
<1>6. QED
  BY <1>1, <1>3, <1>4, <1>5, AdminsFollow

LEMMA RestartKeepsAccounts == AccountsInv /\ Web!Restart => AccountsInv'
<1> SUFFICES ASSUME AccountsInv, Web!Restart PROVE AccountsInv'
  OBVIOUS
<1>1. /\ forms' = [t \in Tabs |-> IF forms[t].pc = "reply" THEN forms[t] ELSE Web!NoReq]
      /\ UNCHANGED <<fallback, clock, row, cookie, lastAdmin>>
  BY DEF Web!Restart
<1>2. forms' \in [Tabs -> Form] /\ \A t \in Tabs : FormHolds(forms'[t], lastAdmin, clock)
  BY <1>1, EmptyForm DEF AccountsInv, AccountTypes
<1>3. row' \in [Emails -> Rows] /\ Web!NamesAreUnique'
  BY <1>1 DEF AccountsInv, AccountTypes, Web!NamesAreUnique, Web!Accounts
<1>4. QED
  BY <1>1, <1>2, <1>3, RowsReplaced

LEMMA LoginStartKeepsAccounts ==
    ASSUME AccountsInv, NEW t \in Tabs, Web!LoginStart(t)
    PROVE  AccountsInv'
<1>1. UNCHANGED <<fallback, clock, row, cookie, lastAdmin>>
  BY DEF Web!LoginStart
<1>2. cookie' \in Tokens /\ TokenHolds(cookie', lastAdmin)
  BY <1>1 DEF AccountsInv, AccountTypes
<1>3. PICK e \in Emails, p \in Passwords :
         forms' = forms
         \/ /\ row[e].there
            /\ forms' = [forms EXCEPT ![t] = [Web!NoReq EXCEPT !.pc = "login", !.email = e,
                                                 !.with = p, !.saw = row[e], !.at = clock]]
  BY DEF Web!LoginStart
<1>4. CASE forms' = forms
  <2>1. forms' = [forms EXCEPT ![t] = forms[t]] /\ forms[t] \in Form /\ FormHolds(forms[t], lastAdmin, clock)
    BY <1>4 DEF AccountsInv, AccountTypes
  <2>2. QED
    BY <1>1, <1>2, <2>1, FormReplaced
<1>5. CASE row[e].there
           /\ forms' = [forms EXCEPT ![t] = [Web!NoReq EXCEPT !.pc = "login", !.email = e,
                                                !.with = p, !.saw = row[e], !.at = clock]]
  <2> DEFINE f == [Web!NoReq EXCEPT !.pc = "login", !.email = e, !.with = p, !.saw = row[e],
                                    !.at = clock]
  <2>1. row[e] \in Rows /\ clock \in Nat
    BY DEF AccountsInv, AccountTypes
  <2>2. /\ f.pc = "login" /\ f.email = e /\ f.saw = row[e] /\ f.at = clock /\ f.token = Web!NoToken
        /\ f \in Form
    BY <2>1, EmptyForm DEF Form, Web!NoReq
  <2>3. row[e].role = "admin" => lastAdmin[e] = clock
    BY <1>5 DEF AccountsInv, AdminTimes
  <2>4. FormHolds(f, lastAdmin, clock)
    BY <2>1, <2>2, <2>3, EmptyForm DEF FormHolds
  <2>5. QED
    BY <1>1, <1>2, <1>5, <2>2, <2>4, FormReplaced
<1>6. QED
  BY <1>3, <1>4, <1>5

\* A token for what was read of an account when it was so.
LEMMA TokenIssued ==
    ASSUME AccountsInv, NEW e \in Emails, NEW saw \in Rows, NEW at \in Nat, at <= clock,
           saw.role = "admin" => at <= lastAdmin[e]
    PROVE  LET f == [Web!NoReq EXCEPT !.pc = "reply", !.token = Web!TokenFor(e, saw, at)]
           IN f \in Form /\ FormHolds(f, lastAdmin, clock)
<1> DEFINE k == Web!TokenFor(e, saw, at)
           f == [Web!NoReq EXCEPT !.pc = "reply", !.token = k]
<1>1. clock \in Nat /\ lastAdmin[e] \in Nat
  BY DEF AccountsInv, AccountTypes
<1>2. clock + Life \in Nat /\ clock - at \in Nat /\ saw.role \in Roles
  BY <1>1, WebParameters DEF Rows
<1>3. k = [user |-> e, role |-> saw.role, exp |-> clock + Life, slack |-> clock - at]
  BY DEF Web!TokenFor
<1>4. k \in Tokens /\ k.user = e /\ k.role = saw.role /\ k.exp = clock + Life /\ k.slack = clock - at
  BY <1>2, <1>3 DEF Tokens
<1>5. TokenHolds(k, lastAdmin)
  BY <1>1, <1>4, WebParameters DEF TokenHolds
<1> HIDE DEF k
<1>6. f \in Form /\ f.pc = "reply" /\ f.token = k
  BY <1>4, EmptyForm DEF Form, Web!NoReq
<1>7. FormHolds(f, lastAdmin, clock)
  BY <1>5, <1>6 DEF FormHolds
<1>8. QED
  BY <1>6, <1>7 DEF k

LEMMA LoginIssueKeepsAccounts ==
    ASSUME AccountsInv, NEW t \in Tabs, Web!LoginIssue(t)
    PROVE  AccountsInv'
<1> DEFINE r == forms[t]
           f == IF r.with = r.saw.password
                THEN [Web!NoReq EXCEPT !.pc = "reply", !.token = Web!TokenFor(r.email, r.saw, r.at)]
                ELSE Web!NoReq
<1>1. r.pc = "login" /\ forms' = [forms EXCEPT ![t] = f]
  BY DEF Web!LoginIssue
<1>2. UNCHANGED <<fallback, clock, row, cookie, lastAdmin>>
  BY DEF Web!LoginIssue, Web!server, Web!history
<1>3. r \in Form /\ FormHolds(r, lastAdmin, clock)
  BY DEF AccountsInv, AccountTypes
<1>4. /\ r.email \in Emails /\ r.saw \in Rows /\ r.at \in Nat /\ r.at <= clock
      /\ r.saw.role = "admin" => r.at <= lastAdmin[r.email]
  BY <1>1, <1>3 DEF Form, FormHolds
<1>5. f \in Form /\ FormHolds(f, lastAdmin, clock)
  BY <1>4, TokenIssued, EmptyForm
<1>6. cookie' \in Tokens /\ TokenHolds(cookie', lastAdmin)
  BY <1>2 DEF AccountsInv, AccountTypes
<1> HIDE DEF f
<1>7. QED
  BY <1>1, <1>2, <1>5, <1>6, FormReplaced

\* The answer to a login or a registration arrives, or a form is over.
LEMMA FormOver ==
    ASSUME AccountsInv, NEW t \in Tabs, forms' = [forms EXCEPT ![t] = Web!NoReq],
           UNCHANGED <<clock, fallback, row, lastAdmin>>,
           cookie' \in {cookie, forms[t].token}
    PROVE  AccountsInv'
<1>1. forms[t] \in Form /\ FormHolds(forms[t], lastAdmin, clock)
      /\ cookie \in Tokens /\ TokenHolds(cookie, lastAdmin)
  BY DEF AccountsInv, AccountTypes
<1>2. forms[t].token \in Tokens /\ TokenHolds(forms[t].token, lastAdmin)
  BY <1>1 DEF Form, FormHolds
<1>3. cookie' \in Tokens /\ TokenHolds(cookie', lastAdmin)
  BY <1>1, <1>2
<1>4. QED
  BY <1>3, EmptyForm, FormReplaced

\* A form that has not read of an admin.
LEMMA FormSent ==
    ASSUME AccountsInv, NEW t \in Tabs, NEW f \in Form,
           f.pc \in {"register", "change", "changed"}, f.email \in Emails,
           f.pc = "register" => f.saw.role = "user" /\ f.saw.there,
           f.token = Web!NoToken,
           forms' \in {forms, [forms EXCEPT ![t] = f]},
           UNCHANGED <<clock, fallback, row, cookie, lastAdmin>>
    PROVE  AccountsInv'
<1>1. cookie' \in Tokens /\ TokenHolds(cookie', lastAdmin)
  BY DEF AccountsInv, AccountTypes
<1>2. CASE forms' = forms
  <2>1. forms' = [forms EXCEPT ![t] = forms[t]] /\ forms[t] \in Form /\ FormHolds(forms[t], lastAdmin, clock)
    BY <1>2 DEF AccountsInv, AccountTypes
  <2>2. QED
    BY <1>1, <2>1, FormReplaced
<1>3. CASE forms' = [forms EXCEPT ![t] = f]
  <2>1. FormHolds(f, lastAdmin, clock)
    BY EmptyForm DEF FormHolds
  <2>2. QED
    BY <1>1, <1>3, <2>1, FormReplaced
<1>4. QED
  BY <1>2, <1>3

LEMMA SignedInKeepsAccounts ==
    ASSUME AccountsInv, NEW t \in Tabs, Web!SignedIn(t) \/ Web!ChangeDone(t)
    PROVE  AccountsInv'
<1>1. forms' = [forms EXCEPT ![t] = Web!NoReq] /\ UNCHANGED <<clock, fallback, row, lastAdmin>>
      /\ cookie' \in {cookie, forms[t].token}
  BY DEF Web!SignedIn, Web!ChangeDone, Web!CookieIs, Web!server
<1>2. QED
  BY <1>1, FormOver

LEMMA LogoutKeepsAccounts ==
    ASSUME AccountsInv, NEW t \in Tabs, Web!Logout(t)
    PROVE  AccountsInv'
<1>1. forms' = [forms EXCEPT ![t] = forms[t]] /\ UNCHANGED <<clock, fallback, row, lastAdmin>>
      /\ cookie' = Web!NoToken
  BY DEF Web!Logout, Web!CookieIs, Web!server, AccountsInv, AccountTypes
<1>2. forms[t] \in Form /\ FormHolds(forms[t], lastAdmin, clock)
  BY DEF AccountsInv, AccountTypes
<1>3. QED
  BY <1>1, <1>2, EmptyForm, FormReplaced

LEMMA RegisterStartKeepsAccounts ==
    ASSUME AccountsInv, NEW t \in Tabs, Web!RegisterStart(t)
    PROVE  AccountsInv'
<1>1. UNCHANGED <<clock, fallback, row, cookie, lastAdmin>> /\ clock \in Nat
  BY DEF Web!RegisterStart, Web!server, Web!history, AccountsInv, AccountTypes
<1>2. PICK e \in Emails, n \in Names :
         forms' \in {forms, [forms EXCEPT ![t] =
             [Web!NoReq EXCEPT !.pc = "register", !.email = e, !.at = clock,
                 !.saw = [there |-> TRUE, name |-> n, password |-> First, role |-> "user"]]]}
  BY DEF Web!RegisterStart
<1> DEFINE saw == [there |-> TRUE, name |-> n, password |-> First, role |-> "user"]
           f == [Web!NoReq EXCEPT !.pc = "register", !.email = e, !.at = clock, !.saw = saw]
<1>3. saw \in Rows /\ saw.role = "user" /\ saw.there
  BY WebParameters DEF Rows, Roles
<1> HIDE DEF saw
<1>4. f \in Form /\ f.pc = "register" /\ f.email = e /\ f.saw = saw /\ f.token = Web!NoToken
  BY <1>1, <1>3, EmptyForm DEF Form, Web!NoReq
<1>5. forms' \in {forms, [forms EXCEPT ![t] = f]}
  BY <1>2 DEF saw
<1> HIDE DEF f
<1>6. QED
  BY <1>1, <1>3, <1>4, <1>5, FormSent

LEMMA ChangeStartKeepsAccounts ==
    ASSUME AccountsInv, NEW t \in Tabs, Web!ChangeStart(t)
    PROVE  AccountsInv'
<1> DEFINE e == Web!UserOf(cookie)
<1>1. UNCHANGED <<clock, fallback, row, cookie, lastAdmin>> /\ e # "none"
  BY DEF Web!ChangeStart, Web!server, Web!history
<1>2. e \in Emails /\ row[e] \in Rows
  BY <1>1 DEF Web!UserOf, Web!Valid, AccountsInv, AccountTypes, Tokens
<1>3. PICK old \in Passwords, new \in Passwords :
         forms' = [forms EXCEPT ![t] = [Web!NoReq EXCEPT !.pc = "change", !.email = e, !.with = old,
                                                         !.new = new, !.saw = row[e]]]
  BY DEF Web!ChangeStart
<1> DEFINE f == [Web!NoReq EXCEPT !.pc = "change", !.email = e, !.with = old, !.new = new,
                                  !.saw = row[e]]
<1>4. f \in Form /\ f.pc = "change" /\ f.email = e /\ f.token = Web!NoToken
  BY <1>2, EmptyForm DEF Form, Web!NoReq
<1>5. forms' \in {forms, [forms EXCEPT ![t] = f]}
  BY <1>3
<1> HIDE DEF f, e
<1>6. QED
  BY <1>1, <1>2, <1>4, <1>5, FormSent

\* Two forms may both have found the name free; the second to create a row is refused.
LEMMA RegisterCreateSound ==
    ASSUME AccountsInv, NEW t \in Tabs, Web!RegisterCreate(t)
    PROVE  AccountsInv'
<1> DEFINE r == forms[t]
           free == \A x \in Web!Accounts : x # r.email /\ row[x].name # r.saw.name
           f == [Web!NoReq EXCEPT !.pc = "reply", !.token = Web!TokenFor(r.email, r.saw, clock)]
<1>1. /\ r.pc = "register"
      /\ row' = IF free THEN [row EXCEPT ![r.email] = r.saw] ELSE row
      /\ forms' = [forms EXCEPT ![t] = IF free THEN f ELSE Web!NoReq]
      /\ UNCHANGED <<clock, fallback, cookie, lastAdmin>>
  BY DEF Web!RegisterCreate, Web!history
<1>2. r \in Form /\ FormHolds(r, lastAdmin, clock) /\ row \in [Emails -> Rows] /\ clock \in Nat
      /\ forms \in [Tabs -> Form]
  BY DEF AccountsInv, AccountTypes
<1>3. r.email \in Emails /\ r.saw \in Rows /\ r.saw.role = "user" /\ r.saw.there
  BY <1>1, <1>2 DEF Form, FormHolds
<1>4. f \in Form /\ FormHolds(f, lastAdmin, clock)
  <2>1. clock <= clock /\ (r.saw.role = "admin" => clock <= lastAdmin[r.email])
    BY <1>2, <1>3
  <2>2. QED
    BY <1>2, <1>3, <2>1, TokenIssued
<1> HIDE DEF f
<1>5. forms' \in [Tabs -> Form] /\ \A u \in Tabs : FormHolds(forms'[u], lastAdmin, clock)
  BY <1>1, <1>2, <1>4, EmptyForm DEF AccountsInv
<1>6. row' \in [Emails -> Rows]
  BY <1>1, <1>2, <1>3
<1>7. \A e \in Emails : row'[e].there /\ row'[e].role = "admin" => row[e].there /\ row[e].role = "admin"
  BY <1>1, <1>2, <1>3
<1>8. Web!NamesAreUnique'
  BY <1>1, <1>2, <1>3 DEF AccountsInv, Web!NamesAreUnique, Web!Accounts
<1>9. QED
  BY <1>1, <1>5, <1>6, <1>7, <1>8, RowsReplaced

LEMMA ChangeWriteKeepsAccounts ==
    ASSUME AccountsInv, NEW t \in Tabs, Web!ChangeWrite(t)
    PROVE  AccountsInv'
<1> DEFINE r == forms[t]
           fits == r.with = r.saw.password /\ row[r.email].there
           f == [r EXCEPT !.pc = "changed"]
<1>1. /\ r.pc = "change"
      /\ row' = IF fits THEN [row EXCEPT ![r.email].password = r.new] ELSE row
      /\ forms' = [forms EXCEPT ![t] = IF fits THEN f ELSE Web!NoReq]
      /\ UNCHANGED <<clock, fallback, cookie, lastAdmin>>
  BY DEF Web!ChangeWrite, Web!history
<1>2. r \in Form /\ FormHolds(r, lastAdmin, clock) /\ row \in [Emails -> Rows]
      /\ forms \in [Tabs -> Form]
  BY DEF AccountsInv, AccountTypes
<1>3. r.email \in Emails /\ r.new \in Passwords \cup {"none"} /\ row[r.email] \in Rows
  BY <1>1, <1>2 DEF Form, FormHolds
<1>4. f \in Form /\ f.pc = "changed" /\ f.email = r.email /\ f.token = r.token
  BY <1>2 DEF Form
<1>5. FormHolds(f, lastAdmin, clock)
  BY <1>2, <1>3, <1>4 DEF FormHolds
<1> HIDE DEF f
<1>6. forms' \in [Tabs -> Form] /\ \A u \in Tabs : FormHolds(forms'[u], lastAdmin, clock)
  BY <1>1, <1>2, <1>4, <1>5, EmptyForm DEF AccountsInv
<1>7. /\ row' \in [Emails -> Rows]
      /\ \A e \in Emails : row'[e].there = row[e].there /\ row'[e].name = row[e].name
                           /\ row'[e].role = row[e].role
  BY <1>1, <1>2, <1>3 DEF Rows
<1>8. Web!NamesAreUnique'
  BY <1>7 DEF AccountsInv, Web!NamesAreUnique, Web!Accounts
<1>9. QED
  BY <1>1, <1>6, <1>7, <1>8, RowsReplaced

\* What leaves the accounts and the forms alone.
LEMMA AccountsKept ==
    ASSUME AccountsInv, UNCHANGED <<clock, fallback, row, cookie, forms, lastAdmin>>
    PROVE  AccountsInv'
BY DEF AccountsInv, AccountTypes, AdminTimes, Web!NamesAreUnique, Web!Accounts

LEMMA NextKeepsAccounts == AccountsInv /\ [Web!Next]_(Web!vars) => AccountsInv'
<1> SUFFICES ASSUME AccountsInv, [Web!Next]_(Web!vars) PROVE AccountsInv'
  OBVIOUS
<1>1. CASE UNCHANGED Web!vars
  BY <1>1, AccountsKept DEF Web!vars, Web!server, Web!browser, Web!history
<1>2. CASE Web!Tick \/ Web!Restart
  BY <1>2, TickKeepsAccounts, RestartKeepsAccounts
<1>3. ASSUME NEW e \in Emails, Web!AdminChanges(e) \/ Web!GuessElsewhere(e) PROVE AccountsInv'
  BY <1>3, AdminChangesSound, AccountsKept DEF Web!GuessElsewhere
<1>4. ASSUME NEW t \in Tabs,
             \/ Web!LoginStart(t) \/ Web!LoginIssue(t) \/ Web!SignedIn(t)
             \/ Web!RegisterStart(t) \/ Web!RegisterCreate(t)
             \/ Web!ChangeStart(t) \/ Web!ChangeWrite(t) \/ Web!ChangeDone(t) \/ Web!Logout(t)
      PROVE  AccountsInv'
  BY <1>4, LoginStartKeepsAccounts, LoginIssueKeepsAccounts, SignedInKeepsAccounts,
     RegisterStartKeepsAccounts, RegisterCreateSound, ChangeStartKeepsAccounts,
     ChangeWriteKeepsAccounts, LogoutKeepsAccounts
<1>5. ASSUME NEW t \in Tabs,
             Web!Visit(t) \/ \E a \in me[t] : Web!MeReads(t, a) \/ Web!MeAnswered(t, a)
      PROVE  AccountsInv'
  BY <1>5, AccountsKept DEF Web!Visit, Web!MeReads, Web!MeAnswered, Web!server, Web!history
<1>6. QED
  BY <1>1, <1>2, <1>3, <1>4, <1>5 DEF Web!Next

\* AdminIsRecent: an admin's token that is still good was issued at most Life ago.
LEMMA AdminsAreRecent == AccountsInv => Web!AdminIsRecent
<1> SUFFICES ASSUME AccountsInv, Web!Valid(cookie), cookie.role = "admin"
             PROVE  clock - lastAdmin[cookie.user] <= Life + cookie.slack
  BY DEF Web!AdminIsRecent
<1>1. /\ cookie.user \in Emails
      /\ cookie.exp <= lastAdmin[cookie.user] + Life + cookie.slack
  BY DEF AccountsInv, TokenHolds
<1>2. clock < cookie.exp /\ cookie # Web!NoToken
  BY DEF Web!Valid
<1>3. clock \in Nat /\ cookie.exp \in Nat /\ cookie.slack \in Nat /\ lastAdmin[cookie.user] \in Nat
  BY <1>1, <1>2 DEF AccountsInv, AccountTypes, Tokens
<1>4. QED
  BY <1>1, <1>2, <1>3, WebParameters

-----------------------------------------------------------------------------
\* The limiter.
AccountKeys == Web!Normalized \X Nat

\* The key of the accounts of an address.
BoxKey(m) == <<m, generation[m]>>

LEMMA KeyOfAccount ==
    \A e \in Emails : Lower[e] \in Web!Normalized /\ Web!AccountKey(e) = BoxKey(Lower[e])
BY DEF Web!Normalized, Web!AccountKey, BoxKey

LimiterTypes ==
    /\ clock \in Nat
    /\ generation \in [Web!Normalized -> Nat]
    /\ tries \in [Web!Normalized -> Seq(Nat)]
    /\ DOMAIN buckets \subseteq {Web!IpKey} \cup AccountKeys
    /\ \A k \in DOMAIN buckets :
          /\ buckets[k] \in [count : 1..Max, resetAt : Nat]
          /\ buckets[k].resetAt <= clock + Window

\* Generations to come have no buckets yet.
GenerationsPast ==
    \A e \in Web!Normalized, g \in Nat : <<e, g>> \in DOMAIN buckets => g <= generation[e]

TriesPast == \A e \in Web!Normalized : \A i \in 1..Len(tries[e]) : tries[e][i] <= clock

\* The last of the tries s are those that bucket b counts.  Of those before its window, all
\* but a budget are older than a window and cannot be in one with any that it counts.
InWindow(s, b) ==
    /\ b.count <= Len(s)
    /\ \A i \in 1..(Len(s) - b.count) : s[i] + Window <= b.resetAt
    /\ \E j \in 0..(Len(s) - b.count) :
          /\ Len(s) - b.count <= j + Max
          /\ \A i \in 1..j : s[i] + 2 * Window < b.resetAt

TriesFit ==
    \A e \in Web!Normalized :
        IF BoxKey(e) \in DOMAIN buckets
        THEN InWindow(tries[e], buckets[BoxKey(e)])
        ELSE tries[e] = <<>>

LimiterInv == LimiterTypes /\ GenerationsPast /\ TriesPast /\ TriesFit

LEMMA Keys ==
    ASSUME LimiterTypes
    PROVE  \A d, e \in Web!Normalized :
               /\ BoxKey(e) \in AccountKeys /\ BoxKey(e) # Web!IpKey
               /\ BoxKey(e) = BoxKey(d) => d = e
BY WebParameters DEF LimiterTypes, BoxKey, Web!IpKey, AccountKeys

LEMMA LimiterStarts == Web!Init => LimiterInv
<1> SUFFICES ASSUME Web!Init PROVE LimiterInv
  OBVIOUS
<1>1. /\ clock = 1 /\ buckets = <<>> /\ generation = [e \in Web!Normalized |-> 0]
      /\ tries = [e \in Web!Normalized |-> <<>>]
  BY DEF Web!Init
<1>2. DOMAIN buckets = {}
  BY <1>1
<1>3. \A e \in Web!Normalized : tries[e] = <<>> /\ Len(tries[e]) = 0
  BY <1>1
<1>4. LimiterTypes
  BY <1>1, <1>2 DEF LimiterTypes
<1>5. QED
  BY <1>2, <1>3, <1>4 DEF LimiterInv, GenerationsPast, TriesPast, TriesFit

\* A call that is allowed opens a window, or is counted in the one there is.
LEMMA BucketCounts ==
    ASSUME LimiterInv, NEW k, ~Web!Refuses(k)
    PROVE  LET b == [Web!BucketOf(k) EXCEPT !.count = @ + 1]
           IN /\ b \in [count : 1..Max, resetAt : Nat] /\ b.resetAt <= clock + Window
              /\ \/ /\ k \in DOMAIN buckets /\ b.count = buckets[k].count + 1
                    /\ b.resetAt = buckets[k].resetAt /\ clock <= buckets[k].resetAt
                 \/ /\ k \in DOMAIN buckets => buckets[k].resetAt < clock
                    /\ b.count = 1 /\ b.resetAt = clock + Window
<1> DEFINE old == Web!BucketOf(k)
           b == [old EXCEPT !.count = @ + 1]
<1>1. clock \in Nat /\ clock + Window \in Nat
  BY WebParameters DEF LimiterInv, LimiterTypes
<1>2. CASE k \in DOMAIN buckets /\ clock <= buckets[k].resetAt
  <2>1. old = buckets[k]
    BY <1>2 DEF Web!BucketOf
  <2>2. old \in [count : 1..Max, resetAt : Nat] /\ old.resetAt <= clock + Window
    BY <1>2, <2>1 DEF LimiterInv, LimiterTypes
  <2>3. old.count < Max
    BY <2>2, WebParameters DEF Web!Refuses
  <2> HIDE DEF old
  <2>4. b.count = old.count + 1 /\ b.resetAt = old.resetAt /\ b \in [count : 1..Max, resetAt : Nat]
    BY <2>2, <2>3, WebParameters
  <2>5. QED
    BY <1>2, <2>1, <2>2, <2>4 DEF old
<1>3. CASE ~(k \in DOMAIN buckets /\ clock <= buckets[k].resetAt)
  <2>1. old = [count |-> 0, resetAt |-> clock + Window]
    BY <1>3 DEF Web!BucketOf
  <2>2. b = [count |-> 1, resetAt |-> clock + Window]
    BY <2>1
  <2>3. b \in [count : 1..Max, resetAt : Nat]
    BY <1>1, <2>2, WebParameters
  <2>4. k \in DOMAIN buckets => buckets[k].resetAt < clock
    BY <1>1, <1>3 DEF LimiterInv, LimiterTypes
  <2>5. QED
    BY <1>1, <2>2, <2>3, <2>4
<1>4. QED
  BY <1>2, <1>3

\* A try more, counted by the bucket.
LEMMA TryCounted ==
    ASSUME LimiterInv, NEW e \in Web!Normalized, ~Web!Refuses(BoxKey(e))
    PROVE  InWindow(Append(tries[e], clock), [Web!BucketOf(BoxKey(e)) EXCEPT !.count = @ + 1])
<1> DEFINE k == BoxKey(e)
           b == [Web!BucketOf(k) EXCEPT !.count = @ + 1]
<1>1. PICK s \in Seq(Nat) : s = tries[e]
  BY DEF LimiterInv, LimiterTypes
<1>2. PICK now \in Nat : now = clock
  BY DEF LimiterInv, LimiterTypes
<1>3. PICK n \in Nat : n = Len(s)
  BY <1>1
<1>4. /\ Append(s, now) \in Seq(Nat) /\ Len(Append(s, now)) = n + 1
      /\ \A i \in 1..n : Append(s, now)[i] = s[i] /\ s[i] \in Nat /\ s[i] <= now
  BY <1>1, <1>2, <1>3 DEF LimiterInv, TriesPast
<1>5. b.count \in 1..Max /\ b.resetAt \in Nat
  BY BucketCounts
<1>6. CASE k \in DOMAIN buckets /\ b.count = buckets[k].count + 1 /\ b.resetAt = buckets[k].resetAt
  <2>1. InWindow(s, buckets[k])
    BY <1>1, <1>6 DEF LimiterInv, TriesFit
  <2>2. PICK c \in 1..Max : c = buckets[k].count
    BY <1>6 DEF LimiterInv, LimiterTypes
  <2>3. n + 1 - b.count = n - c /\ c <= n /\ b.count = c + 1
    <3>1. c <= n
      BY <1>3, <2>1, <2>2 DEF InWindow
    <3>2. c \in Nat /\ b.count = c + 1
      BY <1>6, <2>2, WebParameters
    <3> HIDE DEF b
    <3>3. QED
      BY <3>1, <3>2
  <2> HIDE DEF b, k
  <2>4. \A i \in 1..(n - c) : s[i] + Window <= b.resetAt
    BY <1>3, <1>6, <2>1, <2>2 DEF InWindow
  <2>5. PICK j \in 0..(n - c) : n - c <= j + Max /\ \A i \in 1..j : s[i] + 2 * Window < b.resetAt
    BY <1>3, <1>6, <2>1, <2>2 DEF InWindow
  <2>6. \A i \in 1..(n - c) : i \in 1..n
    BY <2>2, <2>3
  <2>7. \A i \in 1..j : i \in 1..(n - c)
    BY <2>2, <2>3
  <2>8. InWindow(Append(s, now), b)
    <3>1. Len(Append(s, now)) - b.count = n - c /\ b.count <= Len(Append(s, now))
      <4>1. n + 1 \in Nat /\ b.count \in Nat
        BY <1>3, <1>5
      <4>2. PICK m \in Nat, d \in Nat : m = Len(Append(s, now)) /\ d = b.count
        BY <1>4, <4>1
      <4>3. c \in Nat /\ m = n + 1 /\ d = c + 1 /\ c <= n
        BY <1>4, <2>2, <2>3, <4>2, WebParameters
      <4>4. m - d = n - c /\ d <= m
        BY <4>3
      <4>5. QED
        BY <4>2, <4>4
    <3>2. \A i \in 1..(n - c) : Append(s, now)[i] + Window <= b.resetAt
      BY <1>4, <2>4, <2>6
    <3>3. \A i \in 1..j : Append(s, now)[i] + 2 * Window < b.resetAt
      BY <1>4, <2>5, <2>6, <2>7
    <3>4. QED
      BY <2>5, <3>1, <3>2, <3>3 DEF InWindow
  <2>9. QED
    BY <1>1, <1>2, <2>8 DEF b, k
<1>7. CASE /\ k \in DOMAIN buckets => buckets[k].resetAt < clock
           /\ b.count = 1 /\ b.resetAt = clock + Window
  <2> HIDE DEF b
  <2>1. \A i \in 1..n : Append(s, now)[i] + Window <= b.resetAt
    BY <1>2, <1>4, <1>7, WebParameters
  <2>2. \E j \in 0..n : n <= j + Max /\ \A i \in 1..j : Append(s, now)[i] + 2 * Window < b.resetAt
    <3>1. CASE k \notin DOMAIN buckets
      <4>1. n = 0
        BY <1>1, <1>3, <3>1 DEF LimiterInv, TriesFit
      <4>2. QED
        BY <4>1, WebParameters
    <3>2. CASE k \in DOMAIN buckets
      <4>1. InWindow(s, buckets[k])
        BY <1>1, <3>2 DEF LimiterInv, TriesFit
      <4>2. PICK c \in 1..Max, r \in Nat : c = buckets[k].count /\ r = buckets[k].resetAt
        BY <3>2 DEF LimiterInv, LimiterTypes
      <4>3. r < now /\ c <= n
        BY <1>2, <1>3, <1>7, <3>2, <4>1, <4>2 DEF InWindow
      <4>4. \A i \in 1..(n - c) : s[i] + Window <= r
        BY <1>3, <4>1, <4>2 DEF InWindow
      <4>5. n - c \in 0..n /\ n <= (n - c) + Max
        BY <4>2, <4>3, WebParameters
      <4>6. ASSUME NEW i \in 1..(n - c) PROVE Append(s, now)[i] + 2 * Window < b.resetAt
        <5>1. i \in 1..n
          BY <4>2, <4>3
        <5>2. s[i] \in Nat /\ Append(s, now)[i] = s[i] /\ s[i] + Window <= r
          BY <1>4, <4>4, <5>1
        <5>3. QED
          BY <1>2, <1>7, <4>3, <5>2, WebParameters
      <4>7. QED
        BY <4>5, <4>6
    <3>3. QED
      BY <3>1, <3>2
  <2>3. InWindow(Append(s, now), b)
    <3>1. b.count <= Len(Append(s, now)) /\ Len(Append(s, now)) - b.count = n
      BY <1>3, <1>4, <1>7
    <3> HIDE DEF k
    <3>2. QED
      BY <2>1, <2>2, <3>1 DEF InWindow
  <2>4. QED
    BY <1>1, <1>2, <2>3 DEF b
<1>8. QED
  BY <1>6, <1>7, BucketCounts

\* Calls are counted for the keys in called; for the address e also its tries, if it is one.
LEMMA CallsCounted ==
    ASSUME LimiterInv, NEW called, NEW e \in Web!Normalized,
           called \in {{Web!IpKey}, {BoxKey(e)}, {Web!IpKey, BoxKey(e)}},
           \A k \in called : ~Web!Refuses(k),
           DOMAIN buckets' = DOMAIN buckets \cup called,
           \A k \in called : buckets'[k] = [Web!BucketOf(k) EXCEPT !.count = @ + 1],
           \A k \in DOMAIN buckets \ called : buckets'[k] = buckets[k],
           tries' = IF BoxKey(e) \in called
                    THEN [tries EXCEPT ![e] = Append(@, clock)] ELSE tries,
           UNCHANGED <<clock, generation>>
    PROVE  LimiterInv'
<1>1. /\ LimiterTypes /\ clock \in Nat
      /\ tries \in [Web!Normalized -> Seq(Nat)] /\ generation \in [Web!Normalized -> Nat]
  BY DEF LimiterInv, LimiterTypes
<1>2. tries' \in [Web!Normalized -> Seq(Nat)]
      /\ \A d \in Web!Normalized : tries'[d] =
            IF d = e /\ BoxKey(e) \in called THEN Append(tries[d], clock) ELSE tries[d]
  BY <1>1
<1>3. \A k \in called : k = Web!IpKey \/ k = BoxKey(e)
  OBVIOUS
<1>4. DOMAIN buckets' \subseteq {Web!IpKey} \cup AccountKeys
  BY <1>1, <1>3, Keys DEF LimiterTypes
<1>5. ASSUME NEW k \in DOMAIN buckets'
      PROVE  buckets'[k] \in [count : 1..Max, resetAt : Nat] /\ buckets'[k].resetAt <= clock + Window
  <2>1. CASE k \in called
    BY <2>1, BucketCounts
  <2>2. CASE k \notin called
    BY <1>1, <2>2 DEF LimiterTypes
  <2>3. QED
    BY <2>1, <2>2
<1>6. LimiterTypes'
  BY <1>1, <1>2, <1>4, <1>5 DEF LimiterTypes
<1>7. GenerationsPast'
  <2> SUFFICES ASSUME NEW d \in Web!Normalized, NEW g \in Nat, <<d, g>> \in DOMAIN buckets'
               PROVE  g <= generation[d]
    BY DEF GenerationsPast
  <2>1. CASE <<d, g>> \in DOMAIN buckets
    BY <2>1 DEF LimiterInv, GenerationsPast
  <2>2. CASE <<d, g>> = Web!IpKey
    BY <2>2, WebParameters DEF Web!IpKey
  <2>3. CASE <<d, g>> = BoxKey(e)
    BY <1>1, <2>3 DEF BoxKey
  <2>4. QED
    BY <1>3, <2>1, <2>2, <2>3
<1>8. TriesPast'
  <2> SUFFICES ASSUME NEW d \in Web!Normalized, NEW i \in 1..Len(tries'[d])
               PROVE  tries'[d][i] <= clock
    BY DEF TriesPast
  <2>1. PICK s \in Seq(Nat) : s = tries[d]
    BY <1>1
  <2>2. \A x \in 1..Len(s) : s[x] <= clock
    BY <2>1 DEF LimiterInv, TriesPast
  <2>3. CASE tries'[d] = s
    BY <2>2, <2>3
  <2>4. CASE tries'[d] = Append(s, clock)
    <3>1. PICK n \in Nat : n = Len(s)
      BY <2>1
    <3>2. Len(Append(s, clock)) = n + 1 /\ \A x \in 1..n : Append(s, clock)[x] = s[x]
      BY <1>1, <3>1
    <3>3. Append(s, clock)[n + 1] = clock
      BY <1>1, <3>1
    <3>4. i \in 1..n \/ i = n + 1
      BY <2>4, <3>1, <3>2
    <3>5. CASE i \in 1..n
      BY <2>2, <2>4, <3>1, <3>2, <3>5
    <3>6. CASE i = n + 1
      <4>1. tries'[d][i] = clock
        BY <2>4, <3>3, <3>6
      <4>2. QED
        BY <1>1, <4>1
    <3>7. QED
      BY <3>4, <3>5, <3>6
  <2>5. QED
    BY <1>2, <2>1, <2>3, <2>4
<1>9. TriesFit'
  <2> SUFFICES ASSUME NEW d \in Web!Normalized
               PROVE  IF BoxKey(d) \in DOMAIN buckets'
                      THEN InWindow(tries'[d], buckets'[BoxKey(d)])
                      ELSE tries'[d] = <<>>
    BY DEF TriesFit, BoxKey
  <2>1. CASE d = e /\ BoxKey(e) \in called
    BY <1>2, <2>1, TryCounted
  <2>2. CASE ~(d = e /\ BoxKey(e) \in called)
    <3>1. BoxKey(d) \notin called
      BY <1>1, <1>3, <2>2, Keys
    <3>2. BoxKey(d) \in DOMAIN buckets' <=> BoxKey(d) \in DOMAIN buckets
      BY <3>1
    <3>3. BoxKey(d) \in DOMAIN buckets => buckets'[BoxKey(d)] = buckets[BoxKey(d)]
      BY <3>1
    <3>4. tries'[d] = tries[d]
      BY <1>2, <2>2
    <3>5. QED
      BY <3>2, <3>3, <3>4 DEF LimiterInv, TriesFit
  <2>3. QED
    BY <2>1, <2>2
<1>10. QED
  BY <1>6, <1>7, <1>8, <1>9 DEF LimiterInv

LEMMA LoginStartCounts ==
    ASSUME LimiterInv, NEW t \in Tabs, Web!LoginStart(t)
    PROVE  LimiterInv'
<1>1. UNCHANGED <<clock, generation>>
  BY DEF Web!LoginStart
<1>2. PICK e \in Web!Normalized :
         /\ ~Web!Refuses(Web!IpKey)
         /\ IF Web!Refuses(BoxKey(e))
            THEN buckets' = Web!Counted(Web!IpKey) /\ UNCHANGED tries
            ELSE /\ buckets' = [k \in DOMAIN Web!Counted(Web!IpKey) \cup {BoxKey(e)} |->
                                  IF k = Web!IpKey THEN Web!Counted(Web!IpKey)[k]
                                  ELSE Web!Counted(BoxKey(e))[k]]
                 /\ tries' = [tries EXCEPT ![e] = Append(@, clock)]
  BY KeyOfAccount DEF Web!LoginStart
<1>3. BoxKey(e) # Web!IpKey
  BY Keys DEF LimiterInv
<1>4. CASE Web!Refuses(BoxKey(e))
  <2> DEFINE called == {Web!IpKey}
  <2>1. buckets' = Web!Counted(Web!IpKey) /\ tries' = tries
    BY <1>2, <1>4
  <2>2. /\ DOMAIN buckets' = DOMAIN buckets \cup called
        /\ \A k \in called : buckets'[k] = [Web!BucketOf(k) EXCEPT !.count = @ + 1]
        /\ \A k \in DOMAIN buckets \ called : buckets'[k] = buckets[k]
    BY <2>1 DEF Web!Counted
  <2>3. BoxKey(e) \notin called /\ \A k \in called : ~Web!Refuses(k)
    BY <1>2, <1>3
  <2>4. called \in {{Web!IpKey}, {BoxKey(e)}, {Web!IpKey, BoxKey(e)}}
    OBVIOUS
  <2> HIDE DEF called
  <2>5. QED
    BY <1>1, <2>1, <2>2, <2>3, <2>4, CallsCounted
<1>5. CASE ~Web!Refuses(BoxKey(e))
  <2> DEFINE called == {Web!IpKey, BoxKey(e)}
  <2>1. /\ buckets' = [k \in DOMAIN Web!Counted(Web!IpKey) \cup {BoxKey(e)} |->
                          IF k = Web!IpKey THEN Web!Counted(Web!IpKey)[k]
                          ELSE Web!Counted(BoxKey(e))[k]]
        /\ tries' = [tries EXCEPT ![e] = Append(@, clock)]
    BY <1>2, <1>5
  <2>2. /\ DOMAIN buckets' = DOMAIN buckets \cup called
        /\ \A k \in called : buckets'[k] = [Web!BucketOf(k) EXCEPT !.count = @ + 1]
        /\ \A k \in DOMAIN buckets \ called : buckets'[k] = buckets[k]
    BY <1>3, <2>1 DEF Web!Counted
  <2>3. BoxKey(e) \in called /\ \A k \in called : ~Web!Refuses(k)
    BY <1>2, <1>5
  <2>4. called \in {{Web!IpKey}, {BoxKey(e)}, {Web!IpKey, BoxKey(e)}}
    OBVIOUS
  <2> HIDE DEF called
  <2>5. QED
    BY <1>1, <2>1, <2>2, <2>3, <2>4, CallsCounted
<1>6. QED
  BY <1>4, <1>5

LEMMA GuessCounts ==
    ASSUME LimiterInv, NEW typed \in Emails, Web!GuessElsewhere(typed)
    PROVE  LimiterInv'
<1> DEFINE e == Lower[typed]
           called == {BoxKey(e)}
<1>1. /\ ~Web!Refuses(BoxKey(e)) /\ buckets' = Web!Counted(BoxKey(e))
      /\ tries' = [tries EXCEPT ![e] = Append(@, clock)]
      /\ UNCHANGED <<clock, generation>>
  BY KeyOfAccount DEF Web!GuessElsewhere
<1>2. /\ DOMAIN buckets' = DOMAIN buckets \cup called
      /\ \A k \in called : buckets'[k] = [Web!BucketOf(k) EXCEPT !.count = @ + 1]
      /\ \A k \in DOMAIN buckets \ called : buckets'[k] = buckets[k]
  BY <1>1 DEF Web!Counted
<1>3. BoxKey(e) \in called /\ \A k \in called : ~Web!Refuses(k)
  BY <1>1
<1>4. called \in {{Web!IpKey}, {BoxKey(e)}, {Web!IpKey, BoxKey(e)}}
  OBVIOUS
<1>5. e \in Web!Normalized
  BY KeyOfAccount
<1> HIDE DEF called, e
<1>6. QED
  BY <1>1, <1>2, <1>3, <1>4, <1>5, CallsCounted

\* The new generation of an address has no bucket and no tries.
LEMMA ChangeDoneFrees ==
    ASSUME LimiterInv, NEW e \in Web!Normalized,
           generation' = [generation EXCEPT ![e] = @ + 1], tries' = [tries EXCEPT ![e] = <<>>],
           UNCHANGED <<clock, buckets>>
    PROVE  LimiterInv'
<1>1. generation \in [Web!Normalized -> Nat] /\ tries \in [Web!Normalized -> Seq(Nat)]
  BY DEF LimiterInv, LimiterTypes
<1>2. generation' \in [Web!Normalized -> Nat]
      /\ \A d \in Web!Normalized : generation'[d] = IF d = e THEN generation[d] + 1 ELSE generation[d]
  BY <1>1
<1>3. tries' \in [Web!Normalized -> Seq(Nat)]
      /\ \A d \in Web!Normalized : tries'[d] = IF d = e THEN <<>> ELSE tries[d]
  BY <1>1
<1>4. LimiterTypes'
  BY <1>2, <1>3 DEF LimiterInv, LimiterTypes
<1>5. GenerationsPast'
  BY <1>1, <1>2 DEF LimiterInv, GenerationsPast
<1>6. TriesPast'
  BY <1>3 DEF LimiterInv, TriesPast
<1>7. TriesFit'
  <2> SUFFICES ASSUME NEW d \in Web!Normalized
               PROVE  IF <<d, generation'[d]>> \in DOMAIN buckets
                      THEN InWindow(tries'[d], buckets[<<d, generation'[d]>>])
                      ELSE tries'[d] = <<>>
    BY DEF TriesFit, BoxKey
  <2>1. CASE d = e
    <3>1. <<d, generation'[d]>> \notin DOMAIN buckets
      <4>1. generation'[d] \in Nat /\ ~(generation'[d] <= generation[d])
        BY <1>1, <1>2, <2>1
      <4>2. QED
        BY <4>1 DEF LimiterInv, GenerationsPast
    <3>2. QED
      BY <1>3, <2>1, <3>1
  <2>2. CASE d # e
    BY <1>2, <1>3, <2>2 DEF LimiterInv, TriesFit, BoxKey
  <2>3. QED
    BY <2>1, <2>2
<1>8. QED
  BY <1>4, <1>5, <1>6, <1>7 DEF LimiterInv

LEMMA TickKeepsLimits ==
    ASSUME LimiterInv, clock' = clock + 1, UNCHANGED <<buckets, generation, tries>>
    PROVE  LimiterInv'
<1>1. clock \in Nat /\ clock' \in Nat /\ clock <= clock' /\ tries \in [Web!Normalized -> Seq(Nat)]
  BY DEF LimiterInv, LimiterTypes
<1>2. \A k \in DOMAIN buckets : buckets[k].resetAt <= clock' + Window
  <2> TAKE k \in DOMAIN buckets
  <2>1. buckets[k].resetAt \in Nat /\ buckets[k].resetAt <= clock + Window
    BY DEF LimiterInv, LimiterTypes
  <2>2. QED
    BY <1>1, <2>1, WebParameters
<1>3. LimiterTypes'
  BY <1>1, <1>2 DEF LimiterInv, LimiterTypes
<1>4. TriesPast'
  <2> SUFFICES ASSUME NEW e \in Web!Normalized, NEW i \in 1..Len(tries[e]) PROVE tries[e][i] <= clock'
    BY DEF TriesPast
  <2>1. PICK s \in Seq(Nat) : s = tries[e]
    BY <1>1
  <2>2. s[i] \in Nat /\ s[i] <= clock
    BY <2>1 DEF LimiterInv, TriesPast
  <2>3. QED
    BY <1>1, <2>1, <2>2
<1>5. GenerationsPast' /\ TriesFit'
  BY DEF LimiterInv, GenerationsPast, TriesFit, BoxKey
<1>6. QED
  BY <1>3, <1>4, <1>5 DEF LimiterInv

LEMMA RestartFrees ==
    ASSUME LimiterInv, buckets' = <<>>, generation' = [e \in Web!Normalized |-> 0],
           tries' = [e \in Web!Normalized |-> <<>>], clock' = clock
    PROVE  LimiterInv'
<1>1. DOMAIN buckets' = {} /\ \A e \in Web!Normalized : tries'[e] = <<>> /\ Len(tries'[e]) = 0
  OBVIOUS
<1>2. LimiterTypes'
  BY <1>1 DEF LimiterInv, LimiterTypes
<1>3. QED
  BY <1>1, <1>2 DEF LimiterInv, GenerationsPast, TriesPast, TriesFit

LEMMA LimitsKept ==
    ASSUME LimiterInv, UNCHANGED <<clock, buckets, generation, tries>>
    PROVE  LimiterInv'
BY DEF LimiterInv, LimiterTypes, GenerationsPast, TriesPast, TriesFit, BoxKey

LEMMA NextKeepsLimits == AccountsInv /\ LimiterInv /\ [Web!Next]_(Web!vars) => LimiterInv'
<1> SUFFICES ASSUME AccountsInv, LimiterInv, [Web!Next]_(Web!vars) PROVE LimiterInv'
  OBVIOUS
<1>1. CASE UNCHANGED Web!vars
  BY <1>1, LimitsKept DEF Web!vars, Web!server, Web!history
<1>2. CASE Web!Tick
  BY <1>2, TickKeepsLimits DEF Web!Tick
<1>3. CASE Web!Restart
  BY <1>3, RestartFrees DEF Web!Restart
<1>4. ASSUME NEW t \in Tabs, Web!LoginStart(t) PROVE LimiterInv'
  BY <1>4, LoginStartCounts
<1>5. ASSUME NEW t \in Tabs, Web!ChangeDone(t) PROVE LimiterInv'
  <2>1. Lower[forms[t].email] \in Web!Normalized
    BY <1>5, KeyOfAccount DEF Web!ChangeDone, AccountsInv, FormHolds
  <2>2. QED
    BY <1>5, <2>1, ChangeDoneFrees DEF Web!ChangeDone
<1>6. ASSUME NEW t \in Tabs,
             \/ Web!LoginIssue(t) \/ Web!SignedIn(t) \/ Web!RegisterStart(t) \/ Web!RegisterCreate(t)
             \/ Web!ChangeStart(t) \/ Web!ChangeWrite(t) \/ Web!Visit(t) \/ Web!Logout(t)
      PROVE  LimiterInv'
  BY <1>6, LimitsKept DEF Web!LoginIssue, Web!SignedIn, Web!RegisterStart, Web!RegisterCreate,
     Web!ChangeStart, Web!ChangeWrite, Web!Visit, Web!Logout, Web!server, Web!history
<1>7. ASSUME NEW t \in Tabs, NEW a \in me[t], Web!MeReads(t, a) \/ Web!MeAnswered(t, a)
      PROVE  LimiterInv'
  BY <1>7, LimitsKept DEF Web!MeReads, Web!MeAnswered, Web!server, Web!history
<1>8. ASSUME NEW e \in Emails, Web!AdminChanges(e) \/ Web!GuessElsewhere(e) PROVE LimiterInv'
  BY <1>8, GuessCounts, LimitsKept DEF Web!AdminChanges
<1>9. QED
  BY <1>1, <1>2, <1>3, <1>4, <1>5, <1>6, <1>7, <1>8 DEF Web!Next

\* GuessesAreCapped: what the present bucket counts and the budget before it.
LEMMA GuessesCapped == LimiterInv => Web!GuessesAreCapped
<1> SUFFICES ASSUME LimiterInv, NEW e \in Web!Normalized
             PROVE  Cardinality({i \in DOMAIN tries[e] : tries[e][i] + Window >= clock}) <= 2 * Max
  BY WebSameSize DEF Web!GuessesAreCapped
<1> DEFINE recent == {i \in DOMAIN tries[e] : tries[e][i] + Window >= clock}
<1>1. PICK s \in Seq(Nat) : s = tries[e]
  BY DEF LimiterInv, LimiterTypes
<1>2. PICK n \in Nat : n = Len(s) /\ DOMAIN s = 1..n
  BY <1>1
<1>3. PICK now \in Nat : now = clock
  BY DEF LimiterInv, LimiterTypes
<1>4. CASE BoxKey(e) \notin DOMAIN buckets
  <2>1. recent = {}
    BY <1>4 DEF LimiterInv, TriesFit
  <2>2. Cardinality(recent) = 0
    BY <2>1, FS_EmptySet
  <2>3. QED
    BY <2>2, WebParameters
<1>5. CASE BoxKey(e) \in DOMAIN buckets
  <2> DEFINE b == buckets[BoxKey(e)]
  <2>1. InWindow(s, b)
    BY <1>1, <1>5 DEF LimiterInv, TriesFit
  <2>2. PICK c \in 1..Max, r \in Nat : c = b.count /\ r = b.resetAt /\ r <= now + Window
    BY <1>3, <1>5 DEF LimiterInv, LimiterTypes
  <2>3. c <= n
    BY <1>2, <2>1, <2>2 DEF InWindow
  <2>4. PICK j \in 0..(n - c) : n - c <= j + Max /\ \A i \in 1..j : s[i] + 2 * Window < r
    BY <1>2, <2>1, <2>2 DEF InWindow
  <2>5. j \in Nat /\ c \in Nat /\ j <= n /\ n - j <= 2 * Max
    BY <2>2, <2>3, <2>4, WebParameters
  <2>6. recent \subseteq (j + 1)..n
    <3>1. ASSUME NEW i \in 1..n, s[i] + Window >= now, i <= j PROVE FALSE
      <4>1. PICK x \in Nat : x = s[i]
        BY <1>2
      <4>2. i \in 1..j
        BY <2>5, <3>1
      <4>3. x + 2 * Window < r
        BY <2>4, <4>1, <4>2
      <4>4. x + Window >= now
        BY <3>1, <4>1
      <4>5. QED
        BY <2>2, <4>3, <4>4, WebParameters
    <3>2. recent = {i \in 1..n : s[i] + Window >= now}
      BY <1>1, <1>2, <1>3
    <3> HIDE DEF recent
    <3>3. ASSUME NEW i \in recent PROVE i \in (j + 1)..n
      BY <2>5, <3>1, <3>2, <3>3
    <3>4. QED
      BY <3>3
  <2>7. IsFiniteSet((j + 1)..n) /\ Cardinality((j + 1)..n) <= n - j
    <3>1. Cardinality((j + 1)..n) = IF j + 1 > n THEN 0 ELSE n - (j + 1) + 1
      BY <2>5, FS_Interval
    <3>2. QED
      BY <2>5, <3>1, FS_Interval
  <2>8. Cardinality(recent) <= Cardinality((j + 1)..n) /\ Cardinality(recent) \in Nat
    BY <2>6, <2>7, FS_Subset, FS_CardinalityType
  <2>9. Cardinality((j + 1)..n) \in Nat
    BY <2>7, FS_CardinalityType
  <2> HIDE DEF recent
  <2>10. QED
    BY <2>5, <2>7, <2>8, <2>9, WebParameters DEF recent
<1>6. QED
  BY <1>4, <1>5

\* BudgetIsFresh: a bucket counts no more than the tries there were.
LEMMA BudgetsAreFresh == LimiterInv => Web!BudgetIsFresh
<1> SUFFICES ASSUME LimiterInv, NEW e \in Emails, Web!Refuses(Web!AccountKey(e))
             PROVE  Len(tries[Lower[e]]) >= Max
  BY DEF Web!BudgetIsFresh
<1>1. PICK m \in Web!Normalized : m = Lower[e] /\ Web!AccountKey(e) = BoxKey(m)
  BY KeyOfAccount
<1> DEFINE k == BoxKey(m)
<1>2. k \in DOMAIN buckets /\ buckets[k].count >= Max
  BY <1>1, WebParameters DEF Web!Refuses, Web!BucketOf
<1>3. buckets[k].count \in 1..Max /\ buckets[k].count <= Len(tries[m])
  BY <1>1, <1>2 DEF LimiterInv, LimiterTypes, TriesFit, InWindow
<1>4. QED
  BY <1>1, <1>2, <1>3, WebParameters DEF LimiterInv, LimiterTypes

-----------------------------------------------------------------------------
\* The tabs.
Pages == {"public", "login", "register", "dashboard", "admin", "forbidden"}
Ask == [pc : {"sent", "answered"}, token : Tokens, user : Emails \cup {"none"}, fresh : BOOLEAN]

\* A request with the cookie c there is now; its answer names the user of its token.
AskHolds(a, c) ==
    /\ a.fresh => a.token = c
    /\ a.user \in {a.token.user, "none"}

TabsInv ==
    /\ cookie \in Tokens
    /\ me \in [Tabs -> SUBSET Ask]
    /\ store \in [Tabs -> Emails \cup {"none"}]
    /\ page \in [Tabs -> Pages]
    /\ asked \in [Tabs -> BOOLEAN]
    /\ \A t \in Tabs : \A a \in me[t] : AskHolds(a, cookie)
    /\ \A t \in Tabs : asked[t] => store[t] \in {cookie.user, "none"}

LEMMA TabsStart == Web!Init => TabsInv
<1> SUFFICES ASSUME Web!Init PROVE TabsInv
  OBVIOUS
<1>1. /\ cookie = Web!NoToken /\ me = [t \in Tabs |-> {}] /\ store = [t \in Tabs |-> "none"]
      /\ page \in [Tabs -> {"login", "register"}] /\ asked = [t \in Tabs |-> FALSE]
  BY DEF Web!Init
<1>2. page \in [Tabs -> Pages]
  BY <1>1 DEF Pages
<1>3. QED
  BY <1>1, <1>2, EmptyForm DEF TabsInv

\* A new request holds, and one that is no longer fresh holds of any cookie.
LEMMA AskedSound ==
    ASSUME NEW k \in Tokens
    PROVE  Web!Asked(k) \in Ask /\ AskHolds(Web!Asked(k), k)
BY DEF Web!Asked, Ask, AskHolds

LEMMA StaleSound ==
    ASSUME NEW S \in SUBSET Ask, NEW c, NEW k, \A a \in S : AskHolds(a, c)
    PROVE  Web!Stale(S) \in SUBSET Ask /\ \A a \in Web!Stale(S) : AskHolds(a, k)
<1>1. ASSUME NEW a \in S
      PROVE  [a EXCEPT !.fresh = FALSE] \in Ask /\ AskHolds([a EXCEPT !.fresh = FALSE], k)
  BY <1>1 DEF Ask, AskHolds
<1>2. QED
  BY <1>1 DEF Web!Stale

\* A page opens in a tab: the requests there are and, it may be, one more.
LEMMA PageOpens ==
    ASSUME NEW t \in Tabs, NEW shown \in Pages, NEW k \in Tokens, NEW pending \in [Tabs -> SUBSET Ask],
           \A u \in Tabs : \A a \in pending[u] : AskHolds(a, k),
           page \in [Tabs -> Pages],
           Web!Opens(t, shown, k, pending)
    PROVE  /\ page' \in [Tabs -> Pages]
           /\ me' \in [Tabs -> SUBSET Ask]
           /\ \A u \in Tabs : \A a \in me'[u] : AskHolds(a, k)
<1>1. page' = [page EXCEPT ![t] = shown]
  BY DEF Web!Opens
<1>2. CASE me' = pending
  BY <1>1, <1>2
<1>3. CASE me' = [pending EXCEPT ![t] = @ \cup {Web!Asked(k)}]
  BY <1>1, <1>3, AskedSound
<1>4. QED
  BY <1>2, <1>3 DEF Web!Opens

LEMMA SignedInShows ==
    ASSUME AccountsInv, TabsInv, NEW t \in Tabs, Web!SignedIn(t)
    PROVE  TabsInv'
<1> DEFINE k == forms[t].token
           pending == [x \in Tabs |-> Web!Stale(me[x])]
<1>1. /\ cookie' = k /\ asked' = [x \in Tabs |-> FALSE] /\ store' = store
      /\ Web!Opens(t, "public", k, pending)
  BY DEF Web!SignedIn, Web!CookieIs
<1>2. k \in Tokens
  BY DEF AccountsInv, AccountTypes, Form
<1>3. /\ pending \in [Tabs -> SUBSET Ask]
      /\ \A u \in Tabs : \A a \in pending[u] : AskHolds(a, k)
  <2>1. ASSUME NEW u \in Tabs
        PROVE  Web!Stale(me[u]) \in SUBSET Ask /\ \A a \in Web!Stale(me[u]) : AskHolds(a, k)
    BY StaleSound DEF TabsInv
  <2>2. QED
    BY <2>1
<1> HIDE DEF k, pending
<1>4. /\ page' \in [Tabs -> Pages] /\ me' \in [Tabs -> SUBSET Ask]
      /\ \A u \in Tabs : \A a \in me'[u] : AskHolds(a, k)
  <2>1. "public" \in Pages /\ page \in [Tabs -> Pages]
    BY DEF Pages, TabsInv
  <2>2. QED
    BY <1>1, <1>2, <1>3, <2>1, PageOpens
<1>5. QED
  BY <1>1, <1>2, <1>4 DEF TabsInv

\* A page opens and the cookie stays.
LEMMA OpensSound ==
    ASSUME TabsInv, NEW t \in Tabs, NEW shown \in Pages, Web!Opens(t, shown, cookie, me),
           UNCHANGED <<cookie, store, asked>>
    PROVE  TabsInv'
<1>1. /\ page' \in [Tabs -> Pages] /\ me' \in [Tabs -> SUBSET Ask]
      /\ \A u \in Tabs : \A a \in me'[u] : AskHolds(a, cookie)
  BY PageOpens DEF TabsInv
<1>2. QED
  BY <1>1 DEF TabsInv

LEMMA VisitSound ==
    ASSUME TabsInv, NEW t \in Tabs, Web!Visit(t) \/ Web!ChangeDone(t)
    PROVE  TabsInv'
<1>1. CASE Web!Visit(t)
  <2>1. PICK where \in {"public", "login", "register", "dashboard", "admin"} :
           Web!Opens(t, Web!Gate(where), cookie, me)
    BY <1>1 DEF Web!Visit
  <2>2. Web!Gate(where) \in Pages
    BY DEF Web!Gate, Pages
  <2>3. UNCHANGED <<cookie, store, asked>>
    BY <1>1 DEF Web!Visit, Web!history
  <2>4. QED
    BY <2>1, <2>2, <2>3, OpensSound
<1>2. CASE Web!ChangeDone(t)
  <2>1. Web!Opens(t, "dashboard", cookie, me) /\ UNCHANGED <<cookie, store, asked>>
    BY <1>2 DEF Web!ChangeDone
  <2>2. "dashboard" \in Pages
    BY DEF Pages
  <2>3. QED
    BY <2>1, <2>2, OpensSound
<1>3. QED
  BY <1>1, <1>2

LEMMA LogoutSound ==
    ASSUME TabsInv, NEW t \in Tabs, Web!Logout(t)
    PROVE  TabsInv'
<1>1. /\ cookie' = Web!NoToken /\ asked' = [x \in Tabs |-> FALSE]
      /\ store' = [store EXCEPT ![t] = "none"] /\ page' = [page EXCEPT ![t] = "public"]
      /\ me' = [x \in Tabs |-> Web!Stale(me[x])]
  BY DEF Web!Logout, Web!CookieIs
<1>2. ASSUME NEW u \in Tabs
      PROVE  me'[u] \in SUBSET Ask /\ \A a \in me'[u] : AskHolds(a, cookie')
  BY <1>1, StaleSound DEF TabsInv
<1>3. me' \in [Tabs -> SUBSET Ask]
  BY <1>1, <1>2
<1>4. page' \in [Tabs -> Pages] /\ store' \in [Tabs -> Emails \cup {"none"}]
  BY <1>1 DEF TabsInv, Pages
<1>5. QED
  BY <1>1, <1>2, <1>3, <1>4, EmptyForm DEF TabsInv

LEMMA MeSound ==
    ASSUME TabsInv, NEW t \in Tabs, NEW a \in me[t], Web!MeReads(t, a) \/ Web!MeAnswered(t, a)
    PROVE  TabsInv'
<1>1. a \in Ask /\ AskHolds(a, cookie) /\ me \in [Tabs -> SUBSET Ask]
  BY DEF TabsInv
<1>2. UNCHANGED <<cookie, page>>
  BY DEF Web!MeReads, Web!MeAnswered
<1>3. CASE Web!MeReads(t, a)
  <2>1. PICK user \in {Web!UserOf(a.token), "none"} :
           me' = [me EXCEPT ![t] = (@ \ {a}) \cup {[a EXCEPT !.pc = "answered", !.user = user]}]
    BY <1>3 DEF Web!MeReads
  <2> DEFINE b == [a EXCEPT !.pc = "answered", !.user = user]
  <2>2. user \in {a.token.user, "none"} /\ user \in Emails \cup {"none"}
    BY <1>1 DEF Web!UserOf, Web!Valid, Ask, Tokens
  <2>3. b \in Ask /\ AskHolds(b, cookie)
    BY <1>1, <2>2 DEF Ask, AskHolds
  <2> HIDE DEF b
  <2>4. me' = [me EXCEPT ![t] = (@ \ {a}) \cup {b}]
    BY <2>1 DEF b
  <2>5. me' \in [Tabs -> SUBSET Ask] /\ \A u \in Tabs : \A x \in me'[u] : AskHolds(x, cookie)
    BY <1>1, <2>3, <2>4 DEF TabsInv
  <2>6. UNCHANGED <<store, asked>>
    BY <1>3 DEF Web!MeReads, Web!history
  <2>7. QED
    BY <1>2, <2>5, <2>6 DEF TabsInv
<1>4. CASE Web!MeAnswered(t, a)
  <2>1. /\ me' = [me EXCEPT ![t] = @ \ {a}] /\ store' = [store EXCEPT ![t] = a.user]
        /\ asked' = [asked EXCEPT ![t] = a.fresh]
    BY <1>4 DEF Web!MeAnswered
  <2>2. a.user \in Emails \cup {"none"} /\ a.fresh \in BOOLEAN
        /\ (a.fresh => a.user \in {cookie.user, "none"})
    BY <1>1 DEF Ask, AskHolds
  <2>3. me' \in [Tabs -> SUBSET Ask] /\ \A u \in Tabs : me'[u] \subseteq me[u]
    BY <1>1, <2>1
  <2>4. store' \in [Tabs -> Emails \cup {"none"}] /\ asked' \in [Tabs -> BOOLEAN]
    BY <2>1, <2>2 DEF TabsInv
  <2>5. \A u \in Tabs : asked'[u] => store'[u] \in {cookie.user, "none"}
    BY <2>1, <2>2 DEF TabsInv
  <2>6. QED
    BY <1>2, <2>3, <2>4, <2>5 DEF TabsInv
<1>5. QED
  BY <1>3, <1>4

LEMMA TabsKept ==
    ASSUME TabsInv, UNCHANGED <<cookie, me, store, page, asked>>
    PROVE  TabsInv'
BY DEF TabsInv

LEMMA NextKeepsTabs == AccountsInv /\ TabsInv /\ [Web!Next]_(Web!vars) => TabsInv'
<1> SUFFICES ASSUME AccountsInv, TabsInv, [Web!Next]_(Web!vars) PROVE TabsInv'
  OBVIOUS
<1>1. CASE UNCHANGED Web!vars
  BY <1>1, TabsKept DEF Web!vars, Web!browser, Web!history
<1>2. CASE Web!Tick \/ Web!Restart
  BY <1>2, TabsKept DEF Web!Tick, Web!Restart, Web!browser
<1>3. ASSUME NEW e \in Emails, Web!AdminChanges(e) \/ Web!GuessElsewhere(e) PROVE TabsInv'
  BY <1>3, TabsKept DEF Web!AdminChanges, Web!GuessElsewhere
<1>4. ASSUME NEW t \in Tabs,
             \/ Web!LoginStart(t) \/ Web!LoginIssue(t) \/ Web!RegisterStart(t)
             \/ Web!RegisterCreate(t) \/ Web!ChangeStart(t) \/ Web!ChangeWrite(t)
      PROVE  TabsInv'
  BY <1>4, TabsKept DEF Web!LoginStart, Web!LoginIssue, Web!RegisterStart, Web!RegisterCreate,
     Web!ChangeStart, Web!ChangeWrite, Web!history
<1>5. ASSUME NEW t \in Tabs,
             Web!SignedIn(t) \/ Web!Visit(t) \/ Web!ChangeDone(t) \/ Web!Logout(t)
      PROVE  TabsInv'
  BY <1>5, SignedInShows, VisitSound, LogoutSound
<1>6. ASSUME NEW t \in Tabs, NEW a \in me[t], Web!MeReads(t, a) \/ Web!MeAnswered(t, a)
      PROVE  TabsInv'
  BY <1>6, MeSound
<1>7. QED
  BY <1>1, <1>2, <1>3, <1>4, <1>5, <1>6 DEF Web!Next

-----------------------------------------------------------------------------
WebInv == AccountsInv /\ LimiterInv /\ TabsInv

LEMMA WebInvSound == WebInv => SessionsAreSound
<1> SUFFICES ASSUME WebInv PROVE Web!SessionsAreSound
  BY DEF SessionsAreSound
<1>1. Web!AdminIsRecent /\ Web!NamesAreUnique
  BY AdminsAreRecent DEF WebInv, AccountsInv
<1>2. Web!GuessesAreCapped /\ Web!BudgetIsFresh
  BY GuessesCapped, BudgetsAreFresh DEF WebInv
<1>3. Web!NavbarIsTrue
  BY DEF WebInv, TabsInv, Web!NavbarIsTrue
<1>4. Web!TypeOK
  <2>1. clock \in 1..MaxClock /\ fallback \in BOOLEAN
    BY DEF WebInv, AccountsInv, AccountTypes
  <2>2. cookie.user \in Emails \cup {"none"}
    BY DEF WebInv, TabsInv, Tokens, Web!NoToken
  <2>3. store \in [Tabs -> Emails \cup {"none"}]
        /\ \A t \in Tabs : page[t] \in {"public", "login", "register", "dashboard", "admin", "forbidden"}
    BY DEF WebInv, TabsInv, Pages
  <2>4. \A k \in DOMAIN buckets : buckets[k].count \in 1..Max
    BY DEF WebInv, LimiterInv, LimiterTypes
  <2>5. QED
    BY <2>1, <2>2, <2>3, <2>4 DEF Web!TypeOK
<1>5. QED
  BY <1>1, <1>2, <1>3, <1>4 DEF Web!SessionsAreSound

\* However logins, registrations, changes of passwords and of roles and restarts interleave:
\* an admin's session outlives the role by no more than a token's life and a comparison, no
\* two accounts share a name, all accounts of an address in lower case together see two budgets
\* of tries in a window at most and are refused only after a full one, and what a navigation
\* bar has from an answer to the cookie there is, is its user (SessionsAreSound).
THEOREM SessionsStaySound == Web!Spec => []SessionsAreSound
<1>1. Web!Init => WebInv
  BY AccountsStart, LimiterStarts, TabsStart DEF WebInv
<1>2. WebInv /\ [Web!Next]_(Web!vars) => WebInv'
  BY NextKeepsAccounts, NextKeepsLimits, NextKeepsTabs DEF WebInv
<1>3. QED
  BY <1>1, <1>2, WebInvSound, PTL DEF Web!Spec
=============================================================================
