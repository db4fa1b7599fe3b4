------------------------ MODULE JudgeSchedulerProofs ------------------------
(***************************************************************************)
(* The judge's two semaphores for any number of requests and keys and any  *)
(* caps.  Everything follows from counting: each counter is the number of  *)
(* requests at certain places of Acquire and release, and a step moves one *)
(* request (Moved says what that does to a count).                         *)
(*                                                                         *)
(* And the execution of one request: the record of a test case that has    *)
(* ended says what its program did, what is on the host belongs to a test  *)
(* case under way or was left by a runner that was killed, and the answer  *)
(* is what the first failure says.  Where the judge's answer is not        *)
(* trusted, the first failure has no text or one nobody knows, so the text *)
(* the worker finds is of a later test case.                               *)
(***************************************************************************)
EXTENDS Judge, Counting, FiniteSetTheorems, TLAPS

OfKey(k) == {r \in Requests : KeyOf[r] = k}

\* The inductive invariant: types, and the four counters that are counts.
Types ==
    /\ pc \in [Requests -> PCs]
    /\ answer \in [Requests -> Answers]
    /\ windowCount \in [Keys -> 0..RateLimit]
    /\ ipSlot \in [Keys -> 0..PerIPMax]
    /\ inflightByIP \in [Keys -> Nat]
    /\ totalAccepted \in Nat
    /\ totalRejected \in Nat

GlobalCounts ==
    /\ global = Number(pc, HoldsGlobal, Requests)
    /\ global \in 0..GlobalMax
    /\ currentInUse = Number(pc, Counted, Requests)

KeyCounts(k) ==
    /\ ipSlot[k] = Number(pc, HoldsIp, OfKey(k))
    /\ inflightByIP[k] = Number(pc, Counted, OfKey(k))

SInv == Types /\ GlobalCounts /\ \A k \in Keys : KeyCounts(k)

-----------------------------------------------------------------------------
(* The counts over all requests and over one key after request r has moved to q. *)
LEMMA Moved ==
    ASSUME SInv, NEW r \in Requests, NEW q \in PCs, Goto(r, q), NEW ps, NEW k \in Keys
    PROVE  /\ Number(pc, ps, Requests) \in Nat
           /\ Number(pc, ps, OfKey(k)) \in Nat
           /\ (pc[r] \in ps <=> q \in ps) =>
                /\ Number(pc', ps, Requests) = Number(pc, ps, Requests)
                /\ Number(pc', ps, OfKey(k)) = Number(pc, ps, OfKey(k))
           /\ pc[r] \notin ps /\ q \in ps =>
                /\ Number(pc', ps, Requests) = Number(pc, ps, Requests) + 1
                /\ Number(pc', ps, OfKey(k)) =
                     Number(pc, ps, OfKey(k)) + (IF k = KeyOf[r] THEN 1 ELSE 0)
           /\ pc[r] \in ps /\ q \notin ps =>
                /\ Number(pc', ps, Requests) = Number(pc, ps, Requests) - 1
                /\ Number(pc, ps, Requests) > 0
                /\ Number(pc', ps, OfKey(k)) =
                     Number(pc, ps, OfKey(k)) - (IF k = KeyOf[r] THEN 1 ELSE 0)
                /\ k = KeyOf[r] => Number(pc, ps, OfKey(k)) > 0
<1>1. pc'[r] = q /\ \A x \in Requests \ {r} : pc'[x] = pc[x]
  BY DEF SInv, Types, Goto
<1>2. /\ OfKey(k) \subseteq Requests /\ IsFiniteSet(OfKey(k)) /\ IsFiniteSet(Requests)
      /\ r \in OfKey(k) <=> k = KeyOf[r]
  BY FS_Subset, SchedulerAssumption DEF OfKey
<1>3. Number(pc, ps, Requests) \in Nat /\ Number(pc, ps, OfKey(k)) \in Nat
  BY <1>2, NumberIsNat
<1>4. CASE pc[r] \in ps <=> q \in ps
  <2>1. \A x \in Requests : pc'[x] \in ps <=> pc[x] \in ps
    BY <1>1, <1>4
  <2>2. \A D \in SUBSET Requests : Number(pc', ps, D) = Number(pc, ps, D)
    BY <2>1, OneStays
  <2>3. QED
    BY <1>2, <1>3, <1>4, <2>2
<1>5. CASE pc[r] \notin ps /\ q \in ps
  <2>1. Number(pc', ps, Requests) = Number(pc, ps, Requests) + 1
    BY <1>1, <1>2, <1>5, OneEnters
  <2>2. CASE k = KeyOf[r]
    <3>1. Number(pc', ps, OfKey(k)) = Number(pc, ps, OfKey(k)) + 1
      BY <1>1, <1>2, <1>5, <2>2, OneEnters
    <3>2. QED
      BY <1>3, <1>5, <2>1, <2>2, <3>1
  <2>3. CASE k # KeyOf[r]
    <3>1. Number(pc', ps, OfKey(k)) = Number(pc, ps, OfKey(k))
      <4>1. \A x \in OfKey(k) : pc'[x] \in ps <=> pc[x] \in ps
        BY <1>1, <1>2, <2>3
      <4>2. QED
        BY <1>2, <4>1, OneStays
    <3>2. QED
      BY <1>3, <1>5, <2>1, <2>3, <3>1
  <2>4. QED
    BY <2>2, <2>3
<1>6. CASE pc[r] \in ps /\ q \notin ps
  <2>1. Number(pc', ps, Requests) = Number(pc, ps, Requests) - 1 /\ Number(pc, ps, Requests) > 0
    BY <1>1, <1>2, <1>6, OneLeaves
  <2>2. CASE k = KeyOf[r]
    <3>1. /\ Number(pc', ps, OfKey(k)) = Number(pc, ps, OfKey(k)) - 1
          /\ Number(pc, ps, OfKey(k)) > 0
      BY <1>1, <1>2, <1>6, <2>2, OneLeaves
    <3>2. QED
      BY <1>3, <1>6, <2>1, <2>2, <3>1
  <2>3. CASE k # KeyOf[r]
    <3>1. Number(pc', ps, OfKey(k)) = Number(pc, ps, OfKey(k))
      <4>1. \A x \in OfKey(k) : pc'[x] \in ps <=> pc[x] \in ps
        BY <1>1, <1>2, <2>3
      <4>2. QED
        BY <1>2, <4>1, OneStays
    <3>2. QED
      BY <1>3, <1>6, <2>1, <2>3, <3>1
  <2>4. QED
    BY <2>2, <2>3
<1>7. QED
  BY <1>4, <1>5, <1>6

-----------------------------------------------------------------------------
(* Steps that neither take nor free a slot nor count. *)
LEMMA QuietStep ==
    ASSUME SInv, NEW r \in Requests, NEW q \in PCs, Goto(r, q),
           UNCHANGED <<slots, inflightByIP, currentInUse>>,
           pc[r] \in HoldsGlobal <=> q \in HoldsGlobal,
           pc[r] \in HoldsIp <=> q \in HoldsIp,
           pc[r] \in Counted <=> q \in Counted,
           answer' \in [Requests -> Answers], windowCount' \in [Keys -> 0..RateLimit],
           totalAccepted' \in Nat, totalRejected' \in Nat
    PROVE  SInv'
<1>1. KeyOf[r] \in Keys
  BY SchedulerAssumption
<1>2. Types'
  BY DEF SInv, Types, Goto, slots
<1>3. GlobalCounts'
  BY <1>1, Moved DEF SInv, GlobalCounts, slots
<1>4. ASSUME NEW k \in Keys PROVE KeyCounts(k)'
  BY <1>4, Moved DEF SInv, KeyCounts, slots
<1>5. QED
  BY <1>2, <1>3, <1>4 DEF SInv

LEMMA ArriveStep ==
    ASSUME SInv, NEW r \in Requests, Arrive(r)
    PROVE  SInv'
<1>1. KeyOf[r] \in Keys
  BY SchedulerAssumption
<1>2. pc[r] = "arrive" /\ UNCHANGED <<slots, inflightByIP, currentInUse, totalAccepted, totalRejected>>
  BY DEF Arrive, telemetry
<1>3. windowCount' \in [Keys -> 0..RateLimit]
  BY <1>1, SchedulerAssumption DEF Arrive, SInv, Types
<1>4. answer' \in [Requests -> Answers]
  BY DEF Arrive, Say, SInv, Types, Answers
<1>5. PICK q \in {"waitIp", "done"} : Goto(r, q)
  BY DEF Arrive
<1>6. /\ q \in PCs
      /\ pc[r] \notin HoldsGlobal /\ pc[r] \notin HoldsIp /\ pc[r] \notin Counted
      /\ q \notin HoldsGlobal /\ q \notin HoldsIp /\ q \notin Counted
  BY <1>2, <1>5 DEF PCs, HoldsGlobal, HoldsIp, Counted
<1>7. QED
  BY <1>2, <1>3, <1>4, <1>5, <1>6, QuietStep DEF SInv, Types

LEMMA WindowEndsStep ==
    ASSUME SInv, NEW k \in Keys, WindowEnds(k)
    PROVE  SInv'
<1>1. UNCHANGED <<pc, answer, slots, telemetry>>
  BY DEF WindowEnds
<1>2. windowCount' \in [Keys -> 0..RateLimit]
  BY SchedulerAssumption DEF WindowEnds, SInv, Types
<1>3. QED
  BY <1>1, <1>2 DEF SInv, Types, GlobalCounts, KeyCounts, slots, telemetry

LEMMA GiveUpStep ==
    ASSUME SInv, NEW r \in Requests, GiveUpIp(r) \/ GiveUpGlobal(r)
    PROVE  SInv'
<1>1. UNCHANGED <<answer, windowCount, slots, telemetry>>
  BY DEF GiveUpIp, GiveUpGlobal
<1>2. CASE GiveUpIp(r)
  <2>1. pc[r] = "waitIp" /\ Goto(r, "reject") /\ "reject" \in PCs
    BY <1>2 DEF GiveUpIp, PCs
  <2>2. QED
    BY <1>1, <2>1, QuietStep DEF SInv, Types, telemetry, HoldsGlobal, HoldsIp, Counted
<1>3. CASE GiveUpGlobal(r)
  <2>1. pc[r] = "waitGlobal" /\ Goto(r, "dropIp") /\ "dropIp" \in PCs
    BY <1>3 DEF GiveUpGlobal, PCs
  <2>2. QED
    BY <1>1, <2>1, QuietStep DEF SInv, Types, telemetry, HoldsGlobal, HoldsIp, Counted
<1>4. QED
  BY <1>2, <1>3

LEMMA RejectStep ==
    ASSUME SInv, NEW r \in Requests, Reject(r)
    PROVE  SInv'
<1>1. /\ pc[r] = "reject" /\ Goto(r, "done") /\ "done" \in PCs
      /\ UNCHANGED <<windowCount, slots, inflightByIP, totalAccepted, currentInUse>>
      /\ totalRejected' = totalRejected + 1
  BY DEF Reject, PCs
<1>2. answer' \in [Requests -> Answers]
  BY DEF Reject, Say, SInv, Types, Answers
<1>3. QED
  BY <1>1, <1>2, QuietStep DEF SInv, Types, HoldsGlobal, HoldsIp, Counted

LEMMA AnswerStep ==
    ASSUME SInv, NEW r \in Requests, Answer(r)
    PROVE  SInv'
<1>1. /\ pc[r] = "running" /\ Goto(r, "release") /\ "release" \in PCs
      /\ UNCHANGED <<windowCount, slots, telemetry>>
  BY DEF Answer, PCs
<1>2. answer' \in [Requests -> Answers]
  BY DEF Answer, Say, SInv, Types, Answers
<1>3. QED
  BY <1>1, <1>2, QuietStep DEF SInv, Types, telemetry, HoldsGlobal, HoldsIp, Counted

-----------------------------------------------------------------------------
(* Steps on the per-IP channel. *)
LEMMA TakeIpStep ==
    ASSUME SInv, NEW r \in Requests, TakeIp(r)
    PROVE  SInv'
<1>1. /\ pc[r] = "waitIp" /\ Goto(r, "waitGlobal") /\ "waitGlobal" \in PCs
      /\ ipSlot[KeyOf[r]] < PerIPMax
      /\ ipSlot' = [ipSlot EXCEPT ![KeyOf[r]] = @ + 1]
      /\ UNCHANGED <<answer, windowCount, global, telemetry>>
      /\ KeyOf[r] \in Keys
  BY SchedulerAssumption DEF TakeIp, PCs
<1>2. /\ pc[r] \notin HoldsIp /\ "waitGlobal" \in HoldsIp
      /\ pc[r] \notin HoldsGlobal /\ "waitGlobal" \notin HoldsGlobal
      /\ pc[r] \notin Counted /\ "waitGlobal" \notin Counted
  BY <1>1 DEF HoldsGlobal, HoldsIp, Counted
<1>3. Types'
  BY <1>1, SchedulerAssumption DEF SInv, Types, Goto, telemetry
<1>4. GlobalCounts'
  BY <1>1, <1>2, Moved DEF SInv, GlobalCounts, telemetry
<1>5. ASSUME NEW k \in Keys PROVE KeyCounts(k)'
  <2>1. ipSlot'[k] = ipSlot[k] + (IF k = KeyOf[r] THEN 1 ELSE 0) /\ ipSlot[k] \in Nat
    BY <1>1, SchedulerAssumption DEF SInv, Types
  <2>2. QED
    BY <1>1, <1>2, <2>1, Moved DEF SInv, KeyCounts, telemetry
<1>6. QED
  BY <1>3, <1>4, <1>5 DEF SInv

(* <-ipSlot, on the way out of Acquire or in release. *)
LEMMA FreeIp ==
    ASSUME SInv, NEW r \in Requests, NEW q \in PCs, Goto(r, q),
           pc[r] \in HoldsIp, q \notin HoldsIp,
           pc[r] \notin HoldsGlobal, q \notin HoldsGlobal,
           pc[r] \in Counted <=> q \in Counted,
           ipSlot[KeyOf[r]] > 0,
           ipSlot' = [ipSlot EXCEPT ![KeyOf[r]] = @ - 1],
           UNCHANGED <<answer, windowCount, global, telemetry>>
    PROVE  SInv'
<1>1. KeyOf[r] \in Keys
  BY SchedulerAssumption
<1>2. Types'
  BY <1>1, SchedulerAssumption DEF SInv, Types, Goto, telemetry
<1>3. GlobalCounts'
  BY <1>1, Moved, ZenonT(30) DEF SInv, GlobalCounts, telemetry
<1>4. ASSUME NEW k \in Keys PROVE KeyCounts(k)'
  <2>1. ipSlot'[k] = ipSlot[k] - (IF k = KeyOf[r] THEN 1 ELSE 0) /\ ipSlot[k] \in Nat
    BY <1>1, SchedulerAssumption DEF SInv, Types
  <2>2. QED
    BY <1>1, <2>1, Moved DEF SInv, KeyCounts, telemetry
<1>5. QED
  BY <1>2, <1>3, <1>4 DEF SInv

LEMMA FreeIpSteps ==
    ASSUME SInv, NEW r \in Requests, DropIp(r) \/ ReleaseIp(r)
    PROVE  SInv'
<1>1. CASE DropIp(r)
  BY <1>1, FreeIp DEF DropIp, PCs, HoldsGlobal, HoldsIp, Counted
<1>2. CASE ReleaseIp(r)
  BY <1>2, FreeIp DEF ReleaseIp, PCs, HoldsGlobal, HoldsIp, Counted
<1>3. QED
  BY <1>1, <1>2

-----------------------------------------------------------------------------
(* Steps on the global channel. *)
LEMMA TakeGlobalStep ==
    ASSUME SInv, NEW r \in Requests, TakeGlobal(r)
    PROVE  SInv'
<1>1. /\ pc[r] = "waitGlobal" /\ Goto(r, "count") /\ "count" \in PCs
      /\ global < GlobalMax /\ global' = global + 1
      /\ UNCHANGED <<answer, windowCount, ipSlot, telemetry>>
      /\ KeyOf[r] \in Keys
  BY SchedulerAssumption DEF TakeGlobal, PCs
<1>2. /\ pc[r] \in HoldsIp /\ "count" \in HoldsIp
      /\ pc[r] \notin HoldsGlobal /\ "count" \in HoldsGlobal
      /\ pc[r] \notin Counted /\ "count" \notin Counted
  BY <1>1 DEF HoldsGlobal, HoldsIp, Counted
<1>3. Types'
  BY <1>1 DEF SInv, Types, Goto, telemetry
<1>4. GlobalCounts'
  <2>1. Number(pc', HoldsGlobal, Requests) = Number(pc, HoldsGlobal, Requests) + 1
    BY <1>1, <1>2, Moved
  <2>2. Number(pc', Counted, Requests) = Number(pc, Counted, Requests)
    BY <1>1, <1>2, Moved, ZenonT(30)
  <2>3. /\ global = Number(pc, HoldsGlobal, Requests) /\ global \in 0..GlobalMax
        /\ currentInUse = Number(pc, Counted, Requests)
    BY DEF SInv, GlobalCounts
  <2>4. global' \in 0..GlobalMax
    BY <1>1, <2>3, SchedulerAssumption
  <2>5. QED
    BY <1>1, <2>1, <2>2, <2>3, <2>4 DEF GlobalCounts, telemetry
<1>5. ASSUME NEW k \in Keys PROVE KeyCounts(k)'
  BY <1>1, <1>2, Moved DEF SInv, KeyCounts, telemetry
<1>6. QED
  BY <1>3, <1>4, <1>5 DEF SInv

LEMMA ReleaseGlobalStep ==
    ASSUME SInv, NEW r \in Requests, ReleaseGlobal(r)
    PROVE  SInv'
<1>1. /\ pc[r] = "release" /\ Goto(r, "releaseIp") /\ "releaseIp" \in PCs
      /\ global > 0 /\ global' = global - 1
      /\ UNCHANGED <<answer, windowCount, ipSlot, telemetry>>
      /\ KeyOf[r] \in Keys
  BY SchedulerAssumption DEF ReleaseGlobal, PCs
<1>2. /\ pc[r] \in HoldsIp /\ "releaseIp" \in HoldsIp
      /\ pc[r] \in HoldsGlobal /\ "releaseIp" \notin HoldsGlobal
      /\ pc[r] \in Counted /\ "releaseIp" \in Counted
  BY <1>1 DEF HoldsGlobal, HoldsIp, Counted
<1>3. Types'
  BY <1>1 DEF SInv, Types, Goto, telemetry
<1>4. GlobalCounts'
  <2>1. Number(pc', HoldsGlobal, Requests) = Number(pc, HoldsGlobal, Requests) - 1
    BY <1>1, <1>2, Moved
  <2>2. Number(pc', Counted, Requests) = Number(pc, Counted, Requests)
    <3>1. pc[r] \in Counted <=> "releaseIp" \in Counted
      BY <1>2
    <3>2. Goto(r, "releaseIp") /\ "releaseIp" \in PCs /\ KeyOf[r] \in Keys
      BY <1>1
    <3>3. QED
      BY <3>1, <3>2, Moved, ZenonT(30)
  <2>3. /\ global = Number(pc, HoldsGlobal, Requests) /\ global \in 0..GlobalMax
        /\ currentInUse = Number(pc, Counted, Requests)
    BY DEF SInv, GlobalCounts
  <2>4. global' \in 0..GlobalMax
    BY <1>1, <2>3, SchedulerAssumption
  <2>5. QED
    BY <1>1, <2>1, <2>2, <2>3, <2>4 DEF GlobalCounts, telemetry
<1>5. ASSUME NEW k \in Keys PROVE KeyCounts(k)'
  BY <1>1, <1>2, Moved DEF SInv, KeyCounts, telemetry
<1>6. QED
  BY <1>3, <1>4, <1>5 DEF SInv

-----------------------------------------------------------------------------
(* The two critical sections. *)
LEMMA CountStep ==
    ASSUME SInv, NEW r \in Requests, Count(r)
    PROVE  SInv'
<1>1. /\ pc[r] = "count" /\ Goto(r, "running") /\ "running" \in PCs
      /\ inflightByIP' = [inflightByIP EXCEPT ![KeyOf[r]] = @ + 1]
      /\ totalAccepted' = totalAccepted + 1 /\ currentInUse' = currentInUse + 1
      /\ UNCHANGED <<answer, windowCount, slots, totalRejected>>
      /\ KeyOf[r] \in Keys
  BY SchedulerAssumption DEF Count, PCs
<1>2. /\ pc[r] \in HoldsIp /\ "running" \in HoldsIp
      /\ pc[r] \in HoldsGlobal /\ "running" \in HoldsGlobal
      /\ pc[r] \notin Counted /\ "running" \in Counted
  BY <1>1 DEF HoldsGlobal, HoldsIp, Counted
<1>3. Types'
  BY <1>1 DEF SInv, Types, Goto, slots
<1>4. GlobalCounts'
  BY <1>1, <1>2, Moved, ZenonT(30) DEF SInv, GlobalCounts, slots
<1>5. ASSUME NEW k \in Keys PROVE KeyCounts(k)'
  <2>1. inflightByIP'[k] = inflightByIP[k] + (IF k = KeyOf[r] THEN 1 ELSE 0)
        /\ inflightByIP[k] \in Nat
    BY <1>1 DEF SInv, Types
  <2>2. QED
    BY <1>1, <1>2, <2>1, Moved DEF SInv, KeyCounts, slots
<1>6. QED
  BY <1>3, <1>4, <1>5 DEF SInv

LEMMA UncountStep ==
    ASSUME SInv, NEW r \in Requests, Uncount(r)
    PROVE  SInv'
<1>1. /\ pc[r] = "uncount" /\ Goto(r, "done") /\ "done" \in PCs
      /\ inflightByIP' = [inflightByIP EXCEPT ![KeyOf[r]] = @ - 1]
      /\ currentInUse' = currentInUse - 1
      /\ UNCHANGED <<answer, windowCount, slots, totalAccepted, totalRejected>>
      /\ KeyOf[r] \in Keys
  BY SchedulerAssumption DEF Uncount, PCs
<1>2. /\ pc[r] \notin HoldsIp /\ "done" \notin HoldsIp
      /\ pc[r] \notin HoldsGlobal /\ "done" \notin HoldsGlobal
      /\ pc[r] \in Counted /\ "done" \notin Counted
  BY <1>1 DEF HoldsGlobal, HoldsIp, Counted
<1>3. inflightByIP[KeyOf[r]] \in Nat /\ inflightByIP[KeyOf[r]] > 0
  BY <1>1, <1>2, Moved DEF SInv, KeyCounts
<1>4. Types'
  BY <1>1, <1>3 DEF SInv, Types, Goto, slots
<1>5. GlobalCounts'
  <2>1. Number(pc', HoldsGlobal, Requests) = Number(pc, HoldsGlobal, Requests)
    BY <1>1, <1>2, Moved
  <2>2. Number(pc', Counted, Requests) = Number(pc, Counted, Requests) - 1
    BY <1>1, <1>2, Moved
  <2>3. global = Number(pc, HoldsGlobal, Requests) /\ global \in 0..GlobalMax
        /\ currentInUse = Number(pc, Counted, Requests)
    BY DEF SInv, GlobalCounts
  <2>4. QED
    BY <1>1, <2>1, <2>2, <2>3 DEF GlobalCounts, slots
<1>6. ASSUME NEW k \in Keys PROVE KeyCounts(k)'
  <2>1. inflightByIP'[k] = inflightByIP[k] - (IF k = KeyOf[r] THEN 1 ELSE 0)
        /\ inflightByIP[k] \in Nat
    BY <1>1 DEF SInv, Types
  <2>2. QED
    BY <1>1, <1>2, <2>1, Moved DEF SInv, KeyCounts, slots
<1>7. QED
  BY <1>4, <1>5, <1>6 DEF SInv

-----------------------------------------------------------------------------
LEMMA InitSInv == Init => SInv
<1> SUFFICES ASSUME Init PROVE SInv
  OBVIOUS
<1>1. \A D \in SUBSET Requests :
        /\ Number(pc, HoldsGlobal, D) = 0
        /\ Number(pc, HoldsIp, D) = 0
        /\ Number(pc, Counted, D) = 0
  <2> SUFFICES ASSUME NEW D \in SUBSET Requests
               PROVE  /\ Number(pc, HoldsGlobal, D) = 0
                      /\ Number(pc, HoldsIp, D) = 0
                      /\ Number(pc, Counted, D) = 0
    OBVIOUS
  <2>1. /\ {r \in D : pc[r] \in HoldsGlobal} = {}
        /\ {r \in D : pc[r] \in HoldsIp} = {}
        /\ {r \in D : pc[r] \in Counted} = {}
    BY DEF Init, HoldsGlobal, HoldsIp, Counted
  <2>2. Cardinality({}) = 0
    BY FS_EmptySet
  <2>3. QED
    BY <2>1, <2>2 DEF Number
<1>2. Types
  BY SchedulerAssumption DEF Init, Types, PCs, Answers
<1>3. GlobalCounts
  <2>1. global = 0 /\ currentInUse = 0 /\ 0 \in 0..GlobalMax
    BY SchedulerAssumption DEF Init
  <2>2. QED
    BY <1>1, <2>1 DEF GlobalCounts
<1>4. ASSUME NEW k \in Keys PROVE KeyCounts(k)
  <2>1. ipSlot[k] = 0 /\ inflightByIP[k] = 0 /\ OfKey(k) \in SUBSET Requests
    BY DEF Init, OfKey
  <2>2. QED
    BY <1>1, <2>1 DEF KeyCounts
<1>5. QED
  BY <1>2, <1>3, <1>4 DEF SInv

LEMMA NextSInv == SInv /\ [Next]_vars => SInv'
<1> SUFFICES ASSUME SInv, [Next]_vars PROVE SInv'
  OBVIOUS
<1>1. ASSUME NEW r \in Requests, Progress(r) PROVE SInv'
  BY <1>1, ArriveStep, TakeIpStep, TakeGlobalStep, CountStep, AnswerStep,
     ReleaseGlobalStep, FreeIpSteps, UncountStep, RejectStep DEF Progress
<1>2. ASSUME NEW r \in Requests, GiveUpIp(r) \/ GiveUpGlobal(r) PROVE SInv'
  BY <1>2, GiveUpStep
<1>3. ASSUME NEW k \in Keys, WindowEnds(k) PROVE SInv'
  BY <1>3, WindowEndsStep
<1>4. CASE UNCHANGED vars
  BY <1>4 DEF vars, SInv, Types, GlobalCounts, KeyCounts, slots, telemetry
<1>5. QED
  BY <1>1, <1>2, <1>3, <1>4 DEF Next

LEMMA SpecSInv == Spec => []SInv
BY InitSInv, NextSInv, PTL DEF Spec

-----------------------------------------------------------------------------
(* The totals.  What becomes of a request: it is in once Acquire has counted it. *)
Fate == [r \in Requests |-> IF pc[r] \in Counted \/ answer[r] = "ok" THEN "in" ELSE "out"]

Ins == Number(Fate, {"in"}, Requests)
Busy == Number(answer, {"busy"}, Requests)

Unanswered == {"arrive", "waitIp", "waitGlobal", "count", "running", "dropIp", "reject"}

Told(r) ==
    /\ pc[r] \in Unanswered => answer[r] = "none"
    /\ pc[r] \in {"release", "releaseIp", "uncount"} => answer[r] = "ok"

Totals ==
    /\ \A r \in Requests : Told(r)
    /\ totalAccepted = Ins
    /\ totalRejected = Busy

\* The two counts after a step, from what it does to each request.
LEMMA CountsAfter ==
    ASSUME NEW r \in Requests
    PROVE  /\ (\A x \in Requests : Fate'[x] = Fate[x]) => Ins' = Ins
           /\ (\A x \in Requests : answer'[x] = "busy" <=> answer[x] = "busy") => Busy' = Busy
           /\ /\ Fate[r] = "out" /\ Fate'[r] = "in"
              /\ \A x \in Requests \ {r} : Fate'[x] = Fate[x]
              => Ins' = Ins + 1
           /\ /\ answer[r] # "busy" /\ answer'[r] = "busy"
              /\ \A x \in Requests \ {r} : answer'[x] = answer[x]
              => Busy' = Busy + 1
<1> DEFINE f == Fate
           g == Fate'
           a == answer
           b == answer'
           in == {"in"}
           busy == {"busy"}
<1>1. Ins = Number(f, in, Requests) /\ Ins' = Number(g, in, Requests)
  BY DEF Ins
<1>2. Busy = Number(a, busy, Requests) /\ Busy' = Number(b, busy, Requests)
  BY DEF Busy
<1>3. \A v : (v \in in <=> v = "in") /\ (v \in busy <=> v = "busy")
  OBVIOUS
<1>4. (\A x \in Requests : g[x] = f[x]) => Ins' = Ins
  <2> HIDE DEF f, g, in
  <2>1. QED
    BY <1>1, OneStays
<1>5. (\A x \in Requests : b[x] = "busy" <=> a[x] = "busy") => Busy' = Busy
  <2> HIDE DEF a, b, busy
  <2>1. QED
    BY <1>2, <1>3, OneStays
<1>6. f[r] = "out" /\ g[r] = "in" /\ (\A x \in Requests \ {r} : g[x] = f[x]) => Ins' = Ins + 1
  <2>1. "out" \notin in /\ "in" \in in
    OBVIOUS
  <2> HIDE DEF f, g, in
  <2>2. QED
    BY <1>1, <2>1, OneEnters, SchedulerAssumption
<1>7. a[r] # "busy" /\ b[r] = "busy" /\ (\A x \in Requests \ {r} : b[x] = a[x]) => Busy' = Busy + 1
  <2> HIDE DEF a, b, busy
  <2>1. QED
    BY <1>2, <1>3, OneEnters, SchedulerAssumption
<1>8. QED
  BY <1>4, <1>5, <1>6, <1>7

\* A step that counts nothing and lets no request in or out.
LEMMA TotalsStay ==
    ASSUME SInv, Totals, NEW r \in Requests, NEW q \in PCs, NEW a \in Answers, Goto(r, q),
           answer' = [answer EXCEPT ![r] = a],
           UNCHANGED <<totalAccepted, totalRejected>>,
           a = "busy" <=> answer[r] = "busy",
           (q \in Counted \/ a = "ok") <=> (pc[r] \in Counted \/ answer[r] = "ok"),
           q \in Unanswered => a = "none",
           q \in {"release", "releaseIp", "uncount"} => a = "ok"
    PROVE  Totals'
<1>1. /\ pc'[r] = q /\ answer'[r] = a
      /\ \A x \in Requests \ {r} : pc'[x] = pc[x] /\ answer'[x] = answer[x]
  BY DEF SInv, Types, Goto
<1>2. \A x \in Requests : Fate'[x] = Fate[x]
  BY <1>1 DEF Fate
<1>3. \A x \in Requests : answer'[x] = "busy" <=> answer[x] = "busy"
  BY <1>1
<1>4. Ins' = Ins /\ Busy' = Busy
  BY <1>2, <1>3, CountsAfter
<1>5. \A x \in Requests : Told(x)'
  BY <1>1 DEF Totals, Told, Unanswered
<1>6. QED
  BY <1>4, <1>5 DEF Totals

LEMMA CountTotals ==
    ASSUME SInv, Totals, NEW r \in Requests, Count(r)
    PROVE  Totals'
<1>1. /\ pc[r] = "count" /\ Goto(r, "running") /\ answer' = answer
      /\ totalAccepted' = totalAccepted + 1 /\ totalRejected' = totalRejected
      /\ answer[r] = "none"
  BY DEF Count, Totals, Told, Unanswered
<1>2. pc'[r] = "running" /\ \A x \in Requests \ {r} : pc'[x] = pc[x]
  BY <1>1 DEF SInv, Types, Goto
<1>3. /\ Fate[r] = "out" /\ Fate'[r] = "in"
      /\ \A x \in Requests \ {r} : Fate'[x] = Fate[x]
  BY <1>1, <1>2 DEF Fate, Counted
<1>4. Ins' = Ins + 1 /\ Busy' = Busy
  BY <1>1, <1>3, CountsAfter
<1>5. \A x \in Requests : Told(x)'
  BY <1>1, <1>2 DEF Totals, Told, Unanswered
<1>6. QED
  BY <1>1, <1>4, <1>5 DEF Totals

LEMMA RejectTotals ==
    ASSUME SInv, Totals, NEW r \in Requests, Reject(r)
    PROVE  Totals'
<1>1. /\ pc[r] = "reject" /\ Goto(r, "done") /\ answer' = [answer EXCEPT ![r] = "busy"]
      /\ totalRejected' = totalRejected + 1 /\ totalAccepted' = totalAccepted
      /\ answer[r] = "none"
  BY DEF Reject, Say, Totals, Told, Unanswered
<1>2. /\ pc'[r] = "done" /\ answer'[r] = "busy"
      /\ \A x \in Requests \ {r} : pc'[x] = pc[x] /\ answer'[x] = answer[x]
  BY <1>1 DEF SInv, Types, Goto
<1>3. \A x \in Requests : Fate'[x] = Fate[x]
  BY <1>1, <1>2 DEF Fate, Counted
<1>4. Ins' = Ins /\ Busy' = Busy + 1
  BY <1>1, <1>2, <1>3, CountsAfter
<1>5. \A x \in Requests : Told(x)'
  BY <1>2 DEF Totals, Told, Unanswered
<1>6. QED
  BY <1>1, <1>4, <1>5 DEF Totals

LEMMA ProgressTotals ==
    ASSUME SInv, Totals, NEW r \in Requests,
           Progress(r) \/ GiveUpIp(r) \/ GiveUpGlobal(r)
    PROVE  Totals'
<1>1. CASE Count(r)
  BY <1>1, CountTotals
<1>2. CASE Reject(r)
  BY <1>2, RejectTotals
<1>3. answer[r] \in Answers /\ answer = [answer EXCEPT ![r] = answer[r]]
  BY DEF SInv, Types
<1>4. CASE Arrive(r)
  <2>1. /\ pc[r] = "arrive" /\ answer[r] = "none" /\ UNCHANGED telemetry
        /\ \/ Goto(r, "waitIp") /\ UNCHANGED answer
           \/ \E a \in {"rate_limited", "refused"} :
                 Goto(r, "done") /\ answer' = [answer EXCEPT ![r] = a]
    BY <1>4 DEF Arrive, Say, Totals, Told, Unanswered
  <2>2. CASE Goto(r, "waitIp") /\ UNCHANGED answer
    BY <1>3, <2>1, <2>2, TotalsStay DEF PCs, Counted, telemetry
  <2>3. ASSUME NEW a \in {"rate_limited", "refused"}, Goto(r, "done"),
               answer' = [answer EXCEPT ![r] = a]
        PROVE  Totals'
    BY <2>1, <2>3, TotalsStay DEF PCs, Answers, Counted, Unanswered, telemetry
  <2>4. QED
    BY <2>1, <2>2, <2>3
<1>5. CASE Answer(r)
  <2>1. /\ pc[r] = "running" /\ answer[r] = "none" /\ UNCHANGED telemetry
        /\ Goto(r, "release") /\ answer' = [answer EXCEPT ![r] = "ok"]
    BY <1>5 DEF Answer, Say, Totals, Told, Unanswered
  <2>2. QED
    BY <2>1, TotalsStay DEF PCs, Answers, Counted, Unanswered, telemetry
<1>6. CASE Uncount(r)
  <2>1. /\ pc[r] = "uncount" /\ answer[r] = "ok" /\ UNCHANGED <<answer, totalAccepted, totalRejected>>
        /\ Goto(r, "done")
    BY <1>6 DEF Uncount, Totals, Told
  <2>2. QED
    BY <1>3, <2>1, TotalsStay DEF PCs, Counted, Unanswered
<1>7. CASE ReleaseGlobal(r) \/ ReleaseIp(r)
  <2>1. /\ answer[r] = "ok" /\ pc[r] \in Counted /\ UNCHANGED <<answer, totalAccepted, totalRejected>>
        /\ \E q \in {"releaseIp", "uncount"} : Goto(r, q)
    BY <1>7 DEF ReleaseGlobal, ReleaseIp, Totals, Told, Counted, telemetry
  <2>2. QED
    BY <1>3, <2>1, TotalsStay DEF PCs, Counted, Unanswered
<1>8. CASE TakeIp(r) \/ TakeGlobal(r) \/ DropIp(r) \/ GiveUpIp(r) \/ GiveUpGlobal(r)
  <2>1. /\ pc[r] \in {"waitIp", "waitGlobal", "dropIp"} /\ UNCHANGED <<answer, totalAccepted, totalRejected>>
        /\ \E q \in {"waitGlobal", "count", "reject", "dropIp"} : Goto(r, q)
    BY <1>8 DEF TakeIp, TakeGlobal, DropIp, GiveUpIp, GiveUpGlobal, telemetry
  <2>2. answer[r] = "none" /\ pc[r] \notin Counted
    BY <2>1 DEF Totals, Told, Unanswered, Counted
  <2>3. QED
    BY <1>3, <2>1, <2>2, TotalsStay DEF PCs, Counted, Unanswered
<1>9. QED
  BY <1>1, <1>2, <1>4, <1>5, <1>6, <1>7, <1>8 DEF Progress

LEMMA InitTotals == Init => Totals
<1> SUFFICES ASSUME Init PROVE Totals
  OBVIOUS
<1>1. /\ {r \in Requests : Fate[r] \in {"in"}} = {}
      /\ {r \in Requests : answer[r] \in {"busy"}} = {}
  BY DEF Init, Fate, Counted
<1>2. Cardinality({}) = 0
  BY FS_EmptySet
<1>3. QED
  BY <1>1, <1>2 DEF Init, Totals, Told, Ins, Busy, Number, Unanswered

LEMMA NextTotals == SInv /\ Totals /\ [Next]_vars => Totals'
<1> SUFFICES ASSUME SInv, Totals, [Next]_vars PROVE Totals'
  OBVIOUS
<1>1. CASE \E r \in Requests : Progress(r) \/ GiveUpIp(r) \/ GiveUpGlobal(r)
  BY <1>1, ProgressTotals
<1>2. CASE (\E k \in Keys : WindowEnds(k)) \/ UNCHANGED vars
  <2>1. UNCHANGED <<pc, answer, totalAccepted, totalRejected>>
    BY <1>2 DEF WindowEnds, vars, telemetry
  <2>2. QED
    BY <2>1 DEF Totals, Told, Ins, Busy, Fate
<1>3. QED
  BY <1>1, <1>2 DEF Next

-----------------------------------------------------------------------------
(* The theorems. *)

\* Every variable keeps its type: no channel overfills and no counter of the
\* scheduler, the load shown by /health included, goes negative.
THEOREM SchedulerTypeCorrect == Spec => []TypeOK
<1>1. SInv => TypeOK
  <2> SUFFICES ASSUME SInv PROVE TypeOK
    OBVIOUS
  <2>1. currentInUse \in Nat
    <3>1. IsFiniteSet({r \in Requests : pc[r] \in Counted})
      BY FS_Subset, SchedulerAssumption
    <3>2. QED
      BY <3>1, FS_CardinalityType DEF SInv, GlobalCounts, Number
  <2>2. QED
    BY <2>1 DEF SInv, Types, GlobalCounts, TypeOK
<1>2. QED
  BY <1>1, SpecSInv, PTL

\* Every slot in a channel is owned by one request that will still free it:
\* time-outs, cancellations and releases leak none, whatever their interleaving.
THEOREM SchedulerSlotsAreExact == Spec => []SlotsAreExact
<1>1. SInv => SlotsAreExact
  <2> SUFFICES ASSUME SInv PROVE SlotsAreExact
    OBVIOUS
  <2>1. At(HoldsGlobal) = {r \in Requests : pc[r] \in HoldsGlobal}
    BY DEF At
  <2>2. \A k \in Keys : AtKey(HoldsIp, k) = {r \in OfKey(k) : pc[r] \in HoldsIp}
    BY DEF AtKey, OfKey
  <2>3. QED
    BY <2>1, <2>2 DEF SInv, GlobalCounts, KeyCounts, Number, SlotsAreExact
<1>2. QED
  BY <1>1, SpecSInv, PTL

\* What is held and what /health reports is exact: the load counts the requests between the two
\* critical sections, and every Acquire that ended is counted once, accepted or rejected.
THEOREM SchedulerAdmissionIsExact == Spec => []AdmissionIsExact
<1>1. Spec => []Totals
  BY SpecSInv, InitTotals, NextTotals, PTL DEF Spec
<1>2. SInv /\ Totals => SnapshotIsExact
  <2> SUFFICES ASSUME SInv, Totals PROVE SnapshotIsExact
    OBVIOUS
  <2>1. At(Counted) = {r \in Requests : pc[r] \in Counted}
    BY DEF At
  <2>2. \A k \in Keys : AtKey(Counted, k) = {r \in OfKey(k) : pc[r] \in Counted}
    BY DEF AtKey, OfKey
  <2>3. /\ {r \in Requests : pc[r] \in Counted \/ answer[r] = "ok"} = {r \in Requests : Fate[r] \in {"in"}}
        /\ {r \in Requests : answer[r] = "busy"} = {r \in Requests : answer[r] \in {"busy"}}
    BY DEF Fate
  <2>4. QED
    BY <2>1, <2>2, <2>3 DEF SInv, GlobalCounts, KeyCounts, Totals, Ins, Busy, Number, SnapshotIsExact
<1>3. QED
  BY <1>1, <1>2, SpecSInv, SchedulerSlotsAreExact, PTL DEF AdmissionIsExact

\* Never more than GlobalMax executions in all, nor PerIPMax of one key.
THEOREM SchedulerCapsExecutions == Spec => []ExecutionsAreCapped
<1>1. SInv => ExecutionsAreCapped
  <2> SUFFICES ASSUME SInv PROVE ExecutionsAreCapped
    OBVIOUS
  <2>1. Cardinality(At({"running"})) <= GlobalMax
    <3> DEFINE S == {r \in Requests : pc[r] \in HoldsGlobal}
    <3>1. IsFiniteSet(S) /\ At({"running"}) \subseteq S
      BY FS_Subset, SchedulerAssumption DEF At, HoldsGlobal
    <3>2. /\ Cardinality(At({"running"})) <= Cardinality(S)
          /\ Cardinality(At({"running"})) \in Nat
      BY <3>1, FS_Subset, FS_CardinalityType
    <3>3. Cardinality(S) \in 0..GlobalMax
      BY DEF SInv, GlobalCounts, Number
    <3>4. QED
      BY <3>2, <3>3, SchedulerAssumption
  <2>2. ASSUME NEW k \in Keys PROVE Cardinality(AtKey({"running"}, k)) <= PerIPMax
    <3> DEFINE S == {r \in OfKey(k) : pc[r] \in HoldsIp}
    <3>1. IsFiniteSet(S) /\ AtKey({"running"}, k) \subseteq S
      BY FS_Subset, SchedulerAssumption DEF AtKey, OfKey, HoldsIp
    <3>2. /\ Cardinality(AtKey({"running"}, k)) <= Cardinality(S)
          /\ Cardinality(AtKey({"running"}, k)) \in Nat
      BY <3>1, FS_Subset, FS_CardinalityType
    <3>3. Cardinality(S) \in 0..PerIPMax
      BY DEF SInv, Types, KeyCounts, Number
    <3>4. QED
      BY <3>2, <3>3, SchedulerAssumption
  <2>3. QED
    BY <2>1, <2>2 DEF ExecutionsAreCapped
<1>2. QED
  BY <1>1, SpecSInv, PTL

-----------------------------------------------------------------------------
(* The execution of one request. *)

Langs == Exec!Wrapped \cup {"compiled", "interpreted"}
Errors == Exec!Texts \cup {"empty"}
Whys == {"ended", "deadline", "killed", "runner", "flood", "compiler", "fault"}
Waiting ==
    [pc : {"idle", "compile", "run", "compile_held", "run_held"}, at : 0..TimeLimit,
     start : 0..TimeLimit, cpu : 0..TimeLimit]
Ended ==
    [pc : {"done"}, passed : BOOLEAN, error : Errors, why : Whys, right : BOOLEAN,
     text : Exec!Texts \cup {"empty"}, at : 0..TimeLimit]

SetupTyped ==
    /\ lang \in Langs /\ profile \in Profiles /\ jailed \in BOOLEAN /\ count \in 0..(MaxTests + 1)
    /\ phase \in {"received", "running", "answered", "stored"}

\* A program has used no more processor time than time, and its output is held only after
\* the deadline.
Timely(r) ==
    r.pc # "done" =>
        /\ r.cpu <= r.at
        /\ r.pc \in {"compile_held", "run_held"} => r.at = TimeLimit

TestsTyped ==
    /\ test \in [Exec!Tests -> Waiting \cup Ended]
    /\ \A t \in Exec!Tests : Timely(test[t])

\* What the result of a test case says of its program.
ResultSound(r) ==
    /\ r.passed =>
          /\ r.error = "empty" /\ r.right /\ r.why \in {"ended", "killed"}
          /\ lang \notin Exec!Wrapped => r.why = "ended" /\ r.text = "empty"
    /\ r.error = "time_limit" =>
          \/ r.why = "deadline" /\ r.at = TimeLimit
          \/ r.why = "runner" /\ r.at >= RunnerTimeout
          \/ r.why = "flood" /\ lang = "javascript"
          \/ r.text = "time_limit" /\ lang \in Exec!Wrapped /\ r.why \in {"ended", "killed"}
    /\ r.error \in Exec!Texts \ {"other", "time_limit"} => r.text = r.error

ResultsSound == \A t \in Exec!Tests : test[t].pc = "done" => ResultSound(test[t])

\* The files are of test cases under way, or were left by a runner that was killed.
FilesSound ==
    /\ files \subseteq Exec!Tests \X {"source", "wrapper"}
    /\ \A f \in files :
          /\ test[f[1]].pc # "idle"
          /\ test[f[1]].pc = "done" => f[2] = "wrapper" /\ test[f[1]].why \in {"deadline", "killed"}

OrphansSound ==
    /\ orphans \subseteq Exec!Tests
    /\ \A t \in orphans :
          test[t].pc = "done" /\ ~jailed /\ test[t].why # "fault"

Untouched == \A t \in Exec!Tests : test[t].pc = "idle"
AllDone == count \in 1..MaxTests /\ \A t \in Exec!Tests : test[t].pc = "done"

\* The answer is a refusal, or what the first failure says.
Answered ==
    \/ reply \in {"HTTP_400", "security_error"} /\ Untouched
    \/ /\ AllDone
       /\ Exec!Failing = {} => reply = "accepted"
       /\ Exec!Failing # {} => \E t \in Exec!Failing : reply = Exec!JudgeStatus(test[t].error)

Phases ==
    /\ phase = "received" => Untouched
    /\ phase = "running" => count \in 1..MaxTests
    /\ phase \in {"answered", "stored"} => Answered
    /\ phase # "stored" => row = "judging"

\* The inductive invariant of the execution.
XInv ==
    /\ SetupTyped /\ TestsTyped /\ ResultsSound /\ FilesSound /\ OrphansSound /\ Phases
    /\ Exec!AcceptedIsRight /\ Exec!TimeOutsAreReal /\ Exec!TextsAreQuoted

-----------------------------------------------------------------------------
LEMMA ExecutionInit == Exec!ExecutionConstants /\ Exec!Init => XInv
<1> SUFFICES ASSUME Exec!ExecutionConstants, Exec!Init PROVE XInv
  OBVIOUS
<1>1. Exec!Idle \in Waiting /\ Exec!Idle.pc = "idle" /\ Exec!Idle.cpu <= Exec!Idle.at
  BY DEF Exec!Idle, Waiting, Exec!ExecutionConstants
<1>2. test \in [Exec!Tests -> Waiting] /\ Untouched /\ \A t \in Exec!Tests : test[t] = Exec!Idle
  BY <1>1 DEF Exec!Init, Untouched
<1>3. SetupTyped
  BY DEF Exec!Init, SetupTyped, Langs
<1>4. TestsTyped /\ ResultsSound
  BY <1>1, <1>2 DEF TestsTyped, Timely, ResultsSound
<1>5. FilesSound /\ OrphansSound
  BY DEF Exec!Init, FilesSound, OrphansSound
<1>6. Phases
  BY <1>2 DEF Exec!Init, Phases
<1>7. Exec!AcceptedIsRight /\ Exec!TimeOutsAreReal /\ Exec!TextsAreQuoted
  BY DEF Exec!Init, Exec!AcceptedIsRight, Exec!TimeOutsAreReal, Exec!TextsAreQuoted
<1>8. QED
  BY <1>3, <1>4, <1>5, <1>6, <1>7 DEF XInv

\* As long as nothing is stored the verdict claims nothing.
LEMMA NothingStored ==
    ASSUME row = "judging"
    PROVE  Exec!AcceptedIsRight /\ Exec!TimeOutsAreReal /\ Exec!TextsAreQuoted
BY DEF Exec!AcceptedIsRight, Exec!TimeOutsAreReal, Exec!TextsAreQuoted

\* The record of a test case that ends.
LEMMA ResultTyped ==
    ASSUME Exec!ExecutionConstants, XInv, NEW t \in Exec!Tests,
           NEW passed \in BOOLEAN, NEW error \in Errors, NEW why \in Whys, NEW right \in BOOLEAN,
           NEW text \in Exec!Texts \cup {"empty"}
    PROVE  Exec!Result(t, passed, error, why, right, text) \in Ended
<1>1. test[t].at \in 0..TimeLimit
  BY DEF XInv, TestsTyped, Waiting, Ended
<1>2. TimeLimit \in Nat
  BY DEF Exec!ExecutionConstants
<1>3. QED
  BY <1>1, <1>2 DEF Exec!Result, Ended

\* A test case ends: its record is sound, and so is what it leaves.
LEMMA DoneKeeps ==
    ASSUME Exec!ExecutionConstants, XInv, phase = "running", NEW t \in Exec!Tests,
           test[t].pc # "done",
           NEW r \in Ended, ResultSound(r), NEW left, NEW stray \in BOOLEAN, Exec!Done(t, r, left, stray),
           left \subseteq {<<t, "wrapper">>}, left # {} => r.why \in {"deadline", "killed"},
           stray => ~jailed /\ r.why # "fault"
    PROVE  XInv'
<1>1. /\ test' = [test EXCEPT ![t] = r]
      /\ files' = {f \in files : f[1] # t} \cup left
      /\ orphans' = orphans \/ (stray /\ orphans' = orphans \cup {t})
      /\ lang' = lang /\ profile' = profile /\ jailed' = jailed /\ count' = count
      /\ phase' = phase /\ reply' = reply /\ row' = row
  BY DEF Exec!Done, Exec!setup
<1>2. test \in [Exec!Tests -> Waiting \cup Ended]
  BY DEF XInv, TestsTyped
<1>3. Exec!Tests' = Exec!Tests
  BY <1>1 DEF Exec!Tests
<1>4. test' \in [Exec!Tests -> Waiting \cup Ended] /\ test'[t] = r
      /\ \A u \in Exec!Tests \ {t} : test'[u] = test[u]
  BY <1>1, <1>2
<1>5. r.pc = "done"
  BY DEF Ended
<1>6. SetupTyped'
  BY <1>1 DEF XInv, SetupTyped
<1>7. TestsTyped'
  BY <1>3, <1>4, <1>5 DEF XInv, TestsTyped, Timely
<1>8. ResultsSound'
  BY <1>1, <1>3, <1>4 DEF XInv, ResultsSound, ResultSound
<1>9. FilesSound'
  <2>1. files' \subseteq Exec!Tests \X {"source", "wrapper"}
    BY <1>1 DEF XInv, FilesSound
  <2>2. ASSUME NEW f \in files'
        PROVE  /\ test'[f[1]].pc # "idle"
               /\ test'[f[1]].pc = "done" => f[2] = "wrapper" /\ test'[f[1]].why \in {"deadline", "killed"}
    <3>1. CASE f \in files /\ f[1] # t
      BY <1>4, <3>1 DEF XInv, FilesSound
    <3>2. CASE f = <<t, "wrapper">> /\ left # {}
      BY <1>4, <1>5, <3>2
    <3>3. QED
      BY <1>1, <2>2, <3>1, <3>2
  <2>3. QED
    BY <1>3, <2>1, <2>2 DEF FilesSound
<1>10. OrphansSound'
  BY <1>1, <1>3, <1>4, <1>5 DEF XInv, OrphansSound
<1>11. Phases'
  BY <1>1 DEF XInv, Phases
<1>12. row' = "judging"
  BY <1>1 DEF XInv, Phases
<1>13. (Exec!AcceptedIsRight /\ Exec!TimeOutsAreReal /\ Exec!TextsAreQuoted)'
  BY <1>12 DEF Exec!AcceptedIsRight, Exec!TimeOutsAreReal, Exec!TextsAreQuoted
<1>14. QED
  BY <1>6, <1>7, <1>8, <1>9, <1>10, <1>11, <1>13 DEF XInv

\* A test case under way belongs to a request that is running.
LEMMA UnderWay ==
    ASSUME XInv, NEW t \in Exec!Tests, test[t].pc \in {"compile", "run", "compile_held", "run_held"}
    PROVE  phase = "running"
BY DEF XInv, SetupTyped, Phases, Answered, Untouched, AllDone

\* A step that begins or goes on with test cases, and touches nothing of those that are done.
LEMMA OnTheWay ==
    ASSUME Exec!ExecutionConstants, XInv, phase = "running",
           UNCHANGED <<Exec!setup, phase, reply, orphans, row>>,
           test' \in [Exec!Tests -> Waiting \cup Ended],
           \A t \in Exec!Tests :
              /\ test[t].pc = "done" <=> test'[t].pc = "done"
              /\ test[t].pc = "done" => test'[t] = test[t]
              /\ Timely(test'[t]),
           files' \subseteq Exec!Tests \X {"source", "wrapper"},
           \A f \in files' : test'[f[1]].pc # "idle" /\ (f \in files \/ test'[f[1]].pc # "done")
    PROVE  XInv'
<1>1. /\ lang' = lang /\ profile' = profile /\ jailed' = jailed /\ count' = count
      /\ phase' = phase /\ reply' = reply /\ row' = row /\ orphans' = orphans
  BY DEF Exec!setup
<1>2. Exec!Tests' = Exec!Tests
  BY <1>1 DEF Exec!Tests
<1>3. SetupTyped'
  BY <1>1 DEF XInv, SetupTyped
<1>4. TestsTyped'
  BY <1>2 DEF TestsTyped
<1>5. ResultsSound'
  BY <1>1, <1>2 DEF XInv, ResultsSound, ResultSound
<1>6. FilesSound'
  <2>1. ASSUME NEW f \in files', test'[f[1]].pc = "done"
        PROVE  f[2] = "wrapper" /\ test'[f[1]].why \in {"deadline", "killed"}
    <3>1. f \in files /\ f[1] \in Exec!Tests
      BY <2>1
    <3>2. test'[f[1]] = test[f[1]]
      BY <2>1, <3>1
    <3>3. QED
      BY <2>1, <3>1, <3>2 DEF XInv, FilesSound
  <2>2. QED
    BY <1>2, <2>1 DEF FilesSound
<1>7. OrphansSound'
  BY <1>1, <1>2 DEF XInv, OrphansSound
<1>8. Phases'
  BY <1>1 DEF XInv, Phases
<1>9. row' = "judging"
  BY <1>1 DEF XInv, Phases
<1>10. (Exec!AcceptedIsRight /\ Exec!TimeOutsAreReal /\ Exec!TextsAreQuoted)'
  BY <1>9 DEF Exec!AcceptedIsRight, Exec!TimeOutsAreReal, Exec!TextsAreQuoted
<1>11. QED
  BY <1>3, <1>4, <1>5, <1>6, <1>7, <1>8, <1>10 DEF XInv

LEMMA ExecutionCheck ==
    ASSUME Exec!ExecutionConstants, XInv, Exec!Check
    PROVE  XInv'
<1>1. /\ phase = "received" /\ test' = test /\ files' = files /\ orphans' = orphans /\ row' = row
      /\ lang' = lang /\ profile' = profile /\ jailed' = jailed /\ count' = count
  BY DEF Exec!Check, Exec!setup
<1>2. Untouched /\ row = "judging"
  BY <1>1 DEF XInv, Phases
<1>3. Untouched' /\ Exec!Tests' = Exec!Tests
  BY <1>1, <1>2 DEF Untouched, Exec!Tests
<1>4. SetupTyped'
  BY <1>1 DEF XInv, SetupTyped, Exec!Check
<1>5. TestsTyped' /\ ResultsSound'
  BY <1>1, <1>3 DEF XInv, TestsTyped, ResultsSound, ResultSound
<1>6. FilesSound' /\ OrphansSound'
  BY <1>1, <1>3 DEF XInv, FilesSound, OrphansSound
<1>7. Phases'
  BY <1>1, <1>2, <1>3 DEF Exec!Check, Phases, Answered
<1>8. (Exec!AcceptedIsRight /\ Exec!TimeOutsAreReal /\ Exec!TextsAreQuoted)'
  BY <1>1, <1>2 DEF Exec!AcceptedIsRight, Exec!TimeOutsAreReal, Exec!TextsAreQuoted
<1>9. QED
  BY <1>4, <1>5, <1>6, <1>7, <1>8 DEF XInv

\* The verdict of the judge, by the error of the first failure.
LEMMA Verdicts ==
    /\ \A e \in Errors : Exec!JudgeStatus(e) \in {"time_limit_exceeded", "compile_error",
          "memory_limit_exceeded", "runtime_error", "wrong_answer"}
    /\ \A e \in Errors : Exec!JudgeStatus(e) = "time_limit_exceeded" <=> e = "time_limit"
    /\ \A e \in Errors : Exec!JudgeStatus(e) = "compile_error" <=> e \in {"syntax", "expected"}
    /\ \A e \in Errors : Exec!JudgeStatus(e) = "memory_limit_exceeded" <=> e \in {"memory", "oom"}
BY DEF Exec!JudgeStatus, Errors, Exec!Texts

LEMMA ExecutionAnswer ==
    ASSUME Exec!ExecutionConstants, XInv, Exec!Answer
    PROVE  XInv'
<1>1. /\ phase = "running" /\ test' = test /\ files' = files /\ orphans' = orphans /\ row' = row
      /\ lang' = lang /\ profile' = profile /\ jailed' = jailed /\ count' = count
      /\ phase' = "answered" /\ \A t \in Exec!Tests : test[t].pc = "done"
  BY DEF Exec!Answer, Exec!setup
<1>2. row = "judging" /\ count \in 1..MaxTests
  BY <1>1 DEF XInv, Phases
<1>3. Exec!Tests' = Exec!Tests
  BY <1>1 DEF Exec!Tests
<1>4. SetupTyped'
  BY <1>1 DEF XInv, SetupTyped
<1>5. TestsTyped' /\ ResultsSound'
  BY <1>1, <1>3 DEF XInv, TestsTyped, ResultsSound, ResultSound
<1>6. FilesSound' /\ OrphansSound'
  BY <1>1, <1>3 DEF XInv, FilesSound, OrphansSound
<1>7. AllDone'
  BY <1>1, <1>2, <1>3 DEF AllDone
<1>8. Exec!Failing' = Exec!Failing
  BY <1>1, <1>3 DEF Exec!Failing
<1>9. /\ Exec!Failing = {} => reply' = "accepted"
      /\ Exec!Failing # {} => \E t \in Exec!Failing : reply' = Exec!JudgeStatus(test[t].error)
  BY DEF Exec!Answer
<1>10. Answered'
  BY <1>1, <1>7, <1>8, <1>9 DEF Answered, Exec!JudgeStatus
<1>11. Phases'
  BY <1>1, <1>2, <1>10 DEF Phases
<1>12. (Exec!AcceptedIsRight /\ Exec!TimeOutsAreReal /\ Exec!TextsAreQuoted)'
  BY <1>1, <1>2 DEF Exec!AcceptedIsRight, Exec!TimeOutsAreReal, Exec!TextsAreQuoted
<1>13. QED
  BY <1>4, <1>5, <1>6, <1>11, <1>12 DEF XInv

\* Of some test cases there is a first one.
LEMMA FirstTest ==
    ASSUME XInv, Exec!ExecutionConstants, NEW S \in SUBSET Exec!Tests, S # {}
    PROVE  \E t \in S : \A u \in S : t <= u
<1>1. count \in Nat
  BY DEF XInv, SetupTyped, Exec!ExecutionConstants
<1>2. IsFiniteSet(Exec!Tests)
  BY <1>1, FS_Interval DEF Exec!Tests
<1>3. IsFiniteSet(S)
  BY <1>2, FS_Subset
<1> DEFINE same == [t \in Exec!Tests |-> t]
<1>4. same \in [Exec!Tests -> Int]
  BY <1>1 DEF Exec!Tests
<1>5. \E m \in S : \A u \in S : same[m] <= same[u]
  <2> HIDE DEF same
  <2>1. QED
    BY <1>3, <1>4, HasLeast
<1>6. QED
  BY <1>5

Failed == {t \in Exec!Tests : ~test[t].passed}
Wrong == {t \in Exec!Tests : test[t].error # "empty"}
FirstError == test[CHOOSE t \in Wrong : \A u \in Wrong : t <= u].error

\* The first error is that of a first test case with one.
LEMMA FirstErrorIs ==
    ASSUME XInv, Exec!ExecutionConstants, Wrong # {}
    PROVE  \E t \in Wrong : (\A u \in Wrong : t <= u) /\ FirstError = test[t].error
<1>1. \E t \in Wrong : \A u \in Wrong : t <= u
  BY FirstTest DEF Wrong
<1> DEFINE f == CHOOSE t \in Wrong : \A u \in Wrong : t <= u
<1>2. f \in Wrong /\ \A u \in Wrong : f <= u
  BY <1>1
<1>3. FirstError = test[f].error
  BY DEF FirstError
<1> HIDE DEF f
<1>4. QED
  BY <1>2, <1>3

\* What the worker makes of the results, by their first error.
LEMMA WorkersVerdict ==
    Exec!WorkerStatus =
        IF Failed = {} THEN "accepted"
        ELSE IF Wrong = {} THEN "wrong_answer"
        ELSE IF FirstError = "syntax" THEN "compile_error"
        ELSE IF FirstError = "memory" THEN "memory_limit_exceeded" ELSE "runtime_error"
BY Zenon DEF Exec!WorkerStatus, Failed, Wrong, FirstError

\* What is stored of a request whose test cases are done.
LEMMA StoredVerdict ==
    ASSUME XInv, Exec!ExecutionConstants, AllDone,
           Exec!Failing = {} => reply = "accepted",
           Exec!Failing # {} => \E t \in Exec!Failing : reply = Exec!JudgeStatus(test[t].error),
           row' = IF reply = "HTTP_400" THEN "runtime_error"
                  ELSE IF reply \in Exec!Trusted THEN reply ELSE Exec!WorkerStatus
    PROVE  /\ row' = "accepted" => Failed = {}
           /\ row' = "time_limit_exceeded" => \A t \in Exec!Failing : test[t].error = "time_limit"
           /\ row' = "compile_error" =>
                 \/ \E t \in Exec!Failing : test[t].error \in {"syntax", "expected"}
                 \/ \E t \in Exec!Tests : test[t].error = "syntax" /\ \A u \in Exec!Failing : test[u].error = "empty"
           /\ row' = "memory_limit_exceeded" =>
                 \/ \E t \in Exec!Failing : test[t].error \in {"memory", "oom"}
                 \/ \E t \in Exec!Tests : test[t].error = "memory" /\ \A u \in Exec!Failing : test[u].error = "empty"
<1>1. \A t \in Exec!Tests : test[t] \in Ended /\ ResultSound(test[t])
  BY DEF XInv, TestsTyped, ResultsSound, AllDone, Waiting
<1>2. \A t \in Exec!Tests : test[t].error \in Errors
  BY <1>1 DEF Ended
<1>3. \A t \in Exec!Tests : test[t].passed => test[t].error = "empty"
  BY <1>1 DEF ResultSound
<1>4. count \in Nat
  BY DEF XInv, SetupTyped, Exec!ExecutionConstants
<1>5. Exec!Failing = {t \in Failed : \A u \in Failed : t <= u}
  BY DEF Exec!Failing, Failed
<1>6. Failed \subseteq Exec!Tests /\ Wrong \subseteq Failed
  BY <1>3 DEF Failed, Wrong
<1>7. CASE Failed = {}
  <2>1. reply = "accepted"
    BY <1>5, <1>7
  <2>2. Exec!WorkerStatus = "accepted"
    BY <1>7, WorkersVerdict
  <2>3. row' = "accepted"
    BY <2>1, <2>2 DEF Exec!Trusted
  <2>4. QED
    BY <1>7, <2>3
<1>8. CASE Failed # {}
  <2>1. PICK f \in Failed : \A u \in Failed : f <= u
    BY <1>6, <1>8, FirstTest
  <2>2. Exec!Failing = {f}
    <3>1. \A u \in Failed : u \in Int
      BY <1>4, <1>6 DEF Exec!Tests
    <3>2. ASSUME NEW u \in Exec!Failing PROVE u = f
      <4>1. u \in Failed /\ u <= f
        BY <1>5
      <4>2. QED
        BY <2>1, <3>1, <4>1
    <3>3. f \in Exec!Failing
      BY <1>5, <2>1
    <3>4. QED
      BY <3>2, <3>3
  <2>3. reply = Exec!JudgeStatus(test[f].error) /\ test[f].error \in Errors /\ f \in Exec!Tests
    BY <1>2, <1>6, <2>1, <2>2
  <2>4. CASE test[f].error \in Errors \ {"other", "empty"}
    <3>1. row' = reply
      BY <2>3, <2>4 DEF Exec!Trusted, Exec!JudgeStatus, Errors, Exec!Texts
    <3>2. reply # "accepted"
      BY <2>3, Verdicts
    <3>3. QED
      BY <2>2, <2>3, <3>1, <3>2, Verdicts
  <2>5. CASE test[f].error = "other"
    <3>1. f \in Wrong
      BY <2>3, <2>5 DEF Wrong
    <3>2. PICK w \in Wrong : (\A u \in Wrong : w <= u) /\ FirstError = test[w].error
      BY <3>1, FirstErrorIs
    <3>3. w = f
      BY <1>4, <1>6, <2>1, <3>1, <3>2 DEF Exec!Tests
    <3>4. Exec!WorkerStatus = "runtime_error"
      BY <1>8, <2>5, <3>1, <3>2, <3>3, WorkersVerdict
    <3>5. row' = "runtime_error"
      BY <2>3, <2>5, <3>4 DEF Exec!JudgeStatus, Exec!Trusted
    <3>6. QED
      BY <3>5
  <2>6. CASE test[f].error = "empty"
    <3>1. row' = Exec!WorkerStatus
      BY <2>3, <2>6 DEF Exec!JudgeStatus, Exec!Trusted
    <3>2. Exec!WorkerStatus # "accepted" /\ Exec!WorkerStatus # "time_limit_exceeded"
      BY <1>8, WorkersVerdict
    <3>3. Exec!WorkerStatus = "compile_error" => Wrong # {} /\ FirstError = "syntax"
      BY <1>8, WorkersVerdict
    <3>4. Exec!WorkerStatus = "memory_limit_exceeded" => Wrong # {} /\ FirstError = "memory"
      BY <1>8, WorkersVerdict
    <3>5. Wrong # {} => \E w \in Exec!Tests : test[w].error = FirstError
      BY <1>6, FirstErrorIs
    <3>6. QED
      BY <2>2, <2>6, <3>1, <3>2, <3>3, <3>4, <3>5
  <2>7. QED
    BY <2>3, <2>4, <2>5, <2>6
<1>9. QED
  BY <1>7, <1>8

LEMMA ExecutionStore ==
    ASSUME Exec!ExecutionConstants, XInv, Exec!Store
    PROVE  XInv'
<1>1. /\ phase = "answered" /\ test' = test /\ files' = files /\ orphans' = orphans /\ reply' = reply
      /\ lang' = lang /\ profile' = profile /\ jailed' = jailed /\ count' = count
      /\ phase' = "stored"
      /\ row' = IF reply = "HTTP_400" THEN "runtime_error"
                ELSE IF reply \in Exec!Trusted THEN reply ELSE Exec!WorkerStatus
  BY DEF Exec!Store, Exec!setup
<1>2. Answered
  BY <1>1 DEF XInv, Phases
<1>3. Exec!Tests' = Exec!Tests
  BY <1>1 DEF Exec!Tests
<1>4. SetupTyped'
  BY <1>1 DEF XInv, SetupTyped
<1>5. TestsTyped' /\ ResultsSound'
  BY <1>1, <1>3 DEF XInv, TestsTyped, ResultsSound, ResultSound
<1>6. FilesSound' /\ OrphansSound'
  BY <1>1, <1>3 DEF XInv, FilesSound, OrphansSound
<1>7. Exec!Failing' = Exec!Failing
  BY <1>1, <1>3 DEF Exec!Failing
<1>8. Answered'
  BY <1>1, <1>2, <1>3, <1>7 DEF Answered, Untouched, AllDone, Exec!JudgeStatus
<1>9. Phases'
  BY <1>1, <1>8 DEF Phases
<1>10. CASE reply \in {"HTTP_400", "security_error"}
  <2>1. row' \in {"runtime_error", "security_error"}
    BY <1>1, <1>10 DEF Exec!Trusted
  <2>2. (Exec!AcceptedIsRight /\ Exec!TimeOutsAreReal /\ Exec!TextsAreQuoted)'
    BY <2>1 DEF Exec!AcceptedIsRight, Exec!TimeOutsAreReal, Exec!TextsAreQuoted
  <2>3. QED
    BY <1>4, <1>5, <1>6, <1>9, <2>2 DEF XInv
<1>11. CASE reply \notin {"HTTP_400", "security_error"}
  <2>1. /\ AllDone
        /\ Exec!Failing = {} => reply = "accepted"
        /\ Exec!Failing # {} => \E t \in Exec!Failing : reply = Exec!JudgeStatus(test[t].error)
    BY <1>2, <1>11 DEF Answered
  <2>2. /\ row' = "accepted" => Failed = {}
        /\ row' = "time_limit_exceeded" => \A t \in Exec!Failing : test[t].error = "time_limit"
        /\ row' = "compile_error" =>
              \/ \E t \in Exec!Failing : test[t].error \in {"syntax", "expected"}
              \/ \E t \in Exec!Tests : test[t].error = "syntax" /\ \A u \in Exec!Failing : test[u].error = "empty"
        /\ row' = "memory_limit_exceeded" =>
              \/ \E t \in Exec!Failing : test[t].error \in {"memory", "oom"}
              \/ \E t \in Exec!Tests : test[t].error = "memory" /\ \A u \in Exec!Failing : test[u].error = "empty"
    BY <1>1, <2>1, StoredVerdict
  <2>3. \A t \in Exec!Tests : ResultSound(test[t])
    BY <2>1 DEF XInv, ResultsSound, AllDone
  <2>4. Exec!Failing \subseteq Exec!Tests
    BY DEF Exec!Failing
  <2>5. Exec!AcceptedIsRight'
    <3>1. row' = "accepted" => \A t \in Exec!Tests : test[t].passed
      BY <2>2 DEF Failed
    <3>2. count \in 1..MaxTests
      BY <2>1 DEF AllDone
    <3>3. QED
      BY <1>1, <1>3, <2>3, <3>1, <3>2 DEF Exec!AcceptedIsRight, ResultSound
  <2>6. Exec!TimeOutsAreReal'
    BY <1>1, <1>7, <2>2, <2>3, <2>4 DEF Exec!TimeOutsAreReal, ResultSound
  <2>7. \A t \in Exec!Tests : test[t].error \in {"syntax", "expected", "memory", "oom"} =>
                            test[t].text = test[t].error
    BY <2>3 DEF ResultSound, Exec!Texts
  <2>8. Exec!TextsAreQuoted'
    BY <1>1, <1>3, <1>7, <2>2, <2>4, <2>7 DEF Exec!TextsAreQuoted
  <2>9. QED
    BY <1>4, <1>5, <1>6, <1>9, <2>5, <2>6, <2>8 DEF XInv
<1>12. QED
  BY <1>10, <1>11

-----------------------------------------------------------------------------
(* The test cases. *)

\* Time and processor time of a test case are set.
LEMMA TimeSet ==
    ASSUME NEW r \in Waiting, NEW a, NEW c
    PROVE  [[r EXCEPT !.at = a] EXCEPT !.cpu = c] = [pc |-> r.pc, at |-> a, start |-> r.start, cpu |-> c]
<1>1. r = [pc |-> r.pc, at |-> r.at, start |-> r.start, cpu |-> r.cpu]
  BY DEF Waiting
<1>2. DOMAIN r = {"pc", "at", "start", "cpu"}
  BY <1>1
<1> DEFINE q == [r EXCEPT !.at = a]
<1>3. DOMAIN q = {"pc", "at", "start", "cpu"} /\ q.at = a /\ q.pc = r.pc /\ q.start = r.start
  BY <1>2
<1>4. q = [pc |-> r.pc, at |-> a, start |-> r.start, cpu |-> q.cpu]
  BY <1>1, <1>2, <1>3
<1> HIDE DEF q
<1>5. [q EXCEPT !.cpu = c] = [pc |-> r.pc, at |-> a, start |-> r.start, cpu |-> c]
  BY <1>3, <1>4
<1>6. QED
  BY <1>5 DEF q

LEMMA ExecutionTick ==
    ASSUME Exec!ExecutionConstants, XInv, Exec!Tick
    PROVE  XInv'
<1> DEFINE Second(busy, u) ==
             [test[u] EXCEPT !.at = @ + 1, !.cpu = IF u \in busy THEN @ + 1 ELSE @]
<1>1. /\ Exec!Running # {} /\ \A t \in Exec!Running : test[t].at < TimeLimit
      /\ \E busy \in SUBSET Exec!Running :
            test' = [t \in Exec!Tests |-> IF t \notin Exec!Running THEN test[t] ELSE Second(busy, t)]
  BY Zenon DEF Exec!Tick
<1>2. phase = "running"
  BY <1>1, UnderWay DEF Exec!Running
<1>3. ASSUME NEW busy, NEW u \in Exec!Tests, u \in Exec!Running
      PROVE  /\ Second(busy, u) \in Waiting
             /\ Second(busy, u).pc = test[u].pc /\ test[u].pc # "done"
             /\ Second(busy, u).cpu <= Second(busy, u).at
  <2>1. test[u] \in Waiting /\ test[u].cpu <= test[u].at /\ test[u].at < TimeLimit
        /\ test[u].pc # "done"
    BY <1>1, <1>3 DEF XInv, TestsTyped, Timely, Exec!Running, Ended
  <2> DEFINE a == test[u].at + 1
             c == IF u \in busy THEN test[u].cpu + 1 ELSE test[u].cpu
  <2>2. a \in 0..TimeLimit /\ c \in 0..TimeLimit /\ c <= a
    BY <2>1 DEF Waiting, Exec!ExecutionConstants
  <2>3. Second(busy, u) = [pc |-> test[u].pc, at |-> a, start |-> test[u].start, cpu |-> c]
    BY <2>1, TimeSet, Zenon
  <2> HIDE DEF a, c, Second
  <2>4. QED
    BY <2>1, <2>2, <2>3 DEF Waiting
<1> HIDE DEF Second
<1>4. PICK busy \in SUBSET Exec!Running :
        test' = [t \in Exec!Tests |-> IF t \notin Exec!Running THEN test[t] ELSE Second(busy, t)]
  BY <1>1
<1>5. \A u \in Exec!Tests : test'[u] = IF u \notin Exec!Running THEN test[u] ELSE Second(busy, u)
  BY <1>4
<1>6. test' \in [Exec!Tests -> Waiting \cup Ended]
  <2>1. \A u \in Exec!Tests : (IF u \notin Exec!Running THEN test[u] ELSE Second(busy, u)) \in Waiting \cup Ended
    BY <1>3 DEF XInv, TestsTyped
  <2>2. QED
    BY <1>4, <2>1
<1>7. /\ lang' = lang /\ profile' = profile /\ jailed' = jailed /\ count' = count
      /\ phase' = phase /\ reply' = reply /\ row' = row /\ orphans' = orphans /\ files' = files
  BY DEF Exec!Tick, Exec!setup
<1>8. \A u \in Exec!Tests :
        /\ test[u].pc = "done" <=> test'[u].pc = "done"
        /\ test[u].pc = "done" => test'[u] = test[u]
        /\ Timely(test'[u])
        /\ test'[u].pc = test[u].pc
  BY <1>3, <1>5 DEF XInv, TestsTyped, Timely, Exec!Running
<1>9. files' \subseteq Exec!Tests \X {"source", "wrapper"}
  BY <1>7 DEF XInv, FilesSound
<1>10. \A f \in files' : test'[f[1]].pc # "idle" /\ f \in files
  <2>1. \A f \in files : f[1] \in Exec!Tests
    BY DEF XInv, FilesSound
  <2>2. QED
    BY <1>7, <1>8, <2>1 DEF XInv, FilesSound
<1>11. QED
  BY <1>2, <1>6, <1>7, <1>8, <1>9, <1>10, OnTheWay DEF Exec!setup

\* What a program that was run leaves in the result.
LEMMA OutcomeSound ==
    ASSUME Exec!ExecutionConstants, XInv, NEW t \in Exec!Tests, NEW failed \in BOOLEAN, NEW right \in BOOLEAN,
           NEW text \in Exec!Texts \cup {"empty"}, NEW why \in {"ended", "killed"},
           why = "killed" => failed
    PROVE  Exec!Outcome(t, failed, right, text, why) \in Ended
           /\ ResultSound(Exec!Outcome(t, failed, right, text, why))
<1> DEFINE error == Exec!ErrorText(failed, text)
           asExpected == right /\ (lang \in Exec!Wrapped \/ text = "empty")
           passed == error = "empty" /\ asExpected
<1>1. error \in Exec!Texts \cup {"empty"} /\ error \in Errors
      /\ (error \in Exec!Texts \ {"other"} => text = error)
      /\ (error = "time_limit" => lang \in Exec!Wrapped)
      /\ (lang \notin Exec!Wrapped /\ failed => error # "empty")
  BY DEF Exec!ErrorText, Exec!Prefixed, Exec!Texts, Errors
<1>2. Exec!Outcome(t, failed, right, text, why) = Exec!Result(t, passed, error, why, right, text)
  BY DEF Exec!Outcome
<1>3. passed \in BOOLEAN /\ why \in Whys
  BY DEF Whys
<1>4. passed => error = "empty" /\ right /\ (lang \notin Exec!Wrapped => ~failed /\ text = "empty")
  BY <1>1
<1> HIDE DEF passed, error
<1>5. Exec!Result(t, passed, error, why, right, text) \in Ended
  BY <1>1, <1>3, ResultTyped
<1>6. ResultSound(Exec!Result(t, passed, error, why, right, text))
  BY <1>1, <1>4 DEF ResultSound, Exec!Result, Exec!Texts
<1>7. QED
  BY <1>2, <1>5, <1>6

\* Begin starts a test case, or reports that its file cannot be written.
LEMMA ExecutionBegin ==
    ASSUME Exec!ExecutionConstants, XInv, NEW t \in Exec!Tests, Exec!Begin(t)
    PROVE  XInv'
<1>1. phase = "running" /\ test[t].pc = "idle"
  BY DEF Exec!Begin
<1>2. CASE /\ test' = [test EXCEPT ![t].pc = IF lang = "compiled" THEN "compile" ELSE "run"]
           /\ files' = files \cup {<<t, "source">>}
                             \cup (IF lang = "javascript" THEN {<<t, "wrapper">>} ELSE {})
           /\ UNCHANGED <<Exec!setup, phase, reply, orphans, row>>
  <2>1. test \in [Exec!Tests -> Waiting \cup Ended] /\ test[t] \in Waiting /\ test[t].cpu <= test[t].at
    BY <1>1 DEF XInv, TestsTyped, Timely, Ended
  <2> DEFINE q == IF lang = "compiled" THEN "compile" ELSE "run"
             r == [test[t] EXCEPT !.pc = q]
  <2>2. r \in Waiting /\ r.pc = q /\ r.cpu = test[t].cpu /\ r.at = test[t].at /\ q \in {"compile", "run"}
    BY <2>1 DEF Waiting
  <2>3. test' = [test EXCEPT ![t] = r]
    BY <1>2
  <2> HIDE DEF q, r
  <2>4. test' \in [Exec!Tests -> Waiting \cup Ended] /\ test'[t] = r
        /\ \A u \in Exec!Tests \ {t} : test'[u] = test[u]
    BY <2>1, <2>2, <2>3
  <2>5. \A u \in Exec!Tests :
          /\ test[u].pc = "done" <=> test'[u].pc = "done"
          /\ test[u].pc = "done" => test'[u] = test[u]
          /\ Timely(test'[u])
    BY <1>1, <2>1, <2>2, <2>4 DEF XInv, TestsTyped, Timely
  <2>6. files' \subseteq Exec!Tests \X {"source", "wrapper"}
    BY <1>2 DEF XInv, FilesSound
  <2>7. \A f \in files' : test'[f[1]].pc # "idle" /\ (f \in files \/ test'[f[1]].pc # "done")
    <3>1. ASSUME NEW f \in files PROVE test'[f[1]].pc # "idle"
      <4>1. f[1] \in Exec!Tests /\ test[f[1]].pc # "idle"
        BY DEF XInv, FilesSound
      <4>2. QED
        BY <1>1, <2>4, <4>1
    <3>2. \A f \in files' : f \in files \/ f[1] = t
      BY <1>2
    <3>3. test'[t].pc \in {"compile", "run"}
      BY <2>2, <2>4
    <3>4. QED
      BY <3>1, <3>2, <3>3
  <2>8. QED
    BY <1>1, <1>2, <2>4, <2>5, <2>6, <2>7, OnTheWay
<1>3. CASE Exec!Done(t, Exec!Result(t, FALSE, "other", "fault", FALSE, "empty"), {}, FALSE)
  <2> DEFINE r == Exec!Result(t, FALSE, "other", "fault", FALSE, "empty")
  <2>1. r \in Ended
    BY ResultTyped DEF Errors, Exec!Texts, Whys
  <2>2. ResultSound(r)
    BY DEF Exec!Result, ResultSound
  <2> HIDE DEF r
  <2>3. Exec!Done(t, r, {}, FALSE)
    BY <1>3 DEF r
  <2>4. QED
    BY <1>1, <2>1, <2>2, <2>3, DoneKeeps
<1>4. QED
  BY <1>2, <1>3 DEF Exec!Begin

LEMMA ExecutionCompileEnds ==
    ASSUME Exec!ExecutionConstants, XInv, NEW t \in Exec!Tests, Exec!CompileEnds(t)
    PROVE  XInv'
<1>1. phase = "running" /\ test[t].pc = "compile"
  BY UnderWay DEF Exec!CompileEnds
<1>2. CASE /\ test' = [test EXCEPT ![t].pc = "run", ![t].start = test[t].at, ![t].cpu = 0]
           /\ UNCHANGED <<Exec!setup, phase, reply, files, orphans, row>>
  <2>1. test \in [Exec!Tests -> Waiting \cup Ended] /\ test[t] \in Waiting
    BY <1>1 DEF XInv, TestsTyped, Ended
  <2> DEFINE r == [pc |-> "run", at |-> test[t].at, start |-> test[t].at, cpu |-> 0]
  <2>2. test[t].at \in 0..TimeLimit /\ TimeLimit \in Nat
    BY <2>1 DEF Waiting, Exec!ExecutionConstants
  <2>3. r \in Waiting /\ r.pc = "run" /\ r.cpu <= r.at
    BY <2>2 DEF Waiting
  <2>4. test'[t] = r /\ \A u \in Exec!Tests \ {t} : test'[u] = test[u]
    <3> DEFINE f == [test EXCEPT ![t].pc = "run"]
               g == [f EXCEPT ![t].start = test[t].at]
               h == [g EXCEPT ![t].cpu = 0]
    <3>1. test' = h
      BY <1>2
    <3>2. f \in [Exec!Tests -> Waiting \cup Ended] /\ f[t] = [test[t] EXCEPT !.pc = "run"]
          /\ \A u \in Exec!Tests \ {t} : f[u] = test[u]
      <4>1. [test[t] EXCEPT !.pc = "run"] \in Waiting
        BY <2>1 DEF Waiting
      <4>2. QED
        BY <2>1, <4>1
    <3>3. f[t] = [pc |-> "run", at |-> test[t].at, start |-> test[t].start, cpu |-> test[t].cpu]
      BY <2>1, <3>2 DEF Waiting
    <3> HIDE DEF f
    <3>4. g[t] = [f[t] EXCEPT !.start = test[t].at] /\ \A u \in Exec!Tests \ {t} : g[u] = f[u]
      BY <3>2
    <3>5. g[t] = [pc |-> "run", at |-> test[t].at, start |-> test[t].at, cpu |-> test[t].cpu]
      BY <3>3, <3>4
    <3>6. DOMAIN g = Exec!Tests
      BY <3>2
    <3> HIDE DEF g
    <3>7. h[t] = [g[t] EXCEPT !.cpu = 0] /\ \A u \in Exec!Tests \ {t} : h[u] = g[u]
      BY <3>6
    <3>8. h[t] = r
      BY <3>5, <3>7
    <3> HIDE DEF h, r
    <3>9. QED
      BY <3>1, <3>2, <3>4, <3>7, <3>8
  <2>5. test' = [u \in Exec!Tests |-> test'[u]]
    <3>1. DOMAIN test' = Exec!Tests
      BY <1>2, <2>1
    <3>2. test' = [u \in DOMAIN test' |-> test'[u]]
      BY <1>2, Zenon
    <3>3. QED
      BY <3>1, <3>2, Zenon
  <2> HIDE DEF r
  <2>6. test' \in [Exec!Tests -> Waiting \cup Ended]
    <3>1. \A u \in Exec!Tests : test'[u] \in Waiting \cup Ended
      BY <2>1, <2>3, <2>4
    <3>2. QED
      BY <2>5, <3>1
  <2>7. \A u \in Exec!Tests :
          /\ test[u].pc = "done" <=> test'[u].pc = "done"
          /\ test[u].pc = "done" => test'[u] = test[u]
          /\ Timely(test'[u])
    BY <1>1, <2>3, <2>4 DEF XInv, TestsTyped, Timely
  <2>8. files' \subseteq Exec!Tests \X {"source", "wrapper"}
    BY <1>2 DEF XInv, FilesSound
  <2>9. \A f \in files' : test'[f[1]].pc # "idle" /\ f \in files
    <3>1. \A f \in files : f[1] \in Exec!Tests /\ test[f[1]].pc # "idle"
      BY DEF XInv, FilesSound
    <3>2. QED
      BY <1>2, <2>3, <2>4, <3>1
  <2>10. QED
    BY <1>1, <1>2, <2>6, <2>7, <2>8, <2>9, OnTheWay
<1>3. ASSUME NEW text \in Exec!Texts,
             Exec!Done(t, Exec!Result(t, FALSE, Exec!Prefixed(text), "compiler", FALSE, text), {}, ~jailed)
      PROVE  XInv'
  <2> DEFINE error == Exec!Prefixed(text)
             r == Exec!Result(t, FALSE, error, "compiler", FALSE, text)
             stray == ~jailed
  <2>1. error \in Errors /\ error # "time_limit" /\ (error # "other" => error = text)
    BY DEF Exec!Prefixed, Exec!Texts, Errors
  <2>2. Exec!Done(t, r, {}, stray)
    BY <1>3
  <2> HIDE DEF error
  <2>3. r \in Ended
    BY <2>1, ResultTyped DEF Whys
  <2>4. ResultSound(r) /\ r.why = "compiler"
    BY <2>1 DEF Exec!Result, ResultSound
  <2>5. stray \in BOOLEAN /\ (stray => ~jailed)
    OBVIOUS
  <2> HIDE DEF r, stray
  <2>6. QED
    BY <1>1, <2>2, <2>3, <2>4, <2>5, DoneKeeps
<1>4. QED
  BY <1>2, <1>3 DEF Exec!CompileEnds

\* A program that is under way.
LEMMA InTimeRuns ==
    ASSUME Exec!ExecutionConstants, XInv, NEW t \in Exec!Tests, test[t].pc = "run"
    PROVE  /\ phase = "running" /\ test[t].pc # "done"
           /\ test[t].at \in 0..TimeLimit /\ test[t].start \in 0..TimeLimit
<1>1. phase = "running"
  BY UnderWay
<1>2. test[t] \in Waiting
  BY DEF XInv, TestsTyped, Ended
<1>3. QED
  BY <1>1, <1>2 DEF Waiting

LEMMA ExecutionEnds ==
    ASSUME Exec!ExecutionConstants, XInv, NEW t \in Exec!Tests, Exec!Ends(t)
    PROVE  XInv'
<1>1. test[t].pc = "run"
  BY DEF Exec!Ends, Exec!Runs, Exec!InTime
<1>2. PICK failed, right \in BOOLEAN, text \in Exec!Texts \cup {"empty"} :
         Exec!Done(t, Exec!Outcome(t, failed, right, text, "ended"), {}, ~jailed)
  BY DEF Exec!Ends
<1> DEFINE r == Exec!Outcome(t, failed, right, text, "ended")
           stray == ~jailed
<1>3. r \in Ended /\ ResultSound(r)
  BY OutcomeSound
<1>4. Exec!Done(t, r, {}, stray) /\ stray \in BOOLEAN /\ (stray => ~jailed)
  BY <1>2
<1>5. r.why # "fault"
  BY DEF Exec!Outcome, Exec!Result
<1> HIDE DEF r, stray
<1>6. QED
  BY <1>1, <1>3, <1>4, <1>5, InTimeRuns, DoneKeeps

LEMMA ExecutionCpuKill ==
    ASSUME Exec!ExecutionConstants, XInv, NEW t \in Exec!Tests, Exec!CpuKill(t)
    PROVE  XInv'
<1>1. test[t].pc = "run"
  BY DEF Exec!CpuKill, Exec!OverCpu, Exec!Runs, Exec!InTime
<1>2. PICK right \in BOOLEAN, text \in Exec!Texts \cup {"empty"} :
         Exec!Done(t, Exec!Outcome(t, TRUE, right, text, "killed"), {}, ~jailed)
  BY DEF Exec!CpuKill
<1> DEFINE r == Exec!Outcome(t, TRUE, right, text, "killed")
           stray == ~jailed
<1>3. r \in Ended /\ ResultSound(r)
  BY OutcomeSound
<1>4. Exec!Done(t, r, {}, stray) /\ stray \in BOOLEAN /\ (stray => ~jailed)
  BY <1>2
<1>5. r.why # "fault"
  BY DEF Exec!Outcome, Exec!Result
<1> HIDE DEF r, stray
<1>6. QED
  BY <1>1, <1>3, <1>4, <1>5, InTimeRuns, DoneKeeps

LEMMA ExecutionWallKill ==
    ASSUME Exec!ExecutionConstants, XInv, NEW t \in Exec!Tests, Exec!WallKill(t)
    PROVE  XInv'
<1>1. test[t].pc = "run"
  BY DEF Exec!WallKill, Exec!OverWall, Exec!InTime
<1>2. PICK text \in Exec!Texts \cup {"empty"} :
         Exec!Done(t, IF lang \in Exec!Wrapped THEN Exec!Result(t, FALSE, "empty", "killed", FALSE, "empty")
                 ELSE Exec!Outcome(t, TRUE, FALSE, text, "killed"), Exec!Left(t), FALSE)
  BY DEF Exec!WallKill
<1> DEFINE r == IF lang \in Exec!Wrapped THEN Exec!Result(t, FALSE, "empty", "killed", FALSE, "empty")
                ELSE Exec!Outcome(t, TRUE, FALSE, text, "killed")
<1>3. r \in Ended /\ ResultSound(r) /\ r.why = "killed"
  <2>1. CASE lang \in Exec!Wrapped
    <3>1. Exec!Result(t, FALSE, "empty", "killed", FALSE, "empty") \in Ended
      BY ResultTyped DEF Errors, Exec!Texts, Whys
    <3>2. QED
      BY <2>1, <3>1 DEF Exec!Result, ResultSound, Exec!Texts
  <2>2. CASE lang \notin Exec!Wrapped
    <3>1. Exec!Outcome(t, TRUE, FALSE, text, "killed") \in Ended
          /\ ResultSound(Exec!Outcome(t, TRUE, FALSE, text, "killed"))
      BY OutcomeSound
    <3>2. Exec!Outcome(t, TRUE, FALSE, text, "killed").why = "killed"
      BY DEF Exec!Outcome, Exec!Result
    <3>3. QED
      BY <2>2, <3>1, <3>2
  <2>3. QED
    BY <2>1, <2>2
<1>4. Exec!Left(t) \subseteq {<<t, "wrapper">>}
  BY DEF Exec!Left
<1>5. Exec!Done(t, r, Exec!Left(t), FALSE)
  BY <1>2
<1> HIDE DEF r
<1>6. QED
  BY <1>1, <1>3, <1>4, <1>5, InTimeRuns, DoneKeeps

\* The deadline's result, also of a test case whose output was held.
LEMMA ExecutionTimedOut ==
    ASSUME Exec!ExecutionConstants, XInv, NEW t \in Exec!Tests,
           test[t].pc \in {"compile", "run", "compile_held", "run_held"}, test[t].at = TimeLimit,
           Exec!TimedOut(t)
    PROVE  XInv'
<1> DEFINE error == IF test[t].pc \in {"compile", "compile_held"} THEN "other" ELSE "time_limit"
           r == Exec!Result(t, FALSE, error, "deadline", FALSE, "empty")
           left == IF test[t].pc = "run" THEN Exec!Left(t) ELSE {}
           stray == ~jailed
<1>1. phase = "running" /\ test[t].pc # "done"
  BY UnderWay
<1>2. r \in Ended
  <2>1. error \in Errors
    BY DEF Errors, Exec!Texts
  <2> HIDE DEF error
  <2>2. QED
    BY <2>1, ResultTyped DEF Exec!Texts, Whys
<1>3. ResultSound(r) /\ r.why = "deadline"
  BY DEF Exec!Result, ResultSound, Exec!Texts
<1>4. left \subseteq {<<t, "wrapper">>}
  BY DEF Exec!Left
<1>5. Exec!Done(t, r, left, stray)
  BY DEF Exec!TimedOut
<1>6. stray \in BOOLEAN /\ (stray => ~jailed)
  OBVIOUS
<1> HIDE DEF r, left, stray
<1>7. QED
  BY <1>1, <1>2, <1>3, <1>4, <1>5, <1>6, DoneKeeps

LEMMA ExecutionDeadline ==
    ASSUME Exec!ExecutionConstants, XInv, NEW t \in Exec!Tests, Exec!Deadline(t)
    PROVE  XInv'
<1>1. test[t].pc \in {"compile", "run"} /\ test[t].at = TimeLimit
  BY DEF Exec!Deadline, Exec!Running
<1>2. CASE Exec!TimedOut(t)
  BY <1>1, <1>2, ExecutionTimedOut
<1>3. CASE /\ test' = [test EXCEPT ![t].pc = IF test[t].pc = "compile" THEN "compile_held" ELSE "run_held"]
           /\ UNCHANGED <<Exec!setup, phase, reply, files, orphans, row>>
  <2>1. test \in [Exec!Tests -> Waiting \cup Ended] /\ test[t] \in Waiting /\ test[t].cpu <= test[t].at
    BY <1>1 DEF XInv, TestsTyped, Timely, Ended
  <2> DEFINE q == IF test[t].pc = "compile" THEN "compile_held" ELSE "run_held"
             r == [test[t] EXCEPT !.pc = q]
  <2>2. /\ r \in Waiting /\ r.pc = q /\ r.cpu = test[t].cpu /\ r.at = test[t].at
        /\ q \in {"compile_held", "run_held"}
    BY <2>1 DEF Waiting
  <2>3. test' = [test EXCEPT ![t] = r]
    BY <1>3
  <2> HIDE DEF q, r
  <2>4. test' \in [Exec!Tests -> Waiting \cup Ended] /\ test'[t] = r
        /\ \A u \in Exec!Tests \ {t} : test'[u] = test[u]
    BY <2>1, <2>2, <2>3
  <2>5. \A u \in Exec!Tests :
          /\ test[u].pc = "done" <=> test'[u].pc = "done"
          /\ test[u].pc = "done" => test'[u] = test[u]
          /\ Timely(test'[u])
          /\ test[u].pc # "idle" => test'[u].pc # "idle"
    BY <1>1, <2>1, <2>2, <2>4 DEF XInv, TestsTyped, Timely
  <2>6. files' \subseteq Exec!Tests \X {"source", "wrapper"}
    BY <1>3 DEF XInv, FilesSound
  <2>7. \A f \in files' : test'[f[1]].pc # "idle" /\ f \in files
    <3>1. \A f \in files : f[1] \in Exec!Tests /\ test[f[1]].pc # "idle"
      BY DEF XInv, FilesSound
    <3>2. QED
      BY <1>3, <2>5, <3>1
  <2>8. QED
    BY <1>1, <1>3, <2>4, <2>5, <2>6, <2>7, UnderWay, OnTheWay
<1>4. QED
  BY <1>2, <1>3 DEF Exec!Deadline

LEMMA ExecutionOutputCloses ==
    ASSUME Exec!ExecutionConstants, XInv, NEW t \in Exec!Tests, Exec!OutputCloses(t)
    PROVE  XInv'
<1>1. test[t].pc \in {"compile_held", "run_held"} /\ Exec!TimedOut(t)
  BY DEF Exec!OutputCloses, Exec!Held
<1>2. test[t].at = TimeLimit
  BY <1>1 DEF XInv, TestsTyped, Timely
<1>3. QED
  BY <1>1, <1>2, ExecutionTimedOut

LEMMA ExecutionRunnerTimesOut ==
    ASSUME Exec!ExecutionConstants, XInv, NEW t \in Exec!Tests, Exec!RunnerTimesOut(t)
    PROVE  XInv'
<1> DEFINE r == Exec!Result(t, FALSE, "time_limit", "runner", FALSE, "empty")
           stray == ~jailed
<1>1. test[t].pc = "run" /\ test[t].at - test[t].start >= RunnerTimeout
  BY DEF Exec!RunnerTimesOut, Exec!OverRunner, Exec!Runs, Exec!InTime
<1>2. test[t].at >= RunnerTimeout
  BY <1>1, InTimeRuns DEF Exec!ExecutionConstants
<1>3. r \in Ended
  BY ResultTyped DEF Errors, Exec!Texts, Whys
<1>4. ResultSound(r) /\ r.why = "runner"
  BY <1>2 DEF Exec!Result, ResultSound, Exec!Texts
<1>5. Exec!Done(t, r, {}, stray)
  BY DEF Exec!RunnerTimesOut
<1>6. stray \in BOOLEAN /\ (stray => ~jailed)
  OBVIOUS
<1> HIDE DEF r, stray
<1>7. QED
  BY <1>1, <1>3, <1>4, <1>5, <1>6, InTimeRuns, DoneKeeps

LEMMA ExecutionFlood ==
    ASSUME Exec!ExecutionConstants, XInv, NEW t \in Exec!Tests, Exec!Flood(t)
    PROVE  XInv'
<1> DEFINE r == Exec!Result(t, FALSE, "time_limit", "flood", FALSE, "empty")
           stray == ~jailed
<1>1. test[t].pc = "run" /\ lang = "javascript"
  BY DEF Exec!Flood, Exec!Runs, Exec!InTime
<1>2. r \in Ended
  BY ResultTyped DEF Errors, Exec!Texts, Whys
<1>3. ResultSound(r) /\ r.why = "flood"
  BY <1>1 DEF Exec!Result, ResultSound, Exec!Texts
<1>4. Exec!Done(t, r, {}, stray) /\ stray \in BOOLEAN /\ (stray => ~jailed)
  BY DEF Exec!Flood
<1> HIDE DEF r, stray
<1>5. QED
  BY <1>1, <1>2, <1>3, <1>4, InTimeRuns, DoneKeeps

LEMMA ExecutionRunnerBreaks ==
    ASSUME Exec!ExecutionConstants, XInv, NEW t \in Exec!Tests, Exec!RunnerBreaks(t)
    PROVE  XInv'
<1> DEFINE r == Exec!Result(t, FALSE, "other", "fault", FALSE, "empty")
<1>1. test[t].pc = "run"
  BY DEF Exec!RunnerBreaks, Exec!InTime
<1>2. r \in Ended
  BY ResultTyped DEF Errors, Exec!Texts, Whys
<1>3. ResultSound(r)
  BY DEF Exec!Result, ResultSound, Exec!Texts
<1>4. Exec!Done(t, r, {}, FALSE)
  BY DEF Exec!RunnerBreaks
<1> HIDE DEF r
<1>5. QED
  BY <1>1, <1>2, <1>3, <1>4, InTimeRuns, DoneKeeps

\* Nothing but the orphans changes, and they become fewer.
LEMMA ExecutionOrphanEnds ==
    ASSUME Exec!ExecutionConstants, XInv, orphans' \subseteq orphans,
           UNCHANGED <<Exec!setup, phase, test, reply, files, row>>
    PROVE  XInv'
<1>1. /\ lang' = lang /\ profile' = profile /\ jailed' = jailed /\ count' = count
      /\ phase' = phase /\ test' = test /\ reply' = reply /\ files' = files /\ row' = row
  BY DEF Exec!setup
<1>2. Exec!Tests' = Exec!Tests
  BY <1>1 DEF Exec!Tests
<1>3. Exec!Failing' = Exec!Failing
  BY <1>1, <1>2 DEF Exec!Failing
<1>4. SetupTyped' /\ TestsTyped' /\ ResultsSound'
  BY <1>1, <1>2 DEF XInv, SetupTyped, TestsTyped, ResultsSound, ResultSound
<1>5. FilesSound' /\ OrphansSound'
  BY <1>1, <1>2 DEF XInv, FilesSound, OrphansSound
<1>6. Phases'
  BY <1>1, <1>2, <1>3 DEF XInv, Phases, Answered, Untouched, AllDone, Exec!JudgeStatus
<1>7. Exec!AcceptedIsRight' /\ Exec!TimeOutsAreReal'
  BY <1>1, <1>2, <1>3 DEF XInv, Exec!AcceptedIsRight, Exec!TimeOutsAreReal
<1>8. Exec!TextsAreQuoted'
  BY <1>1, <1>2, <1>3 DEF XInv, Exec!TextsAreQuoted
<1>9. QED
  BY <1>4, <1>5, <1>6, <1>7, <1>8 DEF XInv

LEMMA ExecutionNext == Exec!ExecutionConstants /\ XInv /\ [Exec!Next]_(Exec!vars) => XInv'
<1> SUFFICES ASSUME Exec!ExecutionConstants, XInv, [Exec!Next]_(Exec!vars) PROVE XInv'
  OBVIOUS
<1>1. ASSUME NEW t \in Exec!Tests, Exec!TestStep(t) PROVE XInv'
  BY <1>1, ExecutionBegin, ExecutionCompileEnds, ExecutionEnds, ExecutionCpuKill, ExecutionWallKill,
     ExecutionDeadline, ExecutionRunnerTimesOut, ExecutionFlood, ExecutionRunnerBreaks DEF Exec!TestStep
<1>2. ASSUME NEW t \in Exec!Tests, Exec!OutputCloses(t) PROVE XInv'
  BY <1>2, ExecutionOutputCloses
<1>3. ASSUME NEW t \in Exec!Tests, Exec!OrphanEnds(t) PROVE XInv'
  <2>1. orphans' \subseteq orphans /\ UNCHANGED <<Exec!setup, phase, test, reply, files, row>>
    BY <1>3 DEF Exec!OrphanEnds
  <2>2. QED
    BY <2>1, ExecutionOrphanEnds
<1>4. CASE UNCHANGED Exec!vars
  <2>1. orphans' \subseteq orphans /\ UNCHANGED <<Exec!setup, phase, test, reply, files, row>>
    BY <1>4 DEF Exec!vars, Exec!setup
  <2>2. QED
    BY <2>1, ExecutionOrphanEnds
<1>5. QED
  BY <1>1, <1>2, <1>3, <1>4, ExecutionCheck, ExecutionAnswer, ExecutionStore, ExecutionTick DEF Exec!Next

\* A sound execution is what ExecutionIsSound says.
LEMMA SoundExecution == Exec!ExecutionConstants /\ XInv => Exec!ExecutionIsSound
<1> SUFFICES ASSUME Exec!ExecutionConstants, XInv PROVE Exec!ExecutionIsSound
  OBVIOUS
<1>1. \A t \in Exec!Tests : test[t] \in Waiting \cup Ended
  BY DEF XInv, TestsTyped
<1>2. Exec!TypeOK
  <2>1. files \subseteq Exec!Tests \X {"source", "wrapper"} /\ orphans \subseteq Exec!Tests
    BY DEF XInv, FilesSound, OrphansSound
  <2>2. SetupTyped
    BY DEF XInv
  <2>3. QED
    BY <1>1, <2>1, <2>2 DEF Exec!TypeOK, SetupTyped, Langs, Waiting, Ended, Errors, Whys
<1>3. Exec!NothingIsLeft
  <2>1. ASSUME phase \in {"answered", "stored"}, NEW f \in files
        PROVE  f[2] = "wrapper" /\ test[f[1]].why \in {"deadline", "killed"}
    <3>1. f[1] \in Exec!Tests /\ test[f[1]].pc # "idle"
      BY DEF XInv, FilesSound
    <3>2. test[f[1]].pc = "done"
      BY <2>1, <3>1 DEF XInv, Phases, Answered, Untouched, AllDone
    <3>3. QED
      BY <3>2 DEF XInv, FilesSound
  <2>2. \A t \in orphans : ~jailed /\ test[t].why # "fault"
    BY DEF XInv, OrphansSound
  <2>3. QED
    BY <2>1, <2>2 DEF Exec!NothingIsLeft
<1>4. QED
  BY <1>2, <1>3 DEF XInv, Exec!ExecutionIsSound

\* The stored verdict is explained by what the programs did: "accepted" only if every test
\* case ran and printed what was expected, a time-out only if the first failure used up its
\* time or a wrapper's program wrote the judge's own text, a compile or memory error only
\* from a text that says so; and no file stays on the host but what a killed runner leaves,
\* and no process but without a jail, for any number of concurrent test cases, any limits
\* and every way a program may end.
THEOREM ExecutionStaysSound == Exec!Spec => []ExecutionIsSound
<1>1. Exec!Init => XInv
  BY ExecutionInit, ExecutionAssumption
<1>2. XInv /\ [Exec!Next]_(Exec!vars) => XInv'
  BY ExecutionNext, ExecutionAssumption
<1>3. XInv => ExecutionIsSound
  BY SoundExecution, ExecutionAssumption DEF ExecutionIsSound
<1>4. QED
  BY <1>1, <1>2, <1>3, PTL DEF Exec!Spec
=============================================================================
