---------------------------- MODULE BrowserProofs ----------------------------
(***************************************************************************)
(* What a user sees of a submission, for every set of verdicts, any number *)
(* of polls in flight and any life of the row: the event stream here, the  *)
(* problem page below.  Then the panels with requests of their own, each   *)
(* with an argument above it: hints, the page of a thread, the views that  *)
(* search, and the rows behind the assistant.                              *)
(*                                                                         *)
(* The stream's argument: as long as it is open, no done has been sent,    *)
(* the last status shown is lastStatus, and whatever a poll has read is    *)
(* in since.  The poll that ends the stream shows its reading or finds it  *)
(* shown already, so the last status before done is in since; nothing is   *)
(* sent and since does not grow once the stream is closed.                 *)
(*                                                                         *)
(* The page's argument: the row of a submission it has asked for exists or *)
(* was deleted, and a verdict is final, so what an answer said when it was *)
(* made is still true when the page takes it up, however late; and a run   *)
(* and a submission are under way at once only after mixed was set.        *)
(***************************************************************************)
EXTENDS Browser, TLAPS, FiniteSetTheorems, SequenceTheorems

IsStatus(e) == e[1] = "status"

\* The last status in the events sq is st.
LastShown(sq, st) ==
    \E k \in 1..Len(sq) :
        /\ sq[k] = StatusEvent(st)
        /\ \A j \in 1..Len(sq) : IsStatus(sq[j]) => j <= k

NotDone(sq) == \A n \in 1..Len(sq) : sq[n] # <<"done">>

\* done, if it is there, ends sq, and the last status is in since.
DoneFits(sq) ==
    \/ NotDone(sq)
    \/ /\ Len(sq) > 0
       /\ \A n \in 1..Len(sq) : sq[n] = <<"done">> => n = Len(sq)
       /\ \E st \in since : LastShown(sq, st)

\* Before the stream opens nothing has been sent and nothing read.
NotYetOpen ==
    stream \in {"none", "counting"} => sent = <<>> /\ \A i \in Slots : poll[i] = "idle"

\* An open stream has shown what it last saw, and can still say done.
OpenShowsLast ==
    stream = "open" => NotDone(sent) /\ LastShown(sent, lastStatus) /\ status \in since

\* What the polls in flight have read, the row has been.
ReadingsAreKnown ==
    \A i \in Slots : poll[i] \in {"idle"} \cup (({"deleted"} \cup Present) \cap since)

Statuses ==
    /\ stream # "none" => lastStatus \in Present /\ status # "absent"
    /\ timers <=> stream = "open"

\* The inductive invariant.
SInv ==
    TypeOK /\ NotYetOpen /\ OpenShowsLast /\ ReadingsAreKnown /\ Statuses /\ DoneFits(sent)

-----------------------------------------------------------------------------
(* Events and sequences of them. *)

LEMMA EventsDiffer ==
    /\ \A st : IsStatus(StatusEvent(st)) /\ StatusEvent(st) # <<"done">>
    /\ ~IsStatus(<<"progress">>) /\ ~IsStatus(<<"done">>) /\ <<"progress">> # <<"done">>
    /\ \A e \in Events : IsStatus(e) => \E st \in Present : e = StatusEvent(st)
BY DEF IsStatus, StatusEvent, Events

(* One more event. *)
LEMMA OneMore ==
    ASSUME NEW sq \in Seq(Events), NEW e \in Events
    PROVE  /\ sq \o <<e>> \in Seq(Events)
           /\ Len(sq) \in Nat /\ Len(sq \o <<e>>) = Len(sq) + 1
           /\ (sq \o <<e>>)[Len(sq) + 1] = e
           /\ \A i \in 1..Len(sq) : (sq \o <<e>>)[i] = sq[i]
OBVIOUS

(* Nothing more. *)
LEMMA NothingMore ==
    ASSUME NEW sq \in Seq(Events)
    PROVE  sq \o <<>> = sq
OBVIOUS

LEMMA Regroup ==
    ASSUME NEW a \in Seq(Events), NEW b \in Seq(Events), NEW c \in Seq(Events),
           NEW d \in Seq(Events)
    PROVE  ((a \o b) \o c) \o d = a \o (b \o c \o d)
BY SMTT(20)

(* Showing a status makes it the last one shown. *)
LEMMA ShowStatus ==
    ASSUME NEW sq \in Seq(Events), NEW st \in Present, NotDone(sq)
    PROVE  /\ sq \o <<StatusEvent(st)>> \in Seq(Events)
           /\ NotDone(sq \o <<StatusEvent(st)>>)
           /\ LastShown(sq \o <<StatusEvent(st)>>, st)
<1> DEFINE e == StatusEvent(st)
           t == sq \o <<e>>
<1>1. e \in Events
  BY DEF Events
<1>2. /\ t \in Seq(Events) /\ Len(t) = Len(sq) + 1 /\ t[Len(sq) + 1] = e
      /\ Len(sq) \in Nat /\ \A i \in 1..Len(sq) : t[i] = sq[i]
  BY <1>1, OneMore
<1> HIDE DEF t
<1>3. NotDone(t)
  BY <1>2, EventsDiffer DEF NotDone
<1>4. LastShown(t, st)
  BY <1>2 DEF LastShown
<1>5. QED
  BY <1>2, <1>3, <1>4 DEF t

(* Progress changes nothing of that. *)
LEMMA ShowProgress ==
    ASSUME NEW sq \in Seq(Events), NotDone(sq), NEW st, LastShown(sq, st)
    PROVE  /\ sq \o <<<<"progress">>>> \in Seq(Events)
           /\ NotDone(sq \o <<<<"progress">>>>)
           /\ LastShown(sq \o <<<<"progress">>>>, st)
<1> DEFINE e == <<"progress">>
           t == sq \o <<e>>
<1>1. e \in Events
  BY DEF Events
<1>2. /\ t \in Seq(Events) /\ Len(t) = Len(sq) + 1 /\ t[Len(sq) + 1] = e
      /\ Len(sq) \in Nat /\ \A i \in 1..Len(sq) : t[i] = sq[i]
  BY <1>1, OneMore
<1>3. ~IsStatus(e) /\ e # <<"done">>
  BY EventsDiffer
<1> HIDE DEF t
<1>4. NotDone(t)
  BY <1>2, EventsDiffer DEF NotDone
<1> HIDE DEF e
<1>5. LastShown(t, st)
  BY <1>2, <1>3 DEF LastShown
<1>6. QED
  BY <1>2, <1>4, <1>5 DEF t, e

(* done after a status of since fits. *)
LEMMA SendDone ==
    ASSUME NEW sq \in Seq(Events), NotDone(sq), NEW st, LastShown(sq, st)
    PROVE  /\ sq \o <<<<"done">>>> \in Seq(Events)
           /\ st \in since => DoneFits(sq \o <<<<"done">>>>)
<1> DEFINE e == <<"done">>
           t == sq \o <<e>>
<1>1. e \in Events
  BY DEF Events
<1>2. /\ t \in Seq(Events) /\ Len(t) = Len(sq) + 1 /\ t[Len(sq) + 1] = e
      /\ Len(sq) \in Nat /\ \A i \in 1..Len(sq) : t[i] = sq[i]
  BY <1>1, OneMore
<1>3. ~IsStatus(e)
  BY EventsDiffer
<1>4. \A n \in 1..Len(t) : t[n] = <<"done">> => n = Len(t)
  <2> HIDE DEF t
  <2>1. QED
    BY <1>2 DEF NotDone
<1> HIDE DEF t, e
<1>5. LastShown(t, st)
  BY <1>2, <1>3 DEF LastShown
<1>6. QED
  BY <1>2, <1>4, <1>5 DEF t, e, DoneFits

-----------------------------------------------------------------------------
(* The continuation of a poll. *)

\* What Continue sends: the status, the progress, and done.
Shows(i, show) == IF show THEN <<StatusEvent(poll[i])>> ELSE <<>>
Fills(i) == IF poll[i] # "pending" /\ ~full THEN <<<<"progress">>>> ELSE <<>>
Ends(end) == IF end THEN <<<<"done">>>> ELSE <<>>

LEMMA ContinueSends ==
    ASSUME SInv, NEW i \in Slots, poll[i] \in Present, stream = "open",
           NEW end \in BOOLEAN
    PROVE  LET all == sent \o (Shows(i, Changed(i)) \o Fills(i) \o Ends(end)) IN
           /\ all \in Seq(Events) /\ DoneFits(all)
           /\ ~end => NotDone(all) /\ LastShown(all, poll[i])
<1> DEFINE st == poll[i]
           s1 == sent \o Shows(i, Changed(i))
           s2 == s1 \o Fills(i)
           s3 == s2 \o Ends(end)
<1>1. /\ sent \in Seq(Events) /\ NotDone(sent) /\ LastShown(sent, lastStatus)
      /\ st \in since /\ st \in Present
  BY StreamAssumption
  DEF SInv, TypeOK, OpenShowsLast, ReadingsAreKnown, Present, Lifecycle!Statuses
<1>2. s1 \in Seq(Events) /\ NotDone(s1) /\ LastShown(s1, st)
  <2>1. CASE Changed(i)
    BY <1>1, <2>1, ShowStatus DEF Shows
  <2>2. CASE ~Changed(i)
    <3>1. s1 = sent /\ st = lastStatus
      BY <1>1, <2>2, NothingMore DEF Shows, Changed
    <3>2. QED
      BY <1>1, <3>1
  <2>3. QED
    BY <2>1, <2>2
<1>3. s2 \in Seq(Events) /\ NotDone(s2) /\ LastShown(s2, st)
  <2> HIDE DEF s1
  <2>1. CASE poll[i] # "pending" /\ ~full
    BY <1>2, <2>1, ShowProgress DEF Fills
  <2>2. CASE ~(poll[i] # "pending" /\ ~full)
    <3>1. s2 = s1
      BY <1>2, <2>2, NothingMore DEF Fills
    <3>2. QED
      BY <1>2, <3>1
  <2>3. QED
    BY <2>1, <2>2
<1>4. s3 \in Seq(Events) /\ DoneFits(s3) /\ (~end => NotDone(s3) /\ LastShown(s3, st))
  <2> HIDE DEF s2
  <2>1. CASE end
    BY <1>1, <1>3, <2>1, SendDone DEF Ends
  <2>2. CASE ~end
    <3>1. s3 = s2
      BY <1>3, <2>2, NothingMore DEF Ends
    <3>2. QED
      BY <1>3, <3>1 DEF DoneFits
  <2>3. QED
    BY <2>1, <2>2
<1>5. s3 = sent \o (Shows(i, Changed(i)) \o Fills(i) \o Ends(end))
  <2>1. /\ StatusEvent(st) \in Events /\ <<"progress">> \in Events /\ <<"done">> \in Events
    BY <1>1 DEF Events
  <2> HIDE DEF st
  <2>2. Shows(i, Changed(i)) \in Seq(Events)
    BY <2>1 DEF Shows, st
  <2>3. Fills(i) \in Seq(Events)
    BY <2>1 DEF Fills
  <2>4. Ends(end) \in Seq(Events)
    BY <2>1 DEF Ends
  <2> DEFINE b == Shows(i, Changed(i))
             c == Fills(i)
             d == Ends(end)
  <2>5. b \in Seq(Events) /\ c \in Seq(Events) /\ d \in Seq(Events) /\ sent \in Seq(Events)
    BY <1>1, <2>2, <2>3, <2>4
  <2> HIDE DEF b, c, d
  <2>6. ((sent \o b) \o c) \o d = sent \o (b \o c \o d)
    BY <2>5
  <2>7. QED
    BY <2>6 DEF b, c, d
<1>6. QED
  BY <1>4, <1>5

LEMMA ContinueStep ==
    ASSUME SInv, NEW i \in Slots, poll[i] \notin {"idle", "deleted"},
           Continue(i, Changed(i), Over(i), Over(i))
    PROVE  SInv'
<1>1. poll[i] \in Present
  BY DEF SInv, ReadingsAreKnown
<1>2. /\ poll' = [poll EXCEPT ![i] = "idle"] /\ lastStatus' = poll[i]
      /\ UNCHANGED <<row, expired, errors, since>>
      /\ full' = (full \/ (poll[i] # "pending" /\ ~full))
      /\ stream' = (IF Over(i) THEN "closed" ELSE stream)
      /\ timers' = (timers /\ ~Over(i))
      /\ sent' = IF stream = "open"
                 THEN sent \o (Shows(i, Changed(i)) \o Fills(i) \o Ends(Over(i)))
                 ELSE sent
  BY DEF Continue, Send, Shows, Fills, Ends
<1>3. stream \in {"open", "closed"}
  <2>1. poll[i] # "idle" /\ stream \in {"none", "counting", "open", "closed"}
    BY DEF SInv, TypeOK
  <2>2. QED
    BY <2>1 DEF SInv, NotYetOpen
<1>4. Over(i) \in BOOLEAN
  BY DEF Over, SInv, TypeOK
<1>5. sent' \in Seq(Events) /\ DoneFits(sent')
      /\ (stream' = "open" => NotDone(sent') /\ LastShown(sent', poll[i]))
  <2>1. CASE stream = "open"
    BY <1>1, <1>2, <1>4, <2>1, ContinueSends
  <2>2. CASE stream = "closed"
    BY <1>2, <2>2 DEF SInv, TypeOK
  <2>3. QED
    BY <1>3, <2>1, <2>2
<1>6. TypeOK'
  BY <1>1, <1>2, <1>3, <1>4, <1>5 DEF SInv, TypeOK, Present
<1>7. DoneFits(sent)'
  BY <1>2, <1>5 DEF DoneFits
<1>8. stream' \in {"open", "closed"} /\ (stream' = "open" => stream = "open")
  BY <1>2, <1>3
<1>9. NotYetOpen'
  BY <1>8 DEF NotYetOpen
<1>10. OpenShowsLast'
  BY <1>2, <1>5, <1>8 DEF SInv, OpenShowsLast, status, LastShown, NotDone
<1>11. ReadingsAreKnown'
  BY <1>2 DEF SInv, TypeOK, ReadingsAreKnown, Present
<1>12. Statuses'
  BY <1>1, <1>2, <1>3, <1>4, <1>8 DEF SInv, TypeOK, Statuses, status, Present
<1>13. QED
  BY <1>6, <1>7, <1>9, <1>10, <1>11, <1>12 DEF SInv

-----------------------------------------------------------------------------
(* The other steps. *)

LEMMA SInvInit == Init => SInv
<1> SUFFICES ASSUME Init PROVE SInv
  OBVIOUS
<1>1. TypeOK
  <2>1. row \in [{Submission} -> Lifecycle!Statuses]
    BY DEF Init, Lifecycle!Init, Lifecycle!Statuses
  <2>2. sent \in Seq(Events) /\ errors \in 0..MaxErrors
    BY StreamAssumption DEF Init
  <2>3. QED
    BY <2>1, <2>2 DEF Init, TypeOK
<1>2. NotYetOpen /\ OpenShowsLast /\ ReadingsAreKnown /\ Statuses
  BY DEF Init, NotYetOpen, OpenShowsLast, ReadingsAreKnown, Statuses
<1>3. DoneFits(sent)
  BY DEF Init, DoneFits, NotDone
<1>4. QED
  BY <1>1, <1>2, <1>3 DEF SInv

LEMMA RowMovesStep == SInv /\ RowMoves => SInv'
<1> SUFFICES ASSUME SInv, RowMoves PROVE SInv'
  OBVIOUS
<1>1. /\ UNCHANGED <<stream, timers, lastStatus, full, poll, expired, errors, sent>>
      /\ since' = IF stream = "open" THEN since \cup {status'} ELSE since
  BY DEF RowMoves, status
<1>2. row' \in [{Submission} -> Lifecycle!Statuses] /\ status' \in Lifecycle!Statuses
  BY DEF RowMoves, Lifecycle!Next, status
<1>3. status # "absent" => status' # "absent"
  BY StreamAssumption DEF RowMoves, Lifecycle!Next, Lifecycle!Allowed, status
<1>4. since \subseteq since' /\ (stream = "open" => status' \in since')
  BY <1>1
<1>5. TypeOK'
  <2>1. since' \subseteq Lifecycle!Statuses
    BY <1>1, <1>2 DEF SInv, TypeOK
  <2>2. QED
    BY <1>1, <1>2, <2>1 DEF SInv, TypeOK, Present, Events
<1>6. NotYetOpen'
  BY <1>1 DEF SInv, NotYetOpen
<1>7. OpenShowsLast'
  BY <1>1, <1>4 DEF SInv, OpenShowsLast, NotDone, LastShown
<1>8. ReadingsAreKnown'
  BY <1>1, <1>4 DEF SInv, ReadingsAreKnown, Present
<1>9. Statuses'
  BY <1>1, <1>3 DEF SInv, Statuses, Present
<1>10. DoneFits(sent)'
  BY <1>1, <1>4 DEF SInv, DoneFits, NotDone, LastShown
<1>11. QED
  BY <1>5, <1>6, <1>7, <1>8, <1>9, <1>10 DEF SInv

LEMMA LookupStep == SInv /\ Lookup => SInv'
<1> SUFFICES ASSUME SInv, Lookup PROVE SInv'
  OBVIOUS
<1>1. TypeOK'
  BY DEF Lookup, SInv, TypeOK, Present, Events
<1>2. NotYetOpen' /\ OpenShowsLast' /\ ReadingsAreKnown'
  BY DEF Lookup, SInv, NotYetOpen, OpenShowsLast, ReadingsAreKnown, Present
<1>3. Statuses'
  BY DEF Lookup, SInv, Statuses, status, Present
<1>4. DoneFits(sent)'
  BY DEF Lookup, SInv, DoneFits, NotDone, LastShown
<1>5. QED
  BY <1>1, <1>2, <1>3, <1>4 DEF SInv

LEMMA StartStep == SInv /\ Start => SInv'
<1> SUFFICES ASSUME SInv, Start PROVE SInv'
  OBVIOUS
<1>1. /\ UNCHANGED <<row, lastStatus, poll, expired, errors>>
      /\ stream = "counting" /\ stream' = "open" /\ timers' = TRUE /\ full' \in BOOLEAN
      /\ sent' = <<StatusEvent(lastStatus), <<"progress">>>> /\ since' = {status}
  BY DEF Start
<1>2. lastStatus \in Present /\ status # "absent" /\ status \in Lifecycle!Statuses
  BY <1>1 DEF SInv, Statuses, TypeOK, status
<1>3. StatusEvent(lastStatus) \in Events /\ <<"progress">> \in Events
  BY <1>2 DEF Events
<1>4. NotDone(sent') /\ LastShown(sent', lastStatus)
  <2> DEFINE e1 == StatusEvent(lastStatus)
             e2 == <<"progress">>
  <2>1. e1 # <<"done">> /\ e2 # <<"done">> /\ ~IsStatus(e2)
    BY EventsDiffer
  <2> HIDE DEF e1, e2
  <2>2. /\ Len(<<e1, e2>>) = 2 /\ <<e1, e2>>[1] = e1 /\ <<e1, e2>>[2] = e2
        /\ \A n \in 1..2 : n = 1 \/ n = 2
    OBVIOUS
  <2> DEFINE sq == <<e1, e2>>
  <2> HIDE DEF sq
  <2>3. NotDone(sq)
    BY <2>1, <2>2 DEF NotDone, sq
  <2>4. sq[1] = e1 /\ 1 \in 1..Len(sq) /\ \A j \in 1..Len(sq) : IsStatus(sq[j]) => j <= 1
    BY <2>1, <2>2 DEF sq
  <2>5. LastShown(sq, lastStatus)
    BY <2>4 DEF LastShown, e1
  <2>6. QED
    BY <1>1, <2>3, <2>5 DEF sq, e1, e2
<1>5. TypeOK'
  BY <1>1, <1>2, <1>3 DEF SInv, TypeOK, Present
<1>6. NotYetOpen' /\ ReadingsAreKnown'
  BY <1>1 DEF SInv, NotYetOpen, ReadingsAreKnown
<1>7. OpenShowsLast'
  BY <1>1, <1>4 DEF OpenShowsLast, status, NotDone, LastShown
<1>8. Statuses'
  BY <1>1, <1>2 DEF Statuses, status, Present
<1>9. DoneFits(sent)'
  BY <1>4 DEF DoneFits
<1>10. QED
  BY <1>5, <1>6, <1>7, <1>8, <1>9 DEF SInv

LEMMA PollQueryStep == ASSUME NEW i \in Slots PROVE SInv /\ PollQuery(i) => SInv'
<1> SUFFICES ASSUME SInv, PollQuery(i) PROVE SInv'
  OBVIOUS
<1>1. /\ UNCHANGED <<row, stream, timers, lastStatus, full, expired, sent, since>>
      /\ poll' = [poll EXCEPT ![i] = status] \/ poll' = poll
      /\ errors' \in {errors, errors + 1} /\ (errors' = errors \/ errors < MaxErrors)
  BY DEF PollQuery
<1>2. stream = "open" /\ status \in Lifecycle!Statuses \ {"absent"} /\ status \in since
  BY DEF PollQuery, SInv, Statuses, OpenShowsLast, TypeOK, status
<1>3. TypeOK'
  BY <1>1, <1>2, StreamAssumption DEF SInv, TypeOK, Present, Events
<1>4. ReadingsAreKnown'
  BY <1>1, <1>2 DEF SInv, TypeOK, ReadingsAreKnown, Present
<1>5. NotYetOpen' /\ OpenShowsLast' /\ Statuses' /\ DoneFits(sent)'
  BY <1>1, <1>2
  DEF SInv, NotYetOpen, OpenShowsLast, Statuses, DoneFits, status, NotDone, LastShown, Present
<1>6. QED
  BY <1>3, <1>4, <1>5 DEF SInv

LEMMA RowGoneStep == ASSUME NEW i \in Slots PROVE SInv /\ RowGone(i) => SInv'
<1> SUFFICES ASSUME SInv, RowGone(i) PROVE SInv'
  OBVIOUS
<1>1. /\ UNCHANGED <<row, stream, timers, lastStatus, full, expired, errors, sent, since>>
      /\ poll' = [poll EXCEPT ![i] = "idle"]
  BY DEF RowGone
<1>2. TypeOK'
  BY <1>1 DEF SInv, TypeOK, Present, Events
<1>3. NotYetOpen'
  BY <1>1 DEF SInv, NotYetOpen, TypeOK
<1>4. ReadingsAreKnown'
  BY <1>1 DEF SInv, TypeOK, ReadingsAreKnown, Present
<1>5. OpenShowsLast' /\ Statuses' /\ DoneFits(sent)'
  BY <1>1 DEF SInv, OpenShowsLast, Statuses, DoneFits, status, NotDone, LastShown, Present
<1>6. QED
  BY <1>2, <1>3, <1>4, <1>5 DEF SInv

LEMMA ExpireStep == SInv /\ Expire => SInv'
<1> SUFFICES ASSUME SInv, Expire PROVE SInv'
  OBVIOUS
<1>1. TypeOK'
  BY DEF Expire, SInv, TypeOK, Present, Events
<1>2. NotYetOpen' /\ ReadingsAreKnown'
  BY DEF Expire, SInv, NotYetOpen, ReadingsAreKnown, Present
<1>3. OpenShowsLast' /\ Statuses' /\ DoneFits(sent)'
  BY DEF Expire, SInv, OpenShowsLast, Statuses, DoneFits, status, NotDone, LastShown, Present
<1>4. QED
  BY <1>1, <1>2, <1>3 DEF SInv

LEMMA AbortStep == SInv /\ Abort => SInv'
<1> SUFFICES ASSUME SInv, Abort PROVE SInv'
  OBVIOUS
<1>1. TypeOK'
  BY DEF Abort, SInv, TypeOK, Present, Events
<1>2. NotYetOpen' /\ ReadingsAreKnown' /\ OpenShowsLast'
  BY DEF Abort, SInv, NotYetOpen, ReadingsAreKnown, OpenShowsLast, Present
<1>3. Statuses' /\ DoneFits(sent)'
  BY DEF Abort, SInv, Statuses, DoneFits, status, NotDone, LastShown, Present
<1>4. QED
  BY <1>1, <1>2, <1>3 DEF SInv

LEMMA SInvNext == SInv /\ [Next]_vars => SInv'
<1> SUFFICES ASSUME SInv, [Next]_vars PROVE SInv'
  OBVIOUS
<1>1. CASE UNCHANGED vars
  <2>1. TypeOK'
    BY <1>1 DEF vars, SInv, TypeOK, Present, Events
  <2>2. NotYetOpen' /\ ReadingsAreKnown' /\ OpenShowsLast'
    BY <1>1 DEF vars, SInv, NotYetOpen, ReadingsAreKnown, OpenShowsLast, status, NotDone,
                LastShown, Present
  <2>3. Statuses' /\ DoneFits(sent)'
    BY <1>1 DEF vars, SInv, Statuses, DoneFits, status, NotDone, LastShown, Present
  <2>4. QED
    BY <2>1, <2>2, <2>3 DEF SInv
<1>2. ASSUME NEW i \in Slots, PollResult(i) PROVE SInv'
  BY <1>2, RowGoneStep, ContinueStep DEF PollResult
<1>3. QED
  BY <1>1, <1>2, RowMovesStep, LookupStep, StartStep, ExpireStep, AbortStep, PollQueryStep
  DEF Next

\* What a stream tells its client is true: done is the last event, the status shown before it
\* is one the row has had since the stream started, and no timer outlives the stream,
\* whichever of the overlapping polls, the time limit and the client ends it.
THEOREM StreamStaysSound == Spec => []StreamIsSound
<1>1. SInv => StreamIsSound
  <2> SUFFICES ASSUME SInv PROVE StreamIsSound
    OBVIOUS
  <2>1. TypeOK /\ TimersStopWithStream
    BY DEF SInv, Statuses, TimersStopWithStream
  <2>2. ASSUME NEW n \in DOMAIN sent, sent[n] = <<"done">>
        PROVE  /\ n = Len(sent)
               /\ \E k \in Shown : (\A j \in Shown : j <= k) /\ sent[k][2] \in since
    <3>1. DOMAIN sent = 1..Len(sent) /\ sent \in Seq(Events)
      BY DEF SInv, TypeOK
    <3>2. n = Len(sent) /\ \E st \in since : LastShown(sent, st)
      BY <2>2, <3>1 DEF SInv, DoneFits, NotDone
    <3>3. PICK st \in since : LastShown(sent, st)
      BY <3>2
    <3>4. PICK k \in 1..Len(sent) : /\ sent[k] = StatusEvent(st)
                                     /\ \A j \in 1..Len(sent) : IsStatus(sent[j]) => j <= k
      BY <3>3 DEF LastShown
    <3>5. k \in Shown /\ sent[k][2] = st
      BY <3>1, <3>4 DEF Shown, StatusEvent
    <3>6. \A j \in Shown : j <= k
      BY <3>1, <3>4 DEF Shown, IsStatus
    <3>7. QED
      BY <3>2, <3>5, <3>6
  <2>3. DoneShowsCurrentStatus
    BY <2>2 DEF DoneShowsCurrentStatus
  <2>4. QED
    BY <2>1, <2>3 DEF StreamIsSound
<1>2. QED
  BY <1>1, SInvInit, SInvNext, PTL DEF Spec

-----------------------------------------------------------------------------
(* The problem page. *)

Answers == {"none", "401", "error"} \cup (Page!Lifecycle!Statuses \ {"absent", "deleted"})
Pending == submit.pc # "idle"

\* The row has had the verdict v, and has it unless it was deleted.
Judged(s, v) == s \in Submissions /\ pageRow[s] \in {v, "deleted"}

RowTyped == pageRow \in [Submissions -> Page!Lifecycle!Statuses]

FlagsTyped ==
    /\ sync \in BOOLEAN /\ session \in BOOLEAN /\ running \in BOOLEAN /\ mixed \in BOOLEAN
    /\ auth \in {"loading", "user", "none"}
    /\ page \in {"loading", "ready", "not_found", "left"}
    /\ prompt \in {"closed", "sign_in", "expired"}

PanelTyped ==
    /\ shown \in {"null", "submitting", "error"} \cup Page!Lifecycle!Statuses
    /\ results \in {"none", "run"} \cup Submissions
    /\ toasts \subseteq Submissions \X Verdicts

SubmitTyped ==
    submit \in [pc : {"idle", "posting", "posted", "waiting", "fetching"},
                id : {"none"} \cup Submissions, polls : 0..MaxPolls, got : Answers]

PTypes == RowTyped /\ FlagsTyped /\ PanelTyped /\ SubmitTyped

\* The request under way, step by step.
PRequest ==
    /\ submit.id \in Submissions => pageRow[submit.id] # "absent"
    /\ submit.pc \in {"posting", "posted"} =>
          submit.polls = 0 /\ shown \notin Verdicts /\ results \notin Submissions
    /\ submit.pc = "posting" => submit.id = "none"
    /\ submit.pc = "posted" =>
          (submit.got \in {"401", "error"} \/ submit.id \in Submissions)
    /\ submit.pc = "posted" /\ submit.id # "none" /\ sync => submit.got \in Verdicts
    /\ submit.pc = "posted" => submit.got # "none"
    /\ submit.pc \in {"waiting", "fetching"} => submit.id \in Submissions
    /\ submit.pc = "waiting" => submit.polls < MaxPolls
    /\ submit.pc = "fetching" => submit.got \notin {"401", "error"}
    /\ submit.got \in Verdicts => Judged(submit.id, submit.got)

\* A verdict shown is that of the row; results of a submission are shown when it has ended.
PShown ==
    /\ shown \in Verdicts => Judged(submit.id, shown)
    /\ results \in Submissions => results = submit.id /\ shown \in Verdicts /\ ~Pending

\* Only a run and a submission at once bring a run's results under a submission's status.
PMixed == (running \/ results = "run") /\ (Pending \/ shown # "null") => mixed

\* A submission under way has not been announced.
PToasts ==
    \A t \in toasts :
        /\ Judged(t[1], t[2])
        /\ Pending => t[1] # submit.id
        /\ \A u \in toasts : u[1] = t[1] => u = t

PInv == PTypes /\ PRequest /\ PShown /\ PMixed /\ PToasts

(* A row's verdict is final. *)
LEMMA RowsKeepVerdicts ==
    ASSUME Page!PageConstants, pageRow \in [Submissions -> Page!Lifecycle!Statuses],
           Page!Lifecycle!Next, NEW s \in Submissions
    PROVE  /\ pageRow'[s] \in Page!Lifecycle!Statuses
           /\ pageRow[s] # "absent" => pageRow'[s] # "absent"
           /\ \A v \in Verdicts : Judged(s, v) => Judged(s, v)'
<1>1. /\ pageRow'[s] \in Page!Lifecycle!Statuses
      /\ pageRow'[s] = pageRow[s] \/ <<pageRow[s], pageRow'[s]>> \in Page!Lifecycle!Allowed
  BY DEF Page!Lifecycle!Next
<1>2. pageRow[s] # "absent" => pageRow'[s] # "absent"
  BY <1>1 DEF Page!Lifecycle!Allowed, Page!PageConstants
<1>3. ASSUME NEW v \in Verdicts, pageRow[s] \in {v, "deleted"}
      PROVE pageRow'[s] \in {v, "deleted"}
  <2>1. pageRow[s] \notin {"absent", "queued", "judging", "failed"}
    BY <1>3 DEF Page!PageConstants
  <2>2. pageRow'[s] = pageRow[s] \/ pageRow'[s] = "deleted"
    BY <1>1, <2>1 DEF Page!Lifecycle!Allowed
  <2>3. QED
    BY <1>3, <2>2
<1>4. QED
  BY <1>1, <1>2, <1>3 DEF Judged

LEMMA PageRowMoves == Page!PageConstants /\ PInv /\ Page!RowMoves => PInv'
<1> SUFFICES ASSUME Page!PageConstants, PInv, Page!RowMoves PROVE PInv'
  OBVIOUS
<1>1. /\ Page!Lifecycle!Next
      /\ UNCHANGED <<sync, session, auth, page, shown, results, running, submit, prompt, toasts, mixed>>
  BY DEF Page!RowMoves, Page!browser
<1>2. pageRow' \in [Submissions -> Page!Lifecycle!Statuses]
  BY <1>1 DEF Page!Lifecycle!Next
<1>3. \A s \in Submissions :
          /\ pageRow[s] # "absent" => pageRow'[s] # "absent"
          /\ \A v \in Verdicts : Judged(s, v) => Judged(s, v)'
  BY <1>1, RowsKeepVerdicts DEF PInv, PTypes, RowTyped
<1>4. PTypes'
  <2>1. RowTyped'
    BY <1>2 DEF RowTyped, Page!Lifecycle!Statuses
  <2>2. FlagsTyped' /\ PanelTyped'
    BY <1>1 DEF PInv, PTypes, FlagsTyped, PanelTyped, Page!Lifecycle!Statuses
  <2>3. SubmitTyped'
    BY <1>1 DEF PInv, PTypes, SubmitTyped, Answers, Page!Lifecycle!Statuses
  <2>4. QED
    BY <2>1, <2>2, <2>3 DEF PTypes
<1>5. PRequest'
  BY <1>1, <1>3 DEF PInv, PRequest, Judged
<1>6. PShown'
  BY <1>1, <1>3 DEF PInv, PShown, Judged, Pending
<1>7. PMixed'
  BY <1>1 DEF PInv, PMixed, Pending
<1>8. PToasts'
  <2>1. \A u \in toasts : u[1] \in Submissions /\ u[2] \in Verdicts
    BY DEF PInv, PTypes, PanelTyped
  <2>2. QED
    BY <1>1, <1>3, <2>1 DEF PInv, PToasts, Judged, Pending
<1>9. QED
  BY <1>4, <1>5, <1>6, <1>7, <1>8 DEF PInv

(* Steps that leave the row, the request and what is shown alone. *)
LEMMA PageQuiet ==
    ASSUME PInv, UNCHANGED <<pageRow, sync, shown, results, running, submit, toasts, mixed>>,
           session' \in BOOLEAN, auth' \in {"loading", "user", "none"},
           page' \in {"loading", "ready", "not_found", "left"},
           prompt' \in {"closed", "sign_in", "expired"}
    PROVE  PInv'
<1>1. PTypes'
  <2>1. RowTyped'
    BY DEF PInv, PTypes, RowTyped, Page!Lifecycle!Statuses
  <2>2. FlagsTyped' /\ PanelTyped'
    BY DEF PInv, PTypes, FlagsTyped, PanelTyped, Page!Lifecycle!Statuses
  <2>3. SubmitTyped'
    BY DEF PInv, PTypes, SubmitTyped, Answers, Page!Lifecycle!Statuses
  <2>4. QED
    BY <2>1, <2>2, <2>3 DEF PTypes
<1>2. PRequest' /\ PShown'
  BY DEF PInv, PRequest, PShown, Judged, Pending
<1>3. PMixed' /\ PToasts'
  BY DEF PInv, PMixed, PToasts, Judged, Pending
<1>4. QED
  BY <1>1, <1>2, <1>3 DEF PInv

LEMMA PageQuietSteps ==
    PInv /\ (Page!SessionEnds \/ Page!AuthLoads \/ Page!Load \/ Page!ClosePrompt
             \/ UNCHANGED Page!vars) => PInv'
<1> SUFFICES ASSUME PInv, Page!SessionEnds \/ Page!AuthLoads \/ Page!Load \/ Page!ClosePrompt
                          \/ UNCHANGED Page!vars
             PROVE  PInv'
  OBVIOUS
<1>1. FlagsTyped
  BY DEF PInv, PTypes
<1>2. CASE Page!SessionEnds
  BY <1>1, <1>2, PageQuiet DEF Page!SessionEnds, Page!browser, FlagsTyped
<1>3. CASE Page!AuthLoads
  BY <1>1, <1>3, PageQuiet DEF Page!AuthLoads, FlagsTyped
<1>4. CASE Page!Load
  BY <1>1, <1>4, PageQuiet DEF Page!Load, FlagsTyped
<1>5. CASE Page!ClosePrompt
  BY <1>1, <1>5, PageQuiet DEF Page!ClosePrompt, FlagsTyped
<1>6. CASE UNCHANGED Page!vars
  BY <1>1, <1>6, PageQuiet DEF Page!vars, Page!browser, FlagsTyped
<1>7. QED
  BY <1>2, <1>3, <1>4, <1>5, <1>6

LEMMA PageLeave == Page!PageConstants /\ PInv /\ Page!Leave => PInv'
<1> SUFFICES ASSUME Page!PageConstants, PInv, Page!Leave PROVE PInv'
  OBVIOUS
<1>1. RowTyped'
  BY DEF Page!Leave, PInv, PTypes, RowTyped, Page!Lifecycle!Statuses
<1>2. FlagsTyped'
  BY DEF Page!Leave, PInv, PTypes, FlagsTyped
<1>3. PanelTyped'
  BY DEF Page!Leave, PInv, PTypes, PanelTyped, Page!Lifecycle!Statuses
<1>4. SubmitTyped'
  BY DEF Page!Leave, PInv, PTypes, SubmitTyped, Answers, Page!Lifecycle!Statuses
<1>5. PRequest'
  BY DEF Page!Leave, PInv, PTypes, PRequest, Judged, Page!PageConstants
<1>6. PShown'
  BY DEF Page!Leave, PInv, PTypes, PShown, Judged, Pending, Page!PageConstants
<1>7. PMixed'
  BY DEF Page!Leave, PInv, PMixed, Pending
<1>8. PToasts'
  BY DEF Page!Leave, PInv, PToasts, Judged, Pending
<1>9. QED
  BY <1>1, <1>2, <1>3, <1>4, <1>5, <1>6, <1>7, <1>8 DEF PInv, PTypes

LEMMA PageClickRun == Page!PageConstants /\ PInv /\ Page!ClickRun => PInv'
<1> SUFFICES ASSUME Page!PageConstants, PInv, Page!ClickRun PROVE PInv'
  OBVIOUS
<1>1. RowTyped'
  BY DEF Page!ClickRun, PInv, PTypes, RowTyped, Page!Lifecycle!Statuses
<1>2. FlagsTyped'
  BY DEF Page!ClickRun, PInv, PTypes, FlagsTyped
<1>3. PanelTyped'
  BY DEF Page!ClickRun, PInv, PTypes, PanelTyped, Page!Lifecycle!Statuses
<1>4. SubmitTyped'
  BY DEF Page!ClickRun, PInv, PTypes, SubmitTyped, Answers, Page!Lifecycle!Statuses
<1>5. PRequest'
  BY DEF Page!ClickRun, PInv, PTypes, PRequest, Judged, Page!PageConstants
<1>6. PShown'
  BY DEF Page!ClickRun, PInv, PTypes, PShown, Judged, Pending, Page!PageConstants
<1>7. PMixed'
  BY DEF Page!ClickRun, PInv, PMixed, Pending
<1>8. PToasts'
  BY DEF Page!ClickRun, PInv, PToasts, Judged, Pending
<1>9. QED
  BY <1>1, <1>2, <1>3, <1>4, <1>5, <1>6, <1>7, <1>8 DEF PInv, PTypes

LEMMA PageRunAnswered == Page!PageConstants /\ PInv /\ Page!RunAnswered => PInv'
<1> SUFFICES ASSUME Page!PageConstants, PInv, Page!RunAnswered PROVE PInv'
  OBVIOUS
<1>1. RowTyped'
  BY DEF Page!RunAnswered, PInv, PTypes, RowTyped, Page!Lifecycle!Statuses
<1>2. FlagsTyped'
  BY DEF Page!RunAnswered, PInv, PTypes, FlagsTyped
<1>3. PanelTyped'
  BY DEF Page!RunAnswered, PInv, PTypes, PanelTyped, Page!Lifecycle!Statuses
<1>4. SubmitTyped'
  BY DEF Page!RunAnswered, PInv, PTypes, SubmitTyped, Answers, Page!Lifecycle!Statuses
<1>5. PRequest'
  BY DEF Page!RunAnswered, PInv, PTypes, PRequest, Judged, Page!PageConstants
<1>6. PShown'
  BY DEF Page!RunAnswered, PInv, PTypes, PShown, Judged, Pending, Page!PageConstants
<1>7. PMixed'
  BY DEF Page!RunAnswered, PInv, PMixed, Pending
<1>8. PToasts'
  BY DEF Page!RunAnswered, PInv, PToasts, Judged, Pending
<1>9. QED
  BY <1>1, <1>2, <1>3, <1>4, <1>5, <1>6, <1>7, <1>8 DEF PInv, PTypes

LEMMA PageClickSubmit == Page!PageConstants /\ PInv /\ Page!ClickSubmit => PInv'
<1> SUFFICES ASSUME Page!PageConstants, PInv, Page!ClickSubmit PROVE PInv'
  OBVIOUS
<1>1. \/ /\ prompt' = "sign_in"
         /\ UNCHANGED <<shown, results, submit, mixed>>
      \/ /\ submit' = [pc |-> "posting", id |-> "none", polls |-> 0, got |-> "none"]
         /\ shown' = "submitting" /\ results' = "none" /\ mixed' = running
         /\ prompt' = prompt
  BY DEF Page!ClickSubmit, Page!NoSubmit
<1>2. /\ UNCHANGED <<pageRow, sync, session, auth, page, running, toasts>>
      /\ submit.pc = "idle"
  BY DEF Page!ClickSubmit
<1>3. \A u \in toasts : u[1] # "none"
  BY DEF PInv, PTypes, PanelTyped, Page!PageConstants
<1>4. MaxPolls \in Nat \ {0}
  BY DEF Page!PageConstants
<1>5. RowTyped'
  BY <1>1, <1>2, <1>3, <1>4 DEF PInv, PTypes, RowTyped, Page!Lifecycle!Statuses
<1>6. FlagsTyped'
  BY <1>1, <1>2, <1>3, <1>4 DEF PInv, PTypes, FlagsTyped
<1>7. PanelTyped'
  BY <1>1, <1>2, <1>3, <1>4 DEF PInv, PTypes, PanelTyped, Page!Lifecycle!Statuses
<1>8. SubmitTyped'
  BY <1>1, <1>2, <1>3, <1>4 DEF PInv, PTypes, SubmitTyped, Answers, Page!Lifecycle!Statuses
<1>9. PRequest'
  BY <1>1, <1>2, <1>3, <1>4 DEF PInv, PTypes, PRequest, Judged, Page!PageConstants
<1>10. PShown'
  BY <1>1, <1>2, <1>3, <1>4 DEF PInv, PTypes, PShown, Judged, Pending, Page!PageConstants
<1>11. PMixed'
  BY <1>1, <1>2, <1>3, <1>4 DEF PInv, PTypes, PMixed, Pending
<1>12. PToasts'
  BY <1>1, <1>2, <1>3, <1>4 DEF PInv, PTypes, PToasts, Judged, Pending
<1>13. QED
  BY <1>5, <1>6, <1>7, <1>8, <1>9, <1>10, <1>11, <1>12 DEF PInv, PTypes

LEMMA PagePollReads == Page!PageConstants /\ PInv /\ Page!PollReads => PInv'
<1> SUFFICES ASSUME Page!PageConstants, PInv, Page!PollReads PROVE PInv'
  OBVIOUS
<1>1. PICK answer \in {"none"} \cup (Page!Lifecycle!Statuses \ {"absent", "deleted"}) :
          /\ submit' = [pc |-> "fetching", id |-> submit.id, polls |-> submit.polls + 1,
                        got |-> answer]
          /\ answer = "none" \/ answer = pageRow[submit.id]
  <2>1. submit.id \in Submissions /\ pageRow[submit.id] \in Page!Lifecycle!Statuses \ {"absent"}
    BY DEF Page!PollReads, PInv, PTypes, PRequest, RowTyped
  <2>2. PICK answer \in {"none"} \cup (IF session /\ pageRow[submit.id] # "deleted"
                                       THEN {pageRow[submit.id]} ELSE {}) :
            submit' = [submit EXCEPT !.pc = "fetching", !.got = answer, !.polls = @ + 1]
    BY DEF Page!PollReads
  <2>3. submit' = [pc |-> "fetching", id |-> submit.id, polls |-> submit.polls + 1, got |-> answer]
    BY <2>2 DEF PInv, PTypes, SubmitTyped
  <2>4. QED
    BY <2>1, <2>2, <2>3
<1>2. /\ UNCHANGED <<pageRow, sync, session, auth, page, shown, results, running, prompt, toasts, mixed>>
      /\ submit.pc = "waiting"
  BY DEF Page!PollReads
<1>3. submit.id \in Submissions /\ submit.polls < MaxPolls /\ submit.polls \in Nat
  BY <1>2 DEF PInv, PTypes, SubmitTyped, PRequest
<1>4. MaxPolls \in Nat \ {0}
  BY DEF Page!PageConstants
<1>5. RowTyped'
  BY <1>1, <1>2, <1>3, <1>4 DEF PInv, PTypes, RowTyped, Page!Lifecycle!Statuses
<1>6. FlagsTyped'
  BY <1>1, <1>2, <1>3, <1>4 DEF PInv, PTypes, FlagsTyped
<1>7. PanelTyped'
  BY <1>1, <1>2, <1>3, <1>4 DEF PInv, PTypes, PanelTyped, Page!Lifecycle!Statuses
<1>8. SubmitTyped'
  BY <1>1, <1>2, <1>3, <1>4 DEF PInv, PTypes, SubmitTyped, Answers, Page!Lifecycle!Statuses
<1>9. PRequest'
  <2>1. answer \notin {"401", "error"} /\ (answer \in Verdicts => answer = pageRow[submit.id])
    BY <1>1 DEF Page!PageConstants, Page!Lifecycle!Statuses
  <2>2. /\ submit'.id = submit.id /\ submit'.pc = "fetching" /\ submit'.got = answer
        /\ pageRow' = pageRow
    BY <1>1, <1>2
  <2>3. pageRow[submit.id] # "absent"
    BY <1>3 DEF PInv, PRequest
  <2>4. QED
    BY <1>3, <2>1, <2>2, <2>3 DEF PRequest, Judged
<1>10. PShown'
  BY <1>1, <1>2, <1>3, <1>4 DEF PInv, PTypes, PShown, Judged, Pending, Page!PageConstants
<1>11. PMixed'
  BY <1>1, <1>2, <1>3, <1>4 DEF PInv, PTypes, PMixed, Pending
<1>12. PToasts'
  BY <1>1, <1>2, <1>3, <1>4 DEF PInv, PTypes, PToasts, Judged, Pending
<1>13. QED
  BY <1>5, <1>6, <1>7, <1>8, <1>9, <1>10, <1>11, <1>12 DEF PInv, PTypes

LEMMA PageServerPosts == Page!PageConstants /\ PInv /\ Page!ServerPosts => PInv'
<1> SUFFICES ASSUME Page!PageConstants, PInv, Page!ServerPosts PROVE PInv'
  OBVIOUS
<1>1. submit.pc = "posting" /\ submit.id = "none" /\ submit.polls = 0
  BY DEF Page!ServerPosts, PInv, PRequest
<1>2. UNCHANGED <<sync, session, auth, page, shown, results, running, prompt, toasts, mixed>>
  BY DEF Page!ServerPosts
<1>3. \/ /\ pageRow' = pageRow
         /\ \/ submit' = [pc |-> "posted", id |-> "none", polls |-> 0, got |-> "401"]
            \/ submit' = [pc |-> "posted", id |-> "none", polls |-> 0, got |-> "error"]
      \/ \E s \in Submissions, st \in IF sync THEN Verdicts ELSE {"queued"} :
            /\ pageRow[s] = "absent"
            /\ pageRow' = [pageRow EXCEPT ![s] = st]
            /\ \/ submit' = [pc |-> "posted", id |-> "none", polls |-> 0, got |-> "error"]
               \/ submit' = [pc |-> "posted", id |-> s, polls |-> 0, got |-> st]
  <2>1. CASE session = FALSE
    BY <1>1, <2>1 DEF Page!ServerPosts, PInv, PTypes, SubmitTyped
  <2>2. CASE /\ submit' = [submit EXCEPT !.pc = "posted", !.got = "error"]
             /\ UNCHANGED pageRow
    BY <1>1, <2>2 DEF PInv, PTypes, SubmitTyped
  <2>3. ASSUME NEW s \in Submissions \ Page!Created,
               NEW st \in IF sync THEN Verdicts ELSE {"queued"}, NEW lost \in BOOLEAN,
               pageRow' = [pageRow EXCEPT ![s] = st],
               submit' = [submit EXCEPT !.pc = "posted", !.id = IF lost THEN "none" ELSE s,
                                        !.got = IF lost THEN "error" ELSE st]
        PROVE  /\ pageRow[s] = "absent"
               /\ \/ submit' = [pc |-> "posted", id |-> "none", polls |-> 0, got |-> "error"]
                  \/ submit' = [pc |-> "posted", id |-> s, polls |-> 0, got |-> st]
    BY <1>1, <2>3 DEF Page!Created, PInv, PTypes, SubmitTyped
  <2>4. QED
    BY <2>1, <2>2, <2>3 DEF Page!ServerPosts, PInv, PTypes, FlagsTyped
<1>4. ~(shown \in Verdicts) /\ ~(results \in Submissions)
  BY <1>1 DEF PInv, PRequest
<1>5. \A u \in toasts : u[1] \in Submissions /\ u[2] \in Verdicts /\ u[1] # "none"
  BY DEF PInv, PTypes, PanelTyped, Page!PageConstants
<1>6. MaxPolls \in Nat \ {0} /\ \A v \in Verdicts : v \notin {"absent", "none", "401", "error", "queued"}
  BY DEF Page!PageConstants
<1>7. RowTyped'
  BY <1>1, <1>2, <1>3, <1>4, <1>5, <1>6 DEF PInv, PTypes, RowTyped, Page!Lifecycle!Statuses
<1>8. FlagsTyped'
  BY <1>1, <1>2, <1>3, <1>4, <1>5, <1>6 DEF PInv, PTypes, FlagsTyped
<1>9. PanelTyped'
  BY <1>1, <1>2, <1>3, <1>4, <1>5, <1>6 DEF PInv, PTypes, PanelTyped, Page!Lifecycle!Statuses
<1>10. SubmitTyped'
  <2>1. \A st \in IF sync THEN Verdicts ELSE {"queued"} : st \in Answers
    BY <1>6 DEF Answers, Page!Lifecycle!Statuses, Page!PageConstants
  <2>2. {"401", "error"} \subseteq Answers /\ 0 \in 0..MaxPolls
    BY <1>6 DEF Answers
  <2>3. submit' \in [pc : {"idle", "posting", "posted", "waiting", "fetching"},
                      id : {"none"} \cup Submissions, polls : 0..MaxPolls, got : Answers]
    BY <1>3, <2>1, <2>2
  <2>4. QED
    BY <2>3 DEF SubmitTyped, Answers, Page!Lifecycle!Statuses
<1>11. PRequest'
  <2>1. submit'.pc = "posted" /\ submit'.polls = 0
    BY <1>3
  <2>2. UNCHANGED <<sync, shown, results>>
    BY <1>2
  <2>3. CASE submit'.id = "none" /\ submit'.got \in {"401", "error"}
    <3>1. "none" \notin Submissions
      BY DEF Page!PageConstants
    <3>2. QED
      BY <1>4, <1>6, <2>1, <2>2, <2>3, <3>1 DEF PRequest
  <2>4. ASSUME NEW s \in Submissions, NEW st \in IF sync THEN Verdicts ELSE {"queued"},
               pageRow' = [pageRow EXCEPT ![s] = st], submit'.id = s, submit'.got = st
        PROVE  PRequest'
    <3>1. pageRow'[s] = st /\ st # "absent" /\ st \notin {"none", "401", "error"}
      BY <1>6, <2>4 DEF PInv, PTypes, RowTyped
    <3>2. sync => st \in Verdicts
      BY <2>4
    <3>3. QED
      BY <1>4, <2>1, <2>2, <2>4, <3>1, <3>2 DEF PRequest, Judged
  <2>5. QED
    BY <1>3, <2>3, <2>4
<1>12. PShown'
  BY <1>1, <1>2, <1>3, <1>4, <1>5, <1>6 DEF PInv, PTypes, PShown, Judged, Pending, Page!PageConstants
<1>13. PMixed'
  BY <1>1, <1>2, <1>3, <1>4, <1>5, <1>6 DEF PInv, PTypes, PMixed, Pending
<1>14. PToasts'
  <2>1. \A u \in toasts : u[1] # submit'.id /\ pageRow'[u[1]] = pageRow[u[1]]
    <3>1. \A u \in toasts : pageRow[u[1]] # "absent"
      BY <1>5, <1>6 DEF PInv, PToasts, Judged
    <3>2. QED
      BY <1>3, <1>5, <3>1 DEF PInv, PTypes, RowTyped
  <2>2. QED
    BY <1>2, <2>1 DEF PInv, PToasts, Judged, Pending
<1>15. QED
  BY <1>7, <1>8, <1>9, <1>10, <1>11, <1>12, <1>13, <1>14 DEF PInv, PTypes

LEMMA PagePostAnswered == Page!PageConstants /\ PInv /\ Page!PostAnswered => PInv'
<1> SUFFICES ASSUME Page!PageConstants, PInv, Page!PostAnswered PROVE PInv'
  OBVIOUS
<1>1. /\ submit.pc = "posted" /\ submit.polls = 0 /\ submit.got # "none"
      /\ shown \notin Verdicts /\ results \notin Submissions
  BY DEF Page!PostAnswered, PInv, PRequest
<1>2. UNCHANGED <<pageRow, sync, session, page, running, toasts, mixed>>
  BY DEF Page!PostAnswered
<1>3. \/ /\ auth' = "none"
         /\ submit' = [pc |-> "idle", id |-> "none", polls |-> 0, got |-> "none"]
         /\ prompt' \in {"expired", prompt}
         /\ shown' = "null" /\ UNCHANGED results
      \/ /\ submit' = [pc |-> "idle", id |-> "none", polls |-> 0, got |-> "none"]
         /\ shown' \in {"error", shown}
         /\ UNCHANGED <<auth, prompt, results>>
      \/ /\ submit.id \in Submissions /\ submit.got \notin {"401", "error"}
         /\ sync /\ submit.got \in Verdicts
         /\ submit' = [pc |-> "idle", id |-> submit.id, polls |-> 0, got |-> "none"]
         /\ \/ shown' = submit.got /\ results' = submit.id
            \/ shown' = shown /\ results' = results
         /\ UNCHANGED <<auth, prompt>>
      \/ /\ submit.id \in Submissions /\ submit.got \notin {"401", "error"}
         /\ ~sync
         /\ submit' = [pc |-> "waiting", id |-> submit.id, polls |-> 0, got |-> "none"]
         /\ shown' \in {submit.got, shown} /\ results' = results
         /\ UNCHANGED <<auth, prompt>>
  <2>1. CASE submit.got = "401"
    BY <1>1, <2>1 DEF Page!PostAnswered, Page!NoSubmit
  <2>2. CASE submit.got = "error"
    BY <1>1, <2>2 DEF Page!PostAnswered, Page!NoSubmit
  <2>3. CASE submit.got \notin {"401", "error"}
    <3>1. submit.id \in Submissions /\ submit.id # "none" /\ (sync => submit.got \in Verdicts)
      BY <1>1, <2>3 DEF PInv, PRequest, Page!PageConstants
    <3>2. /\ submit' = IF sync THEN [Page!NoSubmit EXCEPT !.id = submit.id]
                       ELSE [submit EXCEPT !.pc = "waiting", !.got = "none"]
          /\ shown' = (IF Page!Shown THEN submit.got ELSE shown)
          /\ results' = (IF Page!Shown /\ sync THEN submit.id ELSE results)
          /\ UNCHANGED <<auth, prompt>>
      BY <2>3 DEF Page!PostAnswered
    <3>3. CASE sync
      <4>1. submit' = [pc |-> "idle", id |-> submit.id, polls |-> 0, got |-> "none"]
        BY <3>2, <3>3 DEF Page!NoSubmit
      <4>2. QED
        BY <2>3, <3>1, <3>2, <3>3, <4>1
    <3>4. CASE ~sync
      <4>1. submit' = [pc |-> "waiting", id |-> submit.id, polls |-> 0, got |-> "none"]
        BY <1>1, <3>2, <3>4 DEF PInv, PTypes, SubmitTyped
      <4>2. QED
        BY <2>3, <3>1, <3>2, <3>4, <4>1
    <3>5. QED
      BY <3>3, <3>4
  <2>4. QED
    BY <2>1, <2>2, <2>3
<1>4. /\ submit.got \in Answers
      /\ submit.got \in Verdicts => Judged(submit.id, submit.got)
      /\ submit.id \in Submissions => pageRow[submit.id] # "absent"
  BY DEF PInv, PTypes, SubmitTyped, PRequest
<1>5. \A u \in toasts : u[1] \in Submissions /\ u[2] \in Verdicts /\ u[1] # "none"
  BY DEF PInv, PTypes, PanelTyped, Page!PageConstants
<1>6. MaxPolls \in Nat \ {0} /\ \A v \in Verdicts : v \notin {"null", "none", "401", "error"}
  BY DEF Page!PageConstants
<1>7. RowTyped'
  BY <1>1, <1>2, <1>3, <1>4, <1>5, <1>6 DEF PInv, PTypes, RowTyped, Page!Lifecycle!Statuses
<1>8. FlagsTyped'
  BY <1>1, <1>2, <1>3, <1>4, <1>5, <1>6 DEF PInv, PTypes, FlagsTyped
<1>9. PanelTyped'
  <2>1. submit.got \notin {"401", "error"} => submit.got \in Page!Lifecycle!Statuses
    BY <1>1, <1>4 DEF Answers
  <2>2. shown' \in {"null", "error", shown, submit.got} /\ results' \in {results, submit.id}
    BY <1>3
  <2>3. /\ shown' = submit.got => submit.got \notin {"401", "error"} \/ shown' \in {"error", shown}
        /\ results' = submit.id => submit.id \in Submissions \/ results' = results
    BY <1>3
  <2>4. /\ shown' \in {"null", "submitting", "error"} \cup Page!Lifecycle!Statuses
        /\ results' \in {"none", "run"} \cup Submissions
    BY <2>1, <2>2, <2>3 DEF PInv, PTypes, PanelTyped
  <2>5. QED
    BY <1>2, <2>4 DEF PInv, PTypes, PanelTyped, Page!Lifecycle!Statuses
<1>10. SubmitTyped'
  BY <1>1, <1>2, <1>3, <1>4, <1>5, <1>6 DEF PInv, PTypes, SubmitTyped, Answers, Page!Lifecycle!Statuses
<1>11. PRequest'
  BY <1>1, <1>2, <1>3, <1>4, <1>5, <1>6 DEF PInv, PTypes, PRequest, Judged, Page!PageConstants
<1>12. PShown'
  BY <1>1, <1>2, <1>3, <1>4, <1>5, <1>6 DEF PInv, PTypes, PShown, Judged, Pending, Page!PageConstants
<1>13. PMixed'
  <2>1. running' = running /\ mixed' = mixed /\ (results' = "run" => results = "run")
    BY <1>1, <1>2, <1>3 DEF Page!PageConstants
  <2>2. QED
    BY <1>1, <2>1 DEF PInv, PMixed, Pending
<1>14. PToasts'
  BY <1>1, <1>2, <1>3, <1>4, <1>5, <1>6 DEF PInv, PTypes, PToasts, Judged, Pending
<1>15. QED
  BY <1>7, <1>8, <1>9, <1>10, <1>11, <1>12, <1>13, <1>14 DEF PInv, PTypes

LEMMA PagePollAnswered == Page!PageConstants /\ PInv /\ Page!PollAnswered => PInv'
<1> SUFFICES ASSUME Page!PageConstants, PInv, Page!PollAnswered PROVE PInv'
  OBVIOUS
<1>1. /\ submit.pc = "fetching" /\ submit.id \in Submissions
      /\ submit.got \in {"none"} \cup (Page!Lifecycle!Statuses \ {"absent", "deleted"})
      /\ submit.got \in Verdicts => Judged(submit.id, submit.got)
      /\ submit.polls \in 0..MaxPolls
  BY DEF Page!PollAnswered, PInv, PTypes, SubmitTyped, PRequest, Answers
<1>2. UNCHANGED <<pageRow, sync, session, auth, page, running, prompt, mixed>>
  BY DEF Page!PollAnswered
<1>3. \/ /\ submit' = [pc |-> "idle", id |-> submit.id, polls |-> 0, got |-> "none"]
         /\ submit.got \in Terminal
         /\ \/ shown' = submit.got /\ results' = submit.id
            \/ shown' = shown /\ results' = results
         /\ toasts' = toasts \/ toasts' = toasts \cup {<<submit.id, submit.got>>}
      \/ /\ submit' = [pc |-> "idle", id |-> submit.id, polls |-> 0, got |-> "none"]
         /\ shown' = shown \/ (submit.got # "none" /\ shown' = submit.got)
         /\ results' = results /\ toasts' = toasts
      \/ /\ submit' = [pc |-> "waiting", id |-> submit.id, polls |-> submit.polls, got |-> "none"]
         /\ submit.polls # MaxPolls
         /\ shown' = shown \/ (submit.got # "none" /\ shown' = submit.got)
         /\ results' = results /\ toasts' = toasts
  <2>1. /\ [Page!NoSubmit EXCEPT !.id = submit.id]
               = [pc |-> "idle", id |-> submit.id, polls |-> 0, got |-> "none"]
        /\ submit' = [submit EXCEPT !.pc = "waiting", !.got = "none"]
           => submit' = [pc |-> "waiting", id |-> submit.id, polls |-> submit.polls, got |-> "none"]
    <3>1. [Page!NoSubmit EXCEPT !.id = submit.id]
               = [pc |-> "idle", id |-> submit.id, polls |-> 0, got |-> "none"]
      BY DEF Page!NoSubmit
    <3>2. submit' = [submit EXCEPT !.pc = "waiting", !.got = "none"]
           => submit' = [pc |-> "waiting", id |-> submit.id, polls |-> submit.polls, got |-> "none"]
      BY DEF PInv, PTypes, SubmitTyped
    <3>3. QED
      BY <3>1, <3>2
  <2>2. "none" \notin Terminal
    BY DEF Page!PageConstants
  <2>3. /\ submit' = IF submit.got \in Terminal \/ submit.polls = MaxPolls
                     THEN [Page!NoSubmit EXCEPT !.id = submit.id]
                     ELSE [submit EXCEPT !.pc = "waiting", !.got = "none"]
        /\ shown' = (IF Page!Shown /\ submit.got # "none" THEN submit.got ELSE shown)
        /\ results' = (IF Page!Shown /\ submit.got \in Terminal THEN submit.id ELSE results)
        /\ toasts' = toasts \cup (IF submit.got \in Page!Announced THEN {<<submit.id, submit.got>>}
                                 ELSE {})
    BY DEF Page!PollAnswered
  <2>4. Page!Announced \subseteq Terminal
    BY DEF Page!Announced
  <2>5. CASE submit.got \in Terminal
    <3>1. toasts' = toasts \/ toasts' = toasts \cup {<<submit.id, submit.got>>}
      BY <2>3
    <3>2. \/ shown' = submit.got /\ results' = submit.id
          \/ shown' = shown /\ results' = results
      BY <2>2, <2>3, <2>5
    <3>3. QED
      BY <2>1, <2>3, <2>5, <3>1, <3>2
  <2>6. CASE submit.got \notin Terminal
    <3>1. toasts' = toasts /\ results' = results
      BY <2>3, <2>4, <2>6
    <3>2. shown' = shown \/ (submit.got # "none" /\ shown' = submit.got)
      BY <2>3
    <3>3. QED
      BY <2>1, <2>3, <2>6, <3>1, <3>2
  <2>7. QED
    BY <2>5, <2>6
<1>4. /\ pageRow[submit.id] # "absent" /\ results \notin Submissions
      /\ shown \in Verdicts => Judged(submit.id, shown)
  BY <1>1 DEF PInv, PRequest, PShown, Pending
<1>5. \A u \in toasts : u[1] # submit.id
  BY <1>1 DEF PInv, PToasts, Pending
<1>6. /\ MaxPolls \in Nat \ {0} /\ \A v \in Verdicts : v \notin {"null", "none", "401", "error"}
      /\ Terminal \subseteq Verdicts
  BY DEF Page!PageConstants
<1>7. RowTyped'
  BY <1>1, <1>2, <1>3, <1>4, <1>5, <1>6 DEF PInv, PTypes, RowTyped, Page!Lifecycle!Statuses
<1>8. FlagsTyped'
  BY <1>1, <1>2, <1>3, <1>4, <1>5, <1>6 DEF PInv, PTypes, FlagsTyped
<1>9. PanelTyped'
  BY <1>1, <1>2, <1>3, <1>4, <1>5, <1>6 DEF PInv, PTypes, PanelTyped, Page!Lifecycle!Statuses
<1>10. SubmitTyped'
  BY <1>1, <1>2, <1>3, <1>4, <1>5, <1>6 DEF PInv, PTypes, SubmitTyped, Answers, Page!Lifecycle!Statuses
<1>11. PRequest'
  BY <1>1, <1>2, <1>3, <1>4, <1>5, <1>6 DEF PInv, PTypes, PRequest, Judged, Page!PageConstants
<1>12. PShown'
  BY <1>1, <1>2, <1>3, <1>4, <1>5, <1>6 DEF PInv, PTypes, PShown, Judged, Pending, Page!PageConstants
<1>13. PMixed'
  <2>1. running' = running /\ mixed' = mixed /\ (results' = "run" => results = "run")
    BY <1>1, <1>2, <1>3 DEF Page!PageConstants
  <2>2. QED
    BY <1>1, <2>1 DEF PInv, PMixed, Pending
<1>14. PToasts'
  BY <1>1, <1>2, <1>3, <1>4, <1>5, <1>6 DEF PInv, PTypes, PToasts, Judged, Pending
<1>15. QED
  BY <1>7, <1>8, <1>9, <1>10, <1>11, <1>12, <1>13, <1>14 DEF PInv, PTypes

LEMMA PageInit == Page!PageConstants /\ Page!Init => PInv
<1> SUFFICES ASSUME Page!PageConstants, Page!Init PROVE PInv
  OBVIOUS
<1>1. RowTyped
  BY DEF Page!Init, Page!Lifecycle!Init, RowTyped, Page!Lifecycle!Statuses
<1>2. FlagsTyped
  BY DEF Page!Init, FlagsTyped
<1>3. PanelTyped
  BY DEF Page!Init, PanelTyped
<1>4. submit = [pc |-> "idle", id |-> "none", polls |-> 0, got |-> "none"]
  BY DEF Page!Init, Page!NoSubmit
<1>5. SubmitTyped
  BY <1>4 DEF SubmitTyped, Answers, Page!PageConstants
<1>6. PRequest
  BY <1>4 DEF Page!Init, PRequest, Page!PageConstants
<1>7. PShown
  BY DEF Page!Init, PShown, Page!PageConstants
<1>8. PMixed /\ PToasts
  BY DEF Page!Init, PMixed, PToasts
<1>9. QED
  BY <1>1, <1>2, <1>3, <1>5, <1>6, <1>7, <1>8 DEF PInv, PTypes

LEMMA PageNext == Page!PageConstants /\ PInv /\ [Page!Next]_(Page!vars) => PInv'
BY PageRowMoves, PageQuietSteps, PageLeave, PageClickRun, PageRunAnswered, PageClickSubmit,
   PageServerPosts, PagePostAnswered, PagePollReads, PagePollAnswered
DEF Page!Next, Page!SubmitStep

\* What the problem page shows of a submission is true: a verdict on it or in a toast is that
\* of the row it was asked for, the results below it are of that submission, and it is
\* announced once, however the polling overlaps with Run, with leaving the page, with the
\* session's end and with what the pipeline does to the row.
THEOREM PageStaysHonest == Page!Spec => []PageIsHonest
<1>1. PInv => PageIsHonest
  <2> SUFFICES ASSUME PInv PROVE PageIsHonest
    OBVIOUS
  <2>1. Page!TypeOK
    BY DEF PInv, PTypes, RowTyped, FlagsTyped, PanelTyped, SubmitTyped, Page!TypeOK
  <2>2. Page!VerdictIsTheRows
    BY DEF PInv, PShown, Judged, Page!VerdictIsTheRows
  <2>3. Page!ResultsMatchStatus
    <3>1. shown = "accepted" => "accepted" \in Verdicts
      BY DEF PInv, PTypes, PanelTyped, Page!Lifecycle!Statuses
    <3>2. results \in Submissions => results = submit.id /\ shown \in Verdicts
      BY DEF PInv, PShown
    <3>3. results = "run" /\ shown # "null" => mixed
      BY DEF PInv, PMixed
    <3>4. Page!ClaimsAllPassed => pageRow[submit.id] \in {"accepted", "deleted"}
      BY <3>1 DEF PInv, PShown, Judged, Page!ClaimsAllPassed
    <3>5. QED
      BY <3>2, <3>3, <3>4 DEF Page!ResultsMatchStatus
  <2>4. Page!ToastsAreTrue
    BY DEF PInv, PToasts, Judged, Page!ToastsAreTrue
  <2>5. QED
    BY <2>1, <2>2, <2>3, <2>4 DEF PageIsHonest, Page!PageIsHonest
<1>2. Page!Init => PInv
  BY PageInit, PageAssumption
<1>3. PInv /\ [Page!Next]_(Page!vars) => PInv'
  BY PageNext, PageAssumption
<1>4. QED
  BY <1>1, <1>2, <1>3, PTL DEF Page!Spec

-----------------------------------------------------------------------------
(* The hints of a problem.  An open hint is acknowledged and so are those  *)
(* above it, in the storage, in a panel, and in what an orphan will save.  *)

CONSTANTS Panels, HintCount, MaxOrphans
VARIABLES stored, panel, orphans, earned, shared, unsaved

Hinting == INSTANCE Hints

InARow(S) == \A i \in S : 1..i \subseteq S

PanelFits(w, e) ==
    /\ InARow(w.revealed) /\ w.revealed \subseteq e
    /\ ~w.mounted => w = Hinting!Closed
    /\ 1..(w.pending - 1) \subseteq w.revealed
    /\ w.request # "none" => w.pending # 0
    /\ Hinting!Reveals(w.request) => w.pending \in e

OrphanFits(r, e) ==
    /\ InARow(r.base) /\ r.base \subseteq e
    /\ 1..(r.index - 1) \subseteq r.base
    /\ Hinting!Reveals(r.request) => r.index \in e

\* Of the panels, one that is there alone has saved all that it shows, if the storage works.
Alone ==
    ~shared => \A p \in Panels : panel[p].mounted =>
        /\ unsaved \/ stored = panel[p].revealed
        /\ orphans = {} /\ \A q \in Panels : panel[q].mounted => q = p

HintsInv ==
    /\ Hinting!TypeOK
    /\ InARow(stored) /\ stored \subseteq earned
    /\ \A p \in Panels : PanelFits(panel[p], earned)
    /\ \A r \in orphans : OrphanFits(r, earned)
    /\ Alone

PanelSet ==
    [mounted : BOOLEAN, revealed : SUBSET Hinting!Hint, pending : 0..HintCount,
     request : Hinting!Answers \cup {"none", "asked"}]
OrphanSet ==
    [base : SUBSET Hinting!Hint, index : Hinting!Hint, request : Hinting!Answers \cup {"asked"}]

LEMMA OneMoreInARow ==
    ASSUME NEW S, NEW i \in Nat \ {0}, InARow(S), 1..(i - 1) \subseteq S
    PROVE  InARow(S \cup {i})
<1>1. ASSUME NEW j \in 1..i PROVE j \in S \cup {i}
  <2>1. j = i \/ j \in 1..(i - 1)
    OBVIOUS
  <2>2. QED
    BY <2>1
<1>2. QED
  BY <1>1 DEF InARow

LEMMA FitsForGood ==
    ASSUME NEW e, NEW f, e \subseteq f
    PROVE  /\ \A w : PanelFits(w, e) => PanelFits(w, f)
           /\ \A r : OrphanFits(r, e) => OrphanFits(r, f)
BY DEF PanelFits, OrphanFits

LEMMA PanelShape ==
    ASSUME HintsInv, NEW p \in Panels
    PROVE  /\ panel[p] \in PanelSet /\ PanelFits(panel[p], earned)
           /\ panel[p].mounted \in BOOLEAN /\ panel[p].revealed \subseteq Hinting!Hint
           /\ panel[p].pending \in 0..HintCount
           /\ panel[p].request \in Hinting!Answers \cup {"none", "asked"}
BY DEF HintsInv, Hinting!TypeOK, PanelSet

\* One panel becomes w, and what is earned grows.
LEMMA PanelChanges ==
    ASSUME HintsInv, NEW p \in Panels, NEW w \in PanelSet, panel' = [panel EXCEPT ![p] = w],
           earned \subseteq earned', earned' \subseteq Hinting!Hint, PanelFits(w, earned')
    PROVE  /\ panel' \in [Panels -> PanelSet]
           /\ \A q \in Panels : panel'[q] = IF q = p THEN w ELSE panel[q]
           /\ \A q \in Panels : PanelFits(panel'[q], earned')
           /\ \A r \in orphans : OrphanFits(r, earned')
<1>1. panel \in [Panels -> PanelSet]
  BY DEF HintsInv, Hinting!TypeOK, PanelSet
<1>2. panel' \in [Panels -> PanelSet] /\ \A q \in Panels : panel'[q] = IF q = p THEN w ELSE panel[q]
  BY <1>1
<1>3. QED
  BY <1>2, FitsForGood DEF HintsInv

\* An action of one panel that leaves the storage and the orphans alone and does not mount.
LEMMA QuietPanel ==
    ASSUME HintsInv, NEW p \in Panels, NEW w \in PanelSet, panel' = [panel EXCEPT ![p] = w],
           earned \subseteq earned', earned' \subseteq Hinting!Hint, PanelFits(w, earned'),
           w.revealed = panel[p].revealed, w.mounted = panel[p].mounted,
           UNCHANGED <<stored, orphans, shared, unsaved>>
    PROVE  HintsInv'
<1>1. /\ panel' \in [Panels -> PanelSet]
      /\ \A q \in Panels : panel'[q] = IF q = p THEN w ELSE panel[q]
      /\ \A q \in Panels : PanelFits(panel'[q], earned')
      /\ \A r \in orphans : OrphanFits(r, earned')
  BY PanelChanges
<1>2. Hinting!TypeOK'
  BY <1>1 DEF HintsInv, Hinting!TypeOK, PanelSet
<1>3. Alone'
  BY <1>1 DEF HintsInv, Alone
<1>4. QED
  BY <1>1, <1>2, <1>3 DEF HintsInv

LEMMA MountStep ==
    ASSUME HintCount \in Nat, HintsInv, NEW p \in Panels, Hinting!Mount(p)
    PROVE  HintsInv'
<1>0. PICK open \in {stored, {}} :
         /\ panel' = [panel EXCEPT ![p] = [Hinting!Closed EXCEPT !.mounted = TRUE, !.revealed = open]]
         /\ unsaved' = (open # stored)
  BY DEF Hinting!Mount
<1>1. PICK w : w = [Hinting!Closed EXCEPT !.mounted = TRUE, !.revealed = open]
  OBVIOUS
<1>2. /\ ~panel[p].mounted /\ panel' = [panel EXCEPT ![p] = w]
      /\ shared' = (shared \/ Hinting!Others(p) # {} \/ orphans # {})
      /\ UNCHANGED <<stored, orphans, earned>>
  BY <1>0, <1>1 DEF Hinting!Mount
<1>3. /\ open \subseteq Hinting!Hint /\ open \subseteq earned /\ InARow(open)
      /\ earned \subseteq Hinting!Hint /\ shared' \in BOOLEAN /\ unsaved' \in BOOLEAN
  BY <1>0, <1>2 DEF HintsInv, Hinting!TypeOK, InARow
<1>4. w = [mounted |-> TRUE, revealed |-> open, pending |-> 0, request |-> "none"]
  BY <1>1 DEF Hinting!Closed
<1>5. w \in PanelSet /\ PanelFits(w, earned)
  <2>1. 0 \in 0..HintCount
    OBVIOUS
  <2>2. w \in PanelSet
    BY <1>3, <1>4, <2>1 DEF PanelSet
  <2>3. 1..(0 - 1) = {}
    OBVIOUS
  <2>4. QED
    BY <1>3, <1>4, <2>2, <2>3 DEF PanelFits, Hinting!Reveals
<1>6. /\ panel' \in [Panels -> PanelSet]
      /\ \A q \in Panels : panel'[q] = IF q = p THEN w ELSE panel[q]
      /\ \A q \in Panels : PanelFits(panel'[q], earned')
      /\ \A r \in orphans : OrphanFits(r, earned')
  BY <1>2, <1>3, <1>5, PanelChanges
<1>7. Hinting!TypeOK'
  BY <1>2, <1>3, <1>6 DEF HintsInv, Hinting!TypeOK, PanelSet
<1>8. Alone'
  <2> SUFFICES ASSUME ~shared', NEW q \in Panels, panel'[q].mounted
               PROVE  /\ unsaved' \/ stored' = panel'[q].revealed
                      /\ orphans' = {} /\ \A o \in Panels : panel'[o].mounted => o = q
    BY DEF Alone
  <2>1. orphans = {} /\ \A o \in Panels : panel[o].mounted => o = p
    BY <1>2 DEF Hinting!Others
  <2>2. q = p /\ \A o \in Panels : panel'[o].mounted => o = p
    BY <1>6, <2>1
  <2>3. unsaved' \/ open = stored
    BY <1>0
  <2>4. QED
    BY <1>2, <1>4, <1>6, <2>1, <2>2, <2>3
<1>9. InARow(stored') /\ stored' \subseteq earned'
  <2>1. InARow(stored) /\ stored \subseteq earned
    BY DEF HintsInv
  <2>2. stored' = stored /\ earned' = earned
    BY <1>2
  <2>3. QED
    BY <2>1, <2>2
<1>10. \A r \in orphans' : OrphanFits(r, earned')
  BY <1>2, <1>6
<1>11. QED
  BY <1>6, <1>7, <1>8, <1>9, <1>10 DEF HintsInv

LEMMA LeaveStep ==
    ASSUME HintCount \in Nat, HintsInv, NEW p \in Panels, Hinting!Leave(p)
    PROVE  HintsInv'
<1>1. PICK w : w = panel[p]
  OBVIOUS
<1>2. PICK o : o = [base |-> w.revealed, index |-> w.pending, request |-> w.request]
  OBVIOUS
<1>3. /\ w.mounted /\ panel' = [panel EXCEPT ![p] = Hinting!Closed]
      /\ orphans' = IF w.request = "none" THEN orphans ELSE orphans \cup {o}
      /\ UNCHANGED <<stored, earned, shared, unsaved>>
  BY <1>1, <1>2 DEF Hinting!Leave
<1>4. /\ w \in PanelSet /\ PanelFits(w, earned) /\ w.revealed \subseteq Hinting!Hint
      /\ w.pending \in 0..HintCount
      /\ w.request \in Hinting!Answers \cup {"none", "asked"}
  BY <1>1, PanelShape
<1>5. w.request # "none" => o \in OrphanSet /\ OrphanFits(o, earned)
  <2> SUFFICES ASSUME w.request # "none" PROVE o \in OrphanSet /\ OrphanFits(o, earned)
    OBVIOUS
  <2>1. w.pending \in Hinting!Hint
    BY <1>4 DEF PanelFits, Hinting!Hint
  <2>2. o \in OrphanSet
    BY <1>2, <1>4, <2>1 DEF OrphanSet
  <2>3. OrphanFits(o, earned)
    BY <1>2, <1>4 DEF PanelFits, OrphanFits
  <2>4. QED
    BY <2>2, <2>3
<1>6. Hinting!Closed \in PanelSet /\ PanelFits(Hinting!Closed, earned)
  <2>1. 0 \in 0..HintCount /\ 1..(0 - 1) = {}
    OBVIOUS
  <2>2. QED
    BY <2>1 DEF Hinting!Closed, PanelSet, PanelFits, InARow, Hinting!Reveals
<1>7. /\ panel' \in [Panels -> PanelSet]
      /\ \A q \in Panels : panel'[q] = IF q = p THEN Hinting!Closed ELSE panel[q]
      /\ \A q \in Panels : PanelFits(panel'[q], earned')
      /\ \A r \in orphans : OrphanFits(r, earned')
  <2>1. earned \subseteq Hinting!Hint
    BY DEF HintsInv, Hinting!TypeOK
  <2>2. QED
    BY <1>3, <1>6, <2>1, PanelChanges
<1>8. orphans' \subseteq OrphanSet
  BY <1>3, <1>5 DEF HintsInv, Hinting!TypeOK, OrphanSet
<1>9. Hinting!TypeOK'
  BY <1>3, <1>7, <1>8 DEF HintsInv, Hinting!TypeOK, PanelSet, OrphanSet
<1>10. Alone'
  <2> SUFFICES ASSUME ~shared', NEW q \in Panels, panel'[q].mounted PROVE FALSE
    BY DEF Alone
  <2>1. q # p
    BY <1>7 DEF Hinting!Closed
  <2>2. panel[q].mounted /\ panel[p].mounted
    BY <1>1, <1>3, <1>7, <2>1
  <2>3. QED
    BY <1>3, <2>1, <2>2 DEF HintsInv, Alone
<1>11. \A r \in orphans' : OrphanFits(r, earned')
  BY <1>3, <1>5, <1>7
<1>12. QED
  BY <1>3, <1>7, <1>9, <1>10, <1>11 DEF HintsInv

LEMMA AskStep ==
    ASSUME HintsInv, NEW p \in Panels, Hinting!Ask(p)
    PROVE  HintsInv'
<1>1. PICK i \in Hinting!NextRevealable(panel[p].revealed) :
         panel' = [panel EXCEPT ![p] = [panel[p] EXCEPT !.pending = i]]
  BY DEF Hinting!Ask
<1>2. /\ panel[p].mounted /\ panel[p].pending = 0
      /\ UNCHANGED <<stored, orphans, earned, shared, unsaved>>
  BY DEF Hinting!Ask
<1>3. PICK w : w = panel[p]
  OBVIOUS
<1>4. PICK v : v = [w EXCEPT !.pending = i]
  OBVIOUS
<1>5. w \in PanelSet /\ PanelFits(w, earned) /\ w.mounted
      /\ w.request \in Hinting!Answers \cup {"none", "asked"}
  BY <1>2, <1>3, PanelShape
<1>6. i \in Hinting!Hint /\ i \in 0..HintCount /\ 1..(i - 1) \subseteq w.revealed
  BY <1>1, <1>3 DEF Hinting!NextRevealable, Hinting!Hint
<1>7. v \in PanelSet /\ v.pending = i /\ v.revealed = w.revealed /\ v.mounted = w.mounted
      /\ v.request = w.request
  BY <1>4, <1>5, <1>6 DEF PanelSet
<1>8. w.request = "none"
  BY <1>2, <1>3, <1>5 DEF PanelFits
<1>9. PanelFits(v, earned)
  BY <1>5, <1>6, <1>7, <1>8 DEF PanelFits, Hinting!Reveals
<1>10. earned \subseteq Hinting!Hint
  BY DEF HintsInv, Hinting!TypeOK
<1>11. QED
  BY <1>1, <1>2, <1>3, <1>4, <1>7, <1>9, <1>10, QuietPanel

LEMMA CancelStep ==
    ASSUME HintCount \in Nat, HintsInv, NEW p \in Panels, Hinting!Cancel(p)
    PROVE  HintsInv'
<1>1. /\ panel' = [panel EXCEPT ![p] = [panel[p] EXCEPT !.pending = 0]]
      /\ panel[p].pending # 0 /\ panel[p].request = "none"
      /\ UNCHANGED <<stored, orphans, earned, shared, unsaved>>
  BY DEF Hinting!Cancel
<1>2. PICK w : w = panel[p]
  OBVIOUS
<1>3. PICK v : v = [w EXCEPT !.pending = 0]
  OBVIOUS
<1>4. w \in PanelSet /\ PanelFits(w, earned)
  BY <1>2, PanelShape
<1>5. v \in PanelSet /\ v.pending = 0 /\ v.revealed = w.revealed /\ v.mounted = w.mounted
      /\ v.request = w.request
  BY <1>3, <1>4 DEF PanelSet
<1>6. w.mounted
  BY <1>1, <1>2, <1>4 DEF PanelFits, Hinting!Closed
<1>7. PanelFits(v, earned)
  <2>1. 1..(0 - 1) = {}
    OBVIOUS
  <2>2. QED
    BY <1>1, <1>2, <1>4, <1>5, <1>6, <2>1 DEF PanelFits, Hinting!Reveals
<1>8. earned \subseteq Hinting!Hint
  BY DEF HintsInv, Hinting!TypeOK
<1>9. QED
  BY <1>1, <1>2, <1>3, <1>5, <1>7, <1>8, QuietPanel

LEMMA ConfirmStep ==
    ASSUME HintsInv, NEW p \in Panels, Hinting!Confirm(p)
    PROVE  HintsInv'
<1>1. /\ panel' = [panel EXCEPT ![p] = [panel[p] EXCEPT !.request = "asked"]]
      /\ panel[p].pending # 0 /\ panel[p].request = "none"
      /\ UNCHANGED <<stored, orphans, earned, shared, unsaved>>
  BY DEF Hinting!Confirm
<1>2. PICK w : w = panel[p]
  OBVIOUS
<1>3. PICK v : v = [w EXCEPT !.request = "asked"]
  OBVIOUS
<1>4. w \in PanelSet /\ PanelFits(w, earned)
  BY <1>2, PanelShape
<1>5. v \in PanelSet /\ v.pending = w.pending /\ v.revealed = w.revealed
      /\ v.mounted = w.mounted /\ v.request = "asked"
  BY <1>3, <1>4 DEF PanelSet
<1>6. w.mounted
  BY <1>1, <1>2, <1>4 DEF PanelFits, Hinting!Closed
<1>7. PanelFits(v, earned)
  BY <1>1, <1>2, <1>4, <1>5, <1>6 DEF PanelFits, Hinting!Reveals
<1>8. earned \subseteq Hinting!Hint
  BY DEF HintsInv, Hinting!TypeOK
<1>9. QED
  BY <1>1, <1>2, <1>3, <1>5, <1>7, <1>8, QuietPanel

LEMMA ServeStep ==
    ASSUME HintsInv, NEW p \in Panels, Hinting!Serve(p)
    PROVE  HintsInv'
<1>1. PICK answer \in Hinting!Answers :
         /\ Hinting!Answer(panel[p].pending, answer)
         /\ panel' = [panel EXCEPT ![p] = [panel[p] EXCEPT !.request = answer]]
  BY DEF Hinting!Serve
<1>2. panel[p].request = "asked" /\ UNCHANGED <<stored, orphans, shared, unsaved>>
  BY DEF Hinting!Serve
<1>3. PICK w : w = panel[p]
  OBVIOUS
<1>4. PICK v : v = [w EXCEPT !.request = answer]
  OBVIOUS
<1>5. w \in PanelSet /\ PanelFits(w, earned) /\ w.pending \in 0..HintCount
  BY <1>3, PanelShape
<1>6. v \in PanelSet /\ v.pending = w.pending /\ v.revealed = w.revealed
      /\ v.mounted = w.mounted /\ v.request = answer
  BY <1>1, <1>4, <1>5 DEF PanelSet
<1>7. w.mounted /\ w.pending # 0
  BY <1>2, <1>3, <1>5 DEF PanelFits, Hinting!Closed
<1>8. earned \subseteq Hinting!Hint
  BY DEF HintsInv, Hinting!TypeOK
<1>9. /\ earned \subseteq earned' /\ earned' \subseteq Hinting!Hint
      /\ Hinting!Reveals(answer) => w.pending \in earned'
  <2>1. w.pending \in Hinting!Hint
    BY <1>5, <1>7 DEF Hinting!Hint
  <2>2. QED
    BY <1>1, <1>3, <1>8, <2>1 DEF Hinting!Answer, Hinting!Reveals
<1>10. PanelFits(v, earned')
  BY <1>5, <1>6, <1>7, <1>9 DEF PanelFits
<1>11. QED
  BY <1>1, <1>2, <1>3, <1>4, <1>6, <1>9, <1>10, QuietPanel

\* A panel that reveals saves all that it shows, or the storage stays as it is.
LEMMA RevealStep ==
    ASSUME HintCount \in Nat, HintsInv, NEW p \in Panels, Hinting!Reveal(p), panel[p].pending # 0,
           panel[p].pending \in earned', earned \subseteq earned', earned' \subseteq Hinting!Hint,
           UNCHANGED <<orphans, shared>>
    PROVE  HintsInv'
<1>1. PICK w : w = panel[p]
  OBVIOUS
<1>2. PICK open : open = w.revealed \cup {w.pending}
  OBVIOUS
<1>3. PICK v : v = [w EXCEPT !.revealed = open, !.pending = 0, !.request = "none"]
  OBVIOUS
<1>4. /\ \/ stored' = open /\ unsaved' = FALSE
         \/ stored' = stored /\ unsaved' = TRUE
      /\ panel' = [panel EXCEPT ![p] = v]
  <2>1. panel' = [panel EXCEPT ![p] =
                    [panel[p] EXCEPT !.revealed = panel[p].revealed \cup {panel[p].pending},
                                     !.pending = 0, !.request = "none"]]
    BY DEF Hinting!Reveal
  <2>2. \/ stored' = panel[p].revealed \cup {panel[p].pending} /\ unsaved' = FALSE
        \/ stored' = stored /\ unsaved' = TRUE
    BY DEF Hinting!Reveal, Hinting!Save
  <2>3. QED
    BY <1>1, <1>2, <1>3, <2>1, <2>2
<1>5. /\ w \in PanelSet /\ PanelFits(w, earned) /\ w.revealed \subseteq Hinting!Hint
      /\ w.pending \in 0..HintCount
  BY <1>1, PanelShape
<1>6. w.pending \in Nat \ {0} /\ w.pending \in Hinting!Hint
  BY <1>1, <1>5 DEF Hinting!Hint
<1>7. open \subseteq Hinting!Hint /\ open \subseteq earned' /\ InARow(open)
  <2>1. InARow(open)
    BY <1>2, <1>5, <1>6, OneMoreInARow DEF PanelFits
  <2>2. QED
    BY <1>1, <1>2, <1>5, <1>6, <2>1 DEF PanelFits
<1>8. w.mounted
  BY <1>1, <1>5 DEF PanelFits, Hinting!Closed
<1>9. v \in PanelSet /\ v.mounted /\ v.revealed = open /\ v.pending = 0 /\ v.request = "none"
  <2>1. 0 \in 0..HintCount
    OBVIOUS
  <2>2. QED
    BY <1>3, <1>5, <1>7, <1>8, <2>1 DEF PanelSet
<1>10. PanelFits(v, earned')
  <2>1. 1..(0 - 1) = {}
    OBVIOUS
  <2>2. QED
    BY <1>7, <1>9, <2>1 DEF PanelFits, Hinting!Reveals
<1>11. /\ panel' \in [Panels -> PanelSet]
       /\ \A q \in Panels : panel'[q] = IF q = p THEN v ELSE panel[q]
       /\ \A q \in Panels : PanelFits(panel'[q], earned')
       /\ \A r \in orphans : OrphanFits(r, earned')
  BY <1>4, <1>9, <1>10, PanelChanges
<1>12. Hinting!TypeOK' /\ InARow(stored') /\ stored' \subseteq earned'
  BY <1>4, <1>7, <1>11 DEF HintsInv, Hinting!TypeOK, PanelSet
<1>13. Alone'
  <2> SUFFICES ASSUME ~shared', NEW q \in Panels, panel'[q].mounted
               PROVE  /\ unsaved' \/ stored' = panel'[q].revealed
                      /\ orphans' = {} /\ \A o \in Panels : panel'[o].mounted => o = q
    BY DEF Alone
  <2>1. panel[q].mounted /\ panel[p].mounted /\ ~shared
    BY <1>1, <1>8, <1>11
  <2>2. q = p /\ orphans = {} /\ \A o \in Panels : panel[o].mounted => o = p
    BY <2>1 DEF HintsInv, Alone
  <2>3. QED
    BY <1>4, <1>9, <1>11, <2>2
<1>14. QED
  BY <1>11, <1>12, <1>13 DEF HintsInv

LEMMA ConfirmHereStep ==
    ASSUME HintCount \in Nat, HintsInv, NEW p \in Panels, Hinting!ConfirmHere(p)
    PROVE  HintsInv'
<1>1. /\ panel[p].pending # 0 /\ Hinting!Reveal(p)
      /\ earned' = earned \cup {panel[p].pending} /\ UNCHANGED <<orphans, shared>>
  BY DEF Hinting!ConfirmHere
<1>2. panel[p].pending \in Hinting!Hint
  BY <1>1, PanelShape DEF Hinting!Hint
<1>3. earned \subseteq earned' /\ earned' \subseteq Hinting!Hint /\ panel[p].pending \in earned'
  BY <1>1, <1>2 DEF HintsInv, Hinting!TypeOK
<1>4. QED
  BY <1>1, <1>3, RevealStep

LEMMA ArriveStep ==
    ASSUME HintCount \in Nat, HintsInv, NEW p \in Panels, Hinting!Arrive(p)
    PROVE  HintsInv'
<1>1. panel[p].request \in Hinting!Answers /\ UNCHANGED <<orphans, earned, shared>>
  BY DEF Hinting!Arrive
<1>2. PanelFits(panel[p], earned) /\ earned \subseteq Hinting!Hint
  BY PanelShape DEF HintsInv, Hinting!TypeOK
<1>3. panel[p].pending # 0
  BY <1>1, <1>2 DEF PanelFits, Hinting!Answers
<1>4. CASE Hinting!Reveals(panel[p].request)
  <2>1. Hinting!Reveal(p) /\ panel[p].pending \in earned
    BY <1>2, <1>4 DEF Hinting!Arrive, PanelFits
  <2>2. QED
    BY <1>1, <1>2, <1>3, <2>1, RevealStep
<1>5. CASE ~Hinting!Reveals(panel[p].request)
  <2>1. panel' = [panel EXCEPT ![p] = [panel[p] EXCEPT !.request = "none"]]
        /\ UNCHANGED <<stored, unsaved>>
    BY <1>5 DEF Hinting!Arrive
  <2>2. PICK w : w = panel[p]
    OBVIOUS
  <2>3. PICK v : v = [w EXCEPT !.request = "none"]
    OBVIOUS
  <2>4. w \in PanelSet /\ PanelFits(w, earned)
    BY <2>2, PanelShape
  <2>5. v \in PanelSet /\ v.pending = w.pending /\ v.revealed = w.revealed
        /\ v.mounted = w.mounted /\ v.request = "none"
    BY <2>3, <2>4 DEF PanelSet
  <2>6. w.mounted
    BY <1>3, <2>2, <2>4 DEF PanelFits, Hinting!Closed
  <2>7. PanelFits(v, earned)
    BY <2>4, <2>5, <2>6 DEF PanelFits, Hinting!Reveals
  <2>8. QED
    BY <1>1, <1>2, <2>1, <2>2, <2>3, <2>5, <2>7, QuietPanel
<1>6. QED
  BY <1>4, <1>5

LEMMA OrphanShape ==
    ASSUME HintsInv, NEW r \in orphans
    PROVE  /\ r \in OrphanSet /\ OrphanFits(r, earned) /\ r.base \subseteq Hinting!Hint
           /\ r.index \in Hinting!Hint
BY DEF HintsInv, Hinting!TypeOK, OrphanSet

\* While there is an orphan nobody is alone.
LEMMA OrphanStaysApart ==
    ASSUME HintsInv, NEW r \in orphans, UNCHANGED <<panel, shared>>
    PROVE  Alone'
BY DEF HintsInv, Alone

LEMMA ServeOrphanStep ==
    ASSUME HintsInv, NEW r \in orphans, Hinting!ServeOrphan(r)
    PROVE  HintsInv'
<1>1. PICK answer \in Hinting!Answers :
         /\ Hinting!Answer(r.index, answer)
         /\ orphans' = (orphans \ {r}) \cup {[r EXCEPT !.request = answer]}
  BY DEF Hinting!ServeOrphan
<1>2. UNCHANGED <<stored, panel, shared, unsaved>>
  BY DEF Hinting!ServeOrphan
<1>3. PICK o : o = [r EXCEPT !.request = answer]
  OBVIOUS
<1>4. /\ r \in OrphanSet /\ OrphanFits(r, earned) /\ r.index \in Hinting!Hint
      /\ earned \subseteq Hinting!Hint
  BY OrphanShape DEF HintsInv, Hinting!TypeOK
<1>5. o \in OrphanSet /\ o.base = r.base /\ o.index = r.index /\ o.request = answer
  BY <1>1, <1>3, <1>4 DEF OrphanSet
<1>6. /\ earned \subseteq earned' /\ earned' \subseteq Hinting!Hint
      /\ Hinting!Reveals(answer) => r.index \in earned'
  BY <1>1, <1>4 DEF Hinting!Answer, Hinting!Reveals
<1>7. OrphanFits(o, earned')
  BY <1>4, <1>5, <1>6 DEF OrphanFits
<1>8. orphans' \subseteq OrphanSet /\ \A q \in orphans' : OrphanFits(q, earned')
  <2>1. \A q \in orphans : q \in OrphanSet /\ OrphanFits(q, earned')
    BY <1>6, FitsForGood, OrphanShape
  <2>2. QED
    BY <1>1, <1>3, <1>5, <1>7, <2>1
<1>9. \A p \in Panels : PanelFits(panel'[p], earned')
  BY <1>2, <1>6, FitsForGood DEF HintsInv
<1>10. Hinting!TypeOK'
  BY <1>2, <1>6, <1>8 DEF HintsInv, Hinting!TypeOK, OrphanSet
<1>11. QED
  BY <1>2, <1>6, <1>8, <1>9, <1>10, OrphanStaysApart DEF HintsInv

LEMMA ArriveOrphanStep ==
    ASSUME HintsInv, NEW r \in orphans, Hinting!ArriveOrphan(r)
    PROVE  HintsInv'
<1>1. /\ orphans' = orphans \ {r} /\ UNCHANGED <<panel, earned, shared>>
      /\ \/ Hinting!Reveals(r.request) /\ stored' = r.base \cup {r.index}
         \/ stored' = stored
      /\ unsaved' \in {unsaved, TRUE, FALSE}
  BY DEF Hinting!ArriveOrphan, Hinting!Save
<1>2. OrphanFits(r, earned) /\ r.base \subseteq Hinting!Hint /\ r.index \in Hinting!Hint
  BY OrphanShape
<1>3. /\ stored \subseteq Hinting!Hint /\ InARow(stored) /\ stored \subseteq earned
  BY DEF HintsInv, Hinting!TypeOK
<1>4. stored' \subseteq Hinting!Hint /\ InARow(stored') /\ stored' \subseteq earned
  <2>1. CASE Hinting!Reveals(r.request) /\ stored' = r.base \cup {r.index}
    <3>1. r.index \in Nat \ {0}
      BY <1>2 DEF Hinting!Hint
    <3>2. InARow(r.base \cup {r.index})
      BY <1>2, <3>1, OneMoreInARow DEF OrphanFits
    <3>3. QED
      BY <1>1, <1>2, <2>1, <3>2 DEF OrphanFits
  <2>2. QED
    BY <1>1, <1>3, <2>1
<1>5. Hinting!TypeOK'
  BY <1>1, <1>4 DEF HintsInv, Hinting!TypeOK
<1>6. Alone'
  BY <1>1, OrphanStaysApart
<1>7. QED
  BY <1>1, <1>4, <1>5, <1>6 DEF HintsInv

LEMMA HintsBegin ==
    ASSUME HintCount \in Nat, Hinting!Init
    PROVE  HintsInv
<1>1. 0 \in 0..HintCount /\ 1..(0 - 1) = {}
  OBVIOUS
<1>2. Hinting!Closed \in PanelSet /\ PanelFits(Hinting!Closed, {})
  BY <1>1 DEF Hinting!Closed, PanelSet, PanelFits, InARow, Hinting!Reveals
<1>3. panel \in [Panels -> PanelSet] /\ \A p \in Panels : panel[p] = Hinting!Closed
  BY <1>2 DEF Hinting!Init
<1>4. Hinting!TypeOK
  BY <1>3 DEF Hinting!Init, Hinting!TypeOK, PanelSet
<1>5. Alone
  BY <1>3 DEF Alone, Hinting!Closed
<1>6. QED
  BY <1>2, <1>3, <1>4, <1>5 DEF Hinting!Init, HintsInv, InARow

LEMMA HintsStep ==
    ASSUME HintCount \in Nat, HintsInv, [Hinting!Next]_Hinting!vars
    PROVE  HintsInv'
<1>1. CASE \E p \in Panels :
              Hinting!Mount(p) \/ Hinting!Leave(p) \/ Hinting!Ask(p) \/ Hinting!Cancel(p)
                \/ Hinting!ConfirmHere(p) \/ Hinting!Confirm(p) \/ Hinting!Serve(p)
                \/ Hinting!Arrive(p)
  BY <1>1, MountStep, LeaveStep, AskStep, CancelStep, ConfirmHereStep, ConfirmStep, ServeStep,
     ArriveStep
<1>2. CASE \E r \in orphans : Hinting!ServeOrphan(r) \/ Hinting!ArriveOrphan(r)
  BY <1>2, ServeOrphanStep, ArriveOrphanStep
<1>3. CASE UNCHANGED Hinting!vars
  <2>1. UNCHANGED <<stored, panel, orphans, earned, shared, unsaved>>
    BY <1>3 DEF Hinting!vars
  <2>2. QED
    BY <2>1 DEF HintsInv, Hinting!TypeOK, Alone
<1>4. QED
  BY <1>1, <1>2, <1>3 DEF Hinting!Next

\* However many tabs show the problem, and whenever they are left: no hint is open, in a panel
\* or in the storage, before the ones above it or without an acknowledgement, and a panel
\* that was alone shows what was saved, unless the browser refused its last read or write
\* (confirmReveal, loadRevealed and saveRevealed).
THEOREM HintsStayHonest ==
    ASSUME HintCount \in Nat
    PROVE  Hinting!Spec => []Hinting!HintsAreHonest
<1>1. Hinting!Init => HintsInv
  BY HintsBegin
<1>2. HintsInv /\ [Hinting!Next]_Hinting!vars => HintsInv'
  BY HintsStep
<1>3. HintsInv => Hinting!HintsAreHonest
  <2> SUFFICES ASSUME HintsInv PROVE Hinting!HintsAreHonest
    OBVIOUS
  <2>1. Hinting!OpenInOrder
    BY DEF HintsInv, PanelFits, InARow, Hinting!OpenInOrder
  <2>2. Hinting!OpenIsEarned
    BY DEF HintsInv, PanelFits, Hinting!OpenIsEarned
  <2>3. Hinting!StoredIsShown
    BY DEF HintsInv, Alone, Hinting!StoredIsShown
  <2>4. QED
    BY <2>1, <2>2, <2>3 DEF HintsInv, Hinting!HintsAreHonest
<1>4. QED
  BY <1>1, <1>2, <1>3, PTL DEF Hinting!Spec

-----------------------------------------------------------------------------
(* The page of a thread.  A form holds a text that was typed where it will *)
(* go, and the newest load was asked for after everything that was told.   *)

CONSTANTS Places, Values, MaxTexts, MaxLoads
VARIABLES
    thread, posted, mine, here, seen, loading, notFound, load, draft, post, replyTo, vote,
    userVote, typed, acked, overtaken, unsure

Reading == INSTANCE DiscussionPage WITH shown <- seen

\* The words for nothing and for the thread itself are no places and no votes.
ReadingConstants ==
    /\ MaxTexts \in Nat /\ MaxLoads \in Nat \ {0}
    /\ Reading!Top \notin Places /\ Reading!Nowhere \notin Places
    /\ "none" \notin Values

Spots == Places \cup {Reading!Top, Reading!Nowhere}
PostSet ==
    [pc : {"idle", "sent", "answered"}, text : {0} \cup Reading!Texts, to : Spots, ok : BOOLEAN]
VoteSet == [pc : {"idle", "sent", "answered"}, value : Values \cup {"none"}, ok : BOOLEAN]
LoadSet ==
    [pc : {"unused", "sent", "answered", "done"}, status : {"none", "200", "404", "error"},
     texts : SUBSET Reading!Texts]

ThreadTypes ==
    /\ Reading!TypeOK
    /\ load \in [1..MaxLoads -> LoadSet] /\ post \in [Reading!Forms -> PostSet]
    /\ vote \in VoteSet /\ typed \in [Reading!Texts -> Spots]
    /\ \E n \in 0..MaxTexts : Reading!Typed = 1..n

\* What a form holds was typed in it, and is new to the thread or may be there unnoticed.
DraftFits(f) == draft[f] # 0 =>
    /\ draft[f] \in Reading!Typed
    /\ typed[draft[f]] = IF f = "reply" THEN replyTo ELSE Reading!Top
    /\ \/ posted[draft[f]] = {} \/ draft[f] \in unsure
       \/ post[f].pc = "answered" /\ post[f].ok /\ post[f].text = draft[f]

PostFits(f) == post[f].pc # "idle" =>
    /\ post[f].text \in Reading!Typed /\ post[f].to = typed[post[f].text]
    /\ f = "comment" <=> post[f].to = Reading!Top
    /\ post[f].pc = "sent" =>
          ~post[f].ok /\ (posted[post[f].text] = {} \/ post[f].text \in unsure)
    /\ post[f].ok /\ thread = "there" => posted[post[f].text] # {}

RowsFit(t) ==
    /\ IsFiniteSet(posted[t]) /\ \A r \in posted[t] : r[1] = typed[t]
    /\ posted[t] # {} => t \in Reading!Typed
    /\ Cardinality(posted[t]) > 1 => t \in unsure

ThreadForms ==
    /\ \A f \in Reading!Forms : DraftFits(f) /\ PostFits(f)
    /\ \A t \in Reading!Texts : RowsFit(t)

Newest(m) == \A j \in 1..MaxLoads : j > m => load[j].pc = "unused"
LastHandled(m) == load[m].pc = "done" /\ \A j \in 1..MaxLoads : load[j].pc = "done" => j <= m

ThreadLoads ==
    /\ \E n \in 1..MaxLoads : Reading!Used = 1..n
    /\ thread = "there" => acked \subseteq Reading!Present
    /\ \A m \in 1..MaxLoads :
          /\ load[m].pc = "answered" => load[m].status # "none"
          /\ load[m].pc \in {"answered", "done"} /\ load[m].status = "200" /\ Newest(m) =>
                (thread = "there" => acked \subseteq load[m].texts)
          /\ LastHandled(m) /\ ~overtaken /\ ~notFound =>
                load[m].status = "200" /\ seen.texts = load[m].texts

ThreadVote ==
    /\ vote.pc # "answered" => ~vote.ok
    /\ Reading!TheVote \notin unsure => mine = IF vote.ok THEN vote.value ELSE userVote

ThreadInv == ThreadTypes /\ ThreadForms /\ ThreadLoads /\ ThreadVote

LEMMA ReadingSameSize == \A S : Reading!Cardinality(S) = Cardinality(S)
BY DEF Reading!Cardinality, Cardinality

LEMMA ThreadInvTrue == ThreadInv => Reading!ThreadIsTrue
<1> SUFFICES ASSUME ThreadInv PROVE Reading!ThreadIsTrue
  OBVIOUS
<1>1. Reading!RepliesGoWhereTyped
  <2> SUFFICES ASSUME NEW t \in Reading!Texts
               PROVE  /\ \A r \in posted[t] : r[1] = typed[t]
                      /\ Cardinality(posted[t]) > 1 => t \in unsure
    BY ReadingSameSize DEF Reading!RepliesGoWhereTyped
  <2>1. RowsFit(t)
    BY DEF ThreadInv, ThreadForms
  <2>2. QED
    BY <2>1 DEF RowsFit
<1>2. Reading!ShowsWhatWasPosted
  <2> SUFFICES ASSUME Reading!Quiet, Reading!Rendered, ~overtaken, thread = "there"
               PROVE  acked \subseteq seen.texts
    BY DEF Reading!ShowsWhatWasPosted
  <2>1. PICK n \in 1..MaxLoads : Reading!Used = 1..n
    BY DEF ThreadInv, ThreadLoads
  <2>2. load[n].pc = "done" /\ Newest(n) /\ LastHandled(n)
    <3>1. \A j \in 1..MaxLoads : load[j].pc # "unused" => j \in 1..n
      BY <2>1 DEF Reading!Used
    <3>2. n \in 1..n
      OBVIOUS
    <3>3. load[n].pc = "done"
      BY <2>1, <3>2 DEF Reading!Quiet, Reading!Used
    <3>4. QED
      BY <3>1, <3>3 DEF Newest, LastHandled
  <2>3. load[n].status = "200" /\ seen.texts = load[n].texts
    BY <2>2 DEF ThreadInv, ThreadLoads, Reading!Rendered
  <2>4. QED
    BY <2>2, <2>3 DEF ThreadInv, ThreadLoads
<1>3. Reading!ArrowIsTheVote
  BY DEF ThreadInv, ThreadVote, Reading!Quiet, Reading!ArrowIsTheVote
<1>4. QED
  BY <1>1, <1>2, <1>3 DEF ThreadInv, ThreadTypes, Reading!ThreadIsTrue

LEMMA ThreadBegins ==
    ASSUME ReadingConstants, Reading!Init
    PROVE  ThreadInv
<1>1. 0 \in 0..MaxTexts /\ 1 \in 1..MaxLoads /\ 1..0 = {}
  BY DEF ReadingConstants
<1>2. ThreadTypes
  <2>1. Reading!Typed = 1..0
    BY <1>1 DEF Reading!Init, Reading!Typed
  <2>2. Reading!TypeOK
    BY DEF Reading!Init, Reading!TypeOK, Reading!NoThread, Reading!Forms
  <2>3. /\ post \in [Reading!Forms -> PostSet] /\ vote \in VoteSet
        /\ typed \in [Reading!Texts -> Spots]
    BY DEF Reading!Init, PostSet, VoteSet, Spots, Reading!NoPost, Reading!NoVote, Reading!Nowhere
  <2>4. load \in [1..MaxLoads -> LoadSet]
    BY DEF Reading!Init, LoadSet, Reading!NoLoad
  <2>5. QED
    BY <1>1, <2>1, <2>2, <2>3, <2>4 DEF ThreadTypes
<1>3. ThreadForms
  <2>1. \A f \in Reading!Forms : DraftFits(f) /\ PostFits(f)
    BY DEF Reading!Init, DraftFits, PostFits, Reading!NoPost
  <2>2. \A t \in Reading!Texts : RowsFit(t)
    BY FS_EmptySet DEF Reading!Init, RowsFit
  <2>3. QED
    BY <2>1, <2>2 DEF ThreadForms
<1>4. ThreadLoads
  <2>1. /\ Reading!Used = {1} /\ load[1].pc = "sent"
        /\ \A m \in 1..MaxLoads : load[m].pc \in {"unused", "sent"}
    BY <1>1 DEF Reading!Init, Reading!Used, Reading!NoLoad
  <2>2. 1..1 = {1} /\ acked = {}
    BY DEF Reading!Init
  <2>3. QED
    BY <1>1, <2>1, <2>2 DEF ThreadLoads, LastHandled
<1>5. ThreadVote
  BY DEF Reading!Init, ThreadVote, Reading!NoVote
<1>6. QED
  BY <1>2, <1>3, <1>4, <1>5 DEF ThreadInv

\* What an action leaves alone.
LEMMA FormsFrame ==
    ASSUME ThreadForms, UNCHANGED <<thread, draft, replyTo, typed, post, posted>>,
           \A t \in Reading!Texts : t \in unsure => t \in unsure'
    PROVE  ThreadForms'
<1>1. \A f \in Reading!Forms : DraftFits(f)' /\ PostFits(f)'
  BY DEF ThreadForms, DraftFits, PostFits, Reading!Typed
<1>2. ASSUME NEW t \in Reading!Texts PROVE RowsFit(t)'
  <2>1. RowsFit(t)
    BY DEF ThreadForms
  <2>2. QED
    BY <2>1 DEF RowsFit, Reading!Typed
<1>3. QED
  BY <1>1, <1>2 DEF ThreadForms

LEMMA LoadsFrame ==
    ASSUME ThreadLoads, UNCHANGED <<thread, posted, load, seen, notFound, overtaken, acked>>
    PROVE  ThreadLoads'
BY DEF ThreadLoads, Reading!Used, Reading!Present, Newest, LastHandled

LEMMA VoteFrame ==
    ASSUME ThreadVote, UNCHANGED <<vote, userVote, mine>>,
           Reading!TheVote \in unsure => Reading!TheVote \in unsure'
    PROVE  ThreadVote'
BY DEF ThreadVote

LEMMA ServerLoadsStep ==
    ASSUME ThreadInv, NEW i \in 1..MaxLoads, Reading!ServerLoads(i)
    PROVE  ThreadInv'
<1>0. PICK st \in {IF thread = "there" THEN "200" ELSE "404", "error"} :
         load' = [load EXCEPT ![i] = [pc |-> "answered", status |-> st,
                                      texts |-> IF st = "200" THEN Reading!Present ELSE {}]]
  BY DEF Reading!ServerLoads
<1>1. PICK w :
         /\ w = [pc |-> "answered", status |-> st,
                 texts |-> IF st = "200" THEN Reading!Present ELSE {}]
         /\ load' = [load EXCEPT ![i] = w]
  BY <1>0
<1>2. /\ load[i].pc = "sent"
      /\ UNCHANGED <<thread, posted, mine, here, seen, loading, notFound, draft, post, replyTo,
                     vote, userVote, typed, acked, overtaken, unsure>>
  BY DEF Reading!ServerLoads, Reading!history
<1>3. w \in LoadSet
  BY <1>1 DEF LoadSet, Reading!Present
<1>4. /\ load' \in [1..MaxLoads -> LoadSet]
      /\ \A j \in 1..MaxLoads : load'[j] = IF j = i THEN w ELSE load[j]
  BY <1>1, <1>3 DEF ThreadInv, ThreadTypes
<1>5. ThreadTypes'
  BY <1>2, <1>4 DEF ThreadInv, ThreadTypes, Reading!TypeOK, Reading!Typed
<1>6. ThreadForms'
  BY <1>2, FormsFrame DEF ThreadInv
<1>7. ThreadLoads'
  <2>1. Reading!Used' = Reading!Used
    BY <1>1, <1>2, <1>4 DEF Reading!Used
  <2>2. \A m \in 1..MaxLoads : (Newest(m)' <=> Newest(m)) /\ (LastHandled(m)' <=> LastHandled(m))
    BY <1>1, <1>2, <1>4 DEF Newest, LastHandled
  <2>3. Reading!Present' = Reading!Present
    BY <1>2 DEF Reading!Present
  <2>4. ASSUME NEW m \in 1..MaxLoads, load'[m].pc \in {"answered", "done"}, load'[m].status = "200",
               Newest(m)', thread' = "there"
        PROVE  acked' \subseteq load'[m].texts
    <3>1. CASE m = i
      BY <1>1, <1>2, <1>4, <2>4, <3>1 DEF ThreadInv, ThreadLoads
    <3>2. CASE m # i
      BY <1>2, <1>4, <2>2, <2>4, <3>2 DEF ThreadInv, ThreadLoads
    <3>3. QED
      BY <3>1, <3>2
  <2>5. ASSUME NEW m \in 1..MaxLoads, LastHandled(m)', ~overtaken', ~notFound'
        PROVE  load'[m].status = "200" /\ seen'.texts = load'[m].texts
    <3>1. LastHandled(m) /\ m # i
      BY <1>2, <2>2, <2>5 DEF LastHandled
    <3>2. QED
      BY <1>2, <1>4, <2>5, <3>1 DEF ThreadInv, ThreadLoads
  <2>6. \A m \in 1..MaxLoads : load'[m].pc = "answered" => load'[m].status # "none"
    BY <1>1, <1>4 DEF ThreadInv, ThreadLoads
  <2>7. QED
    BY <1>2, <2>1, <2>3, <2>4, <2>5, <2>6 DEF ThreadInv, ThreadLoads
<1>8. ThreadVote'
  BY <1>2, VoteFrame DEF ThreadInv
<1>9. QED
  BY <1>5, <1>6, <1>7, <1>8 DEF ThreadInv

LEMMA LoadAnsweredStep ==
    ASSUME ThreadInv, NEW i \in 1..MaxLoads, Reading!LoadAnswered(i)
    PROVE  ThreadInv'
<1>1. PICK w : w = [load[i] EXCEPT !.pc = "done"]
  OBVIOUS
<1>2. /\ load[i].pc = "answered" /\ load' = [load EXCEPT ![i] = w]
      /\ notFound' = (notFound \/ load[i].status = "404")
      /\ seen' = CASE load[i].status = "200" -> [there |-> TRUE, texts |-> load[i].texts]
                   [] load[i].status = "error" -> Reading!NoThread
                   [] OTHER -> seen
      /\ overtaken' = (load[i].status = "error" \/ \E j \in Reading!Handled : j > i)
      /\ UNCHANGED <<thread, posted, mine, draft, post, replyTo, vote, userVote, typed, acked,
                     unsure>>
  BY <1>1 DEF Reading!LoadAnswered
<1>3. load[i] \in LoadSet
  BY DEF ThreadInv, ThreadTypes
<1>4. w \in LoadSet /\ w.pc = "done" /\ w.status = load[i].status /\ w.texts = load[i].texts
  BY <1>1, <1>3 DEF LoadSet
<1>5. /\ load' \in [1..MaxLoads -> LoadSet]
      /\ \A j \in 1..MaxLoads : load'[j] = IF j = i THEN w ELSE load[j]
  BY <1>2, <1>4 DEF ThreadInv, ThreadTypes
<1>6. ThreadTypes'
  <2>1. seen'.texts \subseteq Reading!Texts
    <3>1. seen.texts \subseteq Reading!Texts /\ load[i].texts \subseteq Reading!Texts
      BY <1>3 DEF ThreadInv, ThreadTypes, Reading!TypeOK, LoadSet
    <3>2. QED
      BY <1>2, <3>1 DEF Reading!NoThread
  <2>2. QED
    BY <1>2, <1>5, <2>1 DEF ThreadInv, ThreadTypes, Reading!TypeOK, Reading!Typed
<1>7. ThreadForms'
  BY <1>2, FormsFrame DEF ThreadInv
<1>8. ThreadLoads'
  <2>1. Reading!Used' = Reading!Used
    BY <1>2, <1>4, <1>5 DEF Reading!Used
  <2>2. Reading!Present' = Reading!Present
    BY <1>2 DEF Reading!Present
  <2>3. \A m \in 1..MaxLoads : Newest(m)' <=> Newest(m)
    BY <1>2, <1>4, <1>5 DEF Newest
  <2>4. ASSUME NEW m \in 1..MaxLoads, load'[m].pc \in {"answered", "done"}, load'[m].status = "200",
               Newest(m)', thread' = "there"
        PROVE  acked' \subseteq load'[m].texts
    BY <1>2, <1>4, <1>5, <2>3, <2>4 DEF ThreadInv, ThreadLoads
  <2>5. ASSUME NEW m \in 1..MaxLoads, LastHandled(m)', ~overtaken', ~notFound'
        PROVE  load'[m].status = "200" /\ seen'.texts = load'[m].texts
    <3>1. m >= i
      BY <1>4, <1>5, <2>5 DEF LastHandled
    <3>2. m = i
      <4>1. ~(m > i /\ load[m].pc = "done")
        BY <1>2, <2>5 DEF Reading!Handled
      <4>2. m > i => load[m].pc = "done"
        BY <1>5, <2>5 DEF LastHandled
      <4>3. QED
        BY <3>1, <4>1, <4>2
    <3>3. load[i].status # "error" /\ load[i].status # "404" /\ load[i].status # "none"
      BY <1>2, <2>5 DEF ThreadInv, ThreadLoads
    <3>4. QED
      BY <1>2, <1>3, <1>4, <1>5, <3>2, <3>3 DEF LoadSet
  <2>6. \A m \in 1..MaxLoads : load'[m].pc = "answered" => load'[m].status # "none"
    BY <1>4, <1>5 DEF ThreadInv, ThreadLoads
  <2>7. QED
    BY <1>2, <2>1, <2>2, <2>4, <2>5, <2>6 DEF ThreadInv, ThreadLoads
<1>9. ThreadVote'
  BY <1>2, VoteFrame DEF ThreadInv
<1>10. QED
  BY <1>6, <1>7, <1>8, <1>9 DEF ThreadInv

LEMMA TypeStep ==
    ASSUME ReadingConstants, ThreadInv, NEW f \in Reading!Forms, Reading!Type(f)
    PROVE  ThreadInv'
<1>1. PICK n \in 0..MaxTexts : Reading!Typed = 1..n
  BY DEF ThreadInv, ThreadTypes
<1>2. PICK t \in Reading!Texts :
         /\ t = n + 1
         /\ draft' = [draft EXCEPT ![f] = t]
         /\ typed' = [typed EXCEPT ![t] = IF f = "reply" THEN replyTo ELSE Reading!Top]
  <2>1. Reading!Cardinality(Reading!Typed) = n
    BY <1>1, FS_Interval, ReadingSameSize
  <2>2. QED
    BY <2>1 DEF Reading!Type
<1>3. /\ f = "reply" => replyTo # Reading!Nowhere
      /\ UNCHANGED <<thread, posted, mine, here, seen, loading, notFound, load, post, replyTo,
                     vote, userVote, acked, overtaken, unsure>>
  BY DEF Reading!Type
<1>4. /\ replyTo \in Places \cup {Reading!Nowhere} /\ typed \in [Reading!Texts -> Spots]
      /\ draft \in [Reading!Forms -> {0} \cup Reading!Texts]
  BY DEF ThreadInv, ThreadTypes, Reading!TypeOK
<1>5. /\ \A s \in Reading!Texts : typed'[s] = IF s # t THEN typed[s]
                                             ELSE IF f = "reply" THEN replyTo ELSE Reading!Top
      /\ typed' \in [Reading!Texts -> Spots]
      /\ \A g \in Reading!Forms : draft'[g] = IF g = f THEN t ELSE draft[g]
      /\ draft' \in [Reading!Forms -> {0} \cup Reading!Texts]
  BY <1>2, <1>4 DEF Spots
<1>6. t \notin Reading!Typed /\ t # 0
  BY <1>1, <1>2 DEF Reading!Texts
<1>7. typed'[t] # Reading!Nowhere /\ Reading!Typed' = Reading!Typed \cup {t}
  BY <1>3, <1>5 DEF Reading!Typed, Reading!Top, Reading!Nowhere
<1>8. ThreadTypes'
  <2>1. n + 1 \in 0..MaxTexts /\ 1..(n + 1) = (1..n) \cup {n + 1}
    BY <1>1, <1>2 DEF Reading!Texts, ReadingConstants
  <2>2. Reading!Typed' = 1..(n + 1)
    BY <1>1, <1>2, <1>7, <2>1
  <2>3. QED
    BY <1>3, <1>5, <2>1, <2>2 DEF ThreadInv, ThreadTypes, Reading!TypeOK
<1>9. ThreadForms'
  <2>1. ASSUME NEW g \in Reading!Forms PROVE DraftFits(g)'
    <3>1. DraftFits(g) /\ PostFits(g)
      BY DEF ThreadInv, ThreadForms
    <3>2. CASE g = f
      <4>1. posted[t] = {}
        BY <1>6 DEF ThreadInv, ThreadForms, RowsFit
      <4>2. QED
        BY <1>3, <1>5, <1>7, <3>2, <4>1 DEF DraftFits
    <3>3. CASE g # f
      <4>1. draft[g] # 0 => typed'[draft[g]] = typed[draft[g]] /\ draft[g] \in Reading!Typed'
        BY <1>5, <1>6, <1>7, <3>1 DEF DraftFits, Reading!Typed
      <4>2. QED
        BY <1>3, <1>5, <3>1, <3>3, <4>1 DEF DraftFits
    <3>4. QED
      BY <3>2, <3>3
  <2>2. ASSUME NEW g \in Reading!Forms PROVE PostFits(g)'
    <3>1. PostFits(g)
      BY DEF ThreadInv, ThreadForms
    <3>2. post[g].pc # "idle" => /\ typed'[post[g].text] = typed[post[g].text]
                                 /\ post[g].text \in Reading!Typed'
      BY <1>5, <1>6, <1>7, <3>1 DEF PostFits, Reading!Typed
    <3>3. QED
      BY <1>3, <3>1, <3>2 DEF PostFits
  <2>3. ASSUME NEW s \in Reading!Texts PROVE RowsFit(s)'
    <3>1. RowsFit(s)
      BY DEF ThreadInv, ThreadForms
    <3>2. posted[s] # {} => typed'[s] = typed[s] /\ s \in Reading!Typed'
      BY <1>5, <1>6, <1>7, <3>1 DEF RowsFit
    <3>3. QED
      BY <1>3, <3>1, <3>2 DEF RowsFit
  <2>4. QED
    BY <2>1, <2>2, <2>3 DEF ThreadForms
<1>10. ThreadLoads' /\ ThreadVote'
  BY <1>3, LoadsFrame, VoteFrame DEF ThreadInv
<1>11. QED
  BY <1>8, <1>9, <1>10 DEF ThreadInv

LEMMA ToggleReplyStep ==
    ASSUME ReadingConstants, ThreadInv, NEW c \in Places, Reading!ToggleReply(c)
    PROVE  ThreadInv'
<1>1. /\ replyTo' = (IF replyTo = c THEN Reading!Nowhere ELSE c)
      /\ draft' = [draft EXCEPT !["reply"] = 0]
      /\ UNCHANGED <<thread, posted, mine, here, seen, loading, notFound, load, post,
                     vote, userVote, typed, acked, overtaken, unsure>>
  BY DEF Reading!ToggleReply, Reading!history
<1>2. draft \in [Reading!Forms -> {0} \cup Reading!Texts]
  BY DEF ThreadInv, ThreadTypes, Reading!TypeOK
<1>3. /\ draft' \in [Reading!Forms -> {0} \cup Reading!Texts]
      /\ \A g \in Reading!Forms : draft'[g] = IF g = "reply" THEN 0 ELSE draft[g]
  BY <1>1, <1>2
<1>4. ThreadTypes'
  BY <1>1, <1>3 DEF ThreadInv, ThreadTypes, Reading!TypeOK, Reading!Typed
<1>5. ThreadForms'
  <2>1. ASSUME NEW g \in Reading!Forms PROVE DraftFits(g)' /\ PostFits(g)'
    BY <1>1, <1>3 DEF ThreadInv, ThreadForms, DraftFits, PostFits, Reading!Typed
  <2>2. ASSUME NEW s \in Reading!Texts PROVE RowsFit(s)'
    <3>1. RowsFit(s)
      BY DEF ThreadInv, ThreadForms
    <3>2. QED
      BY <1>1, <3>1 DEF RowsFit, Reading!Typed
  <2>3. QED
    BY <2>1, <2>2 DEF ThreadForms
<1>6. ThreadLoads' /\ ThreadVote'
  BY <1>1, LoadsFrame, VoteFrame DEF ThreadInv
<1>7. QED
  BY <1>4, <1>5, <1>6 DEF ThreadInv

LEMMA SubmitStep ==
    ASSUME ReadingConstants, ThreadInv, NEW f \in Reading!Forms, Reading!Submit(f)
    PROVE  ThreadInv'
<1>1. PICK to : to = IF f = "reply" THEN replyTo ELSE Reading!Top
  OBVIOUS
<1>2. PICK w : w = [Reading!NoPost EXCEPT !.pc = "sent", !.text = draft[f], !.to = to]
  OBVIOUS
<1>3. /\ post[f].pc = "idle" /\ draft[f] # 0
      /\ f = "reply" => replyTo # Reading!Nowhere
      /\ post' = [post EXCEPT ![f] = w]
      /\ UNCHANGED <<thread, posted, mine, here, seen, loading, notFound, load, draft, replyTo,
                     vote, userVote, typed, acked, overtaken, unsure>>
  BY <1>1, <1>2 DEF Reading!Submit, Reading!history
<1>a. w = [pc |-> "sent", text |-> draft[f], to |-> to, ok |-> FALSE]
  BY <1>2 DEF Reading!NoPost
<1>4. replyTo \in Places \cup {Reading!Nowhere} /\ draft[f] \in {0} \cup Reading!Texts
  BY DEF ThreadInv, ThreadTypes, Reading!TypeOK
<1>5. w \in PostSet
  BY <1>1, <1>a, <1>4 DEF PostSet, Spots
<1>6. /\ post' \in [Reading!Forms -> PostSet]
      /\ \A g \in Reading!Forms : post'[g] = IF g = f THEN w ELSE post[g]
  BY <1>3, <1>5 DEF ThreadInv, ThreadTypes
<1>7. ThreadTypes'
  BY <1>3, <1>6 DEF ThreadInv, ThreadTypes, Reading!TypeOK, Reading!Typed
<1>8. ThreadForms'
  <2>1. DraftFits(f)
    BY DEF ThreadInv, ThreadForms
  <2>2. /\ draft[f] \in Reading!Typed /\ to = typed[draft[f]]
        /\ posted[draft[f]] = {} \/ draft[f] \in unsure
    BY <1>1, <1>3, <2>1 DEF DraftFits
  <2>3. f = "comment" <=> to = Reading!Top
    BY <1>1, <1>3, <1>4 DEF ReadingConstants, Reading!Forms, Reading!Top, Reading!Nowhere
  <2>4. PostFits(f)'
    BY <1>a, <1>3, <1>6, <2>2, <2>3 DEF PostFits, Reading!Typed
  <2>5. DraftFits(f)'
    BY <1>a, <1>3, <1>6, <2>1 DEF DraftFits, Reading!Typed
  <2>6. ASSUME NEW g \in Reading!Forms, g # f PROVE DraftFits(g)' /\ PostFits(g)'
    BY <1>3, <1>6, <2>6 DEF ThreadInv, ThreadForms, DraftFits, PostFits, Reading!Typed
  <2>7. ASSUME NEW s \in Reading!Texts PROVE RowsFit(s)'
    <3>1. RowsFit(s)
      BY DEF ThreadInv, ThreadForms
    <3>2. QED
      BY <1>3, <3>1 DEF RowsFit, Reading!Typed
  <2>8. QED
    BY <2>4, <2>5, <2>6, <2>7 DEF ThreadForms
<1>9. ThreadLoads' /\ ThreadVote'
  BY <1>3, LoadsFrame, VoteFrame DEF ThreadInv
<1>10. QED
  BY <1>7, <1>8, <1>9 DEF ThreadInv

\* Of two forms, one holds what was typed below a comment.
LEMMA FormsDiffer ==
    ASSUME ReadingConstants, ThreadInv, NEW f \in Reading!Forms, NEW g \in Reading!Forms, f # g,
           post[f].pc # "idle"
    PROVE  /\ draft[g] # post[f].text
           /\ post[g].pc # "idle" => post[g].text # post[f].text
<1>1. DraftFits(g) /\ PostFits(f) /\ PostFits(g)
  BY DEF ThreadInv, ThreadForms
<1>2. post[f].text \in Reading!Typed /\ post[f].to = typed[post[f].text]
  BY <1>1 DEF PostFits
<1>3. post[f].text # 0
  BY <1>2 DEF Reading!Typed, Reading!Texts
<1>4. CASE f = "comment"
  <2>1. g = "reply" /\ typed[post[f].text] = Reading!Top
    BY <1>1, <1>2, <1>4 DEF PostFits, Reading!Forms
  <2>2. replyTo # Reading!Top
    BY DEF ThreadInv, ThreadTypes, Reading!TypeOK, ReadingConstants, Reading!Top, Reading!Nowhere
  <2>3. draft[g] # post[f].text
    BY <1>1, <1>3, <2>1, <2>2 DEF DraftFits
  <2>4. QED
    BY <1>1, <2>1, <2>3 DEF PostFits
<1>5. CASE f = "reply"
  <2>1. g = "comment" /\ typed[post[f].text] # Reading!Top
    BY <1>1, <1>2, <1>5 DEF PostFits, Reading!Forms
  <2>2. draft[g] # post[f].text
    BY <1>1, <1>3, <2>1 DEF DraftFits
  <2>3. QED
    BY <1>1, <2>1, <2>2 DEF PostFits
<1>6. QED
  BY <1>4, <1>5 DEF Reading!Forms

LEMMA ServerPostsStep ==
    ASSUME ReadingConstants, ThreadInv, NEW f \in Reading!Forms, Reading!ServerPosts(f)
    PROVE  ThreadInv'
<1>1. PICK t : t = post[f].text
  OBVIOUS
<1>2. /\ post[f].pc = "sent"
      /\ UNCHANGED <<thread, mine, here, seen, loading, notFound, load, draft, replyTo,
                     vote, userVote, typed, acked, overtaken>>
  BY DEF Reading!ServerPosts
<1>3. PostFits(f) /\ DraftFits(f) /\ post[f] \in PostSet
  BY DEF ThreadInv, ThreadForms, ThreadTypes
<1>4. /\ t \in Reading!Typed /\ t \in Reading!Texts /\ post[f].to = typed[t] /\ ~post[f].ok
      /\ posted[t] = {} \/ t \in unsure
  BY <1>1, <1>2, <1>3 DEF PostFits, Reading!Typed
<1>5. PICK made \in BOOLEAN, ok \in BOOLEAN, r \in {<<post[f].to, 1 + Cardinality(posted[t])>>} :
         /\ post' = [post EXCEPT ![f] = [post[f] EXCEPT !.pc = "answered", !.ok = ok]]
         /\ ok => made
         /\ made => /\ thread = "there" /\ Cardinality(posted[t]) < 2
                    /\ posted' = [posted EXCEPT ![t] = posted[t] \cup {r}]
                    /\ unsure' = IF ok THEN unsure ELSE unsure \cup {t}
         /\ ~made => UNCHANGED <<posted, unsure>>
  <2>1. \/ /\ post' = [post EXCEPT ![f] = [post[f] EXCEPT !.pc = "answered"]]
           /\ UNCHANGED <<posted, unsure>>
        \/ /\ thread = "there" /\ Cardinality(posted[t]) < 2
           /\ posted' = [posted EXCEPT
                            ![t] = posted[t] \cup {<<post[f].to, 1 + Cardinality(posted[t])>>}]
           /\ \E ok \in BOOLEAN :
                 /\ post' = [post EXCEPT ![f] = [post[f] EXCEPT !.pc = "answered", !.ok = ok]]
                 /\ unsure' = IF ok THEN unsure ELSE unsure \cup {t}
    BY <1>1, ReadingSameSize DEF Reading!ServerPosts
  <2>2. [post[f] EXCEPT !.pc = "answered"] = [post[f] EXCEPT !.pc = "answered", !.ok = FALSE]
    BY <1>3, <1>4 DEF PostSet
  <2>3. QED
    BY <2>1, <2>2
<1>6. PICK w : w = [post[f] EXCEPT !.pc = "answered", !.ok = ok]
  OBVIOUS
<1>7. w \in PostSet /\ w.pc = "answered" /\ w.ok = ok /\ w.text = t /\ w.to = post[f].to
  BY <1>1, <1>3, <1>6 DEF PostSet
<1>8. /\ post' \in [Reading!Forms -> PostSet]
      /\ \A g \in Reading!Forms : post'[g] = IF g = f THEN w ELSE post[g]
  BY <1>5, <1>6, <1>7 DEF ThreadInv, ThreadTypes
<1>9. PICK Rows : Rows = (Places \cup {Reading!Top}) \X {1, 2}
  OBVIOUS
<1>10. posted \in [Reading!Texts -> SUBSET Rows]
  BY <1>9 DEF ThreadInv, ThreadTypes, Reading!TypeOK
<1>11. IsFiniteSet(posted[t]) /\ Cardinality(posted[t]) \in Nat
  BY <1>4, FS_CardinalityType DEF ThreadInv, ThreadForms, RowsFit
<1>12. made => r \in Rows /\ r[1] = typed[t]
  <2>1. post[f].to \in Places \cup {Reading!Top}
    BY <1>3, <1>4 DEF PostSet, Spots, Reading!Typed
  <2>2. Cardinality(posted[t]) < 2 => 1 + Cardinality(posted[t]) \in {1, 2}
    BY <1>11
  <2>3. QED
    BY <1>4, <1>5, <1>9, <2>1, <2>2
<1>13. /\ posted' \in [Reading!Texts -> SUBSET Rows]
       /\ \A s \in Reading!Texts : s # t => posted'[s] = posted[s]
       /\ posted'[t] = IF made THEN posted[t] \cup {r} ELSE posted[t]
       /\ \A s \in Reading!Texts : posted[s] \subseteq posted'[s]
  BY <1>4, <1>5, <1>10, <1>12
<1>14. /\ unsure \subseteq unsure' /\ unsure' \subseteq unsure \cup {t}
       /\ made /\ ~ok => t \in unsure'
  BY <1>5
<1>15. ThreadTypes'
  BY <1>2, <1>8, <1>9, <1>13 DEF ThreadInv, ThreadTypes, Reading!TypeOK, Reading!Typed
<1>16. ThreadForms'
  <2>1. posted'[t] = {} \/ t \in unsure' \/ ok
    BY <1>4, <1>5, <1>13, <1>14
  <2>2. PostFits(f)'
    <3>1. /\ post'[f].pc = "answered" /\ post'[f].text = t
          /\ post'[f].to = typed[t] /\ post'[f].ok = ok
      BY <1>4, <1>7, <1>8
    <3>2. t \in Reading!Typed' /\ typed'[t] = typed[t]
      BY <1>2, <1>4 DEF Reading!Typed
    <3>3. f = "comment" <=> typed[t] = Reading!Top
      BY <1>2, <1>3, <1>4 DEF PostFits
    <3>4. ok => posted'[t] # {}
      BY <1>5, <1>13
    <3>5. QED
      BY <3>1, <3>2, <3>3, <3>4 DEF PostFits
  <2>3. DraftFits(f)'
    <3>1. draft[f] # 0 => draft[f] \in Reading!Texts
      BY <1>3 DEF DraftFits, Reading!Typed
    <3>2. CASE draft[f] = t
      BY <1>2, <1>3, <1>7, <1>8, <2>1, <3>2 DEF DraftFits, Reading!Typed
    <3>3. CASE draft[f] # t
      BY <1>2, <1>3, <1>7, <1>8, <1>13, <1>14, <3>1, <3>3 DEF DraftFits, Reading!Typed
    <3>4. QED
      BY <3>2, <3>3
  <2>4. ASSUME NEW g \in Reading!Forms, g # f PROVE DraftFits(g)' /\ PostFits(g)'
    <3>1. DraftFits(g) /\ PostFits(g)
      BY DEF ThreadInv, ThreadForms
    <3>2. draft[g] # t /\ (post[g].pc # "idle" => post[g].text # t)
      BY <1>1, <1>2, <2>4, FormsDiffer
    <3>3. DraftFits(g)'
      <4>1. draft[g] # 0 => draft[g] \in Reading!Texts
        BY <3>1 DEF DraftFits, Reading!Typed
      <4>2. QED
        BY <1>2, <1>8, <1>13, <1>14, <2>4, <3>1, <3>2, <4>1 DEF DraftFits, Reading!Typed
    <3>4. PostFits(g)'
      <4>1. post[g].pc # "idle" => post[g].text \in Reading!Texts
        BY <3>1 DEF PostFits, Reading!Typed
      <4>2. QED
        BY <1>2, <1>8, <1>13, <1>14, <2>4, <3>1, <3>2, <4>1 DEF PostFits, Reading!Typed
    <3>5. QED
      BY <3>3, <3>4
  <2>5. ASSUME NEW s \in Reading!Texts PROVE RowsFit(s)'
    <3>1. RowsFit(s)
      BY DEF ThreadInv, ThreadForms
    <3>2. CASE s = t /\ made
      <4>1. IsFiniteSet(posted'[s]) /\ (posted[t] = {} => Cardinality(posted'[s]) = 1)
        <5>1. /\ IsFiniteSet(posted[t] \cup {r})
              /\ Cardinality(posted[t] \cup {r}) = IF r \in posted[t] THEN Cardinality(posted[t])
                                                 ELSE Cardinality(posted[t]) + 1
          BY <1>11, FS_AddElement
        <5>2. posted[t] = {} => Cardinality(posted[t]) = 0
          BY FS_EmptySet
        <5>3. posted'[s] = posted[t] \cup {r}
          BY <1>13, <3>2
        <5>4. posted[t] = {} => r \notin posted[t]
          OBVIOUS
        <5>5. QED
          BY <5>1, <5>2, <5>3, <5>4
      <4>2. Cardinality(posted'[s]) > 1 => s \in unsure'
        BY <1>4, <1>14, <3>2, <4>1
      <4>3. \A q \in posted'[s] : q[1] = typed[s]
        BY <1>12, <1>13, <3>1, <3>2 DEF RowsFit
      <4>4. QED
        BY <1>2, <1>4, <3>2, <4>1, <4>2, <4>3 DEF RowsFit, Reading!Typed
    <3>3. CASE ~(s = t /\ made)
      <4>1. posted'[s] = posted[s]
        BY <1>13, <3>3
      <4>2. QED
        BY <1>2, <1>14, <3>1, <4>1 DEF RowsFit, Reading!Typed
    <3>4. QED
      BY <3>2, <3>3
  <2>6. QED
    BY <2>2, <2>3, <2>4, <2>5 DEF ThreadForms
<1>17. ThreadLoads'
  <2>1. Reading!Present \subseteq Reading!Present'
    BY <1>13 DEF Reading!Present
  <2>2. /\ Reading!Used' = Reading!Used
        /\ \A m \in 1..MaxLoads :
              (Newest(m)' <=> Newest(m)) /\ (LastHandled(m)' <=> LastHandled(m))
    BY <1>2 DEF Reading!Used, Newest, LastHandled
  <2>3. QED
    BY <1>2, <2>1, <2>2 DEF ThreadInv, ThreadLoads
<1>18. ThreadVote'
  BY <1>2, <1>14, VoteFrame DEF ThreadInv
<1>19. QED
  BY <1>15, <1>16, <1>17, <1>18 DEF ThreadInv

LEMMA PostAnsweredStep ==
    ASSUME ReadingConstants, ThreadInv, NEW f \in Reading!Forms, Reading!PostAnswered(f)
    PROVE  ThreadInv'
<1>1. /\ post[f].pc = "answered" /\ post' = [post EXCEPT ![f] = Reading!NoPost]
      /\ UNCHANGED <<thread, posted, mine, here, seen, notFound, vote, userVote, typed,
                     overtaken, unsure>>
  BY DEF Reading!PostAnswered
<1>2. Reading!NoPost \in PostSet /\ Reading!NoPost.pc = "idle"
  BY DEF Reading!NoPost, PostSet, Spots
<1>3. /\ post' \in [Reading!Forms -> PostSet]
      /\ \A g \in Reading!Forms : post'[g] = IF g = f THEN Reading!NoPost ELSE post[g]
  BY <1>1, <1>2 DEF ThreadInv, ThreadTypes
<1>4. PostFits(f) /\ DraftFits(f)
  BY DEF ThreadInv, ThreadForms
<1>5. draft \in [Reading!Forms -> {0} \cup Reading!Texts] /\ load \in [1..MaxLoads -> LoadSet]
  BY DEF ThreadInv, ThreadTypes, Reading!TypeOK
<1>6. \A s \in Reading!Texts : RowsFit(s)'
  <2> SUFFICES ASSUME NEW s \in Reading!Texts PROVE RowsFit(s)'
    OBVIOUS
  <2>1. RowsFit(s)
    BY DEF ThreadInv, ThreadForms
  <2>2. QED
    BY <1>1, <2>1 DEF RowsFit, Reading!Typed
<1>7. ThreadVote'
  BY <1>1, VoteFrame DEF ThreadInv
<1>8. CASE ~post[f].ok
  <2>1. UNCHANGED <<draft, replyTo, acked, loading, load>>
    BY <1>8 DEF Reading!PostAnswered
  <2>2. ThreadTypes'
    BY <1>1, <1>3, <2>1 DEF ThreadInv, ThreadTypes, Reading!TypeOK, Reading!Typed
  <2>3. ASSUME NEW g \in Reading!Forms PROVE DraftFits(g)' /\ PostFits(g)'
    <3>1. DraftFits(g) /\ PostFits(g)
      BY DEF ThreadInv, ThreadForms
    <3>2. QED
      BY <1>1, <1>2, <1>3, <1>8, <2>1, <3>1 DEF DraftFits, PostFits, Reading!Typed
  <2>4. ThreadLoads'
    BY <1>1, <2>1, LoadsFrame DEF ThreadInv
  <2>5. QED
    BY <1>6, <1>7, <2>2, <2>3, <2>4 DEF ThreadInv, ThreadForms
<1>9. CASE post[f].ok
  <2>1. PICK n \in 1..MaxLoads : Reading!Used = 1..n
    BY DEF ThreadInv, ThreadLoads
  <2>2. Reading!Cardinality(Reading!Used) = n
    BY <2>1, FS_Interval, ReadingSameSize
  <2>3. /\ draft' = [draft EXCEPT ![f] = 0]
        /\ replyTo' = (IF f = "reply" THEN Reading!Nowhere ELSE replyTo)
        /\ acked' = acked \cup {post[f].text}
    BY <1>9 DEF Reading!PostAnswered
  <2>4. PICK i \in 1..MaxLoads :
           i = n + 1 /\ load' = [load EXCEPT ![i] = [load[i] EXCEPT !.pc = "sent"]]
    BY <1>9, <2>2 DEF Reading!PostAnswered
  <2>5. PICK w : w = [load[i] EXCEPT !.pc = "sent"]
    OBVIOUS
  <2>6. load[i] \in LoadSet /\ w \in LoadSet /\ w.pc = "sent"
    BY <1>5, <2>5 DEF LoadSet
  <2>7. /\ load' \in [1..MaxLoads -> LoadSet]
        /\ \A j \in 1..MaxLoads : load'[j] = IF j = i THEN w ELSE load[j]
    BY <1>5, <2>4, <2>5, <2>6
  <2>8. /\ draft' \in [Reading!Forms -> {0} \cup Reading!Texts]
        /\ \A g \in Reading!Forms : draft'[g] = IF g = f THEN 0 ELSE draft[g]
    BY <1>5, <2>3
  <2>9. post[f].text \in Reading!Texts /\ (thread = "there" => post[f].text \in Reading!Present)
    BY <1>1, <1>4, <1>9 DEF PostFits, Reading!Typed, Reading!Present
  <2>10. ThreadTypes'
    BY <1>1, <1>3, <2>3, <2>7, <2>8, <2>9 DEF ThreadInv, ThreadTypes, Reading!TypeOK, Reading!Typed
  <2>11. ASSUME NEW g \in Reading!Forms PROVE DraftFits(g)' /\ PostFits(g)'
    <3>1. DraftFits(g) /\ PostFits(g)
      BY DEF ThreadInv, ThreadForms
    <3>2. CASE g = f
      BY <1>2, <1>3, <2>8, <3>2 DEF DraftFits, PostFits
    <3>3. CASE g # f
      <4>1. g = "reply" => replyTo' = replyTo
        BY <2>3, <3>3
      <4>2. DraftFits(g)'
        BY <1>1, <1>3, <2>8, <3>1, <3>3, <4>1 DEF DraftFits, Reading!Typed
      <4>3. PostFits(g)'
        BY <1>1, <1>3, <3>1, <3>3 DEF PostFits, Reading!Typed
      <4>4. QED
        BY <4>2, <4>3
    <3>4. QED
      BY <3>2, <3>3
  <2>12. ThreadLoads'
    <3>1. \A j \in 1..MaxLoads : load[j].pc # "unused" <=> j \in 1..n
      BY <2>1 DEF Reading!Used
    <3>2. load[i].pc = "unused" /\ n + 1 \in 1..MaxLoads
      BY <2>4, <3>1
    <3>3. Reading!Used' = 1..(n + 1)
      <4>1. Reading!Used' = Reading!Used \cup {i}
        BY <2>6, <2>7 DEF Reading!Used
      <4>2. 1..(n + 1) = (1..n) \cup {n + 1}
        OBVIOUS
      <4>3. QED
        BY <2>1, <2>4, <4>1, <4>2
    <3>4. Reading!Present' = Reading!Present
      BY <1>1 DEF Reading!Present
    <3>5. thread' = "there" => acked' \subseteq Reading!Present'
      BY <1>1, <2>3, <2>9, <3>4 DEF ThreadInv, ThreadLoads
    <3>6. \A m \in 1..MaxLoads : load'[m].pc = "answered" => load'[m].status # "none"
      BY <2>6, <2>7 DEF ThreadInv, ThreadLoads
    <3>7. ASSUME NEW m \in 1..MaxLoads, load'[m].pc \in {"answered", "done"}, Newest(m)'
          PROVE  FALSE
      <4>1. m # i
        BY <2>6, <2>7, <3>7
      <4>2. load[m].pc # "unused"
        BY <2>7, <3>7, <4>1
      <4>3. m < i
        BY <2>4, <3>1, <4>2
      <4>4. QED
        BY <2>6, <2>7, <3>7, <4>3 DEF Newest
    <3>8. ASSUME NEW m \in 1..MaxLoads, LastHandled(m)', ~overtaken', ~notFound'
          PROVE  load'[m].status = "200" /\ seen'.texts = load'[m].texts
      <4>1. m # i
        BY <2>6, <2>7, <3>8 DEF LastHandled
      <4>2. LastHandled(m)
        BY <2>6, <2>7, <3>2, <3>8 DEF LastHandled
      <4>3. QED
        BY <1>1, <2>7, <3>8, <4>1, <4>2 DEF ThreadInv, ThreadLoads
    <3>9. QED
      BY <3>2, <3>3, <3>5, <3>6, <3>7, <3>8 DEF ThreadLoads
  <2>13. QED
    BY <1>6, <1>7, <2>10, <2>11, <2>12 DEF ThreadInv, ThreadForms
<1>10. QED
  BY <1>8, <1>9

LEMMA VotingSteps ==
    ASSUME ReadingConstants, ThreadInv,
           \/ \E value \in Values : Reading!Vote(value)
           \/ Reading!ServerVotes \/ Reading!VoteAnswered
    PROVE  ThreadInv'
<1>1. /\ UNCHANGED <<thread, posted, seen, notFound, load, draft, post, replyTo, typed, acked,
                     overtaken>>
      /\ \A t \in Reading!Texts : t \in unsure => t \in unsure'
  <2>1. \A t \in Reading!Texts : t # Reading!TheVote
    BY DEF Reading!Texts, Reading!TheVote
  <2>2. CASE (\E value \in Values : Reading!Vote(value)) \/ Reading!VoteAnswered
    BY <2>2 DEF Reading!Vote, Reading!VoteAnswered, Reading!history
  <2>3. CASE Reading!ServerVotes
    <3>1. UNCHANGED <<thread, posted, seen, notFound, load, draft, post, replyTo, typed, acked,
                      overtaken>>
      BY <2>3 DEF Reading!ServerVotes
    <3>2. \/ UNCHANGED unsure
          \/ \E ok \in BOOLEAN : unsure' = (IF ok THEN unsure \ {Reading!TheVote}
                                         ELSE unsure \cup {Reading!TheVote})
      BY <2>3 DEF Reading!ServerVotes
    <3>3. QED
      BY <2>1, <3>1, <3>2
  <2>4. QED
    BY <2>2, <2>3
<1>2. ThreadForms' /\ ThreadLoads'
  BY <1>1, FormsFrame, LoadsFrame DEF ThreadInv
<1>3. /\ vote \in VoteSet /\ ThreadVote
      /\ mine \in Values \cup {"none"} /\ userVote \in Values \cup {"none"}
  BY DEF ThreadInv, ThreadTypes, Reading!TypeOK
<1>4. /\ vote' \in VoteSet /\ mine' \in Values \cup {"none"} /\ userVote' \in Values \cup {"none"}
      /\ ThreadVote'
  <2>1. CASE \E value \in Values : Reading!Vote(value)
    <3>1. PICK value \in Values : Reading!Vote(value)
      BY <2>1
    <3>2. /\ vote.pc = "idle" /\ vote' = [Reading!NoVote EXCEPT !.pc = "sent", !.value = value]
          /\ UNCHANGED <<mine, userVote, unsure>>
      BY <3>1 DEF Reading!Vote, Reading!history
    <3>3. vote' = [pc |-> "sent", value |-> value, ok |-> FALSE]
      BY <3>2 DEF Reading!NoVote
    <3>4. vote' \in VoteSet /\ vote'.ok = FALSE
      BY <3>3 DEF VoteSet
    <3>5. Reading!TheVote \notin unsure => mine = userVote
      BY <1>3, <3>2 DEF ThreadVote
    <3>6. QED
      BY <1>3, <3>2, <3>4, <3>5 DEF ThreadVote
  <2>2. CASE Reading!ServerVotes
    <3>1. vote.pc = "sent" /\ UNCHANGED userVote
      BY <2>2 DEF Reading!ServerVotes
    <3>2. CASE vote' = [vote EXCEPT !.pc = "answered"] /\ UNCHANGED <<mine, unsure>>
      BY <1>3, <3>1, <3>2 DEF VoteSet, ThreadVote
    <3>3. CASE /\ mine' = (IF mine = vote.value THEN "none" ELSE vote.value)
               /\ \E ok \in BOOLEAN :
                     /\ vote' = [pc |-> "answered", value |-> mine', ok |-> ok]
                     /\ unsure' = (IF ok THEN unsure \ {Reading!TheVote}
                                   ELSE unsure \cup {Reading!TheVote})
      <4>1. vote.value \in Values \cup {"none"}
        BY <1>3 DEF VoteSet
      <4>2. mine' \in Values \cup {"none"}
        BY <3>3, <4>1
      <4>3. PICK ok \in BOOLEAN : /\ vote' = [pc |-> "answered", value |-> mine', ok |-> ok]
                                  /\ ok \/ Reading!TheVote \in unsure'
        BY <3>3
      <4>4. QED
        BY <1>3, <3>1, <4>2, <4>3 DEF VoteSet, ThreadVote
    <3>4. QED
      BY <2>2, <3>2, <3>3 DEF Reading!ServerVotes
  <2>3. CASE Reading!VoteAnswered
    <3>1. /\ vote' = [pc |-> "idle", value |-> "none", ok |-> FALSE]
          /\ userVote' = (IF vote.ok THEN vote.value ELSE userVote) /\ UNCHANGED <<mine, unsure>>
      BY <2>3 DEF Reading!VoteAnswered, Reading!NoVote, Reading!history
    <3>2. QED
      BY <1>3, <3>1 DEF VoteSet, ThreadVote
  <2>4. QED
    BY <2>1, <2>2, <2>3
<1>5. ThreadTypes'
  BY <1>1, <1>4 DEF ThreadInv, ThreadTypes, Reading!TypeOK, Reading!Typed
<1>6. QED
  BY <1>2, <1>4, <1>5 DEF ThreadInv

LEMMA DeleteStep ==
    ASSUME ThreadInv, Reading!Delete
    PROVE  ThreadInv'
<1>1. /\ thread' = "gone" /\ posted' = [t \in Reading!Texts |-> {}]
      /\ UNCHANGED <<mine, seen, loading, notFound, load, draft, post, replyTo, vote, userVote,
                     typed, acked, overtaken, unsure>>
  BY DEF Reading!Delete, Reading!history
<1>2. ThreadTypes'
  BY <1>1 DEF ThreadInv, ThreadTypes, Reading!TypeOK, Reading!Typed
<1>3. ASSUME NEW g \in Reading!Forms PROVE DraftFits(g)' /\ PostFits(g)'
  <2>1. DraftFits(g) /\ PostFits(g)
    BY DEF ThreadInv, ThreadForms
  <2>2. DraftFits(g)'
    BY <1>1, <2>1 DEF DraftFits, Reading!Typed
  <2>3. PostFits(g)'
    BY <1>1, <2>1 DEF PostFits, Reading!Typed
  <2>4. QED
    BY <2>2, <2>3
<1>4. \A s \in Reading!Texts : RowsFit(s)'
  BY <1>1, FS_EmptySet DEF RowsFit
<1>5. ThreadLoads'
  <2>1. Reading!Used' = Reading!Used /\ \A m \in 1..MaxLoads : LastHandled(m)' = LastHandled(m)
    BY <1>1 DEF Reading!Used, LastHandled
  <2>2. QED
    BY <1>1, <2>1 DEF ThreadInv, ThreadLoads
<1>6. ThreadVote'
  BY <1>1, VoteFrame DEF ThreadInv
<1>7. QED
  BY <1>2, <1>3, <1>4, <1>5, <1>6 DEF ThreadInv, ThreadForms

LEMMA ThreadStep ==
    ASSUME ReadingConstants, ThreadInv, [Reading!Next]_(Reading!vars)
    PROVE  ThreadInv'
<1>1. CASE Reading!Answer
  BY <1>1, ServerLoadsStep, LoadAnsweredStep, ServerPostsStep, PostAnsweredStep, VotingSteps
  DEF Reading!Answer
<1>2. CASE \/ \E f \in Reading!Forms : Reading!Type(f) \/ Reading!Submit(f)
           \/ \E c \in Places : Reading!ToggleReply(c)
  BY <1>2, TypeStep, SubmitStep, ToggleReplyStep
<1>3. CASE (\E value \in Values : Reading!Vote(value)) \/ Reading!Delete
  BY <1>3, VotingSteps, DeleteStep
<1>4. CASE UNCHANGED Reading!vars
  <2>1. UNCHANGED <<thread, posted, mine, here, seen, loading, notFound, load, draft, post,
                    replyTo, vote, userVote, typed, acked, overtaken, unsure>>
    BY <1>4 DEF Reading!vars, Reading!page, Reading!history
  <2>2. ThreadTypes'
    BY <2>1 DEF ThreadInv, ThreadTypes, Reading!TypeOK, Reading!Typed
  <2>3. QED
    BY <2>1, <2>2, FormsFrame, LoadsFrame, VoteFrame DEF ThreadInv
<1>5. QED
  BY <1>1, <1>2, <1>3, <1>4 DEF Reading!Next

\* What the user does on the page of a thread arrives where it was meant and is shown, for
\* any number of texts, loads and comments: a reply is below the comment it was typed under,
\* once unless its answer was lost; a quiet page shows what was told to be posted unless an
\* older load came last; and the arrow is the user's vote (load, handleReplySubmit, handleVote).
THEOREM ThreadStaysTrue == ReadingConstants /\ Reading!Spec => []Reading!ThreadIsTrue
<1> SUFFICES ASSUME ReadingConstants PROVE Reading!Spec => []Reading!ThreadIsTrue
  OBVIOUS
<1>1. Reading!Init => ThreadInv
  BY ThreadBegins
<1>2. ThreadInv /\ [Reading!Next]_(Reading!vars) => ThreadInv'
  BY ThreadStep
<1>3. QED
  BY <1>1, <1>2, ThreadInvTrue, PTL DEF Reading!Spec

-----------------------------------------------------------------------------
(* A search that is under way is for what is typed now; what is not is     *)
(* only shown again after the effect that clears or replaces it.           *)

CONSTANTS MaxHits, MaxKeys
VARIABLES view, account, open, query, search, late, hits, searching, active, keys, moved

Finding == INSTANCE LiveSearch WITH typed <- query

FindInv ==
    /\ search # "none" => open /\ Finding!Searches(query)
    /\ Finding!HitsAreForQuery /\ Finding!SearchingIsTrue

LEMMA FindBegins == Finding!Init => FindInv
BY DEF Finding!Init, FindInv, Finding!HitsAreForQuery, Finding!SearchingIsTrue, Finding!Searches,
       Finding!Palette, Finding!NoHits

\* Whatever ends in the effect: the search runs if the view is open and searches.
LEMMA EffectStep ==
    ASSUME NEW q, NEW isOpen \in BOOLEAN, Finding!Effect(q, isOpen), query' = q, open' = isOpen,
           UNCHANGED view, isOpen /\ ~Finding!Searches(q) => hits' = Finding!NoHits
    PROVE  FindInv'
<1>1. Finding!Searches(q)' <=> Finding!Searches(q)
  BY DEF Finding!Searches, Finding!Palette
<1>2. /\ search' = IF isOpen /\ Finding!Searches(q)
                   THEN IF Finding!Palette THEN "waiting" ELSE "asked" ELSE "none"
      /\ isOpen /\ Finding!Searches(q) => searching'
  BY DEF Finding!Effect
<1>3. search' # "none" <=> isOpen /\ Finding!Searches(q)
  BY <1>2
<1>4. isOpen /\ ~Finding!Searches(q) => hits'.count = 0
  BY DEF Finding!NoHits
<1>5. QED
  BY <1>1, <1>2, <1>3, <1>4 DEF FindInv, Finding!HitsAreForQuery, Finding!SearchingIsTrue

LEMMA FindStep == FindInv /\ [Finding!Next]_(Finding!vars) => FindInv'
<1> SUFFICES ASSUME FindInv, [Finding!Next]_(Finding!vars) PROVE FindInv'
  OBVIOUS
<1> USE DEF FindInv, Finding!HitsAreForQuery, Finding!SearchingIsTrue, Finding!Searches,
            Finding!Palette
<1>1. ASSUME NEW q, Finding!Type(q) PROVE FindInv'
  BY <1>1, EffectStep DEF Finding!Type
<1>2. CASE Finding!Toggle
  BY <1>2, EffectStep DEF Finding!Toggle
<1>3. ASSUME Finding!Close PROVE FindInv'
  BY <1>3, EffectStep DEF Finding!Close
<1>4. ASSUME NEW i, Finding!Highlight(i) PROVE FindInv'
  BY <1>4 DEF Finding!Highlight
<1>5. CASE Finding!Fire
  BY <1>5 DEF Finding!Fire
<1>6. ASSUME NEW n, Finding!Answer(n) PROVE FindInv'
  BY <1>6 DEF Finding!Answer
<1>7. CASE (\E q \in Finding!Typed : Finding!Late(q))
           \/ \E a \in {"visitor", "user", "admin"} : Finding!SignIn(a)
  BY <1>7 DEF Finding!Late, Finding!SignIn
<1>8. CASE UNCHANGED Finding!vars
  BY <1>8 DEF Finding!vars
<1>9. QED
  BY <1>1, <1>2, <1>3, <1>4, <1>5, <1>6, <1>7, <1>8
  DEF Finding!Next, Finding!Run, Finding!Down, Finding!Up, Finding!Hover

\* In the palette and in the list, what is shown when no search runs was found for what is
\* typed, and the spinner turns exactly while a search runs, in whatever order the answers of
\* cancelled effects come in (the effects' cancelled flags).
THEOREM HitsStayForTheQuery ==
    Finding!Spec => [](Finding!HitsAreForQuery /\ Finding!SearchingIsTrue)
BY FindBegins, FindStep, PTL DEF Finding!Spec, FindInv

-----------------------------------------------------------------------------
(* The assistant's handler says by its step which rows a question has.     *)

CONSTANTS Tabs, HistoryLimit, MaxSends, MaxCuts
VARIABLES rows, questions, chat, cuts, hasty

Chatting == INSTANCE Assistant WITH post <- questions

HandlerSteps == {"asked", "stored", "answered", "failed"}
QuestionSet == [tab : Tabs \cup {Chatting!Nobody}, pc : HandlerSteps]
MessageSet == [role : {"user", "assistant"}, of : Nat]

HasRow(role, n) == \E i \in DOMAIN rows : rows[i] = Chatting!Message(role, n)

RowsInv ==
    /\ rows \in Seq(MessageSet) /\ questions \in Seq(QuestionSet)
    /\ \A i \in DOMAIN rows : rows[i].of \in DOMAIN questions
    /\ \A i, j \in DOMAIN rows : rows[i] = rows[j] => i = j
    /\ \A i \in DOMAIN rows : rows[i].role = "assistant" =>
          \E j \in DOMAIN rows : j < i /\ rows[j] = Chatting!Message("user", rows[i].of)
    /\ \A n \in DOMAIN questions :
          /\ HasRow("user", n) => questions[n].pc # "asked"
          /\ HasRow("assistant", n) => questions[n].pc = "answered"
          /\ questions[n].pc = "answered" => HasRow("assistant", n)
          /\ questions[n].pc = "stored" => HasRow("user", n)

LEMMA RowsInvTurns == RowsInv => Chatting!RowsAreTurns
<1> SUFFICES ASSUME RowsInv, NEW n \in DOMAIN questions
             PROVE  /\ \A i, j \in DOMAIN rows : rows[i] = rows[j] => i = j
                    /\ \A i \in Chatting!Place("assistant", n) :
                          \E j \in Chatting!Place("user", n) : j < i
                    /\ Chatting!Place("user", n) # {} /\ Chatting!Place("assistant", n) = {} =>
                          questions[n].pc \in {"stored", "failed"}
  BY DEF Chatting!RowsAreTurns
<1>1. \A i, j \in DOMAIN rows : rows[i] = rows[j] => i = j
  BY DEF RowsInv
<1>2. ASSUME NEW i \in Chatting!Place("assistant", n)
      PROVE  \E j \in Chatting!Place("user", n) : j < i
  <2>1. i \in DOMAIN rows /\ rows[i].role = "assistant" /\ rows[i].of = n
    BY <1>2 DEF Chatting!Place, Chatting!Message
  <2>2. QED
    BY <2>1 DEF RowsInv, Chatting!Place
<1>3. Chatting!Place("user", n) # {} /\ Chatting!Place("assistant", n) = {} =>
          questions[n].pc \in {"stored", "failed"}
  <2>1. questions[n].pc \in HandlerSteps
    <3>1. questions[n] \in QuestionSet
      BY DEF RowsInv
    <3>2. QED
      BY <3>1 DEF QuestionSet
  <2>2. QED
    BY <2>1 DEF RowsInv, Chatting!Place, HasRow, HandlerSteps
<1>4. QED
  BY <1>1, <1>2, <1>3

\* A step that stores nothing and lets the handlers be, but for one that may fail before its
\* reply is stored.
LEMMA NothingStored ==
    ASSUME RowsInv, rows' = rows, questions' \in Seq(QuestionSet),
           DOMAIN questions' = DOMAIN questions,
           \A n \in DOMAIN questions :
              \/ questions'[n].pc = questions[n].pc
              \/ questions'[n].pc = "failed" /\ questions[n].pc \in {"asked", "stored"}
    PROVE  RowsInv'
BY DEF RowsInv, HasRow

LEMMA StoredOne ==
    ASSUME RowsInv, NEW n \in DOMAIN questions, NEW role \in {"user", "assistant"},
           NEW pc \in HandlerSteps,
           rows' = Append(rows, Chatting!Message(role, n)), Chatting!To(n, pc),
           \/ role = "user" /\ pc = "stored" /\ questions[n].pc = "asked"
           \/ role = "assistant" /\ pc = "answered" /\ questions[n].pc = "stored"
    PROVE  RowsInv'
<1>1. PICK m : m = Chatting!Message(role, n)
  OBVIOUS
<1>2. n \in Nat /\ m \in MessageSet /\ m.role = role /\ m.of = n
  BY <1>1 DEF RowsInv, MessageSet, Chatting!Message
<1>3. PICK k \in Nat : k = Len(rows)
  BY DEF RowsInv
<1>4. /\ rows' \in Seq(MessageSet) /\ DOMAIN rows = 1..k /\ DOMAIN rows' = 1..(k + 1)
      /\ \A i \in 1..k : rows'[i] = rows[i]
      /\ rows'[k + 1] = m
  BY <1>1, <1>2, <1>3 DEF RowsInv
<1>5. PICK w : w = [questions[n] EXCEPT !.pc = pc]
  OBVIOUS
<1>6. questions[n] \in QuestionSet /\ w \in QuestionSet /\ w.pc = pc
  <2>1. questions[n] \in QuestionSet
    BY DEF RowsInv
  <2>2. QED
    BY <1>5, <2>1 DEF QuestionSet
<1>7. questions' = [questions EXCEPT ![n] = w]
  BY <1>5 DEF Chatting!To
<1>8. /\ questions' \in Seq(QuestionSet) /\ DOMAIN questions' = DOMAIN questions
      /\ \A o \in DOMAIN questions : questions'[o] = IF o = n THEN w ELSE questions[o]
  BY <1>6, <1>7, ExceptSeq DEF RowsInv
<1>9. ~HasRow(role, n)
  BY DEF RowsInv
<1>10. \A i \in 1..k : rows[i] # m
  BY <1>1, <1>4, <1>9 DEF HasRow
<1>11. \A i \in DOMAIN rows' : rows'[i].of \in DOMAIN questions'
  BY <1>2, <1>4, <1>8 DEF RowsInv
<1>12. ASSUME NEW i \in DOMAIN rows', NEW j \in DOMAIN rows', rows'[i] = rows'[j]
       PROVE  i = j
  <2>1. \A a \in 1..(k + 1) : a \in 1..k \/ a = k + 1
    OBVIOUS
  <2>2. CASE i \in 1..k /\ j \in 1..k
    <3>1. rows[i] = rows[j]
      BY <1>4, <1>12, <2>2
    <3>2. QED
      BY <1>4, <2>2, <3>1 DEF RowsInv
  <2>3. CASE i \in 1..k /\ j = k + 1
    BY <1>4, <1>10, <1>12, <2>3
  <2>4. CASE i = k + 1 /\ j \in 1..k
    BY <1>4, <1>10, <1>12, <2>4
  <2>5. QED
    BY <1>4, <2>1, <2>2, <2>3, <2>4
<1>13. ASSUME NEW i \in DOMAIN rows', rows'[i].role = "assistant"
       PROVE  \E j \in DOMAIN rows' : j < i /\ rows'[j] = Chatting!Message("user", rows'[i].of)
  <2>1. CASE i \in 1..k
    BY <1>4, <1>13, <2>1 DEF RowsInv
  <2>2. CASE i = k + 1
    <3>1. role = "assistant" /\ HasRow("user", n)
      BY <1>2, <1>4, <1>13, <2>2 DEF RowsInv
    <3>2. PICK j \in 1..k : rows[j] = Chatting!Message("user", n)
      BY <1>4, <3>1 DEF HasRow
    <3>3. j < i /\ j \in 1..(k + 1)
      BY <2>2
    <3>4. QED
      BY <1>2, <1>4, <2>2, <3>2, <3>3
  <2>3. QED
    BY <1>4, <2>1, <2>2
<1>14. ASSUME NEW r \in {"user", "assistant"}, NEW o \in DOMAIN questions
       PROVE  HasRow(r, o)' <=> HasRow(r, o) \/ (r = role /\ o = n)
  <2>1. (Chatting!Message(r, o) = m) <=> (r = role /\ o = n)
    BY <1>1 DEF Chatting!Message
  <2>2. HasRow(r, o)' <=> HasRow(r, o) \/ Chatting!Message(r, o) = m
    BY <1>4 DEF HasRow
  <2>3. QED
    BY <2>1, <2>2
<1>15. ASSUME NEW o \in DOMAIN questions'
       PROVE  /\ HasRow("user", o)' => questions'[o].pc # "asked"
              /\ HasRow("assistant", o)' => questions'[o].pc = "answered"
              /\ questions'[o].pc = "answered" => HasRow("assistant", o)'
              /\ questions'[o].pc = "stored" => HasRow("user", o)'
  BY <1>6, <1>8, <1>14 DEF RowsInv
<1>16. QED
  BY <1>4, <1>8, <1>11, <1>12, <1>13, <1>15 DEF RowsInv

LEMMA RowsStep ==
    ASSUME RowsInv, [Chatting!Next]_(Chatting!vars)
    PROVE  RowsInv'
<1>1. PICK k \in Nat : k = Len(questions) /\ DOMAIN questions = 1..k
  BY DEF RowsInv
<1>2. ASSUME NEW t \in Tabs, Chatting!Leave(t) PROVE RowsInv'
  <2>1. /\ rows' = rows
        /\ questions' = [n \in 1..k |-> IF questions[n].tab = t
                                        THEN [questions[n] EXCEPT !.tab = Chatting!Nobody]
                                        ELSE questions[n]]
    BY <1>1, <1>2 DEF Chatting!Leave
  <2>2. ASSUME NEW n \in 1..k
        PROVE  questions'[n] \in QuestionSet /\ questions'[n].pc = questions[n].pc
    <3>1. questions[n] \in QuestionSet
      BY <1>1 DEF RowsInv
    <3>2. QED
      BY <2>1, <3>1 DEF QuestionSet
  <2>3. DOMAIN questions' = 1..k
    BY <2>1
  <2>4. questions' \in [1..k -> QuestionSet]
    BY <2>1, <2>2
  <2>5. questions' \in Seq(QuestionSet)
    BY <2>4, SeqDef
  <2>6. QED
    BY <1>1, <2>1, <2>2, <2>3, <2>5, NothingStored
<1>3. ASSUME NEW t \in Tabs, Chatting!Send(t) PROVE RowsInv'
  <2>1. PICK w : w = [tab |-> t, pc |-> "asked"]
    OBVIOUS
  <2>2. rows' = rows /\ questions' = Append(questions, w) /\ w \in QuestionSet /\ w.pc = "asked"
    BY <1>3, <2>1 DEF Chatting!Send, QuestionSet, HandlerSteps
  <2>3. /\ questions' \in Seq(QuestionSet) /\ DOMAIN questions' = 1..(k + 1)
        /\ \A n \in 1..k : questions'[n] = questions[n]
        /\ questions'[k + 1] = w
    BY <1>1, <2>2 DEF RowsInv
  <2>4. \A role \in {"user", "assistant"} : ~HasRow(role, k + 1)
    BY <1>1 DEF RowsInv, HasRow, Chatting!Message
  <2>5. \A role \in {"user", "assistant"}, n \in 1..(k + 1) : HasRow(role, n)' <=> HasRow(role, n)
    BY <2>2 DEF HasRow
  <2>6. \A n \in 1..(k + 1) : n \in 1..k \/ n = k + 1
    OBVIOUS
  <2>7. ASSUME NEW n \in DOMAIN questions'
        PROVE  /\ HasRow("user", n)' => questions'[n].pc # "asked"
               /\ HasRow("assistant", n)' => questions'[n].pc = "answered"
               /\ questions'[n].pc = "answered" => HasRow("assistant", n)'
               /\ questions'[n].pc = "stored" => HasRow("user", n)'
    <3>1. CASE n \in 1..k
      BY <1>1, <2>3, <2>5, <3>1 DEF RowsInv
    <3>2. CASE n = k + 1
      BY <2>2, <2>3, <2>4, <2>5, <3>2
    <3>3. QED
      BY <2>3, <2>6, <3>1, <3>2
  <2>8. \A i \in DOMAIN rows' : rows'[i].of \in DOMAIN questions'
    BY <1>1, <2>2, <2>3 DEF RowsInv
  <2>9. QED
    BY <2>2, <2>3, <2>7, <2>8 DEF RowsInv
<1>4. ASSUME NEW n, NEW w \in QuestionSet, rows' = rows, questions' = [questions EXCEPT ![n] = w],
             n \in DOMAIN questions,
             \/ w.pc = questions[n].pc
             \/ w.pc = "failed" /\ questions[n].pc \in {"asked", "stored"}
      PROVE  RowsInv'
  <2>1. /\ questions' \in Seq(QuestionSet) /\ DOMAIN questions' = DOMAIN questions
        /\ \A o \in DOMAIN questions : questions'[o] = IF o = n THEN w ELSE questions[o]
    BY <1>4 DEF RowsInv
  <2>2. QED
    BY <1>4, <2>1, NothingStored
<1>5. ASSUME NEW t \in Tabs, Chatting!Cut(t) PROVE RowsInv'
  <2>1. PICK n : n = chat[t].sending
    OBVIOUS
  <2>2. PICK w : w = [questions[n] EXCEPT !.tab = Chatting!Nobody]
    OBVIOUS
  <2>3. rows' = rows /\ questions' = [questions EXCEPT ![n] = w]
    BY <1>5, <2>1, <2>2 DEF Chatting!Cut
  <2>4. CASE n \in DOMAIN questions
    <3>1. questions[n] \in QuestionSet
      BY <2>4 DEF RowsInv
    <3>2. w \in QuestionSet /\ w.pc = questions[n].pc
      BY <2>2, <3>1 DEF QuestionSet
    <3>3. QED
      BY <1>4, <2>3, <2>4, <3>2
  <2>5. CASE n \notin DOMAIN questions
    <3>1. /\ questions \in [1..k -> QuestionSet] /\ n \notin 1..k
      BY <1>1, <2>5, LenProperties DEF RowsInv
    <3>2. questions' \in [1..k -> QuestionSet] /\ \A o \in 1..k : questions'[o] = questions[o]
      BY <2>3, <3>1
    <3>3. questions' \in Seq(QuestionSet) /\ DOMAIN questions' = 1..k
      BY <3>2, SeqDef
    <3>4. QED
      BY <1>1, <2>3, <3>2, <3>3, NothingStored
  <2>6. QED
    BY <2>4, <2>5
<1>6. ASSUME NEW n \in DOMAIN questions, rows' = rows, Chatting!To(n, "failed"),
             questions[n].pc \in {"asked", "stored"}
      PROVE  RowsInv'
  <2>1. PICK w : w = [questions[n] EXCEPT !.pc = "failed"]
    OBVIOUS
  <2>2. questions' = [questions EXCEPT ![n] = w]
    BY <1>6, <2>1 DEF Chatting!To
  <2>3. questions[n] \in QuestionSet
    BY DEF RowsInv
  <2>4. w \in QuestionSet /\ w.pc = "failed"
    BY <2>1, <2>3 DEF QuestionSet, HandlerSteps
  <2>5. QED
    BY <1>4, <1>6, <2>2, <2>4
<1>7. ASSUME NEW n \in DOMAIN questions,
             Chatting!Refuse(n) \/ Chatting!Store(n) \/ Chatting!Reply(n)
      PROVE  RowsInv'
  <2>1. CASE Chatting!Refuse(n)
    BY <1>6, <2>1 DEF Chatting!Refuse
  <2>2. CASE Chatting!Store(n)
    BY <2>2, StoredOne DEF Chatting!Store, HandlerSteps
  <2>3. CASE Chatting!Reply(n)
    BY <1>6, <2>3, StoredOne DEF Chatting!Reply, HandlerSteps
  <2>4. QED
    BY <1>7, <2>1, <2>2, <2>3
<1>8. CASE UNCHANGED <<rows, questions>>
  BY <1>8, NothingStored DEF RowsInv
<1>9. CASE \E t \in Tabs : \/ Chatting!Open(t) \/ Chatting!Close(t) \/ Chatting!ReadHistory(t)
                           \/ Chatting!LoadHistory(t) \/ Chatting!LoseHistory(t)
                           \/ Chatting!Arrive(t)
  BY <1>8, <1>9 DEF Chatting!Open, Chatting!Close, Chatting!ReadHistory, Chatting!LoadHistory,
                    Chatting!LoseHistory, Chatting!Arrive
<1>10. CASE UNCHANGED Chatting!vars
  BY <1>8, <1>10 DEF Chatting!vars
<1>11. QED
  BY <1>2, <1>3, <1>5, <1>7, <1>9, <1>10 DEF Chatting!Next

LEMMA RowsBegin == Chatting!Init => RowsInv
<1> SUFFICES ASSUME Chatting!Init PROVE RowsInv
  OBVIOUS
<1>1. rows = <<>> /\ questions = <<>>
  BY DEF Chatting!Init
<1>2. /\ rows \in Seq(MessageSet) /\ questions \in Seq(QuestionSet)
      /\ DOMAIN rows = {} /\ DOMAIN questions = {}
  BY <1>1
<1>3. QED
  BY <1>2 DEF RowsInv

\* The messages a user and the assistant have exchanged about a problem are stored in turns,
\* for any number of tabs, questions and lost answers: each reply once and after its question,
\* and a question without a reply is being answered or its request failed (the POST handler).
THEOREM RowsStayTurns == Chatting!Spec => []Chatting!RowsAreTurns
BY RowsBegin, RowsStep, RowsInvTurns, PTL DEF Chatting!Spec
=============================================================================
