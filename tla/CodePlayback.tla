---------------------------- MODULE CodePlayback ----------------------------
(***************************************************************************)
(* Recording what is typed into the editor and replaying it on the page of *)
(* the submission (lib/code-playback.ts, playback-recorder.tsx, the routes *)
(* events and playback, playback-viewer.tsx).                              *)
(*                                                                         *)
(* A code is a sequence of characters, one of which is the newline NL; an  *)
(* edit replaces a range given by lines and columns.  Events carry the     *)
(* milliseconds since the session began; the rows of a submission are read *)
(* in the order of that number, and in any order where it is equal.        *)
(***************************************************************************)
EXTENDS Integers, Sequences, SequencesExt, FiniteSetsExt

CONSTANTS
    Char, NL,      \* two characters
    Submissions,
    Window,        \* DEFAULT_DEBOUNCE_MS
    MaxBuffer,     \* MAX_EVENTS_PER_FLUSH
    MaxClock,      \* bound on time
    MaxLength,     \* bound on the length of the code
    MaxEvents,     \* bound on the events and resets of a session
    Epoch          \* Date.now(): too large for the integer column ts

VARIABLES
    doc,        \* the model of the editor
    clock,      \* Date.now() since the recorder was mounted
    startedAt,  \* startedAtRef.current; 0 stands for "not started" as in the code
    buffer,     \* bufferRef.current
    events,     \* history: how many events the editor has raised
    excused,    \* history: the buffer no longer tells the whole session
    post,       \* POST .../events under way for each submission: its events, or NoPost
    rows,       \* SubmissionEvent rows of each submission
    told,       \* history: the code at the flush that began the rows, {} if it is not told
    frames,     \* how many frames the viewer has
    shown,      \* whose playback the viewer shows, or "none"
    frameIndex, playing

recorder == <<doc, clock, startedAt, buffer, events, excused>>
viewer == <<frames, shown, frameIndex, playing>>
vars == <<recorder, post, rows, told, viewer>>

NoPost == <<>>
\* Mounted when the clock of the session shows 1.
Mounted == 1

-----------------------------------------------------------------------------
(* Positions *)

\* The position of an offset, as the editor reports it (Monaco).
Position(code, offset) ==
    LET breaks == {i \in 1..offset : code[i] = NL}
    IN  [line |-> 1 + Cardinality(breaks), column |-> offset - Max(breaks \cup {0}) + 1]

\* The offset at which a line begins, or the end of the code if there is no such line.
LineStart(code, line) ==
    LET breaks == {i \in DOMAIN code : code[i] = NL}
        before == {i \in breaks : Cardinality({j \in breaks : j <= i}) = line - 1}
    IN  IF line <= 1 THEN 0 ELSE IF before = {} THEN Len(code) ELSE Max(before)

\* Mutant of OffsetForPosition: columns counted from 0.
OffsetFromZero(code, p) == Max({0, Min({Len(code), LineStart(code, p.line) + p.column})})

OffsetForPosition(code, p) ==
    Max({0, Min({Len(code), LineStart(code, p.line) + p.column - 1})})

ApplyEdit(code, edit) ==
    LET start == OffsetForPosition(code, edit.from)
        end == OffsetForPosition(code, edit.to)
    IN  IF start > end THEN code
        ELSE SubSeq(code, 1, start) \o edit.text \o SubSeq(code, end + 1, Len(code))

-----------------------------------------------------------------------------
(* Events *)

IsEdit(ev) == ev.type \in {"keystroke", "paste"}
Edit(type, ts, from, to, text) ==
    [type |-> type, ts |-> ts, from |-> from, to |-> to, text |-> text]
Snapshot(code) == [type |-> "snapshot", ts |-> 0, code |-> code]

\* Mutant of DebounceEvents: any event near a keystroke takes its place.
DebounceAnything(evs) ==
    FoldLeft(LAMBDA out, ev :
                 IF out # <<>> /\ Last(out).type = "keystroke" /\ ev.ts - Last(out).ts < Window
                 THEN Front(out) \o <<ev>> ELSE Append(out, ev),
             <<>>, evs)

\* Of keystrokes within the window the last is kept, although each is only an increment.
DebounceEvents(evs) ==
    FoldLeft(LAMBDA out, ev :
                 IF /\ out # <<>> /\ Last(out).type = "keystroke" /\ ev.type = "keystroke"
                    /\ ev.ts - Last(out).ts < Window
                 THEN Front(out) \o <<ev>> ELSE Append(out, ev),
             <<>>, evs)

\* playback: the code after each event.
Playback(evs) ==
    LET code[i \in 0..Len(evs)] ==
            IF i = 0 THEN <<>>
            ELSE CASE evs[i].type = "snapshot" -> evs[i].code
                   [] IsEdit(evs[i]) -> ApplyEdit(code[i - 1], evs[i])
                   [] OTHER -> code[i - 1]
    IN  [i \in 1..Len(evs) |-> code[i]]

-----------------------------------------------------------------------------
(* The recorder *)

Init ==
    /\ doc = <<Char, NL>>
    /\ clock = Mounted /\ startedAt = Mounted
    /\ buffer = <<Snapshot(doc)>>
    /\ events = 0 /\ excused = FALSE
    /\ post = [s \in Submissions |-> NoPost]
    /\ rows = [s \in Submissions |-> <<>>]
    /\ told = [s \in Submissions |-> {}]
    /\ frames = 0 /\ shown = "none" /\ frameIndex = 1 /\ playing = FALSE

Tick ==
    /\ clock < MaxClock
    /\ clock' = clock + 1
    /\ UNCHANGED <<doc, startedAt, buffer, events, excused, post, rows, told, viewer>>

\* Since reset() the session has no start: the offset is the time since 1970.
Offset == IF startedAt = 0 THEN Epoch + clock ELSE clock - startedAt

\* Two edits of one offset, or two keystrokes the debounce takes for one, do not replay.
Crowded(evs) ==
    \/ \E i, j \in DOMAIN evs :
          /\ i < j /\ evs[i].ts = evs[j].ts
          /\ evs[i].type # "select" /\ evs[j].type # "select"
    \/ \E i \in 1..Len(evs) - 1 :
          /\ evs[i].type = "keystroke" /\ evs[i + 1].type = "keystroke"
          /\ evs[i + 1].ts - evs[i].ts < Window

\* onDidChangeModelContent: each change of the event while there is room.
Record(evs) ==
    LET room == Max({0, MaxBuffer - Len(buffer)})
        kept == SubSeq(evs, 1, Min({room, Len(evs)}))
    IN
    /\ events < MaxEvents
    /\ events' = events + 1
    /\ buffer' = buffer \o kept
    /\ excused' = (excused \/ kept # evs)
    /\ UNCHANGED <<clock, startedAt, post, rows, told, viewer>>

\* A range is replaced by a text: typed, or pasted if it is long.
Change ==
    \E from, to \in 0..Len(doc), text \in {<<>>, <<Char>>, <<NL>>, <<Char, NL>>} :
        /\ from <= to /\ to <= from + 1 /\ <<from, text>> # <<to, <<>>>>
        /\ Len(doc) - (to - from) + Len(text) <= MaxLength
        /\ doc' = SubSeq(doc, 1, from) \o text \o SubSeq(doc, to + 1, Len(doc))
        /\ Record(<<Edit(IF Len(text) > 1 THEN "paste" ELSE "keystroke", Offset,
                         Position(doc, from), Position(doc, to), text)>>)

\* Two cursors: one event with two changes, the later place first.
ChangeTwice ==
    LET end == Position(doc, Len(doc))
        begin == Position(doc, 0)
    IN
    /\ doc # <<>> /\ Len(doc) + 2 <= MaxLength
    /\ doc' = <<Char>> \o doc \o <<Char>>
    /\ Record(<<Edit("paste", Offset, end, end, <<Char>>),
                Edit("paste", Offset, begin, begin, <<Char>>)>>)

\* onDidChangeCursorSelection
Select ==
    /\ Record(<<[type |-> "select", ts |-> Offset]>>)
    /\ UNCHANGED doc

\* reset: the buffer and the start are gone, and no snapshot is taken.
Reset ==
    /\ startedAt # 0 \/ buffer # <<>>
    /\ events < MaxEvents
    /\ buffer' = <<>> /\ startedAt' = 0 /\ excused' = TRUE
    /\ events' = events + 1
    /\ UNCHANGED <<doc, clock, post, rows, told, viewer>>

\* The recorder is disabled and enabled again: only a session that was reset starts anew.
Enable ==
    /\ startedAt = 0
    /\ startedAt' = clock
    /\ buffer' = Append(buffer, Snapshot(doc)) /\ excused' = (buffer # <<>>)
    /\ UNCHANGED <<doc, clock, events, post, rows, told, viewer>>

\* slice(-MAX_EVENTS_PER_FLUSH)
LastEvents(evs) == SubSeq(evs, Max({1, Len(evs) - MaxBuffer + 1}), Len(evs))

\* flush: what is buffered goes out once; the next flush begins in the middle.
Flush(s) ==
    /\ buffer # <<>>
    /\ post[s] = NoPost
    /\ post' = [post EXCEPT ![s] = LastEvents(DebounceEvents(buffer))]
    /\ told' = [told EXCEPT ![s] = IF excused \/ Crowded(buffer) \/ rows[s] # <<>>
                                   THEN {} ELSE {doc}]
    /\ buffer' = <<>> /\ excused' = TRUE
    /\ UNCHANGED <<doc, clock, startedAt, events, rows, viewer>>

-----------------------------------------------------------------------------
(* The routes *)

Fits(evs) == \A i \in DOMAIN evs : evs[i].ts < Epoch

\* POST: createMany stores all of them, unless an offset exceeds the column.
Store(s) ==
    /\ post[s] # NoPost
    /\ Fits(post[s])
    /\ rows' = [rows EXCEPT ![s] = @ \o post[s]]
    /\ post' = [post EXCEPT ![s] = NoPost]
    /\ UNCHANGED <<recorder, told, viewer>>

\* The request is lost or refused: 401, 403, 404 with the flag off, 400, 500.  Nobody is told.
Drop(s) ==
    /\ post[s] # NoPost
    /\ post' = [post EXCEPT ![s] = NoPost]
    /\ told' = [told EXCEPT ![s] = {}]
    /\ UNCHANGED <<recorder, rows, viewer>>

\* Every order of the rows by ts.
InOrder(evs) ==
    LET n == Len(evs)
        orders == {p \in [1..n -> 1..n] :
                     /\ \A i, j \in 1..n : i # j => p[i] # p[j]
                     /\ \A i \in 1..n - 1 : evs[p[i]].ts <= evs[p[i + 1]].ts}
    IN  {[i \in 1..n |-> evs[p[i]]] : p \in orders}

\* GET: the rows by their offset, without a second key; one frame for each.
Load(s) ==
    /\ shown = "none"
    /\ shown' = s /\ frames' = Len(rows[s])
    /\ UNCHANGED <<recorder, post, rows, told, frameIndex, playing>>

-----------------------------------------------------------------------------
(* The viewer *)

AtEnd == frameIndex >= frames

\* Play or pause.  At the end the effect takes it back at once.
Toggle ==
    /\ shown # "none" /\ frames # 0
    /\ playing' = (~playing /\ ~AtEnd)
    /\ UNCHANGED <<recorder, post, rows, told, frames, shown, frameIndex>>

\* The timer is set only short of the last frame.
Advance ==
    /\ playing
    /\ frameIndex' = frameIndex + 1
    /\ playing' = (frameIndex + 1 < frames)
    /\ UNCHANGED <<recorder, post, rows, told, frames, shown>>

\* The slider, and Rewind to the first frame.
Scrub ==
    /\ shown # "none" /\ frames # 0
    /\ frameIndex' \in 1..frames
    /\ playing' = FALSE
    /\ UNCHANGED <<recorder, post, rows, told, frames, shown>>

\* The viewer is left.
Close ==
    /\ shown # "none"
    /\ shown' = "none" /\ frames' = 0 /\ frameIndex' = 1 /\ playing' = FALSE
    /\ UNCHANGED <<recorder, post, rows, told>>

Next ==
    \/ Tick \/ Change \/ ChangeTwice \/ Select \/ Reset \/ Enable
    \/ \E s \in Submissions : Flush(s) \/ Store(s) \/ Drop(s) \/ Load(s)
    \/ Toggle \/ Advance \/ Scrub \/ Close

Spec == Init /\ [][Next]_vars

-----------------------------------------------------------------------------
(* Properties *)

TypeOK ==
    /\ doc \in BoundedSeq({Char, NL}, MaxLength)
    /\ clock \in Mounted..MaxClock /\ startedAt \in {0} \cup Mounted..MaxClock
    /\ Len(buffer) <= MaxBuffer + 1    \* the snapshot of Enable is not counted
    /\ shown \in Submissions \cup {"none"}
    /\ playing \in BOOLEAN

\* Every order in which the rows may be read back ends with the code that was flushed: edits
\* through lines and columns, the debounce and the read by offset lose nothing of a first
\* session whose events are apart in time and fit the buffer.
EndsWithTheCode ==
    \A s \in Submissions :
        rows[s] # <<>> =>
            \A code \in told[s], evs \in InOrder(rows[s]) : Last(Playback(evs)) = code

\* The viewer shows a frame that exists, and plays only while another follows.
FrameExists ==
    /\ frames # 0 => frameIndex \in 1..frames
    /\ playing => frameIndex < frames

\* A recording is replayed as it was typed, or is known not to be.
PlaybackIsFaithful == TypeOK /\ EndsWithTheCode /\ FrameExists
=============================================================================
