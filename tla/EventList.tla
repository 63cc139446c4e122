------------------------------ MODULE EventList -----------------------------
(* From a file to the list of events the player walks: readmidi.c and mfi.c.  *)
(* A reader goes through the tracks and adds every event to a list sorted by  *)
(* time, which is entered at the event added last; note steps mark the beats; *)
(* groom_list then unwinds the loop of the tune and turns ticks into samples. *)
EXTENDS Integers, Sequences, FiniteSets

CONSTANTS
    Kinds,          \* the events the tracks hold
    Keys,           \* the keys of an MFi file's notes
    Deltas,         \* the times between two events of a track, in ticks
    Tracks,         \* the number of tracks
    Format,         \* 0, 1, 2 of a MIDI file; 3 is MFi
    Preserve,       \* opt_preserve_silence
    MaxEvents,      \* MAX_MIDI_EVENT
    MaxItems,       \* bound of the model: what the tracks hold
    Filters,        \* the loops opt_use_midi_loop_repeat enables
    Repeat,         \* opt_midi_loop_repeat
    Rates,          \* the tempo events, and the samples of a tick they set
    Sigs,           \* the time signatures: beats of a bar, ticks of a beat
    One             \* a sample in parts: 65536

ASSUME EventAssumption ==
    /\ Deltas \subseteq Nat /\ Tracks \in Nat \ {0} /\ MaxItems \in Nat
    /\ MaxEvents \in Nat \ {0} /\ Repeat \in Nat /\ One \in Nat \ {0}
    /\ "common" \in DOMAIN Sigs /\ \A s \in DOMAIN Sigs : Sigs[s].ticks \in Nat

VARIABLES
    phase,      \* "read", "sigs", "steps", "groom", "done"; "failed"
    evlist,     \* evlist: the events in order
    point,      \* current_midi_point
    full,       \* readmidi_error_flag
    pending,    \* the events a handler has still to add
    track,      \* current_read_track, smf_at_time, note_seen, hascc111
    held,       \* lastNotes of the channel (mfi.c)
    bars,       \* the locals of insert_note_steps
    g           \* the locals of groom_list

readVars == <<phase, evlist, point, full, pending, track, held, bars, g>>

Event(kind, time, mark) == [kind |-> kind, time |-> time, mark |-> mark]

\* event_count
Count == Len(evlist)

NoNote == [on |-> -1, off |-> 0, key |-> 0]

\* What read_smf_track knows when it begins at a time.
TrackAt(n, time, reads) ==
    [no |-> n, at |-> time, seen |-> ~Preserve, cc |-> FALSE, over |-> FALSE,
     reads |-> reads]

\* insert_note_steps before its first event.
NoBars == [sigs |-> <<>>, i |-> 1, last |-> 0,
           at |-> 0, n |-> 0, meas |-> 0, beat |-> 0]

ReadInit ==
    /\ phase = "read"
    /\ evlist = <<[kind |-> "none", time |-> 0, mark |-> <<>>, id |-> 0]>>
    /\ point = 1 /\ full = FALSE /\ pending = <<>>
    /\ track = TrackAt(1, 0, 0) /\ held = NoNote /\ bars = NoBars /\ g = <<>>

-----------------------------------------------------------------------------
(* The sorted list.                                                           *)

\* Mutant: an event goes before those of its time.
StopsEarly(k, at) ==
    \/ /\ at >= evlist[point].time /\ k >= point
       /\ \A j \in point + 1 .. k : evlist[j].time < at
       /\ k < Count => evlist[k + 1].time >= at
    \/ /\ at < evlist[point].time /\ k < point
       /\ \A j \in k + 1 .. point - 1 : evlist[j].time > at
       /\ k > 0 => evlist[k].time <= at

\* Where the walk from current_midi_point stops: the new event goes after k.
StopsAt(k, at) ==
    \/ /\ at >= evlist[point].time /\ k >= point
       /\ \A j \in point + 1 .. k : evlist[j].time <= at
       /\ k < Count => evlist[k + 1].time > at
    \/ /\ at < evlist[point].time /\ k < point
       /\ \A j \in k + 1 .. point - 1 : evlist[j].time > at
       /\ k > 0 => evlist[k].time <= at

\* A list with an event put in after k.
PutAfter(k, e) ==
    [i \in 1 .. Count + 1 |->
        IF i <= k THEN evlist[i] ELSE IF i = k + 1 THEN e ELSE evlist[i - 1]]

\* readmidi_add_event, for the next event of a handler.
AddEvent ==
    /\ pending # <<>> /\ Count # MaxEvents
    /\ LET e == Head(pending)
       IN  \E k \in 0 .. Count :
               /\ StopsAt(k, e.time)
               /\ evlist' = PutAfter(k, [kind |-> e.kind, time |-> e.time,
                                       mark |-> e.mark, id |-> Count])
               /\ point' = k + 1
    /\ pending' = Tail(pending)
    /\ UNCHANGED <<phase, full, track, held, bars, g>>

\* The list has MAX_MIDI_EVENT events: the event is dropped.
DropEvent ==
    /\ pending # <<>> /\ Count = MaxEvents
    /\ full' = TRUE /\ pending' = Tail(pending)
    /\ UNCHANGED <<phase, evlist, point, track, held, bars, g>>

-----------------------------------------------------------------------------
(* The readers of a track: read_smf_track and read_mfi_track.                 *)

Reading == phase = "read" /\ pending = <<>> /\ ~track.over

\* What an event of a MIDI file adds at a time: the first note of a track whose
\* silence is to be kept comes with a silent one at the start.
Added(kind, at) ==
    IF kind = "note" /\ ~track.seen /\ at > 0
    THEN <<Event("note", 0, <<>>), Event("off", 0, <<>>), Event("note", at, <<>>)>>
    ELSE <<Event(kind, at, <<>>)>>

ReadEvent(d, kind) ==
    /\ Reading /\ Format # 3 /\ ~full /\ track.reads < MaxItems
    /\ kind \in {"A", "B"} => Format = 0 \/ (Format = 1 /\ track.no = 1)
    /\ pending' = Added(kind, track.at + d)
    /\ track' = [track EXCEPT !.at = @ + d, !.reads = @ + 1,
                              !.seen = @ \/ kind = "note",
                              !.cc = @ \/ kind = "cc111"]
    /\ UNCHANGED <<phase, evlist, point, full, held, bars, g>>

\* The End of Track meta event: in a track with a loop by CC#111 it stays in the
\* list, so that the silence at the end is part of the loop.
EndTrack ==
    /\ Reading /\ Format # 3 /\ ~full
    /\ pending' = IF track.cc THEN <<Event("none", track.at, <<>>)>> ELSE <<>>
    /\ track' = [track EXCEPT !.over = TRUE]
    /\ UNCHANGED <<phase, evlist, point, full, held, bars, g>>

\* readmidi_set_track for the next track: back to the head of the list, or to its
\* end when the tracks of the file follow each other.
SetTrack ==
    /\ phase = "read" /\ pending = <<>> /\ track.over
    /\ IF track.no = Tracks
       THEN phase' = "sigs" /\ UNCHANGED <<track, point>>
       ELSE /\ point' = IF Format = 2 THEN Count ELSE 1
            /\ track' = TrackAt(track.no + 1, evlist[point'].time, track.reads)
            /\ UNCHANGED phase
    /\ UNCHANGED <<evlist, full, pending, held, bars, g>>

\* The file ends too early, or the list is full: read_smf_file goes on with what it
\* has (ignore_midi_error).
BreakOff ==
    /\ Reading /\ Format # 3 /\ phase' = "sigs"
    /\ UNCHANGED <<evlist, point, full, pending, track, held, bars, g>>

\* SendLastNoteInfo
Sent == IF held.on = -1 THEN <<>>
        ELSE <<Event("on", held.on, held.key), Event("off", held.off, held.key)>>

\* A note of an MFi file: it is held back, because the next one may tie it.
MfiNote(d, key, length) ==
    /\ Reading /\ Format = 3 /\ track.reads < MaxItems
    /\ LET pos == track.at + d
       IN  /\ IF held.on # -1 /\ held.off > pos /\ key = held.key
              THEN held' = [held EXCEPT !.off = pos + length] /\ UNCHANGED pending
              ELSE /\ held' = [on |-> pos, off |-> pos + length, key |-> key]
                   /\ pending' = Sent
           /\ track' = [track EXCEPT !.at = pos, !.reads = @ + 1]
    /\ UNCHANGED <<phase, evlist, point, full, bars, g>>

\* A control is added at once; a program change sends the note that is held back.
MfiControl(d, kind) ==
    /\ Reading /\ Format = 3 /\ track.reads < MaxItems /\ kind \in Kinds
    /\ pending' = (IF kind = "program" THEN Sent ELSE <<>>)
                    \o <<Event(kind, track.at + d, <<>>)>>
    /\ held' = IF kind = "program" THEN NoNote ELSE held
    /\ track' = [track EXCEPT !.at = @ + d, !.reads = @ + 1]
    /\ UNCHANGED <<phase, evlist, point, full, bars, g>>

\* The track ends: the last note is sent.
MfiEnd ==
    /\ Reading /\ Format = 3
    /\ pending' = Sent /\ held' = NoNote
    /\ track' = [track EXCEPT !.over = TRUE]
    /\ UNCHANGED <<phase, evlist, point, full, bars, g>>

\* An MFi file whose tracks have an odd length is not played.
MfiFail ==
    /\ Reading /\ Format = 3 /\ phase' = "failed"
    /\ UNCHANGED <<evlist, point, full, pending, track, held, bars, g>>

-----------------------------------------------------------------------------
(* insert_note_steps: an event on every beat of the tune.                     *)

\* The signature before the first one: 4/4.
Common == Sigs["common"]

Signature(kind) == kind \in DOMAIN Sigs

\* The table with the signature of an event: one that changes nothing is left out,
\* one at the time of the last replaces it.
WithSig(e) ==
    LET table == IF bars.sigs = <<>> /\ e.time > 0
                 THEN <<[time |-> 0, sig |-> Common]>> ELSE bars.sigs
        last == Len(table)
        entry == [time |-> e.time, sig |-> Sigs[e.kind]]
    IN  IF table = <<>> THEN <<entry>>
        ELSE IF table[last].sig = entry.sig THEN table
        ELSE IF table[last].time = entry.time THEN [table EXCEPT ![last] = entry]
        ELSE Append(table, entry)

\* One event of the list on the way to the table timesig; the last is not read.
ReadSig ==
    /\ phase = "sigs" /\ bars.i < Count
    /\ LET e == evlist[bars.i]
       IN  bars' = [bars EXCEPT !.i = @ + 1,
                                !.sigs = IF Signature(e.kind) THEN WithSig(e) ELSE @]
    /\ UNCHANGED <<phase, evlist, point, full, pending, track, held, g>>

SigsRead ==
    /\ phase = "sigs" /\ bars.i = Count
    /\ phase' = "steps" /\ point' = 1
    /\ LET default == <<[time |-> 0, sig |-> Common]>>
       IN  bars' = [bars EXCEPT !.last = evlist[Count].time,
                                !.sigs = IF @ = <<>> THEN default ELSE @]
    /\ UNCHANGED <<evlist, full, pending, track, held, g>>

\* Mutant: a signature that begins within a bar does not end it.
BegunWithin ==
    LET n == bars.n + 1
    IN  IF n <= Len(bars.sigs) /\ bars.at >= bars.sigs[n].time
        THEN [bars EXCEPT !.n = n] ELSE bars

\* A signature begins: at the first beat that is not before it, with a bar.
Begun ==
    LET n == bars.n + 1
    IN  IF n <= Len(bars.sigs) /\ bars.at >= bars.sigs[n].time
        THEN [bars EXCEPT !.n = n, !.beat = 0,
                          !.meas = @ + (IF bars.beat # 0 THEN 1 ELSE 0)]
        ELSE bars

\* After a beat: the next one, maybe of the next bar.
Beaten(b) ==
    LET sig == b.sigs[b.n].sig
        over == b.beat + 1 = sig.beats
    IN  [b EXCEPT !.at = @ + sig.ticks,
                  !.beat = IF over THEN 0 ELSE @ + 1,
                  !.meas = IF over THEN @ + 1 ELSE @]

StepsGoOn == bars.at < bars.last /\ ~full

NoteStep ==
    /\ phase = "steps" /\ pending = <<>> /\ StepsGoOn
    /\ pending' = <<Event("step", bars.at, <<Begun.meas + 1, Begun.beat + 1>>)>>
    /\ bars' = Beaten(Begun)
    /\ UNCHANGED <<phase, evlist, point, full, track, held, g>>

-----------------------------------------------------------------------------
(* groom_list: one turn of its loop, which walks the list and goes back in it *)
(* at the end of a loop.                                                      *)

\* The beginnings and ends of loops: CC#111 to the End of Track, CC#2 to CC#4, and
\* the markers A and B (as Loop_Start and Loop_End, loopStart and loopEnd).
Starts == [cc111 |-> "track", breath |-> "ctl", A |-> "mark"]
Ends == [foot |-> "ctl", B |-> "mark"]

IsStart(kind) == kind \in DOMAIN Starts
IsEnd(kind) == kind \in DOMAIN Ends

StartGroom ==
    /\ phase = "steps" /\ pending = <<>> /\ ~StepsGoOn
    /\ phase' = "groom"
    /\ g' = [i |-> 0, meep |-> 1, out |-> <<>>, room |-> Count + 1,
             st |-> 0, cum |-> 0, at |-> 0, counting |-> 2,
             rate |-> Rates["common"], type |-> "none", start |-> 0, addAt |-> 0,
             beginTime |-> 0, endTime |-> 0, beginCount |-> 0, endCount |-> 0,
             left |-> IF Filters = {} THEN 0 ELSE Repeat, flag |-> "none"]
    /\ UNCHANGED <<evlist, point, full, pending, track, held, bars>>

\* Mutant: no room for the events that mark the expansion.
RoomOfLoop(first, last, left) == Count + (last - first) * left + 1

\* The room of the groomed list when the extent of the loop is known.
Room(first, last, left) == Count + (last - first + 2) * left + 1

\* A start moves the loop: by controller always, by marker until an end was met.
Moves(type) ==
    /\ g.start # g.meep
    /\ type = "mark" => g.endCount = 0

AtStart(e) ==
    LET type == Starts[e.kind]
    IN  IF type \notin Filters \/ g.type \notin {"none", type} THEN g
        ELSE IF ~Moves(type) THEN [g EXCEPT !.flag = "start"]
        ELSE [g EXCEPT
                !.flag = "start", !.type = type, !.start = g.meep,
                !.beginTime = e.time, !.beginCount = g.i,
                !.endCount = IF type = "track" THEN Count + 1 ELSE @,
                !.room = IF type = "track" THEN Room(g.i, Count + 1, g.left) ELSE @]

AtEnd(e) ==
    IF g.type # Ends[e.kind] \/ g.start = 0 THEN g
    ELSE [g EXCEPT
            !.flag = "end",
            !.endCount = IF @ = 0 THEN g.i ELSE @,
            !.room = IF g.endCount = 0 THEN Room(g.beginCount, g.i, g.left) ELSE @]

\* The first note ends the silence that is stripped.
AtNote == [g EXCEPT !.counting = IF @ # 0 THEN 1 ELSE 0]

Met(e) ==
    IF IsStart(e.kind) THEN AtStart(e)
    ELSE IF IsEnd(e.kind) THEN AtEnd(e)
    ELSE IF e.kind \in {"note", "on"} THEN AtNote
    ELSE g

\* Events that are not taken over: ME_NONE, events of quiet channels, the marks of
\* loops, and note steps in the silence that is stripped.
Skipped(e, h) ==
    \/ e.kind \in {"none", "quiet"} \/ IsStart(e.kind) \/ IsEnd(e.kind)
    \/ e.kind = "step" /\ h.counting = 2

\* Ticks into samples: whole ones at once, parts when they make a whole; sample_cum
\* is a word of two halves.
Counted(e, h) ==
    LET dt == e.time - h.at + h.addAt
        cum == (h.cum + (h.rate % One) * dt) % (One * One)
    IN  IF dt # 0 /\ h.counting = 0
        THEN [h EXCEPT !.st = @ + (h.rate \div One) * dt + cum \div One,
                       !.cum = cum % One]
        ELSE [h EXCEPT !.counting = IF @ = 1 THEN 0 ELSE @]

Kept(kind, id, h) ==
    [h EXCEPT !.out = Append(@, [kind |-> kind, id |-> id, time |-> h.st])]

\* The event goes into the groomed list, and meep to the next one; the end of the
\* list ends the loop of CC#111.
Passed(e, h) ==
    LET k == IF Skipped(e, h) THEN h ELSE Kept(e.kind, e.id, h)
    IN  [k EXCEPT !.at = e.time + h.addAt, !.meep = @ + 1,
                  !.rate = IF e.kind \in DOMAIN Rates THEN Rates[e.kind] ELSE @,
                  !.flag = IF h.meep = Count /\ h.type = "track" THEN "end" ELSE @]

\* At the end of a loop that has repeats left: back to its start.
Jumped(h) ==
    IF h.left <= 0 THEN h
    ELSE LET endTime == IF h.endTime = 0 THEN h.at ELSE h.endTime
         IN  [h EXCEPT !.endTime = endTime, !.meep = h.start,
                       !.addAt = @ + endTime - h.beginTime]

\* What a start or an end left to do (loop_startflag).
Turned(h) ==
    CASE h.flag = "start" -> [Kept("expand", 0, h) EXCEPT !.flag = "none"]
      [] h.flag = "end" ->
            [Jumped(Kept("expanded", 0, h)) EXCEPT !.flag = "none", !.left = @ - 1]
      [] OTHER -> h

GroomEvent ==
    /\ phase = "groom" /\ (g.i < Count \/ g.meep <= Count)
    /\ LET e == evlist[g.meep]
       IN  \E h \in {Counted(e, Met(e))} : \E k \in {Passed(e, h)} :
               g' = [Turned(k) EXCEPT !.i = @ + 1]
    /\ UNCHANGED <<phase, evlist, point, full, pending, track, held, bars>>

\* The End of Track.
GroomDone ==
    /\ phase = "groom" /\ ~(g.i < Count \/ g.meep <= Count)
    /\ phase' = "done" /\ g' = Kept("eot", 0, g)
    /\ UNCHANGED <<evlist, point, full, pending, track, held, bars>>

ReadNext ==
    \/ AddEvent \/ DropEvent
    \/ \E d \in Deltas, kind \in Kinds : ReadEvent(d, kind)
    \/ EndTrack \/ SetTrack \/ BreakOff
    \/ \E d \in Deltas, key \in Keys, length \in Deltas : MfiNote(d, key, length)
    \/ \E d \in Deltas, kind \in Kinds : MfiControl(d, kind)
    \/ MfiEnd \/ MfiFail
    \/ ReadSig \/ SigsRead \/ NoteStep \/ StartGroom \/ GroomEvent \/ GroomDone

ReadSpec == ReadInit /\ [][ReadNext]_readVars

-----------------------------------------------------------------------------
(* Properties.                                                                *)

\* The list is in the order of time, events of one time in the order they were
\* added (readmidi_add_event): what a reader adds late takes its place behind what
\* was there, and the head stays the first.
ListInOrder ==
    /\ point \in 1 .. Count /\ evlist[1].id = 0
    /\ \A i \in 1 .. Count - 1 :
          \/ evlist[i].time < evlist[i + 1].time
          \/ /\ evlist[i].time = evlist[i + 1].time
             /\ evlist[i].id < evlist[i + 1].id

\* How many events of a kind and key are among the first n of the list.
Upto(n, kind, key) ==
    Cardinality({i \in 1 .. n : evlist[i].kind = kind /\ evlist[i].mark = key})

\* A note of an MFi file is switched off once and never before it was switched on,
\* though both are added late and ties move the end (read_mfi_track).  Known
\* exception: a full list.
NotesPaired ==
    phase \notin {"read", "failed"} /\ Format = 3 /\ Count < MaxEvents =>
        \A key \in Keys :
            /\ Upto(Count, "off", key) = Upto(Count, "on", key)
            /\ \A n \in 1 .. Count : Upto(n, "off", key) <= Upto(n, "on", key)

\* The note steps number the beats of the tune without a gap, each a beat of a
\* signature after the one before, no bar longer than its signature; where the length
\* of the beat changes a bar begins, and they go to the end (insert_note_steps).
\* Known exception: a full list.
BeatsFollow ==
    phase = "done" /\ ~full =>
        LET steps == SelectSeq(evlist, LAMBDA e : e.kind = "step")
            N == Len(steps)
            sigs == {bars.sigs[k].sig : k \in DOMAIN bars.sigs}
        IN  /\ evlist[Count].time > 0 => N > 0 /\ steps[1].time = 0
            /\ N > 0 => /\ steps[1].mark = <<1, 1>>
                        /\ bars.at >= bars.last
            /\ \A k \in 2 .. N - 1 :
                  steps[k + 1].time - steps[k].time # steps[k].time - steps[k - 1].time
                      => steps[k].mark[2] = 1
            /\ \A k \in 1 .. N - 1 :
                  LET this == steps[k].mark
                      next == steps[k + 1].mark
                  IN  /\ \E sig \in sigs :
                            /\ steps[k + 1].time - steps[k].time = sig.ticks
                            /\ this[2] <= sig.beats
                      /\ \/ next = <<this[1], this[2] + 1>>
                         \/ next = <<this[1] + 1, 1>>

\* The groomed list has room for every event written to it (groom_list).
Fits == phase \in {"groom", "done"} => Len(g.out) <= g.room

\* The loop of the tune by what a reader of the file sees: the type of the first
\* start that is enabled; its first end behind a start, or the end of the list; the
\* last start before that end.
Of(kinds, type) == {i \in 1 .. Count : evlist[i].kind \in DOMAIN kinds
                                         /\ kinds[evlist[i].kind] = type}

First(S) == CHOOSE i \in S : \A j \in S : i <= j
Last(S) == CHOOSE i \in S : \A j \in S : i >= j

LoopType ==
    LET enabled == UNION {Of(Starts, type) : type \in Filters}
    IN  IF enabled = {} THEN "none" ELSE Starts[evlist[First(enabled)].kind]

\* The places of a loop of a type, or nothing.
LoopOf(type) ==
    LET starts == Of(Starts, type)
        ends == IF type = "track" THEN {Count}
                ELSE {i \in Of(Ends, type) : i > First(starts)}
    IN  IF type = "none" \/ ends = {} THEN <<>>
        ELSE <<Last({i \in starts : i <= First(ends)}), First(ends)>>

\* The list with a loop repeated, by place.
Unwound(loop) ==
    IF loop = <<>> THEN [k \in 1 .. Count |-> k]
    ELSE LET length == loop[2] - loop[1] + 1
         IN  [k \in 1 .. Count + Repeat * length |->
                IF k <= loop[2] THEN k
                ELSE IF k <= loop[2] + Repeat * length
                THEN loop[1] + ((k - loop[2] - 1) % length)
                ELSE k - Repeat * length]

\* The places of U that a note has sounded at or before.
Sounding(U) ==
    {k \in DOMAIN U : \E j \in 1 .. k : evlist[U[j]].kind \in {"note", "on"}}

\* The parts of samples until each place of U: every tick since the first note as
\* long as the tempo says that was met last.  A place behind a jump takes no time.
Elapsed(U, sounding) ==
    LET ticks(k) == IF k > 1 /\ k - 1 \in sounding /\ U[k] > U[k - 1]
                    THEN evlist[U[k]].time - evlist[U[k - 1]].time ELSE 0
        state[k \in 0 .. Len(U)] ==
            IF k = 0 THEN [sum |-> 0, rate |-> Rates["common"]]
            ELSE LET before == state[k - 1]
                     kind == evlist[U[k]].kind
                 IN  [sum |-> before.sum + ticks(k) * before.rate,
                      rate |-> IF kind \in DOMAIN Rates THEN Rates[kind]
                               ELSE before.rate]
    IN  state

\* What is taken over of the places of U, and at which sample.
Taken(U, sounding, elapsed) ==
    LET quiet(k) ==
            \/ evlist[U[k]].kind \in {"none", "quiet"}
            \/ IsStart(evlist[U[k]].kind) \/ IsEnd(evlist[U[k]].kind)
            \/ evlist[U[k]].kind = "step" /\ k \notin sounding
        all == [k \in DOMAIN U |->
                    [id |-> evlist[U[k]].id, time |-> elapsed[k].sum \div One,
                     quiet |-> quiet(k)]]
    IN  SelectSeq(all, LAMBDA x : ~x.quiet)

\* What is played.
Played == SelectSeq(g.out, LAMBDA e : e.kind \notin {"expand", "expanded", "eot"})

\* The groomed list is what the tune with its loop comes to: the events, or also
\* their times.
Comes(Agrees(_, _)) ==
    \A U \in {Unwound(LoopOf(LoopType))} : \A sounding \in {Sounding(U)} :
        \A elapsed \in {Elapsed(U, sounding)} :
            \A due \in {Taken(U, sounding, elapsed)} : Agrees(Played, due)

\* groom_list plays the loop as often as was asked, and all the rest once, in order.
Unwinds ==
    phase = "done" =>
        Comes(LAMBDA played, due :
            /\ Len(played) = Len(due)
            /\ \A k \in DOMAIN played : played[k].id = due[k].id)

\* Every event is at the sample where its ticks end: nothing is lost by rounding,
\* and no pass of a loop begins early or late.  It takes the note steps: beyond One
\* ticks between two events sample_cum runs over.
OnSample ==
    phase = "done" =>
        Comes(LAMBDA played, due :
            \A k \in DOMAIN played \cap DOMAIN due : played[k].time = due[k].time)

\* The file has been read and groomed, or was refused.
ReadOver == phase \in {"done", "failed"}
=============================================================================
