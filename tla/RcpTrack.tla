------------------------------ MODULE RcpTrack ------------------------------
(* The reader of a Recomposer track: rcp.c.  A track is a list of commands     *)
(* with loops, and with measures that stand for other ones; notes have a       *)
(* length and tempi may slide.  The events go into the list of EventList.      *)
EXTENDS EventList

CONSTANTS
    Cmds,       \* the commands a track holds, besides those of Here
    Offsets,    \* the time offsets of a track
    Told,       \* whether the head of the track sets the tempo: it is not 120
    MaxCmds,    \* bound of the model: the commands of a track
    Depth,      \* MAX_STACK_DEPTH
    Limit,      \* RCP_LOOP_TIME_LIMIT, in ticks times tempo
    Longest,    \* the most ntr_wait_all_off waits at once: 256
    Skip,       \* TEMPO_GRADATION_SKIP
    Usual       \* the tempo of the file's header

VARIABLES
    cmds,       \* the commands of the track, those that were never read as Unread
    rcp         \* the locals of read_rcp_track and its RCPNoteTracer

RcpInit == ReadInit /\ cmds = <<>> /\ rcp = <<>>

\* A command nothing has looked at yet.
Unread == [cmd |-> "unread"]

\* The tracer of a track that begins at a time.  memset has cleared tempo, though
\* current_tempo is that of the header.
Tracer(at) ==
    [at |-> at, left |-> -1, notes |-> <<>>, tempo |-> 0, to |-> 0, grade |-> 0,
     wait |-> 0, current |-> Usual, pos |-> 1, stack |-> <<>>, sp |-> 0,
     same |-> -1, next |-> FALSE, over |-> FALSE,
     offset |-> at, first |-> 0, since |-> 0, slope |-> 0, deep |-> FALSE]

Reads == UNCHANGED <<phase, evlist, point, full, track, held, bars, g>>

\* An event of the track: readmidi_add_event takes a time before 0 for 0.
At(kind, time, mark) == Event(kind, IF time < 0 THEN 0 ELSE time, mark)

\* The head of the track, which tells its length; a track that is muted or has no
\* channel is not read.
TrackHead(length, offset, heard, told) ==
    /\ phase = "read" /\ rcp = <<>>
    /\ cmds' = IF heard THEN [i \in 1 .. length |-> Unread] ELSE <<>>
    /\ rcp' = [Tracer(offset) EXCEPT !.over = ~heard,
                                     !.tempo = IF told THEN Usual ELSE 0]
    /\ pending' =
          IF ~heard THEN <<>>
          ELSE (IF told THEN <<Event("tempo", 0, Usual)>> ELSE <<>>)
                 \o <<Event("common", 0, <<>>), Event("key", 0, <<>>)>>
    /\ Reads

-----------------------------------------------------------------------------
(* The note tracer: ntr_incr and its kin.                                     *)

\* How far the tempo is after n more steps of its slide.
Slid(r, n) ==
    LET size == IF r.to < r.tempo THEN r.tempo - r.to ELSE r.to - r.tempo
        way == IF n * r.grade > size THEN size ELSE n * r.grade
    IN  IF r.to < r.tempo THEN r.tempo - way ELSE r.tempo + way

\* The steps of the slide that begin within a step of the track.
Slides(r, step) ==
    LET wait == r.wait - step
        room == IF wait > 0 THEN 0 ELSE (-wait) \div Skip + 1
    IN  IF step <= 0 \/ r.grade = 0 THEN {}
        ELSE {n \in 1 .. room : Slid(r, n - 1) # r.to}

\* rcp_tempo_gradate: the tempo events, and the tracer behind them.
Graded(r, step) ==
    [n \in 1 .. Cardinality(Slides(r, step)) |->
        At("tempo", r.at + (n - 1) * Skip, Slid(r, n))]

AfterGraded(r, step) ==
    LET n == Cardinality(Slides(r, step))
    IN  IF step <= 0 \/ r.grade = 0 THEN r
        ELSE [r EXCEPT !.wait = @ - step + n * Skip, !.tempo = Slid(r, n),
                       !.grade = IF r.wait <= step /\ Slid(r, n) = r.to THEN 0 ELSE @]

\* ntr_incr, as far as its loop.
Incr(r, events, step) ==
    /\ pending' = events \o Graded(r, step)
    /\ rcp' = [AfterGraded(r, step) EXCEPT !.left = step, !.pos = @ + 1]

Due(notes) == SelectSeq(notes, LAMBDA n : n.gate = 0)

\* What still sounds; the list is turned round by every pass.
Sounds(notes) ==
    LET on == SelectSeq(notes, LAMBDA n : n.gate # 0)
    IN  [i \in DOMAIN on |-> on[Len(on) + 1 - i]]

Shorter(notes, n) == [i \in DOMAIN notes |-> [notes[i] EXCEPT !.gate = @ - n]]

Offs(notes, time) == [i \in DOMAIN notes |-> At("off", time, notes[i].key)]

\* The time to the next note-off, but no more than a limit.
Nearest(notes, limit) ==
    CHOOSE n \in {limit} \cup {notes[i].gate : i \in DOMAIN notes} :
        \A m \in {limit} \cup {notes[i].gate : i \in DOMAIN notes} : n <= m

\* One pass of the loop of ntr_incr.
Pass ==
    /\ phase = "read" /\ pending = <<>> /\ rcp # <<>> /\ rcp.left >= 0
    /\ LET on == Sounds(rcp.notes)
           n == Nearest(on, rcp.left)
       IN  IF rcp.notes = <<>>
           THEN /\ rcp' = [rcp EXCEPT !.at = @ + rcp.left, !.left = -1]
                /\ UNCHANGED pending
           ELSE /\ pending' = Offs(Due(rcp.notes), rcp.at)
                /\ rcp' = [rcp EXCEPT !.notes = Shorter(on, n), !.at = @ + n,
                                      !.left = IF @ = 0 THEN -1 ELSE @ - n]
    /\ Reads /\ UNCHANGED cmds

\* One pass of ntr_wait_all_off.
WaitOff ==
    /\ phase = "read" /\ pending = <<>> /\ rcp # <<>> /\ rcp.over /\ rcp.notes # <<>>
    /\ LET on == Sounds(rcp.notes)
           n == Nearest(on, Longest)
       IN  /\ pending' = Offs(Due(rcp.notes), rcp.at) \o Graded(rcp, n)
           /\ rcp' = [AfterGraded(rcp, n) EXCEPT !.notes = Shorter(on, n), !.at = @ + n]
    /\ Reads /\ UNCHANGED cmds

-----------------------------------------------------------------------------
(* The commands: read_rcp_track.                                              *)

Ready ==
    /\ phase = "read" /\ pending = <<>> /\ rcp # <<>>
    /\ ~rcp.over /\ rcp.left = -1 /\ ~full

\* The command at the file's position: one that was read before, or any.
Fetched(c) ==
    /\ rcp.pos \in DOMAIN cmds /\ cmds[rcp.pos] \in {Unread, c}
    /\ cmds' = [cmds EXCEPT ![rcp.pos] = c]

\* The same measure as the one at any place of the track, before or behind it or its
\* own; 0 stands for a place outside the track.
Here == [cmd : {"same"}, to : 0 .. Len(cmds)]

Holds(key) == \E i \in DOMAIN rcp.notes : rcp.notes[i].key = key

\* A note: a key that sounds is tied (ntr_note_on).
Note(c) ==
    LET tied == [i \in DOMAIN rcp.notes |->
                    IF rcp.notes[i].key = c.key
                    THEN [rcp.notes[i] EXCEPT !.gate = c.gate] ELSE rcp.notes[i]]
        new == <<[key |-> c.key, gate |-> c.gate]>> \o rcp.notes
        notes == IF c.gate = 0 THEN rcp.notes ELSE IF Holds(c.key) THEN tied ELSE new
        on == IF c.gate = 0 \/ Holds(c.key) THEN <<>> ELSE <<At("on", rcp.at, c.key)>>
    IN  c.cmd = "note" /\ Incr([rcp EXCEPT !.notes = notes], on, c.step)

\* A control, program, pressure, bend or system exclusive message.
Control(c) ==
    /\ c.cmd = "control"
    /\ Incr(rcp, <<At("control", rcp.at, <<>>)>>, c.step)

\* A change of tempo, at once or by a slide (rcp_tempo_change).
Tempo(c) ==
    /\ c.cmd = "tempo"
    /\ IF c.grade = 0
       THEN Incr([rcp EXCEPT !.tempo = c.to, !.current = c.to, !.grade = 0,
                             !.slope = 0],
                 <<At("tempo", rcp.at, c.to)>>, c.step)
       ELSE Incr([rcp EXCEPT !.grade = c.grade, !.to = c.to, !.wait = 0,
                             !.current = rcp.tempo, !.slope = c.grade,
                             !.first = Count, !.since = rcp.at],
                 <<>>, c.step)

Goes(r) == rcp' = r /\ UNCHANGED pending

Forward == [rcp EXCEPT !.pos = @ + 1]

\* Loops beyond the depth of the stack are counted only.
LoopStart(c) ==
    /\ c.cmd = "start"
    /\ LET entry == [at |-> rcp.at, back |-> rcp.pos + 1, count |-> 1]
       IN  Goes([Forward EXCEPT !.sp = @ + 1,
                              !.stack = IF rcp.sp < Depth THEN Append(@, entry) ELSE @])

\* The stack with an entry and all above it gone.
To(r, sp) == [r EXCEPT !.sp = sp, !.stack = SubSeq(@, 1, sp)]

\* Mutant: the stack keeps the entry of the measure and what began within it.
BackOnly == [rcp EXCEPT !.pos = rcp.stack[rcp.same + 1].back, !.same = -1]

\* The measure that stood for another is over: back behind its command.
Back == [To(rcp, rcp.same) EXCEPT !.pos = rcp.stack[rcp.same + 1].back, !.same = -1]

\* The end of a loop, which goes back unless it has been played as often as it says
\* or for too long; within a measure that stands for another it may be the end of
\* that.  times is -1 for a loop for ever, which is played once.
LoopEnd(c) ==
    /\ c.cmd = "end"
    /\ LET top == rcp.sp - 1
           entry == rcp.stack[rcp.sp]
           long == rcp.current * (rcp.at - entry.at) > Limit
       IN  IF rcp.sp = 0 THEN Goes(Forward)
           ELSE IF rcp.sp > Depth THEN Goes([Forward EXCEPT !.sp = top])
           ELSE IF rcp.same = top THEN Goes(Back)
           ELSE IF c.times = -1 \/ entry.count >= c.times \/ long
           THEN Goes(To(Forward, top))
           ELSE Goes([rcp EXCEPT !.pos = entry.back, !.stack[rcp.sp].count = @ + 1])

\* A command for the same measure as another goes there, unless it ends one itself.
Same(c) ==
    /\ c.cmd = "same"
    /\ IF rcp.sp >= Depth THEN Goes([Forward EXCEPT !.deep = TRUE])
       ELSE IF rcp.same >= 0 THEN Goes(Back)
       ELSE IF c.to = 0 THEN Goes(Forward)
       ELSE LET entry == [at |-> rcp.at, back |-> rcp.pos + 1, count |-> 0]
            IN  Goes([rcp EXCEPT !.pos = c.to, !.same = rcp.sp, !.sp = @ + 1,
                                 !.stack = Append(@, entry), !.next = TRUE])

\* next_same_measure: that measure may itself stand for another, or for none.
Follow(c) ==
    Goes(IF c.cmd # "same" THEN [rcp EXCEPT !.next = FALSE]
         ELSE IF c.to = 0 THEN [Forward EXCEPT !.next = FALSE]
         ELSE [rcp EXCEPT !.pos = c.to])

MeasureEnd(c) ==
    c.cmd = "measure" /\ Goes(IF rcp.same >= 0 THEN Back ELSE Forward)

\* A change of key or a comment that is shown, a comment that is not, the start of a
\* loop for ever, or a command that is not known: no time passes.
Other(c) ==
    /\ c.cmd = "other" /\ rcp' = Forward
    /\ pending' = IF c.adds THEN <<At("key", rcp.at, <<>>)>> ELSE <<>>

\* The End of Track.
TrackEnd(c) == c.cmd = "last" /\ Goes([Forward EXCEPT !.over = TRUE])

Command ==
    /\ Ready
    /\ \E c \in Cmds \cup Here :
           /\ Fetched(c)
           /\ \/ rcp.next /\ Follow(c)
              \/ /\ ~rcp.next
                 /\ \/ Note(c) \/ Control(c) \/ Tempo(c) \/ LoopStart(c) \/ LoopEnd(c)
                    \/ Same(c) \/ MeasureEnd(c) \/ Other(c) \/ TrackEnd(c)
    /\ Reads

\* The track's bytes are over, or the list is full.
NoMore ==
    /\ phase = "read" /\ pending = <<>> /\ rcp # <<>> /\ ~rcp.over /\ rcp.left = -1
    /\ full \/ rcp.pos = Len(cmds) + 1
    /\ rcp' = [rcp EXCEPT !.over = TRUE]
    /\ Reads /\ UNCHANGED <<pending, cmds>>

\* The file is read; what follows is the same for every reader.
Close ==
    /\ phase = "read" /\ pending = <<>> /\ rcp # <<>> /\ rcp.over /\ rcp.notes = <<>>
    /\ phase' = "sigs"
    /\ UNCHANGED <<evlist, point, full, pending, track, held, bars, g, cmds, rcp>>

RcpNext ==
    \/ \E length \in 0 .. MaxCmds, offset \in Offsets, heard \in BOOLEAN, told \in Told :
          TrackHead(length, offset, heard, told)
    \/ ((AddEvent \/ DropEvent) /\ UNCHANGED <<cmds, rcp>>)
    \/ Pass \/ WaitOff \/ Command \/ NoMore \/ Close

-----------------------------------------------------------------------------
(* Properties.                                                                *)

\* Where the measures that stand for others lead from a place: all around the track
\* at most.
Leads(p) ==
    LET way[n \in 0 .. Len(cmds)] ==
            IF n = 0 THEN p
            ELSE LET c == cmds[way[n - 1]]
                 IN  IF c.cmd = "same" /\ c.to # 0 THEN c.to ELSE way[n - 1]
    IN  way[Len(cmds)]

\* They lead round: to none that does not stand for another.
Round(p) == cmds[Leads(p)].cmd = "same" /\ cmds[Leads(p)].to # 0

\* The measure a place stands for: the one behind it where it stands for none.
Measure(p) == IF cmds[Leads(p)].cmd = "same" THEN Leads(p) + 1 ELSE Leads(p)

\* How many commands of a kind are at the places a .. b.
Number(cmd, a, b) == Cardinality({p \in a .. b : cmds[p].cmd = cmd})

\* The places from a on where a loop ends that began before a.
Closing(a) == {p \in a .. Len(cmds) : Number("end", a, p) > Number("start", a, p)}

\* The places from a on where a measure ends that stands for another.
Bars(a) == Closing(a) \cup {p \in a .. Len(cmds) : cmds[p].cmd \in {"measure", "same"}}

Again(n, s) == [i \in 1 .. n * Len(s) |-> s[((i - 1) % Len(s)) + 1]]

\* The command of a place; behind the track it is over.
Written(p) == IF p \in DOMAIN cmds THEN cmds[p] ELSE [cmd |-> "last"]

\* How long a sequence of places lasts.
Lasts(s) ==
    LET step(p) == IF "step" \in DOMAIN Written(p) THEN Written(p).step ELSE 0
        sum[n \in 0 .. Len(s)] == IF n = 0 THEN 0 ELSE sum[n - 1] + step(s[n])
    IN  sum[Len(s)]

\* How often a loop is played: as often as it says, but no more when it has lasted
\* beyond the limit.
Often(times, ticks) ==
    First({n \in 1 .. (IF times < 1 THEN 1 ELSE times) :
              n >= times \/ Usual * n * ticks > Limit})

\* The places a .. b as a reader of the track sees them played, d loops deep: a loop
\* is the commands up to the end that closes it; the commands behind a start that
\* nothing closes are as deep as in it.  A measure that nothing ends is the last.
Unrolled ==
    LET plays[a \in 1 .. Len(cmds) + 1, b \in 0 .. Len(cmds), d \in Nat] ==
            LET ends == {p \in Closing(a + 1) : p <= b}
                loop(e) ==
                    LET body == plays[a + 1, e - 1, d + 1]
                        n == IF d >= Depth THEN 1 ELSE Often(cmds[e].times, Lasts(body))
                    IN  Again(n, body) \o plays[e + 1, b, d]
                measure(p) ==
                    IF Bars(p) # {} THEN plays[p, First(Bars(p)) - 1, d + 1]
                    ELSE plays[p, Len(cmds), d + 1] \o <<Len(cmds) + 1>>
            IN  IF a > b THEN <<>>
                ELSE IF cmds[a].cmd = "start"
                THEN IF ends = {} THEN plays[a + 1, b, d + 1] ELSE loop(First(ends))
                ELSE IF cmds[a].cmd = "same" /\ cmds[a].to # 0
                THEN measure(Measure(cmds[a].to)) \o plays[a + 1, b, d]
                ELSE IF cmds[a].cmd = "last" THEN <<a>>
                ELSE <<a>> \o plays[a + 1, b, d]
        all == plays[1, Len(cmds), 0]
        lasts == {i \in DOMAIN all : Written(all[i]).cmd = "last"}
    IN  IF lasts = {} THEN all ELSE SubSeq(all, 1, First(lasts))

\* When a key sounds: a note that begins while it does makes the sound end later or
\* earlier.
Spans(played, key) ==
    LET add(spans, time, gate) ==
            LET n == Len(spans)
            IN  IF n > 0 /\ spans[n].off > time
                THEN [spans EXCEPT ![n].off = time + gate]
                ELSE Append(spans, [on |-> time, off |-> time + gate])
        state[n \in 0 .. Len(played)] ==
            IF n = 0 THEN [time |-> 0, spans |-> <<>>]
            ELSE LET before == state[n - 1]
                     c == Written(played[n])
                 IN  [time |-> before.time + Lasts(<<played[n]>>),
                      spans |-> IF c.cmd = "note" /\ c.key = key /\ c.gate > 0
                                THEN add(before.spans, before.time, c.gate)
                                ELSE before.spans]
    IN  state[Len(played)].spans

Heard(key) ==
    SelectSeq(evlist, LAMBDA e : e.kind \in {"on", "off"} /\ e.mark = key)

\* The track is played as it is written: its loops as often as they say, the measures
\* that stand for others, and every note for its length or until another of its key
\* takes it over, with one note-off (read_rcp_track, ntr_incr, ntr_wait_all_off).  Known
\* exceptions: a full list, and a measure that stands for another with the stack full.
PlaysAsWritten ==
    phase = "sigs" /\ ~full /\ ~rcp.deep =>
        \A played \in {Unrolled}, key \in Keys :
            \A spans \in {Spans(played, key)}, heard \in {Heard(key)} :
                LET time(t) == IF rcp.offset + t < 0 THEN 0 ELSE rcp.offset + t
                IN  /\ Len(heard) = 2 * Len(spans)
                    /\ \A i \in DOMAIN spans :
                          /\ heard[2 * i - 1].kind = "on"
                          /\ heard[2 * i - 1].time = time(spans[i].on)
                          /\ heard[2 * i].kind = "off"
                          /\ heard[2 * i].time = time(spans[i].off)

Tempi(Which(_)) == SelectSeq(evlist, LAMBDA e : e.kind = "tempo" /\ Which(e.id))

\* The tempo events of a slide are in the list (rcp_tempo_gradate), as many as are due
\* by the time, however the track's steps divide it: one every Skip ticks from its
\* beginning, until it is at its end.  They begin at the tempo of the last event before
\* the slide, and none is late.  Known exceptions: what is left of a step of the slide
\* is forgotten where a step of the track begins, so that an event may be up to Skip
\* ticks early; where the track has set no tempo yet the slide begins at 0, not at the
\* file's tempo, because ntr_init clears what read_rcp_track has set; a full list.
SlideInTime ==
    rcp # <<>> /\ rcp.left = -1 /\ pending = <<>> /\ rcp.slope # 0 /\ ~full =>
        LET before == Tempi(LAMBDA id : id < rcp.first)
            slide == Tempi(LAMBDA id : id >= rcp.first)
            from == IF before = <<>> THEN 0 ELSE before[Len(before)].mark
            tempo(n) == Slid([rcp EXCEPT !.tempo = from, !.grade = rcp.slope], n)
            due == {n \in 1 .. rcp.at - rcp.since : (n - 1) * Skip <= rcp.at - rcp.since}
            time(t) == IF t < 0 THEN 0 ELSE t
            ideal(n) == rcp.since + (n - 1) * Skip
        IN  /\ Len(slide) = Cardinality({n \in due : tempo(n - 1) # rcp.to})
            /\ \A n \in DOMAIN slide :
                  /\ slide[n].mark = tempo(n)
                  /\ slide[n].time \in time(ideal(n) - Skip) .. time(ideal(n))

\* The track has been read.
RcpOver == rcp # <<>> /\ phase = "sigs"

\* A measure stands, through others or at once, for itself: the reader looks for one
\* that does not for ever.
Circling == rcp # <<>> /\ rcp.next /\ Round(rcp.pos)
=============================================================================
