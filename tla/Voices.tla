------------------------------- MODULE Voices -------------------------------
(***************************************************************************)
(* timidity/playmidi.c: the voices.  A note-on takes one voice per sample   *)
(* of its instrument (find_samples, find_voice), stealing one when all are  *)
(* in use (reduce_voice); note-offs find their voices by the number the     *)
(* note-on gave them (vidq); pedals, channel messages, the mixer and the    *)
(* polyphony control change or free voices in between.                      *)
(*                                                                         *)
(* Everything here runs in the player's thread.  A handler that allocates   *)
(* or drops voices in a loop runs one turn of the loop per step: call holds *)
(* its locals, and nothing else happens until it returns.                   *)
(***************************************************************************)
EXTENDS Integers, Sequences, FiniteSets

CONSTANTS
    MaxVoices,      \* max_voices
    InitialVoices,  \* the polyphony the player starts with
    Channels, DrumChannels, Notes,
    Kinds,          \* "plain", "oneshot" (MODES_NO_NOTEOFF), "release"
                    \* (MODES_TRIGGER_RELEASE): what a sample can be
    MaxLayers,      \* most samples one note selects
    Overlap,        \* opt_overlap_voice_allow
    OverlapCount,   \* opt_overlap_voice_count
    ChannelLimit,   \* opt_max_channel_voices
    AssignMode,     \* assign_mode of every channel
    AltGroups,      \* altassign of a drum set: the list of key groups
    DamperMode,     \* the channels with damper_mode set
    PedalValues,    \* the values of control change 64 and 66
    NoOffKeys,      \* drum keys whose RX_NOTE_OFF is off
    Portamento,     \* opt_portamento
    Glides,         \* the channels that get control changes 65 and 84
    HistRange,      \* 256, the range of the uint8 legato_hist
    AutoReduce,     \* reduce_voice_threshold # 0, with a queue that can trace
    VidRange,       \* 256, the range of the uint8 counters
    MaxHeld,        \* bound: note-ons of a key without a note-off
    MaxStep         \* bound: voices added or dropped by one key press

ASSUME VoicesAssumption ==
    /\ MaxVoices \in Nat \ {0} /\ InitialVoices \in 0..MaxVoices
    /\ MaxStep \in Nat /\ VidRange \in Nat \ {0} /\ MaxHeld \in 1..(VidRange - 1)
    /\ Overlap \in BOOLEAN /\ Portamento \in BOOLEAN
    /\ AutoReduce \in BOOLEAN
    /\ OverlapCount \in Nat /\ ChannelLimit \in Nat /\ MaxLayers \in Nat \ {0}
    /\ Kinds \subseteq {"plain", "oneshot", "release"}
    /\ DrumChannels \subseteq Channels /\ 0 \in PedalValues /\ PedalValues \subseteq 0..127
    /\ Notes \subseteq 0..127
    /\ Glides \subseteq Channels /\ HistRange \in Nat \ {0, 1}

ASSUME GroupsAssumption == AltGroups \in Seq(SUBSET Notes)

VARIABLES
    voice,          \* voice[]
    voices,         \* voices, the polyphony
    upper,          \* upper_voices
    oldVoices,      \* old_voices of restore_voices
    head, tail,     \* vidq_head, vidq_tail
    sustain, sostenuto, mono,   \* of channel[]
    legato,         \* the legato and portamento fields of channel[]
    call,           \* the loop that is running, or Idle
    down,           \* note-ons of each key that had no note-off yet
    dropped         \* channels whose pedals reset_controllers let go

chanVars == <<sustain, sostenuto, mono, legato>>
queueVars == <<head, tail>>
sizeVars == <<voices, upper, oldVoices>>
ghostVars == <<down, dropped>>
vars == <<voice, sizeVars, queueVars, chanVars, call, ghostVars>>

VoiceIds == 0..(MaxVoices - 1)
Below == 0..(upper - 1)
Idle == [op |-> "idle"]
NoNote == 255

\* A voice of the zeroed array.  own is no field of the code: it tells whether
\* start_note has filled the voice in since find_samples took it.
Blank == [status |-> "free", ch |-> 0, note |-> 0, vid |-> 0, sost |-> FALSE,
          cnt |-> 0, ovl |-> 0, kind |-> "plain", own |-> FALSE]
\* status is legato_status # 0, which counts on; count is what of it fits in
\* legato_hist.  glide is portamento, ctrl portamento_control # -1.
NoLegato == [on |-> FALSE, flag |-> FALSE, status |-> FALSE, count |-> 0, hist |-> {},
             base |-> NoNote, last |-> 0, porta |-> FALSE, glide |-> FALSE,
             ctrl |-> FALSE]
NoVid == [c \in Channels |-> [n \in Notes |-> 0]]
NoKeys == NoVid

Init ==
    /\ voice = [i \in VoiceIds |-> Blank]
    /\ voices = InitialVoices /\ upper = 0 /\ oldVoices = InitialVoices
    /\ head = NoVid /\ tail = NoVid
    /\ sustain = [c \in Channels |-> 0] /\ sostenuto = [c \in Channels |-> FALSE]
    /\ mono = [c \in Channels |-> FALSE]
    /\ legato = [c \in Channels |-> NoLegato]
    /\ call = Idle
    /\ down = NoKeys /\ dropped = {}

-----------------------------------------------------------------------------
(* One voice.                                                              *)

Live(v) == v.status # "free"
Drum(v) == v.ch \in DrumChannels

\* Only a legato note-on leaves a voice without a start_note, so only then
\* can what a dead voice still holds matter later; its channel always can.
Tidy(v) ==
    IF v.status \in {"free", "die"} /\ ~Portamento
    THEN [Blank EXCEPT !.status = v.status, !.ch = v.ch]
    ELSE v

\* kill_note, cut_note and cut_note2 differ in the length of the fade only.
Cut(v) == IF Live(v) THEN [v EXCEPT !.status = "die"] ELSE v

\* finish_note.
Finished(v) ==
    IF v.status \in {"free", "die", "off"} \/ v.kind = "oneshot"
    THEN v ELSE [v EXCEPT !.status = "off"]

\* free_voice.
Freed(v) == [v EXCEPT !.status = "free"]

\* The handlers' loops over i < upper_voices.
EachVoice(F(_)) == [i \in VoiceIds |-> IF i < upper THEN Tidy(F(voice[i])) ELSE voice[i]]

-----------------------------------------------------------------------------
(* note_on.                                                                *)

\* Mutant: the second search starts behind the group that was found.
AlternateBehind(n, m) ==
    \E g \in DOMAIN AltGroups :
        /\ n \in AltGroups[g] /\ \A f \in 1..(g - 1) : n \notin AltGroups[f]
        /\ \E h \in (g + 1)..Len(AltGroups) : m \in AltGroups[h]

\* find_altassign(channel.altassign, n) and then
\* find_altassign(that group, m): the list is searched from there to its end.
AlternateOf(n, m) ==
    \E g \in DOMAIN AltGroups :
        /\ n \in AltGroups[g] /\ \A f \in 1..(g - 1) : n \notin AltGroups[f]
        /\ \E h \in g..Len(AltGroups) : m \in AltGroups[h]

Alternate(c, n, m) == c \in DrumChannels /\ AlternateOf(n, m)

\* What voice_control does to a voice when note n of channel c comes.
NewNote(v, c, n) ==
    IF ~Live(v) \/ v.ch # c THEN v
    ELSE LET aged == IF v.cnt > 0 THEN [v EXCEPT !.cnt = @ - 1] ELSE Cut(v)
         IN  IF Alternate(c, n, v.note) \/ mono[c] THEN Cut(aged)
             ELSE IF v.note # n THEN aged
             ELSE IF ~Overlap \/ AssignMode = 0 THEN Cut(aged)
             ELSE IF AssignMode = 2 THEN aged
             ELSE IF v.ovl > 0 THEN [aged EXCEPT !.ovl = @ - 1]
             ELSE Cut(aged)

\* voice_control, and the returns before and after it: the receive and limit
\* tests, and an instrument without a sample for this velocity.
NoteOn(c, n) ==
    /\ call = Idle /\ down[c][n] < MaxHeld
    /\ down' = [down EXCEPT ![c][n] = @ + 1]
    /\ \/ UNCHANGED <<voice, call>>
       \/ /\ voice' = EachVoice(LAMBDA v : NewNote(v, c, n))
          /\ \E k \in 0..MaxLayers :
                call' = IF k = 0 THEN Idle
                        ELSE [op |-> "note", ch |-> c, note |-> n, todo |-> k,
                              vlist |-> {}]
    /\ UNCHANGED <<sizeVars, queueVars, chanVars, dropped>>

\* Mutant: the pass over sustained voices is missing.
StealsNoSustained ==
    LET live == {i \in Below : Live(voice[i])}
        spare == {i \in live : voice[i].status \in {"off", "die"}}
        on == live \ {i \in live : voice[i].status = "sustained"}
    IN  IF spare # {} THEN spare ELSE IF on # {} THEN on
        ELSE IF live # {} THEN live ELSE {0}

\* The voices reduce_voice may choose; which of them is the quietest is a
\* matter of the mixer.
Steals ==
    LET live == {i \in Below : Live(voice[i])}
        decaying == {i \in live : voice[i].status = "off" /\ ~Drum(voice[i])}
        dying == {i \in live : voice[i].status = "die"}
        sustained == {i \in live : voice[i].status = "sustained"}
        tones == {i \in live : ~Drum(voice[i])}
    IN  IF decaying # {} THEN decaying
        ELSE IF dying # {} THEN dying
        ELSE IF sustained # {} THEN sustained
        ELSE IF tones # {} THEN tones
        ELSE IF live # {} THEN live ELSE {0}

FreeBelow == {i \in Below : ~Live(voice[i])}

\* find_voice: the first free voice, a new one, or a stolen one.
FoundVoice ==
    IF FreeBelow # {} THEN {i \in FreeBelow : \A j \in FreeBelow : i <= j}
    ELSE IF upper < voices THEN {upper}
    ELSE Steals

\* Mutant: find_voice does not count the new voice.
FindSampleKeepUpper ==
    /\ call.op = "note" /\ call.todo > 0
    /\ \E i \in FoundVoice, k \in Kinds :
          /\ voice' = [voice EXCEPT ![i] =
                [Tidy(Freed(@)) EXCEPT !.kind = k, !.own = FALSE,
                     !.status = IF k = "release" THEN "pending" ELSE "on"]]
          /\ call' = [call EXCEPT !.todo = @ - 1, !.vlist = @ \cup {i}]
    /\ UNCHANGED <<sizeVars, queueVars, chanVars, ghostVars>>

\* select_play_sample, for one sample.
FindSample ==
    /\ call.op = "note" /\ call.todo > 0
    /\ \E i \in FoundVoice, k \in Kinds :
          /\ voice' = [voice EXCEPT ![i] =
                [Tidy(Freed(@)) EXCEPT !.kind = k, !.own = FALSE,
                     !.status = IF k = "release" THEN "pending" ELSE "on"]]
          /\ upper' = IF FreeBelow = {} /\ upper < voices THEN upper + 1 ELSE upper
          /\ call' = [call EXCEPT !.todo = @ - 1, !.vlist = @ \cup {i}]
    /\ UNCHANGED <<voices, oldVoices, queueVars, chanVars, ghostVars>>

\* init_channel_portamento finds a legato going on; how long ago the last
\* note came decides whether one starts.
LegatoGoesOn(c) ==
    /\ Portamento /\ c \notin DrumChannels
    /\ legato[c].on /\ legato[c].flag
    /\ legato[c].status \/ legato[c].porta

\* Mutant: a starting legato does not set its base note.
LegatoNoteNoBase(c, n) ==
    LET l == legato[c]
    IN  legato' = [legato EXCEPT ![c] =
                      [l EXCEPT !.status = TRUE, !.hist = @ \cup {n}, !.last = n]]

\* legato_hist is read only while legato_status is set, and cleared when a
\* legato starts, so it is empty in between.  A note whose count is 0 in it
\* looks like one that is off.
LegatoNote(c, n) ==
    LET l == legato[c]
        started == IF l.status THEN l
                   ELSE [l EXCEPT !.status = TRUE, !.count = 1, !.base = l.last,
                                  !.hist = {l.last}]
        count == (started.count + 1) % HistRange
    IN  legato' = [legato EXCEPT ![c] =
            [started EXCEPT !.count = count, !.last = n,
                 !.hist = IF count = 0 THEN @ \ {n} ELSE @ \cup {n}]]

\* init_channel_portamento returns 0.  With portamento, portamento control or
\* the legato pedal the note may become a legato's base, and the base of one
\* that was not ended is forgotten.
FirstNote(c, n) ==
    LET l == legato[c]
    IN  IF Portamento /\ c \notin DrumChannels /\ (l.ctrl \/ l.glide \/ l.on)
        THEN legato' = [legato EXCEPT ![c] =
                 [l EXCEPT !.porta = TRUE, !.base = NoNote, !.flag = TRUE, !.last = n,
                           !.glide = @ \/ l.ctrl, !.ctrl = FALSE]]
        ELSE UNCHANGED legato

\* new_vidq.
NewVid(c, n) ==
    IF Overlap THEN head' = [head EXCEPT ![c][n] = (@ + 1) % VidRange]
               ELSE UNCHANGED head

Started(v, c, n) ==
    [v EXCEPT !.status = IF v.kind = "release" THEN "pending" ELSE "on",
              !.ch = c, !.note = n, !.vid = head[c][n], !.sost = FALSE,
              !.ovl = OverlapCount, !.cnt = ChannelLimit, !.own = TRUE]

\* The rest of note_on: a legato note returns at once, any other starts the
\* voices of vlist.
StartNote ==
    /\ call.op = "note" /\ call.todo = 0
    /\ LET c == call.ch
           n == call.note
       IN  \/ /\ LegatoGoesOn(c) /\ LegatoNote(c, n)
              /\ UNCHANGED <<voice, head>>
           \/ /\ ~(LegatoGoesOn(c) /\ legato[c].status) /\ FirstNote(c, n)
              /\ NewVid(c, n)
              /\ voice' = [i \in VoiceIds |-> IF i \in call.vlist
                                              THEN Started(voice[i], c, n) ELSE voice[i]]
    /\ call' = Idle
    /\ UNCHANGED <<sizeVars, tail, sustain, sostenuto, mono, ghostVars>>

-----------------------------------------------------------------------------
(* note_off.                                                               *)

\* note_off_legato: the note whose voices are to finish, unless it stops
\* note_off.  It is NoNote when the base of the legato was forgotten.
LegatoOff(c, n) ==
    LET l == legato[c]
        rest == l.hist \ {n}
        thru(leg) == [leg |-> leg, note |-> n, stop |-> FALSE]
    IN  IF ~Portamento \/ (l.status /\ n \notin l.hist) THEN thru(l)
        ELSE IF ~l.status THEN thru([l EXCEPT !.flag = FALSE])
        ELSE IF rest # {} THEN [leg |-> [l EXCEPT !.hist = rest], note |-> n, stop |-> TRUE]
        ELSE [leg |-> [l EXCEPT !.hist = {}, !.count = 0, !.flag = FALSE, !.status = FALSE],
              note |-> l.base, stop |-> FALSE]

Released(v, c) ==
    IF v.kind = "release" THEN [v EXCEPT !.status = "on"]
    ELSE IF v.status = "pending" THEN v
    ELSE IF v.sost \/ sustain[c] # 0 THEN [v EXCEPT !.status = "sustained"]
    ELSE Finished(v)

\* The place of a key in vidq_head and vidq_tail: 255 of one channel is 127 of
\* the next, for the last one behind the arrays.
Row(c, n) == IF n = NoNote THEN <<c + 1, 127>> ELSE <<c, n>>
InRows(c, n) == Row(c, n) \in Channels \X Notes
Queued(q, c, n) == q[Row(c, n)[1]][Row(c, n)[2]]

\* last_vidq: its value, whether it is -1 for want of a note-on, and its count.
OffVid(c, n) == IF Overlap /\ InRows(c, n) THEN Queued(tail, c, n) ELSE 0
NothingOn(c, n) == Overlap /\ InRows(c, n) /\ Queued(head, c, n) = Queued(tail, c, n)
LastVid(c, n) ==
    IF Overlap /\ InRows(c, n)
    THEN tail' = [tail EXCEPT ![Row(c, n)[1]][Row(c, n)[2]] = (@ + 1) % VidRange]
    ELSE UNCHANGED tail

NoteOff(c, n) ==
    LET off == LegatoOff(c, n)
        ignored == c \in DrumChannels /\ n \in NoOffKeys
        none == off.stop \/ NothingOn(c, off.note)
        matches(v) == /\ v.status \in {"pending", "on"} /\ v.ch = c
                      /\ v.note = off.note /\ v.vid = OffVid(c, off.note)
    IN  /\ call = Idle
        /\ down' = [down EXCEPT ![c][n] = IF @ = 0 THEN 0 ELSE @ - 1]
        /\ IF ignored THEN UNCHANGED legato
                      ELSE legato' = [legato EXCEPT ![c] = off.leg]
        /\ IF ignored \/ none
           THEN UNCHANGED <<voice, tail>>
           ELSE /\ LastVid(c, off.note)
                /\ voice' = EachVoice(LAMBDA v : IF matches(v) THEN Released(v, c) ELSE v)
        /\ UNCHANGED <<sizeVars, head, sustain, sostenuto, mono, call, dropped>>

-----------------------------------------------------------------------------
(* Pedals.                                                                 *)

\* Mutant: drop_sustain passes over the voices that sostenuto caught.
DroppedUnlessCaught(v, c) ==
    IF v.status = "sustained" /\ v.ch = c /\ ~v.sost THEN Finished(v) ELSE v

\* drop_sustain.
Dropped(v, c) == IF v.status = "sustained" /\ v.ch = c THEN Finished(v) ELSE v

\* update_redamper_controls.
Redamped(v, c) ==
    IF v.status \in {"off", "sustained"} /\ v.ch = c
    THEN [v EXCEPT !.status = "sustained"] ELSE v

PedalLevel(c, a) == IF c \in DamperMode THEN a ELSE IF a >= 64 THEN 127 ELSE 0

\* ME_SUSTAIN.
Sustain(c, a) ==
    LET level == PedalLevel(c, a)
        redamps == c \in DamperMode /\ c \notin DrumChannels
                   /\ level # sustain[c] /\ level # 0
        drops == level = 0 /\ ~sostenuto[c]
    IN  /\ call = Idle
        /\ sustain' = [sustain EXCEPT ![c] = level]
        /\ voice' = EachVoice(LAMBDA v : IF redamps THEN Redamped(v, c)
                                         ELSE IF drops THEN Dropped(v, c) ELSE v)
        /\ UNCHANGED <<sizeVars, queueVars, sostenuto, mono, legato, call, ghostVars>>

\* update_sostenuto_controls.
Held(v, c, s) ==
    IF v.status = "on" /\ v.ch = c /\ c \notin DrumChannels
    THEN [v EXCEPT !.sost = s] ELSE v

\* ME_SOSTENUTO.
Sostenuto(c, a) ==
    LET s == a >= 64
        drops == sustain[c] = 0 /\ ~s
    IN  /\ call = Idle
        /\ sostenuto' = [sostenuto EXCEPT ![c] = s]
        /\ voice' = EachVoice(LAMBDA v : LET w == Held(v, c, s)
                                         IN  IF drops THEN Dropped(w, c) ELSE w)
        /\ UNCHANGED <<sizeVars, queueVars, sustain, mono, legato, call, ghostVars>>

\* An event that only sets legato or portamento fields of its channel.
SetLegato(c, l) ==
    /\ call = Idle /\ Portamento
    /\ legato' = [legato EXCEPT ![c] = l]
    /\ UNCHANGED <<voice, sizeVars, queueVars, sustain, sostenuto, mono, call, ghostVars>>

\* ME_LEGATO_FOOTSWITCH.
Legato(c, b) == SetLegato(c, [legato[c] EXCEPT !.on = b])

\* ME_PORTAMENTO, which drops the portamento in progress when it is off.
PortamentoSwitch(c, b) ==
    c \in Glides /\ SetLegato(c, [legato[c] EXCEPT !.glide = b, !.porta = @ /\ b])

\* ME_PORTAMENTO_CONTROL.
PortamentoControl(c) ==
    c \in Glides /\ SetLegato(c, [legato[c] EXCEPT !.ctrl = TRUE])

\* ME_PORTAMENTO_TIME_MSB and _LSB: update_portamento_controls drops the
\* portamento of a channel that has none, that of a first legato note too.
PortamentoTime(c) ==
    LET l == legato[c]
    IN  SetLegato(c, [l EXCEPT !.porta = @ /\ (l.glide \/ l.ctrl)])

LegatoControl(c) ==
    \/ \E b \in BOOLEAN : Legato(c, b) \/ PortamentoSwitch(c, b)
    \/ PortamentoControl(c) \/ PortamentoTime(c)

\* reset_controllers: portamento is dropped, and a legato with its base note.
\* drop_legato returns before it clears legato_flag when there is no base.
ResetControllers(c) ==
    LET l == legato[c]
        ends == l.status /\ l.base # NoNote
    IN  /\ call = Idle
        /\ sustain' = [sustain EXCEPT ![c] = 0]
        /\ sostenuto' = [sostenuto EXCEPT ![c] = FALSE]
        /\ legato' = [legato EXCEPT ![c] =
               [l EXCEPT !.on = FALSE, !.porta = FALSE, !.glide = FALSE, !.ctrl = FALSE,
                         !.status = FALSE, !.count = 0, !.hist = {},
                         !.base = IF ends THEN NoNote ELSE l.base,
                         !.flag = l.flag /\ ~ends]]
        /\ voice' = EachVoice(LAMBDA v : IF ends /\ v.ch = c /\ v.note = l.base
                                         THEN Cut(v) ELSE v)
        /\ dropped' = dropped \cup {c}
        /\ UNCHANGED <<sizeVars, queueVars, mono, call, down>>

-----------------------------------------------------------------------------
(* Channel messages and resets.                                            *)

ForgetKeys(c) ==
    /\ head' = [head EXCEPT ![c] = NoVid[c]] /\ tail' = [tail EXCEPT ![c] = NoVid[c]]
    /\ down' = [down EXCEPT ![c] = NoKeys[c]]

SilenceNotes(c) ==
    voice' = EachVoice(LAMBDA v :
                 IF v.status # "on" \/ v.ch # c THEN v
                 ELSE IF sustain[c] # 0 THEN [v EXCEPT !.status = "sustained"]
                 ELSE Finished(v))

\* Mutant: all_notes_off leaves vidq as it is.
AllNotesOffKeepVid(c) ==
    /\ call = Idle
    /\ SilenceNotes(c)
    /\ down' = [down EXCEPT ![c] = NoKeys[c]]
    /\ UNCHANGED <<sizeVars, queueVars, chanVars, call, dropped>>

\* ME_ALL_NOTES_OFF.
AllNotesOff(c) ==
    /\ call = Idle
    /\ SilenceNotes(c) /\ ForgetKeys(c)
    /\ UNCHANGED <<sizeVars, chanVars, call, dropped>>

\* ME_MONO and ME_POLY call all_notes_off as well.
Mono(c, m) ==
    /\ call = Idle
    /\ mono' = [mono EXCEPT ![c] = m]
    /\ SilenceNotes(c) /\ ForgetKeys(c)
    /\ UNCHANGED <<sizeVars, sustain, sostenuto, legato, call, dropped>>

\* ME_ALL_SOUNDS_OFF.
AllSoundsOff(c) ==
    /\ call = Idle
    /\ voice' = EachVoice(LAMBDA v : IF v.ch = c THEN Cut(v) ELSE v)
    /\ ForgetKeys(c)
    /\ UNCHANGED <<sizeVars, chanVars, call, dropped>>

\* kill_all_voices.
KillAll ==
    /\ voice' = EachVoice(LAMBDA v : Cut(v))
    /\ head' = NoVid /\ tail' = NoVid
    /\ down' = NoKeys /\ dropped' = {}

\* The key signature event that moves the key (opt_force_keysig).
ChangeKey == call = Idle /\ KillAll /\ UNCHANGED <<sizeVars, chanVars, call>>

ResetChannels ==
    /\ sustain' = [c \in Channels |-> 0] /\ sostenuto' = [c \in Channels |-> FALSE]
    /\ mono' = [c \in Channels |-> FALSE]
    /\ legato' = [c \in Channels |->
           [NoLegato EXCEPT !.last = legato[c].last]]

\* reset_midi(1), a system reset in the tune.
ResetMidi == call = Idle /\ KillAll /\ ResetChannels /\ UNCHANGED <<sizeVars, call>>

\* reset_voices, in skip_to.
ResetVoices ==
    /\ voice' = [i \in VoiceIds |-> Tidy(Freed(voice[i]))]
    /\ upper' = 0
    /\ head' = NoVid /\ tail' = NoVid
    /\ down' = NoKeys /\ dropped' = {}

\* seek_forward replays the controllers up to the new position.
SeekChannels ==
    /\ \E a \in [Channels -> PedalValues] :
          sustain' = [c \in Channels |-> PedalLevel(c, a[c])]
    /\ sostenuto' \in [Channels -> BOOLEAN]
    /\ mono' \in [Channels -> BOOLEAN]
    /\ \E pressed, glides, ctrls \in [Channels -> IF Portamento THEN BOOLEAN ELSE {FALSE}] :
          legato' = [c \in Channels |->
              [NoLegato EXCEPT !.on = pressed[c], !.last = legato[c].last,
                               !.glide = glides[c] /\ c \in Glides,
                               !.ctrl = ctrls[c] /\ c \in Glides]]

-----------------------------------------------------------------------------
(* The mixer.                                                              *)

\* while(uv > 0 && voice[uv - 1].status == VOICE_FREE) uv--;
Trims(live) == {u \in 0..upper : (\A i \in live : i < u) /\ (u = 0 \/ u - 1 \in live)}

\* do_compute_data: the voices of muted channels are freed, any other voice
\* that is mixed may come to its end, and upper_voices comes down.
MixBlock ==
    /\ call = Idle
    /\ \E muted \in SUBSET Channels :
         \E ended \in SUBSET {i \in Below : Live(voice[i]) /\ voice[i].ch \notin muted
                                              /\ voice[i].status # "pending"} :
            LET gone == {i \in Below : i \in ended \/ (Live(voice[i]) /\ voice[i].ch \in muted)}
                left == {i \in Below : Live(voice[i])} \ gone
            IN  /\ voice' = [i \in VoiceIds |-> IF i \in gone THEN Tidy(Freed(voice[i]))
                                                             ELSE voice[i]]
                /\ upper' \in Trims(left)
    /\ UNCHANGED <<voices, oldVoices, queueVars, chanVars, call, ghostVars>>

-----------------------------------------------------------------------------
(* The polyphony.                                                          *)

Smaller(a, b) == IF a < b THEN a ELSE b
Larger(a, b) == IF a < b THEN b ELSE a
Swapped(f, i, j) == [f EXCEPT ![i] = f[j], ![j] = f[i]]

\* Mutant: the voices that come back are not marked free.
GrowStale(n) == voices' = Smaller(MaxVoices, voices + n) /\ voice' = voice

\* voice_increment.
Grow(n) ==
    /\ voices' = Smaller(MaxVoices, voices + n)
    /\ voice' = [i \in VoiceIds |-> IF i \in voices..(voices' - 1)
                                    THEN Tidy(Freed(voice[i])) ELSE voice[i]]

Decaying(i) == voice[i].status \in {"pending", "sustained", "off"}

\* The ways the last voice is emptied: it is free, it goes to the first of the
\* spare places, or a victim is cut for it.
Vacate(spare, victims) ==
    LET last == voices - 1
    IN  \/ /\ ~Live(voice[last])
           /\ voice' = voice
        \/ /\ Live(voice[last])
           /\ \E j \in spare : /\ \A k \in spare : j <= k
                               /\ voice' = Swapped(voice, j, last)
        \/ /\ Live(voice[last]) /\ spare = {}
           /\ \E j \in victims :
                 voice' = Swapped([voice EXCEPT ![j] = Tidy(Freed(@))], j, last)

Spare(n) == {j \in 0..(n - 1) : ~Live(voice[j])}
Shrunk == voices' = voices - 1 /\ upper' = Smaller(upper, voices - 1)

\* One turn of voice_decrement; a note that nothing can replace is lost.
DropOne ==
    LET spare == Spare(voices - 1)
        victims == {j \in 0..(voices - 1) : Decaying(j)}
    IN  /\ \/ Vacate(spare, victims)
           \/ Live(voice[voices - 1]) /\ spare = {} /\ victims = {} /\ voice' = voice
        /\ Shrunk

\* RC_VOICEINCR and RC_VOICEDECR start with restore_voices(0), which is also
\* what reduce_control does when the buffer is full again (delta = 0).
PressVoices(delta) ==
    /\ call = Idle /\ (delta = 0 => AutoReduce)
    /\ call' = [op |-> "restore", delta |-> delta]
    /\ UNCHANGED <<voice, sizeVars, queueVars, chanVars, ghostVars>>

Restore ==
    /\ call.op = "restore" /\ voices # oldVoices
    /\ IF voices < oldVoices THEN Grow(oldVoices - voices) /\ UNCHANGED upper
                             ELSE DropOne
    /\ UNCHANGED <<oldVoices, queueVars, chanVars, call, ghostVars>>

\* The rest of RC_VOICEINCR and RC_VOICEDECR: sync_restart(1) plays on from a
\* traced position with new voices, and refuses when nothing was traced yet.
Resize ==
    /\ call.op = "restore" /\ voices = oldVoices
    /\ LET d == call.delta
       IN  \/ /\ d # 0
              /\ ResetVoices /\ SeekChannels
              /\ voices' = Larger(0, Smaller(MaxVoices, voices + d))
              /\ oldVoices' = voices' /\ call' = Idle
           \/ /\ d >= 0
              /\ Grow(d)
              /\ oldVoices' = voices' /\ call' = Idle
              /\ UNCHANGED <<upper, queueVars, chanVars, ghostVars>>
           \/ /\ d < 0
              /\ call' = [op |-> "drop", left |-> 0 - d]
              /\ UNCHANGED <<voice, sizeVars, queueVars, chanVars, ghostVars>>

Drop ==
    /\ call.op = "drop"
    /\ IF call.left > 0 /\ voices > 0
       THEN /\ DropOne
            /\ call' = [call EXCEPT !.left = @ - 1] /\ UNCHANGED oldVoices
       ELSE /\ oldVoices' = voices /\ call' = Idle
            /\ UNCHANGED <<voice, voices, upper>>
    /\ UNCHANGED <<queueVars, chanVars, ghostVars>>

\* reduce_control with a draining buffer: how many voices it kills and the
\* polyphony it then aims at come from measured fill rates.
Drain ==
    /\ call = Idle /\ AutoReduce
    /\ LET live == {i \in Below : Live(voice[i])}
       IN  \E kill \in 0..Cardinality(live) :
             \E target \in (Cardinality(live) - kill)..MaxVoices :
                call' = [op |-> "thin", kill |-> kill, target |-> target]
    /\ UNCHANGED <<voice, sizeVars, queueVars, chanVars, ghostVars>>

ThinKill ==
    /\ call.op = "thin" /\ call.kill > 0
    /\ \E i \in Steals : voice' = [voice EXCEPT ![i] = Tidy(Freed(@))]
    /\ call' = [call EXCEPT !.kill = @ - 1]
    /\ UNCHANGED <<sizeVars, queueVars, chanVars, ghostVars>>

\* One turn of voice_decrement_conservative, which gives up rather than lose
\* a good note, or voice_increment.
ThinResize ==
    /\ call.op = "thin" /\ call.kill = 0 /\ call.target # voices
    /\ LET spare == Spare(call.target)
           victims == {j \in 0..(voices - 1) : Decaying(j) /\ ~Drum(voice[j])}
       IN  \/ /\ call.target > voices
              /\ Grow(call.target - voices) /\ UNCHANGED <<upper, call>>
           \/ /\ call.target < voices
              /\ Vacate(spare, victims) /\ Shrunk /\ UNCHANGED call
           \/ /\ call.target < voices
              /\ Live(voice[voices - 1]) /\ spare = {} /\ victims = {}
              /\ call' = [call EXCEPT !.target = voices]
              /\ UNCHANGED <<voice, voices, upper>>
    /\ UNCHANGED <<oldVoices, queueVars, chanVars, ghostVars>>

ThinDone ==
    /\ call.op = "thin" /\ call.kill = 0 /\ call.target = voices
    /\ upper' \in Trims({i \in Below : Live(voice[i])})
    /\ call' = Idle
    /\ UNCHANGED <<voice, voices, oldVoices, queueVars, chanVars, ghostVars>>

-----------------------------------------------------------------------------
KeyEvent == \E c \in Channels, n \in Notes : NoteOn(c, n) \/ NoteOff(c, n)

ControlEvent ==
    \E c \in Channels :
       \/ \E a \in PedalValues : Sustain(c, a) \/ Sostenuto(c, a)
       \/ LegatoControl(c) \/ \E b \in BOOLEAN : Mono(c, b)
       \/ ResetControllers(c) \/ AllNotesOff(c) \/ AllSoundsOff(c)

Allocation == FindSample \/ StartNote

Polyphony ==
    \/ \E delta \in (0 - MaxStep)..MaxStep : PressVoices(delta)
    \/ Drain
    \/ Restore \/ Resize \/ Drop
    \/ ThinKill \/ ThinResize \/ ThinDone

Next ==
    \/ KeyEvent \/ ControlEvent \/ ChangeKey \/ ResetMidi
    \/ Allocation \/ MixBlock \/ Polyphony

Spec == Init /\ [][Next]_vars

-----------------------------------------------------------------------------
(* The type of the state.                                                  *)

Statuses == {"free", "pending", "on", "sustained", "off", "die"}

Voice ==
    [status : Statuses, ch : Channels \cup {0}, note : Notes \cup {0},
     vid : 0..(VidRange - 1), sost : BOOLEAN, cnt : 0..ChannelLimit,
     ovl : 0..OverlapCount, kind : Kinds \cup {"plain"}, own : BOOLEAN]

LegatoState ==
    [on : BOOLEAN, flag : BOOLEAN, status : BOOLEAN, count : 0..(HistRange - 1),
     hist : SUBSET Notes, base : Notes \cup {NoNote}, last : Notes \cup {0},
     porta : BOOLEAN, glide : BOOLEAN, ctrl : BOOLEAN]

Calls ==
    [op : {"idle"}]
    \cup [op : {"note"}, ch : Channels, note : Notes, todo : 0..MaxLayers,
          vlist : SUBSET VoiceIds]
    \cup [op : {"restore"}, delta : (0 - MaxStep)..MaxStep]
    \cup [op : {"drop"}, left : 0..MaxStep]
    \cup [op : {"thin"}, kill : 0..MaxVoices, target : 0..MaxVoices]

Vids == [Channels -> [Notes -> 0..(VidRange - 1)]]

TypeOK ==
    /\ voice \in [VoiceIds -> Voice]
    /\ voices \in 0..MaxVoices /\ upper \in 0..MaxVoices /\ oldVoices \in 0..MaxVoices
    /\ head \in Vids /\ tail \in Vids
    /\ sustain \in [Channels -> 0..127] /\ sostenuto \in [Channels -> BOOLEAN]
    /\ mono \in [Channels -> BOOLEAN] /\ legato \in [Channels -> LegatoState]
    /\ call \in Calls
    /\ down \in [Channels -> [Notes -> 0..MaxHeld]] /\ dropped \subseteq Channels

-----------------------------------------------------------------------------
(* Properties.                                                             *)

StartedOn(c, n) ==
    {i \in Below : voice[i].own /\ voice[i].ch = c /\ voice[i].note = n}
Sounding(c) ==
    {i \in Below : /\ voice[i].own /\ voice[i].kind = "plain" /\ voice[i].ch = c
                   /\ voice[i].status = "on"}

\* The code looks for voices below upper_voices only: every voice the player
\* may still take above it must be free, and no polyphony change leaves a
\* sounding voice where note_off and the mixer no longer see it come back.
UpperVoices ==
    /\ upper <= voices
    /\ \A i \in upper..(voices - 1) : voice[i].status = "free"

\* Once every note-on of a key has had its note-off, no voice of the key is
\* still on: the numbers of new_vidq and last_vidq stay matched over stolen
\* voices, notes that found no sample, all_notes_off and wrapped counters.
NoHungNote ==
    \A c \in DOMAIN down : \A n \in DOMAIN down[c] :
        (/\ down[c][n] = 0 /\ ~legato[c].status
         /\ ~(c \in DrumChannels /\ n \in NoOffKeys)) =>
            Sounding(c) \cap StartedOn(c, n) = {}

\* A voice is held after its note-off only while the sustain or the sostenuto
\* pedal is down, except where reset_controllers let the pedals go: it does
\* not call drop_sustain.
PedalsHold ==
    \A i \in Below :
        voice[i].status = "sustained" /\ voice[i].kind = "plain" =>
            \/ voice[i].ch \in dropped
            \/ sustain[voice[i].ch] # 0 \/ sostenuto[voice[i].ch]

\* In mono mode at most one note of the channel is on, whatever was playing
\* when the mode changed.
MonoPlaysOne ==
    \A c \in Channels : call = Idle /\ mono[c] =>
        \A i, j \in Sounding(c) :
            voice[i].note = voice[j].note /\ voice[i].vid = voice[j].vid

\* Of the keys of one altassign group at most one note is on, and replaying a
\* key of the group cuts what it was playing.
GroupPlaysOne ==
    \A c \in DrumChannels, g \in DOMAIN AltGroups : call = Idle =>
        \A i, j \in Sounding(c) :
            {voice[i].note, voice[j].note} \subseteq AltGroups[g] =>
                voice[i].note = voice[j].note /\ voice[i].vid = voice[j].vid

\* playmidi.c:3726: "Only one instance of a note can be playing on a single
\* channel", which is so without opt_overlap_voice_allow.
OneInstance ==
    ~Overlap /\ call = Idle => \A c \in Channels, n \in Notes :
        Cardinality(Sounding(c) \cap StartedOn(c, n)) <= MaxLayers

\* However full the voices are, a note that is started has a voice the mixer
\* and note_off will find: no sample of the same note and no stale place
\* takes the last one away.
NewNoteSounds ==
    [][call.op = "note" /\ call'.op = "idle" /\ voice' # voice /\ voices > 0 =>
          \E i \in call.vlist : /\ i < upper' /\ voice'[i].own
                                /\ voice'[i].ch = call.ch /\ voice'[i].note = call.note
                                /\ voice'[i].status \in {"on", "pending"}]_vars

\* The steal order over whole calls: a drum that still rings is taken only
\* when every other started voice is a drum's, and a note that is down only
\* when nothing else is fading or sustained.
StealStep ==
    \A i \in Below :
       LET v == voice[i]
           rest == {voice[j] : j \in Below}
           steals == call.op = "note" \/ (call.op = "thin" /\ call.kill > 0)
       IN  steals /\ Live(v) /\ v.own /\ ~voice'[i].own =>
              /\ v.status \in {"on", "off"} /\ Drum(v) =>
                    \A w \in rest : Drum(w) \/ ~w.own \/ ~Live(w)
              /\ v.status \in {"on", "pending"} =>
                    \A w \in rest : /\ w.status \notin {"die", "sustained"}
                                    /\ w.status = "off" => Drum(w)

\* Every step keeps to the steal order.
StealOrder == [][StealStep]_vars

\* channel_voice_count: a channel never has more than ChannelLimit + 1
\* generations of notes that are not being cut.
ChannelBounded ==
    \A c \in Channels : call = Idle =>
        Cardinality({i \in Below : voice[i].own /\ voice[i].ch = c
                                    /\ voice[i].status \notin {"free", "die"}})
            <= (ChannelLimit + 1) * MaxLayers

\* A legato that goes on has a base note that is a key: note_off_legato hands the
\* base note to last_vidq as an index (playmidi.c:3985), and NoNote would be one
\* outside the channel's row.
HasBase(c) == legato[c].status => legato[c].base \in 0..127
LegatoHasBase == \A c \in Channels : HasBase(c)

\* It is so in a channel without portamento messages: no order of notes, pedals
\* and resets lets init_channel_portamento take a first note while a legato goes on.
LegatoKeepsBase == \A c \in DOMAIN legato \ Glides : HasBase(c)

\* note_off_legato: when every note is off, the legato's note is finished and
\* no voice is left on.
LegatoFinishes ==
    call = Idle /\ (\A c \in Channels, n \in Notes : down[c][n] = 0) =>
        \A i \in Below : voice[i].kind = "plain" => voice[i].status # "on"
=============================================================================
