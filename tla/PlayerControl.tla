---------------------------- MODULE PlayerControl ----------------------------
(***************************************************************************)
(* The player of playmidi.c as the user moves it about: the play list,     *)
(* loading and reloading, the loop over the events of a tune, and the      *)
(* commands that ctl->read hands to apply_controls while a tune is         *)
(* rendered and to check_apply_control while the player waits.             *)
(* midi_restart_time serves three purposes, as in the code: the position   *)
(* of a pause, the position after a reload, and, when it is 0, "do not     *)
(* step over the first event".                                             *)
(***************************************************************************)
EXTENDS Integers, FiniteSets, Sequences

CONSTANTS
    Times,      \* the events of a tune: their times; the last one is ME_EOT
    Notes,      \* the events that are note-ons
    Files,      \* the play list: whether each file can be read
    Block,      \* compute_buffer_size
    Near,       \* two seconds: RC_PREVIOUS goes to the previous tune
    Step,       \* how far RC_FORWARD and RC_BACK go
    Spots,      \* where RC_JUMP goes
    Traced,     \* the driver can trace (aq_samples does not answer -1)
    Commands,   \* what ctl->read may answer
    Failing,    \* aq_add may fail
    AddPlay,    \* add_play_time is not 0
    MaxTail,    \* bound on the blocks that midi_play_end renders
    MaxReads    \* bound on commands and failures

\* readmidi.c sorts the events; the interfaces ask for no position before 0.
ASSUME PlayerAssumption ==
    /\ Times \in Seq(Nat) /\ Times # <<>>
    /\ \A j, k \in DOMAIN Times : j <= k => Times[j] <= Times[k]
    /\ Block \in Nat \ {0} /\ Step \in Nat /\ Spots \subseteq Nat

Events == 1..Len(Times)

EOT == Len(Times)

\* RC_IS_SKIP_FILE
Skips == {"quit", "load", "next", "previous", "error", "stop", "end"}

VARIABLES
    pc,         \* where the player is
    file,       \* i, the place in the play list
    rc,         \* what play_midi returned
    lastRc,     \* last_rc
    ev,         \* current_event
    at,         \* the event that play_event was called for
    sample,     \* current_sample
    buffered,   \* buffered_count
    count,      \* the samples compute_data is to render
    tail,       \* compute_data calls of midi_play_end, 0 before it
    restart,    \* midi_restart_time
    paused,     \* play_pause_flag
    jumped,     \* jump_flag
    scale,      \* midi_time_ratio in halves: 2 is the tempo of the file
    offset,     \* midi_trace.offset
    out,        \* samples handed to the audio queue since the last flush
    reads,      \* commands and failures so far
    done,       \* the last event that was played or chased (for properties)
    asked,      \* the command that skips the file (for properties)
    stopped,    \* where the tune stands while it is paused (for properties)
    strayed,    \* "early": the position has gone back under the event that is
                \* waited for; "late": that event is played (for properties)
    lost        \* by how much it has gone back (for properties)

stray == <<strayed, lost>>

vars == <<pc, file, rc, lastRc, ev, at, sample, buffered, count, tail, restart,
          paused, jumped, scale, offset, out, reads, done, asked, stopped, stray>>

list == <<file, rc, lastRc>>
position == <<ev, sample, buffered, offset, done>>
mode == <<paused, jumped, scale>>
unmoved == <<file, lastRc, at, count>>
ghosts == <<asked, stopped, stray>>

\* MIDI_EVENT_TIME
Time(k) == (Times[k] * scale + 1) \div 2

\* sample_count is the time of ME_EOT as the file was read.
SampleCount == Times[EOT]

\* current_trace_samples, or the samples computed: any sample since the last
\* flush may be the one that is heard.
Heard == IF Traced THEN offset..(offset + out) ELSE {sample}

Init ==
    /\ pc = "open" /\ file = 1 /\ rc = "none" /\ lastRc = "none"
    /\ ev = 1 /\ at = 1 /\ sample = 0 /\ buffered = 0 /\ count = 0 /\ tail = 0
    /\ restart = 0 /\ paused = FALSE /\ jumped = FALSE /\ scale = 2
    /\ offset = 0 /\ out = 0 /\ reads = 0 /\ done = 0
    /\ asked = "none" /\ stopped = 0 /\ strayed = "no" /\ lost = 0

-----------------------------------------------------------------------------
(* Positions.                                                              *)

\* Mutant: seek_forward stops on the first event it has not played.
SeekNoStepBack(t) ==
    LET n == Cardinality({k \in Events : Time(k) < t}) IN
    [ev |-> n + 1, sample |-> t, done |-> n]

\* seek_forward: the controllers before t are played at once, current_event is
\* left one before the event to go on with, and ME_EOT ends the search.
Seek(t) ==
    LET n == Cardinality({k \in Events : Time(k) < t}) IN
    IF n = EOT THEN [ev |-> EOT, sample |-> SampleCount, done |-> EOT - 1]
    ELSE [ev |-> IF n = 0 THEN 1 ELSE n, sample |-> t, done |-> n]

\* skip_to
SkipTo(t) ==
    /\ ev' = Seek(t).ev /\ sample' = Seek(t).sample /\ done' = Seek(t).done
    /\ buffered' = 0 /\ offset' = t

\* aq_flush(1)
Discard == out' = 0

\* sync_restart
SyncRestart == \E cur \in Heard : Discard /\ SkipTo(cur)

-----------------------------------------------------------------------------
(* The play list.                                                          *)

\* dumb_pass_playing_list, after play_midi_file returned code.
PassList(code) ==
    \/ /\ code = "previous" /\ pc' = "open"
       /\ file' = IF file > 1 THEN file - 1 ELSE file
    \/ /\ code \notin {"previous", "quit"} /\ file < Len(Files)
       /\ pc' = "open" /\ file' = file + 1
    \/ /\ code = "quit" \/ (code # "previous" /\ file = Len(Files))
       /\ pc' = "ended" /\ UNCHANGED file

\* A command that is not lost in the bounds.
Reads(command) ==
    /\ command \in Commands /\ reads < MaxReads
    /\ reads' = reads + 1

\* check_apply_control carries out the commands that do not need the tune.
CheckApply(command) ==
    /\ Reads(command)
    /\ paused' = IF command = "pause" THEN ~paused ELSE paused
    /\ out' = IF command \in {"rate", "sync"} THEN 0 ELSE out

NoCommand == UNCHANGED <<paused, out, reads>>

\* playmidi_change_rate outside a tune.
RestartAfter(command) == IF command = "rate" THEN 0 ELSE restart

\* play_midi_file: a command may skip the file before it is loaded.
SkipFile(command) ==
    /\ pc = "open" /\ command \in Skips
    /\ CheckApply(command) /\ PassList(command)
    /\ UNCHANGED <<rc, lastRc, restart, position, at, count, tail, jumped,
                   scale, ghosts>>

PlayMidiFile ==
    /\ pc = "open" /\ pc' = "load"
    /\ \/ NoCommand
       \/ \E command \in Commands \ Skips : CheckApply(command)
    /\ restart' = 0 /\ scale' = 2 /\ asked' = "none"
    /\ UNCHANGED <<list, position, at, count, tail, jumped, stopped, stray>>

\* play_midi_load_file
LoadFile ==
    /\ pc = "load"
    /\ tail' = 0
    /\ \/ ~Files[file] /\ rc' = "error" /\ pc' = "closed" /\ NoCommand
          /\ UNCHANGED <<restart, asked>>
       \/ Files[file] /\ pc' = "start" /\ NoCommand
          /\ UNCHANGED <<rc, restart, asked>>
       \/ /\ Files[file]
          /\ \E command \in Commands :
                /\ CheckApply(command) /\ restart' = RestartAfter(command)
                /\ \/ /\ command \in Skips /\ pc' = "closed"
                      /\ rc' = command /\ asked' = command
                   \/ /\ command \notin Skips /\ pc' = "start"
                      /\ UNCHANGED <<rc, asked>>
    /\ UNCHANGED <<file, lastRc, position, at, count, jumped, scale, stopped,
                   stray>>

\* aq_flush(0), before a tune and after it, polls until the sound is out.
FlushPoll(command) ==
    /\ pc \in {"start", "drain"}
    /\ CheckApply(command) /\ restart' = RestartAfter(command)
    /\ \/ /\ command \in Skips /\ pc' = "closed"
          /\ rc' = command /\ asked' = command
       \/ command \notin Skips /\ UNCHANGED <<rc, pc, asked>>
    /\ UNCHANGED <<file, lastRc, position, at, count, tail, jumped, scale,
                   stopped, stray>>

\* play_midi
PlayMidi ==
    /\ pc = "start" /\ pc' = "event"
    /\ Discard /\ SkipTo(restart)
    /\ stopped' = restart /\ strayed' = "no" /\ lost' = 0
    /\ UNCHANGED <<list, at, count, tail, restart, mode, reads, asked>>

\* Mutant: an error keeps the direction of the last file that was played.
ClosedKeepsLast ==
    /\ pc = "closed" /\ rc # "reload"
    /\ lastRc' = IF rc \in {"end", "error"} THEN lastRc ELSE rc
    /\ PassList(IF rc = "error" /\ lastRc = "previous" THEN "previous" ELSE rc)
    /\ UNCHANGED <<rc, position, at, count, tail, restart, mode, out, reads,
                   ghosts>>

\* The end of play_midi_file: a file that cannot be read is passed over in the
\* direction the user goes.
Closed ==
    /\ pc = "closed" /\ rc # "reload"
    /\ LET back == rc = "error" /\ lastRc = "previous" IN
       /\ lastRc' = IF back THEN lastRc ELSE rc
       /\ PassList(IF back THEN "previous" ELSE rc)
    /\ UNCHANGED <<rc, position, at, count, tail, restart, mode, out, reads,
                   ghosts>>

Reload ==
    /\ pc = "closed" /\ rc = "reload" /\ pc' = "load"
    /\ UNCHANGED <<list, position, at, count, tail, restart, mode, out, reads,
                   ghosts>>

-----------------------------------------------------------------------------
(* The loop of play_midi over play_event and compute_data.                 *)

\* play_event, up to the controls.
PlayEvent ==
    /\ pc = "event" /\ ev \in Events
    /\ restart' = 1 /\ at' = ev
    /\ \/ /\ Time(ev) > sample
          /\ count' = Time(ev) - sample + buffered
          /\ buffered' = 0 /\ jumped' = FALSE /\ pc' = "controls"
          /\ strayed' = "no" /\ lost' = 0
       \/ /\ Time(ev) <= sample
          /\ pc' = "apply" /\ UNCHANGED <<count, buffered, jumped, stray>>
    /\ UNCHANGED <<list, ev, sample, offset, done, tail, paused, scale, out,
                   reads, asked, stopped>>

\* Mutant: no code of compute_data is looked at.
HandedOnNever(code) == tail = 0 /\ code \notin {"none", "jump"}

\* play_midi_file gets the codes of compute_data: all but RC_JUMP in the tune,
\* those that skip the file in midi_play_end, which does not look at the code of
\* its first call, for the play time that is added.
HandedOn(code) ==
    \/ tail = 0 /\ code \notin {"none", "jump"}
    \/ tail > 0 /\ code \in Skips /\ ~(AddPlay /\ tail = 2)

\* compute_data goes on after the controls, midi_play_end may end the tune
\* early: no voice sounds and no note-on is left.
Render ==
    /\ pc = "render"
    /\ sample' = sample + Block * (count \div Block)
    /\ out' = out + Block * (count \div Block)
    /\ buffered' = count % Block
    /\ \/ tail = 0 /\ pc' = "apply" /\ UNCHANGED tail
       \/ tail = 0 /\ tail' = 1 /\ pc' = "tail"
          /\ \A k \in Events : k >= ev => k \notin Notes
       \/ tail > 0 /\ pc' = "tail" /\ UNCHANGED tail
    /\ UNCHANGED <<list, ev, offset, done, at, count, restart, mode, reads,
                   ghosts>>

\* aq_add fails.
RenderFails ==
    /\ pc = "render" /\ Failing /\ count >= Block
    /\ reads < MaxReads /\ reads' = reads + 1
    /\ sample' = sample + Block
    /\ \/ HandedOn("error") /\ rc' = "error" /\ pc' = "closed"
       \/ ~HandedOn("error") /\ pc' = "tail" /\ UNCHANGED rc
    /\ UNCHANGED <<file, lastRc, ev, buffered, offset, done, at, count, tail,
                   restart, mode, out, ghosts>>

\* play_event plays the event it was called for; ME_EOT ends the tune.  An event
\* under which the position has gone back is not its turn's.
Apply ==
    /\ pc = "apply"
    /\ \/ strayed = "early" /\ strayed' = "late" /\ UNCHANGED done
       \/ strayed # "early" /\ done' = at /\ UNCHANGED strayed
    /\ lost' = 0
    /\ \/ at = EOT /\ tail' = 1 /\ pc' = "tail"
       \/ at # EOT /\ pc' = "next" /\ UNCHANGED tail
    /\ UNCHANGED <<list, ev, sample, buffered, offset, at, count, restart,
                   mode, out, reads, asked, stopped>>

\* play_midi steps to the next event, unless a command went back to the start.
NextEvent ==
    /\ pc = "next" /\ pc' = "event"
    /\ ev' = IF restart # 0 THEN ev + 1 ELSE ev
    /\ strayed' = (IF strayed = "early" THEN "no" ELSE strayed) /\ lost' = 0
    /\ UNCHANGED <<list, sample, buffered, offset, done, at, count, tail,
                   restart, mode, out, reads, asked, stopped>>

\* midi_play_end: the play time that is added, then the voices sound on and fade
\* out.
PlayTail ==
    /\ pc = "tail" /\ tail <= MaxTail
    /\ tail' = tail + 1 /\ count' = Block + buffered /\ buffered' = 0
    /\ jumped' = FALSE /\ pc' = "controls"
    /\ UNCHANGED <<list, ev, sample, offset, done, at, restart, paused, scale,
                   out, reads, ghosts>>

FlushTail ==
    /\ pc = "tail" /\ (AddPlay => tail > 1)
    /\ pc' = "drain" /\ buffered' = 0
    /\ UNCHANGED <<list, ev, sample, offset, done, at, count, tail, restart,
                   mode, out, reads, ghosts>>

Drained ==
    /\ pc = "drain" /\ rc' = "end" /\ pc' = "closed" /\ Discard
    /\ UNCHANGED <<file, lastRc, position, at, count, tail, restart, mode,
                   reads, ghosts>>

-----------------------------------------------------------------------------
(* apply_controls: one command of its loop a step.                         *)

Control(command) == pc = "controls" /\ Reads(command)

\* "continue"
Continue == UNCHANGED <<pc, rc, tail>>

\* "return": compute_data renders, or hands the code on.
ReturnRc(code) ==
    /\ UNCHANGED tail
    /\ \/ HandedOn(code) /\ pc' = "closed" /\ rc' = code
       \/ ~HandedOn(code) /\ UNCHANGED rc
          /\ pc' = IF code = "none" THEN "render"
                   ELSE IF tail > 0 THEN "tail" ELSE "next"

LeaveTune(command) ==
    /\ Control(command) /\ command \in Skips
    /\ Discard /\ ReturnRc(command)
    /\ asked' = IF AddPlay /\ tail = 2 THEN asked ELSE command
    /\ UNCHANGED <<unmoved, position, restart, mode, stopped, stray>>

\* RC_PREVIOUS
Previous ==
    /\ Control("rewind")
    /\ Discard /\ ReturnRc(IF sample < Near THEN "previous" ELSE "restart")
    /\ UNCHANGED <<unmoved, position, restart, mode, ghosts>>

\* While the tune is paused the commands only move midi_restart_time.
MovePause(command, t) ==
    /\ Control(command) /\ paused
    /\ restart' = t /\ stopped' = t
    /\ Continue
    /\ UNCHANGED <<unmoved, position, mode, out, asked, stray>>

PausedRestart == MovePause("restart", 0)
PausedJump == \E t \in Spots : MovePause("jump", t)
PausedForward ==
    LET t == restart + Step IN
    MovePause("forward", IF t > SampleCount THEN SampleCount ELSE t)
PausedBack == MovePause("back", IF restart < Step THEN 0 ELSE restart - Step)

Restart ==
    /\ Control("restart") /\ ~paused
    /\ Discard /\ SkipTo(0) /\ jumped' = TRUE /\ restart' = 0
    /\ Continue
    /\ UNCHANGED <<unmoved, paused, scale, ghosts>>

\* RC_JUMP and RC_FORWARD end a tune rather than leave it.
GoTo(t) ==
    \/ t >= SampleCount /\ ReturnRc("end") /\ UNCHANGED position
    \/ t < SampleCount /\ SkipTo(t) /\ ReturnRc("jump")

Jump ==
    /\ Control("jump") /\ ~paused
    /\ Discard /\ \E t \in Spots : GoTo(t)
    /\ UNCHANGED <<unmoved, restart, mode, ghosts>>

Forward ==
    /\ Control("forward") /\ ~paused
    /\ Discard /\ \E cur \in Heard : GoTo(cur + Step)
    /\ UNCHANGED <<unmoved, restart, mode, ghosts>>

Back ==
    /\ Control("back") /\ ~paused
    /\ Discard /\ ReturnRc("jump")
    /\ \E cur \in Heard :
          \/ cur > Step /\ SkipTo(cur - Step) /\ UNCHANGED restart
          \/ cur <= Step /\ SkipTo(0) /\ restart' = 0
    /\ UNCHANGED <<unmoved, mode, ghosts>>

\* Mutant: the pause of check_apply_control, which takes no position.
PauseNowhere ==
    /\ Control("pause") /\ ~paused
    /\ Discard /\ paused' = TRUE /\ jumped' = TRUE
    /\ stopped' \in Heard
    /\ Continue
    /\ UNCHANGED <<unmoved, position, scale, restart, asked, stray>>

\* RC_TOGGLE_PAUSE
Pause ==
    /\ Control("pause") /\ ~paused
    /\ restart' \in Heard /\ stopped' = restart'
    /\ Discard /\ paused' = TRUE /\ jumped' = TRUE
    /\ Continue
    /\ UNCHANGED <<unmoved, position, scale, asked, stray>>

Resume ==
    /\ Control("pause") /\ paused
    /\ paused' = FALSE /\ SkipTo(restart) /\ jumped' = TRUE
    /\ Continue
    /\ UNCHANGED <<unmoved, restart, scale, out, ghosts>>

\* RC_SYNC_RESTART, channels that are muted, keys and voices only have the sound
\* computed anew from where it is heard; keys and voices do without when the
\* driver cannot trace.
Renew ==
    /\ \/ Control("sync") /\ SyncRestart /\ jumped' = TRUE
       \/ Control("key") /\ Traced /\ SyncRestart /\ jumped' = TRUE
       \/ Control("key") /\ ~Traced /\ UNCHANGED <<position, out, jumped>>
    /\ Continue
    /\ UNCHANGED <<unmoved, restart, paused, scale, ghosts>>

\* RC_SYNC_RESTART with a value, for a driver that can trace: where it cannot,
\* RC_JUMP has play_midi step over the event that play_event waits for.
SyncIfTraced ==
    /\ Control("trysync") /\ jumped' = TRUE
    /\ \/ Traced /\ SyncRestart
       \/ ~Traced /\ UNCHANGED <<ev, sample, buffered, offset, out>>
          /\ done' = IF jumped \/ strayed = "early" THEN done ELSE at
    /\ Continue
    /\ UNCHANGED <<unmoved, restart, paused, scale, ghosts>>

\* RC_CHANGE_REV_EFFB, RC_CHANGE_REV_TIME and the two switches of the spectrum
\* compute the sound anew and do not set jump_flag: compute_data renders, and
\* play_event plays, as if the position had not moved.
Refresh ==
    /\ Control("reverb") /\ SyncRestart
    /\ strayed' = "early" /\ lost' = lost + sample - sample'
    /\ Continue
    /\ UNCHANGED <<unmoved, restart, mode, asked, stopped>>

\* Mutant: current_sample stays in the old tempo.
ChangeSpeedUnscaled ==
    /\ \/ Control("faster") /\ scale > 1 /\ scale' = scale \div 2
       \/ Control("slower") /\ scale < 4 /\ scale' = scale * 2
    /\ SyncRestart /\ jumped' = TRUE
    /\ Continue
    /\ UNCHANGED <<unmoved, restart, paused, ghosts>>

\* RC_SPEEDUP and RC_SPEEDDOWN, by half and by double.  midi_restart_time keeps
\* the samples of the old tempo, in which the place of a pause is another.
ChangeSpeed ==
    /\ \/ Control("faster") /\ scale > 1 /\ scale' = scale \div 2
       \/ Control("slower") /\ scale < 4 /\ scale' = scale * 2
    /\ \E cur \in Heard :
          /\ ev' = Seek(cur).ev /\ done' = Seek(cur).done
          /\ sample' = (Seek(cur).sample * scale' + scale \div 2) \div scale
    /\ offset' = sample' /\ buffered' = 0 /\ Discard /\ jumped' = TRUE
    /\ stopped' = (stopped * scale' + scale \div 2) \div scale
    /\ Continue
    /\ UNCHANGED <<unmoved, restart, paused, asked, stray>>

\* RC_RELOAD, RC_TOGGLE_DRUMCHAN, RC_OUTPUT_CHANGED, and RC_CHANGE_RATE when the
\* driver takes the rate.
ReloadTune ==
    /\ Control("reload") \/ Control("rate")
    /\ restart' \in Heard
    /\ Discard /\ ReturnRc("reload")
    /\ UNCHANGED <<unmoved, position, mode, ghosts>>

\* RC_CHANGE_RATE to the rate that is set, or one the driver refuses.
RefuseRate ==
    /\ Control("badrate")
    /\ restart' \in Heard \cup {restart}
    /\ ReturnRc("none")
    /\ UNCHANGED <<unmoved, position, mode, out, ghosts>>

\* RC_NONE ends the loop, unless the tune is paused.
NoControl ==
    /\ pc = "controls" /\ ~paused
    /\ ReturnRc(IF jumped THEN "jump" ELSE "none")
    /\ UNCHANGED <<unmoved, position, restart, mode, out, reads, ghosts>>

-----------------------------------------------------------------------------

ApplyControls ==
    \/ \E command \in Commands : LeaveTune(command)
    \/ Previous \/ PausedRestart \/ PausedJump \/ PausedForward \/ PausedBack
    \/ Restart \/ Jump \/ Forward \/ Back \/ Pause \/ Resume \/ Renew
    \/ SyncIfTraced \/ Refresh \/ ChangeSpeed \/ ReloadTune \/ RefuseRate \/ NoControl

Next ==
    \/ \E command \in Commands : SkipFile(command) \/ FlushPoll(command)
    \/ PlayMidiFile \/ LoadFile \/ PlayMidi \/ Closed \/ Reload
    \/ PlayEvent \/ Render \/ RenderFails \/ Apply \/ NextEvent
    \/ PlayTail \/ FlushTail \/ Drained
    \/ ApplyControls

Spec == Init /\ [][Next]_vars

-----------------------------------------------------------------------------
(* Properties.                                                             *)

\* However blocks of a fixed size fall between the events, and wherever the
\* user goes, an event is played less than a block from its time.  Known
\* exception: a command that computes the sound anew and does not jump (Refresh)
\* takes the position back under the event that is waited for.  That event is
\* played early by what was thrown away, and the events the position went back
\* over, with no samples between them, late by at most what was rendered for it.
OnTime ==
    pc = "apply" /\ (at = done + 1 \/ strayed = "early") =>
        /\ strayed # "late" =>
              sample + lost - Time(at) < Block /\ Time(at) - sample - lost < Block
        /\ strayed = "late" => Time(at) <= sample /\ sample - Time(at) <= count

\* Every event is played or chased once since the last seek, in order, and
\* current_event stays in the list.  Known exceptions:
\*   - after a seek to the very start the first event may be stepped over;
\*   - a reload plays the last chased event once more;
\*   - the event waited for when the position went back under it (Refresh) is
\*     played before its turn, and again in its turn; ME_EOT ends the tune then;
\*   - RC_SYNC_RESTART for a driver that can trace steps over the event waited for
\*     where it cannot (done counts it), and over ME_EOT behind the list.
\* The tunes and users it is checked for leave out four other ways to a position
\* behind ME_EOT, where seek_forward stops on ME_EOT and play_midi then steps over
\* it: a tune of ME_EOT alone, RC_JUMP to behind the end while paused (RC_FORWARD
\* is limited to sample_count, RC_JUMP is not), RC_FORWARD or RC_JUMP after
\* RC_SPEEDUP, and changes of tempo that round a position near the end up to
\* behind it.
InOrder ==
    /\ ev \in Events \/ (done = EOT /\ tail = 0)
    /\ pc = "apply" =>
          \/ at = done + 1
          \/ done = 0 /\ at = 2
          \/ at = done /\ out = 0 /\ sample = offset
          \/ strayed = "early" /\ ev <= at

\* A command that skips the file is what becomes of the file: no code of
\* compute_data in between, and no answer of midi_play_end, takes its place.
\* Known exception: a command read in the play time that midi_play_end adds is
\* dropped.
SkipObeyed == pc = "closed" => asked \in {"none", rc}

\* The tune goes on where it was paused, or where the user moved it to in the
\* pause; one sample later than the start when the pause is older than the tune.
ResumesThere ==
    [][pc = "controls" /\ paused /\ ~paused' =>
          offset' = stopped \/ (stopped = 0 /\ offset' = 1)]_vars

\* The play list has come to its end, or the user has left the tune paused, or
\* play_midi has stepped over ME_EOT: what it reads then is no event.
ListOver == pc = "ended" \/ paused \/ (pc = "event" /\ ev \notin Events)
=============================================================================
