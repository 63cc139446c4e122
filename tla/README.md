# TiMidity++ in TLA+

A verification project for TiMidity++ 41, a software synthesizer that renders
MIDI (files, streams, live input) to PCM. The TLA+ modules here are translated
from `src/timidity/`, the program's own core, and from the front ends in
`src/interface/` that have threads or connections of their own; each definition
that stands for code names its lines in `PROJECT.json` under `map`.

    tlc -workers 2 -config RT_input.cfg MCRtSyn    # check a run
    tlapm Voices_proofs.tla                        # check the proofs

## 1. The system

MIDI goes in at the top of this list and samples come out at the bottom; each
part calls the next ones.

| part | code | state | operations |
| --- | --- | --- | --- |
| User interfaces and front ends | `interface/*.c` | a `ControlMode` table `ctl` | `ctl->read` answers RC_ codes, `ctl->event` displays, `pass_playing_list` runs the play list |
| Realtime front end | `interface/rtsyn_*.c` | ring of received messages, sample clock of the stream, sleep and reset timers | `rtsyn_play_event`, `rtsyn_add_event`, `rtsyn_play_calculate`, `rtsyn_stop_playing` |
| Windows synthesizer | `interface/w32g_syn.c`, `winsyn_c.c` | ring of commands, status, the mutex between two threads | start, stop, quit, applying the preferences |
| Network server, ALSA sequencer | `interface/server_c.c`, `alsaseq_c.c` | two connections, the buffer and the parser of the data, timer flags | control commands, `seq_play_event` |
| MIDI file reader | `timidity/readmidi.c`, `rcp.c`, `mfi.c` | sorted list of `MidiEvent`, insertion point | `read_midi_file`, `groom_list` |
| Player | `timidity/playmidi.c` | `current_sample`, `current_event`, channels, voices, polyphony | `play_midi`, `play_event`, `compute_data`, `apply_controls`, `skip_to`, `sync_restart` |
| Voice allocation | `playmidi.c` | `voice[]`, `voices`, `upper_voices`, `vidq_head/tail`, pedals, mono, legato | `note_on`, `note_off`, pedals, channel messages, `voice_increment`, `voice_decrement`, `reduce_control` |
| Instruments | `instrum.c`, `sndfont.c`, `dls.cpp` | tone banks, instrument cache, loading marks | `load_missing_instruments`, `free_instruments` |
| Resample cache | `recache.c` | table of cached samples, `playing` references | `resamp_cache_refer_on/off`, `resamp_cache_create` |
| Mixer, effects, filters | `mix.c`, `resample.c`, `effect.c`, ... | per-voice and per-channel arithmetic | `mix_voice`, `do_ch_reverb`, ... |
| Rendering over threads | `thread.c`, `thread_playmidi.c`, `thread_effect.c` | job counters and flags, four rotating blocks | `go_compute_thread`, `compute_thread_core`, `go_compute_thread_sub0/1` |
| Audio queue | `aq.c` | buckets in a free list and a queue, play counters | `aq_add`, `aq_fill_nonblocking`, `aq_soft_flush`, `aq_flush`, `aq_samples`, `aq_filled` |
| Display trace | `miditrace.c` | list of events waiting for the audio clock, offset | `push_midi_trace*`, `trace_loop`, `trace_flush`, `trace_offset` |
| Output drivers | `*_a.c` | a device or a file | `output_data`, `acntl(PM_REQ_...)` |
| Memory | `utils/mblock.c`, `memb.c`, `strtab.c` | pooled blocks and a free list; chained buffers | `new_segment`, `reuse_mblock`, `push_memb`, `read_memb` |
| Archives, URLs | `libarc/*` | push-back buffers, a temporary cache | `url_open`, `url_read`, `open_archive_file` |

How they interact. The player runs in one thread: it plays events, renders
blocks and hands each to `aq_add`. The audio queue calls back into the player's
control (`check_apply_control`) while it waits, which may skip, flush,
reconfigure the output or seek. What the user sees is delayed by the display
trace until the audio clock has reached the event. A pool of worker threads
shares the rendering of a block with the player's thread and must be quiet
between blocks. In the realtime front ends a callback thread of the system
feeds the player; in the server one thread serves the client's two connections
and the player, which reads the control connection while it renders.

The hard behaviours are listed line by line in `PROJECT.json` under `hazards`,
each with the properties that would notice it going wrong. In short: a clock
that is estimated from counters which several functions re-base; a queue that is
re-entered from its own waits; numbers that tie a note-off to its note-on over
stolen voices, resets and wrapping counters; loops over voices that move the
voices they loop over; lock-free counters and flags between threads; blocks that
are in several stages of a pipeline when a tune switches an effect; a ring that
two threads index without a test for being full; a command that is carried out
in the middle of an event, of a flush or of another command; one variable that
means the place of a pause, the place after a reload, and "do not step over the
first event"; and lists that are built out of order, unwound and re-timed.

## 2. Modules

| module | what it is |
| --- | --- |
| `SampleStream` | what the audio queue promises: a stream of samples, abstractly |
| `AudioQueue` | `aq.c` composed with `miditrace.c` and a sound device |
| `MCAudioQueue`, `MCQueues` | the queue for TLC: one driver, and four drivers side by side |
| `AudioQueue_proofs` | the queue implements `SampleStream`, keeps its buckets, its clock and its display events, proved |
| `ComputeThread` | `thread.c`'s job pool on the Win32 primitives |
| `ComputeThread_proofs` | blocks and sub-jobs are barriers, proved |
| `RenderPipeline` | `thread_playmidi.c`, `thread_effect.c`: the blocks in the stages of a batch of jobs |
| `RenderPipeline_proofs` | no two jobs of a batch touch one buffer, every block is heard in time, skips are silent, proved |
| `MCComputeThread`, `MCThreads` | the pool, and the pool and eight settings of the pipeline, for TLC |
| `Voices` | note handling and voice allocation of `playmidi.c` |
| `MCVoices`, `MCTunes` | the voices for TLC: one setting, and eight settings of the player side by side |
| `Voices_proofs` | note-offs find their notes, pedals hold, modes, groups and stealing keep their rules, keys and channels their number of voices, `upper_voices` and the base note of a legato without portamento messages, proved |
| `InputQueue` | what the realtime synthesizer may expect of its input: a queue that forgets all when it is full, unless the reader had just looked |
| `MidiInput` | the ring between the driver's thread and the main loop, `rtsyn_winmm.c` |
| `RtSyn` | the time keeping of `rtsyn_common.c` with its main loop |
| `RtSyn_proofs` | what is rendered ahead is queued, notes are dropped and active sensing expires with a reason only, proved |
| `SynthControl` | the window thread and the synthesizer thread of `w32g_syn.c` |
| `WinThreads_proofs` | the ring is that queue, a header has one holder and only an overflow loses one, and nothing new is played while preferences are applied, proved |
| `MCRtSyn`, `MCWaits` | for TLC: two settings of the time keeping; what threads hand to each other, the ring of `MidiInput`, the commands of `SynthControl` and a pool with nested sub-jobs |
| `MidiServer`, `MCServer` | `server_c.c`; two kinds of clients |
| `MidiServer_proofs` | however the data is cut and whenever RESET comes, what is played is the stream or the server dies, proved |
| `PlayerControl` | the play list, the loop over a tune's events, and the user's commands, `playmidi.c` |
| `EventList` | from a file to the player's list: `readmidi.c`, `mfi.c` |
| `Tune_proofs` | a skip is obeyed, events are played in time and in order, a pause resumes where it began, the list is always in order, the groomed list has room for the loop, proved |
| `RcpTrack` | the reader of a Recomposer track, `rcp.c`, on top of `EventList` |
| `MCPlayer`, `MCTune` | for TLC: five users of the player, and eight readers of files |

Several MC modules instantiate a component once per setting; a variable that is
chosen in `Init` and never changes (`driver`, `tune`, `player`, `part`, `client`,
`user`) says which instance's actions run. The variables of the other components
of such a module stay at fixed values, so that a property of a component that
sleeps is a property of those values.

Definitions marked *Mutant* are defective variants of the definition that
follows them. No specification uses them: each, put in place of the correct
definition, must make the property `PROJECT.json` pairs it with fail, which
shows that the property depends on the code being right.

### 2.1 AudioQueue

State: `free` is `allocated_bucket_list`, `queue` the list `head`..`tail`, `data`
what each bucket holds, `clk` the two counters and the time since
`play_start_time`, `dev` the device, `traces` and `traceOffset` the display
trace. A sample is its position in the tune, silence is 0, so loss, repetition
and order are visible. `pc` is where the player is inside a call: a call is split
exactly where time can pass (a blocking write, a sleep, `check_apply_control`),
and everything between two such points is one step.

| actions | code |
| --- | --- |
| `ComputeData`, `ComputeRest`, `AqAdd`, `ThruWrite` | `compute_data` and `aq_add` up to its first wait |
| `CopyNew`, `CopyTail`, `CopyFull`, `CopyDone` | `add_play_bucket` in `aq_add`'s loop |
| `WaitOver`, `FullWrite` | what that loop does when no bucket is free |
| `FillWrite`, `FillDone`, `AqUpdate`, `AqFillNonblocking` | `aq_fill_nonblocking` and its callers |
| `AqSoftFlush`, `SoftWrite`, `SoftDone` | `aq_soft_flush` |
| `AqFlush`, `DrainRound`, `DrainTest`, `DrainSync` | `aq_flush(0)` |
| `ControlNone/Skip/Sync/Reload` | the outcomes of `check_apply_control` inside a flush |
| `AqDiscard`, `OutputChanged`, `Seek`, `StartTune` | `aq_flush(1)` and what the player does around it |
| `PushTrace`, `TracePass` | `push_midi_trace_ce`, `trace_loop` |
| `ThruRefused`, `FullRefused`, `FillRefused`, `SoftRefused` | `output_data` answers -1 |
| `Tick` | a sample time passes and the device plays |

Abstractions. One sample is one byte and one tick. The driver is
`IS_STREAM_TRACE`, takes a write whole or refuses it whole, blocks while it has no
room, and `PM_REQ_FLUSH` returns when it is empty; `PM_REQ_DISCARD` succeeds.
`aq_wait_ticks` sleeps at least a tick. All display events are `CtlEvent`s.
`aq_setup`'s choice of sizes is a constant. Bounds: `MaxSample` (stream position),
`MaxTrace` (waiting events), `MaxErrors` (refused writes between two flushes),
`MaxBuckets`; `LongAgo` caps the time since `play_start_time` above every value a
counter can have, so that an older start time makes no difference.

### 2.2 ComputeThread

A thread executes one access to the shared variables per step, the critical
section being one step. Each thread has a `stack` of calls because a job may call
`go_compute_thread_sub0/1`, which runs `compute_thread_core` again on top of it.
`Go`..`GoWait` are `go_compute_thread`; `Wake`, `ResetEvent`, `Finish` the loop of
`ComputeThread`; `TakeJob`..`LeaveCore` `compute_thread_core`;
`CheckCall`..`Disarm` `go_compute_thread_sub0/1`; `Terminate`..`Begin` taking the
pool down and up. `ran` and `subRan` count executions and are read by the
properties only.

Abstractions. `thread_finish`, the flags and the counts are plain memory that is
read in spin loops without a lock: that is a data race in C, and the model reads
the value last written, which is what the x86 builds do (the loops contain
`_mm_pause` or `Sleep`). `PoolAssumption` states what the callers guarantee: at
most one job of a block starts a given slot (`set_effect_sub_thread` gives a slot
to one effect). Time-outs of thread termination and failures of
`begin_compute_thread` are left out; the pthread variant is disabled by the
preprocessor. `CounterLimit` only appears in `TypeOK`: it is no bound on the
behaviour but the claim that no counter runs away.

### 2.3 Voices

State: `voice`, `voices`, `upper`, `oldVoices` are the array and the polyphony;
`head`, `tail` are `vidq_head`, `vidq_tail`; `sustain`, `sostenuto`, `mono`,
`legato` are fields of `channel[]`; `call` holds the locals of a handler whose
loop is running, so that each turn of a loop that allocates or drops voices is a
step and nothing else happens until it returns. Three ghosts serve the
properties: a voice's `own` (it was filled by `start_note`), `down` (note-ons of a
key without note-off) and `dropped` (channels whose pedals `reset_controllers`
released).

| actions | code |
| --- | --- |
| `NoteOn`, `FindSample`, `StartNote` | `note_on`: `voice_control`, `find_samples` with `find_voice` and `reduce_voice`, `init_channel_portamento`, `start_note` |
| `NoteOff` | `note_off` with `note_off_legato` and `last_vidq` |
| `Sustain`, `Sostenuto`, `Legato`, `PortamentoSwitch`, `PortamentoControl`, `PortamentoTime`, `Mono` | the control changes with `drop_sustain`, `update_sostenuto_controls`, `update_redamper_controls` |
| `ResetControllers`, `AllNotesOff`, `AllSoundsOff`, `ChangeKey`, `ResetMidi` | the channel and system resets |
| `MixBlock` | `do_compute_data`: ended and muted voices, `upper_voices` |
| `PressVoices`, `Restore`, `Resize`, `Drop` | `RC_VOICEINCR`, `RC_VOICEDECR` with `restore_voices`, `voice_increment`, `voice_decrement`, `sync_restart` |
| `Drain`, `ThinKill`, `ThinResize`, `ThinDone` | `reduce_control` with its calls of `reduce_voice` and `voice_decrement_conservative` |

Abstractions. Volumes are left out: where the code takes the quietest voice of a
class, any voice of the class may be taken; when a sample ends is any block.
`reduce_control`'s measurements become any number of kills up to the live voices
and any target that still holds the rest. Of portamento
(CC#5, 65, 84) only what decides the branches of `init_channel_portamento` and `legato_note`,
not the pitch; `Glides` are the channels that get CC#65 and CC#84. The receive switches are on, except the
note-off switch of drum keys, a constant; the damper and assign modes are constants; the choice
of samples is their number and kind. A voice that is free or dying forgets what
nothing reads any more (`Tidy`), and `legato_hist` is empty while it is not read.
The counters `vidq` wrap at `VidRange` in place of 256, what `legato_hist` holds at `HistRange`; `MaxHeld` < `VidRange`
keeps a key from being down `VidRange` times, the case in which equality of the
counters no longer means "no note" (listed as a hazard). `ChannelLimit`,
`OverlapCount`, `MaxLayers` and `MaxStep` are scaled down in the same way.

### 2.4 RenderPipeline

With the compute threads a call of `do_compute_data_midi_thread` renders one block
while the sends of the block before last and the effects of earlier ones are
computed in the same batch of jobs. A block is carried on by rotating
`cdmt_ofs_0..3` (`ofs`) over rings of four buffers and `cdmt_buf_i/o` (`buf`) over
pairs. A buffer holds a set of *sounds*: the channel a sound came from, how many
blocks ago, and the first and last effect it went through. `on` are the effects
that are switched on, `cv`, `channel`, `master`, `sub`, `ring`, `multi`, `final` the
buffers, `skip` the silent skip of `compute_data_midi_skip`, `out` what the block
that comes out holds; `past` remembers what was rendered, for the properties.

`Compute` is one block: the jobs, each by the buffers it reads and writes, and the
rotation. `Skip` is a block of the silent skip, `Switch` a message of the tune that
switches an effect, `Reset` `reset_midi`, which clears the buffers. The samples and the tails of
the effects are left out; an effect that is on lets pass what it gets. The three
tables of taps and feeds are those of GS, XG, and of SD and GM2. A sound older
than `MaxAge` blocks is only "old", and `CheckMax` and `CheckBlocks` shorten the
silence that starts a skip. The composition with `ComputeThread` is its promise
that all jobs of a block are done when the next starts (`GoIsBarrier`), which makes a
batch one step here; `NoRace` says why the order of the jobs in it does not matter.

### 2.5 MidiInput, RtSyn, SynthControl

`MidiInput` has the ring (`evbuf`, `evbwpoint`, `evbrpoint`), the headers the driver
may fill and the message that the main loop plays (`hand`). `Short` and `Long` are
`MidiInProc`; a turn of `rtsyn_ws_play_some_data` is `Look` (`rtsyn_ws_buf_check`), `Take`
in a critical section of its own, which does not test again, and `Finish`, with the
header given back; `Start` is `rtsyn_ws_synth_start`,
`Return` and `Close` are `midiInReset`, which has the driver return its headers through
`MidiInProc`, and the closing behind it. `InputQueue` is its abstract specification. It
has the lapping message between a look and a take: the ring is empty then, the take takes
a slot all the same, and with it all forgotten slots can be read again, so `lapped` keeps
them until the take or the next delivery.

`RtSyn` keeps all times relative to the clock, so that 0 is now and a tick lowers
them all: `rendered` is the time that `current_sample` stands for, `last` and
`lastCalc` are `last_event_time` and `last_calc_time`, `queued` what the audio queue
and the device hold. A turn of the loop goes through `Render`/`Played`
(`rtsyn_play_event_time`), `Note`, `Reset`, `Sensing` (`rtsyn_play_one_data`),
`NoData`, `Calculate`, `Expire`/`NotExpired` (`rtsyn_play_calculate`) and `Key`/`NoKey`.
It looks at the input and takes a message in one step: one that laps the ring between
the two leaves what a delivery right after the take leaves (`Accepted`), so that only the
time between the two is left out here.
A pass takes at most `PassMax` ticks unless the device makes it wait; `AgeMax` caps
ages above every bound they are compared with (a pass, what may be rendered for
one event, what the device holds, and two), and `SenseMax` shortens the half
second of active sensing. `TimeAssumption` has a latency of four ticks or more,
which is the least that `rtsyn_set_latency` sets.

`SynthControl` has the ring of commands, the mutex that the window thread keeps
while preferences are applied (`held`), the status before and now, the message that was
taken and is not heeded yet (`msg`), and where the two
threads are. `Rest` and `Hear` take a message and let the mutex go, `Wake` and `Heed` assign the
status, so that the window thread may come in between; its own way is cut at each test
(`Ask`, `Lock`, `Test`, `Post`), and ends with `Again`, the START, or `Restart`, the QUIT of a restart.
A START that was taken before the window thread had the mutex may set the status after it
was noted as "stop": the synthesizer then opens the ports while preferences are applied. A command is one of start, stop, quit and the resets, and `Max` of
the eight places are modelled. Creating the mutex and the threads is left out, and
the wait of 16 s for the synthesizer thread ends at any time.

### 2.6 MidiServer

`stack` holds the calls the one thread is in, the innermost first: `doit`'s select,
`do_control_command`, `do_sequencer` with its parser, an event that is being played,
a flush. `socket` and `wire` are the bytes on their way, `lines` and `buffer` those
read; a fragment Playing pushes a call, and in
it `ctl_read` may push a command. `decoder` is history: the stream taken unit by
unit when the client sends it, without a buffer or a network; `due` is what it says
and the server has not played.

The protocol is the sequencer protocol, which `server_reset` sets and only PROTOCOL changes. A
unit of data is a frame of it (a byte of MIDI, SEQ_MIDIPUTC) or half of one of its longer events;
commands come as whole lines. RESET may come at any time, also while an event or a flush is
under way: `server_reset` then sets `data_buffer_len` to 0 under a `do_sequencer` that keeps its
`offset`, and the length it computes at the end is negative (`Crash`; `torn` remembers that it
happened, and a new server is started). What RESET discards depends on the network, so the
client sends no data and no other RESET until it is answered; data that is on its way when
RESET comes is thrown away (`Discard`). Left out: PROTOCOL, TIMEBASE, PATCH, SETBUF, the
system exclusive and timing events' arithmetic, and the accept of a second client.

### 2.7 PlayerControl

A tune is a sequence of times, the last one ME_EOT. `pc` is where the player is:
`open`, `load`, `start` (`play_midi`), `event`, `render`, `controls`, `apply`, `next`,
`tail`, `drain`, `closed`, `ended`. `ev`, `sample`, `buffered`, `count`, `restart`,
`paused`, `jumped` are the variables of `playmidi.c`, `out` and `offset` what
`current_trace_samples` is computed from, `done`, `asked` and `stopped` are history.

| actions | code |
| --- | --- |
| `PlayMidiFile`, `LoadFile`, `Closed`, `Reload`, `SkipFile` | `play_midi_file` with `dumb_pass_playing_list` |
| `PlayMidi`, `PlayEvent`, `Apply`, `NextEvent` | `play_midi`, `play_event` |
| `Render`, `RenderFails` | `compute_data` in blocks of a fixed size |
| `ApplyControls` | `apply_controls` with one disjunct for each RC code or group of codes: `LeaveTune`, `Previous`, `Restart`, `Jump`, `Forward`, `Back`, `Pause`, `Resume`, `Renew`, `SyncIfTraced`, `Refresh`, `ChangeSpeed`, `ReloadTune`, `RefuseRate`, and what they do while paused |
| `PlayTail`, `FlushTail`, `Drained`, `FlushPoll` | `midi_play_end`, with commands read by `aq_flush` |

`seek_forward`, `skip_to` and `sync_restart` are the operators `Seek`, `SkipTo`,
`SyncRestart`. `Renew` are the codes that compute the sound anew and jump, `Refresh` those that do
not set `jump_flag` (the reverberation and the spectrum): `play_event` goes on with the event it
waited for although the position went back. `SyncIfTraced` is RC_SYNC_RESTART with a value, which
jumps without a seek where the driver cannot trace. `strayed` and `lost` are history: whether
the position went back under the event that is waited for, and by how much. The sample that is
heard is any since the last flush. The volume (which is only a number) and what a mute or a voice
code does to the voices are left out; the voices are those of `Voices`.

### 2.8 EventList and RcpTrack

`evlist` is the list in order and `point` its cached position; `pending` are the
events a handler has still to add, one `AddEvent` (`readmidi_add_event`) each.
`ReadEvent`, `EndTrack`, `SetTrack`, `BreakOff` read a MIDI file, `MfiNote`,
`MfiControl`, `MfiEnd`, `MfiFail` an MFi track with the note it holds back.
`ReadSig`, `SigsRead`, `NoteStep` are `insert_note_steps`; `StartGroom`, `GroomEvent`,
`GroomDone` `groom_list`, an event of the walk a step, with the loop's room, the jump
back and `sample_cum`. An event's kind stands for all that `groom_list` treats in the
same way; a tempo is the samples of a tick in parts of `One`.

`RcpTrack` adds the track (`cmds`) and the locals of
`read_rcp_track` with its note tracer (`rcp`). The head chooses the length of the track, a
command is chosen when the reader first comes to it, so that TLC goes through every track of at
most `MaxCmds` commands. `Pass` is a turn of `ntr_incr`'s loop, `WaitOff` one of
`ntr_wait_all_off`, `Command` any command, `NoMore` and `Close` the end. `Follow` is a turn of
`next_same_measure`: a same measure refers to any place of the track, its own included, and
one that leads back to itself is followed for ever (`Circling`). A
key stands for a key and a channel. The RCP form is
modelled with one track of whole commands; `Depth`, `Limit`, `Longest` and `Skip` are the program's
constants, scaled down.

## 3. Runs

The instances are small on purpose: every hazard these runs look for takes
two or three actors (buckets, threads, voices, keys), so the instances have two
or three and bounds that let each counter wrap, each pool run empty and each
limit be hit.

| run | shows |
| --- | --- |
| `aq_queues` | the audio queue over four drivers. *silent*: every order of calls without display, two buckets of two samples, a device of four, calls of three (a call always straddles buckets, the free list empties, the device fills), and a refused write between two flushes; *display*: two waiting events, seeks, a flush interrupted by each control; *live*: one bucket and a fair device; *exact*: the driver reports its fill level |
| `aq_blocks` | *violated*: `aq_fill_nonblocking` blocks (section 5) |
| `vc_tunes` | six settings: *pedals* (one key, two layers, release samples, half damper), *modes* (two keys down up to twice on three voices, mono and poly), *single* (no overlap), *crowd* (tones against drums), *kit* (altassign groups), *sizes* (polyphony 0..3 changing by user and by `reduce_control`), *slurs* (the legato pedal without portamento messages, two keys, a count that overruns `legato_hist`), *glide* (one key of a channel that gets them) |
| `vc_legato`, `vc_orphan`, `vc_hung` | *violated* (section 5) |
| `threads` | *pool*: two workers and the main thread, a job that starts two sub-jobs, any number of blocks and restarts, symmetric in the workers; and the pipeline: *gs*, *xg*, *sd* with every effect, *dry*, *live* with the silent skip, *gseq*, *xgeq*, *onlyeq* where the tune switches an equaliser |
| `rtsyn` | a latency of four ticks, a `StreamMax` of three. *notes*: loud and quiet notes and resets, one waiting, a pass of up to three ticks, a queue of six; *sense*: notes and active sensing, two messages waiting, a pass of up to two ticks, a queue of five, which fills before the latency is over |
| `waits` | *input*: a ring of four slots, two short messages and two headers, so that the ring wraps, overflows and restarts; *control*: the two threads of the Windows synthesizer over three places for commands, with a device that may be gone; *pool*: one worker, three jobs of which two start the sub-jobs of a slot each |
| `server` | *patient* speaks the MIDI protocol and waits for each answer, three units on their way; *hasty* the sequencer protocol, two commands ahead |
| `server_eof` | *violated* (section 5) |
| `player` | five users, each with up to eight kinds of commands, four commands or failures in all at any moment, on a tune of five events (two at the start, none but the first at the bound of a block): *seeker* (jumps, pauses, changes of the reverberation), *deaf* (much the same over a driver that cannot trace), *tempo*, *reloader* (writes fail), *lister* (a play list with an unreadable file); and eight readers: *tracks* (two tracks, time signatures, beats of no length, a list of nine events that may be full), *sequel* (format 2, CC#111), *marks*, *slowing* (tempi in a loop), *mfi*, *recomposer* (every track of up to four commands with two loops deep, measures that stand for any other or themselves, overlapping notes), *nesting* (of up to five, with one kind of note), *sliding* (tempi, early and late tracks, a loop for ever, three commands) |

Deadlock is checked in every run but `player`, where the list comes to its end, the
user leaves the tune paused, or a file has been read.

The properties, by what they guard:

* `StreamKept`: the queue implements `SampleStream` under the mapping "in the
  device, then in the buckets, then in the rest of the call": no sample lost,
  repeated or overtaken, silence only from a flush, and after a refused write only
  the tail of one call missing.
* `BucketsConserved`: what the untested `head = tail = next_allocated_bucket()` relies on.
* `QueueSound`: only the last bucket is partial, which the unconditional write of
  `bucket_size` bytes relies on; the `flush_buckets` at the end of `aq_flush` drops
  nothing; no display event outlives its tune.
* `ClockAccounts`: the display cannot drift from the sound.
* `FillWaits`: with a driver that reports, `aq_fill_nonblocking` does not block
  (`FillNeverBlocks`, which fails with the estimate). `CallsReturn`: a full queue and
  a flush drain, though the waits look at an estimate.
* `NotesComeOff`: note-ons and note-offs of a key stay paired, and no voice is left where
  no note-off looks for it (`NoHungNote`, in every setting without the legato pedal). `PedalsHold`: what is neither held by a key nor a pedal is
  let go. `WithinLimits`: mono mode, channel limits, overlap and altassign groups.
  `StealOrder`, `UpperVoices`, `NewNoteSounds`: allocation
  under a full and a changing polyphony. `LegatoKeepsBase`: in a channel without portamento
  messages a legato that goes on has a base note that is a key (`LegatoHasBase`, of every
  channel, is violated).
* `GoIsBarrier`, `SubIsBarrier`, `NoOrphanSubJob`, `CallsKept`: what the renderer relies
  on between blocks and between the stages of an effect, and that blocks and
  shutdowns end.
* `InTime`: every block is heard once by each way, in order, and all its ways come out
  together; a skip is silence. `Settles`: what a switch disturbs is over when what
  was on its way is out, except for a block caught in the equaliser. `NoRace`: jobs of
  a batch touch different buffers.
* `IsQueue`, `LostByOverflow`, `OneHolder`: the ring refines `InputQueue`, loses messages
  by overflow only, and no header is with two holders. What becomes of the forgotten slots when
  a message laps the ring between look and take is part of `InputQueue`. `RunsAhead`, `DropsOnlyLate`,
  `ExpiresInSilence`, `ComesBack`: what is rendered ahead is queued for the device,
  notes are dropped and active sensing expires only with a reason, and the loop comes
  back to take messages.
* `AppliesUnheard`, `Obeys`: while preferences are applied the synthesizer plays at most the
  pass in which it saw STOP; it may close the ports, or open them for a START taken before,
  but its next message, without which it plays nothing, waits for the mutex. The last command is
  obeyed, the synthesizer runs again, and the program ends.
* `StreamSound`, `AnsweredInTurn`: however the stream is cut, what is played is the
  stream, unless a RESET is carried out inside an event: that, and nothing else, makes the
  length of the buffer negative. A client that waits for an answer gets it.
* `OnTime`, `InOrder`, `SkipObeyed`, `ResumesThere`, `TuneEnds`: the player over any
  commands. `ListInOrder`, `LoopUnwinds`, `KeepsTime`, `AsWritten`: the list it plays is
  the file, in time, with its loops as often as was asked; each is stated against a
  description of the tune that does not go through the reader's or the groomer's
  variables (`Unwound`, `Elapsed`, `Unrolled`, `Spans`).

Exceptions that a property makes are named in its comment; section 5 lists them.

Fairness. The main thread of every component is scheduled (weak fairness of its own
steps) and time passes; nothing is assumed of the user, the network, the driver's
callbacks or failures. `aq_queues`: weak fairness of the player inside a call and of
`Tick` (the device plays what it has), for *live*. `waits`: weak fairness of each
compute thread, of the synthesizer thread and of the window thread, and strong
fairness of `Rest`, `Hear` and `Destroy`, which wait for a mutex that others take again
and again or for a message that is handled between others. `rtsyn`: weak fairness of
the loop and of `Tick`. `server`, `server_eof`: weak fairness of the server. `player`:
weak fairness of the program's next step; the user's commands are bounded by
`MaxReads`. `Voices`, `RenderPipeline` and `MidiInput` have no liveness property: they
never wait.

## 4. Proofs

TLAPS checks these theorems for every value of the constants that satisfies the
module's assumption (`QueueAssumption`, `VoicesAssumption`, `GroupsAssumption`, `PoolAssumption`,
`InputAssumption`, `TimeAssumption`, `ServerAssumption`, `PlayerAssumption`, `EventAssumption`: sizes are
natural numbers, a device holds a bucket, drum channels are channels, a slot of
sub-jobs has one job, messages and headers differ, the times of a tune ascend, ...).
A theorem that needs more than that says so in its statement.

* `AudioQueue_proofs`. Five theorems on two layers of invariants.
  * `BucketsAlwaysConserved` (`BucketsConserved`). `BucketInv` adds that `nb` is in range
    and that both lists hold numbers of allocated buckets only; the bare property is
    not inductive, for a bucket taken from the list could then be no bucket. Moving
    a bucket between the lists is two lemmas about sequences (`ReuseSplit`,
    `TakeSplit`), resetting them a third (`FreeListSplit`).
  * `QueueKeepsStream` (`StreamKept`, the refinement of `SampleStream`). `Whole` is
    `BucketInv`, `Contents` (every bucket but the last is full, `bucket_size` bytes or
    fewer in each), `Phases` (what the place in a call says: nothing is left to hand
    over, the queue is empty while the device drains) and `ErrorsShow` (a refused write
    leaves a trace until the next discard, without which `StartTune` could take a queue
    with a gap for a fresh one). Every action is shown to have one of a few *effects* on
    what is pending (it keeps it, sends the head to the device as it is or padded, opens
    or extends a bucket, is refused, plays, accepts samples, or forgets all), and every effect is a step of `SampleStream` or
    a stutter; what an effect does to the concatenation of the buckets is a
    group of lemmas about a bucket appended, removed or filled.
  * `ClockNeverDrifts` (`ClockAccountsOutput`). `Clocked`: with an estimating driver and no refused write
    the counters add up to what was sent, also between the re-bases of `aq_samples`
    and `aq_filled`, which move samples from one to the other.
  * `QueueIsSound` (`QueueSound`). Its three parts are consequences of `Whole` and of
    `Traced`: the waiting display events are in order and between the offset and the
    position of the player.
  * `ReportedFillsFit` (`Reports => FillNeverBlocks`). `Roomy`: `nfills` buckets more fit
    the device, which is what `aq.h` promises; without a report it is false
    (section 5).
* `Voices_proofs`, in layers of invariants.
  * `VoicesTyped` (`TypeOK`), `UpperVoicesAlways`, `LegatoAlwaysHasBase` (`LegatoKeepsBase`). The
    inductive invariant `IInv` is the conjunction of the type, `UpperVoices`,
    `LegatoKeepsBase` and two strengthenings: `CallVoices` (the voices a running
    note-on has collected lie below `upper`, unless the polyphony is zero) and
    `LegatoKey` (a channel whose last note may become a base has a last note, and in a
    channel outside `Glides` a legato that goes on is flagged and no portamento message
    is in force, so that a note of it never takes the branch of a first note). The type is part of it because the freed part
    of the array is only found by arithmetic on `voices` and `upper`. One lemma per
    action, and lemmas for the three ways voices move (`VacateKeeps`, `GrowKeeps`,
    `DropOneKeeps`).
  * `StealOrderKept` (`StealOrder`) and `StartedNoteSounds` (`NewNoteSounds`), the action
    properties, follow from `IInv` and from what `Steals` returns (`StealsInOrder`).
  * `MonoAlwaysOne` (`MonoPlaysOne`), `GroupAlwaysOne` (`GroupPlaysOne`), `NoNoteHangs`
    (`NoHungNote`) and `PedalsAlwaysHold` (`PedalsHold`). What may go wrong is a matter of
    the notes that sound, wherever their voices lie, so the invariants speak of
    `Ringing`, the set of channel, key and number of the plain voices that are on; a step
    that moves or kills voices only makes it smaller. `Alone` (of a set of keys at most one rings,
    and none while another is about to start) is what mono mode and altassign groups have
    in common; `find_altassign` takes the least group of a key, whose existence is the
    well-foundedness of the numbers. `Paired` says, for every key with note-offs, that no
    more numbers lie between `vidq_tail` and `vidq_head` than note-ons are down, and that
    every note that rings has one of them: the bare property says nothing of a key that is
    down and is not inductive. `Pedalled` adds to `PedalsHold` that a note caught by the
    sostenuto pedal has that pedal down. Every action is one that rings no new note
    (`Stills`, `Passed`) or one of the few that the lemmas treat on their own: a note
    that starts, a note-off, a pedal, a reset. The last two theorems assume
    `~Portamento`: with `opt_portamento` and the legato pedal a voice may be on that was
    never started, and a counter may stay behind, and TLC finds both false (`vc_hung`,
    section 5).
  * `NoteHasOneInstance` (`OneInstance`) and `ChannelAlwaysBounded` (`ChannelBounded`) count
    voices. `Counted` says that no generation of a channel (the voices with one value of
    the counter that every note-on lowers) has more than `MaxLayers` voices, nor, without
    overlap, has what rings of a key, and that the youngest generation is empty while a
    note is about to start, whose list has room for the samples to come. A step that
    starts nothing gives every voice that goes on an old voice of its own (`Moved`),
    also when `voice_decrement` puts the last voice in the place of another, so that no class
    grows (`MovedFewer`); `NewNoteAges` is the shift of the generations, and `Classes`
    bounds a set by its classes.
* `ComputeThread_proofs!GoBarrierHolds` (`GoIsBarrier`), `SubBarrierHolds`
  (`SubIsBarrier`), `NoOrphanHolds` (`NoOrphanSubJob`), for any number of workers, jobs and
  sub-jobs. The barriers follow from who still has what to do, so the
  invariant accounts for every job: `Asleep` (which workers may be where, and that a
  worker counted as finished is inside no call), `StacksSound` (every call is where it
  may be, given the stage of its slot), `OneHolder` and `OneTaker` (one thread has a
  job, one a sub-job), `JobsCounted` (a job that was taken has run once or is on a
  stack) and `SlotsOwned`. A slot goes through four stages, `Fresh`, `Raised`, `Open`,
  `Closed`, and only the job that owns it takes it from one to the next, but for the
  sub-jobs that others take while it is `Open`; a stage is a record of the slot's
  variables, so that a step which leaves a slot alone keeps all that is said of it.
  `InvariantHolds` states the invariant itself.
* `RenderPipeline_proofs!JobsApart` (`NoRace`). `NoRace` speaks of buffers named by
  indices; the invariant `Indices` says that the four indices, and the two of the
  pairs, stay different, because they only ever rotate together (`Rotation`). From it
  every pair of jobs has different buffers, in every mode and whatever is switched.
  `BuffersTyped` is the type, whatever is switched.
* `RenderPipeline_proofs!BlocksInTime` (`InTime`) and `SkipsInSilence` (`SkipIsSilent`), for
  the three system modes, any channels and effects, and any number of blocks, skips and
  resets, under `Setting`: the tune switches no effect, and a silence is counted
  over more blocks than the longest way has (`CheckMax` at least 7; `CDSS_CHECK_MAX` is
  8, line 11320 of `playmidi.c`). `InTime` says what comes out and nothing of what is on its way; the
  invariant `Delayed` says of every buffer what it holds, as a function of `Played`, the
  voices that sounded so many blocks ago: `Carries`, which is the delay line that the
  rings are meant to be. One lemma per stage takes it over a block (`TurnedCarries` for
  the rotation, then `JobsCarry`, `PlainCarry`, `MixedCarry`, `MasterCarry`, together
  `BatchCarry`), and `OutputIsHeard` identifies what the last stage gives with `Heard`.
  After a reset the flags of the blocks are off although effects are on; `Delayed`
  allows that only where nothing sounded before. `Rests` says that the silence counted in
  `compute_skip_count` is never ahead of the silence in the history, which is why a skip
  leaves no sound behind. `MCThreads` checks both with the settings of the run.
* `WinThreads_proofs!RingIsQueue` (`IsQueue`, a refinement), `HeaderHasOneHolder`
  (`OneHolder`) and `OnlyOverflowLoses` (`LostByOverflow`). The invariant is the type, `OneHolder`
  and, after a lap between look and take, that no header is in two of the slots that can be read
  again (`LapOnce`). The waiting messages are
  the slots from one index to the other modulo the size: `Window` says so, and
  `StoreWindow` and `TakeWindow` what a delivery and a take do to them, the delivery
  that laps the ring included; each action is then an action of `InputQueue` or a
  stutter.
* `WinThreads_proofs!PrefsPlayNothing` (`AppliesUnheard` and `TypeCorrect` of `SynthControl`)
  and `PartPlaysNothing` (`AppliesUnheard` of `MCWaits`, which composes it with the other
  threads), for any number of places for commands. `Runs` says that a synthesizer thread that plays,
  or is about to, has the status "run", and one that took a message at rest still the status
  "stop"; `Stops` that the window thread which applies
  preferences has the mutex over a synthesizer that has no message to heed, or goes on after a QUIT.
  `Waiting`, every command between the two indices is a command, keeps the status one
  that the code knows.
* `RtSyn_proofs!AlwaysRunsAhead` (`RunsAhead`), `OnlyLateDropped` (`DropsOnlyLate`),
  `ExpiresOnlyInSilence` (`ExpiresInSilence`). What an event finds depends on how far the
  clock has run since the last pass, so the invariant bounds three distances: `Covered`
  (the last event is not ahead of what is rendered, or the base of the time is new),
  `LastAhead` (`rtsyn_play_calculate` left the last event two ticks ahead, less what has
  passed since) and `Reached` (the clock passes what is rendered by no more than a
  pass, and a tick for each that the device made the loop wait). `Playing` ties the
  event that is played to its time, `CameSince` the waiting messages to the last look.
  The latency is what `rtsyn_set_latency` lets it be, four ticks or more.
* `Tune_proofs!SkipAlwaysObeyed` (`SkipObeyed`). `AskedIsAnswered` says where the
  code of the skip is at each place between the command and the end of
  `play_midi_file`; with `tail \in Nat`, which tells the tail of the tune from the play
  time added to it, it is inductive. Most actions read no command (`QuietKeeps`).
* `Tune_proofs!EventsOnTime` (`OnTime`) and `EventsInOrder` (`InOrder`), under
  `Ordinary`: the tune has an event before ME_EOT, no jump goes behind its end,
  its tempo and rate stay, and RC_SYNC_RESTART comes with a value only where the driver can trace.
  TLC finds a counterexample to `InOrder` for each of the first three
  (section 5), so the theorems say as much as is true; the last is model-checked. What the properties
  except is stated with bounds: `Waiting` says how far the position is from the event waited for,
  counting what was thrown away under it (`lost`), and `Astray` and `NotFarBehind` what is rendered
  for it and how late the events are that the position went back over. `TInv` adds to it
  `Counters` (the ranges of the counters, and a tempo that is the file's) and `Place`,
  which says for every `pc`, by `done`, the ghost of what was played or chased, whether the player waits for an event, has played it, or
  comes from a seek. `Chased` is the lemma about `seek_forward`: what it plays at once
  are the events before the position, a cardinality that the order of the times makes
  a prefix, and `SkipFinds` the place that `skip_to` leaves the player in.
* `Tune_proofs!PauseResumes` (`ResumesThere`, an action property), under
  `KeepsPause`: who pauses does not have the tune read again, which overwrites the
  place of the pause, nor changes its tempo or rate, for `midi_restart_time` stays in the samples
  of the old tempo while the positions are rescaled. `PausePlace` says where `midi_restart_time` is through a pause.
* `Tune_proofs!ListAlwaysInOrder` (`ListInOrder`). The insertion keeps the order
  because its walk stops behind the last event that is not later; that the walk ends
  takes a head at time 0, and that the new event is the youngest of its time takes
  all ids below the count. Added to these in `ListInv` are the types of what the readers
  hold back and that the first signature is at 0, for the note steps come from there.
  The theorem is about `ReadSpec`, the readers of MIDI and MFi files; the Recomposer
  reader uses the same `AddEvent`, and is model-checked only.
* `Tune_proofs!GroomAlwaysFits` (`Fits` of `EventList`), for any tune, loops and number
  of repeats: `groom_list` asks for its memory when it begins and again where the extent of a loop becomes
  known, and then writes without a test. `Groomed` says in which of three parts the walk
  is: `Once`, until the first end behind a start (a start seen later moves the loop, and what was
  written is less than what was passed, since the head of the list leaves nothing and a start
  only the mark of the expansion); `Again(g, last)`, while the loop that ends at `last` is repeated, when no start and
  no end lies within it and there is room for `left + 1` passes (`Enough`: a pass writes at most one event,
  the mark at its end, more than it walks over); and `After`, behind its last end, with room for the
  rest (`Rest`). `MetIs` sorts what an event does to the loop into four cases (`Aside`, `StartAgain`,
  `NewStart`, `LoopEnd`), `TurnTaken` says what the rest of a turn does to the
  few fields that count, and one lemma per part and case takes the invariant over a turn.
* `MidiServer_proofs!Sound` (`StreamSound` of `MCServer`), `Joins` (`FragmentsJoin`), `Kills`
  (`ResetKills`) and `Types` (`TypeOK`), the last three for any alphabet and any number of commands
  ahead. The invariant `IInv` has two halves. In `Astray` a RESET has been carried out inside
  `do_sequencer`, or is about to be: the buffer is empty, no data comes until it is answered, and
  what is on the stack leads to the end of the event and the death of the server. `Sane`
  is the type, `Kept` (every line has an answer to come, and a RESET
  among them is the one the client waits for) and one of seven stages by the shape
  of the stack (`Waiting`, `Accepting`, `Resetting`, `Reading`, `Playing`, `Stopping`, `Failing`);
  a stage in which data can be read or parsed says `InStep`: `decoder` is what a decoder in the parser's state
  comes to over the rest of the buffer and what is on the wire. `Reads` says what a decoder
  comes to by naming the decoders on the way, so no fold is unfolded: what is needed of it
  is that it takes units at either end (`ReadsMore`, `ReadsFirst`) and that what is due first
  can be played without harm to the rest (`ReadsHeard`, an induction over the places of the
  stream, `Climbs`). A message that is whole in the buffer is what the decoder
  has due next (`ReadMessage`), and one that is not leaves it waiting.

Only model-checked, because TLAPS cannot prove them: the liveness properties
(`CallsReturn`, `CallsKept`, `ComesBack`, `Obeys`, `AnsweredInTurn`, `TuneEnds`), and what
recursive definitions compute from a file, which takes an induction over data
(`LoopUnwinds` but for `Fits`, `AsWritten`, `KeepsTime`). Not proved so far: `Settles` of `RenderPipeline`, what becomes of the blocks on their way when the tune switches an equaliser.
`InTime`, `NoRace`, `ClockAccounts`, `FillWaits` and `WithinLimits` of the MC modules are properties
of components for the settings that a run composes; the theorems above state them of the component's
module, for every setting that their statements allow. The invariants of the proofs were given to TLC first.

## 5. Disagreements with the documentation

* `aq_blocks`: `aq.h:73` says `aq_fill_nonblocking` does not block when the driver
  can trace. With a driver that does not report its fill level the estimate uses
  a `play_start_time` that only a read of the clock refreshes, so after an idle
  time the estimate is 0 while the device is full.
* `vc_orphan`: in a legato, `find_samples` has taken voices and switched them on
  when `note_on` finds that the note only continues the legato and returns; no
  note-off matches them, whereas the comments of `note_off_legato` take the base
  note's voices for the only ones.
* `vc_legato`: the comments of `note_off_legato` take the note it hands on for the legato's base;
  but a note with portamento (CC#65, or CC#84) that comes while `legato_status` is still set takes the
  branch of a first note (`playmidi.c:3995`), which sets `legato_note` to 255, and the end of the
  legato indexes `vidq_tail` with it (3985).
* `vc_hung`: `reset_controllers` ends a legato without the `last_vidq` that
  `note_off_legato` catches up with, and the key's next note hangs.
* `server_eof`: `do_sequencer` returns the 0 of `read` at the end of the data
  connection, which `doit` takes for success: the connection stays open and the loop
  goes round without pause.

Noted while modelling, without a run. Where the model excludes such a case, it says
so at the definition or in a property's comment.

Audio queue and voices: `aq_samples` can be ahead of what was played for the same
reason as `aq_blocks` (`aq.h:50`). `play_counter` is an int32 that only a clock read or a
flush resets (`aq.c:290`), and `bucket_time` stays that of the first `bucket_size` when
`aq_setup` halves it (`aq.c:134`). `--max-channel-voices=n` lets n + 1 notes sound, each
with all its layers (`timidity.c:6287`). A key of a newer altassign line cuts the
keys of all older lines (`timidity.cfg.5:348`; `playmidi.c:3704` searches on to the end of
the list). `voice_control` may cut the base note of the legato that a note-on is about to
bend (`playmidi.c:3711`). `reset_controllers` clears the pedals without `drop_sustain`
(`playmidi.c:1278`). `all_notes_off` neither releases pending release samples nor ends a
legato (`playmidi.c:4935`). `legato_hist` is uint8 and takes an int (`playmidi.c:4015`).

Threads: the barriers rely on an effect per slot and block (`thread.c:197`), and on plain
memory read in spin loops (`thread.c:181`). `thread_playmidi.c:1151` tests `opt_drum_effect`
the other way round than `playmidi.c:11765`, which does the same without threads.

Realtime front ends: the emptiness of the ring is tested in one critical section and the take made
in another (`rtsyn_winmm.c:250`), so that a take may bring back what an overflow made forget. A
START that is taken just before the preferences are applied is lost or carried out meanwhile, as
`w32g_syn_status_prev` was read before or after it (`w32g_syn.c:1580`). The ports are started before the time base and the critical
section they use are initialised (`rtsyn_winmm.c:192`). The sample arithmetic of `rtsyn_common.c:528` is int32, and the
residual delay of line 428 is dropped with the time base. Applying preferences
overwrites a STOP or QUIT that is waiting (`w32g_syn.c:1585`); closing the window
destroys it (629) without the exchange that MYWM_QUIT begins; the mutex is created after its first use is possible
(1348). While `midiInStart` fails no command is read (`winsyn_c.c:394`): with `Failing` set
to TRUE, `Obeys` does not hold.

Server: a RESET carried out inside an event leaves the event to be played after it, and then
`data_buffer_len` negative (`server_c.c:1574`), with which `memmove` is called;
lines that came together are not seen by select; a nested QUIT is answered "Bye" and
ignored; OPEN does not reset the running status, CLOSE does not stop what plays.
`frame_size` is stale after a nested PROTOCOL, and SEQ_FULLSIZE drops the buffer.

Player: `midi_play_end` does not look at the code of the play time that it adds, so a
skip in the last second of a tune is dropped (`playmidi.c:12295`). `sample_count` keeps the
tempo of the file, so that a jump after RC_SPEEDUP may run past the list; so may
RC_JUMP while paused, which unlike RC_FORWARD is not limited to `sample_count`
(`playmidi.c:10928`), and a few changes of tempo near the end, which round the position
to behind ME_EOT: `seek_forward` stops on ME_EOT, and `play_midi` steps over it. A refused
RC_CHANGE_RATE may set `midi_restart_time` to 0: an event is played twice, and the player
plays while paused. A reload while paused resumes at the start, a tune whose tempo was changed in a pause elsewhere.
A change of the reverberation or of the spectrum moves the position back without `jump_flag`
(`playmidi.c:10903`, 11096): the event that is waited for is played early, and again, and if it is ME_EOT
the tune ends there. RC_SYNC_RESTART with a value makes `play_midi` step over the event that is waited for
where the driver cannot trace (11115). RC_PREVIOUS answers
RC_RESTART within the first seconds, which `dumb_pass_playing_list` takes for "next"; "less
than a second" (`controls.h:39`) is two seconds in the code. When the first file of the
list cannot be read, RC_REALLY_PREVIOUS stays on it for ever. A jump to 0 steps over the
first event.

Event list: of two signatures within a beat one is used per beat. The tempo at a
loop's start is not restored by the jump back, which `Elapsed` follows.
`--loop-repeat` behind `--loop-filter` resets the filter to CC#111 (`timidity.c:7783`). With
CC#2 and CC#4 a later start moves the loop behind its end, and no repeats are left.
`insert_cuepoints` is never called.

Recomposer: `ntr_init` clears the tempo that line 599 of `rcp.c` has just set, so a slide
before the first change of tempo starts from 0, against the comment "sync with
current_tempo" (line 53). What is left of a step of a slide is forgotten where a step of the track
begins (line 1336 places its events from `ntr_at`), so that the events of a slide lie at 0, 2, 4, 6 in one step of six ticks
and at 0, 1, 3, 5 in six of one; `KeepsTime` says that they are as many, in order, never late, and early
by no more than that. A measure that stands for itself, at once or through others, is looked for
for ever (line 1126). Chained same measures of a G36 file keep the high byte of the
first (line 1190). A measure that stands for another is passed by when the stack is
full, which `AsWritten` excepts.

## 6. Not modelled, and what is left

Not modelled for good: signal processing (floating-point arithmetic on samples),
output drivers and codecs (system calls), file formats and archives (sequential
decoding), configuration parsing, drawing, and the vendored libraries. They are
most of the repository's lines; the models cover the control of the program,
which is in comparatively few.

Left out of the modelled parts: system exclusive messages and what they switch
(RX_NOTE_OFF of drum keys among it), the pitch of portamento, the loading of
instruments, the ALSA sequencer, PROTOCOL, TIMEBASE, PATCH and SETBUF of the server,
`m2m.c`, the G36 and G18 forms of `rcp.c`, the limit of 256 time signatures, the eight bits
of a note step, markers that end the stripped silence when `ctl->trace_playing` is on, and
the channel map of MFi files (one channel).

What could come next:

1. `ResampleCache` (`recache.c`): reference counting over a tune against an
   abstract "best benefit first" allocation. The cache is off unless asked for
   (`DEFAULT_CACHE_DATA_SIZE` is 0, line 288 of `timidity.h`), so it comes last of the parts
   that act while a tune plays.
2. `MemoryPools` (`mblock.c`, `memb.c`): the free list of blocks; what is read is
   what was pushed, after rewinds.
3. The G36 form of `rcp.c`, and several Recomposer tracks in one list.

Proofs: `Settles` of `RenderPipeline` (`Delayed` with the flags each block was rendered
with).
