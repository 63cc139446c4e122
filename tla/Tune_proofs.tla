----------------------------- MODULE Tune_proofs -----------------------------
(* A tune from the file to the player, the two components that MCTune composes. *)
(* The player: a command that skips the file is obeyed, an event is played in   *)
(* its turn and on time, and a pause is resumed where it was taken, whatever    *)
(* the tune, the list, the size of a block and the commands before it.  The     *)
(* list of readmidi_add_event: it is in order, whatever the readers add and     *)
(* when, the tracks, the notes an MFi file holds back, and the note steps; and  *)
(* the list groom_list writes from it has room for a loop wherever it is.       *)
EXTENDS PlayerControl, EventList, SequenceTheorems, FiniteSetTheorems, TLAPS

-----------------------------------------------------------------------------
(* The player.                                                                *)

\* Where the player goes once a skip is read.
AskedIsAnswered ==
    asked # "none" =>
        /\ asked \in Skips
        /\ pc \in {"open", "ended"} \/ (pc = "closed" /\ rc = asked)

\* SkipObeyed is not inductive: nothing in it says that asked is still "none" in
\* the places where a command may be read.
IInv ==
    /\ tail \in Nat
    /\ AskedIsAnswered

\* The steps that read no command leave asked alone and keep to the way out.
Quiet ==
    /\ asked' = asked
    /\ \/ pc \notin {"open", "ended", "closed"}
       \/ pc = "closed" /\ pc' \in {"open", "ended"}
       \/ pc = "open" /\ pc' \in {"open", "ended"}
       \/ pc' = pc /\ rc' = rc

LEMMA QuietKeeps ==
    ASSUME AskedIsAnswered, Quiet
    PROVE  AskedIsAnswered'
BY DEF AskedIsAnswered, Quiet

\* The list is left for its next file, or ended.
LEMMA PassListLeaves ==
    ASSUME NEW code, PassList(code)
    PROVE  pc' \in {"open", "ended"}
BY DEF PassList

LEMMA InitIInv == Init => IInv
BY DEF Init, IInv, AskedIsAnswered

\* A skip read in the tune or in its tail is handed on, unless midi_play_end does
\* not look at it.
LEMMA LeaveTuneKeeps ==
    ASSUME IInv, NEW command \in Commands, LeaveTune(command)
    PROVE  IInv'
<1>1. pc = "controls" /\ command \in Skips /\ tail' = tail
  BY DEF LeaveTune, Control, ReturnRc
<1>2. asked = "none"
  BY <1>1 DEF IInv, AskedIsAnswered
<1>3. CASE AddPlay /\ tail = 2
  <2>1. asked' = asked
    BY <1>3 DEF LeaveTune
  <2> QED BY <1>1, <1>2, <2>1 DEF IInv, AskedIsAnswered
<1>4. CASE ~(AddPlay /\ tail = 2)
  <2>1. HandedOn(command)
    BY <1>1, <1>4 DEF HandedOn, Skips, IInv
  <2>2. asked' = command
    BY <1>4 DEF LeaveTune
  <2>3. pc' = "closed" /\ rc' = command
    BY <2>1 DEF LeaveTune, ReturnRc
  <2> QED BY <1>1, <2>2, <2>3 DEF IInv, AskedIsAnswered
<1> QED BY <1>3, <1>4

\* The other commands of apply_controls are read where asked is "none".
LEMMA ControlsKeep ==
    ASSUME IInv, ApplyControls,
           ~ \E command \in Commands : LeaveTune(command)
    PROVE  IInv'
<1>1. pc = "controls" /\ asked' = asked /\ tail' = tail
  BY DEF ApplyControls, Previous, PausedRestart, PausedJump, PausedForward,
         PausedBack, MovePause, Restart, Jump, Forward, Back, GoTo, Pause, Resume,
         Renew, SyncIfTraced, Refresh, ChangeSpeed, ReloadTune, RefuseRate,
         NoControl, Control, Continue, ReturnRc, ghosts
<1>2. asked = "none"
  BY <1>1 DEF IInv, AskedIsAnswered
<1> QED BY <1>1, <1>2 DEF IInv, AskedIsAnswered

LEMMA NextKeeps ==
    ASSUME IInv, [Next]_vars
    PROVE  IInv'
<1>1. ASSUME NEW command \in Commands, SkipFile(command)
      PROVE  IInv'
  <2>1. pc = "open" /\ pc' \in {"open", "ended"} /\ asked' = asked /\ tail' = tail
    BY <1>1, PassListLeaves DEF SkipFile, ghosts
  <2> QED BY <2>1, QuietKeeps DEF IInv, Quiet
<1>2. ASSUME NEW command \in Commands, FlushPoll(command)
      PROVE  IInv'
  <2>1. pc \in {"start", "drain"} /\ tail' = tail
    BY <1>2 DEF FlushPoll
  <2>2. asked = "none"
    BY <2>1 DEF IInv, AskedIsAnswered
  <2>3. \/ pc' = "closed" /\ asked' = command /\ rc' = command /\ command \in Skips
        \/ asked' = asked
    BY <1>2 DEF FlushPoll
  <2> QED BY <2>1, <2>2, <2>3 DEF IInv, AskedIsAnswered
<1>3. CASE PlayMidiFile
  BY <1>3 DEF PlayMidiFile, IInv, AskedIsAnswered
<1>4. CASE LoadFile
  <2>1. pc = "load" /\ tail' = 0
    BY <1>4 DEF LoadFile
  <2>2. asked = "none"
    BY <2>1 DEF IInv, AskedIsAnswered
  <2>3. \/ pc' = "closed" /\ asked' = rc' /\ rc' \in Skips
        \/ asked' = asked
    BY <1>4 DEF LoadFile
  <2> QED BY <2>1, <2>2, <2>3 DEF IInv, AskedIsAnswered
<1>5. CASE PlayMidi \/ PlayEvent \/ Render \/ RenderFails \/ Apply \/ NextEvent
            \/ PlayTail \/ FlushTail \/ Drained
  <2>1. pc \notin {"open", "ended", "closed"} /\ asked' = asked
    BY <1>5 DEF PlayMidi, PlayEvent, Render, RenderFails, Apply, NextEvent,
                PlayTail, FlushTail, Drained, ghosts
  <2>2. tail' \in Nat
    BY <1>5 DEF PlayMidi, PlayEvent, Render, RenderFails, Apply, NextEvent,
                PlayTail, FlushTail, Drained, IInv
  <2> QED BY <2>1, <2>2, QuietKeeps DEF IInv, Quiet
<1>6. CASE Closed
  <2>1. pc = "closed" /\ pc' \in {"open", "ended"} /\ asked' = asked /\ tail' = tail
    BY <1>6, PassListLeaves DEF Closed, ghosts
  <2> QED BY <2>1, QuietKeeps DEF IInv, Quiet
<1>7. CASE Reload
  <2>1. pc = "closed" /\ rc = "reload" /\ asked' = asked /\ tail' = tail
    BY <1>7 DEF Reload, ghosts
  <2>2. asked = "none"
    BY <2>1 DEF IInv, AskedIsAnswered, Skips
  <2> QED BY <2>1, <2>2 DEF IInv, AskedIsAnswered
<1>8. CASE ApplyControls
  <2>1. CASE \E command \in Commands : LeaveTune(command)
    BY <2>1, LeaveTuneKeeps
  <2>2. CASE ~ \E command \in Commands : LeaveTune(command)
    BY <1>8, <2>2, ControlsKeep
  <2> QED BY <2>1, <2>2
<1>9. CASE UNCHANGED vars
  BY <1>9 DEF vars, IInv, AskedIsAnswered
<1>10. CASE \E command \in Commands : SkipFile(command) \/ FlushPoll(command)
  <2>1. PICK command \in Commands : SkipFile(command) \/ FlushPoll(command)
    BY <1>10
  <2> QED BY <2>1, <1>1, <1>2
<1> QED
  BY <1>3, <1>4, <1>5, <1>6, <1>7, <1>8, <1>9, <1>10 DEF Next

\* A skip is what becomes of the file (play_midi, compute_data, midi_play_end):
\* for every tune, list, block size and sequence of commands, the code that
\* play_midi_file ends with is the one that was asked for, but for a skip read in
\* the added play time.
THEOREM SkipAlwaysObeyed == Spec => []SkipObeyed
<1>1. IInv => SkipObeyed
  BY DEF IInv, AskedIsAnswered, SkipObeyed
<1> QED BY InitIInv, NextKeeps, <1>1, PTL DEF Spec

-----------------------------------------------------------------------------
(* Where the tune stands.                                                  *)

\* The sizes and the list.
LEMMA TuneFacts ==
    /\ EOT \in Nat \ {0} /\ Events = 1..EOT /\ SampleCount \in Nat
    /\ \A k \in Events : Times[k] \in Nat /\ Times[k] <= SampleCount
    /\ \A j, k \in Events : j <= k => Times[j] <= Times[k]
<1>1. /\ EOT \in Nat \ {0} /\ Events = 1..EOT /\ DOMAIN Times = Events
      /\ EOT \in Events
  BY PlayerAssumption DEF EOT, Events
<1>2. \A k \in Events : Times[k] \in Nat
  BY PlayerAssumption DEF Events
<1>3. \A j, k \in Events : j <= k => Times[j] <= Times[k]
  BY <1>1, PlayerAssumption
<1>4. \A k \in Events : k <= EOT
  BY <1>1
<1> QED BY <1>1, <1>2, <1>3, <1>4 DEF SampleCount

\* In the tempo of the file an event is due at the time it was read with.
LEMMA TempoOfFile ==
    ASSUME scale = 2
    PROVE  \A k \in Events : Time(k) = Times[k]
<1> SUFFICES ASSUME NEW k \in Events PROVE Time(k) = Times[k]
  OBVIOUS
<1>1. Times[k] \in Nat
  BY TuneFacts
<1>2. Time(k) = (Times[k] * 2 + 1) \div 2
  BY DEF Time
<1> QED BY <1>1, <1>2

\* seek_forward stops before n + 1, the first event that is due at t or later.
LEMMA Chased ==
    ASSUME NEW t \in Nat, scale = 2
    PROVE  \E n \in 0..EOT :
              /\ n = Cardinality({k \in Events : Time(k) < t})
              /\ n > 0 => Times[n] < t
              /\ n < EOT => t <= Times[n + 1]
<1> DEFINE S == {k \in Events : Time(k) < t}
           n == Cardinality(S)
<1>1. /\ EOT \in Nat /\ S \subseteq 1..EOT
      /\ \A k \in 1..EOT : k \in S <=> Times[k] < t
      /\ \A j, k \in 1..EOT : j <= k => Times[j] <= Times[k]
      /\ \A k \in 1..EOT : Times[k] \in Nat
  BY TuneFacts, TempoOfFile
<1> HIDE DEF S
<1>2. \A m \in Nat : IsFiniteSet(1..m) /\ Cardinality(1..m) = m
  <2> SUFFICES ASSUME NEW m \in Nat
               PROVE  IsFiniteSet(1..m) /\ Cardinality(1..m) = m
    OBVIOUS
  <2>1. /\ IsFiniteSet(1..m)
        /\ Cardinality(1..m) = IF 1 > m THEN 0 ELSE m - 1 + 1
    <3>1. 1 \in Int /\ m \in Int
      OBVIOUS
    <3> QED BY <3>1, FS_Interval
  <2> QED BY <2>1
<1>3. IsFiniteSet(S) /\ n \in Nat /\ n <= EOT
  <2>1. IsFiniteSet(1..EOT) /\ Cardinality(1..EOT) = EOT
    BY <1>1, <1>2
  <2>2. IsFiniteSet(S) /\ Cardinality(S) <= Cardinality(1..EOT)
    BY <1>1, <2>1, FS_Subset
  <2> QED BY <2>1, <2>2, FS_CardinalityType
<1>4. \A T \in SUBSET S : Cardinality(T) <= n
  BY <1>3, FS_Subset
<1>5. ASSUME NEW m \in Nat, S \subseteq 1..m PROVE n <= m
  <2>1. IsFiniteSet(1..m) /\ Cardinality(1..m) = m
    BY <1>2
  <2>2. Cardinality(S) <= Cardinality(1..m)
    BY <1>5, <2>1, FS_Subset
  <2> QED BY <2>1, <2>2
<1> HIDE DEF n
<1>6. n > 0 => Times[n] < t
  <2> SUFFICES ASSUME n > 0, ~(Times[n] < t) PROVE FALSE
    OBVIOUS
  <2>1. n \in 1..EOT /\ n - 1 \in Nat
    BY <1>1, <1>3
  <2>2. S \subseteq 1..(n - 1)
    <3> SUFFICES ASSUME NEW k \in S, ~(k \in 1..(n - 1)) PROVE FALSE
      OBVIOUS
    <3>1. k \in 1..EOT /\ n <= k /\ Times[k] < t
      BY <1>1, <2>1
    <3>2. Times[n] <= Times[k] /\ Times[n] \in Nat /\ Times[k] \in Nat
      BY <1>1, <2>1, <3>1
    <3> QED BY <3>1, <3>2
  <2>3. n <= n - 1
    BY <1>5, <2>1, <2>2
  <2> QED BY <2>1, <2>3
<1>7. n < EOT => t <= Times[n + 1]
  <2> SUFFICES ASSUME n < EOT, ~(t <= Times[n + 1]) PROVE FALSE
    OBVIOUS
  <2>1. n + 1 \in 1..EOT /\ n + 1 \in Nat
    BY <1>1, <1>3
  <2>2. Times[n + 1] < t
    BY <1>1, <2>1
  <2>3. 1..(n + 1) \subseteq S
    <3> SUFFICES ASSUME NEW k \in 1..(n + 1) PROVE k \in S
      OBVIOUS
    <3>1. k \in 1..EOT /\ k <= n + 1
      BY <1>1, <1>3, <2>1
    <3>2. Times[k] <= Times[n + 1] /\ Times[k] \in Nat /\ Times[n + 1] \in Nat
      BY <1>1, <2>1, <3>1
    <3> QED BY <1>1, <2>2, <3>1, <3>2
  <2>4. Cardinality(1..(n + 1)) = n + 1 /\ Cardinality(1..(n + 1)) <= n
    BY <1>2, <1>4, <2>1, <2>3
  <2> QED BY <1>3, <2>4
<1>8. n \in 0..EOT
  BY <1>1, <1>3
<1>9. n = Cardinality({k \in Events : Time(k) < t})
  BY DEF n, S
<1> QED BY <1>6, <1>7, <1>8, <1>9

\* The tune has an event before its end, is asked for no position behind its end,
\* keeps its tempo and its rate, and is not asked for a trace the driver has not.
\* The theorems on the order of the events need all of it: each part left out has a
\* behaviour in which current_event leaves the list or an event is played twice.
Ordinary ==
    /\ EOT > 1
    /\ \A t \in Spots : t <= SampleCount
    /\ Commands \cap {"faster", "slower", "badrate"} = {}
    /\ Traced \/ "trysync" \notin Commands

Counters ==
    /\ scale = 2
    /\ sample \in Nat /\ out \in Nat /\ offset \in Nat /\ restart \in Nat
    /\ buffered \in 0..(Block - 1) /\ count \in Nat /\ tail \in Nat
    /\ ev \in Events /\ at \in Events /\ done \in 0..EOT
    /\ strayed \in {"no", "early", "late"} /\ lost \in Int

\* current_event is one before the event to go on with.
Before == done < EOT /\ ev = (IF done = 0 THEN 1 ELSE done)

\* As skip_to leaves it.
Sought ==
    /\ Before
    /\ sample = offset /\ out = 0 /\ sample <= Times[done + 1]
    /\ done > 0 => Times[done] < sample

\* The event to play is the next one, or the first is stepped over.
NextUp == ev = done + 1 \/ (done = 0 /\ ev = 2)

\* How far the position may be behind an event.
NotFarBehind(k) ==
    IF strayed = "late" THEN sample <= Times[k] + count ELSE sample < Times[k] + Block

ToPlay ==
    \/ NextUp /\ NotFarBehind(ev)
    \/ ev = done /\ Sought /\ strayed = "no"

\* Samples are missing up to the time of the event.  When the position went back
\* under it they are still as many as before.
Waiting ==
    /\ buffered = 0 /\ lost \in Nat /\ sample + lost < Times[at]
    /\ Times[at] <= sample + lost + count /\ sample + lost + count < Times[at] + Block
    /\ \/ strayed = "no" /\ lost = 0 /\ at = ev /\ NextUp
       \/ strayed = "early" /\ Sought

\* The samples are rendered for an event under which the position went back.
Astray ==
    /\ strayed = "early" /\ Before /\ sample <= Times[done + 1] + count
    /\ sample + lost < Times[at] + Block /\ Times[at] < sample + lost + Block
    /\ ev <= at

\* The event is played; midi_restart_time lets play_midi step on.
JustPlayed == Before /\ restart # 0 /\ NotFarBehind(done + 1)

\* Where the tune stands while play_event waits for samples and the user gives
\* commands.
Held ==
    /\ sample <= SampleCount /\ done < EOT
    /\ paused => restart <= SampleCount
    /\ strayed # "late"
    /\ ~jumped => Waiting
    /\ ~jumped /\ ~paused => restart # 0
    /\ jumped /\ ~paused => Sought

InTune == pc \in {"event", "controls", "render", "apply", "next"} /\ tail = 0

Place ==
    /\ pc \in {"start", "event", "apply", "next"} => tail = 0
    /\ pc = "tail" => tail > 0
    /\ InTune => offset + out <= sample /\ (paused => out = 0)
    /\ pc = "event" => ToPlay /\ strayed # "early" /\ lost = 0
    /\ pc = "controls" /\ tail = 0 => Held
    /\ pc = "render" /\ tail = 0 => Waiting /\ restart # 0 /\ ~paused
    /\ pc = "apply" =>
          /\ restart # 0
          /\ \/ Astray
             \/ /\ strayed # "early" /\ lost = 0 /\ at = ev /\ ToPlay
                /\ IF strayed = "late" THEN Times[ev] <= sample
                                       ELSE Times[ev] < sample + Block
    /\ pc = "next" =>
          \/ JustPlayed /\ strayed # "early" /\ lost = 0
          \/ Sought /\ strayed # "late"
    /\ pc \in {"load", "start"} \/ (pc = "closed" /\ rc = "reload")
          => restart <= SampleCount

TInv == Ordinary /\ Counters /\ Place

-----------------------------------------------------------------------------
(* Its lemmas.                                                             *)

\* A position that is heard was computed.
LEMMA HeardIs ==
    ASSUME Counters, NEW cur \in Heard
    PROVE  cur \in Nat /\ (offset + out <= sample => cur <= sample)
<1>1. CASE Traced
  BY <1>1 DEF Heard, Counters
<1>2. CASE ~Traced
  BY <1>2 DEF Heard, Counters
<1> QED BY <1>1, <1>2

\* skip_to
LEMMA SkipFinds ==
    ASSUME Counters, NEW t \in Nat, SkipTo(t)
    PROVE  /\ ev' \in Events /\ sample' \in Nat /\ done' \in 0..EOT /\ offset' = t
           /\ buffered' \in 0..(Block - 1)
           /\ t <= SampleCount /\ out' = 0 => Sought' /\ sample' = t /\ buffered' = 0
<1>1. PICK n \in 0..EOT :
         /\ n = Cardinality({k \in Events : Time(k) < t})
         /\ n > 0 => Times[n] < t
         /\ n < EOT => t <= Times[n + 1]
  BY Chased DEF Counters
<1>2. /\ EOT \in Nat \ {0} /\ Events = 1..EOT /\ SampleCount \in Nat
      /\ 0 \in 0..(Block - 1) /\ SampleCount = Times[EOT]
  BY TuneFacts, PlayerAssumption DEF SampleCount
<1>3. Seek(t) = IF n = EOT
                THEN [ev |-> EOT, sample |-> SampleCount, done |-> EOT - 1]
                ELSE [ev |-> IF n = 0 THEN 1 ELSE n, sample |-> t, done |-> n]
  BY <1>1 DEF Seek
<1>4. /\ ev' = Seek(t).ev /\ sample' = Seek(t).sample /\ done' = Seek(t).done
      /\ buffered' = 0 /\ offset' = t
  BY DEF SkipTo
<1>5. CASE n = EOT
  <2>1. ev' = EOT /\ sample' = SampleCount /\ done' = EOT - 1
    BY <1>3, <1>4, <1>5
  <2>2. ~(t <= SampleCount)
    BY <1>1, <1>2, <1>5
  <2> QED BY <1>2, <1>4, <2>1, <2>2
<1>6. CASE n # EOT
  <2>1. ev' = (IF n = 0 THEN 1 ELSE n) /\ sample' = t /\ done' = n
    BY <1>3, <1>4, <1>6
  <2>2. n < EOT
    BY <1>2, <1>6
  <2>3. ev' \in Events /\ done' \in 0..EOT
    BY <1>2, <2>1, <2>2
  <2>4. out' = 0 => Sought'
    BY <1>1, <1>4, <2>1, <2>2 DEF Sought, Before
  <2> QED BY <1>2, <1>4, <2>1, <2>3, <2>4
<1> QED BY <1>5, <1>6

LEMMA CommandsKnown ==
    ASSUME Ordinary
    PROVE  ~ChangeSpeed /\ ~RefuseRate
BY DEF Ordinary, ChangeSpeed, RefuseRate, Control, Reads

\* Outside a tune nothing is asked of the position.
LEMMA OutsideTune ==
    ASSUME pc' \in {"open", "closed", "ended", "drain"}, ~(pc' = "closed" /\ rc' = "reload")
    PROVE  Place'
BY DEF Place, InTune

LEMMA CountersStay ==
    ASSUME Counters, scale' = 2,
           UNCHANGED <<ev, sample, buffered, offset, done, at, count, strayed, lost>>,
           out' \in Nat, restart' \in Nat, tail' \in Nat
    PROVE  Counters'
BY DEF Counters

-----------------------------------------------------------------------------
(* The steps of the list and of the tune.                                  *)

LEMMA ListSteps ==
    ASSUME TInv,
           \/ \E command \in Commands : SkipFile(command) \/ FlushPoll(command)
           \/ PlayMidiFile \/ LoadFile \/ Closed \/ Reload
    PROVE  Counters' /\ Place'
<1>0. /\ Counters /\ scale = 2 /\ out \in Nat /\ restart \in Nat /\ tail \in Nat
      /\ SampleCount \in Nat
  BY TuneFacts DEF TInv, Counters
<1> USE DEF position, mode, ghosts, stray, list
<1>1. ASSUME NEW command \in Commands, SkipFile(command) PROVE Counters' /\ Place'
  <2>1. pc' \in {"open", "ended"}
    BY <1>1, PassListLeaves DEF SkipFile
  <2>2. out' \in Nat
    BY <1>0, <1>1 DEF SkipFile, CheckApply
  <2>3. Counters'
    BY <1>0, <1>1, <2>2, CountersStay DEF SkipFile
  <2> QED BY <2>1, <2>3, OutsideTune
<1>2. ASSUME NEW command \in Commands, FlushPoll(command) PROVE Counters' /\ Place'
  <2>1. out' \in Nat /\ restart' \in {0, restart}
    BY <1>0, <1>2 DEF FlushPoll, CheckApply, RestartAfter
  <2>2. Counters'
    BY <1>0, <1>2, <2>1, CountersStay DEF FlushPoll
  <2>3. CASE pc' = pc
    <3>1. pc \in {"start", "drain"}
      BY <1>2 DEF FlushPoll
    <3>2. pc = "start" => restart <= SampleCount /\ tail = 0
      BY DEF TInv, Place
    <3>3. tail' = tail
      BY <1>2 DEF FlushPoll
    <3>4. pc = "start" => restart' <= SampleCount
      BY <1>0, <2>1, <3>2
    <3> QED BY <2>2, <2>3, <3>1, <3>2, <3>3, <3>4 DEF Place, InTune
  <2>4. CASE pc' # pc
    <3>1. pc' = "closed" /\ rc' # "reload"
      BY <1>2, <2>4 DEF FlushPoll, Skips
    <3> QED BY <2>2, <3>1, OutsideTune
  <2> QED BY <2>3, <2>4
<1>3. CASE PlayMidiFile
  <2>1. out' \in Nat
    BY <1>0, <1>3 DEF PlayMidiFile, CheckApply, NoCommand
  <2>2. Counters'
    BY <1>0, <1>3, <2>1, CountersStay DEF PlayMidiFile
  <2>3. pc' = "load" /\ restart' = 0
    BY <1>3 DEF PlayMidiFile
  <2> QED BY <1>0, <2>2, <2>3 DEF Place, InTune
<1>4. CASE LoadFile
  <2>1. out' \in Nat /\ restart' \in {0, restart}
    BY <1>0, <1>4 DEF LoadFile, CheckApply, NoCommand, RestartAfter
  <2>2. Counters'
    BY <1>0, <1>4, <2>1, CountersStay DEF LoadFile
  <2>3. restart' <= SampleCount
    <3>1. restart <= SampleCount
      BY <1>4 DEF TInv, Place, LoadFile
    <3> QED BY <1>0, <2>1, <3>1
  <2>4. pc' \in {"closed", "start"} /\ tail' = 0
    BY <1>4 DEF LoadFile
  <2> QED BY <2>2, <2>3, <2>4 DEF Place, InTune
<1>5. CASE Closed
  <2>1. pc' \in {"open", "ended"}
    BY <1>5, PassListLeaves DEF Closed
  <2>2. Counters'
    BY <1>0, <1>5, CountersStay DEF Closed
  <2> QED BY <2>1, <2>2, OutsideTune
<1>6. CASE Reload
  <2>1. Counters'
    BY <1>0, <1>6, CountersStay DEF Reload
  <2>2. restart' <= SampleCount /\ pc' = "load"
    BY <1>6 DEF TInv, Place, Reload
  <2> QED BY <2>1, <2>2 DEF Place, InTune
<1> QED BY <1>1, <1>2, <1>3, <1>4, <1>5, <1>6

LEMMA StartStep == TInv /\ PlayMidi => Counters' /\ Place'
<1> SUFFICES ASSUME TInv, PlayMidi PROVE Counters' /\ Place'
  OBVIOUS
<1>0. Counters /\ restart \in Nat /\ restart <= SampleCount
  BY DEF TInv, Counters, Place, PlayMidi
<1>1. /\ SkipTo(restart) /\ out' = 0 /\ pc' = "event"
      /\ strayed' = "no" /\ lost' = 0
      /\ UNCHANGED <<at, count, tail, restart, scale>>
  BY DEF PlayMidi, Discard, mode
<1>2. /\ ev' \in Events /\ sample' \in Nat /\ done' \in 0..EOT /\ offset' = restart
      /\ buffered' \in 0..(Block - 1) /\ Sought'
  BY <1>0, <1>1, SkipFinds
<1>3. Counters'
  BY <1>0, <1>1, <1>2 DEF Counters
<1>4. ToPlay'
  <2>1. CASE done' = 0
    <3>1. ev' = 1 /\ sample' <= Times[1]
      BY <1>2, <2>1 DEF Sought, Before
    <3>2. Times[1] \in Nat
      BY TuneFacts
    <3>3. sample' < Times[1] + Block
      <4>1. sample' \in Nat /\ Block \in Nat \ {0}
        BY <1>2, PlayerAssumption
      <4> QED BY <3>1, <3>2, <4>1
    <3> QED BY <1>1, <2>1, <3>1, <3>3 DEF ToPlay, NextUp, NotFarBehind
  <2>2. CASE done' # 0
    BY <1>1, <1>2, <2>2 DEF ToPlay, Sought, Before
  <2> QED BY <2>1, <2>2
<1>5. tail' = 0 => offset' + out' <= sample'
  BY <1>1, <1>2 DEF Sought
\* A file is loaded before it is played: no call of midi_play_end is left over.
<1>6. tail' = 0
  BY <1>1 DEF TInv, Place, PlayMidi
<1> QED BY <1>1, <1>3, <1>4, <1>5, <1>6 DEF Place, InTune

\* Whole blocks are rendered, the rest waits in the buffer.
LEMMA Blocks ==
    ASSUME NEW n \in Nat, NEW b \in Nat \ {0}
    PROVE  /\ b * (n \div b) \in Nat /\ n % b \in 0..(b - 1)
           /\ b * (n \div b) <= n /\ n < b * (n \div b) + b
<1>1. n \div b \in Nat
  OBVIOUS
<1>2. b * (n \div b) <= n
  OBVIOUS
<1>3. n < b * (n \div b) + b
  OBVIOUS
<1>4. n % b \in 0..(b - 1)
  OBVIOUS
<1> QED BY <1>1, <1>2, <1>3, <1>4

LEMMA EventStep == TInv /\ PlayEvent => Counters' /\ Place'
<1> SUFFICES ASSUME TInv, PlayEvent PROVE Counters' /\ Place'
  OBVIOUS
<1>0. /\ Counters /\ tail = 0 /\ ToPlay /\ ev \in Events
      /\ strayed \in {"no", "late"} /\ lost = 0
      /\ offset + out <= sample /\ (paused => out = 0)
      /\ sample \in Nat /\ buffered \in Nat /\ buffered < Block
      /\ SampleCount \in Nat /\ Block \in Nat
      /\ Time(ev) = Times[ev] /\ Times[ev] \in Nat /\ Times[ev] <= SampleCount
  BY TuneFacts, TempoOfFile, PlayerAssumption
     DEF TInv, Counters, Place, PlayEvent, InTune
<1>1. /\ at' = ev /\ restart' = 1
      /\ UNCHANGED <<ev, sample, offset, done, tail, paused, scale, out>>
  BY DEF PlayEvent
<1>2. CASE Times[ev] > sample
  <2>1. /\ count' = Times[ev] - sample + buffered /\ buffered' = 0 /\ jumped' = FALSE
        /\ pc' = "controls" /\ strayed' = "no" /\ lost' = 0
    BY <1>0, <1>2 DEF PlayEvent
  <2>2. NextUp /\ done < EOT
    <3>1. NextUp
      BY <1>0, <1>2 DEF ToPlay, Sought, Before, Counters
    <3> QED BY <3>1, TuneFacts DEF NextUp, TInv, Counters, Ordinary
  <2>3. Counters'
    BY <1>0, <1>1, <1>2, <2>1 DEF Counters
  <2>4. Waiting'
    BY <1>0, <1>1, <1>2, <2>1, <2>2 DEF Waiting, NextUp
  <2>5. Held'
    BY <1>0, <1>1, <1>2, <2>1, <2>2, <2>4 DEF Held, SampleCount
  <2> QED BY <1>0, <1>1, <2>1, <2>3, <2>5 DEF Place, InTune
<1>3. CASE ~(Times[ev] > sample)
  <2>1. pc' = "apply" /\ UNCHANGED <<count, buffered, jumped, strayed, lost>>
    BY <1>0, <1>3 DEF PlayEvent, stray
  <2>2. Counters'
    BY <1>0, <1>1, <2>1 DEF Counters
  <2>3. ToPlay'
    BY <1>0, <1>1, <2>1 DEF ToPlay, NextUp, NotFarBehind, Sought, Before
  <2>4. Times[ev] <= sample /\ Times[ev] < sample + Block
    BY <1>0, <1>3, PlayerAssumption
  <2> QED BY <1>0, <1>1, <2>1, <2>2, <2>3, <2>4 DEF Place, InTune
<1> QED BY <1>2, <1>3

LEMMA RenderStep == TInv /\ Render => Counters' /\ Place'
<1> SUFFICES ASSUME TInv, Render PROVE Counters' /\ Place'
  OBVIOUS
<1> DEFINE q == Block * (count \div Block)
<1>0. Counters /\ count \in Nat /\ Block \in Nat \ {0} /\ sample \in Nat /\ out \in Nat
  BY PlayerAssumption DEF TInv, Counters
<1>1. q \in Nat /\ q <= count /\ count < q + Block /\ count % Block \in 0..(Block - 1)
  BY <1>0, Blocks
<1>2. /\ sample' = sample + q /\ out' = out + q /\ buffered' = count % Block
      /\ UNCHANGED <<ev, offset, done, at, count, restart, paused, jumped, scale,
                     strayed, lost>>
      /\ \/ tail = 0 /\ pc' = "apply" /\ tail' = tail
         \/ tail = 0 /\ tail' = 1 /\ pc' = "tail"
         \/ tail > 0 /\ pc' = "tail" /\ tail' = tail
  BY DEF Render, mode, ghosts, stray
<1> HIDE DEF q
<1>3. Counters'
  BY <1>0, <1>1, <1>2 DEF Counters
<1>4. CASE pc' = "tail"
  BY <1>0, <1>2, <1>3, <1>4 DEF Place, InTune
<1>5. CASE pc' = "apply"
  <2>1. /\ tail = 0 /\ tail' = 0 /\ Waiting /\ restart # 0 /\ ~paused
        /\ offset + out <= sample /\ offset \in Nat
    BY <1>2, <1>5 DEF TInv, Place, Render, InTune, Counters
  <2>2. Times[ev] \in Nat /\ Times[at] \in Nat /\ lost \in Int
    BY <1>0, TuneFacts DEF Counters
  <2>3. /\ sample' + lost < Times[at] + Block /\ Times[at] < sample' + lost + Block
        /\ lost \in Nat
    BY <1>0, <1>1, <1>2, <2>1, <2>2 DEF Waiting
  <2>4. offset' + out' <= sample'
    BY <1>0, <1>1, <1>2, <2>1
  <2>5. CASE strayed = "no" /\ lost = 0 /\ at = ev /\ NextUp
    <3>1. sample' < Times[ev] + Block /\ Times[ev] < sample' + Block
      BY <1>0, <1>1, <1>2, <2>2, <2>3, <2>5
    <3>2. at' = ev' /\ ToPlay'
      BY <1>2, <2>5, <3>1 DEF ToPlay, NextUp, NotFarBehind
    <3> QED BY <1>2, <1>3, <1>5, <2>1, <2>4, <2>5, <3>1, <3>2 DEF Place, InTune
  <2>6. CASE strayed = "early" /\ Sought
    <3>1. Before /\ done \in Nat /\ EOT \in Nat /\ Events = 1..EOT /\ at \in Events
      BY <1>0, <2>6, TuneFacts DEF Sought, Counters
    <3>2. done + 1 \in Events /\ Times[done + 1] \in Nat /\ sample <= Times[done + 1]
      BY <2>6, <3>1, TuneFacts DEF Sought, Before
    <3>3. sample' <= Times[done + 1] + count
      BY <1>0, <1>1, <1>2, <3>2
    <3>4. ev <= at
      <4>1. CASE done = 0
        BY <3>1, <4>1 DEF Before
      <4>2. CASE done # 0
        <5>1. ev = done /\ done \in Events /\ Times[done] \in Nat /\ Times[done] < sample
          BY <2>6, <3>1, <4>2, TuneFacts DEF Sought, Before
        <5>2. Times[done] < Times[at]
          BY <1>0, <2>1, <2>2, <2>3, <5>1 DEF Waiting
        <5>3. ~(at <= done)
          BY <2>2, <3>1, <5>1, <5>2, TuneFacts
        <5> QED BY <3>1, <5>1, <5>3
      <4> QED BY <4>1, <4>2
    <3>5. Astray'
      BY <1>2, <2>3, <2>6, <3>1, <3>3, <3>4 DEF Astray, Before
    <3> QED BY <1>2, <1>3, <1>5, <2>1, <2>4, <3>5 DEF Place, InTune
  <2> QED BY <2>1, <2>5, <2>6 DEF Waiting
<1> QED BY <1>2, <1>4, <1>5

LEMMA FailStep == TInv /\ RenderFails => Counters' /\ Place'
<1> SUFFICES ASSUME TInv, RenderFails PROVE Counters' /\ Place'
  OBVIOUS
<1>1. Counters'
  BY PlayerAssumption DEF TInv, Counters, RenderFails, mode, ghosts, stray
<1>2. CASE tail = 0
  <2>1. HandedOn("error")
    BY <1>2 DEF HandedOn
  <2>2. pc' = "closed" /\ rc' = "error"
    BY <2>1 DEF RenderFails
  <2> QED BY <1>1, <2>2, OutsideTune
<1>3. CASE tail # 0
  <2>1. tail' = tail /\ (pc' = "tail" \/ (pc' = "closed" /\ rc' = "error"))
    BY DEF RenderFails
  <2>2. tail > 0
    BY <1>3 DEF TInv, Counters
  <2> QED BY <1>1, <1>3, <2>1, <2>2 DEF Place, InTune
<1> QED BY <1>2, <1>3

\* The bound on what the position may be behind holds for the next event too.
LEMMA NotFarBehindNext ==
    ASSUME Counters, NEW k \in Events, k < EOT, NotFarBehind(k)
    PROVE  k + 1 \in Events /\ NotFarBehind(k + 1)
<1>1. k + 1 \in Events /\ k <= k + 1
  BY TuneFacts
<1>2. Times[k] \in Nat /\ Times[k + 1] \in Nat /\ Times[k] <= Times[k + 1]
  BY <1>1, TuneFacts
<1>3. sample \in Nat /\ count \in Nat /\ Block \in Nat
  BY PlayerAssumption DEF Counters
<1>4. CASE strayed = "late"
  BY <1>1, <1>2, <1>3, <1>4 DEF NotFarBehind
<1>5. CASE strayed # "late"
  BY <1>1, <1>2, <1>3, <1>5 DEF NotFarBehind
<1> QED BY <1>4, <1>5

LEMMA ApplyStep == TInv /\ Apply => Counters' /\ Place'
<1> SUFFICES ASSUME TInv, Apply PROVE Counters' /\ Place'
  OBVIOUS
<1>0. /\ Counters /\ tail = 0 /\ restart # 0
      /\ ev \in Events /\ at \in Events /\ done \in 0..EOT /\ EOT \in Nat /\ EOT > 1
      /\ Events = 1..EOT /\ sample \in Nat /\ count \in Nat
      /\ offset + out <= sample /\ (paused => out = 0)
  BY TuneFacts DEF TInv, Counters, Place, Apply, InTune, Ordinary
<1>1. /\ lost' = 0
      /\ UNCHANGED <<ev, sample, buffered, offset, at, count, restart, out, scale, paused>>
      /\ \/ strayed = "early" /\ strayed' = "late" /\ done' = done
         \/ strayed # "early" /\ done' = at /\ strayed' = strayed
  BY DEF Apply, mode
<1>2. CASE at = EOT
  <2>1. tail' = 1 /\ pc' = "tail"
    BY <1>2 DEF Apply
  <2>2. Counters'
    BY <1>0, <1>1, <2>1 DEF Counters
  <2> QED BY <2>1, <2>2 DEF Place, InTune
<1>3. CASE at # EOT
  <2>1. tail' = tail /\ pc' = "next"
    BY <1>3 DEF Apply
  <2>2. Counters'
    BY <1>0, <1>1, <2>1 DEF Counters
  <2>3. JustPlayed' /\ strayed' # "early"
    <3>1. CASE strayed = "early"
      <4>1. Astray
        BY <3>1 DEF TInv, Place, Apply
      <4>2. Before' /\ sample <= Times[done + 1] + count
        BY <1>1, <3>1, <4>1 DEF Astray, Before
      <4> QED BY <1>0, <1>1, <3>1, <4>2 DEF JustPlayed, NotFarBehind
    <3>2. CASE strayed # "early"
      <4>1. at = ev /\ ToPlay
        BY <3>2 DEF TInv, Place, Apply, Astray
      <4>2. NotFarBehind(ev + 1) /\ ev < EOT
        <5>1. ev < EOT
          BY <1>0, <1>3, <4>1
        <5>2. CASE NextUp /\ NotFarBehind(ev)
          BY <1>0, <5>1, <5>2, NotFarBehindNext
        <5>3. CASE ev = done /\ Sought /\ strayed = "no"
          <6>1. sample <= Times[ev + 1] /\ ev + 1 \in Events /\ Times[ev + 1] \in Nat
            BY <1>0, <5>1, <5>3, TuneFacts DEF Sought
          <6>2. Block \in Nat \ {0}
            BY PlayerAssumption
          <6>3. sample < Times[ev + 1] + Block
            BY <1>0, <6>1, <6>2
          <6> QED BY <5>1, <5>3, <6>3 DEF NotFarBehind
        <5> QED BY <4>1, <5>2, <5>3 DEF ToPlay
      <4>3. Before'
        BY <1>0, <1>1, <3>2, <4>1, <4>2 DEF Before
      <4> QED BY <1>0, <1>1, <3>2, <4>1, <4>2, <4>3 DEF JustPlayed, NotFarBehind
    <3> QED BY <3>1, <3>2
  <2> QED BY <1>0, <1>1, <2>1, <2>2, <2>3 DEF Place, InTune
<1> QED BY <1>2, <1>3

LEMMA NextStep == TInv /\ NextEvent => Counters' /\ Place'
<1> SUFFICES ASSUME TInv, NextEvent PROVE Counters' /\ Place'
  OBVIOUS
<1>0. /\ Counters /\ tail = 0 /\ EOT > 1
      /\ \/ JustPlayed /\ strayed # "early" /\ lost = 0
         \/ Sought /\ strayed # "late"
      /\ ev \in Events /\ Events = 1..EOT /\ EOT \in Nat /\ sample \in Nat
      /\ count \in Nat /\ Block \in Nat \ {0}
      /\ offset + out <= sample /\ (paused => out = 0) /\ done \in 0..EOT
  BY TuneFacts, PlayerAssumption DEF TInv, Counters, Place, NextEvent, InTune, Ordinary
<1>1. /\ pc' = "event" /\ ev' = (IF restart # 0 THEN ev + 1 ELSE ev)
      /\ strayed' = (IF strayed = "early" THEN "no" ELSE strayed) /\ lost' = 0
      /\ UNCHANGED <<sample, buffered, offset, done, at, count, tail, restart, out, scale, paused>>
  BY DEF NextEvent, mode
<1>2. Before /\ done + 1 \in Events /\ Times[done + 1] \in Nat
  BY <1>0, TuneFacts DEF JustPlayed, Sought, Before
<1>3. NotFarBehind(done + 1)' /\ (ev' = ev => Sought /\ strayed' = "no")
  <2>1. CASE JustPlayed /\ strayed # "early"
    BY <1>0, <1>1, <2>1 DEF JustPlayed, NotFarBehind
  <2>2. CASE Sought /\ strayed # "late"
    <3>1. strayed' = "no" /\ sample <= Times[done + 1]
      BY <1>0, <1>1, <2>2 DEF Sought, Counters
    <3> QED BY <1>0, <1>1, <1>2, <2>2, <3>1 DEF NotFarBehind
  <2> QED BY <1>0, <2>1, <2>2
<1>4. Counters'
  BY <1>0, <1>1, <1>2 DEF Counters, Before
<1>5. ToPlay'
  <2>1. CASE done = 0
    <3>1. ev = 1 /\ (ev' = 1 \/ ev' = 2)
      BY <1>0, <1>1, <1>2, <2>1 DEF Before
    <3>2. NotFarBehind(1)' /\ NotFarBehind(2)'
      <4>1. 1 \in Events /\ 1 <= 2 /\ 2 \in Events
        BY <1>0
      <4>2. Times[1] \in Nat /\ Times[2] \in Nat /\ Times[1] <= Times[2]
        BY <4>1, TuneFacts
      <4>3. done + 1 = 1 /\ (done + 1)' = 1
        BY <1>1, <2>1
      <4>4. IF strayed' = "late" THEN sample' <= Times[1] + count'
                                 ELSE sample' < Times[1] + Block
        BY <1>3, <4>3 DEF NotFarBehind
      <4>5. IF strayed' = "late" THEN sample' <= Times[2] + count'
                                 ELSE sample' < Times[2] + Block
        BY <1>0, <1>1, <4>2, <4>4
      <4> QED BY <4>4, <4>5 DEF NotFarBehind
    <3> QED BY <1>1, <2>1, <3>1, <3>2 DEF ToPlay, NextUp, NotFarBehind
  <2>2. CASE done # 0 /\ restart # 0
    <3>1. ev' = done + 1
      BY <1>0, <1>1, <1>2, <2>2 DEF Before
    <3> QED BY <1>1, <1>3, <3>1 DEF ToPlay, NextUp, NotFarBehind
  <2>3. CASE done # 0 /\ restart = 0
    <3>1. ev' = ev /\ ev = done
      BY <1>1, <1>2, <2>3 DEF Before
    <3> QED BY <1>1, <1>3, <3>1 DEF ToPlay, Sought, Before
  <2> QED BY <2>1, <2>2, <2>3
<1>6. strayed' # "early"
  BY <1>1
<1> QED BY <1>0, <1>1, <1>4, <1>5, <1>6 DEF Place, InTune

LEMMA EndSteps == TInv /\ (PlayTail \/ FlushTail \/ Drained) => Counters' /\ Place'
<1> SUFFICES ASSUME TInv, PlayTail \/ FlushTail \/ Drained PROVE Counters' /\ Place'
  OBVIOUS
<1>0. Counters /\ 0 \in 0..(Block - 1) /\ Block \in Nat
  BY PlayerAssumption DEF TInv
<1>1. CASE PlayTail
  <2>1. tail > 0 /\ tail' = tail + 1 /\ pc' = "controls" /\ tail \in Nat
    BY <1>1 DEF PlayTail, TInv, Place, Counters
  <2>2. Counters'
    BY <1>0, <1>1 DEF PlayTail, Counters, ghosts, stray
  <2> QED BY <2>1, <2>2 DEF Place, InTune
<1>2. CASE FlushTail
  <2>1. Counters'
    BY <1>0, <1>2 DEF FlushTail, Counters, mode, ghosts, stray
  <2> QED BY <1>2, <2>1, OutsideTune DEF FlushTail
<1>3. CASE Drained
  <2>1. Counters'
    BY <1>0, <1>3 DEF Drained, Counters, mode, position, Discard, ghosts, stray
  <2> QED BY <1>3, <2>1, OutsideTune DEF Drained
<1> QED BY <1>1, <1>2, <1>3

-----------------------------------------------------------------------------
(* The commands of apply_controls.                                         *)

\* In midi_play_end no position matters: the player comes to an event again only
\* over play_midi.
LEMMA TailIsFree ==
    ASSUME TInv, pc = "controls", tail > 0, Continue \/ \E code : ReturnRc(code)
    PROVE  Place'
<1>1. tail' = tail /\ tail \in Nat
  BY DEF Continue, ReturnRc, TInv, Counters
<1>2. CASE Continue
  BY <1>1, <1>2 DEF Continue, Place, InTune
<1>3. CASE \E code : ReturnRc(code)
  <2>1. PICK code : ReturnRc(code)
    BY <1>3
  <2>2. CASE HandedOn(code)
    <3>1. code \in Skips
      BY <1>1, <2>2 DEF HandedOn
    <3>2. (pc' = "closed" /\ rc' = code) \/ pc' \in {"tail", "render"}
      BY <1>1, <2>1 DEF ReturnRc
    <3> QED BY <1>1, <3>1, <3>2 DEF Place, InTune, Skips
  <2>3. CASE ~HandedOn(code)
    <3>1. pc' \in {"tail", "render"}
      BY <1>1, <2>1, <2>3 DEF ReturnRc
    <3> QED BY <1>1, <3>1 DEF Place, InTune
  <2> QED BY <2>2, <2>3
<1> QED BY <1>2, <1>3

\* In the tune the code is handed on, but for RC_JUMP and RC_NONE.
LEMMA TuneReturns ==
    ASSUME tail = 0, NEW code, ReturnRc(code)
    PROVE  /\ tail' = 0
           /\ code = "none" => pc' = "render"
           /\ code = "jump" => pc' = "next"
           /\ code \notin {"none", "jump"} => pc' = "closed" /\ rc' = code
BY DEF ReturnRc, HandedOn

\* The tune is left, by a code other than RC_RELOAD.
LEMMA Leaves ==
    ASSUME TInv, pc = "controls", NEW code, ReturnRc(code),
           code \notin {"none", "jump", "reload"}
    PROVE  Place'
<1>1. tail \in Nat
  BY DEF TInv, Counters
<1>2. CASE tail = 0
  <2>1. pc' = "closed" /\ rc' = code
    BY <1>2, TuneReturns
  <2> QED BY <2>1, OutsideTune
<1>3. CASE tail # 0
  BY <1>1, <1>3, TailIsFree
<1> QED BY <1>2, <1>3

\* The tune goes on at t: from next, with RC_JUMP, or in the loop.
LEMMA GoesOnAt ==
    ASSUME TInv, pc = "controls", NEW t \in Nat, tail = 0 => t <= SampleCount,
           SkipTo(t), out' = 0, restart' \in Nat,
           UNCHANGED <<at, count, scale, strayed, lost>>,
           \/ ReturnRc("jump")
           \/ Continue /\ jumped' = TRUE
                /\ (tail = 0 /\ paused' => restart' <= SampleCount)
    PROVE  Counters' /\ Place'
<1>0. Counters /\ tail' = tail /\ tail \in Nat
  BY DEF TInv, Counters, ReturnRc, Continue
<1>1. /\ ev' \in Events /\ sample' \in Nat /\ done' \in 0..EOT /\ offset' = t
      /\ buffered' \in 0..(Block - 1)
      /\ t <= SampleCount => Sought' /\ sample' = t
  BY <1>0, SkipFinds
<1>2. Counters'
  BY <1>0, <1>1 DEF Counters
<1>3. CASE tail # 0
  BY <1>0, <1>2, <1>3, TailIsFree
<1>4. CASE tail = 0
  <2>1. Sought' /\ sample' = t /\ t <= SampleCount /\ strayed' # "late"
    BY <1>1, <1>4 DEF TInv, Place, Held
  <2>2. offset' + out' <= sample'
    BY <1>1, <2>1
  <2>3. CASE ReturnRc("jump")
    <3>1. pc' = "next" /\ tail' = 0
      BY <1>4, <2>3, TuneReturns
    <3> QED BY <1>2, <2>1, <2>2, <3>1 DEF Place, InTune
  <2>4. CASE Continue /\ jumped' = TRUE /\ (tail = 0 /\ paused' => restart' <= SampleCount)
    <3>1. pc' = "controls" /\ tail' = 0
      BY <1>4, <2>4 DEF Continue
    <3>2. Held'
      BY <1>4, <2>1, <2>4 DEF Held, Sought, Before, SampleCount
    <3> QED BY <1>2, <2>2, <3>1, <3>2 DEF Place, InTune
  <2> QED BY <2>3, <2>4
<1> QED BY <1>3, <1>4

\* The tune stands still.
LEMMA StandsStill ==
    ASSUME TInv, pc = "controls", Continue,
           UNCHANGED <<ev, sample, buffered, offset, done, at, count, scale, strayed, lost>>,
           out' \in {0, out}, restart' \in Nat,
           tail = 0 => /\ paused' => out' = 0 /\ restart' <= SampleCount
                       /\ \/ jumped' = jumped /\ paused' = paused
                             /\ (restart' = restart \/ paused)
                          \/ jumped' /\ paused'
    PROVE  Counters' /\ Place'
<1>0. Counters /\ out \in Nat /\ offset \in Nat /\ tail' = tail /\ pc' = "controls"
  BY DEF TInv, Counters, Continue
<1>1. Counters'
  BY <1>0 DEF Counters
<1>2. CASE tail # 0
  <2>1. tail > 0
    BY <1>0, <1>2 DEF Counters
  <2> QED BY <1>1, <2>1, TailIsFree
<1>3. CASE tail = 0
  <2>1. Held /\ offset + out <= sample /\ sample \in Nat
    BY <1>0, <1>3 DEF TInv, Place, InTune, Counters
  <2>2. offset' + out' <= sample'
    <3>1. offset' = offset /\ sample' = sample /\ (out' = 0 \/ out' = out)
      OBVIOUS
    <3>2. CASE out' = 0
      <4>1. offset <= sample
        BY <1>0, <2>1
      <4> QED BY <1>0, <3>1, <3>2, <4>1
    <3>3. CASE out' = out
      BY <2>1, <3>1, <3>3
    <3> QED BY <3>1, <3>2, <3>3
  <2>3. Sought => Sought'
    BY <1>3 DEF Sought, Before
  <2>4. Waiting => Waiting'
    BY <2>3 DEF Waiting, NextUp
  <2>5. /\ sample' <= SampleCount' /\ done' < EOT /\ strayed' # "late"
        /\ paused' => restart' <= SampleCount'
    BY <1>3, <2>1 DEF Held, SampleCount
  <2>6. /\ ~jumped' => Waiting'
        /\ ~jumped' /\ ~paused' => restart' # 0
        /\ jumped' /\ ~paused' => Sought'
    <3>1. CASE jumped' = jumped /\ paused' = paused /\ (restart' = restart \/ paused)
      <4>1. /\ ~jumped => Waiting
            /\ ~jumped /\ ~paused => restart # 0
            /\ jumped /\ ~paused => Sought
        BY <2>1 DEF Held
      <4> QED BY <4>1, <2>3, <2>4, <3>1
    <3>2. CASE jumped' /\ paused'
      BY <3>2
    <3> QED BY <1>3, <3>1, <3>2
  <2>7. Held'
    BY <2>5, <2>6 DEF Held
  <2> QED BY <1>0, <1>1, <1>3, <2>2, <2>7 DEF Place, InTune
<1> QED BY <1>2, <1>3

\* How far a command may go in the tune.
LEMMA InControls ==
    ASSUME TInv, pc = "controls"
    PROVE  /\ Counters /\ SampleCount \in Nat /\ Step \in Nat
           /\ restart \in Nat /\ out \in Nat
           /\ \A cur \in Heard : cur \in Nat /\ (tail = 0 => cur <= SampleCount)
           /\ tail = 0 => (paused => out = 0 /\ restart <= SampleCount)
<1>1. Counters
  BY DEF TInv
<1>2. tail = 0 => Held /\ offset + out <= sample /\ (paused => out = 0)
  BY DEF TInv, Place, InTune
<1>3. ASSUME NEW cur \in Heard
      PROVE  cur \in Nat /\ (tail = 0 => cur <= SampleCount)
  BY <1>1, <1>2, <1>3, HeardIs, TuneFacts DEF Held, Counters
<1> QED BY <1>1, <1>2, <1>3, TuneFacts, PlayerAssumption DEF Held, Counters

LEMMA MoveSteps ==
    ASSUME TInv, PausedRestart \/ PausedJump \/ PausedForward \/ PausedBack
    PROVE  Counters' /\ Place'
<1>1. \E command, t : MovePause(command, t) /\ t \in Nat /\ (tail = 0 => t <= SampleCount)
  <2>1. CASE PausedRestart
    BY <2>1, TuneFacts DEF PausedRestart
  <2>2. CASE PausedJump
    BY <2>2, PlayerAssumption DEF PausedJump, TInv, Ordinary
  <2>3. CASE PausedForward
    <3>1. restart + Step \in Nat /\ SampleCount \in Nat
      BY TuneFacts, PlayerAssumption DEF TInv, Counters
    <3> QED BY <2>3, <3>1 DEF PausedForward
  <2>4. CASE PausedBack
    <3>1. pc = "controls" /\ paused
      BY <2>4 DEF PausedBack, MovePause, Control
    <3>2. restart \in Nat /\ Step \in Nat /\ SampleCount \in Nat
      BY <3>1, InControls
    <3>3. tail = 0 => restart <= SampleCount
      BY <3>1, InControls
    <3> DEFINE t == IF restart < Step THEN 0 ELSE restart - Step
    <3>4. t \in Nat /\ (tail = 0 => t <= SampleCount) /\ MovePause("back", t)
      BY <2>4, <3>2, <3>3 DEF PausedBack
    <3> QED BY <3>4
  <2> QED BY <2>1, <2>2, <2>3, <2>4
<1>2. PICK command, t : MovePause(command, t) /\ t \in Nat /\ (tail = 0 => t <= SampleCount)
  BY <1>1
<1>3. /\ pc = "controls" /\ paused /\ restart' = t /\ Continue
      /\ UNCHANGED <<ev, sample, buffered, offset, done, at, count, scale, strayed, lost>>
      /\ out' = out /\ jumped' = jumped /\ paused' = paused
  BY <1>2 DEF MovePause, Control, unmoved, position, mode, stray
<1>4. tail = 0 => out = 0
  BY <1>3, InControls
<1> QED BY <1>2, <1>3, <1>4, StandsStill

LEMMA LeaveSteps ==
    ASSUME TInv, Previous \/ \E command \in Commands : LeaveTune(command)
    PROVE  Counters' /\ Place'
<1>1. \E code : ReturnRc(code) /\ code \notin {"none", "jump", "reload"}
  BY DEF Previous, LeaveTune, Skips
<1>2. /\ pc = "controls" /\ tail' = tail /\ out' = 0
      /\ UNCHANGED <<ev, sample, buffered, offset, done, at, count, restart, scale,
                     strayed, lost>>
  BY <1>1 DEF Previous, LeaveTune, Control, Discard, ReturnRc, unmoved, position, mode,
              ghosts, stray
<1>3. Counters'
  BY <1>2 DEF TInv, Counters
<1> QED BY <1>1, <1>2, <1>3, Leaves

LEMMA SkipSteps ==
    ASSUME TInv, Restart \/ Jump \/ Forward \/ Back \/ Resume \/ Renew \/ SyncIfTraced
    PROVE  Counters' /\ Place'
<1>0. /\ pc = "controls" /\ Counters /\ SampleCount \in Nat /\ Step \in Nat
      /\ restart \in Nat /\ out \in Nat
      /\ \A cur \in Heard : cur \in Nat /\ (tail = 0 => cur <= SampleCount)
      /\ tail = 0 => (paused => out = 0 /\ restart <= SampleCount)
  <2>1. pc = "controls"
    BY DEF Restart, Jump, Forward, Back, Resume, Renew, SyncIfTraced, Control
  <2> QED BY <2>1, InControls
<1> USE DEF unmoved, position, mode, ghosts, stray, Discard
<1>g. ASSUME NEW t \in Nat, GoTo(t), out' = 0, UNCHANGED <<at, count, restart, scale, strayed, lost>>
      PROVE  Counters' /\ Place'
  <2>1. CASE t >= SampleCount /\ ReturnRc("end") /\ UNCHANGED position
    <3>1. Counters'
      BY <1>0, <1>g, <2>1 DEF Counters, ReturnRc
    <3> QED BY <1>0, <2>1, <3>1, Leaves
  <2>2. CASE t < SampleCount /\ SkipTo(t) /\ ReturnRc("jump")
    <3>1. t <= SampleCount /\ restart' \in Nat
      BY <1>0, <1>g, <2>2
    <3> QED BY <1>0, <1>g, <2>2, <3>1, GoesOnAt
  <2> QED BY <1>g, <2>1, <2>2 DEF GoTo
<1>1. CASE Restart
  <2>1. /\ SkipTo(0) /\ out' = 0 /\ restart' = 0 /\ Continue /\ jumped' = TRUE
        /\ UNCHANGED <<at, count, scale, strayed, lost>>
    BY <1>1 DEF Restart
  <2>2. 0 \in Nat /\ 0 <= SampleCount
    BY <1>0
  <2> QED BY <1>0, <2>1, <2>2, GoesOnAt
<1>2. CASE Jump
  BY <1>2, <1>g, PlayerAssumption DEF Jump
<1>3. CASE Forward
  <2>1. PICK cur \in Heard : GoTo(cur + Step)
    BY <1>3 DEF Forward
  <2>2. cur + Step \in Nat
    BY <1>0
  <2> QED BY <1>3, <1>g, <2>1, <2>2 DEF Forward
<1>4. CASE Back
  <2>1. ReturnRc("jump") /\ out' = 0 /\ UNCHANGED <<at, count, scale, strayed, lost>>
    BY <1>4 DEF Back
  <2>2. PICK cur \in Heard :
           \/ cur > Step /\ SkipTo(cur - Step) /\ UNCHANGED restart
           \/ cur <= Step /\ SkipTo(0) /\ restart' = 0
    BY <1>4 DEF Back
  <2>3. cur \in Nat /\ (tail = 0 => cur <= SampleCount)
    BY <1>0
  <2>4. PICK t \in Nat : SkipTo(t) /\ (tail = 0 => t <= SampleCount) /\ restart' \in Nat
    <3>1. CASE cur > Step /\ SkipTo(cur - Step) /\ UNCHANGED restart
      <4>1. cur - Step \in Nat /\ (tail = 0 => cur - Step <= SampleCount)
        BY <1>0, <2>3, <3>1
      <4> QED BY <1>0, <3>1, <4>1
    <3>2. CASE cur <= Step /\ SkipTo(0) /\ restart' = 0
      BY <1>0, <3>2
    <3> QED BY <2>2, <3>1, <3>2
  <2> QED BY <1>0, <2>1, <2>4, GoesOnAt
<1>5. CASE Resume
  <2>1. /\ paused /\ paused' = FALSE /\ SkipTo(restart) /\ jumped' = TRUE /\ Continue
        /\ UNCHANGED <<at, count, scale, restart, out, strayed, lost>>
    BY <1>5 DEF Resume
  <2>2. CASE tail = 0
    <3>1. out' = 0 /\ restart <= SampleCount /\ restart' \in Nat
      BY <1>0, <2>1, <2>2
    <3> QED BY <1>0, <2>1, <2>2, <3>1, GoesOnAt
  <2>3. CASE tail # 0
    <3>1. /\ ev' \in Events /\ sample' \in Nat /\ done' \in 0..EOT /\ offset' = restart
          /\ buffered' \in 0..(Block - 1)
      BY <1>0, <2>1, SkipFinds
    <3>2. tail > 0
      BY <1>0, <2>3 DEF Counters
    <3>3. Counters'
      BY <1>0, <2>1, <3>1 DEF Counters, Continue
    <3> QED BY <1>0, <2>1, <3>2, <3>3, TailIsFree
  <2> QED BY <2>2, <2>3
<1>6. CASE Renew \/ SyncIfTraced
  <2>1. Continue /\ UNCHANGED <<at, count, restart, paused, scale, strayed, lost>>
    BY <1>6 DEF Renew, SyncIfTraced
  <2>2. CASE SyncRestart /\ jumped' = TRUE
    <3>1. PICK cur \in Heard : out' = 0 /\ SkipTo(cur)
      BY <2>2 DEF SyncRestart
    <3>2. cur \in Nat /\ (tail = 0 => cur <= SampleCount) /\ restart' \in Nat
      BY <1>0, <2>1
    <3>3. tail = 0 /\ paused' => restart' <= SampleCount
      BY <1>0, <2>1
    <3> QED BY <1>0, <2>1, <2>2, <3>1, <3>2, <3>3, GoesOnAt
  <2>3. CASE UNCHANGED <<position, out, jumped>>
    <3>1. tail = 0 => (paused' => out' = 0 /\ restart' <= SampleCount)
      BY <1>0, <2>1, <2>3
    <3>2. /\ UNCHANGED <<ev, sample, buffered, offset, done, at, count, scale, strayed, lost>>
          /\ out' = out /\ restart' = restart /\ jumped' = jumped /\ paused' = paused
      BY <2>1, <2>3
    <3> QED BY <1>0, <2>1, <3>1, <3>2, StandsStill
  <2>4. SyncIfTraced => SyncRestart /\ jumped' = TRUE
    BY DEF SyncIfTraced, Control, Reads, TInv, Ordinary
  <2>5. (SyncRestart /\ jumped' = TRUE) \/ UNCHANGED <<position, out, jumped>>
    BY <1>6, <2>4 DEF Renew
  <2> QED BY <2>2, <2>3, <2>5
<1> QED BY <1>1, <1>2, <1>3, <1>4, <1>5, <1>6

\* The position goes back under the event that is waited for: as many samples are
\* missing as before.
LEMMA RefreshStep == TInv /\ Refresh => Counters' /\ Place'
<1> SUFFICES ASSUME TInv, Refresh PROVE Counters' /\ Place'
  OBVIOUS
<1>0. /\ pc = "controls" /\ Counters /\ sample \in Nat /\ lost \in Int /\ SampleCount \in Nat
      /\ tail = 0 => (paused => out = 0 /\ restart <= SampleCount)
  <2>1. pc = "controls"
    BY DEF Refresh, Control
  <2> QED BY <2>1, InControls DEF Counters
<1>1. PICK cur \in Heard : out' = 0 /\ SkipTo(cur)
  BY DEF Refresh, SyncRestart, Discard
<1>2. /\ cur \in Nat /\ (tail = 0 => cur <= SampleCount)
      /\ offset + out <= sample => cur <= sample
  BY <1>0, InControls, HeardIs
<1>3. /\ Continue /\ strayed' = "early" /\ lost' = lost + sample - sample'
      /\ UNCHANGED <<at, count, restart, paused, jumped, scale>>
  BY DEF Refresh, unmoved, mode
<1>4. /\ ev' \in Events /\ sample' \in Nat /\ done' \in 0..EOT /\ offset' = cur
      /\ buffered' \in 0..(Block - 1)
      /\ cur <= SampleCount => Sought' /\ sample' = cur /\ buffered' = 0
  BY <1>0, <1>1, <1>2, SkipFinds
<1>5. tail' = tail /\ pc' = "controls" /\ tail \in Nat
  BY <1>0, <1>3 DEF Continue, Counters
<1>6. Counters'
  <2>1. lost' \in Int
    BY <1>0, <1>3, <1>4
  <2>2. cur \in Nat /\ offset' \in Nat
    BY <1>2, <1>4
  <2> QED BY <1>0, <1>1, <1>3, <1>4, <1>5, <2>1, <2>2 DEF Counters
<1>7. CASE tail # 0
  BY <1>0, <1>3, <1>5, <1>6, <1>7, TailIsFree
<1>8. CASE tail = 0
  <2>1. Held /\ offset + out <= sample
    BY <1>0, <1>8 DEF TInv, Place, InTune
  <2>2. /\ Sought' /\ sample' = cur /\ buffered' = 0 /\ cur <= sample
        /\ cur <= SampleCount
    BY <1>2, <1>4, <1>8, <2>1
  <2>3. lost' + sample' = lost + sample
    BY <1>0, <1>2, <1>3, <2>2
  <2>4. Waiting => Waiting'
    <3> SUFFICES ASSUME Waiting PROVE Waiting'
      OBVIOUS
    <3>1. /\ lost \in Nat /\ sample + lost < Times[at]
          /\ Times[at] <= sample + lost + count /\ sample + lost + count < Times[at] + Block
      BY DEF Waiting
    <3>2. lost' \in Nat
      BY <1>0, <1>2, <1>3, <2>2, <3>1
    <3>3. sample' + lost' = sample + lost
      <4>1. sample' + lost' = lost' + sample' /\ sample + lost = lost + sample
        BY <1>0, <1>4, <3>1, <3>2
      <4> QED BY <2>3, <4>1
    <3> QED BY <1>3, <2>2, <3>1, <3>2, <3>3 DEF Waiting
  <2>5. Held'
    BY <1>3, <2>1, <2>2, <2>4 DEF Held, Sought, Before, SampleCount
  <2>6. offset' + out' <= sample'
    BY <1>1, <1>2, <1>4, <2>2
  <2> QED BY <1>1, <1>5, <1>6, <1>8, <2>5, <2>6 DEF Place, InTune
<1> QED BY <1>7, <1>8

LEMMA OtherSteps ==
    ASSUME TInv, Pause \/ ReloadTune \/ NoControl
    PROVE  Counters' /\ Place'
<1>0. /\ pc = "controls" /\ Counters /\ SampleCount \in Nat
      /\ restart \in Nat /\ out \in Nat
      /\ \A cur \in Heard : cur \in Nat /\ (tail = 0 => cur <= SampleCount)
  <2>1. pc = "controls"
    BY DEF Pause, ReloadTune, NoControl, Control
  <2> QED BY <2>1, InControls
<1> USE DEF unmoved, position, mode, ghosts, stray, Discard
<1>1. CASE Pause
  <2>1. /\ restart' \in Heard /\ out' = 0 /\ paused' = TRUE /\ jumped' = TRUE /\ Continue
        /\ UNCHANGED <<ev, sample, buffered, offset, done, at, count, scale, strayed, lost>>
    BY <1>1 DEF Pause
  <2>2. restart' \in Nat /\ (tail = 0 => restart' <= SampleCount)
    BY <1>0, <2>1
  <2> QED BY <1>0, <2>1, <2>2, StandsStill
<1>2. CASE ReloadTune
  <2>1. /\ restart' \in Heard /\ out' = 0 /\ ReturnRc("reload") /\ tail' = tail
        /\ UNCHANGED <<ev, sample, buffered, offset, done, at, count, scale, strayed, lost>>
    BY <1>2 DEF ReloadTune, ReturnRc
  <2>2. restart' \in Nat /\ (tail = 0 => restart' <= SampleCount)
    BY <1>0, <2>1
  <2>3. Counters'
    BY <1>0, <2>1, <2>2 DEF Counters
  <2>4. CASE tail = 0
    <3>1. pc' = "closed"
      BY <2>1, <2>4, TuneReturns
    <3> QED BY <2>2, <2>3, <2>4, <3>1 DEF Place, InTune, SampleCount
  <2>5. CASE tail # 0
    <3>1. tail > 0
      BY <1>0, <2>5 DEF Counters
    <3> QED BY <1>0, <2>1, <2>3, <3>1, TailIsFree
  <2> QED BY <2>4, <2>5
<1>3. CASE NoControl
  <2>1. /\ ~paused /\ ReturnRc(IF jumped THEN "jump" ELSE "none") /\ tail' = tail
        /\ UNCHANGED <<ev, sample, buffered, offset, done, at, count, scale, restart,
                       paused, out, strayed, lost>>
    BY <1>3 DEF NoControl, ReturnRc
  <2>2. Counters'
    BY <1>0, <2>1 DEF Counters
  <2>3. CASE tail # 0
    <3>1. tail > 0
      BY <1>0, <2>3 DEF Counters
    <3> QED BY <1>0, <2>1, <2>2, <3>1, TailIsFree
  <2>4. CASE tail = 0
    <3>1. Held /\ offset + out <= sample
      BY <1>0, <2>4 DEF TInv, Place, InTune
    <3>2. CASE jumped
      <4>1. pc' = "next"
        BY <2>1, <2>4, <3>2, TuneReturns
      <4>2. Sought'
        BY <2>1, <3>1, <3>2 DEF Held, Sought, Before
      <4>3. strayed' # "late"
        BY <2>1, <3>1 DEF Held
      <4> QED BY <2>1, <2>2, <2>4, <3>1, <4>1, <4>2, <4>3 DEF Place, InTune
    <3>3. CASE ~jumped
      <4>1. pc' = "render"
        BY <2>1, <2>4, <3>3, TuneReturns
      <4>2. Waiting' /\ restart' # 0
        BY <2>1, <3>1, <3>3 DEF Held, Waiting, NextUp, Sought, Before
      <4> QED BY <2>1, <2>2, <2>4, <3>1, <4>1, <4>2 DEF Place, InTune
    <3> QED BY <3>2, <3>3
  <2> QED BY <2>3, <2>4
<1> QED BY <1>1, <1>2, <1>3

LEMMA TInvInit == Ordinary /\ Init => TInv
<1> SUFFICES ASSUME Ordinary, Init PROVE TInv
  OBVIOUS
<1>1. 0 \in 0..(Block - 1) /\ 1 \in Events /\ 0 \in 0..EOT
  BY TuneFacts, PlayerAssumption
<1>2. Counters
  BY <1>1 DEF Init, Counters
<1>3. Place
  BY DEF Init, Place, InTune
<1> QED BY <1>2, <1>3 DEF TInv

LEMMA TInvStep == TInv /\ [Next]_vars => TInv'
<1> SUFFICES ASSUME TInv, [Next]_vars PROVE TInv'
  OBVIOUS
<1>1. Ordinary'
  BY DEF TInv, Ordinary, SampleCount, EOT
<1>2. CASE \/ \E command \in Commands : SkipFile(command) \/ FlushPoll(command)
           \/ PlayMidiFile \/ LoadFile \/ Closed \/ Reload
  BY <1>1, <1>2, ListSteps DEF TInv
<1>3. CASE \/ PlayMidi \/ PlayEvent \/ Render \/ RenderFails \/ Apply \/ NextEvent
           \/ PlayTail \/ FlushTail \/ Drained
  BY <1>1, <1>3, StartStep, EventStep, RenderStep, FailStep, ApplyStep, NextStep,
     EndSteps DEF TInv
<1>4. CASE ApplyControls
  <2>1. ~ChangeSpeed /\ ~RefuseRate
    BY CommandsKnown DEF TInv
  <2>2. Counters' /\ Place'
    BY <1>4, <2>1, MoveSteps, LeaveSteps, SkipSteps, RefreshStep, OtherSteps
       DEF ApplyControls
  <2> QED BY <1>1, <2>2 DEF TInv
<1>5. CASE UNCHANGED vars
  BY <1>5 DEF vars, stray, TInv, Ordinary, Counters, Place, InTune, ToPlay, NextUp,
              NotFarBehind, Before, Sought, Held, Waiting, Astray, JustPlayed,
              SampleCount, EOT, Events
<1> QED BY <1>2, <1>3, <1>4, <1>5 DEF Next

\* However the blocks fall between the events and wherever the user goes, an event
\* is played less than a block from its time: compute_data's rounding, which is
\* made anew at every event, does not add up.  Where a command takes the position
\* back and does not jump, the event waited for is early by just what was thrown
\* away, and those after it late by no more than what was rendered for it.
THEOREM EventsOnTime == Ordinary /\ Spec => []OnTime
<1>1. TInv => OnTime
  <2> SUFFICES ASSUME TInv, pc = "apply", at = done + 1 \/ strayed = "early"
               PROVE  /\ strayed # "late" => /\ sample + lost - Time(at) < Block
                                            /\ Time(at) - sample - lost < Block
                      /\ strayed = "late" => Time(at) <= sample /\ sample - Time(at) <= count
    BY DEF OnTime
  <2>1. /\ Counters /\ sample \in Nat /\ lost \in Int /\ count \in Nat /\ Block \in Nat
        /\ done \in Nat /\ ev \in Events /\ at \in Events
        /\ Time(at) = Times[at] /\ Times[at] \in Nat
    BY TempoOfFile, TuneFacts, PlayerAssumption DEF TInv, Counters
  <2>2. CASE strayed = "early"
    <3>1. sample + lost < Times[at] + Block /\ Times[at] < sample + lost + Block
      BY <2>2 DEF TInv, Place, Astray
    <3> QED BY <2>1, <2>2, <3>1
  <2>3. CASE strayed # "early"
    <3>1. /\ at = ev /\ lost = 0 /\ ToPlay
          /\ IF strayed = "late" THEN Times[at] <= sample ELSE Times[at] < sample + Block
      BY <2>3 DEF TInv, Place, Astray
    <3>2. NotFarBehind(at)
      BY <2>1, <2>3, <3>1 DEF ToPlay
    <3> QED BY <2>1, <3>1, <3>2 DEF NotFarBehind
  <2> QED BY <2>2, <2>3
<1> QED BY <1>1, TInvInit, TInvStep, PTL DEF Spec

\* Since the last seek every event is played or chased once, in order, and
\* current_event never leaves the list: the one step back of seek_forward and the
\* one step on of play_midi meet, but for the exceptions InOrder names.
THEOREM EventsInOrder == Ordinary /\ Spec => []InOrder
<1>1. TInv => InOrder
  <2>1. TInv => ev \in Events
    BY DEF TInv, Counters
  <2>2. TInv /\ pc = "apply" =>
          (strayed = "early" /\ ev <= at) \/ (at = ev /\ ToPlay)
    BY DEF TInv, Place, Astray
  <2>3. TInv /\ pc = "apply" =>
          \/ at = done + 1 \/ (done = 0 /\ at = 2) \/ (at = done /\ out = 0 /\ sample = offset)
          \/ strayed = "early" /\ ev <= at
    BY <2>2 DEF ToPlay, NextUp, Sought
  <2> QED BY <2>1, <2>3 DEF InOrder
<1> QED BY <1>1, TInvInit, TInvStep, PTL DEF Spec

-----------------------------------------------------------------------------
(* A pause.                                                                *)

\* A tune that is paused is not read again: RC_RELOAD and RC_CHANGE_RATE write the
\* position that is heard over midi_restart_time, where the pause is kept.  Nor does
\* its tempo change: midi_restart_time would stay in the samples of the old tempo.
KeepsPause ==
    "pause" \in Commands =>
        Commands \cap {"reload", "rate", "badrate", "faster", "slower"} = {}

\* midi_restart_time is the position of the pause; 1 when play_event has run since
\* a pause that is older than the tune.
AtThePause == restart = stopped \/ (stopped = 0 /\ restart = 1)

PausePlace ==
    /\ paused => "pause" \in Commands
    /\ "pause" \in Commands =>
          /\ ~(pc = "closed" /\ rc = "reload")
          /\ pc \in {"load", "start"} => restart = 0
    /\ paused /\ pc \in {"event", "apply", "next"} => stopped = 0
    /\ paused => pc # "render"
    /\ paused /\ pc \in {"event", "apply", "next", "controls", "tail"} => AtThePause

PInv == KeepsPause /\ IInv /\ PausePlace

\* A step that leaves the player in a tune and not paused.
LEMMA NotPaused ==
    ASSUME ~paused', pc' \notin {"load", "start"}, ~(pc' = "closed" /\ rc' = "reload")
    PROVE  PausePlace'
BY DEF PausePlace

\* What check_apply_control does to the pause.
LEMMA CheckPauses ==
    ASSUME NEW command, CheckApply(command), PausePlace
    PROVE  /\ command \in Commands
           /\ paused' => "pause" \in Commands
BY DEF CheckApply, Reads, PausePlace

LEMMA PauseOutside ==
    ASSUME PInv,
           \/ \E command \in Commands : SkipFile(command) \/ FlushPoll(command)
           \/ PlayMidiFile \/ LoadFile \/ Closed \/ Reload \/ PlayMidi
    PROVE  PausePlace'
<1>0. KeepsPause /\ PausePlace
  BY DEF PInv
<1> USE DEF mode, list
<1>1. ASSUME NEW command \in Commands, SkipFile(command) PROVE PausePlace'
  <2>1. pc' \in {"open", "ended"} /\ (paused' => "pause" \in Commands)
    BY <1>0, <1>1, PassListLeaves, CheckPauses DEF SkipFile
  <2> QED BY <2>1 DEF PausePlace
<1>2. ASSUME NEW command \in Commands, FlushPoll(command) PROVE PausePlace'
  <2>1. paused' => "pause" \in Commands
    BY <1>0, <1>2, CheckPauses DEF FlushPoll
  <2>2. restart' \in {0, restart} /\ pc \in {"start", "drain"}
    BY <1>2 DEF FlushPoll, RestartAfter
  <2>3. pc' = pc \/ (pc' = "closed" /\ rc' # "reload")
    BY <1>2 DEF FlushPoll, Skips
  <2> QED BY <1>0, <2>1, <2>2, <2>3 DEF PausePlace
<1>3. CASE PlayMidiFile
  <2>1. paused' => "pause" \in Commands
    BY <1>0, <1>3, CheckPauses DEF PlayMidiFile, NoCommand, PausePlace
  <2> QED BY <1>3, <2>1 DEF PlayMidiFile, PausePlace
<1>4. CASE LoadFile
  <2>1. paused' => "pause" \in Commands
    BY <1>0, <1>4, CheckPauses DEF LoadFile, NoCommand, PausePlace
  <2>2. restart' \in {0, restart} /\ pc = "load"
    BY <1>4 DEF LoadFile, RestartAfter
  <2>3. pc' = "start" \/ (pc' = "closed" /\ rc' # "reload")
    BY <1>4 DEF LoadFile, Skips
  <2> QED BY <1>0, <2>1, <2>2, <2>3 DEF PausePlace
<1>5. CASE Closed
  <2>1. pc' \in {"open", "ended"}
    BY <1>5, PassListLeaves DEF Closed
  <2>2. paused' = paused
    BY <1>5 DEF Closed
  <2> QED BY <1>0, <2>1, <2>2 DEF PausePlace
<1>6. CASE Reload
  <2>1. pc = "closed" /\ rc = "reload" /\ pc' = "load" /\ paused' = paused
    BY <1>6 DEF Reload
  <2> QED BY <1>0, <2>1 DEF PausePlace
<1>7. CASE PlayMidi
  <2>1. /\ pc = "start" /\ pc' = "event" /\ stopped' = restart /\ restart' = restart
        /\ paused' = paused
    BY <1>7 DEF PlayMidi
  <2>2. paused => restart = 0
    BY <1>0, <2>1 DEF PausePlace
  <2> QED BY <1>0, <2>1, <2>2 DEF PausePlace, AtThePause
<1> QED BY <1>1, <1>2, <1>3, <1>4, <1>5, <1>6, <1>7

LEMMA PauseInTune ==
    ASSUME PInv,
           \/ PlayEvent \/ Render \/ RenderFails \/ Apply \/ NextEvent
           \/ PlayTail \/ FlushTail \/ Drained
    PROVE  PausePlace'
<1>0. PausePlace
  BY DEF PInv
<1> USE DEF mode, ghosts, stray, list
<1>1. CASE PlayEvent
  <2>1. /\ pc = "event" /\ pc' \in {"controls", "apply"} /\ restart' = 1
        /\ stopped' = stopped /\ paused' = paused
    BY <1>1 DEF PlayEvent
  <2> QED BY <1>0, <2>1 DEF PausePlace, AtThePause
<1>2. CASE Render \/ RenderFails
  <2>1. ~paused' /\ pc' \notin {"load", "start"} /\ ~(pc' = "closed" /\ rc' = "reload")
    BY <1>0, <1>2 DEF Render, RenderFails, PausePlace
  <2> QED BY <2>1, NotPaused
<1>3. CASE Apply
  <2>1. /\ pc = "apply" /\ pc' \in {"tail", "next"} /\ restart' = restart
        /\ stopped' = stopped /\ paused' = paused
    BY <1>3 DEF Apply
  <2> QED BY <1>0, <2>1 DEF PausePlace, AtThePause
<1>4. CASE NextEvent
  <2>1. /\ pc = "next" /\ pc' = "event" /\ restart' = restart
        /\ stopped' = stopped /\ paused' = paused
    BY <1>4 DEF NextEvent
  <2> QED BY <1>0, <2>1 DEF PausePlace, AtThePause
<1>5. CASE PlayTail
  <2>1. /\ pc = "tail" /\ pc' = "controls" /\ restart' = restart
        /\ stopped' = stopped /\ paused' = paused
    BY <1>5 DEF PlayTail
  <2> QED BY <1>0, <2>1 DEF PausePlace, AtThePause
<1>6. CASE FlushTail \/ Drained
  <2>1. /\ pc' = "drain" \/ (pc' = "closed" /\ rc' = "end")
        /\ paused' = paused
    BY <1>6 DEF FlushTail, Drained
  <2> QED BY <1>0, <2>1 DEF PausePlace
<1> QED BY <1>1, <1>2, <1>3, <1>4, <1>5, <1>6

LEMMA PauseInControls ==
    ASSUME PInv, ApplyControls
    PROVE  /\ PausePlace'
           /\ paused /\ ~paused' => offset' = restart
<1>0. PausePlace /\ KeepsPause /\ tail \in Nat /\ pc = "controls"
  BY DEF PInv, IInv, ApplyControls, Previous, LeaveTune, PausedRestart, PausedJump,
         PausedForward, PausedBack, MovePause, Restart, Jump, Forward, Back, Pause,
         Resume, Renew, SyncIfTraced, Refresh, ChangeSpeed, ReloadTune, RefuseRate,
         NoControl, Control
<1> USE DEF mode, ghosts, stray, unmoved
<1>1. CASE Previous \/ \E command \in Commands : LeaveTune(command)
  <2>1. /\ \E code : ReturnRc(code) /\ code \notin {"none", "jump", "reload"}
        /\ restart' = restart /\ stopped' = stopped /\ paused' = paused
    BY <1>1 DEF Previous, LeaveTune, Skips
  <2>2. pc' = "tail" \/ (pc' = "closed" /\ rc' # "reload")
    BY <1>0, <2>1 DEF ReturnRc, HandedOn
  <2> QED BY <1>0, <2>1, <2>2 DEF PausePlace, AtThePause
<1>2. CASE PausedRestart \/ PausedJump \/ PausedForward \/ PausedBack
  <2>1. restart' = stopped' /\ paused' = paused /\ pc' = pc
    BY <1>2 DEF PausedRestart, PausedJump, PausedForward, PausedBack, MovePause, Continue
  <2> QED BY <1>0, <2>1 DEF PausePlace, AtThePause
<1>3. CASE Restart \/ Jump \/ Forward \/ Back \/ NoControl
  <2>1. ~paused' /\ ~paused
    BY <1>3 DEF Restart, Jump, Forward, Back, NoControl
  <2>2. pc' \notin {"load", "start"} /\ ~(pc' = "closed" /\ rc' = "reload")
    BY <1>0, <1>3 DEF Restart, Jump, Forward, Back, NoControl, GoTo, Continue, ReturnRc,
                      HandedOn
  <2> QED BY <2>1, <2>2, NotPaused
<1>4. CASE Pause
  <2>1. /\ restart' = stopped' /\ pc' = pc /\ paused' /\ ~paused
        /\ "pause" \in Commands
    BY <1>4 DEF Pause, Continue, Control, Reads
  <2> QED BY <1>0, <2>1 DEF PausePlace, AtThePause
<1>5. CASE Resume
  <2>1. ~paused' /\ pc' = pc /\ offset' = restart
    BY <1>5 DEF Resume, Continue, SkipTo
  <2> QED BY <1>0, <2>1, NotPaused
<1>6. CASE Renew \/ SyncIfTraced \/ Refresh
  <2>1. restart' = restart /\ stopped' = stopped /\ paused' = paused /\ pc' = pc
    BY <1>6 DEF Renew, SyncIfTraced, Refresh, Continue
  <2> QED BY <1>0, <2>1 DEF PausePlace, AtThePause
<1>7. CASE ChangeSpeed \/ ReloadTune \/ RefuseRate
  <2>1. "pause" \notin Commands
    BY <1>0, <1>7 DEF ChangeSpeed, ReloadTune, RefuseRate, Control, Reads, KeepsPause
  <2>2. ~paused' /\ ~paused
    BY <1>0, <1>7, <2>1 DEF ChangeSpeed, ReloadTune, RefuseRate, PausePlace
  <2> QED BY <2>1, <2>2 DEF PausePlace
<1> QED BY <1>1, <1>2, <1>3, <1>4, <1>5, <1>6, <1>7 DEF ApplyControls

LEMMA PInvStep == PInv /\ [Next]_vars => PInv'
<1> SUFFICES ASSUME PInv, [Next]_vars PROVE PInv'
  OBVIOUS
<1>1. KeepsPause' /\ IInv'
  BY NextKeeps DEF PInv, KeepsPause
<1>2. CASE UNCHANGED vars
  BY <1>1, <1>2 DEF PInv, PausePlace, AtThePause, vars
<1> QED BY <1>1, <1>2, PauseOutside, PauseInTune, PauseInControls DEF PInv, Next

\* A paused tune goes on where it was paused, or where the user moved it in the
\* pause, though midi_restart_time is written for two other purposes.
THEOREM PauseResumes == KeepsPause /\ Spec => ResumesThere
<1>1. KeepsPause /\ Init => PInv
  BY InitIInv DEF Init, PInv, PausePlace
<1> DEFINE A == pc = "controls" /\ paused /\ ~paused' =>
                   offset' = stopped \/ (stopped = 0 /\ offset' = 1)
<1>2. PInv /\ [Next]_vars => [A]_vars
  <2> SUFFICES ASSUME PInv, Next, pc = "controls", paused, ~paused'
               PROVE  offset' = stopped \/ (stopped = 0 /\ offset' = 1)
    OBVIOUS
  <2>1. ApplyControls
    BY DEF Next, SkipFile, FlushPoll, PlayMidiFile, LoadFile, PlayMidi, Closed, Reload,
           PlayEvent, Render, RenderFails, Apply, NextEvent, PlayTail, FlushTail, Drained
  <2>2. AtThePause
    BY DEF PInv, PausePlace
  <2> QED BY <2>1, <2>2, PauseInControls DEF AtThePause
<1>3. KeepsPause /\ Spec => [][A]_vars
  <2> HIDE DEF A
  <2> QED BY <1>1, <1>2, PInvStep, PTL DEF Spec
<1> QED BY <1>3 DEF ResumesThere

-----------------------------------------------------------------------------
(* The list of events.                                                        *)

AnyKind == Kinds \cup {"none", "note", "off", "on", "step"}
Marks == {<<>>, 0} \cup Keys \cup (Nat \X Nat)

Due == [kind : AnyKind, time : Nat, mark : Marks]
Listed == [kind : AnyKind, time : Nat, mark : Marks, id : Nat]
Table == Seq([time : Nat, sig : {Sigs[s] : s \in DOMAIN Sigs}])

(* ListInOrder is not inductive: an event must be due at a time the list has  *)
(* begun at, so the readers must not go back behind 0, and its number must be *)
(* the highest so far.                                                        *)

ListType ==
    /\ evlist \in Seq(Listed) /\ Count \in Nat \ {0}
    /\ evlist[1].time = 0
    /\ \A i \in 1 .. Count : evlist[i].id < Count

ReadersType ==
    /\ pending \in Seq(Due)
    /\ track \in [no : Nat, at : Nat, seen : BOOLEAN, cc : BOOLEAN,
                  over : BOOLEAN, reads : Nat]
    /\ held \in [on : Nat \cup {-1}, off : Nat, key : Keys \cup {0}]

BarsType ==
    /\ bars \in [sigs : Table, i : Nat \ {0}, last : Nat, at : Nat, n : Nat,
                 meas : Nat, beat : Nat]
    /\ bars.n \in 0 .. Len(bars.sigs)
    /\ bars.n = 0 => bars.at = 0

\* The beats begin at 0, so the first signature must.
SigsBegin ==
    /\ bars.sigs # <<>> => bars.sigs[1].time = 0
    /\ phase = "steps" => bars.sigs # <<>>

ListInv == ListType /\ ListInOrder /\ ReadersType /\ BarsType /\ SigsBegin

-----------------------------------------------------------------------------
(* Facts about sequences.                                                     *)

LEMMA FunctionIsSeq ==
    ASSUME NEW S, NEW n \in Nat, NEW f \in [1 .. n -> S]
    PROVE  f \in Seq(S) /\ Len(f) = n /\ DOMAIN f = 1 .. n
<1>1. f \in Seq(S)
  BY SeqDef
<1>2. DOMAIN f = 1 .. n /\ DOMAIN f = 1 .. Len(f) /\ Len(f) \in Nat
  BY <1>1, LenProperties
<1> QED BY <1>1, <1>2

LEMMA Short ==
    ASSUME NEW S, NEW a \in S, NEW b \in S, NEW c \in S
    PROVE  <<>> \in Seq(S) /\ <<a>> \in Seq(S) /\ <<a, b>> \in Seq(S)
             /\ <<a, b, c>> \in Seq(S)
OBVIOUS

LEMMA EventDue ==
    ASSUME NEW kind \in AnyKind, NEW time \in Nat, NEW mark \in Marks
    PROVE  Event(kind, time, mark) \in Due
BY DEF Event, Due

\* The place where the walk stops: not before the head, behind what is due earlier
\* or at the same time, and before what is due later.
LEMMA PlaceFits ==
    ASSUME ListType, ListInOrder, NEW k \in 0 .. Count, NEW when \in Nat,
           StopsAt(k, when)
    PROVE  /\ k >= 1 /\ evlist[k].time <= when
           /\ k < Count => evlist[k + 1].time > when
<1> DEFINE T(i) == evlist[i].time
<1>1. \A i \in 1 .. Count : T(i) \in Nat
  <2>1. \A i \in 1 .. Count : evlist[i] \in Listed
    BY ElementOfSeq DEF ListType, Count
  <2> QED BY <2>1 DEF Listed
<1>2. point \in 1 .. Count /\ Count \in Nat
  BY DEF ListInOrder, ListType
<1>3. CASE when >= T(point)
  <2>1. k >= point /\ \A j \in point + 1 .. k : T(j) <= when
    BY <1>3, <1>1, <1>2 DEF StopsAt
  <2>2. k < Count => T(k + 1) > when
    BY <1>3, <1>1, <1>2 DEF StopsAt
  <2>3. T(k) <= when
    BY <1>3, <1>1, <1>2, <2>1
  <2> QED BY <1>2, <2>1, <2>2, <2>3
<1>4. CASE when < T(point)
  <2>1. k < point /\ \A j \in k + 1 .. point - 1 : T(j) > when
    BY <1>4, <1>1, <1>2 DEF StopsAt
  <2>2. k > 0 => T(k) <= when
    BY <1>4, <1>1, <1>2 DEF StopsAt
  <2>3. T(k + 1) > when
    BY <1>4, <1>1, <1>2, <2>1
  <2>4. k # 0
    BY <2>3 DEF ListType
  <2> QED BY <1>2, <2>2, <2>3, <2>4
<1> QED BY <1>1, <1>2, <1>3, <1>4

\* The list with a new event in its place.
LEMMA AddKeeps ==
    ASSUME ListType, ListInOrder, NEW k \in 1 .. Count, NEW e \in Listed,
           e.id = Count, evlist[k].time <= e.time,
           k < Count => evlist[k + 1].time > e.time,
           evlist' = PutAfter(k, e), point' = k + 1
    PROVE  ListType' /\ ListInOrder'
<1> DEFINE N == Len(evlist)
           new == PutAfter(k, e)
<1>1. N \in Nat \ {0} /\ \A i \in 1 .. N : evlist[i] \in Listed
  BY ElementOfSeq DEF ListType, Count
<1>2. \A i \in 1 .. N + 1 :
          new[i] = IF i <= k THEN evlist[i] ELSE IF i = k + 1 THEN e ELSE evlist[i - 1]
  BY DEF PutAfter, Count
<1>3. new \in [1 .. N + 1 -> Listed]
  <2>1. \A i \in 1 .. N + 1 : new[i] \in Listed
    BY <1>1, <1>2 DEF Count
  <2> QED BY <2>1 DEF PutAfter, Count
<1>4. new \in Seq(Listed) /\ Len(new) = N + 1
  BY <1>1, <1>3, FunctionIsSeq
<1>5. \A i \in 1 .. N : evlist[i].id \in Nat /\ evlist[i].id < N /\ evlist[i].time \in Nat
  BY <1>1 DEF ListType, Listed, Count
<1>6. e.time \in Nat /\ e.id = N
  BY DEF Listed, Count
<1>7. \A i \in 1 .. N - 1 :
         \/ evlist[i].time < evlist[i + 1].time
         \/ evlist[i].time = evlist[i + 1].time /\ evlist[i].id < evlist[i + 1].id
  BY DEF ListInOrder, Count
<1>8. k \in 1 .. N /\ evlist[k].time <= e.time
         /\ (k < N => evlist[k + 1].time > e.time)
  BY DEF Count
<1> HIDE DEF N, new
<1>9. \A i \in 1 .. N + 1 : new[i].id < N + 1
  BY <1>1, <1>2, <1>5, <1>6, <1>8
<1>10. new[1] = evlist[1]
  BY <1>1, <1>2, <1>8
<1>11. \A i \in 1 .. N :
          \/ new[i].time < new[i + 1].time
          \/ new[i].time = new[i + 1].time /\ new[i].id < new[i + 1].id
  <2> SUFFICES ASSUME NEW i \in 1 .. N
               PROVE  \/ new[i].time < new[i + 1].time
                      \/ new[i].time = new[i + 1].time /\ new[i].id < new[i + 1].id
    OBVIOUS
  <2>1. CASE i < k
    <3>1. new[i] = evlist[i] /\ new[i + 1] = evlist[i + 1] /\ i \in 1 .. N - 1
      BY <2>1, <1>1, <1>2, <1>8
    <3> QED BY <3>1, <1>7
  <2>2. CASE i = k
    <3>1. new[i] = evlist[k] /\ new[i + 1] = e
      BY <2>2, <1>1, <1>2, <1>8
    <3> QED BY <3>1, <1>5, <1>6, <1>8
  <2>3. CASE i = k + 1
    <3>1. new[i] = e /\ new[i + 1] = evlist[k + 1] /\ k < N
      BY <2>3, <1>1, <1>2, <1>8
    <3> QED BY <3>1, <1>8, <1>5, <1>6
  <2>4. CASE i > k + 1
    <3>1. new[i] = evlist[i - 1] /\ new[i + 1] = evlist[i] /\ i - 1 \in 1 .. N - 1
            /\ (i - 1) + 1 = i
      BY <2>4, <1>1, <1>2, <1>8
    <3>2. \/ evlist[i - 1].time < evlist[(i - 1) + 1].time
          \/ /\ evlist[i - 1].time = evlist[(i - 1) + 1].time
             /\ evlist[i - 1].id < evlist[(i - 1) + 1].id
      BY <3>1, <1>7
    <3> QED BY <3>1, <3>2
  <2> QED BY <2>1, <2>2, <2>3, <2>4, <1>1, <1>8
<1>12. evlist' = new /\ Count' = N + 1
  BY <1>4 DEF Count, new
<1>13. ListType'
  BY <1>1, <1>4, <1>9, <1>10, <1>12 DEF ListType
<1>14. ListInOrder'
  <2>1. point' \in 1 .. N + 1
    BY <1>1, <1>8
  <2>2. evlist'[1].id = 0
    BY <1>10, <1>12 DEF ListInOrder
  <2>3. (Count - 1)' = N
    BY <1>1, <1>12
  <2> QED BY <1>11, <1>12, <2>1, <2>2, <2>3 DEF ListInOrder
<1> QED BY <1>13, <1>14

\* What a step leaves alone stays as it is.
LEMMA SameList ==
    ASSUME ListType, ListInOrder, evlist' = evlist, point' \in 1 .. Count
    PROVE  ListType' /\ ListInOrder'
BY DEF ListType, ListInOrder, Count

LEMMA SamePoint ==
    ASSUME ListType, ListInOrder, evlist' = evlist, point' = point
    PROVE  ListType' /\ ListInOrder'
BY SameList DEF ListInOrder

LEMMA SameReaders ==
    ASSUME ReadersType, UNCHANGED <<pending, track, held>>
    PROVE  ReadersType'
BY DEF ReadersType

LEMMA SameBars ==
    ASSUME BarsType, SigsBegin, bars' = bars, phase' = "steps" => phase = "steps"
    PROVE  BarsType' /\ SigsBegin'
BY DEF BarsType, SigsBegin

LEMMA ListInvInit == ReadInit => ListInv
<1> SUFFICES ASSUME ReadInit PROVE ListInv
  OBVIOUS
<1> DEFINE head == [kind |-> "none", time |-> 0, mark |-> <<>>, id |-> 0]
<1>1. head \in Listed /\ evlist = <<head>>
  BY DEF ReadInit, Listed, AnyKind, Marks
<1>2. evlist \in Seq(Listed) /\ Len(evlist) = 1 /\ evlist[1] = head
  BY <1>1, Short
<1>3. ListType
  BY <1>2 DEF ListType, Count
<1>4. ListInOrder
  BY <1>2 DEF ListInOrder, Count, ReadInit
<1>5. pending \in Seq(Due)
  BY Short DEF ReadInit
<1>6. track \in [no : Nat, at : Nat, seen : BOOLEAN, cc : BOOLEAN,
                 over : BOOLEAN, reads : Nat]
  BY DEF ReadInit, TrackAt
<1>7. held \in [on : Nat \cup {-1}, off : Nat, key : Keys \cup {0}]
  BY DEF ReadInit, NoNote
<1>8. BarsType /\ SigsBegin
  BY DEF ReadInit, NoBars, BarsType, SigsBegin, Table
<1> QED BY <1>3, <1>4, <1>5, <1>6, <1>7, <1>8 DEF ListInv, ReadersType

LEMMA AddEventKeeps ==
    ASSUME ListInv, AddEvent
    PROVE  ListInv'
<1> DEFINE e == Head(pending)
           entry == [kind |-> e.kind, time |-> e.time, mark |-> e.mark, id |-> Count]
<1>1. e \in Due /\ Tail(pending) \in Seq(Due)
  BY HeadTailProperties DEF ListInv, ReadersType, AddEvent
<1>2. Count \in Nat \ {0} /\ ListType /\ ListInOrder
  BY DEF ListInv, ListType
<1>3. entry \in Listed /\ entry.id = Count /\ entry.time = e.time /\ e.time \in Nat
  BY <1>1, <1>2 DEF Due, Listed
<1>4. PICK k \in 0 .. Count :
          StopsAt(k, e.time) /\ evlist' = PutAfter(k, entry) /\ point' = k + 1
  BY DEF AddEvent
<1>5. /\ k \in 1 .. Count /\ evlist[k].time <= entry.time
      /\ k < Count => evlist[k + 1].time > entry.time
  <2>1. k >= 1 /\ evlist[k].time <= e.time
          /\ (k < Count => evlist[k + 1].time > e.time)
    BY <1>2, <1>3, <1>4, PlaceFits
  <2> QED BY <2>1, <1>2, <1>3
<1> HIDE DEF entry, e
<1>6. ListType' /\ ListInOrder'
  BY <1>2, <1>3, <1>4, <1>5, AddKeeps
<1>7. ReadersType'
  BY <1>1 DEF e, ListInv, ReadersType, AddEvent
<1>8. BarsType' /\ SigsBegin'
  BY SameBars DEF ListInv, AddEvent
<1> QED BY <1>6, <1>7, <1>8 DEF ListInv

\* A step of a reader adds nothing yet.
LEMMA ReaderKeeps ==
    ASSUME ListInv, UNCHANGED <<evlist, point, bars>>, ReadersType',
           phase' = "steps" => phase = "steps"
    PROVE  ListInv'
BY SamePoint, SameBars DEF ListInv

LEMMA DropEventKeeps ==
    ASSUME ListInv, DropEvent
    PROVE  ListInv'
<1>1. Tail(pending) \in Seq(Due)
  BY HeadTailProperties DEF ListInv, ReadersType, DropEvent
<1> QED BY <1>1, ReaderKeeps DEF ListInv, ReadersType, DropEvent

LEMMA ReadEventKeeps ==
    ASSUME ListInv, NEW d \in Deltas, NEW kind \in Kinds, ReadEvent(d, kind)
    PROVE  ListInv'
<1>1. track.at + d \in Nat /\ track.reads + 1 \in Nat
  BY EventAssumption DEF ListInv, ReadersType
<1>2. Added(kind, track.at + d) \in Seq(Due)
  <2>1. Event(kind, track.at + d, <<>>) \in Due /\ Event("note", 0, <<>>) \in Due
          /\ Event("off", 0, <<>>) \in Due /\ Event("note", track.at + d, <<>>) \in Due
    BY <1>1, EventDue DEF AnyKind, Marks
  <2> QED BY <2>1, Short DEF Added
<1>3. ReadersType'
  BY <1>1, <1>2 DEF ListInv, ReadersType, ReadEvent
<1> QED BY <1>3, ReaderKeeps DEF ReadEvent

LEMMA EndTrackKeeps ==
    ASSUME ListInv, EndTrack
    PROVE  ListInv'
<1>1. Event("none", track.at, <<>>) \in Due
  BY EventDue DEF ListInv, ReadersType, AnyKind, Marks
<1>2. pending' \in Seq(Due)
  BY <1>1, Short DEF EndTrack
<1>3. ReadersType'
  BY <1>2 DEF ListInv, ReadersType, EndTrack
<1> QED BY <1>3, ReaderKeeps DEF EndTrack

LEMMA SetTrackKeeps ==
    ASSUME ListInv, SetTrack
    PROVE  ListInv'
<1>1. CASE track.no = Tracks
  BY <1>1, ReaderKeeps, SameReaders DEF SetTrack, ListInv
<1>2. CASE track.no # Tracks
  <2>1. point' \in 1 .. Count
    BY <1>2 DEF SetTrack, ListInv, ListType
  <2>2. evlist[point'].time \in Nat
    <3>1. evlist[point'] \in Listed
      BY <2>1, ElementOfSeq DEF ListInv, ListType, Count
    <3> QED BY <3>1 DEF Listed
  <2>3. track' \in [no : Nat, at : Nat, seen : BOOLEAN, cc : BOOLEAN,
                    over : BOOLEAN, reads : Nat]
    <3>1. track.no + 1 \in Nat /\ track.reads \in Nat
      BY DEF ListInv, ReadersType
    <3>2. track' = TrackAt(track.no + 1, evlist[point'].time, track.reads)
      BY <1>2 DEF SetTrack
    <3> QED BY <2>2, <3>1, <3>2 DEF TrackAt
  <2>4. ReadersType'
    BY <2>3 DEF SetTrack, ListInv, ReadersType
  <2>5. ListType' /\ ListInOrder'
    BY <2>1, SameList DEF SetTrack, ListInv
  <2>6. BarsType' /\ SigsBegin'
    BY <1>2, SameBars DEF SetTrack, ListInv
  <2> QED BY <2>4, <2>5, <2>6 DEF ListInv
<1> QED BY <1>1, <1>2

LEMMA BreakOffKeeps ==
    ASSUME ListInv, BreakOff \/ MfiFail
    PROVE  ListInv'
BY ReaderKeeps, SameReaders DEF BreakOff, MfiFail, ListInv

\* The note that is held back is due at its own times.
LEMMA SentDue ==
    ASSUME ListInv
    PROVE  Sent \in Seq(Due)
<1>1. CASE held.on = -1
  BY <1>1, Short DEF Sent
<1>2. CASE held.on # -1
  <2>1. held.on \in Nat /\ held.off \in Nat /\ held.key \in Marks
    BY <1>2 DEF ListInv, ReadersType, Marks
  <2>2. Event("on", held.on, held.key) \in Due /\ Event("off", held.off, held.key) \in Due
    BY <2>1, EventDue DEF AnyKind
  <2> QED BY <1>2, <2>2, Short DEF Sent
<1> QED BY <1>1, <1>2

LEMMA MfiNoteKeeps ==
    ASSUME ListInv, NEW d \in Deltas, NEW key \in Keys, NEW length \in Deltas,
           MfiNote(d, key, length)
    PROVE  ListInv'
<1>1. track.at + d \in Nat /\ track.at + d + length \in Nat /\ track.reads + 1 \in Nat
  BY EventAssumption DEF ListInv, ReadersType
<1>2. pending' \in Seq(Due)
  BY SentDue DEF MfiNote, ListInv, ReadersType
<1>3. held' \in [on : Nat \cup {-1}, off : Nat, key : Keys \cup {0}]
  BY <1>1 DEF MfiNote, ListInv, ReadersType
<1>4. ReadersType'
  BY <1>1, <1>2, <1>3 DEF MfiNote, ListInv, ReadersType
<1> QED BY <1>4, ReaderKeeps DEF MfiNote

LEMMA MfiControlKeeps ==
    ASSUME ListInv, NEW d \in Deltas, NEW kind \in Kinds, MfiControl(d, kind)
    PROVE  ListInv'
<1>1. track.at + d \in Nat /\ track.reads + 1 \in Nat
  BY EventAssumption DEF ListInv, ReadersType
<1>2. <<Event(kind, track.at + d, <<>>)>> \in Seq(Due)
  BY <1>1, EventDue, Short DEF AnyKind, Marks
<1>3. pending' \in Seq(Due)
  BY <1>2, SentDue, Short, ConcatProperties DEF MfiControl
<1>4. held' \in [on : Nat \cup {-1}, off : Nat, key : Keys \cup {0}]
  BY DEF MfiControl, NoNote, ListInv, ReadersType
<1>5. ReadersType'
  BY <1>1, <1>3, <1>4 DEF MfiControl, ListInv, ReadersType
<1> QED BY <1>5, ReaderKeeps DEF MfiControl

LEMMA MfiEndKeeps ==
    ASSUME ListInv, MfiEnd
    PROVE  ListInv'
<1>1. ReadersType'
  BY SentDue DEF MfiEnd, NoNote, ListInv, ReadersType
<1> QED BY <1>1, ReaderKeeps DEF MfiEnd

\* The table of signatures grows, and begins at 0.
LEMMA WithSigTable ==
    ASSUME ListInv, NEW e \in Listed, Signature(e.kind)
    PROVE  /\ WithSig(e) \in Table /\ WithSig(e) # <<>>
           /\ WithSig(e)[1].time = 0
           /\ Len(WithSig(e)) >= Len(bars.sigs)
<1> DEFINE Row == [time : Nat, sig : {Sigs[s] : s \in DOMAIN Sigs}]
           default == [time |-> 0, sig |-> Common]
           table == IF bars.sigs = <<>> /\ e.time > 0 THEN <<default>> ELSE bars.sigs
           entry == [time |-> e.time, sig |-> Sigs[e.kind]]
           last == Len(table)
<1>1. default \in Row /\ entry \in Row /\ e.time \in Nat
  BY EventAssumption DEF Common, Listed, Signature
<1>2. bars.sigs \in Seq(Row) /\ (bars.sigs # <<>> => bars.sigs[1].time = 0)
  BY DEF ListInv, BarsType, SigsBegin, Table
<1>3. table \in Seq(Row) /\ Len(table) >= Len(bars.sigs)
        /\ (table = <<>> => e.time = 0) /\ (table # <<>> => table[1].time = 0)
  <2>1. CASE bars.sigs = <<>> /\ e.time > 0
    <3>1. table = <<default>> /\ Len(bars.sigs) = 0
      BY <2>1
    <3> HIDE DEF table
    <3>2. table \in Seq(Row) /\ Len(table) = 1 /\ table[1] = default /\ table # <<>>
      BY <1>1, <3>1, Short
    <3> QED BY <3>1, <3>2
  <2>2. CASE ~(bars.sigs = <<>> /\ e.time > 0)
    <3>1. table = bars.sigs
      BY <2>2
    <3>2. Len(bars.sigs) \in Nat
      BY <1>2, LenProperties
    <3> QED BY <1>1, <1>2, <2>2, <3>1, <3>2
  <2> QED BY <2>1, <2>2
<1>4. WithSig(e) = IF table = <<>> THEN <<entry>>
                   ELSE IF table[last].sig = entry.sig THEN table
                   ELSE IF table[last].time = entry.time
                   THEN [table EXCEPT ![last] = entry]
                   ELSE Append(table, entry)
  BY DEF WithSig
<1> HIDE DEF table, entry, Row
<1>5. CASE table = <<>>
  BY <1>1, <1>3, <1>4, <1>5, Short DEF Table, Row, entry
<1>6. CASE table # <<>>
  <2>1. last \in Nat \ {0}
    BY <1>3, <1>6, EmptySeq
  <2>2. /\ Append(table, entry) \in Seq(Row) /\ Len(Append(table, entry)) = last + 1
        /\ Append(table, entry)[1] = table[1]
    BY <1>1, <1>3, <2>1
  <2>3. /\ [table EXCEPT ![last] = entry] \in Seq(Row)
        /\ Len([table EXCEPT ![last] = entry]) = last
        /\ [table EXCEPT ![last] = entry][1] = IF last = 1 THEN entry ELSE table[1]
    BY <1>1, <1>3, <2>1, ExceptSeq
  <2>4. last = 1 /\ table[last].time = entry.time => entry.time = 0
    BY <1>3, <1>6
  <2>5. Len(bars.sigs) \in Nat /\ Seq(Row) = Table
    BY <1>2, LenProperties DEF Table, Row
  <2>6. CASE table[last].sig = entry.sig
    BY <1>3, <1>4, <1>6, <2>5, <2>6
  <2>7. CASE table[last].sig # entry.sig /\ table[last].time = entry.time
    <3>1. WithSig(e) = [table EXCEPT ![last] = entry]
      BY <1>4, <1>6, <2>7
    <3>2. WithSig(e)[1].time = 0
      BY <1>3, <1>6, <2>3, <2>4, <2>7, <3>1
    <3>3. WithSig(e) \in Table /\ Len(WithSig(e)) = last
      BY <2>3, <2>5, <3>1
    <3>4. WithSig(e) # <<>>
      BY <2>1, <3>3
    <3> QED BY <1>3, <3>2, <3>3, <3>4
  <2>8. CASE table[last].sig # entry.sig /\ table[last].time # entry.time
    <3>1. WithSig(e) = Append(table, entry)
      BY <1>4, <1>6, <2>8
    <3>2. WithSig(e)[1].time = 0
      BY <1>3, <1>6, <2>2, <3>1
    <3>3. WithSig(e) \in Table /\ Len(WithSig(e)) = last + 1
      BY <2>2, <2>5, <3>1
    <3>4. WithSig(e) # <<>>
      BY <2>1, <3>3
    <3> QED BY <1>3, <2>1, <2>5, <3>2, <3>3, <3>4
  <2> QED BY <2>6, <2>7, <2>8
<1> QED BY <1>5, <1>6

LEMMA ReadSigKeeps ==
    ASSUME ListInv, ReadSig
    PROVE  ListInv'
<1>1. bars.i \in 1 .. Count
  BY DEF ListInv, BarsType, ReadSig, ListType
<1>2. evlist[bars.i] \in Listed
  BY <1>1, ElementOfSeq DEF ListInv, ListType, Count
<1>3. /\ bars'.sigs \in Table /\ Len(bars'.sigs) >= Len(bars.sigs)
      /\ (bars'.sigs # <<>> => bars'.sigs[1].time = 0)
  BY <1>2, WithSigTable DEF ReadSig, ListInv, BarsType, SigsBegin, Table
<1>5. Len(bars.sigs) \in Nat /\ Len(bars'.sigs) \in Nat
  BY <1>3 DEF ListInv, BarsType, Table
<1>6. BarsType'
  <2>1. bars' \in [sigs : Table, i : Nat \ {0}, last : Nat, at : Nat, n : Nat,
                   meas : Nat, beat : Nat]
    <3>1. bars.i + 1 \in Nat \ {0}
      BY DEF ListInv, BarsType
    <3> QED BY <1>3, <3>1 DEF ReadSig, ListInv, BarsType
  <2>2. bars'.n = bars.n /\ bars'.at = bars.at
    BY DEF ReadSig, ListInv, BarsType
  <2> QED BY <1>3, <1>5, <2>1, <2>2 DEF ListInv, BarsType
<1>7. SigsBegin'
  BY <1>3 DEF SigsBegin, ReadSig
<1> QED BY <1>6, <1>7, SamePoint, SameReaders DEF ListInv, ReadSig

LEMMA SigsReadKeeps ==
    ASSUME ListInv, SigsRead
    PROVE  ListInv'
<1> DEFINE default == <<[time |-> 0, sig |-> Common]>>
<1>1. default \in Table /\ Len(default) = 1 /\ default[1].time = 0 /\ default # <<>>
  BY EventAssumption DEF Table, Common
<1>2. evlist[Count].time \in Nat
  <2>1. evlist[Count] \in Listed
    BY ElementOfSeq DEF ListInv, ListType, Count
  <2> QED BY <2>1 DEF Listed
<1>3. bars'.sigs = IF bars.sigs = <<>> THEN default ELSE bars.sigs
  BY DEF SigsRead, ListInv, BarsType
<1>5. bars'.sigs \in Table /\ Len(bars'.sigs) >= Len(bars.sigs)
        /\ bars'.sigs # <<>> /\ bars'.sigs[1].time = 0
  <2>1. CASE bars.sigs = <<>>
    <3>1. bars'.sigs = default
      BY <1>3, <2>1
    <3>2. Len(bars.sigs) = 0
      BY <2>1
    <3> HIDE DEF default
    <3> QED BY <1>1, <3>1, <3>2
  <2>2. CASE bars.sigs # <<>>
    <3>1. Len(bars.sigs) \in Nat /\ bars.sigs \in Table
      BY LenProperties DEF ListInv, BarsType, Table
    <3> QED BY <1>3, <2>2, <3>1 DEF ListInv, SigsBegin
  <2> QED BY <2>1, <2>2
<1>6. Len(bars.sigs) \in Nat /\ Len(bars'.sigs) \in Nat
  BY <1>5 DEF ListInv, BarsType, Table
<1>7. BarsType'
  <2>1. bars' \in [sigs : Table, i : Nat \ {0}, last : Nat, at : Nat, n : Nat,
                   meas : Nat, beat : Nat]
    <3> HIDE DEF default
    <3> QED BY <1>1, <1>2 DEF SigsRead, ListInv, BarsType, default
  <2>2. bars'.n = bars.n /\ bars'.at = bars.at
    BY DEF SigsRead, ListInv, BarsType
  <2> QED BY <1>5, <1>6, <2>1, <2>2 DEF ListInv, BarsType
<1>8. SigsBegin'
  BY <1>5 DEF SigsBegin
<1>9. ListType' /\ ListInOrder'
  BY SameList DEF SigsRead, ListInv, ListType
<1> QED BY <1>7, <1>8, <1>9, SameReaders DEF ListInv, SigsRead

\* Once a beat has been set there is a signature for it, and its length is known.
LEMMA NoteStepKeeps ==
    ASSUME ListInv, NoteStep
    PROVE  ListInv'
<1> DEFINE b == Begun
           N == Len(bars.sigs)
<1>1. N \in Nat \ {0} /\ bars.sigs[1].time = 0 /\ bars.sigs \in Table
  BY EmptySeq DEF ListInv, SigsBegin, NoteStep, BarsType, Table
<1>2. bars.n \in 0 .. N /\ bars.at \in Nat /\ (bars.n = 0 => bars.at = 0)
        /\ bars.beat \in Nat /\ bars.meas \in Nat
  BY DEF ListInv, BarsType
<1>3. \A n \in 1 .. N : bars.sigs[n].time \in Nat /\ bars.sigs[n].sig.ticks \in Nat
  <2> SUFFICES ASSUME NEW n \in 1 .. N
               PROVE  bars.sigs[n].time \in Nat /\ bars.sigs[n].sig.ticks \in Nat
    OBVIOUS
  <2>1. bars.sigs[n] \in [time : Nat, sig : {Sigs[s] : s \in DOMAIN Sigs}]
    BY <1>1, ElementOfSeq DEF Table
  <2> HIDE DEF N
  <2> QED BY <2>1, EventAssumption
<1>4. /\ b \in [sigs : Table, i : Nat \ {0}, last : Nat, at : Nat, n : Nat,
                meas : Nat, beat : Nat]
      /\ b.n \in 1 .. N /\ b.sigs = bars.sigs /\ b.at = bars.at
  <2>1. bars \in [sigs : Table, i : Nat \ {0}, last : Nat, at : Nat, n : Nat,
                  meas : Nat, beat : Nat]
    BY DEF ListInv, BarsType
  <2>2. CASE bars.n + 1 <= N /\ bars.at >= bars.sigs[bars.n + 1].time
    <3>1. b = [bars EXCEPT !.n = bars.n + 1, !.beat = 0,
                           !.meas = bars.meas + (IF bars.beat # 0 THEN 1 ELSE 0)]
      BY <2>1, <2>2 DEF Begun
    <3>2. bars.n + 1 \in 1 .. N /\ bars.meas + (IF bars.beat # 0 THEN 1 ELSE 0) \in Nat
      BY <1>1, <1>2, <2>2
    <3> DEFINE n == bars.n + 1
               m == bars.meas + (IF bars.beat # 0 THEN 1 ELSE 0)
    <3>3. b = [bars EXCEPT !.n = n, !.beat = 0, !.meas = m]
      BY <3>1
    <3>4. n \in 1 .. N /\ n \in Nat /\ m \in Nat
      BY <1>1, <3>2
    <3> HIDE DEF b, N, n, m
    <3> QED BY <2>1, <3>3, <3>4
  <2>3. CASE ~(bars.n + 1 <= N /\ bars.at >= bars.sigs[bars.n + 1].time)
    <3>1. b = bars
      BY <2>3 DEF Begun
    <3>2. bars.n # 0
      BY <1>1, <1>2, <2>3
    <3> HIDE DEF b, N
    <3> QED BY <1>1, <1>2, <2>1, <3>1, <3>2
  <2> QED BY <2>2, <2>3
<1>5. Event("step", bars.at, <<b.meas + 1, b.beat + 1>>) \in Due
  <2>1. b.meas + 1 \in Nat /\ b.beat + 1 \in Nat
    BY <1>4
  <2>2. <<b.meas + 1, b.beat + 1>> \in Marks
    BY <2>1 DEF Marks
  <2> QED BY <1>2, <2>2, EventDue DEF AnyKind
<1>6. ReadersType'
  BY <1>5, Short DEF NoteStep, ListInv, ReadersType
<1> HIDE DEF b
<1>7. bars' = Beaten(b)
  BY DEF NoteStep, b
<1>8. b.sigs[b.n].sig.ticks \in Nat
  BY <1>3, <1>4
<1>9. BarsType' /\ bars'.sigs = bars.sigs
  <2>1. b.at + b.sigs[b.n].sig.ticks \in Nat /\ b.beat + 1 \in Nat /\ b.meas + 1 \in Nat
    BY <1>4, <1>8
  <2>2. bars' \in [sigs : Table, i : Nat \ {0}, last : Nat, at : Nat, n : Nat,
                   meas : Nat, beat : Nat]
          /\ bars'.n = b.n /\ bars'.sigs = b.sigs
    BY <1>4, <1>7, <2>1 DEF Beaten
  <2> QED BY <1>1, <1>4, <2>2 DEF BarsType
<1>10. SigsBegin'
  BY <1>9 DEF SigsBegin, ListInv, NoteStep
<1>11. ListType' /\ ListInOrder'
  BY SamePoint DEF NoteStep, ListInv
<1> QED BY <1>6, <1>9, <1>10, <1>11 DEF ListInv

\* groom_list only reads the list.
LEMMA GroomKeeps ==
    ASSUME ListInv, StartGroom \/ GroomEvent \/ GroomDone
    PROVE  ListInv'
<1>1. UNCHANGED <<evlist, point, pending, track, held, bars>>
        /\ (phase' = "steps" => phase = "steps")
  BY DEF StartGroom, GroomEvent, GroomDone
<1> QED BY <1>1, ReaderKeeps, SameReaders DEF ListInv

LEMMA ListInvKept ==
    ASSUME ListInv, [ReadNext]_readVars
    PROVE  ListInv'
<1>1. CASE AddEvent \/ DropEvent
  BY <1>1, AddEventKeeps, DropEventKeeps
<1>2. CASE \E d \in Deltas, kind \in Kinds : ReadEvent(d, kind)
  BY <1>2, ReadEventKeeps
<1>3. CASE EndTrack \/ SetTrack \/ BreakOff
  BY <1>3, EndTrackKeeps, SetTrackKeeps, BreakOffKeeps
<1>4. CASE \E d \in Deltas, key \in Keys, length \in Deltas : MfiNote(d, key, length)
  BY <1>4, MfiNoteKeeps
<1>5. CASE \E d \in Deltas, kind \in Kinds : MfiControl(d, kind)
  BY <1>5, MfiControlKeeps
<1>6. CASE MfiEnd \/ MfiFail
  BY <1>6, MfiEndKeeps, BreakOffKeeps
<1>7. CASE ReadSig \/ SigsRead \/ NoteStep
  BY <1>7, ReadSigKeeps, SigsReadKeeps, NoteStepKeeps
<1>8. CASE StartGroom \/ GroomEvent \/ GroomDone
  BY <1>8, GroomKeeps
<1>9. CASE UNCHANGED readVars
  BY <1>9, ReaderKeeps, SameReaders DEF readVars, ListInv
<1> QED BY <1>1, <1>2, <1>3, <1>4, <1>5, <1>6, <1>7, <1>8, <1>9 DEF ReadNext

\* The list readmidi_add_event builds is always in order, whatever the files hold.
THEOREM ListAlwaysInOrder == ReadSpec => []ListInOrder
<1>1. ListInv => ListInOrder
  BY DEF ListInv
<1> QED BY <1>1, ListInvInit, ListInvKept, PTL DEF ReadSpec

-----------------------------------------------------------------------------
(* The groomed list.  What it needs depends on how often the loop has been    *)
(* played: Once says where the list is until an end of the loop is met, Again *)
(* while it is repeated, After behind its last end.                           *)

\* What the turns change of g.
Locals == {"i", "meep", "out", "room", "st", "cum", "at", "counting", "rate", "type",
           "start", "addAt", "beginTime", "endTime", "beginCount", "endCount", "left",
           "flag"}
IsList(s) == \E S : s \in Seq(S)

GroomType(h) ==
    /\ DOMAIN h = Locals /\ IsList(h.out)
    /\ h.i \in Nat /\ h.meep \in 1 .. Count + 1 /\ h.left \in Int
    /\ h.start \in Nat /\ h.beginCount \in Nat /\ h.endCount \in Nat /\ h.room \in Nat
    /\ h.type \in {"none", "track", "ctl", "mark"} /\ (h.type # "none" => h.type \in Filters)
    /\ h.flag = "none"

Loops == IF Filters = {} THEN 0 ELSE Repeat

\* On the first way at most an event is written for each behind the head.
Few(len, meep) == (meep = 1 /\ len = 0) \/ len + 2 <= meep

\* There is room for the rest of this pass, for the passes that are left, each of which
\* writes at most one event more than it walks over, and for what is behind the loop.
Enough(len, left, start, last, room, meep) ==
    len + (left + 1) * (last - start + 2) + Count + 1 <= last + room + (meep - start)

\* There is room for the rest of the list.
Rest(len, room, meep) == len + Count + 2 <= room + meep

\* Nothing of the loop is between its start and here.
Once(h) ==
    /\ h.i + 1 = h.meep /\ h.left = Loops
    /\ h.endCount = IF h.type = "track" THEN Count + 1 ELSE 0
    /\ h.type = "track" => h.meep <= Count
    /\ h.type = "none" => h.start = 0
    /\ h.type # "none" => /\ h.start \in 2 .. h.meep - 1 /\ h.start \in Of(Starts, h.type)
                      /\ h.beginCount + 1 = h.start
    /\ h.room = IF h.type = "track" THEN Room(h.start - 1, Count + 1, Loops) ELSE Count + 1
    /\ \A k \in Of(Starts, h.type) \cup Of(Ends, h.type) : k <= h.start \/ k >= h.meep
    /\ Few(Len(h.out), h.meep)

\* The loop ends at last.
Again(h, last) ==
    /\ h.type # "none" /\ h.endCount # 0
    /\ IF h.type = "track" THEN last = Count ELSE last \in Of(Ends, h.type)
    /\ h.start \in 2 .. last /\ h.start \in Of(Starts, h.type) /\ h.meep \in h.start .. last
    /\ h.left >= 0 /\ h.i >= h.meep
    /\ \A k \in Of(Starts, h.type) : k <= h.start \/ k > last
    /\ \A k \in Of(Ends, h.type) : k <= h.start \/ k >= last
    /\ Enough(Len(h.out), h.left, h.start, last, h.room, h.meep)

After(h) ==
    /\ h.type # "none" /\ h.endCount # 0
    /\ h.left < 0 /\ h.i + 1 >= h.meep
    /\ h.type = "track" => h.meep = Count + 1
    /\ Rest(Len(h.out), h.room, h.meep)

Going(h) == GroomType(h) /\ (Once(h) \/ (\E last \in 1 .. Count : Again(h, last)) \/ After(h))

Groomed ==
    /\ evlist[1].kind = "none"
    /\ phase \in {"groom", "done"} => pending = <<>>
    /\ phase = "groom" => Going(g)
    /\ phase = "done" => Len(g.out) <= g.room

-----------------------------------------------------------------------------
LEMMA AppendList ==
    ASSUME NEW s, IsList(s), NEW x
    PROVE  /\ Len(s) \in Nat
           /\ IsList(Append(s, x)) /\ Len(Append(s, x)) = Len(s) + 1
<1>1. PICK S : s \in Seq(S)
  BY DEF IsList
<1>2. s \in Seq(S \cup {x}) /\ x \in S \cup {x}
  BY <1>1, SeqDef
<1>3. Append(s, x) \in Seq(S \cup {x}) /\ Len(Append(s, x)) = Len(s) + 1 /\ Len(s) \in Nat
  BY <1>2, AppendProperties, LenProperties
<1> QED BY <1>3 DEF IsList

\* What an event does before it is taken over: to the time only.
Alike(h, k) ==
    /\ DOMAIN k = Locals
    /\ k.i = h.i /\ k.meep = h.meep /\ k.out = h.out /\ k.left = h.left
    /\ k.room = h.room /\ k.type = h.type /\ k.start = h.start
    /\ k.beginCount = h.beginCount /\ k.endCount = h.endCount

LEMMA CountedAlike ==
    ASSUME NEW h, DOMAIN h = Locals, NEW e
    PROVE  Alike(h, Counted(e, h)) /\ Counted(e, h).flag = h.flag
<1> DEFINE dt == e.time - h.at + h.addAt
           cum == (h.cum + (h.rate % One) * dt) % (One * One)
           st == h.st + (h.rate \div One) * dt + cum \div One
           rest == cum % One
           k == [h EXCEPT !.st = st, !.cum = rest]
           c == IF h.counting = 1 THEN 0 ELSE h.counting
           l == [h EXCEPT !.counting = c]
<1>1. Counted(e, h) = k \/ Counted(e, h) = l
  BY DEF Counted
<1>2. Alike(h, k) /\ k.flag = h.flag
  <2> HIDE DEF st, rest
  <2> QED BY DEF Alike, Locals
<1>3. Alike(h, l) /\ l.flag = h.flag
  <2> HIDE DEF c
  <2> QED BY DEF Alike, Locals
<1> HIDE DEF k, l
<1> QED BY <1>1, <1>2, <1>3

LEMMA KeptFields ==
    ASSUME NEW h, DOMAIN h = Locals, IsList(h.out), NEW kind, NEW id
    PROVE  LET k == Kept(kind, id, h)
           IN  /\ DOMAIN k = Locals /\ IsList(k.out) /\ Len(k.out) = Len(h.out) + 1
               /\ Len(h.out) \in Nat
               /\ \A f \in Locals \ {"out"} : k[f] = h[f]
<1> DEFINE x == [kind |-> kind, id |-> id, time |-> h.st]
           s == Append(h.out, x)
           k == [h EXCEPT !.out = s]
<1>1. Kept(kind, id, h) = k
  BY DEF Kept
<1>2. IsList(s) /\ Len(s) = Len(h.out) + 1 /\ Len(h.out) \in Nat
  <2> HIDE DEF x
  <2> QED BY AppendList
<1>3. DOMAIN k = Locals /\ k.out = s /\ \A f \in Locals \ {"out"} : k[f] = h[f]
  <2> HIDE DEF s
  <2> QED BY DEF Locals
<1> QED BY <1>1, <1>2, <1>3

\* Marks of loops and empty events are not taken over.
Mark(kind) == kind = "none" \/ IsStart(kind) \/ IsEnd(kind)

LEMMA PassedFields ==
    ASSUME NEW h, DOMAIN h = Locals, IsList(h.out), NEW e
    PROVE  LET k == Passed(e, h)
           IN  /\ DOMAIN k = Locals /\ IsList(k.out) /\ Len(h.out) \in Nat
               /\ Len(k.out) = Len(h.out) \/ (~Mark(e.kind) /\ Len(k.out) = Len(h.out) + 1)
               /\ k.meep = h.meep + 1
               /\ k.flag = IF h.meep = Count /\ h.type = "track" THEN "end" ELSE h.flag
               /\ \A f \in Locals \ {"out", "at", "meep", "rate", "flag"} : k[f] = h[f]
<1> DEFINE j == IF Skipped(e, h) THEN h ELSE Kept(e.kind, e.id, h)
           when == e.time + h.addAt
           rate == IF e.kind \in DOMAIN Rates THEN Rates[e.kind] ELSE j.rate
           flag == IF h.meep = Count /\ h.type = "track" THEN "end" ELSE j.flag
           meep == j.meep + 1
           k == [j EXCEPT !.at = when, !.meep = meep, !.rate = rate, !.flag = flag]
<1>1. Passed(e, h) = k
  BY DEF Passed
<1>2. /\ DOMAIN j = Locals /\ IsList(j.out) /\ Len(h.out) \in Nat
      /\ Len(j.out) = Len(h.out) \/ (~Mark(e.kind) /\ Len(j.out) = Len(h.out) + 1)
      /\ \A f \in Locals \ {"out"} : j[f] = h[f]
  <2>1. CASE Skipped(e, h)
    BY <2>1, AppendList
  <2>2. CASE ~Skipped(e, h)
    <3>1. ~Mark(e.kind)
      BY <2>2 DEF Skipped, Mark
    <3> QED BY <2>2, <3>1, KeptFields
  <2> QED BY <2>1, <2>2
<1> HIDE DEF j
<1>3. j.meep = h.meep /\ meep = h.meep + 1 /\ j.flag = h.flag
  BY <1>2 DEF Locals
<1>4. /\ DOMAIN k = Locals /\ k.out = j.out /\ k.meep = meep /\ k.flag = flag
      /\ \A f \in Locals \ {"out", "at", "meep", "rate", "flag"} : k[f] = j[f]
  <2> HIDE DEF when, meep, rate, flag
  <2> QED BY <1>2 DEF Locals
<1> HIDE DEF k
<1> QED BY <1>1, <1>2, <1>3, <1>4 DEF Locals

LEMMA TurnedFields ==
    ASSUME NEW h, DOMAIN h = Locals, IsList(h.out), h.flag \in {"none", "start", "end"}
    PROVE  LET k == Turned(h)
           IN  /\ DOMAIN k = Locals /\ IsList(k.out) /\ k.flag = "none" /\ Len(h.out) \in Nat
               /\ Len(k.out) = IF h.flag = "none" THEN Len(h.out) ELSE Len(h.out) + 1
               /\ k.left = IF h.flag = "end" THEN h.left - 1 ELSE h.left
               /\ k.meep = IF h.flag = "end" /\ ~(h.left <= 0) THEN h.start ELSE h.meep
               /\ \A f \in {"i", "room", "type", "start", "beginCount", "endCount"} :
                     k[f] = h[f]
<1>1. CASE h.flag = "none"
  <2>1. Turned(h) = h
    BY <1>1 DEF Turned
  <2> QED BY <1>1, <2>1, AppendList DEF Locals
<1>2. CASE h.flag = "start"
  <2> DEFINE j == Kept("expand", 0, h)
             k == [j EXCEPT !.flag = "none"]
  <2>1. Turned(h) = k
    BY <1>2 DEF Turned
  <2>2. /\ DOMAIN j = Locals /\ IsList(j.out) /\ Len(j.out) = Len(h.out) + 1
        /\ Len(h.out) \in Nat /\ \A f \in Locals \ {"out"} : j[f] = h[f]
    BY KeptFields
  <2> HIDE DEF j
  <2>3. DOMAIN k = Locals /\ k.flag = "none" /\ \A f \in Locals \ {"flag"} : k[f] = j[f]
    BY <2>2 DEF Locals
  <2> HIDE DEF k
  <2> QED BY <1>2, <2>1, <2>2, <2>3 DEF Locals
<1>3. CASE h.flag = "end"
  <2> DEFINE j == Kept("expanded", 0, h)
             l == Jumped(j)
             left == l.left - 1
             k == [l EXCEPT !.flag = "none", !.left = left]
  <2>1. Turned(h) = k
    BY <1>3 DEF Turned
  <2>2. /\ DOMAIN j = Locals /\ IsList(j.out) /\ Len(j.out) = Len(h.out) + 1
        /\ Len(h.out) \in Nat /\ \A f \in Locals \ {"out"} : j[f] = h[f]
    BY KeptFields
  <2> HIDE DEF j
  <2>3. /\ DOMAIN l = Locals
        /\ l.meep = IF j.left <= 0 THEN j.meep ELSE j.start
        /\ \A f \in Locals \ {"endTime", "meep", "addAt"} : l[f] = j[f]
    <3>1. CASE j.left <= 0
      BY <3>1, <2>2 DEF Jumped, Locals
    <3>2. CASE ~(j.left <= 0)
      <4> DEFINE endTime == IF j.endTime = 0 THEN j.at ELSE j.endTime
                 addAt == j.addAt + endTime - j.beginTime
                 start == j.start
                 n == [j EXCEPT !.endTime = endTime, !.meep = start, !.addAt = addAt]
      <4>1. l = n
        BY <3>2 DEF Jumped
      <4>2. DOMAIN n = Locals /\ n.meep = start
              /\ \A f \in Locals \ {"endTime", "meep", "addAt"} : n[f] = j[f]
        <5> HIDE DEF endTime, addAt, start
        <5> QED BY <2>2 DEF Locals
      <4> HIDE DEF n, l
      <4> QED BY <3>2, <4>1, <4>2
    <3> QED BY <3>1, <3>2
  <2> HIDE DEF l
  <2>4. DOMAIN k = Locals /\ k.flag = "none" /\ k.left = left
          /\ \A f \in Locals \ {"flag", "left"} : k[f] = l[f]
    <3> HIDE DEF left
    <3> QED BY <2>3 DEF Locals
  <2> HIDE DEF k
  <2>5. l.left = h.left /\ j.left = h.left /\ j.meep = h.meep /\ j.start = h.start
          /\ l.out = j.out
    BY <2>2, <2>3 DEF Locals
  <2>6. k.left = h.left - 1 /\ k.meep = l.meep /\ k.out = l.out
    BY <2>4, <2>5 DEF Locals
  <2>7. \A f \in {"i", "room", "type", "start", "beginCount", "endCount"} : k[f] = h[f]
    BY <2>2, <2>3, <2>4 DEF Locals
  <2> QED BY <1>3, <2>1, <2>2, <2>3, <2>4, <2>5, <2>6, <2>7
<1> QED BY <1>1, <1>2, <1>3

\* A turn that the event left at m ends at r.
Ending(m) == m.flag = "end" \/ (m.meep = Count /\ m.type = "track")
Turn(kind, m, r) ==
    /\ DOMAIN r = Locals /\ IsList(r.out) /\ r.flag = "none"
    /\ r.i = m.i + 1 /\ r.room = m.room /\ r.type = m.type /\ r.start = m.start
    /\ r.beginCount = m.beginCount /\ r.endCount = m.endCount
    /\ r.left = IF Ending(m) THEN m.left - 1 ELSE m.left
    /\ r.meep = IF Ending(m) /\ m.left > 0 THEN m.start ELSE m.meep + 1
    /\ \E w \in 0 .. 1 :
          /\ Len(m.out) \in Nat /\ (Mark(kind) => w = 0)
          /\ Len(r.out) = Len(m.out) + w + (IF Ending(m) \/ m.flag = "start" THEN 1 ELSE 0)

TurnOf(e, m) == [Turned(Passed(e, Counted(e, m))) EXCEPT !.i = @ + 1]

HasLeft(m) == m.left \in Int

LEMMA TurnTaken ==
    ASSUME NEW m, DOMAIN m = Locals, IsList(m.out), m.flag \in {"none", "start", "end"}, NEW e,
           HasLeft(m), NEW r,
           r = TurnOf(e, m)
    PROVE  Turn(e.kind, m, r)
<1> DEFINE h == Counted(e, m)
           k == Passed(e, h)
           t == Turned(k)
           n == t.i + 1
<1>1. Alike(m, h) /\ h.flag = m.flag
  BY CountedAlike
<1> HIDE DEF h
<1>2. /\ DOMAIN k = Locals /\ IsList(k.out) /\ Len(h.out) \in Nat
      /\ Len(k.out) = Len(h.out) \/ (~Mark(e.kind) /\ Len(k.out) = Len(h.out) + 1)
      /\ k.meep = h.meep + 1
      /\ k.flag = IF h.meep = Count /\ h.type = "track" THEN "end" ELSE h.flag
      /\ \A f \in Locals \ {"out", "at", "meep", "rate", "flag"} : k[f] = h[f]
  BY <1>1, PassedFields DEF Alike
<1>3. k.flag \in {"none", "start", "end"}
  BY <1>1, <1>2
<1> HIDE DEF k
<1>4. /\ DOMAIN t = Locals /\ IsList(t.out) /\ t.flag = "none" /\ Len(k.out) \in Nat
      /\ Len(t.out) = IF k.flag = "none" THEN Len(k.out) ELSE Len(k.out) + 1
      /\ t.left = IF k.flag = "end" THEN k.left - 1 ELSE k.left
      /\ t.meep = IF k.flag = "end" /\ ~(k.left <= 0) THEN k.start ELSE k.meep
      /\ \A f \in {"i", "room", "type", "start", "beginCount", "endCount"} : t[f] = k[f]
  BY <1>2, <1>3, TurnedFields
<1> HIDE DEF t
<1>5. r = [t EXCEPT !.i = n]
  BY DEF t, k, h, TurnOf
<1>6. DOMAIN r = Locals /\ r.i = n /\ \A f \in Locals \ {"i"} : r[f] = t[f]
  <2> HIDE DEF n
  <2> QED BY <1>4, <1>5 DEF Locals
<1>7. /\ k.left = m.left /\ k.start = m.start /\ k.meep = m.meep + 1
      /\ (k.flag = "end") = Ending(m) /\ (k.flag = "none") = (~Ending(m) /\ m.flag # "start")
      /\ h.out = m.out
  BY <1>1, <1>2 DEF Alike, Ending, Locals
<1>8. t.i = m.i /\ t.room = m.room /\ t.type = m.type /\ t.start = m.start
        /\ t.beginCount = m.beginCount /\ t.endCount = m.endCount
  BY <1>1, <1>2, <1>4 DEF Alike, Locals
<1>9. PICK len \in Nat : len = Len(m.out)
  BY <1>2, <1>7
<1>10. \E w \in 0 .. 1 : /\ Mark(e.kind) => w = 0
                         /\ Len(t.out) = len + w + (IF Ending(m) \/ m.flag = "start" THEN 1 ELSE 0)
  <2>1. Len(h.out) = len
    BY <1>7, <1>9
  <2>2. PICK w \in 0 .. 1 : (Mark(e.kind) => w = 0) /\ Len(k.out) = len + w
    <3>1. CASE Len(k.out) = Len(h.out)
      BY <2>1, <3>1, <1>9
    <3>2. CASE ~Mark(e.kind) /\ Len(k.out) = Len(h.out) + 1
      BY <2>1, <3>2
    <3> QED BY <1>2, <3>1, <3>2
  <2>3. CASE k.flag = "none"
    <3>1. Len(t.out) = Len(k.out) /\ ~(Ending(m) \/ m.flag = "start")
      BY <1>4, <1>7, <2>3
    <3> QED BY <1>9, <2>2, <3>1
  <2>4. CASE k.flag # "none"
    <3>1. Len(t.out) = Len(k.out) + 1 /\ (Ending(m) \/ m.flag = "start")
      BY <1>1, <1>2, <1>4, <1>7, <2>4
    <3> QED BY <1>9, <2>2, <3>1
  <2> QED BY <2>3, <2>4
<1>11. /\ r.out = t.out /\ r.flag = t.flag /\ r.i = m.i + 1 /\ r.room = m.room
       /\ r.type = m.type /\ r.start = m.start
       /\ r.beginCount = m.beginCount /\ r.endCount = m.endCount
       /\ r.left = t.left /\ r.meep = t.meep
  BY <1>6, <1>8 DEF Locals
<1>12. r.left = IF Ending(m) THEN m.left - 1 ELSE m.left
  BY <1>4, <1>7, <1>11
<1>13. r.meep = IF Ending(m) /\ m.left > 0 THEN m.start ELSE m.meep + 1
  <2>1. PICK left \in Int : left = m.left
    BY Zenon DEF HasLeft
  <2>2. r.meep = IF Ending(m) /\ ~(left <= 0) THEN m.start ELSE m.meep + 1
    BY <1>4, <1>7, <1>11, <2>1
  <2>3. \A x \in Int : ~(x <= 0) <=> x > 0
    OBVIOUS
  <2> QED BY <2>1, <2>2, <2>3, Zenon
<1> QED BY <1>4, <1>6, <1>9, <1>10, <1>11, <1>12, <1>13 DEF Turn

-----------------------------------------------------------------------------
\* What an event is to the loop: nothing, a start that is not taken, a start, an end.
Aside(m) ==
    /\ Alike(g, m) /\ m.flag = "none"
    /\ g.meep \notin Of(Starts, g.type)
    /\ g.meep \in Of(Ends, g.type) => g.start = 0

StartHere(type) ==
    type \in Filters /\ g.meep \in Of(Starts, type) /\ g.type \in {"none", type}

StartAgain(m) ==
    /\ Alike(g, m) /\ m.flag = "start"
    /\ \E type \in Filters : StartHere(type) /\ ~Moves(type)

NewStart(m) ==
    /\ DOMAIN m = Locals /\ m.flag = "start"
    /\ m.i = g.i /\ m.meep = g.meep /\ m.out = g.out /\ m.left = g.left
    /\ m.start = g.meep /\ m.beginCount = g.i
    /\ \E type \in Filters :
          /\ StartHere(type) /\ Moves(type) /\ m.type = type
          /\ type = "track" => /\ m.endCount = Count + 1
                               /\ m.room = Room(g.i, Count + 1, g.left)
          /\ type # "track" => m.endCount = g.endCount /\ m.room = g.room

LoopEnd(m) ==
    /\ DOMAIN m = Locals /\ m.flag = "end"
    /\ m.i = g.i /\ m.meep = g.meep /\ m.out = g.out /\ m.left = g.left
    /\ m.type = g.type /\ m.start = g.start /\ m.beginCount = g.beginCount
    /\ g.meep \in Of(Ends, g.type) /\ g.start # 0
    /\ IF g.endCount = 0
       THEN m.endCount = g.i /\ m.room = Room(g.beginCount, g.i, g.left)
       ELSE m.endCount = g.endCount /\ m.room = g.room

LEMMA Kinds3 ==
    /\ DOMAIN Starts = {"cc111", "breath", "A"} /\ DOMAIN Ends = {"foot", "B"}
    /\ Starts["cc111"] = "track" /\ Starts["breath"] = "ctl" /\ Starts["A"] = "mark"
    /\ Ends["foot"] = "ctl" /\ Ends["B"] = "mark"
BY DEF Starts, Ends

LEMMA KindOf ==
    ASSUME NEW kind
    PROVE  /\ IsStart(kind) => ~IsEnd(kind) /\ Starts[kind] \in {"track", "ctl", "mark"}
           /\ IsEnd(kind) => Ends[kind] \in {"ctl", "mark"}
           /\ kind = "none" => ~IsStart(kind) /\ ~IsEnd(kind)
BY Kinds3 DEF IsStart, IsEnd

LEMMA AtStartIs ==
    ASSUME GroomType(g), g.meep \in 1 .. Count, NEW e, e = evlist[g.meep], IsStart(e.kind),
           NEW m, m = AtStart(e)
    PROVE  Aside(m) \/ StartAgain(m) \/ NewStart(m)
<1> DEFINE type == Starts[e.kind]
<1>1. /\ type \in {"track", "ctl", "mark"} /\ ~IsEnd(e.kind)
      /\ g.meep \in Of(Starts, type) /\ g.meep \notin Of(Ends, g.type)
  BY KindOf DEF Of, IsStart, IsEnd
<1>2. DOMAIN g = Locals /\ g.flag = "none" /\ (g.type # "none" => g.type \in Filters)
  BY DEF GroomType
<1>3. \A t : g.meep \in Of(Starts, t) => t = type
  BY DEF Of
<1> HIDE DEF type
<1>4. CASE type \notin Filters \/ g.type \notin {"none", type}
  <2>1. m = g
    BY <1>4 DEF AtStart, type
  <2>2. g.meep \notin Of(Starts, g.type)
    BY <1>1, <1>2, <1>3, <1>4
  <2> QED BY <1>1, <1>2, <2>1, <2>2 DEF Aside, Alike
<1>5. CASE type \in Filters /\ g.type \in {"none", type} /\ ~Moves(type)
  <2>1. m = [g EXCEPT !.flag = "start"]
    BY <1>5 DEF AtStart, type
  <2>2. Alike(g, m) /\ m.flag = "start"
    BY <1>2, <2>1 DEF Alike, Locals
  <2>3. StartHere(type)
    BY <1>1, <1>5 DEF StartHere
  <2> QED BY <1>5, <2>2, <2>3 DEF StartAgain
<1>6. CASE type \in Filters /\ g.type \in {"none", type} /\ Moves(type)
  <2> DEFINE time == e.time
             meep == g.meep
             begin == g.i
             endAt == IF type = "track" THEN Count + 1 ELSE g.endCount
             size == IF type = "track" THEN Room(g.i, Count + 1, g.left) ELSE g.room
             n == [g EXCEPT !.flag = "start", !.type = type, !.start = meep,
                            !.beginTime = time, !.beginCount = begin,
                            !.endCount = endAt, !.room = size]
  <2>1. m = n
    BY <1>6 DEF AtStart, type
  <2>2. /\ DOMAIN n = Locals /\ n.flag = "start" /\ n.type = type /\ n.start = meep
        /\ n.beginCount = begin /\ n.endCount = endAt /\ n.room = size
        /\ n.i = g.i /\ n.meep = g.meep /\ n.out = g.out /\ n.left = g.left
    <3> HIDE DEF time, meep, begin, endAt, size
    <3> QED BY <1>2 DEF Locals
  <2> HIDE DEF n
  <2>3. StartHere(type)
    BY <1>1, <1>6 DEF StartHere
  <2> QED BY <1>6, <2>1, <2>2, <2>3 DEF NewStart
<1> QED BY <1>4, <1>5, <1>6

LEMMA MetIs ==
    ASSUME GroomType(g), g.meep \in 1 .. Count, NEW e, e = evlist[g.meep], NEW m, m = Met(e)
    PROVE  /\ Aside(m) \/ StartAgain(m) \/ NewStart(m) \/ LoopEnd(m)
           /\ ~Aside(m) => Mark(e.kind)
<1>1. DOMAIN g = Locals /\ g.flag = "none" /\ g.type \in {"none", "track", "ctl", "mark"}
  BY DEF GroomType
<1>2. CASE IsStart(e.kind)
  <2>1. m = AtStart(e)
    BY <1>2 DEF Met
  <2> QED BY <1>2, <2>1, AtStartIs DEF Mark
<1>3. CASE ~IsStart(e.kind) /\ IsEnd(e.kind)
  <2>1. m = AtEnd(e) /\ Ends[e.kind] \in {"ctl", "mark"}
    BY <1>3, KindOf DEF Met
  <2>2. g.meep \notin Of(Starts, g.type)
    BY <1>3 DEF Of, IsStart
  <2>3. CASE g.type # Ends[e.kind] \/ g.start = 0
    <3>1. m = g
      BY <2>1, <2>3 DEF AtEnd
    <3>2. g.meep \in Of(Ends, g.type) => g.start = 0
      BY <2>3 DEF Of
    <3> QED BY <1>1, <2>2, <3>1, <3>2 DEF Aside, Alike
  <2>4. CASE g.type = Ends[e.kind] /\ g.start # 0
    <3> DEFINE endAt == IF g.endCount = 0 THEN g.i ELSE g.endCount
               size == IF g.endCount = 0 THEN Room(g.beginCount, g.i, g.left) ELSE g.room
               n == [g EXCEPT !.flag = "end", !.endCount = endAt, !.room = size]
    <3>1. m = n
      BY <2>1, <2>4 DEF AtEnd
    <3>2. /\ DOMAIN n = Locals /\ n.flag = "end" /\ n.endCount = endAt /\ n.room = size
          /\ n.i = g.i /\ n.meep = g.meep /\ n.out = g.out /\ n.left = g.left
          /\ n.type = g.type /\ n.start = g.start /\ n.beginCount = g.beginCount
      <4> HIDE DEF endAt, size
      <4> QED BY <1>1 DEF Locals
    <3>3. g.meep \in Of(Ends, g.type)
      BY <1>3, <2>4 DEF Of, IsEnd
    <3> HIDE DEF n
    <3> QED BY <1>3, <2>4, <3>1, <3>2, <3>3 DEF LoopEnd, Mark
  <2> QED BY <2>3, <2>4
<1>4. CASE ~IsStart(e.kind) /\ ~IsEnd(e.kind)
  <2>1. g.meep \notin Of(Starts, g.type) /\ g.meep \notin Of(Ends, g.type)
    BY <1>4 DEF Of, IsStart, IsEnd
  <2>2. m = g \/ m = AtNote
    BY <1>4 DEF Met
  <2>3. CASE m = g
    BY <1>1, <2>1, <2>3 DEF Aside, Alike
  <2>4. CASE m = AtNote
    <3> DEFINE c == IF g.counting # 0 THEN 1 ELSE 0
               n == [g EXCEPT !.counting = c]
    <3>1. m = n
      BY <2>4 DEF AtNote
    <3>2. Alike(g, n) /\ n.flag = "none"
      <4> HIDE DEF c
      <4> QED BY <1>1 DEF Alike, Locals
    <3> HIDE DEF n
    <3> QED BY <2>1, <3>1, <3>2 DEF Aside
  <2> QED BY <2>2, <2>3, <2>4
<1> QED BY <1>2, <1>3, <1>4

-----------------------------------------------------------------------------
\* The numbers of g.
LEMMA GroomNumbers ==
    ASSUME NEW h, GroomType(h), Count \in Nat
    PROVE  /\ h.i \in Nat /\ h.meep \in 1 .. Count + 1 /\ h.left \in Int /\ Len(h.out) \in Nat
           /\ h.start \in Nat /\ h.beginCount \in Nat /\ h.endCount \in Nat
           /\ h.room \in Nat
BY AppendList DEF GroomType

LEMMA LoopsNat == Loops \in Nat
BY EventAssumption DEF Loops

LEMMA RoomIs ==
    ASSUME Count \in Nat, NEW first \in Nat, NEW last \in Nat, NEW n \in Nat, first <= last + 2
    PROVE  Room(first, last, n) \in Nat
             /\ Room(first, last, n) = Count + (last - first + 2) * n + 1
<1>1. last - first + 2 \in Nat
  OBVIOUS
<1>2. (last - first + 2) * n \in Nat
  BY <1>1
<1> HIDE DEF Count
<1> QED BY <1>2 DEF Room

\* The arithmetic of the ends of a loop and of the turns between them.
LEMMA EndsFirst ==
    ASSUME Count \in Nat \ {0}, NEW n \in Nat, NEW last \in 1 .. Count, NEW start \in 2 .. last,
           NEW len \in Nat, len <= last, NEW room \in Nat,
           room >= Count + (last - start + 2) * n + 1
    PROVE  /\ n > 0 => Enough(len, n - 1, start, last, room, start)
           /\ n = 0 => Rest(len, room, last + 1)
<1> DEFINE pass == last - start + 2
<1>1. PICK C \in Nat : C = Count
  OBVIOUS
<1>2. pass \in Nat
  OBVIOUS
<1>3. PICK total \in Nat : total = pass * n
  BY <1>2
<1> HIDE DEF pass, Count
<1>4. CASE n > 0
  <2>1. (n - 1 + 1) * pass = total
    BY <1>2, <1>3
  <2>2. len + total + C + 1 <= last + room + (start - start)
    BY <1>1, <1>3 DEF pass
  <2> QED BY <1>1, <1>4, <2>1, <2>2 DEF Enough, pass
<1>5. CASE n = 0
  <2>1. pass * n = 0
    BY <1>2, <1>5
  <2> QED BY <1>1, <1>5, <2>1 DEF Rest, pass
<1> QED BY <1>4, <1>5

LEMMA EndsAgain ==
    ASSUME Count \in Nat \ {0}, NEW left \in Nat, NEW last \in 1 .. Count, NEW start \in 2 .. last,
           NEW len \in Nat, NEW new \in Nat, new <= len + 2, NEW room \in Nat,
           Enough(len, left, start, last, room, last)
    PROVE  /\ left > 0 => Enough(new, left - 1, start, last, room, start)
           /\ left = 0 => Rest(new, room, last + 1)
<1> DEFINE pass == last - start + 2
<1>1. PICK C \in Nat : C = Count
  OBVIOUS
<1>2. pass \in Nat
  OBVIOUS
<1>3. PICK total \in Nat : total = left * pass
  BY <1>2
<1>4. (left + 1) * pass = total + pass
  BY <1>2, <1>3
<1> HIDE DEF Count
<1>5. len + (total + pass) + C + 1 <= last + room + (last - start)
  <2> HIDE DEF pass
  <2>1. len + (left + 1) * pass + C + 1 <= last + room + (last - start)
    BY <1>1 DEF Enough, pass
  <2> QED BY <1>4, <2>1
<1>6. CASE left > 0
  <2>1. (left - 1 + 1) * pass = total
    BY <1>2, <1>3
  <2>2. new + total + C + 1 <= last + room + (start - start)
    BY <1>1, <1>5
  <2> HIDE DEF pass
  <2> QED BY <1>1, <1>6, <2>1, <2>2 DEF Enough, pass
<1>7. CASE left = 0
  <2>1. total = 0
    BY <1>2, <1>3, <1>7
  <2> QED BY <1>1, <1>5, <1>7, <2>1 DEF Rest
<1> QED BY <1>6, <1>7

LEMMA EnoughOn ==
    ASSUME Count \in Nat, NEW left \in Int, NEW last \in Nat, NEW start \in Nat,
           NEW len \in Nat, NEW new \in Nat, new <= len + 1, NEW room \in Nat, NEW meep \in Nat
    PROVE  /\ Enough(len, left, start, last, room, meep)
                => Enough(new, left, start, last, room, meep + 1)
           /\ Rest(len, room, meep) => Rest(new, room, meep + 1)
<1>1. PICK C \in Nat : C = Count
  OBVIOUS
<1>2. PICK total \in Int : total = (left + 1) * (last - start + 2)
  OBVIOUS
<1> HIDE DEF Count
<1>3. len + total + C + 1 <= last + room + (meep - start)
        => new + total + C + 1 <= last + room + (meep + 1 - start)
  OBVIOUS
<1>4. Enough(len, left, start, last, room, meep)
         => Enough(new, left, start, last, room, meep + 1)
  BY <1>1, <1>2, <1>3 DEF Enough
<1>5. Rest(len, room, meep) => Rest(new, room, meep + 1)
  BY <1>1 DEF Rest
<1> QED BY <1>4, <1>5

LEMMA FewOn ==
    ASSUME NEW len \in Nat, NEW new \in Nat, new <= len + 1, NEW meep \in Nat, meep > 1,
           Few(len, meep)
    PROVE  Few(new, meep + 1)
BY DEF Few

\* A first end: the loop is repeated, or it is over.
LEMMA FirstEnd ==
    ASSUME Count \in Nat \ {0}, NEW r, GroomType(r), NEW last \in 1 .. Count,
           r.type # "none", r.endCount # 0,
           r.type = "track" => last = Count, r.type # "track" => last \in Of(Ends, r.type),
           r.start \in 2 .. last, r.start \in Of(Starts, r.type),
           \A k \in Of(Starts, r.type) : k <= r.start \/ k > last,
           \A k \in Of(Ends, r.type) : k <= r.start \/ k >= last,
           r.left = Loops - 1, r.i >= last,
           r.meep = IF Loops > 0 THEN r.start ELSE last + 1,
           r.room >= Count + (last - r.start + 2) * Loops + 1,
           Len(r.out) <= last
    PROVE  Again(r, last) \/ After(r)
<1>1. Loops \in Nat /\ Count \in Nat /\ last \in Nat
  BY LoopsNat
<1>2. PICK start \in 2 .. last, len \in Nat, room \in Nat :
          start = r.start /\ len = Len(r.out) /\ room = r.room
  BY <1>1, GroomNumbers
<1>3. len <= last /\ room >= Count + (last - start + 2) * Loops + 1
  BY <1>2, Zenon
<1>4. /\ Loops > 0 => Enough(len, Loops - 1, start, last, room, start)
      /\ Loops = 0 => Rest(len, room, last + 1)
  BY <1>1, <1>2, <1>3, EndsFirst
<1>5. PICK n \in Nat : n = Loops
  BY <1>1
<1>6. CASE n > 0
  <2>1. r.left = n - 1 /\ r.meep = start
    BY <1>2, <1>5, <1>6
  <2>2. Enough(Len(r.out), r.left, r.start, last, r.room, r.meep)
    BY <1>2, <1>4, <1>5, <1>6, <2>1
  <2>3. r.left >= 0 /\ r.meep \in r.start .. last /\ r.i >= r.meep
    <3>1. n - 1 >= 0 /\ start \in start .. last
      BY <1>5, <1>6, <1>2
    <3>2. \A i \in Nat : i >= last => i >= start
      BY <1>2
    <3>3. r.i \in Nat
      BY DEF GroomType
    <3> QED BY <1>2, <2>1, <3>1, <3>2, <3>3, Zenon
  <2> QED BY <2>2, <2>3 DEF Again
<1>7. CASE n = 0
  <2>1. r.left = n - 1 /\ r.meep = last + 1
    BY <1>5, <1>7
  <2>2. Rest(Len(r.out), r.room, r.meep)
    BY <1>2, <1>4, <1>5, <1>7, <2>1
  <2>3. r.left < 0 /\ r.i + 1 >= r.meep
    <3>1. n - 1 < 0
      BY <1>7
    <3>2. \A i \in Nat : i >= last => i + 1 >= last + 1
      OBVIOUS
    <3>3. r.i \in Nat
      BY DEF GroomType
    <3> QED BY <2>1, <3>1, <3>2, <3>3, Zenon
  <2>4. r.type = "track" => r.meep = Count + 1
    BY <2>1
  <2> QED BY <2>2, <2>3, <2>4 DEF After
<1> QED BY <1>5, <1>6, <1>7

\* An end that was met before.
LEMMA NextEnd ==
    ASSUME Count \in Nat \ {0}, NEW r, GroomType(r), NEW last \in 1 .. Count,
           r.type # "none", r.endCount # 0,
           r.type = "track" => last = Count, r.type # "track" => last \in Of(Ends, r.type),
           r.start \in 2 .. last, r.start \in Of(Starts, r.type),
           \A k \in Of(Starts, r.type) : k <= r.start \/ k > last,
           \A k \in Of(Ends, r.type) : k <= r.start \/ k >= last,
           NEW left \in Nat, r.left = left - 1, r.i >= last,
           r.meep = IF left > 0 THEN r.start ELSE last + 1,
           NEW len \in Nat, NEW new \in Nat, new = Len(r.out), new <= len + 2,
           Enough(len, left, r.start, last, r.room, last)
    PROVE  Again(r, last) \/ After(r)
<1>1. Count \in Nat /\ last \in Nat
  OBVIOUS
<1>2. PICK start \in 2 .. last, room \in Nat : start = r.start /\ room = r.room
  BY <1>1, GroomNumbers
<1>3. Enough(len, left, start, last, room, last)
  BY <1>2
<1>4. /\ left > 0 => Enough(new, left - 1, start, last, room, start)
      /\ left = 0 => Rest(new, room, last + 1)
  BY <1>1, <1>2, <1>3, EndsAgain
<1>5. r.i \in Nat
  BY DEF GroomType
<1>6. CASE left > 0
  <2>1. r.left = left - 1 /\ r.meep = start
    BY <1>2, <1>6
  <2>2. Enough(Len(r.out), r.left, r.start, last, r.room, r.meep)
    BY <1>2, <1>4, <1>6, <2>1
  <2>3. r.left >= 0 /\ r.meep \in r.start .. last /\ r.i >= r.meep
    <3>1. left - 1 >= 0 /\ start \in start .. last
      BY <1>6, <1>2
    <3>2. \A i \in Nat : i >= last => i >= start
      BY <1>2
    <3> QED BY <1>2, <1>5, <2>1, <3>1, <3>2, Zenon
  <2> QED BY <2>2, <2>3 DEF Again
<1>7. CASE left = 0
  <2>1. r.left = left - 1 /\ r.meep = last + 1
    BY <1>7
  <2>2. Rest(Len(r.out), r.room, r.meep)
    BY <1>2, <1>4, <1>7, <2>1
  <2>3. r.left < 0 /\ r.i + 1 >= r.meep
    <3>1. left - 1 < 0
      BY <1>7
    <3>2. \A i \in Nat : i >= last => i + 1 >= last + 1
      OBVIOUS
    <3> QED BY <1>5, <2>1, <3>1, <3>2, Zenon
  <2>4. r.type = "track" => r.meep = Count + 1
    BY <2>1
  <2> QED BY <2>2, <2>3, <2>4 DEF After
<1> QED BY <1>6, <1>7

LEMMA RoomOfTrack ==
    ASSUME Count \in Nat \ {0}, NEW start \in 2 .. Count, NEW n \in Nat
    PROVE  /\ Room(start - 1, Count + 1, n) \in Nat
           /\ Room(start - 1, Count + 1, n) >= Count + (Count - start + 2) * n + 1
<1> DEFINE pass == Count - start + 2
<1>1. pass \in Nat /\ Count + 1 - (start - 1) + 2 = pass + 2
  OBVIOUS
<1>2. Room(start - 1, Count + 1, n) = Count + (pass + 2) * n + 1
  BY <1>1 DEF Room
<1>3. PICK total \in Nat : total = pass * n
  BY <1>1
<1>4. (pass + 2) * n = total + 2 * n
  BY <1>1, <1>3
<1>5. PICK C \in Nat : C = Count
  OBVIOUS
<1> HIDE DEF pass, Count
<1>6. C + (total + 2 * n) + 1 >= C + total + 1 /\ C + (total + 2 * n) + 1 \in Nat
  BY <1>3, <1>5
<1> QED BY <1>2, <1>3, <1>4, <1>5, <1>6 DEF pass

LEMMA TurnLength ==
    ASSUME NEW kind, NEW m, NEW r, Turn(kind, m, r), NEW len \in Nat, len = Len(m.out)
    PROVE  \E new \in Nat :
              /\ new = Len(r.out) /\ new <= len + 2
              /\ Mark(kind) \/ ~(Ending(m) \/ m.flag = "start") => new <= len + 1
              /\ Mark(kind) /\ ~(Ending(m) \/ m.flag = "start") => new = len
<1>1. PICK w \in 0 .. 1 :
          /\ Mark(kind) => w = 0
          /\ Len(r.out) = len + w + (IF Ending(m) \/ m.flag = "start" THEN 1 ELSE 0)
  BY DEF Turn
<1>2. CASE Ending(m) \/ m.flag = "start"
  <2>1. Len(r.out) = len + w + 1
    BY <1>1, <1>2
  <2>2. len + w + 1 \in Nat /\ len + w + 1 <= len + 2 /\ (w = 0 => len + w + 1 <= len + 1)
    BY <1>1
  <2> QED BY <1>1, <1>2, <2>1, <2>2, Zenon
<1>3. CASE ~(Ending(m) \/ m.flag = "start")
  <2>1. Len(r.out) = len + w + 0
    BY <1>1, <1>3, Zenon
  <2>2. len + w + 0 \in Nat /\ len + w + 0 <= len + 2 /\ len + w + 0 <= len + 1
          /\ (w = 0 => len + w + 0 = len)
    BY <1>1
  <2> QED BY <1>1, <1>3, <2>1, <2>2, Zenon
<1> QED BY <1>2, <1>3

LEMMA NoStartEnds ==
    ASSUME NEW k, NEW type, k \in Of(Ends, type)
    PROVE  k \notin Of(Starts, type) /\ type \in {"ctl", "mark"}
BY KindOf DEF Of, IsStart, IsEnd

\* r has the type of g.
LEMMA TurnType ==
    ASSUME GroomType(g), Count \in Nat \ {0}, g.meep \in 1 .. Count,
           NEW kind, NEW m, NEW r, Turn(kind, m, r),
           m.i = g.i, m.meep = g.meep, m.left = g.left,
           m.type \in {"none", "track", "ctl", "mark"}, m.type # "none" => m.type \in Filters,
           m.start \in 0 .. Count, m.beginCount \in Nat, m.endCount \in Nat, m.room \in Nat,
           Ending(m) => m.start # 0
    PROVE  GroomType(r)
<1>1. PICK i \in Nat, meep \in 1 .. Count, left \in Int, start \in 0 .. Count :
          i = g.i /\ meep = g.meep /\ left = g.left /\ start = m.start
  BY GroomNumbers
<1>2. r.i = i + 1 /\ i + 1 \in Nat
  BY <1>1 DEF Turn
<1>3. r.meep \in 1 .. Count + 1
  <2>1. r.meep = start \/ r.meep = meep + 1
    BY <1>1 DEF Turn
  <2>2. Ending(m) => start # 0
    BY <1>1
  <2>3. ~Ending(m) => r.meep = meep + 1
    BY <1>1 DEF Turn
  <2>4. meep + 1 \in 1 .. Count + 1 /\ (start # 0 => start \in 1 .. Count + 1)
    BY <1>1
  <2> QED BY <2>1, <2>2, <2>3, <2>4
<1>4. r.left \in Int
  <2>1. r.left = left - 1 \/ r.left = left
    BY <1>1 DEF Turn
  <2> QED BY <2>1
<1> QED BY <1>2, <1>3, <1>4 DEF GroomType, Turn

-----------------------------------------------------------------------------
(* One turn.                                                                  *)

Turning(e, m, r) ==
    /\ GroomType(g) /\ Count \in Nat \ {0} /\ evlist[1].kind = "none"
    /\ g.meep \in 1 .. Count /\ e = evlist[g.meep]
    /\ Aside(m) \/ (Mark(e.kind) /\ (StartAgain(m) \/ NewStart(m) \/ LoopEnd(m)))
    /\ Turn(e.kind, m, r)

LEMMA FirstIsPassed ==
    ASSUME NEW e, NEW m, NEW r, Turning(e, m, r)
    PROVE  \A kinds, type : kinds \in {Starts, Ends} /\ g.meep \in Of(kinds, type) => g.meep # 1
<1>1. evlist[1].kind = "none" /\ ~IsStart("none") /\ ~IsEnd("none")
  BY KindOf DEF Turning
<1> QED BY <1>1 DEF Of, IsStart, IsEnd

\* The numbers of a turn.
Numbers(e, m, r, len, new, left, i, meep) ==
    /\ len = Len(g.out) /\ new = Len(r.out) /\ left = g.left
    /\ i = g.i /\ meep = g.meep
    /\ new <= len + 2
    /\ ~Ending(m) \/ ~Aside(m) => new <= len + 1
    /\ Mark(e.kind) /\ Aside(m) /\ ~Ending(m) => new = len
    /\ r.i = i + 1
    /\ r.left = IF Ending(m) THEN left - 1 ELSE left
    /\ r.meep = IF Ending(m) /\ left > 0 THEN m.start ELSE meep + 1

LEMMA TurnNumbers ==
    ASSUME NEW e, NEW m, NEW r, Turning(e, m, r)
    PROVE  /\ m.i = g.i /\ m.meep = g.meep /\ m.left = g.left /\ m.out = g.out
           /\ \E len \in Nat, new \in Nat, left \in Int, i \in Nat, meep \in 1 .. Count :
                 Numbers(e, m, r, len, new, left, i, meep)
<1>1. m.i = g.i /\ m.meep = g.meep /\ m.left = g.left /\ m.out = g.out
  BY DEF Turning, Aside, StartAgain, NewStart, LoopEnd, Alike
<1>2. PICK len \in Nat, left \in Int, i \in Nat, meep \in 1 .. Count :
          len = Len(g.out) /\ left = g.left /\ i = g.i /\ meep = g.meep
  BY GroomNumbers DEF Turning
<1>3. Turn(e.kind, m, r) /\ len = Len(m.out)
  BY <1>1, <1>2 DEF Turning
<1>4. PICK new \in Nat :
          /\ new = Len(r.out) /\ new <= len + 2
          /\ Mark(e.kind) \/ ~(Ending(m) \/ m.flag = "start") => new <= len + 1
          /\ Mark(e.kind) /\ ~(Ending(m) \/ m.flag = "start") => new = len
  <2> DEFINE kind == e.kind
  <2>1. Turn(kind, m, r)
    BY <1>3
  <2> HIDE DEF kind
  <2>2. \E new \in Nat :
          /\ new = Len(r.out) /\ new <= len + 2
          /\ Mark(kind) \/ ~(Ending(m) \/ m.flag = "start") => new <= len + 1
          /\ Mark(kind) /\ ~(Ending(m) \/ m.flag = "start") => new = len
    BY <1>2, <1>3, <2>1, TurnLength
  <2> QED BY <2>2 DEF kind
<1>5. (Aside(m) => m.flag = "none") /\ (~Aside(m) => Mark(e.kind))
  BY DEF Turning, Aside
<1>6. r.i = i + 1 /\ r.left = (IF Ending(m) THEN left - 1 ELSE left)
        /\ r.meep = IF Ending(m) /\ left > 0 THEN m.start ELSE meep + 1
  BY <1>1, <1>2, <1>3 DEF Turn
<1>7. (~Ending(m) \/ ~Aside(m) => new <= len + 1)
        /\ (Mark(e.kind) /\ Aside(m) /\ ~Ending(m) => new = len)
  BY <1>4, <1>5
<1> QED BY <1>1, <1>2, <1>4, <1>6, <1>7 DEF Numbers

LEMMA TurnLeaves ==
    ASSUME NEW e, NEW m, NEW r, Turning(e, m, r)
    PROVE  /\ r.room = m.room /\ r.type = m.type /\ r.start = m.start
           /\ r.beginCount = m.beginCount /\ r.endCount = m.endCount
BY DEF Turning, Turn

LEMMA OnceAside ==
    ASSUME NEW e, NEW m, NEW r, Turning(e, m, r), Once(g), Aside(m)
    PROVE  Going(r)
<1>1. PICK len \in Nat, new \in Nat, left \in Int, i \in Nat, meep \in 1 .. Count :
          Numbers(e, m, r, len, new, left, i, meep)
  BY TurnNumbers
<1> USE DEF Numbers
<1>2. m.i = g.i /\ m.meep = g.meep /\ m.left = g.left
  BY TurnNumbers
<1>3. /\ r.room = g.room /\ r.type = g.type /\ r.start = g.start
      /\ r.beginCount = g.beginCount /\ r.endCount = g.endCount
  BY TurnLeaves DEF Aside, Alike
<1>4. /\ g.room \in Nat /\ g.start \in Nat /\ g.beginCount \in Nat /\ g.endCount \in Nat
      /\ g.type \in {"none", "track", "ctl", "mark"} /\ (g.type # "none" => g.type \in Filters)
      /\ Count \in Nat \ {0} /\ Turn(e.kind, m, r) /\ GroomType(g)
  BY DEF Turning, GroomType
<1>5. Ending(m) = (meep = Count /\ g.type = "track")
  BY <1>1 DEF Aside, Alike, Ending
<1>6. i + 1 = meep /\ left = Loops /\ Few(len, meep)
        /\ (g.type # "none" => g.start \in 2 .. meep - 1)
  BY <1>1 DEF Once
<1>7. PICK start \in 0 .. Count : start = g.start
  BY <1>1, <1>4, <1>6 DEF Once
<1>8. GroomType(r)
  <2>1. m.type = g.type /\ m.start = g.start /\ m.beginCount = g.beginCount
          /\ m.endCount = g.endCount /\ m.room = g.room
    BY DEF Aside, Alike
  <2>2. Ending(m) => m.start # 0
    <3>1. g.type # "none" => start \in 2 .. meep - 1
      BY <1>6, <1>7
    <3>2. start \in 2 .. meep - 1 => start # 0
      BY <1>1
    <3> QED BY <1>5, <1>7, <2>1, <3>1, <3>2
  <2> DEFINE kind == e.kind
  <2>3. Turn(kind, m, r)
    BY <1>4
  <2> HIDE DEF kind
  <2> QED BY <1>1, <1>2, <1>4, <1>7, <2>1, <2>2, <2>3, TurnType
<1>9. CASE ~Ending(m)
  <2>1. r.i = i + 1 /\ r.left = left /\ r.meep = meep + 1 /\ new <= len + 1
    BY <1>1, <1>9
  <2>2. Few(new, meep + 1)
    <3>1. CASE meep > 1
      BY <1>1, <1>6, <2>1, <3>1, FewOn
    <3>2. CASE meep = 1
      <4>1. e.kind = "none"
        BY <1>1, <3>2 DEF Turning
      <4>2. new = len
        BY <1>1, <1>9, <4>1 DEF Mark
      <4> QED BY <1>6, <3>2, <4>2 DEF Few
    <3> QED BY <1>1, <3>1, <3>2
  <2>3. \A k \in Of(Starts, g.type) \cup Of(Ends, g.type) : k <= start \/ k >= meep + 1
    <3> SUFFICES ASSUME NEW k \in Of(Starts, g.type) \cup Of(Ends, g.type)
                 PROVE  k <= start \/ k >= meep + 1
      OBVIOUS
    <3>1. k \in 1 .. Count /\ (k <= start \/ k >= meep)
      BY <1>1, <1>7 DEF Once, Of
    <3>2. k # meep
      <4>1. meep \notin Of(Starts, g.type)
        BY <1>1 DEF Aside
      <4>2. meep \in Of(Ends, g.type) => start = 0
        BY <1>1, <1>7 DEF Aside
      <4>3. meep \in Of(Ends, g.type) => g.type # "none"
        BY NoStartEnds
      <4> QED BY <1>6, <1>7, <4>1, <4>2, <4>3
    <3> QED BY <3>1, <3>2
  <2>4. g.type # "none" => start \in 2 .. (meep + 1) - 1
    BY <1>6, <1>7
  <2>5. g.type = "track" => meep + 1 <= Count
    <3>1. \A C \in Nat : \A x \in 1 .. C : x # C => x + 1 <= C
      OBVIOUS
    <3>2. Count \in Nat /\ (g.type = "track" => meep # Count)
      BY <1>4, <1>5, <1>9
    <3> QED BY <1>1, <3>1, <3>2, Zenon
  <2>6. i + 1 + 1 = meep + 1
    BY <1>6
  <2>7. Once(r)
    BY <1>1, <1>3, <1>6, <1>7, <2>1, <2>2, <2>3, <2>4, <2>5, <2>6 DEF Once
  <2> QED BY <1>8, <2>7 DEF Going
<1>10. CASE Ending(m)
  <2>1. meep = Count /\ g.type = "track" /\ start \in 2 .. meep - 1
    BY <1>5, <1>6, <1>7, <1>10
  <2>2. r.endCount # 0 /\ r.room >= Count + (Count - r.start + 2) * Loops + 1
    <3>1. r.room = Room(start - 1, Count + 1, Loops) /\ r.endCount = Count + 1
      BY <1>3, <1>7, <2>1 DEF Once
    <3>2. Room(start - 1, Count + 1, Loops) >= Count + (Count - start + 2) * Loops + 1
      BY <1>4, <2>1, LoopsNat, RoomOfTrack
    <3>3. Count + 1 # 0
      BY <1>4
    <3> QED BY <1>3, <1>7, <3>1, <3>2, <3>3
  <2>3. \A k \in Of(Starts, r.type) : k <= r.start \/ k > Count
    <3> SUFFICES ASSUME NEW k \in Of(Starts, g.type), ~(k <= start) PROVE FALSE
      BY <1>3, <1>7
    <3>1. k \in 1 .. Count /\ k >= meep
      BY <1>1, <1>7 DEF Once, Of
    <3>2. meep \notin Of(Starts, g.type)
      BY <1>1 DEF Aside
    <3> QED BY <2>1, <3>1, <3>2
  <2>4. \A k \in Of(Ends, r.type) : k <= r.start \/ k >= Count
    BY <1>3, <2>1, NoStartEnds
  <2>5. r.left = Loops - 1 /\ r.i >= Count /\ Len(r.out) <= Count
          /\ r.meep = IF Loops > 0 THEN r.start ELSE Count + 1
    <3>1. new <= Count
      BY <1>1, <1>6, <2>1 DEF Few
    <3>2. m.start = g.start
      BY DEF Aside, Alike
    <3>3. i + 1 >= Count
      BY <1>6, <2>1
    <3> QED BY <1>1, <1>3, <1>6, <1>10, <2>1, <3>1, <3>2, <3>3
  <2>6. r.start \in 2 .. Count /\ r.start \in Of(Starts, r.type)
    BY <1>3, <1>7, <2>1 DEF Once
  <2>7. Again(r, Count) \/ After(r)
    <3>1. Count \in 1 .. Count /\ r.type = "track"
      BY <1>3, <1>4, <2>1
    <3> QED BY <1>4, <1>8, <2>2, <2>3, <2>4, <2>5, <2>6, <3>1, FirstEnd
  <2> QED BY <1>1, <1>8, <2>1, <2>7 DEF Going
<1> QED BY <1>9, <1>10

LEMMA OnceStarts ==
    ASSUME NEW e, NEW m, NEW r, Turning(e, m, r), Once(g), ~Aside(m), NewStart(m)
    PROVE  Going(r)
<1>1. PICK len \in Nat, new \in Nat, left \in Int, i \in Nat, meep \in 1 .. Count :
          Numbers(e, m, r, len, new, left, i, meep)
  BY TurnNumbers
<1> USE DEF Numbers
<1>2. m.i = g.i /\ m.meep = g.meep /\ m.left = g.left
  BY TurnNumbers
<1>3. /\ r.room = m.room /\ r.type = m.type /\ r.start = m.start
      /\ r.beginCount = m.beginCount /\ r.endCount = m.endCount
  BY TurnLeaves
<1>4. /\ Count \in Nat \ {0} /\ Turn(e.kind, m, r) /\ GroomType(g) /\ meep # 1
      /\ evlist[1].kind = "none"
  <2>1. \E type : g.meep \in Of(Starts, type)
    BY DEF NewStart, StartHere
  <2> QED BY <1>1, <2>1, FirstIsPassed DEF Turning
<1>5. i + 1 = meep /\ left = Loops /\ Few(len, meep)
  BY <1>1 DEF Once
<1>6. PICK type \in Filters :
          /\ StartHere(type) /\ m.type = type
          /\ type = "track" => m.endCount = Count + 1 /\ m.room = Room(g.i, Count + 1, g.left)
          /\ type # "track" => m.endCount = g.endCount /\ m.room = g.room
  BY DEF NewStart
<1>7. meep \in Of(Starts, type) /\ g.type \in {"none", type}
        /\ type \in {"track", "ctl", "mark"}
  BY <1>1, <1>6, KindOf DEF StartHere, Of, IsStart
<1>8. m.start = meep /\ m.beginCount = i /\ m.flag = "start"
  BY <1>1 DEF NewStart
<1>9. /\ m.endCount = IF type = "track" THEN Count + 1 ELSE 0
      /\ m.room = IF type = "track" THEN Room(meep - 1, Count + 1, Loops) ELSE Count + 1
  <2>1. i = meep - 1
    BY <1>1, <1>5
  <2>2. type # "track" => g.type # "track"
    BY <1>7
  <2> QED BY <1>1, <1>5, <1>6, <2>1, <2>2 DEF Once
<1>10. m.room \in Nat /\ m.endCount \in Nat /\ meep \in 2 .. Count
         /\ Room(meep - 1, Count + 1, Loops) >= Count + (Count - meep + 2) * Loops + 1
  <2>1. meep \in 2 .. Count
    BY <1>1, <1>4
  <2>2. Room(meep - 1, Count + 1, Loops) \in Nat
          /\ Room(meep - 1, Count + 1, Loops) >= Count + (Count - meep + 2) * Loops + 1
    BY <1>4, <2>1, LoopsNat, RoomOfTrack
  <2>3. Count + 1 \in Nat
    BY <1>4
  <2> QED BY <1>9, <2>1, <2>2, <2>3
<1>11. GroomType(r)
  <2>1. /\ m.type \in {"none", "track", "ctl", "mark"} /\ m.type \in Filters
        /\ m.start \in 0 .. Count /\ m.beginCount \in Nat /\ m.start # 0
    BY <1>1, <1>6, <1>7, <1>8
  <2> DEFINE kind == e.kind
  <2>2. Turn(kind, m, r)
    BY <1>4
  <2> HIDE DEF kind
  <2> QED BY <1>1, <1>2, <1>4, <1>10, <2>1, <2>2, TurnType
<1>12. Ending(m) = (meep = Count /\ type = "track")
  BY <1>1, <1>2, <1>6, <1>8 DEF Ending
<1>13. new <= len + 1
  BY <1>1
<1>14. CASE ~Ending(m)
  <2>1. r.i = i + 1 /\ r.left = left /\ r.meep = meep + 1
    BY <1>1, <1>14
  <2>2. Few(new, meep + 1)
    BY <1>5, <1>10, <1>13, FewOn
  <2>3. \A k \in Of(Starts, type) \cup Of(Ends, type) : k <= meep \/ k >= meep + 1
    BY <1>1 DEF Of
  <2>4. type = "track" => meep + 1 <= Count
    <3>1. \A C \in Nat : \A x \in 1 .. C : x # C => x + 1 <= C
      OBVIOUS
    <3>2. Count \in Nat /\ (type = "track" => meep # Count)
      BY <1>4, <1>12, <1>14
    <3> QED BY <1>1, <3>1, <3>2, Zenon
  <2>5. meep \in 2 .. (meep + 1) - 1 /\ i + 1 + 1 = meep + 1 /\ i + 1 = meep
    BY <1>5, <1>10
  <2>6. type # "none"
    BY <1>7
  <2>7. Once(r)
    BY <1>1, <1>3, <1>5, <1>6, <1>7, <1>8, <1>9, <2>1, <2>2, <2>3, <2>4, <2>5, <2>6 DEF Once
  <2> QED BY <1>11, <2>7 DEF Going
<1>15. CASE Ending(m)
  <2>1. meep = Count /\ type = "track" /\ r.type = "track" /\ r.start = Count
    BY <1>3, <1>6, <1>8, <1>12, <1>15
  <2>2. r.endCount # 0 /\ r.room >= Count + (Count - r.start + 2) * Loops + 1
    <3>1. r.room = Room(meep - 1, Count + 1, Loops) /\ r.endCount = Count + 1
      BY <1>3, <1>9, <2>1
    <3>2. Count + 1 # 0
      BY <1>4
    <3> QED BY <1>3, <1>8, <1>10, <3>1, <3>2
  <2>3. \A k \in Of(Starts, r.type) : k <= r.start \/ k > Count
    BY <1>4, <2>1 DEF Of
  <2>4. \A k \in Of(Ends, r.type) : k <= r.start \/ k >= Count
    BY <2>1, NoStartEnds
  <2>5. r.left = Loops - 1 /\ r.i >= Count /\ Len(r.out) <= Count
          /\ r.meep = IF Loops > 0 THEN r.start ELSE Count + 1
    <3>1. new <= Count
      BY <1>1, <1>4, <1>5, <1>13, <2>1 DEF Few
    <3>2. i + 1 >= Count
      BY <1>5, <2>1
    <3> QED BY <1>1, <1>3, <1>5, <1>15, <2>1, <3>1, <3>2
  <2>6. r.start \in 2 .. Count /\ r.start \in Of(Starts, r.type) /\ Count \in 1 .. Count
    BY <1>4, <1>7, <1>10, <2>1
  <2>7. Again(r, Count) \/ After(r)
    BY <1>4, <1>11, <2>1, <2>2, <2>3, <2>4, <2>5, <2>6, FirstEnd
  <2> QED BY <1>11, <2>6, <2>7 DEF Going
<1> QED BY <1>14, <1>15

\* A start behind the head and before an end.
LEMMA Between ==
    ASSUME Count \in Nat \ {0}, NEW meep \in 1 .. Count, NEW start \in 2 .. meep - 1
    PROVE  /\ start - 1 \in Nat /\ meep - 1 \in Nat /\ meep - 1 # 0
           /\ start - 1 <= meep - 1 + 2
           /\ start \in 0 .. Count /\ start # 0
           /\ \A b \in Nat : b + 1 = start => b = start - 1
           /\ \A b \in Nat : b + 1 = meep => b = meep - 1
<1>1. PICK C \in Nat \ {0} : C = Count
  OBVIOUS
<1>2. meep \in 1 .. C
  BY <1>1
<1> HIDE DEF Count
<1> QED BY <1>1, <1>2

LEMMA OnceEnds ==
    ASSUME NEW e, NEW m, NEW r, Turning(e, m, r), Once(g), ~Aside(m), LoopEnd(m)
    PROVE  Going(r)
<1>1. PICK len \in Nat, new \in Nat, left \in Int, i \in Nat, meep \in 1 .. Count :
          Numbers(e, m, r, len, new, left, i, meep)
  BY TurnNumbers
<1> USE DEF Numbers
<1>2. m.i = g.i /\ m.meep = g.meep /\ m.left = g.left
  BY TurnNumbers
<1>3. /\ r.room = m.room /\ r.type = g.type /\ r.start = g.start
      /\ r.beginCount = g.beginCount /\ r.endCount = m.endCount
      /\ m.type = g.type /\ m.start = g.start /\ m.beginCount = g.beginCount
  BY TurnLeaves DEF LoopEnd
<1>4. Count \in Nat \ {0} /\ Turn(e.kind, m, r) /\ GroomType(g)
  BY DEF Turning
<1>5. i + 1 = meep /\ left = Loops /\ Few(len, meep)
  BY <1>1 DEF Once
<1>6. Ending(m) /\ meep \in Of(Ends, g.type)
  BY <1>1 DEF LoopEnd, Ending
<1>7. g.type \in {"ctl", "mark"} /\ g.type \in Filters /\ meep \notin Of(Starts, g.type)
  BY <1>4, <1>6, NoStartEnds DEF GroomType
<1>8. PICK start \in 2 .. meep - 1 : start = g.start /\ start \in Of(Starts, g.type)
                                       /\ g.beginCount + 1 = start
  BY <1>1, <1>7 DEF Once
<1>9. m.endCount = i /\ i # 0 /\ m.room = Room(start - 1, meep - 1, Loops)
  <2>1. g.endCount = 0
    BY <1>7 DEF Once
  <2>2. PICK b \in Nat : b = g.beginCount
    BY <1>4 DEF GroomType
  <2>3. b = start - 1 /\ i = meep - 1 /\ i # 0
    <3>1. b + 1 = start
      BY <1>8, <2>2
    <3>2. i + 1 = meep /\ meep \in 1 .. Count /\ start \in 2 .. meep - 1
      BY <1>1, <1>5, <1>8
    <3>3. /\ meep - 1 # 0
          /\ \A x \in Nat : x + 1 = start => x = start - 1
          /\ \A x \in Nat : x + 1 = meep => x = meep - 1
      BY <1>1, <1>4, <1>8, Between
    <3> QED BY <1>1, <2>2, <3>1, <3>2, <3>3, Zenon
  <2> QED BY <1>1, <1>5, <2>1, <2>2, <2>3 DEF LoopEnd
<1>10. m.room \in Nat /\ m.room = Count + (meep - start + 2) * Loops + 1
  <2>1. start - 1 \in Nat /\ meep - 1 \in Nat /\ start - 1 <= meep - 1 + 2
    BY <1>1, <1>4, <1>8, Between
  <2>2. Room(start - 1, meep - 1, Loops) \in Nat
          /\ Room(start - 1, meep - 1, Loops) = Count + (meep - 1 - (start - 1) + 2) * Loops + 1
    BY <1>4, <2>1, LoopsNat, RoomIs
  <2>3. meep - 1 - (start - 1) + 2 = meep - start + 2
    BY <1>1, <1>4, <1>8
  <2> QED BY <1>9, <2>2, <2>3
<1>11. GroomType(r)
  <2>1. /\ m.type \in {"none", "track", "ctl", "mark"} /\ m.type \in Filters
        /\ m.start \in 0 .. Count /\ m.start # 0
    <3>1. start \in 0 .. Count /\ start # 0
      BY <1>1, <1>4, <1>8, Between
    <3> QED BY <1>3, <1>7, <1>8, <3>1
  <2>2. m.beginCount \in Nat /\ m.endCount \in Nat
    BY <1>1, <1>3, <1>4, <1>9 DEF GroomType
  <2> DEFINE kind == e.kind
  <2>3. Turn(kind, m, r)
    BY <1>4
  <2> HIDE DEF kind
  <2> QED BY <1>1, <1>2, <1>4, <1>10, <2>1, <2>2, <2>3, TurnType
<1>12. r.left = Loops - 1 /\ r.i >= meep /\ Len(r.out) <= meep
         /\ r.meep = IF Loops > 0 THEN r.start ELSE meep + 1
  <2>1. new <= meep
    BY <1>1, <1>5, <1>8 DEF Few
  <2>2. i + 1 >= meep
    BY <1>5, <1>1
  <2> QED BY <1>1, <1>3, <1>5, <1>6, <2>1, <2>2
<1>13. \A k \in Of(Starts, r.type) : k <= r.start \/ k > meep
  <2> SUFFICES ASSUME NEW k \in Of(Starts, g.type), ~(k <= start) PROVE k > meep
    BY <1>3, <1>8
  <2>1. k \in 1 .. Count /\ k >= meep /\ k # meep
    BY <1>1, <1>7, <1>8 DEF Once, Of
  <2> QED BY <1>1, <2>1
<1>14. \A k \in Of(Ends, r.type) : k <= r.start \/ k >= meep
  BY <1>1, <1>3 DEF Once
<1>15. /\ r.start \in 2 .. meep /\ r.start \in Of(Starts, r.type)
       /\ r.room >= Count + (meep - r.start + 2) * Loops + 1
  <2>1. start \in 2 .. meep
    BY <1>1, <1>8
  <2>2. r.room \in Nat /\ r.room = Count + (meep - r.start + 2) * Loops + 1
    BY <1>3, <1>8, <1>10
  <2>3. \A x \in Nat : x >= x
    OBVIOUS
  <2> QED BY <1>3, <1>8, <2>1, <2>2, <2>3
<1>16. Again(r, meep) \/ After(r)
  <2>1. r.type # "none" /\ r.type # "track" /\ r.endCount # 0 /\ meep \in Of(Ends, r.type)
    BY <1>3, <1>6, <1>7, <1>9
  <2> QED BY <1>1, <1>4, <1>11, <1>12, <1>13, <1>14, <1>15, <2>1, FirstEnd
<1> QED BY <1>1, <1>11, <1>16 DEF Going

LEMMA OnceTurn ==
    ASSUME NEW e, NEW m, NEW r, Turning(e, m, r), Once(g)
    PROVE  Going(r)
<1>1. CASE StartAgain(m)
  <2>1. PICK type : StartHere(type) /\ ~Moves(type)
    BY <1>1 DEF StartAgain
  <2>2. g.start # g.meep
    <3>1. g.meep \in 1 .. Count /\ Count \in Nat
      BY DEF Turning
    <3>2. g.start \in 2 .. g.meep - 1 => g.start # g.meep
      BY <3>1
    <3> QED BY <3>1, <3>2 DEF Once
  <2>3. type = "mark" /\ g.endCount # 0
    BY <2>1, <2>2 DEF Moves
  <2>4. g.type # "track"
    BY <2>1, <2>3 DEF StartHere
  <2> QED BY <2>3, <2>4 DEF Once
<1>2. Aside(m) \/ StartAgain(m) \/ NewStart(m) \/ LoopEnd(m)
  BY DEF Turning
<1> QED BY <1>1, <1>2, OnceAside, OnceStarts, OnceEnds

\* While the loop is repeated no start moves it, and only its end ends it.
LEMMA AgainKeeps ==
    ASSUME NEW e, NEW m, NEW r, Turning(e, m, r), NEW last \in 1 .. Count, Again(g, last)
    PROVE  /\ Aside(m) \/ StartAgain(m) \/ LoopEnd(m)
           /\ m.type = g.type /\ m.start = g.start /\ m.beginCount = g.beginCount
           /\ m.endCount = g.endCount /\ m.room = g.room
           /\ Ending(m) <=> g.meep = last
<1>1. Count \in Nat \ {0} /\ g.meep \in 1 .. Count
  BY DEF Turning
<1>2. PICK start \in 2 .. last, meep \in 1 .. Count : start = g.start /\ meep = g.meep
  BY <1>1 DEF Again
<1>3. meep \in start .. last
  BY <1>2 DEF Again
<1>4. meep \in Of(Starts, g.type) => meep = start
  <2> SUFFICES ASSUME meep \in Of(Starts, g.type) PROVE meep = start
    OBVIOUS
  <2>1. meep <= start \/ meep > last
    BY <1>2 DEF Again
  <2> QED BY <1>2, <1>3, <2>1
<1>5. \A type : StartHere(type) => type = g.type /\ meep = start
  BY <1>2, <1>4 DEF StartHere, Again
<1>6. ~NewStart(m)
  BY <1>2, <1>5 DEF NewStart, Moves
<1>7. Aside(m) \/ StartAgain(m) \/ LoopEnd(m)
  BY <1>6 DEF Turning
<1>8. /\ m.type = g.type /\ m.start = g.start /\ m.beginCount = g.beginCount
      /\ m.endCount = g.endCount /\ m.room = g.room /\ m.meep = g.meep
  BY <1>7 DEF Aside, StartAgain, LoopEnd, Alike, Again
<1>9. Ending(m) => meep = last
  <2>1. CASE LoopEnd(m)
    <3>1. meep \in Of(Ends, g.type)
      BY <1>2, <2>1 DEF LoopEnd
    <3>2. meep # start
      BY <1>2, <3>1, NoStartEnds DEF Again
    <3>3. meep <= start \/ meep >= last
      BY <1>2, <3>1 DEF Again
    <3> QED BY <1>2, <1>3, <3>2, <3>3
  <2>2. CASE ~LoopEnd(m)
    <3>1. m.flag # "end"
      BY <1>7, <2>2 DEF Aside, StartAgain
    <3> QED BY <1>2, <1>8, <3>1 DEF Ending, Again
  <2> QED BY <2>1, <2>2
<1>10. meep = last => Ending(m)
  <2> SUFFICES ASSUME meep = last, ~Ending(m) PROVE FALSE
    OBVIOUS
  <2>1. g.type # "track" /\ m.flag # "end"
    BY <1>2, <1>8 DEF Ending, Again
  <2>2. meep \in Of(Ends, g.type)
    BY <2>1 DEF Again
  <2>3. ~LoopEnd(m)
    BY <2>1 DEF LoopEnd
  <2>4. CASE Aside(m)
    <3>1. start = 0
      BY <1>2, <2>2, <2>4 DEF Aside
    <3> QED BY <1>2, <3>1
  <2>5. CASE StartAgain(m)
    <3>1. meep \in Of(Starts, g.type)
      BY <1>2, <1>5, <2>5 DEF StartAgain, StartHere
    <3> QED BY <2>2, <3>1, NoStartEnds
  <2> QED BY <1>7, <2>3, <2>4, <2>5
<1> QED BY <1>2, <1>7, <1>8, <1>9, <1>10

LEMMA AgainTurn ==
    ASSUME NEW e, NEW m, NEW r, Turning(e, m, r), NEW last \in 1 .. Count, Again(g, last)
    PROVE  Going(r)
<1>1. PICK len \in Nat, new \in Nat, left \in Int, i \in Nat, meep \in 1 .. Count :
          Numbers(e, m, r, len, new, left, i, meep)
  BY TurnNumbers
<1> USE DEF Numbers
<1>2. m.i = g.i /\ m.meep = g.meep /\ m.left = g.left
  BY TurnNumbers
<1>3. /\ Aside(m) \/ StartAgain(m) \/ LoopEnd(m)
      /\ m.type = g.type /\ m.start = g.start /\ m.beginCount = g.beginCount
      /\ m.endCount = g.endCount /\ m.room = g.room
      /\ Ending(m) <=> g.meep = last
  BY AgainKeeps
<1>4. /\ r.room = g.room /\ r.type = g.type /\ r.start = g.start
      /\ r.beginCount = g.beginCount /\ r.endCount = g.endCount
  BY <1>3, TurnLeaves
<1>5. /\ g.room \in Nat /\ g.start \in Nat /\ g.beginCount \in Nat /\ g.endCount \in Nat
      /\ g.type \in {"none", "track", "ctl", "mark"} /\ (g.type # "none" => g.type \in Filters)
      /\ Count \in Nat \ {0} /\ Turn(e.kind, m, r) /\ GroomType(g)
  BY DEF Turning, GroomType
<1>6. PICK start \in 2 .. last, room \in Nat : start = g.start /\ room = g.room
  BY <1>5 DEF Again
<1>7. meep \in start .. last /\ left \in Nat /\ i >= meep
        /\ Enough(len, left, start, last, room, meep)
  <2>1. left >= 0 /\ i >= meep /\ meep \in start .. last
           /\ Enough(len, left, start, last, room, meep)
    BY <1>1, <1>6 DEF Again
  <2> QED BY <2>1
<1>8. GroomType(r)
  <2>1. start \in 0 .. Count /\ start # 0
    BY <1>5, <1>6
  <2>2. m.start \in 0 .. Count /\ m.start # 0
    BY <1>3, <1>6, <2>1
  <2> DEFINE kind == e.kind
  <2>3. Turn(kind, m, r)
    BY <1>5
  <2> HIDE DEF kind
  <2> QED BY <1>1, <1>2, <1>3, <1>5, <2>2, <2>3, TurnType
<1>9. /\ r.type # "none" /\ r.endCount # 0
      /\ r.type = "track" => last = Count
      /\ r.type # "track" => last \in Of(Ends, r.type)
      /\ r.start \in 2 .. last /\ r.start \in Of(Starts, r.type)
      /\ \A k \in Of(Starts, r.type) : k <= r.start \/ k > last
      /\ \A k \in Of(Ends, r.type) : k <= r.start \/ k >= last
  BY <1>4 DEF Again
<1>10. CASE Ending(m)
  <2>1. meep = last /\ r.left = left - 1 /\ r.i = i + 1
          /\ r.meep = (IF left > 0 THEN r.start ELSE last + 1) /\ new <= len + 2
          /\ new = Len(r.out)
    BY <1>1, <1>3, <1>4, <1>10
  <2>2. i + 1 >= last
    BY <1>7, <2>1
  <2>3. Enough(len, left, r.start, last, r.room, last)
    BY <1>4, <1>6, <1>7, <2>1
  <2>4. Again(r, last) \/ After(r)
    BY <1>5, <1>7, <1>8, <1>9, <2>1, <2>2, <2>3, NextEnd
  <2> QED BY <1>8, <2>4 DEF Going
<1>11. CASE ~Ending(m)
  <2>1. meep # last /\ r.left = left /\ r.i = i + 1 /\ r.meep = meep + 1
          /\ new <= len + 1 /\ new = Len(r.out)
    BY <1>1, <1>3, <1>11
  <2>2. meep + 1 \in start .. last /\ i + 1 >= meep + 1 /\ left >= 0
    BY <1>6, <1>7, <2>1
  <2>3. Enough(new, left, start, last, room, meep + 1)
    <3>1. /\ Count \in Nat /\ left \in Int /\ last \in Nat /\ start \in Nat /\ meep \in Nat
          /\ new <= len + 1
      BY <1>1, <1>5, <1>6, <1>7, <2>1
    <3> QED BY <1>1, <1>6, <1>7, <3>1, EnoughOn
  <2>4. /\ r.left >= 0 /\ r.i >= r.meep /\ r.meep \in r.start .. last
        /\ Enough(Len(r.out), r.left, r.start, last, r.room, r.meep)
    BY <1>4, <1>6, <2>1, <2>2, <2>3
  <2>5. Again(r, last)
    BY <1>9, <2>4 DEF Again
  <2> QED BY <1>8, <2>5 DEF Going
<1> QED BY <1>10, <1>11

\* Behind the last end nothing goes back.
LEMMA AfterTurn ==
    ASSUME NEW e, NEW m, NEW r, Turning(e, m, r), After(g)
    PROVE  Going(r)
<1>1. PICK len \in Nat, new \in Nat, left \in Int, i \in Nat, meep \in 1 .. Count :
          Numbers(e, m, r, len, new, left, i, meep)
  BY TurnNumbers
<1> USE DEF Numbers
<1>2. m.i = g.i /\ m.meep = g.meep /\ m.left = g.left
  BY TurnNumbers
<1>3. /\ r.room = m.room /\ r.type = m.type /\ r.start = m.start
      /\ r.beginCount = m.beginCount /\ r.endCount = m.endCount
  BY TurnLeaves
<1>4. /\ g.room \in Nat /\ g.start \in Nat /\ g.beginCount \in Nat /\ g.endCount \in Nat
      /\ g.type \in {"none", "track", "ctl", "mark"} /\ (g.type # "none" => g.type \in Filters)
      /\ Count \in Nat \ {0} /\ Turn(e.kind, m, r) /\ GroomType(g)
  BY DEF Turning, GroomType
<1>5. left < 0 /\ i + 1 >= meep /\ g.type \notin {"none", "track"}
  <2>1. \A C \in Nat : C + 1 \notin 1 .. C
    OBVIOUS
  <2>2. g.type # "track"
    BY <1>1, <1>4, <2>1, Zenon DEF After
  <2> QED BY <1>1, <2>2 DEF After
<1>6. m.type = g.type /\ m.endCount = g.endCount /\ m.room = g.room /\ m.beginCount \in Nat
  <2>1. CASE NewStart(m)
    <3>1. PICK type \in Filters :
              /\ StartHere(type) /\ m.type = type
              /\ type # "track" => m.endCount = g.endCount /\ m.room = g.room
      BY <2>1 DEF NewStart
    <3>2. type = g.type
      BY <1>5, <3>1 DEF StartHere
    <3>3. m.beginCount \in Nat
      BY <1>1, <2>1 DEF NewStart
    <3> QED BY <1>5, <3>1, <3>2, <3>3
  <2>2. CASE ~NewStart(m)
    <3>1. Aside(m) \/ StartAgain(m) \/ LoopEnd(m)
      BY <2>2 DEF Turning
    <3>2. g.endCount # 0
      BY DEF After
    <3> QED BY <1>4, <3>1, <3>2 DEF Aside, StartAgain, LoopEnd, Alike
  <2> QED BY <2>1, <2>2
<1>7. m.start \in Nat
  BY <1>1, <1>4 DEF Turning, Aside, StartAgain, NewStart, LoopEnd, Alike
<1>8. new <= len + 1 /\ r.meep = meep + 1 /\ r.i = i + 1
        /\ (r.left = left \/ r.left = left - 1)
  <2>1. ~(left > 0)
    BY <1>5
  <2>2. Aside(m) => ~Ending(m)
    BY <1>5, <1>6 DEF Aside, Ending
  <2>3. new <= len + 1
    BY <1>1, <2>2
  <2> QED BY <1>1, <2>1, <2>3
<1>9. GroomType(r)
  <2>1. r.left \in Int /\ r.i \in Nat
    BY <1>8
  <2>2. r.meep \in 1 .. Count + 1
    <3>1. \A C \in Nat : \A x \in 1 .. C : x + 1 \in 1 .. C + 1
      OBVIOUS
    <3> QED BY <1>4, <1>8, <3>1, Zenon
  <2> QED BY <1>3, <1>4, <1>6, <1>7, <2>1, <2>2 DEF GroomType, Turn
<1>10. r.left < 0 /\ r.i + 1 >= r.meep
  <2>1. left - 1 < 0 /\ i + 1 + 1 >= meep + 1
    BY <1>5
  <2> QED BY <1>5, <1>8, <2>1
<1>11. Rest(Len(r.out), r.room, r.meep)
  <2>1. PICK room \in Nat : room = g.room
    BY <1>4
  <2>2. Rest(len, room, meep)
    BY <1>1, <2>1 DEF After
  <2>3. Rest(new, room, meep + 1)
    <3>1. Count \in Nat /\ meep \in Nat /\ 0 \in Nat /\ 0 \in Int
      BY <1>4
    <3> QED BY <1>8, <2>1, <2>2, <3>1, EnoughOn
  <2> QED BY <1>1, <1>3, <1>6, <1>8, <2>1, <2>3
<1>12. After(r)
  BY <1>3, <1>5, <1>6, <1>10, <1>11 DEF After
<1> QED BY <1>9, <1>12 DEF Going

\* groom_list goes on where there is an event, and every turn is one of those above.
LEMMA TurnGoes ==
    ASSUME GroomEvent, Going(g), Count \in Nat \ {0}, evlist[1].kind = "none"
    PROVE  \E r : g' = r /\ Going(r)
<1> DEFINE e == evlist[g.meep]
           m == Met(e)
           r == TurnOf(e, m)
<1>1. g' = r
  BY DEF GroomEvent, TurnOf
<1>2. GroomType(g) /\ g.meep \in 1 .. Count + 1
  BY DEF Going, GroomType
<1>3. g.meep # Count + 1
  <2> SUFFICES ASSUME g.meep = Count + 1 PROVE FALSE
    OBVIOUS
  <2>1. g.i \in Nat /\ g.i < Count
    <3>1. g.i < Count \/ Count + 1 <= Count
      BY DEF GroomEvent
    <3>2. \A C \in Nat : ~(C + 1 <= C)
      OBVIOUS
    <3> QED BY <1>2, <3>1, <3>2, Zenon DEF GroomType
  <2>2. PICK n \in Nat, C \in Nat \ {0} : n = g.i /\ C = Count
    BY <2>1
  <2>3. n < C /\ n + 1 # C + 1 /\ ~(n + 1 >= C + 1)
    BY <2>1, <2>2
  <2>4. CASE Once(g)
    <3>1. g.i + 1 = Count + 1
      BY <2>4 DEF Once
    <3> QED BY <2>2, <2>3, <3>1
  <2>5. CASE \E last \in 1 .. Count : Again(g, last)
    <3>1. PICK last \in 1 .. Count : Again(g, last)
      BY <2>5
    <3>2. PICK start \in 2 .. last : start = g.start
      BY <3>1 DEF Again
    <3>3. Count + 1 \in start .. last
      BY <3>1, <3>2 DEF Again
    <3>4. \A D \in Nat : \A x \in 1 .. D : D + 1 \notin start .. x
      BY <3>2
    <3> QED BY <3>1, <3>3, <3>4, Zenon
  <2>6. CASE After(g)
    <3>1. g.i + 1 >= Count + 1
      BY <2>6 DEF After
    <3> QED BY <2>2, <2>3, <3>1
  <2> QED BY <2>4, <2>5, <2>6 DEF Going
<1>4. g.meep \in 1 .. Count
  <2>1. \A C \in Nat : \A x \in 1 .. C + 1 : x # C + 1 => x \in 1 .. C
    OBVIOUS
  <2> QED BY <1>2, <1>3, <2>1, Zenon
<1> HIDE DEF r
<1>5. \/ Aside(m)
      \/ Mark(e.kind) /\ (StartAgain(m) \/ NewStart(m) \/ LoopEnd(m))
  <2> HIDE DEF m
  <2>1. m = Met(e)
    BY DEF m
  <2> HIDE DEF e
  <2>2. e = evlist[g.meep]
    BY DEF e
  <2> QED BY <1>2, <1>4, <2>1, <2>2, MetIs
<1> HIDE DEF m, e
<1>6. /\ DOMAIN m = Locals /\ m.flag \in {"none", "start", "end"}
      /\ m.out = g.out /\ m.left = g.left
  BY <1>5 DEF Aside, StartAgain, NewStart, LoopEnd, Alike
<1>7. IsList(m.out) /\ HasLeft(m)
  BY <1>2, <1>6 DEF GroomType, HasLeft
<1>8. Turn(e.kind, m, r)
  <2>1. r = TurnOf(e, m)
    BY DEF r
  <2> QED BY <1>6, <1>7, <2>1, TurnTaken
<1>9. Turning(e, m, r)
  <2>1. e = evlist[g.meep]
    BY DEF e
  <2> QED BY <1>2, <1>4, <1>5, <1>8, <2>1 DEF Turning
<1>10. Going(r)
  BY <1>9, OnceTurn, AgainTurn, AfterTurn DEF Going
<1> QED BY <1>1, <1>10

\* The list that a step leaves alone.
LEMMA StillGoes ==
    ASSUME NEW r, Going(r), g' = r, evlist' = evlist
    PROVE  Going(g)'
<1>1. GroomType(g)'
  BY DEF Going, GroomType, Count
<1>2. Once(r) => Once(g)'
  BY DEF Once, Few, Of, Room, Count
<1>3. ASSUME NEW last \in 1 .. Count, Again(r, last)
      PROVE  \E x \in (1 .. Count)' : Again(g, x)'
  <2>1. Again(g, last)'
    BY <1>3 DEF Again, Enough, Of, Count
  <2> QED BY <1>3, <2>1 DEF Count
<1>4. After(r) => After(g)'
  BY DEF After, Rest, Count
<1> QED BY <1>1, <1>2, <1>3, <1>4 DEF Going

LEMMA GroomEnds ==
    ASSUME Going(g), Count \in Nat \ {0}, ~(g.i < Count \/ g.meep <= Count)
    PROVE  Len(g.out) \in Nat /\ g.room \in Nat /\ Len(g.out) + 1 <= g.room
<1>1. PICK C \in Nat, i \in Nat, meep \in 1 .. Count + 1, len \in Nat, room \in Nat :
          C = Count /\ i = g.i /\ meep = g.meep /\ len = Len(g.out) /\ room = g.room
  BY GroomNumbers DEF Going
<1>2. meep = C + 1 /\ i >= C
  <2>1. ~(i < C) /\ ~(meep <= C) /\ meep \in 1 .. C + 1
    BY <1>1
  <2> QED BY <1>1, <2>1
<1>3. CASE Once(g)
  <2>1. g.type # "track"
    BY <1>1, <1>2, <1>3 DEF Once
  <2>2. room = C + 1 /\ Few(len, meep)
    BY <1>1, <1>3, <2>1 DEF Once
  <2> QED BY <1>1, <1>2, <2>2 DEF Few
<1>4. CASE \E last \in 1 .. Count : Again(g, last)
  <2>1. PICK last \in 1 .. Count : Again(g, last)
    BY <1>4
  <2>2. PICK start \in 2 .. last : start = g.start
    BY <2>1 DEF Again
  <2>3. C + 1 \in start .. last
    BY <1>1, <1>2, <2>1, <2>2 DEF Again
  <2> QED BY <1>1, <2>1, <2>2, <2>3
<1>5. CASE After(g)
  <2>1. Rest(len, room, meep)
    BY <1>1, <1>5 DEF After
  <2>2. len + C + 2 <= room + meep
    BY <1>1, <2>1 DEF Rest
  <2>3. len + 1 <= room
    BY <1>1, <1>2, <2>2
  <2> QED BY <1>1, <2>3
<1> QED BY <1>3, <1>4, <1>5 DEF Going

LEMMA GroomFits ==
    ASSUME Going(g), Count \in Nat \ {0}
    PROVE  Len(g.out) <= g.room
<1>1. PICK C \in Nat, meep \in 1 .. Count + 1, len \in Nat, room \in Nat :
          C = Count /\ meep = g.meep /\ len = Len(g.out) /\ room = g.room
  BY GroomNumbers DEF Going
<1>2. meep <= C + 1
  BY <1>1
<1>3. CASE Once(g)
  <2>1. Few(len, meep)
    BY <1>1, <1>3 DEF Once
  <2>2. room >= C + 1
    <3>1. CASE g.type = "track"
      <4>1. meep <= C /\ g.start \in 2 .. meep - 1
              /\ room = Room(g.start - 1, Count + 1, Loops)
        BY <1>1, <1>3, <3>1 DEF Once
      <4>2. PICK start \in 2 .. C : start = g.start
        BY <1>1, <4>1
      <4>3. room >= Count + (Count - start + 2) * Loops + 1
        BY <1>1, <4>1, <4>2, LoopsNat, RoomOfTrack
      <4>4. C - start + 2 \in Nat
        BY <1>1, <4>2
      <4>5. (C - start + 2) * Loops \in Nat
        BY <4>4, LoopsNat
      <4>6. PICK total \in Nat : total = (C - start + 2) * Loops
        BY <4>5
      <4>7. room >= C + total + 1
        BY <1>1, <4>3, <4>6
      <4> QED BY <1>1, <4>7
    <3>2. CASE g.type # "track"
      BY <1>1, <1>3, <3>2 DEF Once
    <3> QED BY <3>1, <3>2
  <2> QED BY <1>1, <1>2, <2>1, <2>2 DEF Few
<1>4. CASE \E last \in 1 .. Count : Again(g, last)
  <2>1. PICK last \in 1 .. Count : Again(g, last)
    BY <1>4
  <2>2. PICK start \in 2 .. last, left \in Nat : start = g.start /\ left = g.left
    <3>1. g.left \in Int /\ g.left >= 0
      BY <2>1 DEF Again, Going, GroomType
    <3>2. \A x \in Int : x >= 0 => x \in Nat
      OBVIOUS
    <3>3. g.left \in Nat
      BY <3>1, <3>2, Zenon
    <3> QED BY <2>1, <3>3 DEF Again
  <2>3. Enough(len, left, start, last, room, meep) /\ meep \in start .. last
    BY <1>1, <2>1, <2>2 DEF Again
  <2>4. PICK total \in Nat : total = (left + 1) * (last - start + 2)
    <3>1. last - start + 2 \in Nat /\ left + 1 \in Nat
      BY <2>1, <2>2
    <3> QED BY <3>1
  <2>5. total >= last - start + 2
    <3> DEFINE pass == last - start + 2
    <3>1. pass \in Nat
      BY <2>1, <2>2
    <3>2. PICK rest \in Nat : rest = left * pass
      BY <2>2, <3>1
    <3>3. (left + 1) * pass = rest + pass
      BY <2>2, <3>1, <3>2
    <3> HIDE DEF pass
    <3>4. rest + pass >= pass
      BY <3>1, <3>2
    <3> QED BY <2>4, <3>3, <3>4 DEF pass
  <2>6. len + total + C + 1 <= last + room + (meep - start)
    BY <1>1, <2>3, <2>4 DEF Enough
  <2>7. last <= C
    BY <1>1, <2>1
  <2>8. len <= room
    <3>1. last \in Nat /\ start \in Nat /\ meep \in Nat /\ meep <= last
      BY <1>1, <2>1, <2>2, <2>3
    <3>2. ASSUME NEW x \in Nat, NEW y \in Nat, NEW z \in Nat, NEW n \in Nat, z <= y, y <= C,
                 n >= y - x + 2, len + n + C + 1 <= y + room + (z - x)
          PROVE  len <= room
      <4> HIDE DEF Count
      <4> QED BY <1>1, <3>2
    <3> QED BY <2>4, <2>5, <2>6, <2>7, <3>1, <3>2
  <2> QED BY <1>1, <2>8
<1>5. CASE After(g)
  <2>1. Rest(len, room, meep)
    BY <1>1, <1>5 DEF After
  <2>2. len + C + 2 <= room + meep
    BY <1>1, <2>1 DEF Rest
  <2> QED BY <1>1, <1>2, <2>2
<1> QED BY <1>3, <1>4, <1>5 DEF Going

\* groom_list begins in front of the list.
LEMMA StartGoes ==
    ASSUME StartGroom, Count \in Nat \ {0}
    PROVE  \E r : g' = r /\ Going(r)
<1> DEFINE rate == Rates["common"]
           room == Count + 1
           h == [i |-> 0, meep |-> 1, out |-> <<>>, room |-> room,
                 st |-> 0, cum |-> 0, at |-> 0, counting |-> 2,
                 rate |-> rate, type |-> "none", start |-> 0, addAt |-> 0,
                 beginTime |-> 0, endTime |-> 0, beginCount |-> 0, endCount |-> 0,
                 left |-> Loops, flag |-> "none"]
<1>1. g' = h
  BY DEF StartGroom, Loops
<1>2. room \in Nat /\ 1 \in 1 .. Count + 1 /\ Loops \in Int /\ room = Count + 1
  BY LoopsNat
<1> HIDE DEF room, rate, Loops
<1>3. /\ DOMAIN h = Locals /\ h.out = <<>> /\ h.i = 0 /\ h.meep = 1 /\ h.left = Loops
      /\ h.start = 0 /\ h.beginCount = 0 /\ h.endCount = 0 /\ h.room = room
      /\ h.type = "none" /\ h.flag = "none"
  BY DEF Locals
<1> HIDE DEF h
<1>4. IsList(<<>>) /\ Len(<<>>) = 0
  BY Short DEF IsList
<1>5. GroomType(h)
  BY <1>2, <1>3, <1>4 DEF GroomType
<1>6. Of(Starts, "none") = {} /\ Of(Ends, "none") = {}
  BY KindOf DEF Of, IsStart, IsEnd
<1>7. Once(h)
  BY <1>2, <1>3, <1>4, <1>6 DEF Once, Few
<1> QED BY <1>1, <1>5, <1>7 DEF Going

LEMMA GroomedInit == ReadInit => Groomed
<1> SUFFICES ASSUME ReadInit PROVE Groomed
  OBVIOUS
<1> DEFINE head == [kind |-> "none", time |-> 0, mark |-> <<>>, id |-> 0]
<1>1. evlist = <<head>> /\ phase = "read"
  BY DEF ReadInit
<1>2. evlist[1] = head
  BY <1>1, Short
<1> QED BY <1>1, <1>2 DEF Groomed

\* An event is added behind the head, and before the list is groomed.
LEMMA AddGroomed ==
    ASSUME ListInv, Groomed, AddEvent
    PROVE  Groomed'
<1> DEFINE e == Head(pending)
           entry == [kind |-> e.kind, time |-> e.time, mark |-> e.mark, id |-> Count]
<1>1. PICK k \in 0 .. Count : StopsAt(k, e.time) /\ evlist' = PutAfter(k, entry)
  BY DEF AddEvent
<1>2. e.time \in Nat /\ ListType /\ ListInOrder
  <2>1. e \in Due
    BY HeadTailProperties DEF ListInv, ReadersType, AddEvent
  <2> QED BY <2>1 DEF ListInv, Due
<1>3. k >= 1
  BY <1>1, <1>2, PlaceFits
<1>4. 1 \in 1 .. Count + 1 /\ 1 <= k
  BY <1>2, <1>3 DEF ListType
<1> HIDE DEF entry
<1>5. evlist'[1] = evlist[1]
  BY <1>1, <1>4 DEF PutAfter
<1>6. phase' = phase /\ phase \notin {"groom", "done"}
  BY DEF AddEvent, Groomed
<1> QED BY <1>5, <1>6 DEF Groomed

\* What reads or adds beats does not groom.
LEMMA NotYetGroomed ==
    ASSUME Groomed, evlist' = evlist, phase' \notin {"groom", "done"}
    PROVE  Groomed'
BY DEF Groomed

LEMMA GroomedKept ==
    ASSUME ListInv, Groomed, [ReadNext]_readVars
    PROVE  Groomed'
<1>1. Count \in Nat \ {0} /\ evlist[1].kind = "none"
  BY DEF ListInv, ListType, Groomed
<1>2. CASE AddEvent
  BY <1>2, AddGroomed
<1>3. CASE DropEvent
  BY <1>3, NotYetGroomed DEF DropEvent, Groomed
<1>4. CASE \E d \in Deltas, kind \in Kinds : ReadEvent(d, kind)
  BY <1>4, NotYetGroomed DEF ReadEvent, Reading
<1>5. CASE EndTrack \/ SetTrack \/ BreakOff
  BY <1>5, NotYetGroomed DEF EndTrack, SetTrack, BreakOff, Reading
<1>6. CASE \E d \in Deltas, key \in Keys, length \in Deltas : MfiNote(d, key, length)
  BY <1>6, NotYetGroomed DEF MfiNote, Reading
<1>7. CASE \E d \in Deltas, kind \in Kinds : MfiControl(d, kind)
  BY <1>7, NotYetGroomed DEF MfiControl, Reading
<1>8. CASE MfiEnd \/ MfiFail
  BY <1>8, NotYetGroomed DEF MfiEnd, MfiFail, Reading
<1>9. CASE ReadSig \/ SigsRead \/ NoteStep
  BY <1>9, NotYetGroomed DEF ReadSig, SigsRead, NoteStep
<1>10. CASE StartGroom \/ GroomEvent
  <2>1. \E r : g' = r /\ Going(r)
    BY <1>1, <1>10, StartGoes, TurnGoes DEF GroomEvent, Groomed
  <2>2. evlist' = evlist /\ phase' = "groom" /\ pending' = <<>>
    BY <1>10 DEF StartGroom, GroomEvent, Groomed
  <2>3. Going(g)'
    BY <2>1, <2>2, StillGoes
  <2> QED BY <1>1, <2>2, <2>3 DEF Groomed
<1>11. CASE GroomDone
  <2>1. Going(g) /\ pending = <<>>
    BY <1>11 DEF GroomDone, Groomed
  <2>2. Len(g.out) \in Nat /\ g.room \in Nat /\ Len(g.out) + 1 <= g.room
    BY <1>1, <1>11, <2>1, GroomEnds DEF GroomDone
  <2> DEFINE k == Kept("eot", 0, g)
  <2>3. Len(k.out) = Len(g.out) + 1 /\ k.room = g.room
    <3>1. DOMAIN g = Locals /\ IsList(g.out)
      BY <2>1 DEF Going, GroomType
    <3> QED BY <3>1, KeptFields DEF Locals
  <2>4. g' = k /\ phase' = "done" /\ pending' = <<>> /\ evlist' = evlist
    BY <1>11, <2>1 DEF GroomDone
  <2> HIDE DEF k
  <2> QED BY <1>1, <2>2, <2>3, <2>4 DEF Groomed
<1>12. CASE UNCHANGED readVars
  <2>1. evlist' = evlist /\ phase' = phase /\ pending' = pending /\ g' = g
    BY <1>12 DEF readVars
  <2>2. Going(g) => Going(g)'
    BY <2>1, StillGoes
  <2> QED BY <2>1, <2>2 DEF Groomed
<1> QED BY <1>2, <1>3, <1>4, <1>5, <1>6, <1>7, <1>8, <1>9, <1>10, <1>11, <1>12
        DEF ReadNext

\* The list groom_list writes has room for every event: the size it computes where
\* the extent of the loop becomes known is enough for the passes, for their marks and
\* for the rest of the tune, whatever the tune holds and wherever its loop is.
THEOREM GroomAlwaysFits == ReadSpec => []Fits
<1> DEFINE I == ListInv /\ Groomed
<1>1. ReadInit => I
  BY ListInvInit, GroomedInit
<1>2. I /\ [ReadNext]_readVars => I'
  BY ListInvKept, GroomedKept
<1>3. I => Fits
  BY GroomFits DEF ListInv, ListType, Groomed, Fits
<1> QED BY <1>1, <1>2, <1>3, PTL DEF ReadSpec
=============================================================================
