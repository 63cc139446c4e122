--------------------------- MODULE Voices_proofs ---------------------------
(***************************************************************************)
(* Proofs about the voices for every polyphony, every set of channels and   *)
(* keys, every instrument and every setting of the options.                 *)
(***************************************************************************)
EXTENDS Voices, FiniteSetTheorems, FunctionTheorems, WellFoundedInduction, TLAPS

\* The voices of the list that find_samples fills are such as the mixer sees;
\* only a polyphony of zero leaves it voice 0 out of sight.
CallVoices == call.op = "note" => \A i \in call.vlist : i < upper \/ voices = 0

\* A legato starts only after a note of the channel that can be its base, its flag
\* stays set while it goes on, and only portamento messages set portamento.
LegatoKey ==
    \A c \in Channels : /\ legato[c].porta => legato[c].last \in Notes
                        /\ legato[c].status => legato[c].flag
                        /\ c \notin Glides => ~legato[c].glide /\ ~legato[c].ctrl

IInv == TypeOK /\ UpperVoices /\ CallVoices /\ LegatoKey /\ LegatoKeepsBase

-----------------------------------------------------------------------------
(* What the operators make of one voice.                                   *)

\* The array that reset_voices zeroes.
LEMMA BlankType == Blank \in Voice /\ Blank.status = "free"
BY VoicesAssumption DEF Blank, Voice, Statuses

\* cut_note, finish_note, free_voice and what is forgotten of a dead voice.
LEMMA VoiceSteps ==
    ASSUME NEW v \in Voice
    PROVE  /\ Cut(v) \in Voice /\ Finished(v) \in Voice
           /\ Freed(v) \in Voice /\ Tidy(v) \in Voice
           /\ Freed(v).status = "free" /\ Tidy(v).status = v.status
<1>1. /\ Cut(v) \in Voice /\ Finished(v) \in Voice
      /\ Freed(v) \in Voice /\ Freed(v).status = "free"
  BY DEF Cut, Finished, Freed, Live, Voice, Statuses
<1>2. Tidy(v) \in Voice /\ Tidy(v).status = v.status
  <2> DEFINE kept == [Blank EXCEPT !.status = v.status, !.ch = v.ch]
  <2>1. kept \in Voice /\ kept.status = v.status
    <3>1. v.status \in Statuses /\ v.ch \in Channels \cup {0}
      BY DEF Voice
    <3>2. Blank \in Voice
      BY BlankType
    <3> QED BY <3>1, <3>2 DEF Voice
  <2> QED BY <2>1 DEF Tidy
<1> QED BY <1>1, <1>2

\* free_voice on a voice whatever it was doing.
LEMMA FreedVoice ==
    ASSUME NEW v \in Voice
    PROVE  Tidy(Freed(v)) \in Voice /\ Tidy(Freed(v)).status = "free"
<1>1. Freed(v) \in Voice /\ Freed(v).status = "free"
  BY VoiceSteps
<1> QED BY <1>1, VoiceSteps

\* voice_control keeps a voice a voice.
LEMMA NewNoteType ==
    ASSUME NEW v \in Voice, NEW c \in Channels, NEW n \in Notes
    PROVE  NewNote(v, c, n) \in Voice
<1> DEFINE aged == IF v.cnt > 0 THEN [v EXCEPT !.cnt = @ - 1] ELSE Cut(v)
<1>1. aged \in Voice
  BY VoiceSteps, VoicesAssumption DEF Voice
<1>2. Cut(aged) \in Voice
  BY <1>1, VoiceSteps
<1>3. aged.ovl = v.ovl
  BY DEF Voice, Cut
<1>4. v.ovl > 0 => [aged EXCEPT !.ovl = @ - 1] \in Voice
  BY <1>1, <1>3, VoicesAssumption DEF Voice
<1> QED BY <1>1, <1>2, <1>4 DEF NewNote

\* note_off, the pedals and reset_controllers keep a voice a voice.
LEMMA HandlerTypes ==
    ASSUME NEW v \in Voice, NEW c \in Channels, NEW s \in BOOLEAN
    PROVE  /\ Released(v, c) \in Voice /\ Dropped(v, c) \in Voice
           /\ Redamped(v, c) \in Voice /\ Held(v, c, s) \in Voice
<1>1. Finished(v) \in Voice
  BY VoiceSteps
<1>2. \A st \in Statuses : [v EXCEPT !.status = st] \in Voice
  BY DEF Voice
<1>3. [v EXCEPT !.sost = s] \in Voice
  BY DEF Voice
<1>4. "on" \in Statuses /\ "sustained" \in Statuses
  BY DEF Statuses
<1> QED BY <1>1, <1>2, <1>3, <1>4 DEF Released, Dropped, Redamped, Held

-----------------------------------------------------------------------------
(* Upper_voices.                                                           *)

\* A handler's loop over i < upper_voices takes no voice into use above it.
LEMMA HandlerUpper ==
    ASSUME TypeOK, UpperVoices, voice' \in [VoiceIds -> Voice], UNCHANGED sizeVars,
           \A i \in VoiceIds : i >= upper => voice'[i] = voice[i]
    PROVE  UpperVoices'
<1>1. \A i \in upper..(voices - 1) : i \in VoiceIds /\ i >= upper
  BY VoicesAssumption DEF TypeOK, VoiceIds
<1> QED BY <1>1 DEF UpperVoices, sizeVars

\* Emptying the last voice and giving it up: a voice that lives there is
\* below upper_voices, so no voice lies between them.
LEMMA VacateKeeps ==
    ASSUME TypeOK, UpperVoices, voices > 0, NEW spare, NEW victims,
           \A j \in spare : j \in 0..(voices - 2) /\ ~Live(voice[j]),
           victims \subseteq VoiceIds, Vacate(spare, victims), Shrunk
    PROVE  /\ voice' \in [VoiceIds -> Voice] /\ voices' \in 0..MaxVoices
           /\ upper' \in 0..MaxVoices /\ UpperVoices'
<1> DEFINE last == voices - 1
<1>1. /\ voices \in 0..MaxVoices /\ upper \in 0..voices /\ MaxVoices \in Nat
      /\ last \in VoiceIds /\ \A j \in spare : j \in VoiceIds
  BY VoicesAssumption DEF TypeOK, UpperVoices, VoiceIds
<1>2. voices' = last /\ upper' \in 0..last /\ last \in 0..MaxVoices
  BY <1>1 DEF Shrunk, Smaller
<1>3. voice' \in [VoiceIds -> Voice]
  <2>1. voice \in [VoiceIds -> Voice]
    BY DEF TypeOK
  <2>2. ASSUME NEW f \in [VoiceIds -> Voice], NEW i \in VoiceIds, NEW j \in VoiceIds
        PROVE  Swapped(f, i, j) \in [VoiceIds -> Voice]
    BY DEF Swapped
  <2>3. ASSUME NEW j \in VoiceIds
        PROVE  [voice EXCEPT ![j] = Tidy(Freed(@))] \in [VoiceIds -> Voice]
    BY <2>1, FreedVoice
  <2>4. CASE voice' = voice
    BY <2>1, <2>4
  <2>5. ASSUME NEW j \in spare, voice' = Swapped(voice, j, last)
        PROVE  voice' \in [VoiceIds -> Voice]
    BY <1>1, <2>1, <2>2, <2>5
  <2>6. ASSUME NEW j \in victims,
               voice' = Swapped([voice EXCEPT ![j] = Tidy(Freed(@))], j, last)
        PROVE  voice' \in [VoiceIds -> Voice]
    BY <1>1, <2>2, <2>3, <2>6
  <2> QED BY <2>4, <2>5, <2>6 DEF Vacate
<1>4. ~Live(voice[last]) => voice' = voice
  BY DEF Vacate
<1>5. upper < voices => ~Live(voice[last])
  BY <1>1 DEF UpperVoices, Live
<1>6. UpperVoices'
  <2>1. CASE upper = voices
    BY <2>1, <1>1, <1>2 DEF UpperVoices, Shrunk, Smaller
  <2>2. CASE upper < voices
    <3>1. voice' = voice /\ upper' = upper
      BY <2>2, <1>1, <1>4, <1>5 DEF Shrunk, Smaller
    <3> QED BY <2>2, <3>1, <1>1, <1>2 DEF UpperVoices
  <2> QED BY <2>1, <2>2, <1>1
<1> QED BY <1>1, <1>2, <1>3, <1>6

\* voice_increment: the voices that come back are free.
LEMMA GrowKeeps ==
    ASSUME TypeOK, UpperVoices, NEW n \in Nat, Grow(n), upper' = upper
    PROVE  /\ voice' \in [VoiceIds -> Voice] /\ voices' \in 0..MaxVoices
           /\ upper' \in 0..MaxVoices /\ UpperVoices'
<1>1. /\ voices \in 0..MaxVoices /\ upper \in 0..voices /\ MaxVoices \in Nat
      /\ voice \in [VoiceIds -> Voice]
  BY VoicesAssumption DEF TypeOK, UpperVoices
<1>2. voices' \in voices..MaxVoices
  BY <1>1 DEF Grow, Smaller
<1>3. voice' \in [VoiceIds -> Voice]
  BY <1>1, FreedVoice DEF Grow
<1>4. ASSUME NEW i \in VoiceIds, upper <= i, i < voices'
      PROVE  voice'[i].status = "free"
  <2>1. CASE i < voices
    <3>1. voice'[i] = voice[i]
      BY <1>1, <1>2, <1>4, <2>1 DEF Grow, VoiceIds
    <3> QED BY <3>1, <1>4, <2>1, <1>1 DEF UpperVoices, VoiceIds
  <2>2. CASE i >= voices
    <3>1. voice'[i] = Tidy(Freed(voice[i])) /\ voice[i] \in Voice
      BY <1>1, <1>2, <1>4, <2>2 DEF Grow, VoiceIds
    <3> QED BY <3>1, FreedVoice
  <2> QED BY <2>1, <2>2, <1>1 DEF VoiceIds
<1>5. /\ upper' <= voices' /\ upper' \in 0..MaxVoices
      /\ upper' \in Int /\ voices' \in Int /\ voices' <= MaxVoices
  BY <1>1, <1>2
<1>6. ASSUME NEW w \in Int, NEW u \in Int, NEW f, u = upper, w <= MaxVoices,
             \A i \in VoiceIds : upper <= i /\ i < w => f[i].status = "free"
      PROVE  \A i \in u..(w - 1) : f[i].status = "free"
  <2>1. \A i \in u..(w - 1) : i \in VoiceIds /\ upper <= i /\ i < w
    BY <1>1, <1>6 DEF VoiceIds
  <2> QED BY <2>1, <1>6
<1>7. \A i \in upper'..(voices' - 1) : voice'[i].status = "free"
  BY <1>4, <1>5, <1>6
<1>8. UpperVoices'
  BY <1>5, <1>7, Zenon DEF UpperVoices
<1>9. voices' \in 0..MaxVoices
  BY <1>1, <1>2, <1>5
<1> QED BY <1>3, <1>5, <1>8, <1>9

\* One turn of voice_decrement.
LEMMA DropOneKeeps ==
    ASSUME TypeOK, UpperVoices, voices > 0, DropOne
    PROVE  /\ voice' \in [VoiceIds -> Voice] /\ voices' \in 0..MaxVoices
           /\ upper' \in 0..MaxVoices /\ UpperVoices'
<1> DEFINE spare == Spare(voices - 1)
           victims == {j \in 0..(voices - 1) : Decaying(j)}
<1>1. /\ voices \in 0..MaxVoices /\ upper \in 0..voices /\ MaxVoices \in Nat
      /\ voice \in [VoiceIds -> Voice] /\ victims \subseteq VoiceIds
  BY VoicesAssumption DEF TypeOK, UpperVoices, VoiceIds
<1>2. \A j \in spare : j \in 0..(voices - 2) /\ ~Live(voice[j])
  BY <1>1 DEF Spare
<1>3. Shrunk
  BY DEF DropOne
<1>4. CASE Vacate(spare, victims)
  <2> HIDE DEF spare, victims
  <2> QED BY <1>1, <1>2, <1>3, <1>4, VacateKeeps
<1>5. CASE Live(voice[voices - 1]) /\ voice' = voice
  <2>1. upper = voices
    BY <1>1, <1>5 DEF UpperVoices, Live
  <2> QED BY <2>1, <1>1, <1>3, <1>5 DEF UpperVoices, Shrunk, Smaller
<1> QED BY <1>4, <1>5 DEF DropOne

-----------------------------------------------------------------------------
(* The initial state and the steps.                                        *)

\* 0 fits in legato_hist.
LEMMA NoCount == 0 \in 0..(HistRange - 1)
BY VoicesAssumption

LEMMA InitIInv == Init => IInv
<1> SUFFICES ASSUME Init PROVE IInv
  OBVIOUS
<1>1. voice \in [VoiceIds -> Voice] /\ \A i \in VoiceIds : voice[i].status = "free"
  BY BlankType DEF Init
<1>2. /\ voices \in 0..MaxVoices /\ upper \in 0..MaxVoices /\ oldVoices \in 0..MaxVoices
      /\ upper <= voices
  BY VoicesAssumption DEF Init
<1>3. head \in Vids /\ tail \in Vids
  BY VoicesAssumption DEF Init, NoVid, Vids
<1>4. /\ sustain \in [Channels -> 0..127] /\ sostenuto \in [Channels -> BOOLEAN]
      /\ mono \in [Channels -> BOOLEAN] /\ dropped \subseteq Channels
      /\ down \in [Channels -> [Notes -> 0..MaxHeld]]
  BY VoicesAssumption DEF Init, NoKeys, NoVid
<1>5. legato \in [Channels -> LegatoState]
  BY NoCount DEF Init, NoLegato, LegatoState
<1>6. call \in Calls /\ call.op = "idle"
  BY DEF Init, Idle, Calls
<1>7. TypeOK
  BY <1>1, <1>2, <1>3, <1>4, <1>5, <1>6 DEF TypeOK
<1>8. UpperVoices
  <2>1. \A i \in upper..(voices - 1) : i \in VoiceIds
    BY <1>2, VoicesAssumption DEF VoiceIds
  <2> QED BY <2>1, <1>1, <1>2 DEF UpperVoices
<1>9. LegatoKey /\ LegatoKeepsBase
  BY DEF Init, NoLegato, LegatoKey, LegatoKeepsBase, HasBase
<1> QED BY <1>6, <1>7, <1>8, <1>9 DEF IInv, CallVoices

\* voice_control.
LEMMA NoteOnStep ==
    ASSUME IInv, NEW c \in Channels, NEW n \in Notes, NoteOn(c, n)
    PROVE  IInv'
<1> USE VoicesAssumption
<1>1. TypeOK /\ call = Idle /\ down[c][n] < MaxHeld
  BY DEF IInv, NoteOn
<1>2. down' \in [Channels -> [Notes -> 0..MaxHeld]]
  <2>1. down[c][n] + 1 \in 0..MaxHeld
    BY <1>1 DEF TypeOK
  <2>2. down' = [down EXCEPT ![c][n] = down[c][n] + 1]
    BY DEF NoteOn
  <2> QED BY <2>1, <2>2, <1>1 DEF TypeOK
<1>3. /\ voice' \in [VoiceIds -> Voice]
      /\ \A i \in VoiceIds : i >= upper => voice'[i] = voice[i]
  <2>1. CASE voice' = voice
    BY <2>1, <1>1 DEF TypeOK
  <2>2. CASE voice' = EachVoice(LAMBDA v : NewNote(v, c, n))
    <3>1. voice' = [i \in VoiceIds |-> IF i < upper THEN Tidy(NewNote(voice[i], c, n))
                                                    ELSE voice[i]]
      BY <2>2 DEF EachVoice
    <3>2. \A i \in VoiceIds : Tidy(NewNote(voice[i], c, n)) \in Voice
      BY <1>1, NewNoteType, VoiceSteps DEF TypeOK
    <3>3. upper \in Int /\ VoiceIds \subseteq Int
      BY <1>1 DEF TypeOK, VoiceIds
    <3> QED BY <3>1, <3>2, <3>3, <1>1 DEF TypeOK
  <2> QED BY <2>1, <2>2 DEF NoteOn
<1>4. call' \in Calls /\ (call'.op = "note" => call'.vlist = {})
  <2>1. CASE call' = call
    BY <2>1, <1>1 DEF Idle, Calls
  <2>2. ASSUME NEW k \in 1..MaxLayers,
               call' = [op |-> "note", ch |-> c, note |-> n, todo |-> k, vlist |-> {}]
        PROVE  call' \in Calls /\ call'.vlist = {}
    BY <2>2 DEF Calls
  <2>3. CASE call' = Idle
    BY <2>3 DEF Idle, Calls
  <2> QED BY <2>1, <2>2, <2>3 DEF NoteOn
<1>5. UNCHANGED <<sizeVars, queueVars, chanVars, dropped>>
  BY DEF NoteOn
<1>6. TypeOK'
  BY <1>1, <1>2, <1>3, <1>4, <1>5 DEF TypeOK, sizeVars, queueVars, chanVars
<1>7. UpperVoices'
  BY <1>1, <1>3, <1>5, HandlerUpper DEF IInv
<1>8. LegatoKey' /\ LegatoKeepsBase'
  BY <1>5 DEF IInv, LegatoKey, LegatoKeepsBase, HasBase, chanVars
<1> QED BY <1>4, <1>6, <1>7, <1>8 DEF IInv, CallVoices

\* find_voice returns a voice of the array, and one in sight unless the
\* polyphony is zero.
LEMMA FoundVoiceBelow ==
    ASSUME TypeOK, UpperVoices, NEW i \in FoundVoice
    PROVE  /\ i \in VoiceIds
           /\ \/ i < upper \/ voices = 0
              \/ FreeBelow = {} /\ upper < voices /\ i = upper
<1>1. /\ voices \in 0..MaxVoices /\ upper \in 0..voices /\ MaxVoices \in Nat \ {0}
      /\ Below \subseteq VoiceIds
  BY VoicesAssumption DEF TypeOK, UpperVoices, Below, VoiceIds
<1>2. \A j \in Below : j \in VoiceIds /\ j < upper
  BY <1>1 DEF Below
<1>3. CASE FreeBelow # {}
  BY <1>2, <1>3 DEF FoundVoice, FreeBelow
<1>4. CASE FreeBelow = {} /\ upper < voices
  BY <1>1, <1>4 DEF FoundVoice, VoiceIds
<1>5. CASE FreeBelow = {} /\ ~(upper < voices)
  <2>1. i \in Steals
    BY <1>5 DEF FoundVoice
  <2>2. i \in Below \/ (i = 0 /\ {j \in Below : Live(voice[j])} = {})
    BY <2>1 DEF Steals
  <2>3. CASE i \in Below
    BY <2>3, <1>2
  <2>4. CASE i = 0 /\ {j \in Below : Live(voice[j])} = {}
    <3>1. Below = {}
      BY <2>4, <1>5 DEF FreeBelow
    <3>2. upper = 0
      BY <3>1, <1>1 DEF Below
    <3> QED BY <3>2, <2>4, <1>1, <1>5 DEF VoiceIds
  <2> QED BY <2>2, <2>3, <2>4
<1> QED BY <1>3, <1>4, <1>5

\* select_play_sample: a new place in voice[] is counted before it is used.
LEMMA FindSampleStep ==
    ASSUME IInv, FindSample
    PROVE  IInv'
<1>1. TypeOK /\ UpperVoices /\ CallVoices /\ call.op = "note" /\ call.todo > 0
  BY DEF IInv, FindSample
<1>2. PICK i \in FoundVoice, k \in Kinds :
        /\ voice' = [voice EXCEPT ![i] =
              [Tidy(Freed(@)) EXCEPT !.kind = k, !.own = FALSE,
                   !.status = IF k = "release" THEN "pending" ELSE "on"]]
        /\ upper' = IF FreeBelow = {} /\ upper < voices THEN upper + 1 ELSE upper
        /\ call' = [call EXCEPT !.todo = @ - 1, !.vlist = @ \cup {i}]
  BY DEF FindSample
<1>3. UNCHANGED <<voices, oldVoices, queueVars, chanVars, ghostVars>>
  BY DEF FindSample
<1>4. /\ voices \in 0..MaxVoices /\ upper \in 0..voices /\ MaxVoices \in Nat \ {0}
      /\ voice \in [VoiceIds -> Voice]
  BY <1>1, VoicesAssumption DEF TypeOK, UpperVoices
<1>5. /\ i \in VoiceIds
      /\ \/ i < upper \/ voices = 0
         \/ FreeBelow = {} /\ upper < voices /\ i = upper
  BY <1>1, FoundVoiceBelow
<1>6. voice' \in [VoiceIds -> Voice] /\ \A j \in VoiceIds : j # i => voice'[j] = voice[j]
  <2> DEFINE st == IF k = "release" THEN "pending" ELSE "on"
             w == [Tidy(Freed(voice[i])) EXCEPT !.kind = k, !.own = FALSE, !.status = st]
  <2>1. voice' = [voice EXCEPT ![i] = w]
    BY <1>2
  <2>2. w \in Voice
    <3>1. st \in Statuses
      BY DEF Statuses
    <3>2. Tidy(Freed(voice[i])) \in Voice
      BY <1>4, <1>5, FreedVoice
    <3> HIDE DEF st
    <3> QED BY <3>1, <3>2, <1>2 DEF Voice
  <2> HIDE DEF w
  <2> QED BY <2>1, <2>2, <1>4, <1>5
<1>7. upper' \in upper..voices /\ (i < upper' \/ voices = 0)
  <2>1. CASE FreeBelow = {} /\ upper < voices
    <3>1. upper' = upper + 1 /\ upper + 1 \in upper..voices
      BY <2>1, <1>2, <1>4
    <3>2. i < upper + 1
      <4>1. upper \in Int /\ i \in Int
        BY <1>4, <1>5 DEF VoiceIds
      <4>2. i < upper \/ i = upper
        BY <2>1, <1>4, <1>5
      <4> QED BY <4>1, <4>2
    <3> QED BY <3>1, <3>2
  <2>2. CASE ~(FreeBelow = {} /\ upper < voices)
    <3>1. upper' = upper /\ upper \in upper..voices
      BY <2>2, <1>2, <1>4
    <3> QED BY <3>1, <2>2, <1>5
  <2> QED BY <2>1, <2>2
<1>8. call' \in Calls /\ call'.vlist = call.vlist \cup {i} /\ call'.op = "note"
  <2>1. call \in [op : {"note"}, ch : Channels, note : Notes, todo : 0..MaxLayers,
                  vlist : SUBSET VoiceIds]
    BY <1>1 DEF TypeOK, Calls
  <2>2. call.todo - 1 \in 0..MaxLayers
    BY <1>1, <2>1, VoicesAssumption
  <2> QED BY <2>1, <2>2, <1>2, <1>5 DEF Calls
<1>9. TypeOK'
  <2>1. upper' \in 0..MaxVoices
    BY <1>4, <1>7
  <2> QED BY <1>1, <1>3, <1>6, <1>8, <2>1 DEF TypeOK, queueVars, chanVars, ghostVars
<1>10. UpperVoices'
  <2>1. \A j \in upper'..(voices - 1) : j \in VoiceIds /\ j \in upper..(voices - 1) /\ j # i
    BY <1>4, <1>7 DEF VoiceIds
  <2>2. \A j \in upper'..(voices - 1) : voice'[j] = voice[j] /\ voice[j].status = "free"
    BY <2>1, <1>1, <1>6 DEF UpperVoices
  <2>3. upper' <= voices
    BY <1>4, <1>7
  <2> QED BY <2>2, <2>3, <1>3 DEF UpperVoices
<1>11. CallVoices'
  <2>1. \A j \in call.vlist : j < upper \/ voices = 0
    BY <1>1 DEF CallVoices
  <2>2. call.vlist \subseteq VoiceIds
    BY <1>1 DEF TypeOK, Calls
  <2>3. \A j \in call'.vlist : j < upper' \/ voices = 0
    BY <2>1, <2>2, <1>4, <1>7, <1>8 DEF VoiceIds
  <2> QED BY <2>3, <1>3 DEF CallVoices
<1>12. LegatoKey' /\ LegatoKeepsBase'
  BY <1>3 DEF IInv, LegatoKey, LegatoKeepsBase, HasBase, chanVars
<1> QED BY <1>9, <1>10, <1>11, <1>12 DEF IInv

\* What init_channel_portamento and note_off_legato keep of a channel.
LegatoWell(c, l) ==
    /\ l \in LegatoState
    /\ l.porta => l.last \in Notes
    /\ l.status => l.flag
    /\ c \notin Glides => ~l.glide /\ ~l.ctrl /\ (l.status => l.base \in 0..127)
LegatoWells == \A c \in Channels : LegatoWell(c, legato[c])

LEMMA LegatoWellsFrom ==
    ASSUME IInv
    PROVE  LegatoWells /\ legato \in [Channels -> LegatoState]
BY DEF IInv, TypeOK, LegatoWells, LegatoWell, LegatoKey, LegatoKeepsBase, HasBase

\* A handler changes the legato of its channel only.
LEMMA LegatoStep ==
    ASSUME IInv, NEW c \in Channels, NEW l, LegatoWell(c, l),
           legato' = [legato EXCEPT ![c] = l]
    PROVE  legato' \in [Channels -> LegatoState] /\ LegatoKey' /\ LegatoKeepsBase'
<1>1. l \in LegatoState /\ legato \in [Channels -> LegatoState]
  BY LegatoWellsFrom DEF LegatoWell
<1>2. \A d \in Channels : legato'[d] = IF d = c THEN l ELSE legato[d]
  BY <1>1
<1>3. \A d \in Channels : LegatoWell(d, legato'[d])
  BY <1>2, LegatoWellsFrom DEF LegatoWells
<1> QED BY <1>1, <1>3 DEF LegatoKey, LegatoKeepsBase, HasBase, LegatoWell

\* init_channel_portamento: a legato starts on the note that came before.
LEMMA PortamentoStep ==
    ASSUME IInv, NEW c \in Channels, NEW n \in Notes,
           \/ LegatoGoesOn(c) /\ LegatoNote(c, n)
           \/ ~(LegatoGoesOn(c) /\ legato[c].status) /\ FirstNote(c, n)
    PROVE  legato' \in [Channels -> LegatoState] /\ LegatoKey' /\ LegatoKeepsBase'
<1> DEFINE l == legato[c]
<1>1. LegatoWell(c, l) /\ l \in LegatoState
  BY LegatoWellsFrom DEF LegatoWells, LegatoWell
<1>2. CASE LegatoGoesOn(c) /\ LegatoNote(c, n)
  <2> DEFINE started == IF l.status THEN l
                        ELSE [l EXCEPT !.status = TRUE, !.count = 1, !.base = l.last,
                                       !.hist = {l.last}]
             count == (started.count + 1) % HistRange
             hist == IF count = 0 THEN started.hist \ {n} ELSE started.hist \cup {n}
             m == [started EXCEPT !.count = count, !.last = n, !.hist = hist]
  <2>0. 1 \in 0..(HistRange - 1) /\ HistRange \in Nat \ {0}
    BY VoicesAssumption
  <2>1. LegatoWell(c, started)
    <3>1. l.status \/ l.porta
      BY <1>2 DEF LegatoGoesOn
    <3>2. CASE l.status
      BY <3>2, <1>1
    <3>3. CASE ~l.status
      <4>1. l.last \in Notes /\ l.flag
        BY <3>1, <3>3, <1>1, <1>2 DEF LegatoWell, LegatoGoesOn
      <4>2. l.last \in 0..127
        BY <4>1, VoicesAssumption
      <4> QED BY <4>1, <4>2, <2>0, <3>3, <1>1 DEF LegatoWell, LegatoState
    <3> QED BY <3>2, <3>3
  <2>2. legato' = [legato EXCEPT ![c] = m]
    BY <1>2 DEF LegatoNote
  <2>3. LegatoWell(c, m)
    <3> HIDE DEF started
    <3>1. started \in LegatoState
      BY <2>1 DEF LegatoWell
    <3>2. count \in 0..(HistRange - 1)
      BY <2>0, <3>1 DEF LegatoState
    <3>3. hist \in SUBSET Notes
      BY <3>1 DEF LegatoState
    <3> HIDE DEF count, hist
    <3> QED BY <2>1, <3>1, <3>2, <3>3 DEF LegatoWell, LegatoState
  <2> HIDE DEF m
  <2> QED BY <2>2, <2>3, LegatoStep
<1>3. CASE ~(LegatoGoesOn(c) /\ l.status) /\ FirstNote(c, n)
  <2> DEFINE m == [l EXCEPT !.porta = TRUE, !.base = NoNote, !.flag = TRUE, !.last = n,
                            !.glide = @ \/ l.ctrl, !.ctrl = FALSE]
  <2>1. CASE legato' = [legato EXCEPT ![c] = m] /\ Portamento
                /\ c \notin DrumChannels /\ (l.ctrl \/ l.glide \/ l.on)
    <3>1. c \notin Glides => ~l.status
      BY <1>1, <1>3, <2>1 DEF LegatoWell, LegatoGoesOn
    <3>2. LegatoWell(c, m)
      BY <1>1, <3>1 DEF LegatoWell, LegatoState
    <3> HIDE DEF m
    <3> QED BY <2>1, <3>2, LegatoStep
  <2>2. CASE UNCHANGED legato
    BY <2>2, LegatoWellsFrom DEF IInv, LegatoKey, LegatoKeepsBase, HasBase
  <2> QED BY <1>3, <2>1, <2>2 DEF FirstNote
<1> QED BY <1>2, <1>3

\* new_vidq and last_vidq: the counters wrap within their range.
LEMMA VidStep ==
    ASSUME NEW f \in Vids, NEW c \in Channels, NEW n \in Notes
    PROVE  [f EXCEPT ![c][n] = (@ + 1) % VidRange] \in Vids
<1>1. f[c][n] \in 0..(VidRange - 1) /\ VidRange \in Nat \ {0}
  BY VoicesAssumption DEF Vids
<1>2. (f[c][n] + 1) % VidRange \in 0..(VidRange - 1)
  BY <1>1
<1> QED BY <1>2 DEF Vids

\* start_note fills in a voice.
LEMMA StartedType ==
    ASSUME IInv, NEW v \in Voice, NEW c \in Channels, NEW n \in Notes
    PROVE  Started(v, c, n) \in Voice
<1> DEFINE st == IF v.kind = "release" THEN "pending" ELSE "on"
<1>1. st \in Statuses
  BY DEF Statuses
<1>2. head[c][n] \in 0..(VidRange - 1)
  BY DEF IInv, TypeOK, Vids
<1>3. OverlapCount \in 0..OverlapCount /\ ChannelLimit \in 0..ChannelLimit
  BY VoicesAssumption
<1>4. [v EXCEPT !.status = st, !.ch = c, !.note = n, !.vid = head[c][n], !.sost = FALSE,
                !.ovl = OverlapCount, !.cnt = ChannelLimit, !.own = TRUE] \in Voice
  <2> HIDE DEF st
  <2> QED BY <1>1, <1>2, <1>3 DEF Voice
<1> QED BY <1>4 DEF Started

\* note_on starts the voices that find_samples took, and those are in sight.
LEMMA StartNoteStep ==
    ASSUME IInv, StartNote
    PROVE  IInv'
<1> DEFINE c == call.ch
           n == call.note
<1>1. TypeOK /\ UpperVoices /\ CallVoices /\ call.op = "note"
  BY DEF IInv, StartNote
<1>2. c \in Channels /\ n \in Notes /\ call.vlist \subseteq VoiceIds
  BY <1>1 DEF TypeOK, Calls
<1>3. call' = Idle /\ UNCHANGED <<sizeVars, tail, sustain, sostenuto, mono, ghostVars>>
  BY DEF StartNote
<1>4. legato' \in [Channels -> LegatoState] /\ LegatoKey' /\ LegatoKeepsBase'
  BY <1>2, PortamentoStep DEF StartNote
<1>5. head' \in Vids
  <2>1. head \in Vids
    BY <1>1 DEF TypeOK
  <2>3. CASE head' = head
    BY <2>1, <2>3
  <2>4. CASE head' = [head EXCEPT ![c][n] = (@ + 1) % VidRange]
    BY <2>1, <2>4, <1>2, VidStep
  <2> QED BY <2>3, <2>4 DEF StartNote, NewVid
<1>6. /\ voice' \in [VoiceIds -> Voice]
      /\ \A i \in VoiceIds : i \notin call.vlist => voice'[i] = voice[i]
  <2>1. voice \in [VoiceIds -> Voice]
    BY <1>1 DEF TypeOK
  <2>2. ASSUME NEW i \in VoiceIds
        PROVE  Started(voice[i], c, n) \in Voice
    BY <2>1, <1>2, StartedType
  <2>3. CASE voice' = voice
    BY <2>1, <2>3
  <2>4. CASE voice' = [i \in VoiceIds |-> IF i \in call.vlist
                                          THEN Started(voice[i], c, n) ELSE voice[i]]
    BY <2>1, <2>2, <2>4
  <2> QED BY <2>3, <2>4 DEF StartNote
<1>7. UpperVoices'
  <2>1. voices' = voices /\ upper' = upper
    BY <1>3 DEF sizeVars
  <2>2. voices \in 0..MaxVoices /\ upper \in 0..voices /\ MaxVoices \in Nat
    BY <1>1, VoicesAssumption DEF TypeOK, UpperVoices
  <2>3. ASSUME NEW i \in upper..(voices - 1)
        PROVE  voice'[i].status = "free"
    <3>1. i \in VoiceIds /\ i \notin call.vlist
      BY <1>1, <2>2 DEF CallVoices, VoiceIds
    <3> QED BY <3>1, <1>1, <1>6 DEF UpperVoices
  <2> QED BY <2>1, <2>2, <2>3 DEF UpperVoices
<1>8. call' \in Calls /\ CallVoices'
  BY <1>3 DEF Idle, Calls, CallVoices
<1>9. TypeOK'
  BY <1>1, <1>3, <1>4, <1>5, <1>6, <1>8 DEF TypeOK, sizeVars, ghostVars
<1> QED BY <1>4, <1>7, <1>8, <1>9 DEF IInv

\* note_off_legato ends a legato with its base note, or returns.
LEMMA LegatoOffWell ==
    ASSUME IInv, NEW c \in Channels, NEW n \in Notes
    PROVE  /\ LegatoWell(c, LegatoOff(c, n).leg)
           /\ LegatoOff(c, n).note \in Notes \cup {NoNote}
           /\ LegatoOff(c, n).stop \in BOOLEAN
<1> DEFINE l == legato[c]
           rest == l.hist \ {n}
<1>1. LegatoWell(c, l)
  BY LegatoWellsFrom DEF LegatoWells
<1>2. LegatoWell(c, [l EXCEPT !.flag = FALSE]) \/ l.status
  BY <1>1 DEF LegatoWell, LegatoState
<1>3. LegatoWell(c, [l EXCEPT !.hist = rest]) \/ rest = {}
  BY <1>1 DEF LegatoWell, LegatoState
<1>4. LegatoWell(c, [l EXCEPT !.hist = {}, !.count = 0, !.flag = FALSE, !.status = FALSE])
  BY <1>1, NoCount DEF LegatoWell, LegatoState
<1>5. l.base \in Notes \cup {NoNote}
  BY <1>1 DEF LegatoWell, LegatoState
<1> QED BY <1>1, <1>2, <1>3, <1>4, <1>5 DEF LegatoOff

\* Of a key of the channel, last_vidq reads and counts that key's own numbers.
LEMMA OwnRow ==
    ASSUME NEW c \in Channels, NEW n \in Notes
    PROVE  /\ OffVid(c, n) = IF Overlap THEN tail[c][n] ELSE 0
           /\ NothingOn(c, n) <=> Overlap /\ head[c][n] = tail[c][n]
           /\ LastVid(c, n) => tail' = IF Overlap
                   THEN [tail EXCEPT ![c][n] = (@ + 1) % VidRange] ELSE tail
<1>1. n # NoNote
  BY VoicesAssumption DEF NoNote
<1>2. Row(c, n)[1] = c /\ Row(c, n)[2] = n /\ InRows(c, n)
  BY <1>1 DEF Row, InRows
<1> QED BY <1>2 DEF OffVid, NothingOn, LastVid, Queued

\* last_vidq counts some key, or one outside the model.
LEMMA LastVidStep ==
    ASSUME IInv, NEW c \in Channels, NEW n, LastVid(c, n)
    PROVE  tail' \in Vids
<1>1. tail \in Vids
  BY DEF IInv, TypeOK
<1>2. CASE InRows(c, n) /\ Overlap
  <2> DEFINE d == Row(c, n)[1]
             m == Row(c, n)[2]
  <2>1. d \in Channels /\ m \in Notes
    BY <1>2 DEF InRows
  <2>2. tail' = [tail EXCEPT ![d][m] = (@ + 1) % VidRange]
    BY <1>2 DEF LastVid
  <2> HIDE DEF d, m
  <2> QED BY <1>1, <2>1, <2>2, VidStep
<1>3. CASE ~(InRows(c, n) /\ Overlap)
  BY <1>1, <1>3 DEF LastVid
<1> QED BY <1>2, <1>3

\* note_off, whatever the row its number comes from.
LEMMA NoteOffStep ==
    ASSUME IInv, NEW c \in Channels, NEW n \in Notes, NoteOff(c, n)
    PROVE  IInv'
<1> DEFINE off == LegatoOff(c, n)
           ignored == c \in DrumChannels /\ n \in NoOffKeys
           none == off.stop \/ NothingOn(c, off.note)
           matches(v) == /\ v.status \in {"pending", "on"} /\ v.ch = c
                         /\ v.note = off.note /\ v.vid = OffVid(c, off.note)
<1>1. TypeOK /\ call = Idle
  BY DEF IInv, NoteOff
<1>2. LegatoWell(c, off.leg) /\ off.note \in Notes \cup {NoNote}
  BY LegatoOffWell
<1>3. UNCHANGED <<sizeVars, head, sustain, sostenuto, mono, call, dropped>>
  BY DEF NoteOff
<1>4. down' \in [Channels -> [Notes -> 0..MaxHeld]]
  <2>1. down[c][n] \in 0..MaxHeld /\ MaxHeld \in Nat
    BY <1>1, VoicesAssumption DEF TypeOK
  <2>2. down' = [down EXCEPT ![c][n] = IF down[c][n] = 0 THEN 0 ELSE down[c][n] - 1]
    BY DEF NoteOff
  <2>3. down \in [Channels -> [Notes -> 0..MaxHeld]]
    BY <1>1 DEF TypeOK
  <2> DEFINE e == IF down[c][n] = 0 THEN 0 ELSE down[c][n] - 1
  <2>4. e \in 0..MaxHeld
    BY <2>1
  <2> HIDE DEF e
  <2>5. [down[c] EXCEPT ![n] = e] \in [Notes -> 0..MaxHeld]
    BY <2>3, <2>4
  <2>6. down' = [down EXCEPT ![c] = [down[c] EXCEPT ![n] = e]]
    BY <2>2, <2>3 DEF e
  <2> QED BY <2>3, <2>5, <2>6
<1>5. legato' \in [Channels -> LegatoState] /\ LegatoKey' /\ LegatoKeepsBase'
  <2>1. CASE legato' = [legato EXCEPT ![c] = off.leg]
    <3> HIDE DEF off
    <3> QED BY <2>1, <1>2, LegatoStep
  <2>2. CASE UNCHANGED legato
    BY <2>2, LegatoWellsFrom DEF IInv, LegatoKey, LegatoKeepsBase, HasBase
  <2> QED BY <2>1, <2>2 DEF NoteOff
<1>6. tail' \in Vids
  <2>1. tail \in Vids
    BY <1>1 DEF TypeOK
  <2>2. CASE tail' = tail
    BY <2>1, <2>2
  <2>3. CASE LastVid(c, off.note)
    BY <2>3, LastVidStep
  <2> QED BY <2>2, <2>3 DEF NoteOff
<1>7. /\ voice' \in [VoiceIds -> Voice]
      /\ \A i \in VoiceIds : i >= upper => voice'[i] = voice[i]
  <2>1. voice \in [VoiceIds -> Voice] /\ upper \in Int /\ VoiceIds \subseteq Int
    BY <1>1 DEF TypeOK, VoiceIds
  <2>2. CASE voice' = voice
    BY <2>1, <2>2
  <2>3. CASE voice' = EachVoice(LAMBDA v : IF matches(v) THEN Released(v, c) ELSE v)
    <3>1. voice' = [i \in VoiceIds |->
                      IF i < upper THEN Tidy(IF matches(voice[i]) THEN Released(voice[i], c)
                                                                  ELSE voice[i])
                      ELSE voice[i]]
      BY <2>3 DEF EachVoice
    <3>2. \A i \in VoiceIds : Released(voice[i], c) \in Voice
      BY <2>1, HandlerTypes
    <3>3. \A i \in VoiceIds : Tidy(Released(voice[i], c)) \in Voice /\ Tidy(voice[i]) \in Voice
      BY <2>1, <3>2, VoiceSteps
    <3> HIDE DEF matches
    <3> QED BY <2>1, <3>1, <3>3
  <2> QED BY <2>2, <2>3 DEF NoteOff
<1>8. TypeOK'
  BY <1>1, <1>3, <1>4, <1>5, <1>6, <1>7 DEF TypeOK, sizeVars
<1>9. UpperVoices'
  BY <1>1, <1>3, <1>7, HandlerUpper DEF IInv
<1>10. CallVoices'
  BY <1>1, <1>3 DEF CallVoices, Idle
<1> QED BY <1>5, <1>8, <1>9, <1>10 DEF IInv

-----------------------------------------------------------------------------
(* Pedals, channel messages and resets.                                    *)

\* Sets of the values the other variables of a channel may have.
ChannelType(su, so, mo, do, dr) ==
    /\ su \in [Channels -> 0..127] /\ so \in [Channels -> BOOLEAN]
    /\ mo \in [Channels -> BOOLEAN]
    /\ do \in [Channels -> [Notes -> 0..MaxHeld]] /\ dr \subseteq Channels

LEMMA ChannelTypeNow ==
    ASSUME IInv
    PROVE  ChannelType(sustain, sostenuto, mono, down, dropped) /\ head \in Vids /\ tail \in Vids
BY DEF IInv, TypeOK, ChannelType

\* The shape of a handler: it leaves the voices from upper_voices on alone.
LEMMA HandlerStep ==
    ASSUME IInv, call' = Idle, UNCHANGED sizeVars,
           voice' \in [VoiceIds -> Voice],
           \A i \in VoiceIds : i >= upper => voice'[i] = voice[i],
           head' \in Vids, tail' \in Vids,
           ChannelType(sustain', sostenuto', mono', down', dropped'),
           legato' \in [Channels -> LegatoState], LegatoKey', LegatoKeepsBase'
    PROVE  IInv'
<1>1. TypeOK /\ UpperVoices
  BY DEF IInv
<1>2. call' \in Calls /\ CallVoices'
  BY DEF Idle, Calls, CallVoices
<1>3. TypeOK'
  BY <1>1, <1>2 DEF TypeOK, sizeVars, ChannelType
<1>4. UpperVoices'
  BY <1>1, HandlerUpper
<1> QED BY <1>2, <1>3, <1>4 DEF IInv

\* What an unchanged legato keeps.
LEMMA LegatoStays ==
    ASSUME IInv, legato' = legato
    PROVE  legato' \in [Channels -> LegatoState] /\ LegatoKey' /\ LegatoKeepsBase'
BY DEF IInv, TypeOK, LegatoKey, LegatoKeepsBase, HasBase

\* A loop over i < upper_voices, f[i] being what it does to voice i.
LEMMA LoopVoices ==
    ASSUME IInv, NEW f, \A i \in VoiceIds : f[i] \in Voice,
           voice' = [i \in VoiceIds |-> IF i < upper THEN Tidy(f[i]) ELSE voice[i]]
    PROVE  /\ voice' \in [VoiceIds -> Voice]
           /\ \A i \in VoiceIds : i >= upper => voice'[i] = voice[i]
<1>1. voice \in [VoiceIds -> Voice] /\ upper \in Int /\ VoiceIds \subseteq Int
  BY DEF IInv, TypeOK, VoiceIds
<1>2. \A i \in VoiceIds : Tidy(f[i]) \in Voice
  BY VoiceSteps
<1> QED BY <1>1, <1>2

\* all_notes_off and all_sounds_off empty the vidq counters of the channel.
LEMMA ForgetKeysStep ==
    ASSUME IInv, NEW c \in Channels, ForgetKeys(c)
    PROVE  head' \in Vids /\ tail' \in Vids /\ down' \in [Channels -> [Notes -> 0..MaxHeld]]
<1>1. /\ NoVid[c] \in [Notes -> 0..(VidRange - 1)]
      /\ NoKeys[c] \in [Notes -> 0..MaxHeld]
  BY VoicesAssumption DEF NoVid, NoKeys
<1>2. head \in Vids /\ tail \in Vids /\ down \in [Channels -> [Notes -> 0..MaxHeld]]
  BY DEF IInv, TypeOK
<1> QED BY <1>1, <1>2 DEF ForgetKeys, Vids

\* kill_all_voices and reset_voices empty all of them.
LEMMA NoVidType ==
    /\ NoVid \in Vids /\ NoKeys \in [Channels -> [Notes -> 0..MaxHeld]]
BY VoicesAssumption DEF NoVid, NoKeys, Vids

LEMMA SustainStep ==
    ASSUME IInv, NEW c \in Channels, NEW a \in PedalValues, Sustain(c, a)
    PROVE  IInv'
<1> DEFINE level == PedalLevel(c, a)
           redamps == c \in DamperMode /\ c \notin DrumChannels
                      /\ level # sustain[c] /\ level # 0
           drops == level = 0 /\ ~sostenuto[c]
           f == [i \in VoiceIds |-> IF redamps THEN Redamped(voice[i], c)
                                    ELSE IF drops THEN Dropped(voice[i], c) ELSE voice[i]]
<1>1. /\ call' = Idle /\ UNCHANGED sizeVars /\ legato' = legato
      /\ head' = head /\ tail' = tail
      /\ sostenuto' = sostenuto /\ mono' = mono /\ down' = down /\ dropped' = dropped
      /\ sustain' = [sustain EXCEPT ![c] = level]
  BY DEF Sustain, queueVars, ghostVars
<1>2. level \in 0..127
  BY VoicesAssumption DEF PedalLevel
<1>3. ChannelType(sustain', sostenuto', mono', down', dropped')
  <2> HIDE DEF level
  <2> QED BY <1>1, <1>2, ChannelTypeNow DEF ChannelType
<1>4. voice' = [i \in VoiceIds |-> IF i < upper THEN Tidy(f[i]) ELSE voice[i]]
  BY DEF Sustain, EachVoice
<1>5. \A i \in VoiceIds : f[i] \in Voice
  <2>1. \A i \in VoiceIds : voice[i] \in Voice
    BY DEF IInv, TypeOK
  <2>2. \A i \in VoiceIds : Redamped(voice[i], c) \in Voice /\ Dropped(voice[i], c) \in Voice
    BY <2>1, HandlerTypes
  <2> HIDE DEF redamps, drops
  <2> QED BY <2>1, <2>2
<1> HIDE DEF f, level
<1>6. /\ voice' \in [VoiceIds -> Voice]
      /\ \A i \in VoiceIds : i >= upper => voice'[i] = voice[i]
  BY <1>4, <1>5, LoopVoices
<1>7. head' \in Vids /\ tail' \in Vids
  BY <1>1, ChannelTypeNow
<1> QED BY <1>1, <1>3, <1>6, <1>7, LegatoStays, HandlerStep

LEMMA SostenutoStep ==
    ASSUME IInv, NEW c \in Channels, NEW a \in PedalValues, Sostenuto(c, a)
    PROVE  IInv'
<1> DEFINE s == a >= 64
           drops == sustain[c] = 0 /\ ~s
           f == [i \in VoiceIds |-> IF drops THEN Dropped(Held(voice[i], c, s), c)
                                             ELSE Held(voice[i], c, s)]
<1>1. /\ call' = Idle /\ UNCHANGED sizeVars /\ legato' = legato
      /\ head' = head /\ tail' = tail
      /\ sustain' = sustain /\ mono' = mono /\ down' = down /\ dropped' = dropped
      /\ sostenuto' = [sostenuto EXCEPT ![c] = s]
  BY DEF Sostenuto, queueVars, ghostVars
<1>2. s \in BOOLEAN
  OBVIOUS
<1>3. ChannelType(sustain', sostenuto', mono', down', dropped')
  <2> HIDE DEF s
  <2> QED BY <1>1, <1>2, ChannelTypeNow DEF ChannelType
<1>4. voice' = [i \in VoiceIds |-> IF i < upper THEN Tidy(f[i]) ELSE voice[i]]
  BY DEF Sostenuto, EachVoice
<1>5. \A i \in VoiceIds : f[i] \in Voice
  <2> HIDE DEF s
  <2>1. \A i \in VoiceIds : voice[i] \in Voice
    BY DEF IInv, TypeOK
  <2>2. \A i \in VoiceIds : Held(voice[i], c, s) \in Voice
    BY <1>2, <2>1, HandlerTypes
  <2>3. \A i \in VoiceIds : Dropped(Held(voice[i], c, s), c) \in Voice
    BY <2>2, <1>2, HandlerTypes
  <2> HIDE DEF drops
  <2> QED BY <2>2, <2>3
<1> HIDE DEF f, s
<1>6. /\ voice' \in [VoiceIds -> Voice]
      /\ \A i \in VoiceIds : i >= upper => voice'[i] = voice[i]
  BY <1>4, <1>5, LoopVoices
<1>7. head' \in Vids /\ tail' \in Vids
  BY <1>1, ChannelTypeNow
<1> QED BY <1>1, <1>3, <1>6, <1>7, LegatoStays, HandlerStep

\* The events that only set legato or portamento fields.
LEMMA LegatoControlSets ==
    ASSUME NEW c \in Channels, LegatoControl(c)
    PROVE  /\ call = Idle /\ Portamento
           /\ UNCHANGED <<voice, sizeVars, queueVars, sustain, sostenuto, mono, call, ghostVars>>
BY DEF LegatoControl, Legato, PortamentoSwitch, PortamentoControl, PortamentoTime, SetLegato

LEMMA LegatoPedalStep ==
    ASSUME IInv, NEW c \in Channels, LegatoControl(c)
    PROVE  IInv'
<1> DEFINE k == legato[c]
<1>0. LegatoWell(c, k) /\ k \in LegatoState
  BY LegatoWellsFrom DEF LegatoWells, LegatoWell
<1>1. /\ call' = Idle /\ UNCHANGED sizeVars /\ voice' = voice
      /\ head' = head /\ tail' = tail /\ sustain' = sustain /\ sostenuto' = sostenuto
      /\ mono' = mono /\ down' = down /\ dropped' = dropped
  BY LegatoControlSets DEF queueVars, ghostVars
<1>2. \E l : LegatoWell(c, l) /\ legato' = [legato EXCEPT ![c] = l]
  <2>1. ASSUME NEW b \in BOOLEAN
        PROVE  /\ LegatoWell(c, [k EXCEPT !.on = b])
               /\ c \in Glides => LegatoWell(c, [k EXCEPT !.glide = b, !.porta = @ /\ b])
    BY <1>0 DEF LegatoWell, LegatoState
  <2>2. /\ c \in Glides => LegatoWell(c, [k EXCEPT !.ctrl = TRUE])
        /\ LegatoWell(c, [k EXCEPT !.porta = @ /\ (k.glide \/ k.ctrl)])
    BY <1>0 DEF LegatoWell, LegatoState
  <2> QED BY <2>1, <2>2 DEF LegatoControl, Legato, PortamentoSwitch, PortamentoControl,
                            PortamentoTime, SetLegato
<1>6. PICK l : LegatoWell(c, l) /\ legato' = [legato EXCEPT ![c] = l]
  BY <1>2
<1>3. legato' \in [Channels -> LegatoState] /\ LegatoKey' /\ LegatoKeepsBase'
  BY <1>6, LegatoStep
<1>4. /\ head' \in Vids /\ tail' \in Vids
      /\ ChannelType(sustain', sostenuto', mono', down', dropped')
  BY <1>1, ChannelTypeNow
<1>5. voice' \in [VoiceIds -> Voice] /\ \A i \in VoiceIds : i >= upper => voice'[i] = voice[i]
  BY <1>1 DEF IInv, TypeOK
<1> QED BY <1>1, <1>3, <1>4, <1>5, HandlerStep

LEMMA ResetControllersStep ==
    ASSUME IInv, NEW c \in Channels, ResetControllers(c)
    PROVE  IInv'
<1> DEFINE l == legato[c]
           ends == l.status /\ l.base # NoNote
           base == IF ends THEN NoNote ELSE l.base
           flag == l.flag /\ ~ends
           m == [l EXCEPT !.on = FALSE, !.porta = FALSE, !.glide = FALSE, !.ctrl = FALSE,
                          !.status = FALSE, !.count = 0, !.hist = {},
                          !.base = base, !.flag = flag]
           f == [i \in VoiceIds |-> IF ends /\ voice[i].ch = c /\ voice[i].note = l.base
                                    THEN Cut(voice[i]) ELSE voice[i]]
<1>1. /\ call' = Idle /\ UNCHANGED sizeVars /\ head' = head /\ tail' = tail
      /\ mono' = mono /\ down' = down /\ dropped' = dropped \cup {c}
      /\ sustain' = [sustain EXCEPT ![c] = 0]
      /\ sostenuto' = [sostenuto EXCEPT ![c] = FALSE]
      /\ legato' = [legato EXCEPT ![c] = m]
  BY DEF ResetControllers, queueVars
<1>2. LegatoWell(c, m)
  <2>1. LegatoWell(c, l) /\ l \in LegatoState /\ 0 \in 0..(HistRange - 1)
    BY LegatoWellsFrom, VoicesAssumption DEF LegatoWells, LegatoWell
  <2>2. base \in Notes \cup {NoNote} /\ flag \in BOOLEAN
    BY <2>1 DEF LegatoState
  <2> HIDE DEF base, flag, ends, l
  <2> QED BY <2>1, <2>2 DEF LegatoWell, LegatoState
<1>3. legato' \in [Channels -> LegatoState] /\ LegatoKey' /\ LegatoKeepsBase'
  <2> HIDE DEF m
  <2> QED BY <1>1, <1>2, LegatoStep
<1>4. /\ head' \in Vids /\ tail' \in Vids
      /\ ChannelType(sustain', sostenuto', mono', down', dropped')
  BY <1>1, ChannelTypeNow DEF ChannelType
<1>5. voice' = [i \in VoiceIds |-> IF i < upper THEN Tidy(f[i]) ELSE voice[i]]
  BY DEF ResetControllers, EachVoice
<1>6. \A i \in VoiceIds : f[i] \in Voice
  <2>1. \A i \in VoiceIds : voice[i] \in Voice
    BY DEF IInv, TypeOK
  <2> QED BY <2>1, VoiceSteps
<1> HIDE DEF f
<1>7. /\ voice' \in [VoiceIds -> Voice]
      /\ \A i \in VoiceIds : i >= upper => voice'[i] = voice[i]
  BY <1>5, <1>6, LoopVoices
<1> QED BY <1>1, <1>3, <1>4, <1>7, HandlerStep

\* all_notes_off's loop over the voices.
LEMMA SilenceNotesStep ==
    ASSUME IInv, NEW c \in Channels, SilenceNotes(c)
    PROVE  /\ voice' \in [VoiceIds -> Voice]
           /\ \A i \in VoiceIds : i >= upper => voice'[i] = voice[i]
<1> DEFINE f == [i \in VoiceIds |->
                   IF voice[i].status # "on" \/ voice[i].ch # c THEN voice[i]
                   ELSE IF sustain[c] # 0 THEN [voice[i] EXCEPT !.status = "sustained"]
                   ELSE Finished(voice[i])]
<1>1. voice' = [i \in VoiceIds |-> IF i < upper THEN Tidy(f[i]) ELSE voice[i]]
  BY DEF SilenceNotes, EachVoice
<1>2. \A i \in VoiceIds : f[i] \in Voice
  <2>1. ASSUME NEW v \in Voice
        PROVE  [v EXCEPT !.status = "sustained"] \in Voice
    BY DEF Voice, Statuses
  <2>2. \A i \in VoiceIds : voice[i] \in Voice
    BY DEF IInv, TypeOK
  <2> QED BY <2>1, <2>2, VoiceSteps
<1> HIDE DEF f
<1> QED BY <1>1, <1>2, LoopVoices

LEMMA AllNotesOffStep ==
    ASSUME IInv, NEW c \in Channels, AllNotesOff(c)
    PROVE  IInv'
<1>1. /\ call' = Idle /\ UNCHANGED sizeVars /\ legato' = legato
      /\ sustain' = sustain /\ sostenuto' = sostenuto /\ mono' = mono
      /\ dropped' = dropped /\ SilenceNotes(c) /\ ForgetKeys(c)
  BY DEF AllNotesOff, chanVars
<1>2. ChannelType(sustain', sostenuto', mono', down', dropped')
  BY <1>1, ChannelTypeNow, ForgetKeysStep DEF ChannelType
<1> QED BY <1>1, <1>2, SilenceNotesStep, ForgetKeysStep, LegatoStays, HandlerStep

LEMMA MonoStep ==
    ASSUME IInv, NEW c \in Channels, NEW b \in BOOLEAN, Mono(c, b)
    PROVE  IInv'
<1>1. /\ call' = Idle /\ UNCHANGED sizeVars /\ legato' = legato
      /\ sustain' = sustain /\ sostenuto' = sostenuto
      /\ mono' = [mono EXCEPT ![c] = b]
      /\ dropped' = dropped /\ SilenceNotes(c) /\ ForgetKeys(c)
  BY DEF Mono
<1>2. ChannelType(sustain', sostenuto', mono', down', dropped')
  BY <1>1, ChannelTypeNow, ForgetKeysStep DEF ChannelType
<1> QED BY <1>1, <1>2, SilenceNotesStep, ForgetKeysStep, LegatoStays, HandlerStep

LEMMA AllSoundsOffStep ==
    ASSUME IInv, NEW c \in Channels, AllSoundsOff(c)
    PROVE  IInv'
<1> DEFINE f == [i \in VoiceIds |-> IF voice[i].ch = c THEN Cut(voice[i]) ELSE voice[i]]
<1>1. /\ call' = Idle /\ UNCHANGED sizeVars /\ legato' = legato
      /\ sustain' = sustain /\ sostenuto' = sostenuto /\ mono' = mono
      /\ dropped' = dropped /\ ForgetKeys(c)
  BY DEF AllSoundsOff, chanVars
<1>2. ChannelType(sustain', sostenuto', mono', down', dropped')
  BY <1>1, ChannelTypeNow, ForgetKeysStep DEF ChannelType
<1>3. voice' = [i \in VoiceIds |-> IF i < upper THEN Tidy(f[i]) ELSE voice[i]]
  BY DEF AllSoundsOff, EachVoice
<1>4. \A i \in VoiceIds : f[i] \in Voice
  <2>1. \A i \in VoiceIds : voice[i] \in Voice
    BY DEF IInv, TypeOK
  <2> QED BY <2>1, VoiceSteps
<1> HIDE DEF f
<1>5. /\ voice' \in [VoiceIds -> Voice]
      /\ \A i \in VoiceIds : i >= upper => voice'[i] = voice[i]
  BY <1>3, <1>4, LoopVoices
<1> QED BY <1>1, <1>2, <1>5, ForgetKeysStep, LegatoStays, HandlerStep

\* kill_all_voices.
LEMMA KillAllStep ==
    ASSUME IInv, KillAll
    PROVE  /\ voice' \in [VoiceIds -> Voice]
           /\ \A i \in VoiceIds : i >= upper => voice'[i] = voice[i]
           /\ head' \in Vids /\ tail' \in Vids
           /\ down' \in [Channels -> [Notes -> 0..MaxHeld]] /\ dropped' = {}
<1> DEFINE f == [i \in VoiceIds |-> Cut(voice[i])]
<1>1. voice' = [i \in VoiceIds |-> IF i < upper THEN Tidy(f[i]) ELSE voice[i]]
  BY DEF KillAll, EachVoice
<1>2. \A i \in VoiceIds : f[i] \in Voice
  <2>1. \A i \in VoiceIds : voice[i] \in Voice
    BY DEF IInv, TypeOK
  <2> QED BY <2>1, VoiceSteps
<1> HIDE DEF f
<1> QED BY <1>1, <1>2, LoopVoices, NoVidType DEF KillAll

LEMMA ChangeKeyStep ==
    ASSUME IInv, ChangeKey
    PROVE  IInv'
<1>1. /\ call' = Idle /\ UNCHANGED sizeVars /\ legato' = legato /\ KillAll
      /\ sustain' = sustain /\ sostenuto' = sostenuto /\ mono' = mono
  BY DEF ChangeKey, chanVars
<1>2. ChannelType(sustain', sostenuto', mono', down', dropped')
  BY <1>1, ChannelTypeNow, KillAllStep DEF ChannelType
<1> QED BY <1>1, <1>2, KillAllStep, LegatoStays, HandlerStep

\* A channel after a reset or a seek, l being what it was: no legato goes on.
LEMMA FreshLegato ==
    ASSUME NEW c \in Channels, NEW l \in LegatoState, NEW b \in BOOLEAN,
           NEW g \in BOOLEAN, NEW t \in BOOLEAN
    PROVE  /\ LegatoWell(c, [NoLegato EXCEPT !.last = l.last])
           /\ LegatoWell(c, [NoLegato EXCEPT !.on = b, !.last = l.last,
                                !.glide = g /\ c \in Glides, !.ctrl = t /\ c \in Glides])
<1>1. (g /\ c \in Glides) \in BOOLEAN /\ (t /\ c \in Glides) \in BOOLEAN
  OBVIOUS
<1>2. NoLegato \in LegatoState
  BY NoCount DEF NoLegato, LegatoState
<1>3. [NoLegato EXCEPT !.last = l.last] \in LegatoState
  BY <1>2 DEF LegatoState
<1>4. ASSUME NEW x \in BOOLEAN, NEW y \in BOOLEAN
      PROVE  [NoLegato EXCEPT !.on = b, !.last = l.last, !.glide = x, !.ctrl = y]
                 \in LegatoState
  BY <1>2 DEF LegatoState
<1> QED BY <1>1, <1>3, <1>4 DEF NoLegato, LegatoWell

LEMMA WellLegato ==
    ASSUME IInv, NEW f, legato' = [c \in Channels |-> f[c]],
           \A c \in Channels : LegatoWell(c, f[c])
    PROVE  legato' \in [Channels -> LegatoState] /\ LegatoKey' /\ LegatoKeepsBase'
BY DEF LegatoKey, LegatoKeepsBase, HasBase, LegatoWell

LEMMA ResetMidiStep ==
    ASSUME IInv, ResetMidi
    PROVE  IInv'
<1>1. call' = Idle /\ UNCHANGED sizeVars /\ KillAll /\ ResetChannels
  BY DEF ResetMidi
<1>2. ChannelType(sustain', sostenuto', mono', down', dropped')
  BY <1>1, KillAllStep DEF ChannelType, ResetChannels
<1>3. legato' \in [Channels -> LegatoState] /\ LegatoKey' /\ LegatoKeepsBase'
  <2> DEFINE f == [c \in Channels |-> [NoLegato EXCEPT !.last = legato[c].last]]
  <2>1. \A c \in Channels : LegatoWell(c, f[c])
    BY FreshLegato DEF IInv, TypeOK
  <2>2. legato' = [c \in Channels |-> f[c]]
    BY <1>1 DEF ResetChannels
  <2> HIDE DEF f
  <2> QED BY <2>1, <2>2, WellLegato
<1> QED BY <1>1, <1>2, <1>3, KillAllStep, HandlerStep

-----------------------------------------------------------------------------
(* The mixer and the polyphony.                                            *)

\* upper_voices comes down to the last voice that lives.
LEMMA TrimKeeps ==
    ASSUME IInv, NEW f \in [VoiceIds -> Voice],
           \A i \in VoiceIds : i >= upper => f[i] = voice[i],
           NEW u \in Trims({i \in Below : Live(f[i])})
    PROVE  u \in 0..upper /\ \A i \in u..(voices - 1) : f[i].status = "free"
<1>1. /\ voices \in 0..MaxVoices /\ upper \in 0..voices /\ MaxVoices \in Nat \ {0}
  BY VoicesAssumption DEF IInv, TypeOK, UpperVoices
<1>2. u \in 0..upper /\ \A i \in Below : Live(f[i]) => i < u
  BY DEF Trims
<1>3. ASSUME NEW i \in u..(voices - 1)
      PROVE  f[i].status = "free"
  <2>1. i \in VoiceIds
    BY <1>1, <1>2 DEF VoiceIds
  <2>2. CASE i < upper
    <3>1. i \in Below /\ ~(i < u)
      BY <1>1, <1>2, <2>2 DEF Below
    <3> QED BY <3>1, <1>2 DEF Live
  <2>3. CASE ~(i < upper)
    <3>1. i >= upper /\ i \in upper..(voices - 1)
      BY <1>1, <1>2, <2>3
    <3> QED BY <3>1, <2>1 DEF IInv, UpperVoices
  <2> QED BY <2>2, <2>3
<1> QED BY <1>2, <1>3

\* do_compute_data.
LEMMA MixBlockStep ==
    ASSUME IInv, MixBlock
    PROVE  IInv'
<1>1. TypeOK /\ call = Idle
  BY DEF IInv, MixBlock
<1>2. UNCHANGED <<voices, oldVoices, queueVars, chanVars, call, ghostVars>>
  BY DEF MixBlock
<1>3. PICK gone \in SUBSET Below :
        /\ voice' = [i \in VoiceIds |-> IF i \in gone THEN Tidy(Freed(voice[i])) ELSE voice[i]]
        /\ upper' \in Trims({i \in Below : Live(voice[i])} \ gone)
  BY DEF MixBlock
<1>4. /\ voice \in [VoiceIds -> Voice] /\ Below \subseteq VoiceIds
      /\ \A i \in VoiceIds : i >= upper => i \notin Below
  BY <1>1, VoicesAssumption DEF IInv, TypeOK, UpperVoices, Below, VoiceIds
<1>5. /\ voice' \in [VoiceIds -> Voice]
      /\ \A i \in VoiceIds : i >= upper => voice'[i] = voice[i]
      /\ \A i \in gone : voice'[i].status = "free"
  <2>1. \A i \in VoiceIds : Tidy(Freed(voice[i])) \in Voice
                            /\ Tidy(Freed(voice[i])).status = "free"
    BY <1>4, FreedVoice
  <2> QED BY <2>1, <1>3, <1>4
<1>6. {i \in Below : Live(voice[i])} \ gone = {i \in Below : Live(voice'[i])}
  <2>1. \A i \in Below : IF i \in gone THEN ~Live(voice'[i]) ELSE voice'[i] = voice[i]
    BY <1>3, <1>4, <1>5 DEF Live
  <2> QED BY <2>1
<1>7. upper' \in 0..upper /\ \A i \in upper'..(voices - 1) : voice'[i].status = "free"
  <2>1. upper' \in Trims({i \in Below : Live(voice'[i])})
    BY <1>3, <1>6
  <2> QED BY <2>1, <1>5, TrimKeeps
<1>8. upper' \in 0..MaxVoices /\ upper' <= voices
  BY <1>7, VoicesAssumption DEF IInv, TypeOK, UpperVoices
<1>9. TypeOK'
  BY <1>1, <1>2, <1>5, <1>8 DEF TypeOK, queueVars, chanVars, ghostVars
<1>10. UpperVoices'
  BY <1>2, <1>7, <1>8 DEF UpperVoices
<1>11. CallVoices' /\ LegatoKey' /\ LegatoKeepsBase'
  BY <1>1, <1>2 DEF IInv, CallVoices, Idle, LegatoKey, LegatoKeepsBase, HasBase, chanVars
<1> QED BY <1>9, <1>10, <1>11 DEF IInv

\* The shape of a step that changes the polyphony.
LEMMA SizeStep ==
    ASSUME IInv, voice' \in [VoiceIds -> Voice], voices' \in 0..MaxVoices,
           upper' \in 0..MaxVoices, oldVoices' \in 0..MaxVoices, UpperVoices',
           call' \in Calls, call'.op # "note",
           UNCHANGED <<queueVars, chanVars, ghostVars>>
    PROVE  IInv'
<1>1. TypeOK'
  BY DEF IInv, TypeOK, queueVars, chanVars, ghostVars
<1>2. LegatoKey' /\ LegatoKeepsBase'
  BY DEF IInv, LegatoKey, LegatoKeepsBase, HasBase, chanVars
<1> QED BY <1>1, <1>2 DEF IInv, CallVoices

\* What such a step may leave as it is.
LEMMA SizeNow ==
    ASSUME IInv
    PROVE  /\ voice \in [VoiceIds -> Voice] /\ voices \in 0..MaxVoices
           /\ upper \in 0..MaxVoices /\ oldVoices \in 0..MaxVoices /\ MaxVoices \in Nat \ {0}
           /\ UpperVoices /\ TypeOK /\ call \in Calls /\ MaxStep \in Nat
BY VoicesAssumption DEF IInv, TypeOK

LEMMA UpperStays ==
    ASSUME IInv, UNCHANGED <<voice, sizeVars>>
    PROVE  /\ voice' \in [VoiceIds -> Voice] /\ voices' \in 0..MaxVoices
           /\ upper' \in 0..MaxVoices /\ oldVoices' \in 0..MaxVoices /\ UpperVoices'
BY SizeNow DEF sizeVars, UpperVoices

LEMMA PressVoicesStep ==
    ASSUME IInv, NEW d \in (0 - MaxStep)..MaxStep, PressVoices(d)
    PROVE  IInv'
<1>1. call' \in Calls /\ call'.op # "note"
  BY DEF PressVoices, Calls
<1>2. UNCHANGED <<voice, sizeVars, queueVars, chanVars, ghostVars>>
  BY DEF PressVoices
<1> QED BY <1>1, <1>2, UpperStays, SizeStep

LEMMA RestoreStep ==
    ASSUME IInv, Restore
    PROVE  IInv'
<1>1. /\ UNCHANGED <<oldVoices, queueVars, chanVars, call, ghostVars>>
      /\ call.op = "restore" /\ voices # oldVoices
  BY DEF Restore
<1>2. /\ voice' \in [VoiceIds -> Voice] /\ voices' \in 0..MaxVoices
      /\ upper' \in 0..MaxVoices /\ UpperVoices'
  <2>1. CASE voices < oldVoices
    <3>1. oldVoices - voices \in Nat
      BY <2>1, SizeNow
    <3>2. Grow(oldVoices - voices) /\ upper' = upper
      BY <2>1 DEF Restore
    <3> QED BY <3>1, <3>2, SizeNow, GrowKeeps
  <2>2. CASE ~(voices < oldVoices)
    <3>1. voices > 0
      BY <1>1, <2>2, SizeNow
    <3>2. DropOne
      BY <2>2 DEF Restore
    <3> QED BY <3>1, <3>2, SizeNow, DropOneKeeps
  <2> QED BY <2>1, <2>2
<1> QED BY <1>1, <1>2, SizeNow, SizeStep

\* sync_restart(1): reset_voices and seek_forward with another polyphony.
LEMMA RestartStep ==
    ASSUME IInv, ResetVoices, SeekChannels, voices' \in 0..MaxVoices,
           oldVoices' \in 0..MaxVoices, call' = Idle
    PROVE  IInv'
<1>1. /\ voice' \in [VoiceIds -> Voice]
      /\ \A i \in VoiceIds : voice'[i].status = "free"
  BY SizeNow, FreedVoice DEF ResetVoices
<1>2. upper' = 0 /\ head' \in Vids /\ tail' \in Vids
  BY NoVidType DEF ResetVoices
<1>3. UpperVoices'
  <2>1. \A i \in 0..(voices' - 1) : i \in VoiceIds
    <3>1. ASSUME NEW w \in 0..MaxVoices
          PROVE  \A i \in 0..(w - 1) : i \in VoiceIds
      BY <3>1, SizeNow DEF VoiceIds
    <3> QED BY <3>1
  <2>2. 0 <= voices'
    OBVIOUS
  <2>3. \A i \in upper'..(voices' - 1) : voice'[i].status = "free"
    BY <1>1, <1>2, <2>1
  <2> QED BY <1>2, <2>2, <2>3 DEF UpperVoices
<1>4. ChannelType(sustain', sostenuto', mono', down', dropped')
  <2>1. sustain' \in [Channels -> 0..127]
    <3>1. PICK a \in [Channels -> PedalValues] :
            sustain' = [c \in Channels |-> PedalLevel(c, a[c])]
      BY DEF SeekChannels
    <3>2. ASSUME NEW c \in Channels
          PROVE  PedalLevel(c, a[c]) \in 0..127
      <4>1. a[c] \in 0..127
        BY VoicesAssumption
      <4> QED BY <4>1 DEF PedalLevel
    <3> QED BY <3>1, <3>2
  <2>2. sostenuto' \in [Channels -> BOOLEAN] /\ mono' \in [Channels -> BOOLEAN]
    BY DEF SeekChannels
  <2>3. down' \in [Channels -> [Notes -> 0..MaxHeld]] /\ dropped' \subseteq Channels
    BY NoVidType DEF ResetVoices
  <2> QED BY <2>1, <2>2, <2>3 DEF ChannelType
<1>5. legato' \in [Channels -> LegatoState] /\ LegatoKey' /\ LegatoKeepsBase'
  <2>1. PICK pressed, glides, ctrls \in [Channels -> IF Portamento THEN BOOLEAN ELSE {FALSE}] :
          legato' = [c \in Channels |->
              [NoLegato EXCEPT !.on = pressed[c], !.last = legato[c].last,
                               !.glide = glides[c] /\ c \in Glides,
                               !.ctrl = ctrls[c] /\ c \in Glides]]
    BY DEF SeekChannels
  <2> DEFINE f == [c \in Channels |->
              [NoLegato EXCEPT !.on = pressed[c], !.last = legato[c].last,
                               !.glide = glides[c] /\ c \in Glides,
                               !.ctrl = ctrls[c] /\ c \in Glides]]
  <2>2. \A c \in Channels : LegatoWell(c, f[c])
    <3>1. ASSUME NEW c \in Channels
          PROVE  /\ legato[c] \in LegatoState
                 /\ pressed[c] \in BOOLEAN /\ glides[c] \in BOOLEAN /\ ctrls[c] \in BOOLEAN
      BY DEF IInv, TypeOK
    <3> QED BY <3>1, FreshLegato
  <2>3. legato' = [c \in Channels |-> f[c]]
    BY <2>1
  <2> HIDE DEF f
  <2> QED BY <2>2, <2>3, WellLegato
<1>6. call' \in Calls /\ CallVoices'
  BY DEF Idle, Calls, CallVoices
<1>7. upper' \in 0..MaxVoices
  BY <1>2, SizeNow
<1>8. TypeOK'
  BY <1>1, <1>2, <1>4, <1>5, <1>6, <1>7 DEF TypeOK, ChannelType
<1> QED BY <1>3, <1>5, <1>6, <1>8 DEF IInv

\* The rest of RC_VOICEINCR and RC_VOICEDECR.
LEMMA ResizeStep ==
    ASSUME IInv, Resize
    PROVE  IInv'
<1> DEFINE d == call.delta
<1>1. d \in (0 - MaxStep)..MaxStep
  BY SizeNow DEF Resize, Calls
<1>2. CASE /\ d # 0 /\ ResetVoices /\ SeekChannels
           /\ voices' = Larger(0, Smaller(MaxVoices, voices + d))
           /\ oldVoices' = voices' /\ call' = Idle
  <2>1. Larger(0, Smaller(MaxVoices, voices + d)) \in 0..MaxVoices
    BY <1>1, SizeNow DEF Larger, Smaller
  <2> QED BY <1>2, <2>1, RestartStep
<1>3. CASE /\ d >= 0 /\ Grow(d) /\ oldVoices' = voices' /\ call' = Idle
           /\ UNCHANGED <<upper, queueVars, chanVars, ghostVars>>
  <2>1. d \in Nat
    BY <1>1, <1>3, SizeNow
  <2>2. /\ voice' \in [VoiceIds -> Voice] /\ voices' \in 0..MaxVoices
        /\ upper' \in 0..MaxVoices /\ UpperVoices'
    BY <1>3, <2>1, SizeNow, GrowKeeps
  <2>3. call' \in Calls /\ call'.op # "note"
    BY <1>3 DEF Idle, Calls
  <2> QED BY <1>3, <2>2, <2>3, SizeStep
<1>4. CASE /\ d < 0 /\ call' = [op |-> "drop", left |-> 0 - d]
           /\ UNCHANGED <<voice, sizeVars, queueVars, chanVars, ghostVars>>
  <2>1. 0 - d \in 0..MaxStep
    BY <1>1, <1>4, SizeNow
  <2>2. call' \in Calls /\ call'.op # "note"
    BY <1>4, <2>1 DEF Calls
  <2> QED BY <1>4, <2>2, UpperStays, SizeStep
<1> QED BY <1>2, <1>3, <1>4 DEF Resize

LEMMA DropStep ==
    ASSUME IInv, Drop
    PROVE  IInv'
<1>1. /\ UNCHANGED <<queueVars, chanVars, ghostVars>>
      /\ call \in [op : {"drop"}, left : 0..MaxStep]
  BY SizeNow DEF Drop, Calls
<1>2. CASE call.left > 0 /\ voices > 0
  <2>1. /\ DropOne /\ oldVoices' = oldVoices
        /\ call' = [call EXCEPT !.left = @ - 1]
    BY <1>2 DEF Drop
  <2>2. call' \in Calls /\ call'.op # "note"
    <3>1. call.left - 1 \in 0..MaxStep
      BY <1>1, <1>2, SizeNow
    <3> QED BY <1>1, <2>1, <3>1 DEF Calls
  <2> QED BY <1>1, <1>2, <2>1, <2>2, SizeNow, DropOneKeeps, SizeStep
<1>3. CASE ~(call.left > 0 /\ voices > 0)
  <2>1. oldVoices' = voices /\ call' = Idle /\ UNCHANGED <<voice, voices, upper>>
    BY <1>3 DEF Drop
  <2>2. call' \in Calls /\ call'.op # "note"
    BY <2>1 DEF Idle, Calls
  <2>3. UpperVoices'
    BY <2>1, SizeNow DEF UpperVoices
  <2> QED BY <1>1, <2>1, <2>2, <2>3, SizeNow, SizeStep
<1> QED BY <1>2, <1>3

\* reduce_control sets out to kill no more voices than live.
LEMMA DrainStep ==
    ASSUME IInv, Drain
    PROVE  IInv'
<1> DEFINE live == {i \in Below : Live(voice[i])}
<1>1. Cardinality(live) \in 0..MaxVoices
  <2>1. /\ IsFiniteSet(VoiceIds) /\ Cardinality(VoiceIds) = MaxVoices
    <3>1. MaxVoices - 1 \in Int /\ 0 \in Int /\ ~(0 > MaxVoices - 1)
      BY SizeNow
    <3>2. /\ IsFiniteSet(0..(MaxVoices - 1))
          /\ Cardinality(0..(MaxVoices - 1)) = (MaxVoices - 1) - 0 + 1
      BY <3>1, FS_Interval
    <3> QED BY <3>2, SizeNow DEF VoiceIds
  <2>2. live \subseteq VoiceIds
    BY SizeNow DEF Below, VoiceIds
  <2>3. /\ IsFiniteSet(live) /\ Cardinality(live) \in Nat
        /\ Cardinality(live) <= Cardinality(VoiceIds)
    <3> HIDE DEF live
    <3> QED BY <2>1, <2>2, FS_Subset, FS_CardinalityType
  <2> QED BY <2>1, <2>3, SizeNow
<1>2. PICK kill \in 0..Cardinality(live) :
        \E target \in (Cardinality(live) - kill)..MaxVoices :
           call' = [op |-> "thin", kill |-> kill, target |-> target]
  BY DEF Drain
<1>3. PICK target \in (Cardinality(live) - kill)..MaxVoices :
        call' = [op |-> "thin", kill |-> kill, target |-> target]
  BY <1>2
<1>4. kill \in 0..MaxVoices /\ target \in 0..MaxVoices
  <2> DEFINE n == Cardinality(live)
  <2>1. n \in 0..MaxVoices /\ kill \in 0..n /\ target \in (n - kill)..MaxVoices
    BY <1>1
  <2> HIDE DEF n
  <2>2. n - kill \in Nat /\ MaxVoices \in Nat
    BY <2>1, SizeNow
  <2> QED BY <2>1, <2>2
<1>5. call' \in Calls /\ call'.op # "note"
  <2> HIDE DEF live
  <2> QED BY <1>3, <1>4 DEF Calls
<1>6. UNCHANGED <<voice, sizeVars, queueVars, chanVars, ghostVars>>
  BY DEF Drain
<1> QED BY <1>5, <1>6, UpperStays, SizeStep

\* What reduce_voice picks is a voice of the array.
LEMMA StealsVoice ==
    ASSUME IInv
    PROVE  Steals \subseteq VoiceIds
<1>1. Below \subseteq VoiceIds /\ 0 \in VoiceIds
  BY SizeNow DEF Below, VoiceIds
<1>2. Steals \subseteq Below \cup {0}
  BY DEF Steals
<1> QED BY <1>1, <1>2

LEMMA ThinKillStep ==
    ASSUME IInv, ThinKill
    PROVE  IInv'
<1>1. /\ UNCHANGED <<sizeVars, queueVars, chanVars, ghostVars>>
      /\ call' = [call EXCEPT !.kill = @ - 1] /\ call.kill > 0
      /\ call \in [op : {"thin"}, kill : 0..MaxVoices, target : 0..MaxVoices]
  BY SizeNow DEF ThinKill, Calls
<1>2. PICK i \in Steals : voice' = [voice EXCEPT ![i] = Tidy(Freed(@))]
  BY DEF ThinKill
<1>3. /\ voice' \in [VoiceIds -> Voice]
      /\ \A j \in VoiceIds : voice'[j] = voice[j] \/ voice'[j].status = "free"
  <2>1. i \in VoiceIds /\ voice[i] \in Voice
    BY StealsVoice, SizeNow
  <2>2. Tidy(Freed(voice[i])) \in Voice /\ Tidy(Freed(voice[i])).status = "free"
    BY <2>1, FreedVoice
  <2> QED BY <1>2, <2>1, <2>2, SizeNow
<1>4. UpperVoices'
  <2>1. \A j \in upper..(voices - 1) : j \in VoiceIds
    BY SizeNow DEF VoiceIds
  <2>2. \A j \in upper..(voices - 1) : voice'[j].status = "free"
    BY <2>1, <1>3, SizeNow DEF UpperVoices
  <2> QED BY <2>2, <1>1, SizeNow DEF UpperVoices, sizeVars
<1>5. call' \in Calls /\ call'.op # "note"
  <2>1. call.kill - 1 \in 0..MaxVoices
    BY <1>1, SizeNow
  <2> QED BY <1>1, <2>1 DEF Calls
<1> QED BY <1>1, <1>3, <1>4, <1>5, SizeNow, SizeStep DEF sizeVars

\* One turn of voice_decrement_conservative, or voice_increment.
LEMMA ThinResizeStep ==
    ASSUME IInv, ThinResize
    PROVE  IInv'
<1> DEFINE t == call.target
           spare == Spare(t)
           victims == {j \in 0..(voices - 1) : Decaying(j) /\ ~Drum(voice[j])}
<1>1. /\ call \in [op : {"thin"}, kill : 0..MaxVoices, target : 0..MaxVoices]
      /\ UNCHANGED <<oldVoices, queueVars, chanVars, ghostVars>>
  BY SizeNow DEF ThinResize, Calls
<1>2. t \in 0..MaxVoices
  BY <1>1
<1>3. CASE t > voices /\ Grow(t - voices) /\ UNCHANGED <<upper, call>>
  <2>1. t - voices \in Nat /\ upper' = upper
    BY <1>2, <1>3, SizeNow
  <2> HIDE DEF t
  <2>2. /\ voice' \in [VoiceIds -> Voice] /\ voices' \in 0..MaxVoices
        /\ upper' \in 0..MaxVoices /\ UpperVoices'
    BY <1>3, <2>1, SizeNow, GrowKeeps
  <2> QED BY <1>1, <1>3, <2>2, SizeNow, SizeStep
<1>4. CASE t < voices /\ Vacate(spare, victims) /\ Shrunk /\ UNCHANGED call
  <2>1. \A j \in spare : j \in 0..(voices - 2) /\ ~Live(voice[j])
    BY <1>2, <1>4, SizeNow DEF Spare
  <2>2. victims \subseteq VoiceIds /\ voices > 0
    BY <1>2, <1>4, SizeNow DEF VoiceIds
  <2> HIDE DEF spare, victims, t
  <2>3. /\ voice' \in [VoiceIds -> Voice] /\ voices' \in 0..MaxVoices
        /\ upper' \in 0..MaxVoices /\ UpperVoices'
    BY <1>4, <2>1, <2>2, SizeNow, VacateKeeps
  <2> QED BY <1>1, <1>4, <2>3, SizeNow, SizeStep
<1>5. CASE call' = [call EXCEPT !.target = voices] /\ UNCHANGED <<voice, voices, upper>>
  <2>1. call' \in Calls /\ call'.op # "note"
    BY <1>1, <1>5, SizeNow DEF Calls
  <2> QED BY <1>1, <1>5, <2>1, UpperStays, SizeStep DEF sizeVars
<1> QED BY <1>3, <1>4, <1>5 DEF ThinResize

LEMMA ThinDoneStep ==
    ASSUME IInv, ThinDone
    PROVE  IInv'
<1>1. /\ UNCHANGED <<voice, voices, oldVoices, queueVars, chanVars, ghostVars>>
      /\ call' = Idle /\ upper' \in Trims({i \in Below : Live(voice[i])})
  BY DEF ThinDone
<1>2. upper' \in 0..upper /\ \A i \in upper'..(voices - 1) : voice[i].status = "free"
  BY <1>1, TrimKeeps, SizeNow
<1>3. upper' \in 0..MaxVoices /\ upper' <= voices
  BY <1>2, SizeNow DEF UpperVoices
<1>4. UpperVoices'
  BY <1>1, <1>2, <1>3 DEF UpperVoices
<1>5. call' \in Calls /\ call'.op # "note"
  BY <1>1 DEF Idle, Calls
<1> QED BY <1>1, <1>3, <1>4, <1>5, SizeNow, SizeStep

-----------------------------------------------------------------------------
(* Theorems.                                                               *)

LEMMA NextIInv == IInv /\ [Next]_vars => IInv'
<1> SUFFICES ASSUME IInv, [Next]_vars PROVE IInv'
  OBVIOUS
<1>1. CASE KeyEvent
  BY <1>1, NoteOnStep, NoteOffStep DEF KeyEvent
<1>2. CASE ControlEvent
  BY <1>2, SustainStep, SostenutoStep, LegatoPedalStep, MonoStep,
     ResetControllersStep, AllNotesOffStep, AllSoundsOffStep DEF ControlEvent
<1>3. CASE ChangeKey
  BY <1>3, ChangeKeyStep
<1>4. CASE ResetMidi
  BY <1>4, ResetMidiStep
<1>5. CASE Allocation
  BY <1>5, FindSampleStep, StartNoteStep DEF Allocation
<1>6. CASE MixBlock
  BY <1>6, MixBlockStep
<1>7. CASE Polyphony
  BY <1>7, PressVoicesStep, DrainStep, RestoreStep, ResizeStep, DropStep,
     ThinKillStep, ThinResizeStep, ThinDoneStep DEF Polyphony
<1>8. CASE UNCHANGED vars
  <2>1. call' = call /\ UNCHANGED <<voice, sizeVars, queueVars, chanVars, ghostVars>>
    BY <1>8 DEF vars, queueVars, chanVars, ghostVars
  <2>2. TypeOK' /\ CallVoices' /\ LegatoKey' /\ LegatoKeepsBase'
    BY <2>1 DEF IInv, TypeOK, CallVoices, LegatoKey, LegatoKeepsBase, HasBase,
                sizeVars, queueVars, chanVars, ghostVars
  <2> QED BY <2>1, <2>2, UpperStays DEF IInv
<1> QED BY <1>1, <1>2, <1>3, <1>4, <1>5, <1>6, <1>7, <1>8 DEF Next

LEMMA AlwaysIInv == Spec => []IInv
BY InitIInv, NextIInv, PTL DEF Spec

\* The state of the voices, of the vidq counters (within the range of the
\* code's uint8) and of the loops stays well formed.
THEOREM VoicesTyped == Spec => []TypeOK
<1>1. IInv => TypeOK
  BY DEF IInv
<1> QED BY <1>1, AlwaysIInv, PTL

\* No polyphony change, stolen note, mixer block or seek leaves a voice that
\* may be taken in use at or above upper_voices, where note_off, the pedals
\* and the mixer would not look for it.
THEOREM UpperVoicesAlways == Spec => []UpperVoices
<1>1. IInv => UpperVoices
  BY DEF IInv
<1> QED BY <1>1, AlwaysIInv, PTL

\* In a channel without portamento messages a legato that goes on has a base note
\* that is a key, so note_off_legato hands no 255 to last_vidq: no order of notes,
\* of the legato pedal, of resets and seeks lets a note start anew while
\* legato_status is set.
THEOREM LegatoAlwaysHasBase == Spec => []LegatoKeepsBase
<1>1. IInv => LegatoKeepsBase
  BY DEF IInv
<1> QED BY <1>1, AlwaysIInv, PTL
-----------------------------------------------------------------------------
(* The steal order, and the voices of a note that starts.                  *)

\* What reduce_voice takes is in none of the classes that come before it.
LEMMA StealsInOrder ==
    ASSUME NEW i \in Steals, i \in Below, Live(voice[i])
    PROVE  /\ voice[i].status \in {"on", "off"} /\ Drum(voice[i]) =>
                 \A j \in Below : Drum(voice[j]) \/ ~Live(voice[j])
           /\ voice[i].status \in {"on", "pending"} =>
                 \A j \in Below : /\ voice[j].status \notin {"die", "sustained"}
                                  /\ voice[j].status = "off" => Drum(voice[j])
<1> DEFINE live == {j \in Below : Live(voice[j])}
           decaying == {j \in live : voice[j].status = "off" /\ ~Drum(voice[j])}
           dying == {j \in live : voice[j].status = "die"}
           sustained == {j \in live : voice[j].status = "sustained"}
           tones == {j \in live : ~Drum(voice[j])}
<1>1. i \in IF decaying # {} THEN decaying
            ELSE IF dying # {} THEN dying
            ELSE IF sustained # {} THEN sustained
            ELSE IF tones # {} THEN tones
            ELSE IF live # {} THEN live ELSE {0}
  BY DEF Steals
<1>2. \A j \in Below : voice[j].status \in {"die", "sustained", "off"} => j \in live
  BY DEF Live
<1>3. voice[i].status \in {"on", "off"} /\ Drum(voice[i]) => tones = {}
  BY <1>1
<1>4. voice[i].status \in {"on", "pending"} => decaying = {} /\ dying = {} /\ sustained = {}
  BY <1>1
<1>5. ASSUME voice[i].status \in {"on", "off"}, Drum(voice[i]), NEW j \in Below
      PROVE  Drum(voice[j]) \/ ~Live(voice[j])
  BY <1>3, <1>5
<1>6. ASSUME voice[i].status \in {"on", "pending"}, NEW j \in Below
      PROVE  /\ voice[j].status \notin {"die", "sustained"}
             /\ voice[j].status = "off" => Drum(voice[j])
  BY <1>2, <1>4, <1>6
<1> QED BY <1>5, <1>6

\* The voice that find_voice gives is dead, a new one, or was stolen.
LEMMA FoundIsStolen ==
    ASSUME IInv, NEW i \in FoundVoice, i \in Below, Live(voice[i])
    PROVE  i \in Steals
<1>1. FreeBelow = {}
  BY DEF FoundVoice, FreeBelow
<1>2. upper \in Int /\ i # upper
  BY DEF IInv, TypeOK, Below
<1> QED BY <1>1, <1>2 DEF FoundVoice

LEMMA StealsStep == IInv /\ Next => StealStep
<1> SUFFICES ASSUME IInv, Next, NEW i \in Below,
                    call.op = "note" \/ (call.op = "thin" /\ call.kill > 0),
                    Live(voice[i]), voice[i].own, ~voice'[i].own
             PROVE  /\ voice[i].status \in {"on", "off"} /\ Drum(voice[i]) =>
                         \A w \in {voice[j] : j \in Below} : Drum(w) \/ ~w.own \/ ~Live(w)
                    /\ voice[i].status \in {"on", "pending"} =>
                         \A w \in {voice[j] : j \in Below} :
                            /\ w.status \notin {"die", "sustained"}
                            /\ w.status = "off" => Drum(w)
  BY DEF StealStep
<1>1. i \in Steals
  <2>1. call # Idle
    BY DEF Idle
  <2>2. voice' # voice
    OBVIOUS
  <2>3. CASE FindSample
    <3>1. PICK j \in FoundVoice : \E w : voice' = [voice EXCEPT ![j] = w]
      BY <2>3 DEF FindSample
    <3>2. i = j
      BY <3>1 DEF IInv, TypeOK
    <3> QED BY <3>1, <3>2, FoundIsStolen
  <2>4. CASE StartNote
    <3>1. PICK c \in {call.ch}, n \in {call.note} :
            voice' = [j \in VoiceIds |-> IF j \in call.vlist
                                         THEN Started(voice[j], c, n) ELSE voice[j]]
      BY <2>2, <2>4 DEF StartNote
    <3>2. i \in VoiceIds /\ voice[i] \in Voice
      BY VoicesAssumption DEF IInv, TypeOK, UpperVoices, Below, VoiceIds
    <3>3. Started(voice[i], c, n).own
      BY <3>2 DEF Started, Voice
    <3> QED BY <3>1, <3>2, <3>3
  <2>5. CASE ThinKill
    <3>1. PICK j \in Steals : voice' = [voice EXCEPT ![j] = Tidy(Freed(@))]
      BY <2>5 DEF ThinKill
    <3> QED BY <3>1 DEF IInv, TypeOK
  <2>6. FindSample \/ StartNote \/ ThinKill
    <3>1. ~KeyEvent /\ ~ControlEvent
      BY <2>1 DEF KeyEvent, ControlEvent, NoteOn, NoteOff, Sustain, Sostenuto, LegatoControl, Legato,
                  PortamentoSwitch, PortamentoControl, PortamentoTime, SetLegato, Mono,
                  ResetControllers, AllNotesOff, AllSoundsOff
    <3>2. ~ChangeKey /\ ~ResetMidi /\ ~MixBlock /\ ~Drain
          /\ ~(\E delta \in (0 - MaxStep)..MaxStep : PressVoices(delta))
      BY <2>1 DEF ChangeKey, ResetMidi, MixBlock, Drain, PressVoices
    <3>3. ~Restore /\ ~Resize /\ ~Drop
      BY DEF Restore, Resize, Drop
    <3>4. ~ThinResize /\ ~ThinDone
      BY DEF ThinResize, ThinDone
    <3> QED BY <3>1, <3>2, <3>3, <3>4 DEF Next, Allocation, Polyphony
  <2> QED BY <2>3, <2>4, <2>5, <2>6
<1> QED BY <1>1, StealsInOrder

\* A voice is stolen in the order of reduce_voice's passes: a ringing drum only when
\* all that sounds is drums, a note that is down only when nothing fades, is
\* sustained or dies.
THEOREM StealOrderKept == Spec => StealOrder
<1>1. IInv /\ [Next]_vars => [StealStep]_vars
  BY StealsStep
<1> QED BY <1>1, AlwaysIInv, PTL DEF Spec, StealOrder

\* A note that starts has a voice below upper_voices, whatever its other samples and
\* the polyphony took from it (note_on, find_voice, start_note).
THEOREM StartedNoteSounds == Spec => NewNoteSounds
<1>1. ASSUME IInv, Next, call.op = "note", call'.op = "idle", voice' # voice, voices > 0
      PROVE  \E i \in call.vlist : /\ i < upper' /\ voice'[i].own
                                   /\ voice'[i].ch = call.ch /\ voice'[i].note = call.note
                                   /\ voice'[i].status \in {"on", "pending"}
  <2>1. call # Idle
    BY <1>1 DEF Idle
  <2>2. StartNote
    <3>1. ~KeyEvent /\ ~ControlEvent
      BY <2>1 DEF KeyEvent, ControlEvent, NoteOn, NoteOff, Sustain, Sostenuto, LegatoControl, Legato,
                  PortamentoSwitch, PortamentoControl, PortamentoTime, SetLegato, Mono,
                  ResetControllers, AllNotesOff, AllSoundsOff
    <3>2. ~ChangeKey /\ ~ResetMidi /\ ~MixBlock /\ ~Drain
          /\ ~(\E delta \in (0 - MaxStep)..MaxStep : PressVoices(delta))
      BY <2>1 DEF ChangeKey, ResetMidi, MixBlock, Drain, PressVoices
    <3>3. ~Restore /\ ~Resize /\ ~Drop /\ ~ThinKill /\ ~ThinResize /\ ~ThinDone
      BY <1>1 DEF Restore, Resize, Drop, ThinKill, ThinResize, ThinDone
    <3>4. ~FindSample
      <4>1. call \in [op : {"note"}, ch : Channels, note : Notes, todo : 0..MaxLayers,
                      vlist : SUBSET VoiceIds]
        BY <1>1 DEF IInv, TypeOK, Calls
      <4> QED BY <1>1, <4>1 DEF FindSample
    <3> QED BY <1>1, <3>1, <3>2, <3>3, <3>4 DEF Next, Allocation, Polyphony
  <2>3. voice' = [j \in VoiceIds |-> IF j \in call.vlist
                                     THEN Started(voice[j], call.ch, call.note) ELSE voice[j]]
    BY <1>1, <2>2 DEF StartNote
  <2>4. PICK i \in VoiceIds : i \in call.vlist
    <3>1. voice \in [VoiceIds -> Voice]
      BY <1>1 DEF IInv, TypeOK
    <3> QED BY <1>1, <2>3, <3>1
  <2>5. i < upper' /\ upper' = upper
    BY <1>1, <2>2, <2>4 DEF IInv, CallVoices, StartNote, sizeVars, TypeOK
  <2>6. voice'[i] = Started(voice[i], call.ch, call.note)
    BY <2>3, <2>4
  <2>7. voice[i] \in Voice
    BY <1>1, <2>4 DEF IInv, TypeOK
  <2>8. /\ Started(voice[i], call.ch, call.note).own
        /\ Started(voice[i], call.ch, call.note).ch = call.ch
        /\ Started(voice[i], call.ch, call.note).note = call.note
        /\ Started(voice[i], call.ch, call.note).status \in {"on", "pending"}
    BY <2>7 DEF Started, Voice
  <2> QED BY <2>4, <2>5, <2>6, <2>8
<1> QED BY <1>1, AlwaysIInv, PTL DEF Spec, NewNoteSounds

-----------------------------------------------------------------------------
(* What rings.                                                             *)

\* A voice that sounds a note that was started and is down, and the number
\* the note has.
Rings(v) == v.own /\ v.kind = "plain" /\ v.status = "on"
Number(v) == [ch |-> v.ch, note |-> v.note, vid |-> v.vid]
RingingIds == {i \in Below : Rings(voice[i])}
Ringing == {Number(voice[i]) : i \in RingingIds}

\* Of the keys S of channel c at most one rings, and none while another of
\* them is about to start.
Alone(c, S) ==
    /\ \A x, y \in Ringing : x.ch = c /\ y.ch = c /\ x.note \in S /\ y.note \in S => x = y
    /\ call.op = "note" /\ call.ch = c /\ call.note \in S =>
          \A x \in Ringing : x.ch # c \/ x.note \notin S

MonoAlone == \A c \in Channels : mono[c] => Alone(c, Notes \cup {0})
GroupAlone == \A c \in DrumChannels, g \in DOMAIN AltGroups : Alone(c, AltGroups[g])

\* How many numbers lie between t and x, the counters wrapping at VidRange.
Behind(t, x) == IF t <= x THEN x - t ELSE x - t + VidRange

\* A key with counters h and t and d note-ons that had no note-off, b telling
\* whether one is about to start and V the numbers of the notes that ring: the
\* note-offs to come reach them all.
PairOK(h, t, d, b, V) ==
    IF Overlap
    THEN /\ Behind(t, h) + (IF b THEN 1 ELSE 0) <= d
         /\ \A x \in V : Behind(t, x) < Behind(t, h)
    ELSE /\ h = 0 /\ V \subseteq {0}
         /\ (b \/ V # {}) => d > 0

Coming(c, n) == call.op = "note" /\ call.ch = c /\ call.note = n
VidsOf(c, n) == {x.vid : x \in {y \in Ringing : y.ch = c /\ y.note = n}}
Deaf(c, n) == c \in DrumChannels /\ n \in NoOffKeys

Paired ==
    \A c \in Channels, n \in Notes : ~Deaf(c, n) =>
        PairOK(head[c][n], tail[c][n], down[c][n], Coming(c, n), VidsOf(c, n))

\* A voice that a pedal holds, or would hold at its note-off, belongs to a
\* channel whose pedal is down or was let go by reset_controllers.
PedalOK(v, su, so, dr) ==
    v.kind = "plain" =>
       /\ v.status = "sustained" =>
             v.ch \in Channels /\ (v.ch \in dr \/ su[v.ch] # 0 \/ so[v.ch])
       /\ v.status = "on" /\ v.sost =>
             v.ch \in Channels \ DrumChannels /\ (v.ch \in dr \/ so[v.ch])
Pedalled == \A i \in Below : PedalOK(voice[i], sustain, sostenuto, dropped)

\* A voice after a step that starts nothing: silent, or as one was before.
Silent(w) ==
    \/ w.status \in {"free", "die", "off"}
    \/ ~w.own /\ w.status # "sustained" /\ (Portamento \/ ~w.sost)
Alike(w, v) ==
    /\ w.status = v.status /\ w.sost = v.sost /\ w.kind = v.kind /\ w.own = v.own
    /\ Number(w) = Number(v)
Passed == \A i \in Below' : Silent(voice'[i]) \/ \E j \in Below : Alike(voice'[i], voice[j])

\* Such a step makes nothing ring.
LEMMA RingingFrom ==
    ASSUME \A i \in Below' : Rings(voice'[i]) =>
              \E j \in Below : Rings(voice[j]) /\ Number(voice'[i]) = Number(voice[j])
    PROVE  Ringing' \subseteq Ringing
<1> SUFFICES ASSUME NEW x \in Ringing' PROVE x \in Ringing
  OBVIOUS
<1>1. PICK i \in Below' : Rings(voice'[i]) /\ x = Number(voice'[i])
  BY DEF Ringing, RingingIds, Rings, Number
<1>2. PICK j \in Below : Rings(voice[j]) /\ x = Number(voice[j])
  BY <1>1
<1> QED BY <1>2 DEF Ringing, RingingIds

LEMMA PassedRings == Passed => Ringing' \subseteq Ringing
<1> SUFFICES ASSUME Passed, NEW i \in Below', Rings(voice'[i])
             PROVE  \E j \in Below : Rings(voice[j]) /\ Number(voice'[i]) = Number(voice[j])
  BY RingingFrom
<1>1. ~Silent(voice'[i])
  BY DEF Silent, Rings
<1>2. PICK j \in Below : Alike(voice'[i], voice[j])
  BY <1>1 DEF Passed
<1> QED BY <1>2 DEF Alike, Rings

\* And the pedals hold what they held.
LEMMA PassedPedals ==
    ASSUME ~Portamento, Pedalled, Passed,
           \A c \in Channels : \/ c \in dropped'
                               \/ /\ sustain'[c] = sustain[c] /\ sostenuto'[c] = sostenuto[c]
                                  /\ c \notin dropped
    PROVE  Pedalled'
<1> SUFFICES ASSUME NEW i \in Below'
             PROVE  PedalOK(voice'[i], sustain', sostenuto', dropped')
  BY DEF Pedalled, PedalOK
<1>1. CASE Silent(voice'[i])
  BY <1>1 DEF Silent, PedalOK
<1>2. ASSUME NEW j \in Below, Alike(voice'[i], voice[j])
      PROVE  PedalOK(voice'[i], sustain', sostenuto', dropped')
  <2>1. PedalOK(voice[j], sustain, sostenuto, dropped)
    BY DEF Pedalled
  <2>2. /\ voice'[i].status = voice[j].status /\ voice'[i].sost = voice[j].sost
        /\ voice'[i].kind = voice[j].kind /\ voice'[i].ch = voice[j].ch
    BY <1>2 DEF Alike, Number
  <2> QED BY <2>1, <2>2 DEF PedalOK
<1> QED BY <1>1, <1>2 DEF Passed

LEMMA AlikeItself == \A v : Alike(v, v)
BY DEF Alike

\* What is forgotten of a voice was not heard.
LEMMA TidyPasses ==
    ASSUME NEW w
    PROVE  Tidy(w) = w \/ (Silent(w) /\ Silent(Tidy(w)))
<1> DEFINE kept == [Blank EXCEPT !.status = w.status, !.ch = w.ch]
<1>1. kept.status = w.status
  BY DEF Blank
<1>2. CASE w.status \in {"free", "die"}
  BY <1>1, <1>2 DEF Tidy, Silent
<1>3. CASE w.status \notin {"free", "die"}
  BY <1>3 DEF Tidy
<1> QED BY <1>2, <1>3

\* free_voice.
LEMMA FreedSilent ==
    ASSUME NEW v \in Voice
    PROVE  Silent(Tidy(Freed(v)))
BY FreedVoice DEF Silent

\* Below grows by a new voice only, and is a part of the array.
LEMMA BelowIds ==
    ASSUME IInv
    PROVE  /\ Below \subseteq VoiceIds /\ upper \in Nat
           /\ \A i \in Below : i < upper
           /\ \A i \in VoiceIds : i < upper => i \in Below
           /\ \A i \in VoiceIds : i \in Nat
           /\ voice \in [VoiceIds -> Voice]
<1>1. upper \in 0..MaxVoices /\ MaxVoices \in Nat \ {0} /\ voice \in [VoiceIds -> Voice]
  BY SizeNow
<1> QED BY <1>1 DEF Below, VoiceIds

\* A loop over i < upper_voices, f[i] being what it does to voice i.
LEMMA LoopPasses ==
    ASSUME IInv, NEW f, upper' = upper,
           voice' = [i \in VoiceIds |-> IF i < upper THEN Tidy(f[i]) ELSE voice[i]],
           \A i \in VoiceIds : Silent(f[i]) \/ Alike(f[i], voice[i])
    PROVE  Passed
<1> SUFFICES ASSUME NEW i \in Below
             PROVE  Silent(voice'[i]) \/ Alike(voice'[i], voice[i])
  BY DEF Passed, Below
<1>1. i \in VoiceIds /\ i < upper
  BY BelowIds
<1>2. voice'[i] = Tidy(f[i])
  BY <1>1
<1> QED BY <1>1, <1>2, TidyPasses

\* The same, when the loop may quiet a voice that rings.
LEMMA LoopRings ==
    ASSUME IInv, NEW f, upper' = upper,
           voice' = [i \in VoiceIds |-> IF i < upper THEN Tidy(f[i]) ELSE voice[i]],
           \A i \in VoiceIds : Rings(f[i]) => Rings(voice[i]) /\ Number(f[i]) = Number(voice[i])
    PROVE  /\ Ringing' \subseteq Ringing
           /\ \A x \in Ringing' : \E i \in Below : Rings(f[i]) /\ x = Number(f[i])
<1>1. ASSUME NEW i \in Below, Rings(voice'[i])
      PROVE  voice'[i] = f[i] /\ i \in VoiceIds
  <2>1. i \in VoiceIds /\ i < upper
    BY BelowIds
  <2>2. voice'[i] = Tidy(f[i])
    BY <2>1
  <2> QED BY <1>1, <2>1, <2>2, TidyPasses DEF Silent, Rings
<1>2. Below' = Below
  BY DEF Below
<1>3. Ringing' \subseteq Ringing
  BY <1>1, <1>2, RingingFrom
<1>4. ASSUME NEW x \in Ringing'
      PROVE  \E i \in Below : Rings(f[i]) /\ x = Number(f[i])
  <2>1. PICK i \in Below' : Rings(voice'[i]) /\ x = Number(voice'[i])
    BY <1>4 DEF Ringing, RingingIds, Rings, Number
  <2> QED BY <1>1, <1>2, <2>1
<1> QED BY <1>3, <1>4

\* No voice changes its state, and none comes in sight.
LEMMA StaysPasses ==
    ASSUME IInv, voice' = voice, NEW u \in 0..upper, upper' = u
    PROVE  Passed
<1> SUFFICES ASSUME NEW i \in 0..(u - 1) PROVE i \in Below
  BY AlikeItself DEF Passed, Below
<1> QED BY BelowIds DEF Below

-----------------------------------------------------------------------------
(* The steps that start nothing.                                           *)

\* voice_control ages a voice, or cuts it; it cuts what must not sound with
\* the note that comes.
LEMMA NewNotePasses ==
    ASSUME NEW v \in Voice, NEW c \in Channels, NEW n \in Notes
    PROVE  LET w == NewNote(v, c, n)
           IN  /\ Silent(w) \/ Alike(w, v)
               /\ v.ch = c /\ (mono[c] \/ Alternate(c, n, v.note) \/ (v.note = n /\ ~Overlap))
                    => Silent(w)
<1> DEFINE aged == IF v.cnt > 0 THEN [v EXCEPT !.cnt = @ - 1] ELSE Cut(v)
<1>1. ASSUME NEW w PROVE Silent(Cut(w)) \/ Cut(w) = w
  BY DEF Cut, Silent, Live
<1>2. ASSUME NEW w \in Voice PROVE Silent(Cut(w))
  <2>1. CASE Live(w)
    BY <2>1 DEF Cut, Silent, Voice
  <2>2. CASE ~Live(w)
    BY <2>2 DEF Cut, Silent, Live
  <2> QED BY <2>1, <2>2
<1>3. aged \in Voice
  <2>1. ChannelLimit \in Nat
    BY VoicesAssumption
  <2> QED BY <2>1, VoiceSteps DEF Voice
<1>4. Silent(aged) \/ Alike(aged, v)
  <2>1. CASE v.cnt > 0
    BY <2>1 DEF Alike, Number, Voice
  <2>2. CASE ~(v.cnt > 0)
    BY <2>2, <1>2
  <2> QED BY <2>1, <2>2
<1>5. Silent(Cut(aged))
  BY <1>2, <1>3
<1>6. Alike([aged EXCEPT !.ovl = @ - 1], aged)
  BY <1>3 DEF Alike, Number, Voice
<1>7. Silent([aged EXCEPT !.ovl = @ - 1]) \/ Alike([aged EXCEPT !.ovl = @ - 1], v)
  BY <1>4, <1>6 DEF Silent, Alike
<1>8. ~Live(v) => Silent(v)
  BY DEF Live, Silent
<1>9. Alike(v, v)
  BY AlikeItself
<1> HIDE DEF aged
<1>10. NewNote(v, c, n) =
         IF ~Live(v) \/ v.ch # c THEN v
         ELSE IF Alternate(c, n, v.note) \/ mono[c] THEN Cut(aged)
              ELSE IF v.note # n THEN aged
              ELSE IF ~Overlap \/ AssignMode = 0 THEN Cut(aged)
              ELSE IF AssignMode = 2 THEN aged
              ELSE IF v.ovl > 0 THEN [aged EXCEPT !.ovl = @ - 1]
              ELSE Cut(aged)
  BY DEF NewNote, aged
<1> QED BY <1>4, <1>5, <1>7, <1>8, <1>9, <1>10

\* What no longer rings when voice_control has run.
LEMMA NoteOnPasses ==
    ASSUME IInv, NEW c \in Channels, NEW n \in Notes, NoteOn(c, n)
    PROVE  /\ Passed
           /\ call'.op = "note" =>
                 /\ call'.ch = c /\ call'.note = n
                 /\ \A x \in Ringing' : x.ch = c =>
                       /\ ~mono[c] /\ ~Alternate(c, n, x.note)
                       /\ x.note = n => Overlap
<1>1. upper' = upper /\ call = Idle
  BY DEF NoteOn, sizeVars
<1>2. CASE UNCHANGED <<voice, call>>
  <2>1. call'.op # "note"
    BY <1>1, <1>2 DEF Idle
  <2>2. upper \in 0..upper
    BY BelowIds
  <2> QED BY <1>1, <1>2, <2>1, <2>2, StaysPasses
<1>3. CASE /\ voice' = EachVoice(LAMBDA v : NewNote(v, c, n))
           /\ \E k \in 0..MaxLayers :
                call' = IF k = 0 THEN Idle
                        ELSE [op |-> "note", ch |-> c, note |-> n, todo |-> k, vlist |-> {}]
  <2> DEFINE f == [i \in VoiceIds |-> NewNote(voice[i], c, n)]
  <2>1. voice' = [i \in VoiceIds |-> IF i < upper THEN Tidy(f[i]) ELSE voice[i]]
    BY <1>3 DEF EachVoice
  <2>2. \A i \in VoiceIds :
          /\ Silent(f[i]) \/ Alike(f[i], voice[i])
          /\ voice[i].ch = c /\ (mono[c] \/ Alternate(c, n, voice[i].note)
                                  \/ (voice[i].note = n /\ ~Overlap)) => Silent(f[i])
    BY NewNotePasses, BelowIds
  <2> HIDE DEF f
  <2>3. Passed
    BY <1>1, <2>1, <2>2, LoopPasses
  <2>4. \A i \in VoiceIds : Rings(f[i]) =>
          ~Silent(f[i]) /\ Rings(voice[i]) /\ Number(f[i]) = Number(voice[i])
    BY <2>2 DEF Silent, Rings, Alike
  <2>5. ASSUME NEW x \in Ringing', x.ch = c
        PROVE  ~mono[c] /\ ~Alternate(c, n, x.note) /\ (x.note = n => Overlap)
    <3>1. PICK i \in Below : Rings(f[i]) /\ x = Number(f[i])
      BY <1>1, <2>1, <2>4, LoopRings
    <3>2. i \in VoiceIds
      BY BelowIds
    <3>3. ~Silent(f[i]) /\ x.ch = voice[i].ch /\ x.note = voice[i].note
      BY <2>4, <3>1, <3>2 DEF Number
    <3> QED BY <2>2, <2>5, <3>2, <3>3
  <2>6. call'.op = "note" => call'.ch = c /\ call'.note = n
    BY <1>3 DEF Idle
  <2> QED BY <2>3, <2>5, <2>6
<1> QED BY <1>2, <1>3 DEF NoteOn

\* find_samples: a voice it takes does not sound before start_note.
LEMMA FindSamplePasses ==
    ASSUME IInv, FindSample
    PROVE  Passed
<1>1. PICK i \in FoundVoice, k \in Kinds :
        /\ voice' = [voice EXCEPT ![i] =
              [Tidy(Freed(@)) EXCEPT !.kind = k, !.own = FALSE,
                   !.status = IF k = "release" THEN "pending" ELSE "on"]]
        /\ upper' = IF FreeBelow = {} /\ upper < voices THEN upper + 1 ELSE upper
  BY DEF FindSample
<1> DEFINE t == Tidy(Freed(voice[i]))
           st == IF k = "release" THEN "pending" ELSE "on"
           w == [t EXCEPT !.kind = k, !.own = FALSE, !.status = st]
<1>2. /\ i \in VoiceIds
      /\ \/ i < upper \/ voices = 0
         \/ FreeBelow = {} /\ upper < voices /\ i = upper
  BY FoundVoiceBelow DEF IInv
<1>3. t \in Voice
  BY <1>2, BelowIds, FreedVoice
<1>4. ~Portamento => ~t.sost
  <2>1. Freed(voice[i]) \in Voice /\ Freed(voice[i]).status = "free"
    BY <1>2, BelowIds, VoiceSteps
  <2> QED BY <2>1 DEF Tidy, Blank
<1>5. Silent(w)
  <2> HIDE DEF t
  <2>1. st \in {"pending", "on"}
    OBVIOUS
  <2> HIDE DEF st
  <2>2. w.own = FALSE /\ w.status = st /\ w.sost = t.sost
    BY <1>3 DEF Voice
  <2> HIDE DEF w
  <2> QED BY <1>4, <2>1, <2>2 DEF Silent
<1>6. voice' = [voice EXCEPT ![i] = w]
  BY <1>1
<1> HIDE DEF w
<1> SUFFICES ASSUME NEW j \in Below'
             PROVE  Silent(voice'[j]) \/ \E h \in Below : Alike(voice'[j], voice[h])
  BY DEF Passed
<1>7. CASE j = i
  <2>1. voice'[i] = w
    BY <1>2, <1>6, BelowIds
  <2> QED BY <1>5, <1>7, <2>1
<1>8. CASE j # i
  <2>1. j \in Below
    <3>1. CASE upper' = upper
      BY <3>1 DEF Below
    <3>2. CASE upper' = upper + 1 /\ FreeBelow = {} /\ upper < voices
      <4>1. upper \in Nat /\ VoiceIds \subseteq Nat
        BY BelowIds
      <4>2. i = upper
        <5>1. i = upper \/ i < upper
          BY <1>2, <3>2, <4>1, SizeNow
        <5>2. CASE i < upper
          <6>1. FoundVoice = {upper}
            BY <3>2 DEF FoundVoice
          <6> QED BY <4>1, <5>2, <6>1
        <5> QED BY <5>1, <5>2
      <4>3. j \in 0..upper
        BY <3>2, <4>1 DEF Below
      <4> QED BY <1>8, <4>1, <4>2, <4>3 DEF Below
    <3> QED BY <1>1, <3>1, <3>2
  <2>2. voice'[j] = voice[j]
    BY <1>6, <1>8, <2>1, BelowIds
  <2> QED BY <2>1, <2>2, AlikeItself
<1> QED BY <1>7, <1>8

\* A step that frees voices, and sees no new one.
LEMMA FreeingPasses ==
    ASSUME IInv, NEW u \in 0..upper, upper' = u,
           \A i \in Below : voice'[i] = voice[i] \/ voice'[i] = Tidy(Freed(voice[i]))
    PROVE  Passed
<1> SUFFICES ASSUME NEW i \in 0..(u - 1)
             PROVE  i \in Below /\ (Silent(voice'[i]) \/ Alike(voice'[i], voice[i]))
  BY DEF Passed, Below
<1>1. i \in Below
  BY BelowIds DEF Below
<1>2. voice[i] \in Voice
  BY <1>1, BelowIds
<1> QED BY <1>1, <1>2, FreedSilent, AlikeItself

\* do_compute_data.
LEMMA MixBlockPasses ==
    ASSUME IInv, MixBlock
    PROVE  Passed
<1>1. PICK gone \in SUBSET Below :
        /\ voice' = [i \in VoiceIds |-> IF i \in gone THEN Tidy(Freed(voice[i])) ELSE voice[i]]
        /\ upper' \in Trims({i \in Below : Live(voice[i])} \ gone)
  BY DEF MixBlock
<1>2. PICK u \in 0..upper : upper' = u
  BY <1>1 DEF Trims
<1>3. \A i \in Below : voice'[i] = voice[i] \/ voice'[i] = Tidy(Freed(voice[i]))
  BY <1>1, BelowIds
<1> QED BY <1>2, <1>3, FreeingPasses

\* kill_note on the voice that reduce_voice chose.
LEMMA ThinKillPasses ==
    ASSUME IInv, ThinKill
    PROVE  Passed
<1>1. PICK i \in Steals : voice' = [voice EXCEPT ![i] = Tidy(Freed(@))]
  BY DEF ThinKill
<1>2. \A j \in Below : voice'[j] = voice[j] \/ voice'[j] = Tidy(Freed(voice[j]))
  BY <1>1, BelowIds
<1>3. upper \in 0..upper /\ upper' = upper
  BY BelowIds DEF ThinKill, sizeVars
<1> QED BY <1>2, <1>3, FreeingPasses

\* voice_increment.
LEMMA GrowPasses ==
    ASSUME IInv, NEW n, Grow(n), upper' = upper
    PROVE  Passed
<1>1. \A i \in Below : voice'[i] = voice[i] \/ voice'[i] = Tidy(Freed(voice[i]))
  BY BelowIds DEF Grow
<1>2. upper \in 0..upper
  BY BelowIds
<1> QED BY <1>1, <1>2, FreeingPasses

\* The last voice takes the place of a free one or of a victim, and is given up.
LEMMA VacatePasses ==
    ASSUME IInv, voices > 0, NEW spare, NEW victims, spare \subseteq VoiceIds,
           victims \subseteq VoiceIds, Vacate(spare, victims), Shrunk
    PROVE  Passed
<1> DEFINE last == voices - 1
<1>1. /\ voices \in 0..MaxVoices /\ upper \in 0..voices /\ MaxVoices \in Nat
      /\ last \in VoiceIds /\ voice \in [VoiceIds -> Voice]
  BY SizeNow DEF UpperVoices, VoiceIds
<1>2. PICK u \in 0..upper : upper' = u /\ u <= last
  BY <1>1 DEF Shrunk, Smaller
<1>3. \A i \in 0..(u - 1) : i \in Below /\ i # last /\ i \in VoiceIds
  BY <1>1, <1>2 DEF Below, VoiceIds
<1>4. Live(voice[last]) => last \in Below
  <2>1. upper < voices => voice[last].status = "free"
    BY <1>1 DEF IInv, UpperVoices
  <2> QED BY <2>1, <1>1 DEF Live, Below
<1>5. ASSUME NEW f \in [VoiceIds -> Voice], NEW j \in VoiceIds, Live(voice[last]),
             voice' = Swapped(f, j, last), f[last] = voice[last] \/ Silent(f[last]),
             \A i \in VoiceIds : i # j /\ i # last => f[i] = voice[i]
      PROVE  Passed
  <2> SUFFICES ASSUME NEW i \in 0..(u - 1)
               PROVE  Silent(voice'[i]) \/ \E h \in Below : Alike(voice'[i], voice[h])
    BY <1>2 DEF Passed, Below
  <2>1. i \in Below /\ i # last /\ i \in VoiceIds
    BY <1>3
  <2>2. CASE i = j
    <3>1. voice'[i] = f[last]
      BY <1>1, <1>5, <2>1, <2>2 DEF Swapped
    <3> QED BY <1>4, <1>5, <3>1, AlikeItself
  <2>3. CASE i # j
    <3>1. voice'[i] = voice[i]
      BY <1>1, <1>5, <2>1, <2>3 DEF Swapped
    <3> QED BY <2>1, <3>1, AlikeItself
  <2> QED BY <2>2, <2>3
<1>6. CASE voice' = voice
  BY <1>2, <1>6, StaysPasses
<1>7. ASSUME NEW j \in spare, Live(voice[last]), voice' = Swapped(voice, j, last)
      PROVE  Passed
  BY <1>1, <1>5, <1>7
<1>8. ASSUME NEW j \in victims, Live(voice[last]),
             voice' = Swapped([voice EXCEPT ![j] = Tidy(Freed(@))], j, last)
      PROVE  Passed
  <2> DEFINE f == [voice EXCEPT ![j] = Tidy(Freed(@))]
  <2>1. j \in VoiceIds
    BY <1>8
  <2>2. Tidy(Freed(voice[j])) \in Voice /\ Silent(Tidy(Freed(voice[j])))
    BY <2>1, <1>1, FreedVoice, FreedSilent
  <2>3. f \in [VoiceIds -> Voice]
    BY <2>2, <1>1
  <2>4. f[last] = voice[last] \/ Silent(f[last])
    BY <2>1, <2>2, <1>1
  <2>5. \A i \in VoiceIds : i # j /\ i # last => f[i] = voice[i]
    BY <1>1
  <2>6. voice' = Swapped(f, j, last)
    BY <1>8
  <2> HIDE DEF f
  <2> QED BY <1>5, <1>8, <2>1, <2>3, <2>4, <2>5, <2>6
<1> QED BY <1>6, <1>7, <1>8 DEF Vacate

\* One turn of voice_decrement.
LEMMA DropOnePasses ==
    ASSUME IInv, voices > 0, DropOne
    PROVE  Passed
<1> DEFINE spare == Spare(voices - 1)
           victims == {j \in 0..(voices - 1) : Decaying(j)}
<1>1. spare \subseteq VoiceIds /\ victims \subseteq VoiceIds
  BY SizeNow DEF Spare, VoiceIds
<1>2. Shrunk
  BY DEF DropOne
<1>3. CASE Vacate(spare, victims)
  <2> HIDE DEF spare, victims
  <2> QED BY <1>1, <1>2, <1>3, VacatePasses
<1>4. CASE voice' = voice
  <2>1. PICK u \in 0..upper : upper' = u
    BY <1>2, SizeNow DEF Shrunk, Smaller, UpperVoices
  <2> QED BY <1>4, <2>1, StaysPasses
<1> QED BY <1>3, <1>4 DEF DropOne

\* reset_voices.
LEMMA ResetVoicesPasses ==
    ASSUME ResetVoices
    PROVE  Passed /\ Below' = {}
<1>1. Below' = {}
  BY DEF ResetVoices, Below
<1> QED BY <1>1 DEF Passed

\* A handler that cuts the voices of a set.
LEMMA CutPasses ==
    ASSUME NEW v
    PROVE  Silent(Cut(v)) \/ Cut(v) = v
BY DEF Cut, Silent

\* all_sounds_off, and the end of a legato in reset_controllers.
LEMMA AllSoundsOffPasses ==
    ASSUME IInv, NEW c \in Channels, AllSoundsOff(c)
    PROVE  Passed /\ \A x \in Ringing' : x.ch # c
<1> DEFINE f == [i \in VoiceIds |-> IF voice[i].ch = c THEN Cut(voice[i]) ELSE voice[i]]
<1>1. upper' = upper
  BY DEF AllSoundsOff, sizeVars
<1>2. voice' = [i \in VoiceIds |-> IF i < upper THEN Tidy(f[i]) ELSE voice[i]]
  BY DEF AllSoundsOff, EachVoice
<1>3. ASSUME NEW i \in VoiceIds
      PROVE  /\ Silent(f[i]) \/ Alike(f[i], voice[i])
             /\ Rings(f[i]) => /\ Rings(voice[i]) /\ Number(f[i]) = Number(voice[i])
                               /\ Number(f[i]).ch # c
  <2>1. CASE voice[i].ch = c
    <3>1. f[i] = Cut(voice[i])
      BY <2>1
    <3>2. Silent(Cut(voice[i])) /\ ~Rings(Cut(voice[i]))
      <4>1. voice[i] \in Voice
        BY BelowIds
      <4> QED BY <4>1 DEF Cut, Silent, Live, Rings, Voice
    <3> QED BY <3>1, <3>2
  <2>2. CASE voice[i].ch # c
    BY <2>2, AlikeItself DEF Number
  <2> QED BY <2>1, <2>2
<1> HIDE DEF f
<1>4. Passed
  BY <1>1, <1>2, <1>3, LoopPasses
<1>5. ASSUME NEW x \in Ringing'
      PROVE  x.ch # c
  <2>1. PICK i \in Below : Rings(f[i]) /\ x = Number(f[i])
    BY <1>1, <1>2, <1>3, LoopRings
  <2> QED BY <1>3, <2>1, BelowIds
<1> QED BY <1>4, <1>5

LEMMA ResetControllersPasses ==
    ASSUME IInv, NEW c \in Channels, ResetControllers(c)
    PROVE  Passed
<1> DEFINE l == legato[c]
           f == [i \in VoiceIds |-> IF l.status /\ l.base # NoNote /\ voice[i].ch = c
                                       /\ voice[i].note = l.base
                                    THEN Cut(voice[i]) ELSE voice[i]]
<1>1. upper' = upper
  BY DEF ResetControllers, sizeVars
<1>2. voice' = [i \in VoiceIds |-> IF i < upper THEN Tidy(f[i]) ELSE voice[i]]
  BY DEF ResetControllers, EachVoice
<1>3. \A i \in VoiceIds : Silent(f[i]) \/ Alike(f[i], voice[i])
  BY CutPasses, AlikeItself
<1> HIDE DEF f
<1> QED BY <1>1, <1>2, <1>3, LoopPasses

\* kill_all_voices.
LEMMA KillAllPasses ==
    ASSUME IInv, KillAll, upper' = upper
    PROVE  Ringing' = {} /\ Passed /\ \A i \in Below' : voice'[i].status \in {"free", "die"}
<1> DEFINE f == [i \in VoiceIds |-> Cut(voice[i])]
<1>1. voice' = [i \in VoiceIds |-> IF i < upper THEN Tidy(f[i]) ELSE voice[i]]
  BY DEF KillAll, EachVoice
<1>2. \A i \in VoiceIds : f[i] \in Voice /\ f[i].status \in {"free", "die"}
  <2>1. ASSUME NEW i \in VoiceIds PROVE Cut(voice[i]).status \in {"free", "die"}
    <3>1. voice[i] \in Voice
      BY BelowIds
    <3> QED BY <3>1 DEF Cut, Live, Voice
  <2>2. \A i \in VoiceIds : voice[i] \in Voice
    BY BelowIds
  <2> QED BY <2>1, <2>2, VoiceSteps
<1> HIDE DEF f
<1>3. \A i \in Below' : voice'[i].status \in {"free", "die"}
  <2>1. Below' = Below
    BY DEF Below
  <2>2. ASSUME NEW i \in Below PROVE voice'[i].status \in {"free", "die"}
    <3>1. i \in VoiceIds /\ i < upper
      BY BelowIds
    <3>2. voice'[i] = Tidy(f[i])
      BY <1>1, <3>1
    <3> QED BY <1>2, <3>1, <3>2, VoiceSteps
  <2> QED BY <2>1, <2>2
<1>4. Passed
  BY <1>3 DEF Passed, Silent
<1>5. Ringing' = {}
  BY <1>3 DEF Ringing, RingingIds, Rings
<1> QED BY <1>3, <1>4, <1>5

-----------------------------------------------------------------------------
(* note_off, the pedals and all_notes_off.                                 *)

\* finish_note and the pedals quiet a voice or leave it as it is.
LEMMA HandlerRings ==
    ASSUME NEW v \in Voice, NEW c \in Channels, NEW s \in BOOLEAN
    PROVE  /\ ~Rings(Released(v, c)) /\ (Rings(Finished(v)) => Finished(v) = v)
           /\ Rings(Dropped(v, c)) => Dropped(v, c) = v
           /\ Rings(Redamped(v, c)) => Redamped(v, c) = v
           /\ Rings(Held(v, c, s)) => Rings(v) /\ Number(Held(v, c, s)) = Number(v)
<1>1. Rings(Finished(v)) => Finished(v) = v
  BY DEF Rings, Finished, Voice
<1>2. /\ ~Rings([v EXCEPT !.status = "sustained"])
      /\ v.kind = "release" => ~Rings([v EXCEPT !.status = "on"])
      /\ v.status = "pending" => ~Rings(v)
  BY DEF Rings, Voice
<1>3. v.kind # "plain" => ~Rings(Finished(v))
  BY DEF Rings, Finished, Voice
<1>4. ~Rings(Finished(v))
  BY DEF Rings, Finished, Voice
<1>5. ~Rings(Released(v, c))
  BY <1>2, <1>4 DEF Released
<1>6. /\ Rings(Dropped(v, c)) => Dropped(v, c) = v
      /\ Rings(Redamped(v, c)) => Redamped(v, c) = v
  BY <1>1, <1>2 DEF Dropped, Redamped
<1>7. Rings(Held(v, c, s)) => Rings(v) /\ Number(Held(v, c, s)) = Number(v)
  BY DEF Held, Rings, Number, Voice
<1> QED BY <1>1, <1>5, <1>6, <1>7

\* A note-off stops all the voices of the number it takes.
LEMMA NoteOffRings ==
    ASSUME IInv, NEW c \in Channels, NEW n \in Notes, NoteOff(c, n)
    PROVE  /\ Ringing' \subseteq Ringing
           /\ \/ Portamento
              \/ tail' = tail /\ (Deaf(c, n) \/ (Overlap /\ head[c][n] = tail[c][n]))
              \/ /\ IF Overlap THEN tail' = [tail EXCEPT ![c][n] = (@ + 1) % VidRange]
                               ELSE tail' = tail
                 /\ Overlap => head[c][n] # tail[c][n]
                 /\ \A x \in Ringing' : x.ch = c /\ x.note = n => x.vid # OffVid(c, n)
<1> DEFINE m == LegatoOff(c, n).note
           matches(v) == /\ v.status \in {"pending", "on"} /\ v.ch = c
                         /\ v.note = m /\ v.vid = OffVid(c, m)
           f == [i \in VoiceIds |-> IF matches(voice[i]) THEN Released(voice[i], c)
                                                         ELSE voice[i]]
           stop == LegatoOff(c, n).stop
           none == stop \/ NothingOn(c, m)
<1>1. upper' = upper
  BY DEF NoteOff, sizeVars
<1>2. /\ NothingOn(c, n) <=> Overlap /\ head[c][n] = tail[c][n]
      /\ LastVid(c, n) => tail' = IF Overlap
              THEN [tail EXCEPT ![c][n] = (@ + 1) % VidRange] ELSE tail
  BY OwnRow
<1>3. ~Portamento => m = n /\ stop = FALSE
  BY DEF LegatoOff
<1> HIDE DEF m, stop
<1>4. IF Deaf(c, n) \/ none
      THEN UNCHANGED <<voice, tail>>
      ELSE /\ LastVid(c, m)
           /\ voice' = EachVoice(LAMBDA v : IF matches(v) THEN Released(v, c) ELSE v)
  BY DEF NoteOff, Deaf, m, stop
<1>5. CASE Deaf(c, n) \/ none
  <2>1. Passed
    BY <1>1, <1>4, <1>5, StaysPasses, BelowIds
  <2> QED BY <1>2, <1>3, <1>4, <1>5, <2>1, PassedRings
<1>6. CASE ~(Deaf(c, n) \/ none)
  <2>1. voice' = [i \in VoiceIds |-> IF i < upper THEN Tidy(f[i]) ELSE voice[i]]
    BY <1>4, <1>6 DEF EachVoice
  <2>2. \A i \in VoiceIds : Rings(f[i]) => f[i] = voice[i] /\ ~matches(voice[i])
    BY HandlerRings, BelowIds
  <2> HIDE DEF f
  <2>3. ASSUME NEW x \in Ringing', x.ch = c, x.note = m
        PROVE  x.vid # OffVid(c, m)
    <3>1. PICK i \in Below : Rings(f[i]) /\ x = Number(f[i])
      BY <1>1, <2>1, <2>2, LoopRings
    <3>2. f[i] = voice[i] /\ ~matches(voice[i])
      BY <2>2, <3>1, BelowIds
    <3> QED BY <2>3, <3>1, <3>2 DEF Rings, Number
  <2>4. Ringing' \subseteq Ringing
    BY <1>1, <2>1, <2>2, LoopRings
  <2> QED BY <1>2, <1>3, <1>4, <1>6, <2>3, <2>4
<1> QED BY <1>5, <1>6

\* The pedals start nothing.
LEMMA SustainRings ==
    ASSUME IInv, NEW c \in Channels, NEW a \in PedalValues, Sustain(c, a)
    PROVE  Ringing' \subseteq Ringing
<1> DEFINE level == PedalLevel(c, a)
           redamps == c \in DamperMode /\ c \notin DrumChannels
                      /\ level # sustain[c] /\ level # 0
           drops == level = 0 /\ ~sostenuto[c]
           f == [i \in VoiceIds |-> IF redamps THEN Redamped(voice[i], c)
                                    ELSE IF drops THEN Dropped(voice[i], c) ELSE voice[i]]
<1>1. upper' = upper
  BY DEF Sustain, sizeVars
<1>2. voice' = [i \in VoiceIds |-> IF i < upper THEN Tidy(f[i]) ELSE voice[i]]
  BY DEF Sustain, EachVoice
<1> HIDE DEF redamps, drops
<1>3. \A i \in VoiceIds : Rings(f[i]) => f[i] = voice[i]
  BY HandlerRings, BelowIds
<1> HIDE DEF f
<1> QED BY <1>1, <1>2, <1>3, LoopRings

LEMMA SostenutoRings ==
    ASSUME IInv, NEW c \in Channels, NEW a \in PedalValues, Sostenuto(c, a)
    PROVE  Ringing' \subseteq Ringing
<1> DEFINE s == a >= 64
           drops == sustain[c] = 0 /\ ~s
           f == [i \in VoiceIds |-> IF drops THEN Dropped(Held(voice[i], c, s), c)
                                             ELSE Held(voice[i], c, s)]
<1>1. upper' = upper
  BY DEF Sostenuto, sizeVars
<1>2. voice' = [i \in VoiceIds |-> IF i < upper THEN Tidy(f[i]) ELSE voice[i]]
  BY DEF Sostenuto, EachVoice
<1>3. s \in BOOLEAN
  OBVIOUS
<1> HIDE DEF s, drops
<1>4. ASSUME NEW i \in VoiceIds, Rings(f[i])
      PROVE  Rings(voice[i]) /\ Number(f[i]) = Number(voice[i])
  <2>1. voice[i] \in Voice
    BY BelowIds
  <2>2. Held(voice[i], c, s) \in Voice
    BY <1>3, <2>1, HandlerTypes
  <2>3. f[i] = Held(voice[i], c, s)
    BY <1>4, <2>2, HandlerRings, <1>3
  <2> QED BY <1>3, <1>4, <2>1, <2>3, HandlerRings
<1> HIDE DEF f
<1> QED BY <1>1, <1>2, <1>4, LoopRings

\* all_notes_off stops every note of its channel.
LEMMA SilenceRings ==
    ASSUME IInv, NEW c \in Channels, SilenceNotes(c), upper' = upper
    PROVE  Ringing' \subseteq Ringing /\ \A x \in Ringing' : x.ch # c
<1> DEFINE f == [i \in VoiceIds |->
                   IF voice[i].status # "on" \/ voice[i].ch # c THEN voice[i]
                   ELSE IF sustain[c] # 0 THEN [voice[i] EXCEPT !.status = "sustained"]
                   ELSE Finished(voice[i])]
<1>1. voice' = [i \in VoiceIds |-> IF i < upper THEN Tidy(f[i]) ELSE voice[i]]
  BY DEF SilenceNotes, EachVoice
<1>2. ASSUME NEW i \in VoiceIds, Rings(f[i])
      PROVE  f[i] = voice[i] /\ voice[i].ch # c
  <2>1. voice[i] \in Voice
    BY BelowIds
  <2>2. ~Rings([voice[i] EXCEPT !.status = "sustained"])
    BY <2>1 DEF Rings, Voice
  <2>3. ~Rings(Finished(voice[i]))
    BY <2>1 DEF Rings, Finished, Voice
  <2>4. voice[i].status # "on" \/ voice[i].ch # c
    BY <1>2, <2>2, <2>3
  <2>5. f[i] = voice[i]
    BY <2>4
  <2> HIDE DEF f
  <2> QED BY <1>2, <2>4, <2>5 DEF Rings
<1> HIDE DEF f
<1>3. Ringing' \subseteq Ringing
  BY <1>1, <1>2, LoopRings
<1>4. ASSUME NEW x \in Ringing' PROVE x.ch # c
  <2>1. PICK i \in Below : Rings(f[i]) /\ x = Number(f[i])
    BY <1>1, <1>2, LoopRings
  <2> QED BY <1>2, <2>1, BelowIds DEF Number
<1> QED BY <1>3, <1>4

\* start_note: the voices of the list ring with the number that was next.
LEMMA StartNoteRings ==
    ASSUME IInv, StartNote
    PROVE  /\ call.ch \in Channels /\ call.note \in Notes /\ call.op = "note" /\ call'.op = "idle"
           /\ \/ Ringing' \subseteq Ringing /\ head' = head /\ Portamento
              \/ /\ NewVid(call.ch, call.note)
                 /\ Ringing' \subseteq Ringing \cup
                       {[ch |-> call.ch, note |-> call.note, vid |-> head[call.ch][call.note]]}
<1> DEFINE c == call.ch
           n == call.note
           new == [ch |-> c, note |-> n, vid |-> head[c][n]]
<1>1. /\ call.op = "note" /\ upper' = upper /\ call' = Idle
      /\ \/ LegatoGoesOn(c) /\ UNCHANGED <<voice, head>>
         \/ /\ NewVid(c, n)
            /\ voice' = [i \in VoiceIds |-> IF i \in call.vlist
                                            THEN Started(voice[i], c, n) ELSE voice[i]]
  BY DEF StartNote, sizeVars
<1>2. c \in Channels /\ n \in Notes
  BY <1>1 DEF IInv, TypeOK, Calls
<1>3. call'.op = "idle"
  BY <1>1 DEF Idle
<1>4. CASE LegatoGoesOn(c) /\ UNCHANGED <<voice, head>>
  <2>1. Passed
    BY <1>1, <1>4, StaysPasses, BelowIds
  <2> QED BY <1>1, <1>2, <1>3, <1>4, <2>1, PassedRings DEF LegatoGoesOn
<1>5. CASE /\ NewVid(c, n)
           /\ voice' = [i \in VoiceIds |-> IF i \in call.vlist
                                           THEN Started(voice[i], c, n) ELSE voice[i]]
  <2>1. ASSUME NEW x \in Ringing'
        PROVE  x \in Ringing \cup {new}
    <3>1. PICK i \in Below' : Rings(voice'[i]) /\ x = Number(voice'[i])
      BY <2>1 DEF Ringing, RingingIds, Rings, Number
    <3>2. i \in Below /\ i \in VoiceIds
      <4>1. Below' = Below
        BY <1>1 DEF Below
      <4> QED BY <3>1, <4>1, BelowIds
    <3>3. CASE i \in call.vlist
      <4>1. voice'[i] = Started(voice[i], c, n)
        BY <1>5, <3>2, <3>3
      <4>2. Number(Started(voice[i], c, n)) = new
        <5>1. voice[i] \in Voice
          BY <3>2, BelowIds
        <5> QED BY <5>1 DEF Started, Number, Voice
      <4> QED BY <3>1, <4>1, <4>2
    <3>4. CASE i \notin call.vlist
      <4>1. voice'[i] = voice[i]
        BY <1>5, <3>2, <3>4
      <4> QED BY <3>1, <3>2, <4>1 DEF Ringing, RingingIds
    <3> QED BY <3>3, <3>4
  <2> HIDE DEF new
  <2>2. Ringing' \subseteq Ringing \cup {new}
    BY <2>1
  <2> QED BY <1>1, <1>2, <1>3, <1>5, <2>2 DEF new
<1> QED BY <1>1, <1>4, <1>5

-----------------------------------------------------------------------------
(* One note at a time.                                                     *)

\* A step other than note_on's two and note_off: nothing rings that did not,
\* and the counters of a channel stay or are emptied with its notes.
KeepsKeys(c) == /\ head'[c] = head[c] /\ tail'[c] = tail[c] /\ down'[c] = down[c]
                /\ mono'[c] => mono[c]
EmptiesKeys(c) == /\ head'[c] = NoVid[c] /\ tail'[c] = NoVid[c] /\ down'[c] = NoKeys[c]
                  /\ (\A x \in Ringing' : x.ch # c) /\ call'.op # "note"
Stills ==
    /\ Ringing' \subseteq Ringing
    /\ call'.op = "note" => call.op = "note" /\ call'.ch = call.ch /\ call'.note = call.note
    /\ \A c \in Channels : KeepsKeys(c) \/ EmptiesKeys(c)

\* What all_notes_off, all_sounds_off and the mode messages do to vidq.
LEMMA ForgetStills ==
    ASSUME IInv, NEW c \in Channels, ForgetKeys(c), Ringing' \subseteq Ringing,
           \A x \in Ringing' : x.ch # c, call'.op = "idle",
           \A d \in Channels : d # c => mono'[d] = mono[d]
    PROVE  Stills
<1>1. \A d \in Channels : IF d = c THEN EmptiesKeys(d) ELSE KeepsKeys(d)
  BY DEF ForgetKeys, IInv, TypeOK, Vids, EmptiesKeys, KeepsKeys
<1> QED BY <1>1 DEF Stills

LEMMA KeepStills ==
    ASSUME Passed \/ Ringing' \subseteq Ringing, UNCHANGED <<queueVars, mono, down>>,
           call'.op = "note" => call.op = "note" /\ call'.ch = call.ch /\ call'.note = call.note
    PROVE  Stills
BY PassedRings DEF Stills, KeepsKeys, queueVars

LEMMA EmptyStills ==
    ASSUME Ringing' = {}, call'.op = "idle", head' = NoVid, tail' = NoVid, down' = NoKeys
    PROVE  Stills
BY DEF Stills, EmptiesKeys

LEMMA ControlStills ==
    ASSUME IInv, ControlEvent
    PROVE  Stills
<1>1. PICK c \in Channels :
         \/ \E a \in PedalValues : Sustain(c, a) \/ Sostenuto(c, a)
         \/ LegatoControl(c) \/ \E b \in BOOLEAN : Mono(c, b)
         \/ ResetControllers(c) \/ AllNotesOff(c) \/ AllSoundsOff(c)
  BY DEF ControlEvent
<1>2. CASE \E a \in PedalValues : Sustain(c, a) \/ Sostenuto(c, a)
  <2>1. Ringing' \subseteq Ringing
    BY <1>2, SustainRings, SostenutoRings
  <2>2. UNCHANGED <<queueVars, mono, down, call>>
    BY <1>2 DEF Sustain, Sostenuto, ghostVars
  <2> QED BY <2>1, <2>2, KeepStills
<1>3. CASE LegatoControl(c)
  <2>1. UNCHANGED <<queueVars, mono, down, call>> /\ voice' = voice /\ upper' = upper
    BY <1>3, LegatoControlSets DEF ghostVars, sizeVars
  <2>2. Passed
    BY <2>1, StaysPasses, BelowIds
  <2> QED BY <2>1, <2>2, KeepStills
<1>4. CASE \/ AllNotesOff(c)
           \/ \E b \in BOOLEAN : Mono(c, b)
  <2>1. /\ SilenceNotes(c) /\ ForgetKeys(c) /\ upper' = upper /\ call' = call /\ call = Idle
        /\ \A d \in Channels : d # c => mono'[d] = mono[d]
    BY <1>4 DEF AllNotesOff, Mono, sizeVars, chanVars, IInv, TypeOK
  <2>2. call'.op = "idle"
    BY <2>1 DEF Idle
  <2> QED BY <2>1, <2>2, SilenceRings, ForgetStills
<1>5. CASE AllSoundsOff(c)
  <2>1. ForgetKeys(c) /\ call' = call /\ call = Idle /\ mono' = mono
    BY <1>5 DEF AllSoundsOff, chanVars
  <2>2. call'.op = "idle"
    BY <2>1 DEF Idle
  <2> QED BY <1>5, <2>1, <2>2, AllSoundsOffPasses, PassedRings, ForgetStills
<1>6. CASE ResetControllers(c)
  <2>1. UNCHANGED <<queueVars, mono, down, call>>
    BY <1>6 DEF ResetControllers
  <2> QED BY <1>6, <2>1, ResetControllersPasses, KeepStills
<1> QED BY <1>1, <1>2, <1>3, <1>4, <1>5, <1>6

\* The polyphony control starts nothing.
LEMMA PolyphonyPasses ==
    ASSUME IInv, Polyphony
    PROVE  /\ Passed /\ call'.op # "note"
           /\ UNCHANGED <<queueVars, chanVars, ghostVars>> \/ (ResetVoices /\ call'.op = "idle")
<1>1. ASSUME NEW d \in (0 - MaxStep)..MaxStep, PressVoices(d)
      PROVE  Passed /\ call'.op # "note" /\ UNCHANGED <<queueVars, chanVars, ghostVars>>
  BY <1>1, StaysPasses, BelowIds DEF PressVoices, sizeVars
<1>2. ASSUME Drain
      PROVE  Passed /\ call'.op # "note" /\ UNCHANGED <<queueVars, chanVars, ghostVars>>
  <2>1. PICK x, y : call' = [op |-> "thin", kill |-> x, target |-> y]
    BY <1>2 DEF Drain
  <2>2. UNCHANGED <<voice, sizeVars, queueVars, chanVars, ghostVars>>
    BY <1>2 DEF Drain
  <2> QED BY <2>1, <2>2, StaysPasses, BelowIds DEF sizeVars
<1>3. ASSUME Restore
      PROVE  Passed /\ call'.op # "note" /\ UNCHANGED <<queueVars, chanVars, ghostVars>>
  <2>1. /\ call' = call /\ call.op = "restore"
        /\ UNCHANGED <<queueVars, chanVars, ghostVars>> /\ voices # oldVoices
        /\ IF voices < oldVoices THEN Grow(oldVoices - voices) /\ UNCHANGED upper ELSE DropOne
    BY <1>3 DEF Restore
  <2>2. CASE voices < oldVoices
    BY <2>1, <2>2, GrowPasses
  <2>3. CASE ~(voices < oldVoices)
    <3>1. voices > 0
      BY <2>1, <2>3, SizeNow
    <3> QED BY <2>1, <2>3, <3>1, DropOnePasses
  <2> QED BY <2>1, <2>2, <2>3
<1>4. ASSUME Resize
      PROVE  /\ Passed /\ call'.op # "note"
             /\ UNCHANGED <<queueVars, chanVars, ghostVars>> \/ (ResetVoices /\ call'.op = "idle")
  <2> DEFINE d == call.delta
  <2>1. CASE ResetVoices /\ call' = Idle
    BY <2>1, ResetVoicesPasses DEF Idle
  <2>2. CASE Grow(d) /\ call' = Idle /\ UNCHANGED <<upper, queueVars, chanVars, ghostVars>>
    <3> HIDE DEF d
    <3> QED BY <2>2, GrowPasses DEF Idle
  <2>3. CASE /\ call' = [op |-> "drop", left |-> 0 - d]
             /\ UNCHANGED <<voice, sizeVars, queueVars, chanVars, ghostVars>>
    BY <2>3, StaysPasses, BelowIds DEF sizeVars
  <2> QED BY <1>4, <2>1, <2>2, <2>3 DEF Resize
<1>5. ASSUME Drop
      PROVE  Passed /\ call'.op # "note" /\ UNCHANGED <<queueVars, chanVars, ghostVars>>
  <2>1. /\ UNCHANGED <<queueVars, chanVars, ghostVars>>
        /\ call \in [op : {"drop"}, left : 0..MaxStep]
    BY <1>5, SizeNow DEF Drop, Calls
  <2>2. CASE DropOne /\ voices > 0 /\ call' = [call EXCEPT !.left = @ - 1]
    BY <2>1, <2>2, DropOnePasses
  <2>3. CASE call' = Idle /\ UNCHANGED <<voice, voices, upper>>
    BY <2>1, <2>3, StaysPasses, BelowIds DEF Idle
  <2> QED BY <1>5, <2>2, <2>3 DEF Drop
<1>6. ASSUME ThinKill
      PROVE  Passed /\ call'.op # "note" /\ UNCHANGED <<queueVars, chanVars, ghostVars>>
  <2>1. /\ call' = [call EXCEPT !.kill = @ - 1]
        /\ UNCHANGED <<queueVars, chanVars, ghostVars>>
        /\ call \in [op : {"thin"}, kill : 0..MaxVoices, target : 0..MaxVoices]
    BY <1>6, SizeNow DEF ThinKill, Calls
  <2> QED BY <1>6, <2>1, ThinKillPasses
<1>7. ASSUME ThinResize
      PROVE  Passed /\ call'.op # "note" /\ UNCHANGED <<queueVars, chanVars, ghostVars>>
  <2> DEFINE t == call.target
             spare == Spare(t)
             victims == {j \in 0..(voices - 1) : Decaying(j) /\ ~Drum(voice[j])}
  <2>1. /\ UNCHANGED <<queueVars, chanVars, ghostVars>>
        /\ call \in [op : {"thin"}, kill : 0..MaxVoices, target : 0..MaxVoices]
    BY <1>7, SizeNow DEF ThinResize, Calls
  <2>2. CASE Grow(t - voices) /\ UNCHANGED <<upper, call>>
    <3> HIDE DEF t
    <3> QED BY <2>1, <2>2, GrowPasses
  <2>3. CASE t < voices /\ Vacate(spare, victims) /\ Shrunk /\ UNCHANGED call
    <3>1. t \in 0..MaxVoices /\ spare \subseteq VoiceIds /\ victims \subseteq VoiceIds
      BY <2>1, SizeNow DEF Spare, VoiceIds
    <3> HIDE DEF t, spare, victims
    <3>2. voices > 0
      BY <2>3, <3>1, SizeNow
    <3> QED BY <2>1, <2>3, <3>1, <3>2, VacatePasses
  <2>4. CASE call' = [call EXCEPT !.target = voices] /\ UNCHANGED <<voice, voices, upper>>
    BY <2>1, <2>4, StaysPasses, BelowIds
  <2> QED BY <1>7, <2>2, <2>3, <2>4 DEF ThinResize
<1>8. ASSUME ThinDone
      PROVE  Passed /\ call'.op # "note" /\ UNCHANGED <<queueVars, chanVars, ghostVars>>
  <2>1. PICK u \in 0..upper : upper' = u
    BY <1>8 DEF ThinDone, Trims
  <2>2. voice' = voice /\ call' = Idle /\ UNCHANGED <<queueVars, chanVars, ghostVars>>
    BY <1>8 DEF ThinDone
  <2> QED BY <2>1, <2>2, StaysPasses DEF Idle
<1> QED BY <1>1, <1>2, <1>3, <1>4, <1>5, <1>6, <1>7, <1>8 DEF Polyphony

\* Every step but note_on's two and note_off.
LEMMA OtherStills ==
    ASSUME IInv, ControlEvent \/ ChangeKey \/ ResetMidi \/ FindSample \/ MixBlock \/ Polyphony
                 \/ UNCHANGED vars
    PROVE  Stills
<1>1. CASE ChangeKey \/ ResetMidi
  <2>1. KillAll /\ upper' = upper /\ call' = call /\ call = Idle
    BY <1>1 DEF ChangeKey, ResetMidi, sizeVars
  <2>2. Ringing' = {} /\ call'.op = "idle"
    BY <2>1, KillAllPasses DEF Idle
  <2> QED BY <2>1, <2>2, EmptyStills DEF KillAll
<1>2. CASE FindSample
  <2>1. /\ call \in [op : {"note"}, ch : Channels, note : Notes, todo : 0..MaxLayers,
                     vlist : SUBSET VoiceIds]
        /\ \E i \in FoundVoice : call' = [call EXCEPT !.todo = @ - 1, !.vlist = @ \cup {i}]
        /\ UNCHANGED <<queueVars, mono, down>>
    BY <1>2, SizeNow DEF FindSample, Calls, chanVars, ghostVars
  <2>2. call.op = "note" /\ call'.ch = call.ch /\ call'.note = call.note
    BY <2>1
  <2> QED BY <1>2, <2>1, <2>2, FindSamplePasses, KeepStills
<1>3. CASE MixBlock
  <2>1. UNCHANGED <<queueVars, mono, down, call>>
    BY <1>3 DEF MixBlock, chanVars, ghostVars
  <2> QED BY <1>3, <2>1, MixBlockPasses, KeepStills
<1>4. CASE Polyphony
  <2>1. CASE ResetVoices /\ call'.op = "idle"
    <3>1. Ringing' = {}
      BY <2>1, ResetVoicesPasses DEF Ringing, RingingIds
    <3> QED BY <2>1, <3>1, EmptyStills DEF ResetVoices
  <2>2. CASE Passed /\ call'.op # "note" /\ UNCHANGED <<queueVars, chanVars, ghostVars>>
    BY <2>2, KeepStills DEF chanVars, ghostVars
  <2> QED BY <1>4, <2>1, <2>2, PolyphonyPasses
<1>5. CASE UNCHANGED vars
  <2>1. UNCHANGED <<queueVars, mono, down, call>> /\ voice' = voice /\ upper' = upper
    BY <1>5 DEF vars, sizeVars, chanVars, ghostVars
  <2> QED BY <2>1, StaysPasses, BelowIds, KeepStills
<1> QED BY <1>1, <1>2, <1>3, <1>4, <1>5, ControlStills

LEMMA StillsAlone ==
    ASSUME NEW c \in Channels, NEW S, Alone(c, S), Stills
    PROVE  Alone(c, S)'
BY DEF Stills, Alone

LEMMA EmptiedAlone ==
    ASSUME NEW c \in Channels, NEW S, EmptiesKeys(c)
    PROVE  Alone(c, S)'
BY DEF EmptiesKeys, Alone

\* find_altassign finds a group in which both keys are, if there is one: the
\* search for the second key starts at the first group of the first.
LEMMA SameGroup ==
    ASSUME NEW g \in DOMAIN AltGroups, NEW n \in AltGroups[g], NEW m \in AltGroups[g]
    PROVE  AlternateOf(n, m)
<1> DEFINE T == {f \in DOMAIN AltGroups : n \in AltGroups[f]}
<1>1. Len(AltGroups) \in Nat /\ DOMAIN AltGroups = 1..Len(AltGroups)
  BY GroupsAssumption
<1>2. T \subseteq Nat /\ g \in T
  BY <1>1
<1>3. PICK f \in T : \A h \in T : <<h, f>> \notin OpToRel(<, Nat)
  <2> HIDE DEF T
  <2> QED BY <1>2, NatLessThanWellFounded, WFMin
<1>4. \A h \in T : ~(h < f)
  BY <1>2, <1>3 DEF OpToRel
<1>5. f \in DOMAIN AltGroups /\ n \in AltGroups[f] /\ f \in 1..Len(AltGroups)
  BY <1>1
<1>6. \A h \in 1..(f - 1) : n \notin AltGroups[h]
  BY <1>1, <1>4, <1>5
<1>7. g \in f..Len(AltGroups)
  BY <1>1, <1>2, <1>4, <1>5
<1> QED BY <1>5, <1>6, <1>7 DEF AlternateOf

\* A note-on of a key of S when nothing else of S is left ringing.
LEMMA NoteOnAlone ==
    ASSUME IInv, NEW c \in Channels, NEW S, Alone(c, S),
           NEW d \in Channels, NEW n \in Notes, NoteOn(d, n),
           d = c /\ n \in S => mono[c] \/ (c \in DrumChannels /\ \A m \in S : AlternateOf(n, m))
    PROVE  Alone(c, S)'
<1>1. /\ Ringing' \subseteq Ringing
      /\ call'.op = "note" =>
            /\ call'.ch = d /\ call'.note = n
            /\ \A x \in Ringing' : x.ch = d => ~mono[d] /\ ~Alternate(d, n, x.note)
  BY NoteOnPasses, PassedRings
<1>2. ASSUME call'.op = "note", call'.ch = c, call'.note \in S, NEW x \in Ringing',
             x.ch = c, x.note \in S
      PROVE  FALSE
  BY <1>1, <1>2 DEF Alternate
<1> QED BY <1>1, <1>2 DEF Alone

LEMMA StartNoteAlone ==
    ASSUME IInv, NEW c \in Channels, NEW S, Alone(c, S), StartNote
    PROVE  Alone(c, S)'
<1> DEFINE new == [ch |-> call.ch, note |-> call.note, vid |-> head[call.ch][call.note]]
<1>1. call.op = "note" /\ call'.op = "idle" /\ Ringing' \subseteq Ringing \cup {new}
  BY StartNoteRings
<1>2. new.ch = call.ch /\ new.note = call.note
  OBVIOUS
<1> HIDE DEF new
<1>3. ASSUME NEW x \in Ringing', NEW y \in Ringing', x.ch = c, y.ch = c, x.note \in S, y.note \in S
      PROVE  x = y
  <2>1. x \in Ringing \/ x = new
    BY <1>1
  <2>2. y \in Ringing \/ y = new
    BY <1>1
  <2>3. ~(x \in Ringing /\ y = new) /\ ~(y \in Ringing /\ x = new)
    BY <1>1, <1>2, <1>3 DEF Alone
  <2> QED BY <1>3, <2>1, <2>2, <2>3 DEF Alone
<1> QED BY <1>1, <1>3 DEF Alone

NoteOffs == \E c \in Channels, n \in Notes : NoteOff(c, n)
NoteOns == \E c \in Channels, n \in Notes : NoteOn(c, n)

\* The steps by what they do to the notes that ring.
LEMMA StepKinds ==
    ASSUME IInv, [Next]_vars
    PROVE  Stills \/ NoteOns \/ NoteOffs \/ StartNote
BY OtherStills DEF Next, KeyEvent, Allocation, NoteOffs, NoteOns

LEMMA NoteOffAlone ==
    ASSUME IInv, NEW c \in Channels, NEW S, Alone(c, S), NoteOffs
    PROVE  Alone(c, S)'
<1>1. PICK d \in Channels, n \in Notes : NoteOff(d, n)
  BY DEF NoteOffs
<1>2. Ringing' \subseteq Ringing
  BY <1>1, NoteOffRings
<1>3. call' = call /\ call = Idle
  BY <1>1 DEF NoteOff
<1> QED BY <1>2, <1>3 DEF Alone, Idle

OneSounds == MonoAlone /\ GroupAlone

LEMMA InitRinging == Init => Ringing = {} /\ call.op = "idle" /\ Below = {}
BY DEF Init, Ringing, RingingIds, Below, Idle

LEMMA InitOneSounds == Init => OneSounds
BY InitRinging DEF OneSounds, MonoAlone, GroupAlone, Alone

LEMMA NextOneSounds == IInv /\ OneSounds /\ [Next]_vars => OneSounds'
<1> SUFFICES ASSUME IInv, MonoAlone, GroupAlone, [Next]_vars PROVE MonoAlone' /\ GroupAlone'
  BY DEF OneSounds
<1>1. CASE Stills
  <2>1. ASSUME NEW c \in Channels, mono'[c] PROVE Alone(c, Notes \cup {0})'
    <3>1. CASE EmptiesKeys(c)
      BY <3>1, EmptiedAlone
    <3>2. CASE KeepsKeys(c)
      <4>1. mono[c]
        BY <2>1, <3>2 DEF KeepsKeys
      <4>2. Alone(c, Notes \cup {0})
        BY <4>1 DEF MonoAlone
      <4> QED BY <1>1, <4>2, StillsAlone
    <3> QED BY <1>1, <3>1, <3>2 DEF Stills
  <2>2. ASSUME NEW c \in DrumChannels, NEW g \in DOMAIN AltGroups PROVE Alone(c, AltGroups[g])'
    <3>1. c \in Channels /\ Alone(c, AltGroups[g])
      BY VoicesAssumption DEF GroupAlone
    <3> QED BY <1>1, <3>1, StillsAlone
  <2> QED BY <2>1, <2>2 DEF MonoAlone, GroupAlone
<1>2. CASE NoteOns
  <2>1. PICK d \in Channels, n \in Notes : NoteOn(d, n)
    BY <1>2 DEF NoteOns
  <2>2. mono' = mono
    BY <2>1 DEF NoteOn, chanVars
  <2>3. ASSUME NEW c \in Channels, mono[c] PROVE Alone(c, Notes \cup {0})'
    <3>1. Alone(c, Notes \cup {0})
      BY <2>3 DEF MonoAlone
    <3> QED BY <2>1, <2>3, <3>1, NoteOnAlone
  <2>4. ASSUME NEW c \in DrumChannels, NEW g \in DOMAIN AltGroups PROVE Alone(c, AltGroups[g])'
    <3>1. c \in Channels /\ Alone(c, AltGroups[g])
      BY VoicesAssumption DEF GroupAlone
    <3>2. n \in AltGroups[g] => \A m \in AltGroups[g] : AlternateOf(n, m)
      BY SameGroup
    <3> QED BY <2>1, <3>1, <3>2, NoteOnAlone
  <2> QED BY <2>2, <2>3, <2>4 DEF MonoAlone, GroupAlone
<1>3. CASE NoteOffs \/ StartNote
  <2>1. mono' = mono
    BY <1>3 DEF NoteOffs, NoteOff, StartNote
  <2>2. ASSUME NEW c \in Channels, mono[c] PROVE Alone(c, Notes \cup {0})'
    <3>1. Alone(c, Notes \cup {0})
      BY <2>2 DEF MonoAlone
    <3> QED BY <1>3, <3>1, NoteOffAlone, StartNoteAlone
  <2>3. ASSUME NEW c \in DrumChannels, NEW g \in DOMAIN AltGroups PROVE Alone(c, AltGroups[g])'
    <3>1. c \in Channels /\ Alone(c, AltGroups[g])
      BY VoicesAssumption DEF GroupAlone
    <3> QED BY <1>3, <3>1, NoteOffAlone, StartNoteAlone
  <2> QED BY <2>1, <2>2, <2>3 DEF MonoAlone, GroupAlone
<1> QED BY <1>1, <1>2, <1>3, StepKinds

\* A sounding voice is one that rings.
LEMMA SoundingRings ==
    ASSUME NEW c, NEW i \in Sounding(c)
    PROVE  /\ i \in Below /\ Number(voice[i]) \in Ringing
           /\ Number(voice[i]).ch = c /\ Number(voice[i]).note = voice[i].note
           /\ Number(voice[i]).vid = voice[i].vid
<1>1. i \in RingingIds /\ voice[i].ch = c
  BY DEF Sounding, RingingIds, Rings
<1> QED BY <1>1 DEF Ringing, RingingIds, Number

\* In mono mode at most one note of a channel is on, whatever was playing when the
\* mode changed (ME_MONO's all_notes_off, voice_control).
THEOREM MonoAlwaysOne == Spec => []MonoPlaysOne
<1>1. IInv /\ OneSounds => MonoPlaysOne
  <2> SUFFICES ASSUME IInv, OneSounds, NEW c \in Channels, mono[c],
                      NEW i \in Sounding(c), NEW j \in Sounding(c)
               PROVE  voice[i].note = voice[j].note /\ voice[i].vid = voice[j].vid
    BY DEF MonoPlaysOne
  <2> DEFINE x == Number(voice[i])
             y == Number(voice[j])
  <2>1. /\ x \in Ringing /\ y \in Ringing /\ x.ch = c /\ y.ch = c
        /\ x.note = voice[i].note /\ x.vid = voice[i].vid
        /\ y.note = voice[j].note /\ y.vid = voice[j].vid
    BY SoundingRings
  <2>2. voice[i].note \in Notes \cup {0} /\ voice[j].note \in Notes \cup {0}
    <3>1. voice[i] \in Voice /\ voice[j] \in Voice
      BY SoundingRings, BelowIds
    <3> QED BY <3>1 DEF Voice
  <2>3. Alone(c, Notes \cup {0})
    BY DEF OneSounds, MonoAlone
  <2> HIDE DEF x, y
  <2>4. x = y
    BY <2>1, <2>2, <2>3 DEF Alone
  <2> QED BY <2>1, <2>4
<1> QED BY <1>1, AlwaysIInv, InitOneSounds, NextOneSounds, PTL DEF Spec

\* Of the keys of one altassign group at most one note is on, whichever of the
\* groups of a key find_altassign comes to first.
THEOREM GroupAlwaysOne == Spec => []GroupPlaysOne
<1>1. IInv /\ OneSounds => GroupPlaysOne
  <2> SUFFICES ASSUME IInv, OneSounds, NEW c \in DrumChannels, NEW g \in DOMAIN AltGroups,
                      NEW i \in Sounding(c), NEW j \in Sounding(c),
                      {voice[i].note, voice[j].note} \subseteq AltGroups[g]
               PROVE  voice[i].note = voice[j].note /\ voice[i].vid = voice[j].vid
    BY DEF GroupPlaysOne
  <2> DEFINE x == Number(voice[i])
             y == Number(voice[j])
  <2>1. /\ x \in Ringing /\ y \in Ringing /\ x.ch = c /\ y.ch = c
        /\ x.note = voice[i].note /\ x.vid = voice[i].vid
        /\ y.note = voice[j].note /\ y.vid = voice[j].vid
    BY SoundingRings
  <2>2. Alone(c, AltGroups[g])
    BY DEF OneSounds, GroupAlone
  <2> HIDE DEF x, y
  <2>3. x = y
    BY <2>1, <2>2 DEF Alone
  <2> QED BY <2>1, <2>3
<1> QED BY <1>1, AlwaysIInv, InitOneSounds, NextOneSounds, PTL DEF Spec

-----------------------------------------------------------------------------
(* A note-off for every note-on.                                           *)

\* The numbers of a key, as the counters go round.
VidNumber == 0..(VidRange - 1)
LEMMA BehindStep ==
    ASSUME NEW t \in VidNumber, NEW x \in VidNumber
    PROVE  /\ Behind(t, x) \in Nat /\ (t + 1) % VidRange \in VidNumber
           /\ Behind(t, x) = 0 => t = x
           /\ Behind(t, x) < VidRange - 1 => Behind(t, (x + 1) % VidRange) = Behind(t, x) + 1
           /\ t # x => Behind((t + 1) % VidRange, x) = Behind(t, x) - 1
           /\ Behind(t, t) = 0
<1>1. VidRange \in Nat \ {0} /\ t \in 0..(VidRange - 1) /\ x \in 0..(VidRange - 1)
  BY VoicesAssumption DEF VidNumber
<1>2. ASSUME NEW y \in 0..(VidRange - 1)
      PROVE  (y + 1) % VidRange = IF y = VidRange - 1 THEN 0 ELSE y + 1
  BY <1>1, <1>2
<1>3. (t + 1) % VidRange = IF t = VidRange - 1 THEN 0 ELSE t + 1
  BY <1>1, <1>2
<1>4. (x + 1) % VidRange = IF x = VidRange - 1 THEN 0 ELSE x + 1
  BY <1>1, <1>2
<1> QED BY <1>1, <1>3, <1>4 DEF Behind, VidNumber

LEMMA HeldStep ==
    ASSUME NEW d \in 0..MaxHeld
    PROVE  d \in Nat /\ d < VidRange
BY VoicesAssumption

LEMMA PairType ==
    ASSUME IInv, NEW c \in Channels, NEW n \in Notes
    PROVE  /\ head[c][n] \in VidNumber /\ tail[c][n] \in VidNumber /\ down[c][n] \in 0..MaxHeld
           /\ VidsOf(c, n) \subseteq VidNumber
<1>1. /\ head[c][n] \in VidNumber /\ tail[c][n] \in VidNumber /\ down[c][n] \in 0..MaxHeld
  BY DEF IInv, TypeOK, Vids, VidNumber
<1>2. ASSUME NEW x \in Ringing PROVE x.vid \in VidNumber
  <2>1. PICK i \in RingingIds : x = Number(voice[i])
    BY <1>2 DEF Ringing
  <2>2. voice[i] \in Voice
    BY <2>1, BelowIds DEF RingingIds
  <2> QED BY <2>1, <2>2 DEF Number, Voice, VidNumber
<1> QED BY <1>1, <1>2 DEF VidsOf

\* A note-on counts the key down, one note-on coming.
LEMMA PairNoteOn ==
    ASSUME NEW h \in VidNumber, NEW t \in VidNumber, NEW d \in 0..MaxHeld, NEW V \in SUBSET VidNumber,
           PairOK(h, t, d, FALSE, V), NEW W \in SUBSET V, NEW b \in BOOLEAN
    PROVE  PairOK(h, t, d + 1, b, W)
<1>1. Behind(t, h) \in Nat /\ d \in Nat /\ d + 1 > 0
  BY BehindStep, HeldStep
<1>2. CASE Overlap
  <2>1. Behind(t, h) <= d /\ \A x \in W : Behind(t, x) < Behind(t, h)
    BY <1>1, <1>2 DEF PairOK
  <2> HIDE DEF Behind
  <2>2. Behind(t, h) + (IF b THEN 1 ELSE 0) <= d + 1
    BY <1>1, <2>1
  <2> QED BY <1>2, <2>1, <2>2 DEF PairOK
<1>3. CASE ~Overlap
  BY <1>1, <1>3 DEF PairOK
<1> QED BY <1>2, <1>3

\* new_vidq gives the note a number that no note-off has taken.
LEMMA PairStart ==
    ASSUME NEW h \in VidNumber, NEW t \in VidNumber, NEW d \in 0..MaxHeld, NEW V \in SUBSET VidNumber,
           PairOK(h, t, d, TRUE, V), NEW k,
           k = IF Overlap THEN (h + 1) % VidRange ELSE h,
           NEW W \in SUBSET (V \cup {h})
    PROVE  PairOK(k, t, d, FALSE, W)
<1>1. /\ Behind(t, h) \in Nat /\ d \in Nat /\ d < VidRange
      /\ \A x \in V : Behind(t, x) \in Nat
  BY BehindStep, HeldStep
<1>2. CASE Overlap
  <2>1. Behind(t, h) + 1 <= d /\ \A x \in V : Behind(t, x) < Behind(t, h)
    BY <1>2 DEF PairOK
  <2>2. Behind(t, h) < VidRange - 1
    BY <1>1, <2>1, VoicesAssumption
  <2>3. Behind(t, k) = Behind(t, h) + 1
    BY <1>2, <2>2, BehindStep
  <2>4. ASSUME NEW x \in W PROVE Behind(t, x) < Behind(t, k)
    <3>1. CASE x = h
      BY <1>1, <2>3, <3>1
    <3>2. CASE x \in V
      BY <1>1, <2>1, <2>3, <3>2
    <3> QED BY <3>1, <3>2
  <2>5. Behind(t, k) + 0 <= d
    BY <1>1, <2>1, <2>3
  <2> HIDE DEF Behind
  <2> QED BY <1>2, <2>4, <2>5 DEF PairOK
<1>3. CASE ~Overlap
  BY <1>1, <1>3 DEF PairOK
<1> QED BY <1>2, <1>3

\* last_vidq: the note-off takes the oldest number, and its voices stop.
LEMMA PairOff ==
    ASSUME NEW h \in VidNumber, NEW t \in VidNumber, NEW d \in 0..MaxHeld, NEW V \in SUBSET VidNumber,
           PairOK(h, t, d, FALSE, V), Overlap => h # t, NEW k,
           k = IF Overlap THEN (t + 1) % VidRange ELSE t,
           NEW W \in SUBSET V, \A x \in W : x # IF Overlap THEN t ELSE 0
    PROVE  PairOK(h, k, IF d = 0 THEN 0 ELSE d - 1, FALSE, W)
<1>1. /\ Behind(t, h) \in Nat /\ d \in Nat
      /\ \A x \in V : Behind(t, x) \in Nat
  BY BehindStep, HeldStep
<1>2. CASE Overlap
  <2>1. Behind(t, h) <= d /\ \A x \in V : Behind(t, x) < Behind(t, h)
    BY <1>1, <1>2 DEF PairOK
  <2>2. Behind(t, h) # 0
    BY <1>2, BehindStep
  <2>3. Behind(k, h) = Behind(t, h) - 1
    BY <1>2, BehindStep
  <2>4. ASSUME NEW x \in W PROVE Behind(k, x) < Behind(k, h)
    <3>1. Behind(k, x) = Behind(t, x) - 1
      BY <1>2, BehindStep
    <3> QED BY <1>1, <2>1, <2>3, <3>1
  <2>5. Behind(k, h) + 0 <= IF d = 0 THEN 0 ELSE d - 1
    BY <1>1, <2>1, <2>2, <2>3
  <2> HIDE DEF Behind
  <2> QED BY <1>2, <2>4, <2>5 DEF PairOK
<1>3. CASE ~Overlap
  <2>1. W = {} /\ h = 0
    BY <1>3 DEF PairOK
  <2> QED BY <1>3, <2>1 DEF PairOK
<1> QED BY <1>2, <1>3

\* A note-off that last_vidq refuses: no note of the key is owed one.
LEMMA PairNone ==
    ASSUME NEW h \in VidNumber, NEW d \in 0..MaxHeld, NEW V \in SUBSET VidNumber,
           Overlap, PairOK(h, h, d, FALSE, V), NEW W \in SUBSET V
    PROVE  PairOK(h, h, IF d = 0 THEN 0 ELSE d - 1, FALSE, W)
<1>1. Behind(h, h) = 0 /\ d \in Nat /\ \A x \in V : Behind(h, x) \in Nat
  BY BehindStep, HeldStep
<1>2. V = {}
  BY <1>1 DEF PairOK
<1>3. 0 <= IF d = 0 THEN 0 ELSE d - 1
  BY <1>1
<1> HIDE DEF Behind
<1>4. Behind(h, h) + 0 <= IF d = 0 THEN 0 ELSE d - 1
  BY <1>1, <1>3
<1> QED BY <1>2, <1>4 DEF PairOK

\* The same counters and fewer notes, or none.
LEMMA PairFewer ==
    ASSUME NEW h, NEW t, NEW d, NEW V, NEW b \in BOOLEAN, PairOK(h, t, d, b, V),
           h \in VidNumber, t \in VidNumber, d \in Nat,
           NEW W \in SUBSET V, NEW a \in BOOLEAN, a => b
    PROVE  PairOK(h, t, d, a, W)
<1>1. Behind(t, h) \in Nat
  BY BehindStep, HeldStep
<1>2. CASE Overlap
  <2>1. /\ Behind(t, h) + (IF b THEN 1 ELSE 0) <= d
        /\ \A x \in W : Behind(t, x) < Behind(t, h)
    BY <1>2 DEF PairOK
  <2> HIDE DEF Behind
  <2>2. Behind(t, h) + (IF a THEN 1 ELSE 0) <= d
    BY <1>1, <2>1
  <2> QED BY <1>2, <2>1, <2>2 DEF PairOK
<1>3. CASE ~Overlap
  BY <1>3 DEF PairOK
<1> QED BY <1>2, <1>3

LEMMA PairEmpty ==
    ASSUME NEW b, ~b
    PROVE  PairOK(0, 0, 0, b, {})
<1>1. Behind(0, 0) = 0
  BY DEF Behind
<1> HIDE DEF Behind
<1>2. Behind(0, 0) + 0 <= 0
  BY <1>1
<1> QED BY <1>2 DEF PairOK

\* The pair of a key now and after a step.
Pair(c, n) == PairOK(head[c][n], tail[c][n], down[c][n], Coming(c, n), VidsOf(c, n))

LEMMA FewerVids ==
    ASSUME NEW c, NEW n, NEW h, \A x \in Ringing' : x \in Ringing \/ ~(x.ch = c /\ x.note = n) \/ x.vid = h
    PROVE  VidsOf(c, n)' \subseteq VidsOf(c, n) \cup {h}
BY DEF VidsOf

LEMMA SameVids ==
    ASSUME NEW c, NEW n, \A x \in Ringing' : x \in Ringing \/ ~(x.ch = c /\ x.note = n)
    PROVE  VidsOf(c, n)' \subseteq VidsOf(c, n)
BY DEF VidsOf

\* A step that does not concern the key.
LEMMA PairStays ==
    ASSUME IInv, NEW c \in Channels, NEW n \in Notes, Pair(c, n),
           head'[c][n] = head[c][n], tail'[c][n] = tail[c][n], down'[c][n] = down[c][n],
           Coming(c, n)' => Coming(c, n),
           \A x \in Ringing' : x \in Ringing \/ ~(x.ch = c /\ x.note = n)
    PROVE  Pair(c, n)'
<1> DEFINE h == head[c][n]
           t == tail[c][n]
           d == down[c][n]
           b == Coming(c, n)
           V == VidsOf(c, n)
           a == Coming(c, n)'
           W == VidsOf(c, n)'
<1>1. W \subseteq V
  BY SameVids
<1>2. h \in VidNumber /\ t \in VidNumber /\ d \in Nat
  BY PairType, HeldStep
<1>3. a \in BOOLEAN /\ b \in BOOLEAN /\ (a => b)
  BY DEF Coming
<1>4. PairOK(h, t, d, b, V)
  BY DEF Pair
<1>5. head'[c][n] = h /\ tail'[c][n] = t /\ down'[c][n] = d
  OBVIOUS
<1> HIDE DEF h, t, d, a, b, V, W
<1>6. PairOK(h, t, d, a, W)
  BY <1>1, <1>2, <1>3, <1>4, PairFewer
<1> QED BY <1>5, <1>6 DEF Pair, a, W

\* all_notes_off and the resets forget the key.
LEMMA PairForgotten ==
    ASSUME NEW c \in Channels, NEW n \in Notes, EmptiesKeys(c)
    PROVE  Pair(c, n)'
<1>1. head'[c][n] = 0 /\ tail'[c][n] = 0 /\ down'[c][n] = 0
  BY DEF EmptiesKeys, NoVid, NoKeys
<1>2. VidsOf(c, n)' = {}
  BY DEF EmptiesKeys, VidsOf
<1>3. ~Coming(c, n)'
  BY DEF EmptiesKeys, Coming
<1>4. PairOK(0, 0, 0, Coming(c, n)', {})
  BY <1>3, PairEmpty
<1> QED BY <1>1, <1>2, <1>4 DEF Pair

LEMMA NoteOnPair ==
    ASSUME IInv, NEW c \in Channels, NEW n \in Notes, Pair(c, n),
           NEW d \in Channels, NEW m \in Notes, NoteOn(d, m)
    PROVE  Pair(c, n)'
<1>1. /\ call = Idle /\ UNCHANGED <<head, tail>>
      /\ down' = [down EXCEPT ![d][m] = @ + 1]
  BY DEF NoteOn, queueVars
<1>2. /\ Ringing' \subseteq Ringing
      /\ call'.op = "note" => call'.ch = d /\ call'.note = m
  BY NoteOnPasses, PassedRings
<1>3. down \in [Channels -> [Notes -> 0..MaxHeld]]
  BY DEF IInv, TypeOK
<1>4. CASE d = c /\ m = n
  <2> DEFINE h == head[c][n]
             t == tail[c][n]
             k == down[c][n]
             V == VidsOf(c, n)
             b == Coming(c, n)'
             W == VidsOf(c, n)'
  <2>1. Coming(c, n) = FALSE /\ b \in BOOLEAN
    BY <1>1 DEF Coming, Idle
  <2>2. W \subseteq V
    BY <1>2, SameVids
  <2>3. h \in VidNumber /\ t \in VidNumber /\ k \in 0..MaxHeld /\ V \subseteq VidNumber
    BY PairType
  <2>4. PairOK(h, t, k, FALSE, V)
    BY <2>1 DEF Pair
  <2>5. head'[c][n] = h /\ tail'[c][n] = t /\ down'[c][n] = k + 1
    BY <1>1, <1>3, <1>4
  <2> HIDE DEF h, t, k, V, b, W
  <2>6. PairOK(h, t, k + 1, b, W)
    BY <2>1, <2>2, <2>3, <2>4, PairNoteOn
  <2> QED BY <2>5, <2>6 DEF Pair, b, W
<1>5. CASE ~(d = c /\ m = n)
  <2>1. down'[c][n] = down[c][n]
    BY <1>1, <1>3, <1>5
  <2>2. ~Coming(c, n)'
    BY <1>2, <1>5 DEF Coming
  <2> QED BY <1>1, <1>2, <2>1, <2>2, PairStays
<1> QED BY <1>4, <1>5

LEMMA StartNotePair ==
    ASSUME IInv, ~Portamento, NEW c \in Channels, NEW n \in Notes, Pair(c, n), StartNote
    PROVE  Pair(c, n)'
<1> DEFINE d == call.ch
           m == call.note
           new == [ch |-> d, note |-> m, vid |-> head[d][m]]
<1>1. /\ d \in Channels /\ m \in Notes /\ call.op = "note" /\ call'.op = "idle"
      /\ NewVid(d, m) /\ Ringing' \subseteq Ringing \cup {new}
  BY StartNoteRings
<1>2. tail' = tail /\ down' = down
  BY DEF StartNote, ghostVars
<1>3. new.ch = d /\ new.note = m /\ new.vid = head[d][m]
  OBVIOUS
<1>4. head \in Vids
  BY DEF IInv, TypeOK
<1>5. ~Coming(c, n)'
  BY <1>1 DEF Coming
<1> HIDE DEF new
<1>6. CASE d = c /\ m = n
  <2> DEFINE h == head[c][n]
             k == IF Overlap THEN (h + 1) % VidRange ELSE h
             t == tail[c][n]
             j == down[c][n]
             V == VidsOf(c, n)
             W == VidsOf(c, n)'
  <2>1. Coming(c, n) = TRUE
    BY <1>1, <1>6 DEF Coming
  <2>2. W \subseteq V \cup {h}
    <3>1. \A x \in Ringing' : x \in Ringing \/ x.vid = h
      BY <1>1, <1>3, <1>6
    <3> HIDE DEF h
    <3> QED BY <3>1, FewerVids
  <2>3. h \in VidNumber /\ t \in VidNumber /\ j \in 0..MaxHeld /\ V \subseteq VidNumber
    BY PairType
  <2>4. PairOK(h, t, j, TRUE, V)
    BY <2>1 DEF Pair
  <2>5. head'[c][n] = k /\ tail'[c][n] = t /\ down'[c][n] = j
    BY <1>1, <1>2, <1>4, <1>6 DEF NewVid, Vids
  <2> HIDE DEF h, t, j, V, W
  <2>6. PairOK(k, t, j, FALSE, W)
    BY <2>2, <2>3, <2>4, PairStart
  <2> HIDE DEF k
  <2>7. Coming(c, n)' = FALSE
    BY <1>5 DEF Coming
  <2> QED BY <2>5, <2>6, <2>7 DEF Pair, W
<1>7. CASE ~(d = c /\ m = n)
  <2>1. head'[c][n] = head[c][n]
    BY <1>1, <1>4, <1>7 DEF NewVid, Vids
  <2>2. \A x \in Ringing' : x \in Ringing \/ ~(x.ch = c /\ x.note = n)
    BY <1>1, <1>3, <1>7
  <2> QED BY <1>2, <1>5, <2>1, <2>2, PairStays
<1> QED BY <1>6, <1>7

LEMMA NoteOffPair ==
    ASSUME IInv, ~Portamento, NEW c \in Channels, NEW n \in Notes, Pair(c, n), ~Deaf(c, n),
           NEW d \in Channels, NEW m \in Notes, NoteOff(d, m)
    PROVE  Pair(c, n)'
<1>1. /\ call = Idle /\ call' = call /\ head' = head
      /\ down' = [down EXCEPT ![d][m] = IF @ = 0 THEN 0 ELSE @ - 1]
  BY DEF NoteOff
<1>2. /\ Ringing' \subseteq Ringing
      /\ \/ tail' = tail /\ (Deaf(d, m) \/ (Overlap /\ head[d][m] = tail[d][m]))
         \/ /\ IF Overlap THEN tail' = [tail EXCEPT ![d][m] = (@ + 1) % VidRange]
                          ELSE tail' = tail
            /\ Overlap => head[d][m] # tail[d][m]
            /\ \A x \in Ringing' : x.ch = d /\ x.note = m => x.vid # OffVid(d, m)
  BY NoteOffRings
<1>3. down \in [Channels -> [Notes -> 0..MaxHeld]] /\ tail \in Vids
  BY DEF IInv, TypeOK
<1>4. Coming(c, n) = FALSE /\ Coming(c, n)' = FALSE
  BY <1>1 DEF Coming, Idle
<1>5. CASE d = c /\ m = n
  <2> DEFINE h == head[c][n]
             t == tail[c][n]
             j == down[c][n]
             e == IF j = 0 THEN 0 ELSE j - 1
             k == IF Overlap THEN (t + 1) % VidRange ELSE t
             V == VidsOf(c, n)
             W == VidsOf(c, n)'
  <2>1. h \in VidNumber /\ t \in VidNumber /\ j \in 0..MaxHeld /\ V \subseteq VidNumber
    BY PairType
  <2>2. PairOK(h, t, j, FALSE, V)
    BY <1>4 DEF Pair
  <2>3. W \subseteq V
    BY <1>2, SameVids
  <2>4. head'[c][n] = h /\ down'[c][n] = e
    BY <1>1, <1>3, <1>5
  <2>5. CASE tail' = tail /\ Overlap /\ h = t
    <3>1. tail'[c][n] = h
      BY <2>5
    <3> HIDE DEF h, t, j, V, W
    <3>2. PairOK(h, h, e, FALSE, W)
      BY <2>1, <2>2, <2>3, <2>5, PairNone
    <3> HIDE DEF e
    <3> QED BY <1>4, <2>4, <3>1, <3>2 DEF Pair, W
  <2>6. CASE /\ IF Overlap THEN tail' = [tail EXCEPT ![c][n] = (@ + 1) % VidRange]
                           ELSE tail' = tail
             /\ Overlap => h # t
             /\ \A x \in Ringing' : x.ch = c /\ x.note = n => x.vid # OffVid(c, n)
    <3>1. tail'[c][n] = k
      BY <1>3, <2>6 DEF Vids
    <3>2. \A x \in W : x # IF Overlap THEN t ELSE 0
      BY <2>6, OwnRow DEF VidsOf
    <3> HIDE DEF h, t, j, V, W
    <3>3. PairOK(h, k, e, FALSE, W)
      BY <2>1, <2>2, <2>3, <2>6, <3>2, PairOff
    <3> HIDE DEF e, k
    <3> QED BY <1>4, <2>4, <3>1, <3>3 DEF Pair, W
  <2> QED BY <1>2, <1>5, <2>5, <2>6
<1>6. CASE ~(d = c /\ m = n)
  <2>1. down'[c][n] = down[c][n]
    BY <1>1, <1>3, <1>6
  <2>2. tail'[c][n] = tail[c][n]
    BY <1>2, <1>3, <1>6 DEF Vids
  <2> QED BY <1>1, <1>2, <1>4, <2>1, <2>2, PairStays
<1> QED BY <1>5, <1>6

LEMMA InitPaired == Init => Paired
<1> SUFFICES ASSUME Init, NEW c \in Channels, NEW n \in Notes PROVE Pair(c, n)
  BY DEF Paired, Pair
<1>1. head[c][n] = 0 /\ tail[c][n] = 0 /\ down[c][n] = 0
  BY DEF Init, NoVid, NoKeys
<1>2. VidsOf(c, n) = {} /\ ~Coming(c, n)
  BY InitRinging DEF VidsOf, Coming
<1>3. PairOK(0, 0, 0, Coming(c, n), {})
  BY <1>2, PairEmpty
<1> QED BY <1>1, <1>2, <1>3 DEF Pair

LEMMA NextPaired == IInv /\ ~Portamento /\ Paired /\ [Next]_vars => Paired'
<1> SUFFICES ASSUME IInv, ~Portamento, Paired, [Next]_vars,
                    NEW c \in Channels, NEW n \in Notes, ~Deaf(c, n)
             PROVE  Pair(c, n)'
  BY DEF Paired, Pair, Deaf
<1>1. Pair(c, n)
  BY DEF Paired, Pair
<1>2. CASE Stills
  <2>1. CASE KeepsKeys(c)
    <3>1. head'[c][n] = head[c][n] /\ tail'[c][n] = tail[c][n] /\ down'[c][n] = down[c][n]
      BY <2>1 DEF KeepsKeys
    <3>2. (Coming(c, n)' => Coming(c, n)) /\ Ringing' \subseteq Ringing
      BY <1>2 DEF Stills, Coming
    <3> QED BY <1>1, <3>1, <3>2, PairStays
  <2>2. CASE EmptiesKeys(c)
    BY <2>2, PairForgotten
  <2> QED BY <1>2, <2>1, <2>2 DEF Stills
<1>3. CASE NoteOns
  BY <1>1, <1>3, NoteOnPair DEF NoteOns
<1>4. CASE NoteOffs
  BY <1>1, <1>4, NoteOffPair DEF NoteOffs
<1>5. CASE StartNote
  BY <1>1, <1>5, StartNotePair
<1> QED BY <1>2, <1>3, <1>4, <1>5, StepKinds

\* A key whose note-ons have all had a note-off owes none, so nothing of it rings.
LEMMA PairedNoHung == IInv /\ Paired => NoHungNote
<1> SUFFICES ASSUME IInv, Paired, NEW c \in DOMAIN down, NEW n \in DOMAIN down[c],
                    down[c][n] = 0, ~(c \in DrumChannels /\ n \in NoOffKeys),
                    NEW i \in Sounding(c) \cap StartedOn(c, n)
             PROVE  FALSE
  BY DEF NoHungNote
<1>1. c \in Channels /\ n \in Notes
  BY DEF IInv, TypeOK
<1> DEFINE h == head[c][n]
           t == tail[c][n]
           V == VidsOf(c, n)
<1>2. PairOK(h, t, 0, Coming(c, n), V)
  BY <1>1 DEF Paired, Deaf
<1>3. /\ h \in VidNumber /\ t \in VidNumber /\ V \subseteq VidNumber /\ Coming(c, n) \in BOOLEAN
  BY <1>1, PairType DEF Coming
<1>4. voice[i].vid \in V
  <2>1. /\ Number(voice[i]) \in Ringing /\ Number(voice[i]).ch = c
        /\ Number(voice[i]).note = voice[i].note /\ Number(voice[i]).vid = voice[i].vid
    BY SoundingRings
  <2>2. voice[i].note = n
    BY DEF StartedOn
  <2> QED BY <2>1, <2>2 DEF VidsOf
<1> HIDE DEF h, t, V
<1>5. /\ Behind(t, h) \in Nat /\ Behind(t, voice[i].vid) \in Nat
  BY <1>3, <1>4, BehindStep
<1> HIDE DEF Behind
<1>6. CASE Overlap
  <2>1. Behind(t, h) + (IF Coming(c, n) THEN 1 ELSE 0) <= 0 /\ Behind(t, voice[i].vid) < Behind(t, h)
    BY <1>2, <1>4, <1>6 DEF PairOK
  <2> QED BY <1>3, <1>5, <2>1
<1>7. CASE ~Overlap
  BY <1>2, <1>4, <1>7 DEF PairOK
<1> QED BY <1>6, <1>7

\* Once every note-on of a key has had its note-off, no voice of the key is on:
\* new_vidq and last_vidq stay matched over stolen voices, notes without a
\* sample, all_notes_off and counters that wrap.  With the legato pedal
\* (opt_portamento) they do not.
THEOREM NoNoteHangs ==
    ASSUME ~Portamento
    PROVE  Spec => []NoHungNote
<1>1. IInv /\ Paired /\ [Next]_vars => Paired'
  BY NextPaired
<1> QED BY <1>1, PairedNoHung, AlwaysIInv, InitPaired, PTL DEF Spec

-----------------------------------------------------------------------------
(* The pedals.                                                             *)

LEMMA SilentPedal ==
    ASSUME ~Portamento, NEW w, Silent(w), NEW su, NEW so, NEW dr
    PROVE  PedalOK(w, su, so, dr)
BY DEF Silent, PedalOK

\* A loop over i < upper_voices, f[i] being what it does to voice i.
LEMMA LoopPedals ==
    ASSUME IInv, ~Portamento, NEW f, upper' = upper,
           voice' = [i \in VoiceIds |-> IF i < upper THEN Tidy(f[i]) ELSE voice[i]],
           \A i \in Below : PedalOK(f[i], sustain', sostenuto', dropped')
    PROVE  Pedalled'
<1> SUFFICES ASSUME NEW i \in Below
             PROVE  PedalOK(voice'[i], sustain', sostenuto', dropped')
  BY DEF Pedalled, Below, PedalOK
<1>1. i \in VoiceIds /\ i < upper
  BY BelowIds
<1>2. voice'[i] = Tidy(f[i])
  BY <1>1
<1>3. Tidy(f[i]) = f[i] \/ Silent(Tidy(f[i]))
  BY TidyPasses
<1> QED BY <1>2, <1>3, SilentPedal

\* note_off: what a pedal holds is sustained, what none holds is finished.
LEMMA ReleasedPedal ==
    ASSUME NEW v \in Voice, NEW c \in Channels, v.ch = c, v.status \in {"pending", "on"},
           PedalOK(v, sustain, sostenuto, dropped)
    PROVE  PedalOK(Released(v, c), sustain, sostenuto, dropped)
<1>1. CASE v.kind = "release"
  BY <1>1 DEF Released, PedalOK, Voice
<1>2. CASE v.kind # "release" /\ v.status = "pending"
  BY <1>2 DEF Released
<1>3. CASE v.kind # "release" /\ v.status = "on" /\ (v.sost \/ sustain[c] # 0)
  <2> DEFINE w == [v EXCEPT !.status = "sustained"]
  <2>1. Released(v, c) = w
    BY <1>3 DEF Released
  <2>2. w.status = "sustained" /\ w.ch = c /\ w.kind = v.kind
    BY DEF Voice
  <2>3. v.kind = "plain" => c \in dropped \/ sustain[c] # 0 \/ sostenuto[c]
    BY <1>3 DEF PedalOK
  <2> HIDE DEF w
  <2> QED BY <2>1, <2>2, <2>3 DEF PedalOK
<1>4. CASE v.kind # "release" /\ v.status = "on" /\ ~(v.sost \/ sustain[c] # 0)
  <2>1. Released(v, c) = Finished(v)
    BY <1>4 DEF Released
  <2>2. Finished(v).kind = "plain" => Finished(v).status = "off"
    BY <1>4 DEF Finished, Voice
  <2> QED BY <2>1, <2>2 DEF PedalOK
<1> QED BY <1>1, <1>2, <1>3, <1>4

LEMMA FinishedPedal ==
    ASSUME NEW v \in Voice, NEW su, NEW so, NEW dr, v.status \in {"on", "sustained"}
    PROVE  PedalOK(Finished(v), su, so, dr)
<1>1. Finished(v).kind = "plain" => Finished(v).status = "off"
  BY DEF Finished, Voice
<1> QED BY <1>1 DEF PedalOK

LEMMA SustainedPedal ==
    ASSUME NEW v \in Voice, NEW su, NEW so, NEW dr, v.ch \in Channels, su[v.ch] # 0
    PROVE  PedalOK([v EXCEPT !.status = "sustained"], su, so, dr)
<1> DEFINE w == [v EXCEPT !.status = "sustained"]
<1>1. w.status = "sustained" /\ w.ch = v.ch
  BY DEF Voice
<1> HIDE DEF w
<1>2. PedalOK(w, su, so, dr)
  BY <1>1 DEF PedalOK
<1> QED BY <1>2 DEF w

LEMMA NoteOffPedal ==
    ASSUME IInv, ~Portamento, Pedalled, NEW c \in Channels, NEW n \in Notes, NoteOff(c, n)
    PROVE  Pedalled'
<1> DEFINE m == LegatoOff(c, n).note
           matches(v) == /\ v.status \in {"pending", "on"} /\ v.ch = c
                         /\ v.note = m /\ v.vid = OffVid(c, m)
           f == [i \in VoiceIds |-> IF matches(voice[i]) THEN Released(voice[i], c)
                                                         ELSE voice[i]]
<1>1. /\ upper' = upper /\ sustain' = sustain /\ sostenuto' = sostenuto /\ dropped' = dropped
  BY DEF NoteOff, sizeVars
<1>2. \/ voice' = voice
      \/ voice' = EachVoice(LAMBDA v : IF matches(v) THEN Released(v, c) ELSE v)
  BY DEF NoteOff
<1>3. CASE voice' = voice
  BY <1>1, <1>3 DEF Pedalled, PedalOK, Below
<1>4. CASE voice' = EachVoice(LAMBDA v : IF matches(v) THEN Released(v, c) ELSE v)
  <2>1. voice' = [i \in VoiceIds |-> IF i < upper THEN Tidy(f[i]) ELSE voice[i]]
    BY <1>4 DEF EachVoice
  <2>2. ASSUME NEW i \in Below PROVE PedalOK(f[i], sustain, sostenuto, dropped)
    <3>1. i \in VoiceIds /\ voice[i] \in Voice /\ PedalOK(voice[i], sustain, sostenuto, dropped)
      BY BelowIds DEF Pedalled
    <3>2. (f[i] = Released(voice[i], c) /\ matches(voice[i])) \/ f[i] = voice[i]
      BY <3>1
    <3> HIDE DEF f
    <3> QED BY <3>1, <3>2, ReleasedPedal
  <2>3. \A i \in Below : PedalOK(f[i], sustain', sostenuto', dropped')
    BY <1>1, <2>2
  <2> HIDE DEF f
  <2> QED BY <1>1, <2>1, <2>3, LoopPedals
<1> QED BY <1>2, <1>3, <1>4

\* ME_SUSTAIN: a pedal that comes up drops what it held, unless sostenuto holds it.
LEMMA SustainPedal ==
    ASSUME IInv, ~Portamento, Pedalled, NEW c \in Channels, NEW a \in PedalValues, Sustain(c, a)
    PROVE  Pedalled'
<1> DEFINE level == PedalLevel(c, a)
           redamps == c \in DamperMode /\ c \notin DrumChannels
                      /\ level # sustain[c] /\ level # 0
           drops == level = 0 /\ ~sostenuto[c]
           f == [i \in VoiceIds |-> IF redamps THEN Redamped(voice[i], c)
                                    ELSE IF drops THEN Dropped(voice[i], c) ELSE voice[i]]
<1>1. /\ upper' = upper /\ sostenuto' = sostenuto /\ dropped' = dropped
      /\ sustain' = [sustain EXCEPT ![c] = level]
  BY DEF Sustain, sizeVars, ghostVars
<1>2. voice' = [i \in VoiceIds |-> IF i < upper THEN Tidy(f[i]) ELSE voice[i]]
  BY DEF Sustain, EachVoice
<1>3. redamps => level # 0
  OBVIOUS
<1>4. drops <=> level = 0 /\ ~sostenuto[c]
  OBVIOUS
<1>5. sustain'[c] = level /\ \A d \in Channels : d # c => sustain'[d] = sustain[d]
  BY <1>1 DEF IInv, TypeOK
<1> HIDE DEF redamps, drops, level
<1>6. ASSUME NEW i \in Below
      PROVE  PedalOK(f[i], sustain', sostenuto', dropped')
  <2> DEFINE v == voice[i]
  <2>1. i \in VoiceIds /\ v \in Voice /\ PedalOK(v, sustain, sostenuto, dropped)
    BY BelowIds DEF Pedalled
  <2>2. f[i] = IF redamps THEN Redamped(v, c) ELSE IF drops THEN Dropped(v, c) ELSE v
    BY <2>1
  <2> HIDE DEF f, v
  <2>3. v.ch # c => PedalOK(v, sustain', sostenuto', dropped')
    BY <1>1, <1>5, <2>1 DEF PedalOK
  <2>4. v.status # "sustained" => PedalOK(v, sustain', sostenuto', dropped')
    BY <1>1, <1>5, <2>1 DEF PedalOK
  <2>5. CASE redamps
    <3>1. CASE v.status \in {"off", "sustained"} /\ v.ch = c
      <4>1. f[i] = [v EXCEPT !.status = "sustained"]
        BY <2>2, <2>5, <3>1 DEF Redamped
      <4>2. sustain'[v.ch] # 0 /\ v.ch \in Channels
        BY <1>3, <1>5, <2>5, <3>1
      <4> QED BY <2>1, <4>1, <4>2, SustainedPedal
    <3>2. CASE ~(v.status \in {"off", "sustained"} /\ v.ch = c)
      BY <2>2, <2>3, <2>4, <2>5, <3>2 DEF Redamped
    <3> QED BY <3>1, <3>2
  <2>6. CASE ~redamps /\ drops
    <3>1. CASE v.status = "sustained" /\ v.ch = c
      BY <2>1, <2>2, <2>6, <3>1, FinishedPedal DEF Dropped
    <3>2. CASE ~(v.status = "sustained" /\ v.ch = c)
      BY <2>2, <2>3, <2>4, <2>6, <3>2 DEF Dropped
    <3> QED BY <3>1, <3>2
  <2>7. CASE ~redamps /\ ~drops
    <3>1. f[i] = v
      BY <2>2, <2>7
    <3>2. sustain'[c] # 0 \/ sostenuto[c]
      BY <1>4, <1>5, <2>7
    <3>3. v.ch = c /\ v.status = "sustained" => PedalOK(v, sustain', sostenuto', dropped')
      BY <1>1, <3>2 DEF PedalOK
    <3> QED BY <2>3, <2>4, <3>1, <3>3
  <2> QED BY <2>5, <2>6, <2>7
<1> HIDE DEF f
<1> QED BY <1>1, <1>2, <1>6, LoopPedals

\* ME_SOSTENUTO: it catches the voices that are on, and lets go what nothing holds.
LEMMA SostenutoPedal ==
    ASSUME IInv, ~Portamento, Pedalled, NEW c \in Channels, NEW a \in PedalValues, Sostenuto(c, a)
    PROVE  Pedalled'
<1> DEFINE s == a >= 64
           drops == sustain[c] = 0 /\ ~s
           f == [i \in VoiceIds |-> IF drops THEN Dropped(Held(voice[i], c, s), c)
                                             ELSE Held(voice[i], c, s)]
<1>1. /\ upper' = upper /\ sustain' = sustain /\ dropped' = dropped
      /\ sostenuto' = [sostenuto EXCEPT ![c] = s]
  BY DEF Sostenuto, sizeVars, ghostVars
<1>2. voice' = [i \in VoiceIds |-> IF i < upper THEN Tidy(f[i]) ELSE voice[i]]
  BY DEF Sostenuto, EachVoice
<1>3. s \in BOOLEAN
  OBVIOUS
<1>4. drops <=> sustain[c] = 0 /\ ~s
  OBVIOUS
<1> HIDE DEF s, drops
<1>5. sostenuto'[c] = s /\ \A d \in Channels : d # c => sostenuto'[d] = sostenuto[d]
  BY <1>1 DEF IInv, TypeOK
<1>6. ASSUME NEW i \in Below
      PROVE  PedalOK(f[i], sustain', sostenuto', dropped')
  <2> DEFINE v == voice[i]
             w == Held(v, c, s)
  <2>1. i \in VoiceIds /\ v \in Voice /\ PedalOK(v, sustain, sostenuto, dropped)
    BY BelowIds DEF Pedalled
  <2>2. f[i] = IF drops THEN Dropped(w, c) ELSE w
    BY <2>1
  <2>3. w \in Voice
    BY <1>3, <2>1, HandlerTypes
  <2> HIDE DEF f, v
  <2>4. /\ w.ch = v.ch /\ w.status = v.status /\ w.kind = v.kind
        /\ v.ch = c /\ v.status = "on" /\ c \notin DrumChannels => w.sost = s
        /\ v.ch # c \/ v.status # "on" \/ c \in DrumChannels => w = v
    BY <1>3, <2>1 DEF Held, Voice
  <2> HIDE DEF w
  <2>5. CASE w.status = "sustained" /\ w.ch = c
    <3>1. CASE drops
      BY <2>2, <2>3, <2>5, <3>1, FinishedPedal DEF Dropped
    <3>2. CASE ~drops
      <4>1. f[i] = w /\ (sustain'[c] # 0 \/ sostenuto'[c])
        BY <1>1, <1>4, <1>5, <2>2, <3>2
      <4> QED BY <2>5, <4>1 DEF PedalOK
    <3> QED BY <3>1, <3>2
  <2>6. CASE ~(w.status = "sustained" /\ w.ch = c)
    <3>1. f[i] = w
      BY <2>2, <2>6 DEF Dropped
    <3>2. CASE v.ch = c /\ v.status = "on" /\ c \notin DrumChannels
      BY <1>5, <2>4, <3>1, <3>2 DEF PedalOK
    <3>3. CASE ~(v.ch = c /\ v.status = "on" /\ c \notin DrumChannels)
      <4>1. w = v
        BY <2>4, <3>3
      <4> QED BY <1>1, <1>5, <2>1, <2>6, <3>1, <3>3, <4>1 DEF PedalOK
    <3> QED BY <3>2, <3>3
  <2> QED BY <2>5, <2>6
<1> HIDE DEF f
<1> QED BY <1>1, <1>2, <1>6, LoopPedals

LEMMA SilencePedal ==
    ASSUME IInv, ~Portamento, Pedalled, NEW c \in Channels, SilenceNotes(c), upper' = upper,
           sustain' = sustain, sostenuto' = sostenuto, dropped' = dropped
    PROVE  Pedalled'
<1> DEFINE f == [i \in VoiceIds |->
                   IF voice[i].status # "on" \/ voice[i].ch # c THEN voice[i]
                   ELSE IF sustain[c] # 0 THEN [voice[i] EXCEPT !.status = "sustained"]
                   ELSE Finished(voice[i])]
<1>1. voice' = [i \in VoiceIds |-> IF i < upper THEN Tidy(f[i]) ELSE voice[i]]
  BY DEF SilenceNotes, EachVoice
<1>2. ASSUME NEW i \in Below PROVE PedalOK(f[i], sustain, sostenuto, dropped)
  <2> DEFINE v == voice[i]
  <2>1. i \in VoiceIds /\ v \in Voice /\ PedalOK(v, sustain, sostenuto, dropped)
    BY BelowIds DEF Pedalled
  <2>2. f[i] = IF v.status # "on" \/ v.ch # c THEN v
               ELSE IF sustain[c] # 0 THEN [v EXCEPT !.status = "sustained"] ELSE Finished(v)
    BY <2>1
  <2> HIDE DEF f, v
  <2> QED BY <2>1, <2>2, SustainedPedal, FinishedPedal
<1>3. \A i \in Below : PedalOK(f[i], sustain', sostenuto', dropped')
  BY <1>2
<1> HIDE DEF f
<1> QED BY <1>1, <1>3, LoopPedals

LEMMA StartNotePedal ==
    ASSUME IInv, ~Portamento, Pedalled, StartNote
    PROVE  Pedalled'
<1> DEFINE c == call.ch
           n == call.note
<1>1. /\ upper' = upper /\ sustain' = sustain /\ sostenuto' = sostenuto /\ dropped' = dropped
      /\ \/ voice' = voice
         \/ voice' = [i \in VoiceIds |-> IF i \in call.vlist
                                         THEN Started(voice[i], c, n) ELSE voice[i]]
  BY DEF StartNote, sizeVars, ghostVars
<1> SUFFICES ASSUME NEW i \in Below
             PROVE  PedalOK(voice'[i], sustain, sostenuto, dropped)
  BY <1>1 DEF Pedalled, Below, PedalOK
<1>2. i \in VoiceIds /\ voice[i] \in Voice /\ PedalOK(voice[i], sustain, sostenuto, dropped)
  BY BelowIds DEF Pedalled
<1>3. voice'[i] = voice[i] \/ voice'[i] = Started(voice[i], c, n)
  BY <1>1, <1>2
<1>4. Started(voice[i], c, n).status # "sustained" /\ ~Started(voice[i], c, n).sost
  BY <1>2 DEF Started, Voice
<1> QED BY <1>2, <1>3, <1>4 DEF PedalOK

LEMMA NextPedalled == IInv /\ ~Portamento /\ Pedalled /\ [Next]_vars => Pedalled'
<1> SUFFICES ASSUME IInv, ~Portamento, Pedalled, [Next]_vars PROVE Pedalled'
  OBVIOUS
<1>1. ASSUME Passed, sustain' = sustain, sostenuto' = sostenuto, dropped' = dropped
      PROVE  Pedalled'
  BY <1>1, PassedPedals
<1>2. ASSUME NEW c \in Channels, NEW n \in Notes, NoteOn(c, n)
      PROVE  Pedalled'
  BY <1>1, <1>2, NoteOnPasses DEF NoteOn, chanVars
<1>3. ASSUME NEW c \in Channels, NEW n \in Notes, NoteOff(c, n)
      PROVE  Pedalled'
  BY <1>3, NoteOffPedal
<1>4. ASSUME NEW c \in Channels, ResetControllers(c)
      PROVE  Pedalled'
  <2>1. /\ Passed /\ dropped' = dropped \cup {c}
        /\ \A d \in Channels : d # c => sustain'[d] = sustain[d] /\ sostenuto'[d] = sostenuto[d]
    BY <1>4, ResetControllersPasses DEF ResetControllers, IInv, TypeOK
  <2> QED BY <2>1, PassedPedals
<1>5. ASSUME NEW c \in Channels, AllNotesOff(c) \/ \E b \in BOOLEAN : Mono(c, b)
      PROVE  Pedalled'
  BY <1>5, SilencePedal DEF AllNotesOff, Mono, sizeVars, chanVars
<1>6. ASSUME NEW c \in Channels, AllSoundsOff(c)
      PROVE  Pedalled'
  BY <1>1, <1>6, AllSoundsOffPasses DEF AllSoundsOff, chanVars
<1>7. CASE ControlEvent
  <2>1. PICK c \in Channels :
           \/ \E a \in PedalValues : Sustain(c, a) \/ Sostenuto(c, a)
           \/ LegatoControl(c) \/ \E b \in BOOLEAN : Mono(c, b)
           \/ ResetControllers(c) \/ AllNotesOff(c) \/ AllSoundsOff(c)
    BY <1>7 DEF ControlEvent
  <2>2. ~LegatoControl(c)
    BY LegatoControlSets
  <2> QED BY <2>1, <2>2, <1>4, <1>5, <1>6, SustainPedal, SostenutoPedal
<1>8. CASE ChangeKey \/ ResetMidi
  <2>1. \A i \in Below' : voice'[i].status \in {"free", "die"}
    BY <1>8, KillAllPasses DEF ChangeKey, ResetMidi, sizeVars
  <2> QED BY <2>1 DEF Pedalled, PedalOK
<1>9. CASE FindSample
  BY <1>1, <1>9, FindSamplePasses DEF FindSample, chanVars, ghostVars
<1>10. CASE StartNote
  BY <1>10, StartNotePedal
<1>11. CASE MixBlock
  BY <1>1, <1>11, MixBlockPasses DEF MixBlock, chanVars, ghostVars
<1>12. CASE Polyphony
  <2>1. CASE ResetVoices
    BY <2>1, ResetVoicesPasses DEF Pedalled
  <2>2. CASE Passed /\ UNCHANGED <<queueVars, chanVars, ghostVars>>
    BY <1>1, <2>2 DEF chanVars, ghostVars
  <2> QED BY <1>12, <2>1, <2>2, PolyphonyPasses
<1>13. CASE UNCHANGED vars
  BY <1>13 DEF vars, sizeVars, chanVars, ghostVars, Pedalled, Below, PedalOK
<1> QED BY <1>2, <1>3, <1>7, <1>8, <1>9, <1>10, <1>11, <1>12, <1>13
    DEF Next, KeyEvent, Allocation

\* A voice is held after its note-off only while the sustain or the sostenuto pedal
\* of its channel is down, unless reset_controllers let them go; with the legato
\* pedal (opt_portamento) a voice can be sustained that never was started.
THEOREM PedalsAlwaysHold ==
    ASSUME ~Portamento
    PROVE  Spec => []PedalsHold
<1>1. Init => Pedalled
  BY InitRinging DEF Pedalled
<1>2. IInv /\ Pedalled /\ [Next]_vars => Pedalled'
  BY NextPedalled
<1>3. Pedalled => PedalsHold
  BY DEF Pedalled, PedalOK, PedalsHold
<1> QED BY <1>1, <1>2, <1>3, AlwaysIInv, PTL DEF Spec

-----------------------------------------------------------------------------
(* How many voices a key and a channel have.                               *)

\* A set that another set has a place of its own for each member of is not larger.
LEMMA Injected ==
    ASSUME NEW S, NEW T, IsFiniteSet(T), NEW g,
           \A a \in S : g[a] \in T, \A a, b \in S : g[a] = g[b] => a = b
    PROVE  /\ IsFiniteSet(S) /\ Cardinality(S) <= Cardinality(T)
           /\ \A m \in Nat : Cardinality(T) <= m => Cardinality(S) <= m
<1> DEFINE f == [a \in S |-> g[a]]
<1>1. f \in [S -> T] /\ \A a, b \in S : f[a] = f[b] => a = b
  OBVIOUS
<1> HIDE DEF f
<1>2. f \in Injection(S, T)
  BY <1>1, Fun_IsInj
<1>3. IsFiniteSet(S) /\ Cardinality(S) <= Cardinality(T)
  BY <1>2, FS_Injection
<1>4. Cardinality(S) \in Nat /\ Cardinality(T) \in Nat
  BY <1>3, FS_CardinalityType
<1> QED BY <1>3, <1>4

\* A set of at most n members fits the places 1..n.
LEMMA Places ==
    ASSUME NEW S, IsFiniteSet(S), NEW n \in Nat, Cardinality(S) <= n
    PROVE  \E e : (\A a \in S : e[a] \in 1..n) /\ \A a, b \in S : e[a] = e[b] => a = b
<1> DEFINE m == Cardinality(S)
<1>1. m \in Nat /\ ExistsBijection(1..m, S)
  BY FS_CardinalityType
<1>2. ExistsBijection(S, 1..m)
  BY <1>1, Fun_ExistsBijSymmetric
<1>3. 1..m \subseteq 1..n
  BY <1>1
<1> DEFINE M == 1..m
<1> HIDE DEF M, m
<1>4. PICK e : e \in Bijection(S, M)
  BY <1>2, Fun_ExistsBij DEF M
<1>5. e \in [S -> M] /\ \A a, b \in S : e[a] = e[b] => a = b
  BY <1>4, Fun_BijectionProperties
<1> QED BY <1>3, <1>5 DEF M

\* A set whose members fall into m + 1 classes of at most n.
LEMMA Classes ==
    ASSUME NEW S, IsFiniteSet(S), NEW h, NEW m \in Nat, NEW n \in Nat,
           \A a \in S : h[a] \in 0..m,
           \A k \in 0..m : Cardinality({a \in S : h[a] = k}) <= n
    PROVE  Cardinality(S) <= (m + 1) * n
<1> DEFINE Part(k) == {a \in S : h[a] = k}
           Fit(e, k) == /\ \A a \in Part(k) : e[a] \in 1..n
                        /\ \A a, b \in Part(k) : e[a] = e[b] => a = b
           f == [k \in 0..m |-> CHOOSE e : Fit(e, k)]
           g == [a \in S |-> <<h[a], f[h[a]][a]>>]
           T == (0..m) \X (1..n)
<1>1. ASSUME NEW k \in 0..m PROVE Fit(f[k], k)
  <2>1. IsFiniteSet(Part(k))
    BY FS_Subset
  <2>2. \E e : Fit(e, k)
    <3> DEFINE P == Part(k)
    <3>1. IsFiniteSet(P) /\ Cardinality(P) <= n
      BY <2>1
    <3>2. \E e : (\A a \in P : e[a] \in 1..n) /\ \A a, b \in P : e[a] = e[b] => a = b
      <4> HIDE DEF P
      <4> QED BY <3>1, Places
    <3> QED BY <3>2
  <2>3. f[k] = CHOOSE e : Fit(e, k)
    OBVIOUS
  <2> HIDE DEF Fit, f
  <2> QED BY <2>2, <2>3
<1> HIDE DEF f
<1>2. \A a \in S : g[a] \in T
  <2> SUFFICES ASSUME NEW a \in S PROVE h[a] \in 0..m /\ f[h[a]][a] \in 1..n
    OBVIOUS
  <2> QED BY <1>1
<1>3. ASSUME NEW a \in S, NEW b \in S, g[a] = g[b] PROVE a = b
  <2>1. h[a] = h[b] /\ f[h[a]][a] = f[h[a]][b]
    BY <1>3
  <2>2. h[a] \in 0..m /\ a \in Part(h[a]) /\ b \in Part(h[a])
    BY <2>1
  <2> QED BY <1>1, <2>1, <2>2
<1>4. IsFiniteSet(T) /\ Cardinality(T) = (m + 1) * n
  <2>1. IsFiniteSet(0..m) /\ Cardinality(0..m) = m + 1
    BY FS_Interval
  <2>2. IsFiniteSet(1..n) /\ Cardinality(1..n) = n
    BY FS_Interval
  <2> DEFINE A == 0..m
             B == 1..n
  <2> HIDE DEF A, B
  <2>3. IsFiniteSet(A \X B) /\ Cardinality(A \X B) = Cardinality(A) * Cardinality(B)
    BY <2>1, <2>2, FS_Product, Zenon DEF A, B
  <2>4. Cardinality(A) = m + 1 /\ Cardinality(B) = n
    BY <2>1, <2>2 DEF A, B
  <2>5. Cardinality(A \X B) = (m + 1) * n
    BY <2>3, <2>4, Zenon
  <2> QED BY <2>3, <2>5 DEF A, B
<1> HIDE DEF g, T
<1>5. Cardinality(S) <= Cardinality(T)
  BY <1>2, <1>3, <1>4, Injected
<1> QED BY <1>4, <1>5

\* The voices of the notes that channel c was playing k note-ons before the last ones
\* that its voices may still hear, and the voices on which key n rings.
Busy(v) == v.own /\ v.status \notin {"free", "die"}
Generation(c, k) == {i \in Below : Busy(voice[i]) /\ voice[i].ch = c /\ voice[i].cnt = k}
Playing(c, n) == {i \in Below : Rings(voice[i]) /\ voice[i].ch = c /\ voice[i].note = n}

\* As many voices as one note may have.
Small(S) == Cardinality(S) <= MaxLayers

\* A note has at most MaxLayers voices, and while it is about to start the place of
\* its voices in the generations, and without overlap its key, is empty.
Counted ==
    /\ \A c \in Channels, k \in 0..ChannelLimit : Small(Generation(c, k))
    /\ ~Overlap => \A c \in Channels, n \in Notes : Small(Playing(c, n))
    /\ call.op = "note" =>
         /\ Generation(call.ch, ChannelLimit) = {}
         /\ ~Overlap => Playing(call.ch, call.note) = {}
         /\ IsFiniteSet(call.vlist) /\ Cardinality(call.vlist) + call.todo <= MaxLayers

\* A voice that goes on from voice v, if it is busy at all.
GoesOn(w, v) ==
    /\ Busy(v) /\ w.ch = v.ch /\ w.note = v.note /\ w.cnt = v.cnt
    /\ Rings(w) => Rings(v)
Continues(w, v) == Busy(w) => GoesOn(w, v)

\* A step that starts nothing: each busy voice goes on from a voice of its own.
Moved ==
    \E g : /\ \A i \in Below' : Busy(voice'[i]) => g[i] \in Below /\ GoesOn(voice'[i], voice[g[i]])
           /\ \A i, j \in Below' : Busy(voice'[i]) /\ Busy(voice'[j]) /\ g[i] = g[j] => i = j

LEMMA FiniteVoices ==
    ASSUME IInv
    PROVE  /\ IsFiniteSet(Below) /\ Cardinality(Below) \in Nat
           /\ \A S \in SUBSET Below : IsFiniteSet(S) /\ Cardinality(S) \in Nat
<1>1. IsFiniteSet(Below)
  BY SizeNow, FS_Interval DEF Below
<1> QED BY <1>1, FS_Subset, FS_CardinalityType

\* It makes no class of voices larger.
LEMMA MovedFewer ==
    ASSUME IInv, Moved
    PROVE  /\ \A c, k : /\ Small(Generation(c, k)) => Small(Generation(c, k)')
                        /\ Generation(c, k) = {} => Generation(c, k)' = {}
           /\ \A c, n : /\ Small(Playing(c, n)) => Small(Playing(c, n)')
                        /\ Playing(c, n) = {} => Playing(c, n)' = {}
<1>1. PICK g : /\ \A i \in Below' : Busy(voice'[i]) =>
                     g[i] \in Below /\ GoesOn(voice'[i], voice[g[i]])
               /\ \A i, j \in Below' : Busy(voice'[i]) /\ Busy(voice'[j]) /\ g[i] = g[j] => i = j
  BY DEF Moved
<1>2. ASSUME NEW S, NEW T \in SUBSET Below,
             \A i \in S : i \in Below' /\ Busy(voice'[i]) /\ g[i] \in T
      PROVE  (Small(T) => Small(S)) /\ (T = {} => S = {})
  <2>1. IsFiniteSet(T)
    BY FiniteVoices
  <2>2. \A a, b \in S : g[a] = g[b] => a = b
    BY <1>1, <1>2
  <2>3. Small(T) => Small(S)
    BY <1>2, <2>1, <2>2, Injected, VoicesAssumption DEF Small
  <2> QED BY <1>2, <2>3
<1>3. ASSUME NEW c, NEW k
      PROVE  /\ Small(Generation(c, k)) => Small(Generation(c, k)')
             /\ Generation(c, k) = {} => Generation(c, k)' = {}
  <2> DEFINE S == Generation(c, k)'
             T == Generation(c, k)
  <2>1. T \in SUBSET Below
    BY DEF Generation
  <2>2. \A i \in S : i \in Below' /\ Busy(voice'[i]) /\ g[i] \in T
    BY <1>1 DEF Generation, GoesOn
  <2> HIDE DEF S, T
  <2>3. (Small(T) => Small(S)) /\ (T = {} => S = {})
    BY <1>2, <2>1, <2>2
  <2> QED BY <2>3 DEF S, T
<1>4. ASSUME NEW c, NEW n
      PROVE  /\ Small(Playing(c, n)) => Small(Playing(c, n)')
             /\ Playing(c, n) = {} => Playing(c, n)' = {}
  <2> DEFINE S == Playing(c, n)'
             T == Playing(c, n)
  <2>1. T \in SUBSET Below
    BY DEF Playing
  <2>2. \A i \in S : i \in Below' /\ Busy(voice'[i]) /\ g[i] \in T
    BY <1>1 DEF Playing, GoesOn, Rings, Busy
  <2> HIDE DEF S, T
  <2>3. (Small(T) => Small(S)) /\ (T = {} => S = {})
    BY <1>2, <2>1, <2>2
  <2> QED BY <2>3 DEF S, T
<1> QED BY <1>3, <1>4

-----------------------------------------------------------------------------
(* The steps that start nothing move voices, or stop them.                 *)

LEMMA SameMoves ==
    ASSUME Below' \subseteq Below, \A i \in Below' : Continues(voice'[i], voice[i])
    PROVE  Moved
<1> DEFINE g == [i \in Below' |-> i]
<1>1. \A i \in Below' : g[i] = i
  OBVIOUS
<1> HIDE DEF g
<1>2. /\ \A i \in Below' : Busy(voice'[i]) => g[i] \in Below /\ GoesOn(voice'[i], voice[g[i]])
      /\ \A i, j \in Below' : Busy(voice'[i]) /\ Busy(voice'[j]) /\ g[i] = g[j] => i = j
  BY <1>1 DEF Continues
<1> QED BY <1>2 DEF Moved

LEMMA ContinuesItself == \A v : Continues(v, v)
BY DEF Continues, GoesOn

LEMMA TidyContinues ==
    ASSUME NEW w
    PROVE  Tidy(w) = w \/ (~Busy(w) /\ ~Busy(Tidy(w)))
<1> DEFINE kept == [Blank EXCEPT !.status = w.status, !.ch = w.ch]
<1>1. kept.status = w.status
  BY DEF Blank
<1> QED BY <1>1 DEF Tidy, Busy

LEMMA FreedNotBusy ==
    ASSUME NEW v \in Voice
    PROVE  ~Busy(Tidy(Freed(v)))
BY FreedVoice DEF Busy

\* A loop over i < upper_voices, f[i] being what it does to voice i.
LEMMA LoopMoves ==
    ASSUME IInv, NEW f, upper' = upper,
           voice' = [i \in VoiceIds |-> IF i < upper THEN Tidy(f[i]) ELSE voice[i]],
           \A i \in VoiceIds : Continues(f[i], voice[i])
    PROVE  Moved
<1>1. Below' = Below
  BY DEF Below
<1>2. ASSUME NEW i \in Below
      PROVE  Continues(voice'[i], voice[i])
  <2>1. i \in VoiceIds /\ i < upper
    BY BelowIds
  <2>2. voice'[i] = Tidy(f[i])
    BY <2>1
  <2> QED BY <2>1, <2>2, TidyContinues DEF Continues
<1> QED BY <1>1, <1>2, SameMoves

\* A step that frees voices, and sees no new one.
LEMMA FreeingMoves ==
    ASSUME IInv, NEW u \in 0..upper, upper' = u,
           \A i \in Below : voice'[i] = voice[i] \/ voice'[i] = Tidy(Freed(voice[i]))
    PROVE  Moved
<1>1. Below' \subseteq Below
  BY BelowIds DEF Below
<1>2. ASSUME NEW i \in Below PROVE Continues(voice'[i], voice[i])
  <2>1. voice[i] \in Voice
    BY BelowIds
  <2> QED BY <2>1, FreedNotBusy, ContinuesItself DEF Continues
<1> QED BY <1>1, <1>2, SameMoves

LEMMA StaysMoves ==
    ASSUME IInv, voice' = voice, upper' = upper
    PROVE  Moved
BY FreeingMoves, BelowIds

\* find_samples: a voice it takes is no note's before start_note.
LEMMA FindSampleMoves ==
    ASSUME IInv, FindSample
    PROVE  Moved
<1>1. PICK i \in FoundVoice, k \in Kinds :
        /\ voice' = [voice EXCEPT ![i] =
              [Tidy(Freed(@)) EXCEPT !.kind = k, !.own = FALSE,
                   !.status = IF k = "release" THEN "pending" ELSE "on"]]
        /\ upper' = IF FreeBelow = {} /\ upper < voices THEN upper + 1 ELSE upper
  BY Zenon DEF FindSample
<1> DEFINE t == Tidy(Freed(voice[i]))
           st == IF k = "release" THEN "pending" ELSE "on"
           w == [t EXCEPT !.kind = k, !.own = FALSE, !.status = st]
<1>2. /\ i \in VoiceIds
      /\ \/ i < upper \/ voices = 0
         \/ FreeBelow = {} /\ upper < voices /\ i = upper
  BY FoundVoiceBelow DEF IInv
<1>3. t \in Voice
  BY <1>2, BelowIds, FreedVoice
<1>4. ~Busy(w)
  <2> HIDE DEF t, st
  <2>1. w.own = FALSE
    BY <1>3 DEF Voice
  <2> HIDE DEF w
  <2> QED BY <2>1 DEF Busy
<1>5. voice' = [voice EXCEPT ![i] = w]
  BY <1>1
<1> HIDE DEF w
<1>6. voice'[i] = w
  BY <1>2, <1>5, BelowIds
<1>7. ASSUME NEW j \in Below', j # i
      PROVE  j \in Below /\ voice'[j] = voice[j]
  <2>1. j \in Below
    <3>1. CASE upper' = upper
      BY <3>1, <1>7 DEF Below
    <3>2. CASE upper' = upper + 1 /\ FreeBelow = {} /\ upper < voices
      <4>1. upper \in Nat /\ VoiceIds \subseteq Nat
        BY BelowIds
      <4>2. i = upper
        <5>1. i = upper \/ i < upper
          BY <1>2, <3>2, <4>1, SizeNow
        <5>2. CASE i < upper
          <6>1. FoundVoice = {upper}
            BY <3>2 DEF FoundVoice
          <6> QED BY <4>1, <5>2, <6>1
        <5> QED BY <5>1, <5>2
      <4>3. j \in 0..upper
        BY <1>7, <3>2, <4>1 DEF Below
      <4> QED BY <1>7, <4>1, <4>2, <4>3 DEF Below
    <3> QED BY <1>1, <3>1, <3>2
  <2>2. voice'[j] = voice[j]
    BY <1>5, <1>7, <2>1, BelowIds
  <2> QED BY <2>1, <2>2
<1> DEFINE g == [j \in Below' |-> j]
<1>8. \A j \in Below' : g[j] = j
  OBVIOUS
<1> HIDE DEF g
<1>9. \A j \in Below' : Busy(voice'[j]) => g[j] \in Below /\ GoesOn(voice'[j], voice[g[j]])
  BY <1>4, <1>6, <1>7, <1>8, ContinuesItself DEF Continues
<1>10. \A j, h \in Below' : Busy(voice'[j]) /\ Busy(voice'[h]) /\ g[j] = g[h] => j = h
  BY <1>8
<1> QED BY <1>9, <1>10 DEF Moved

\* The last voice takes the place of a free one or of a victim, and is given up.
LEMMA VacateMoves ==
    ASSUME IInv, voices > 0, NEW spare, NEW victims, spare \subseteq VoiceIds,
           victims \subseteq VoiceIds, Vacate(spare, victims), Shrunk
    PROVE  Moved
<1> DEFINE last == voices - 1
<1>1. /\ voices \in 0..MaxVoices /\ upper \in 0..voices /\ MaxVoices \in Nat
      /\ last \in VoiceIds /\ voice \in [VoiceIds -> Voice]
  BY SizeNow DEF UpperVoices, VoiceIds
<1>2. PICK u \in 0..upper : upper' = u /\ u <= last
  BY <1>1 DEF Shrunk, Smaller
<1>3. \A i \in Below' : i \in Below /\ i # last /\ i \in VoiceIds
  BY <1>1, <1>2 DEF Below, VoiceIds
<1>4. Live(voice[last]) => last \in Below
  <2>1. upper < voices => voice[last].status = "free"
    BY <1>1 DEF IInv, UpperVoices
  <2> QED BY <2>1, <1>1 DEF Live, Below
<1>5. ASSUME NEW f \in [VoiceIds -> Voice], NEW j \in VoiceIds, Live(voice[last]),
             voice' = Swapped(f, j, last), f[last] = voice[last] \/ ~Busy(f[last]),
             \A i \in VoiceIds : i # j /\ i # last => f[i] = voice[i]
      PROVE  Moved
  <2> DEFINE g == [i \in Below' |-> IF i = j THEN last ELSE i]
  <2>1. \A i \in Below' : g[i] = IF i = j THEN last ELSE i
    OBVIOUS
  <2> HIDE DEF g
  <2>2. ASSUME NEW i \in Below', Busy(voice'[i])
        PROVE  g[i] \in Below /\ GoesOn(voice'[i], voice[g[i]])
    <3>1. i \in Below /\ i # last /\ i \in VoiceIds
      BY <1>3
    <3>2. CASE i = j
      <4>1. voice'[i] = f[last]
        BY <1>1, <1>5, <3>1, <3>2 DEF Swapped
      <4>2. g[i] = last
        BY <2>1, <3>2
      <4> QED BY <1>4, <1>5, <2>2, <4>1, <4>2, ContinuesItself DEF Continues
    <3>3. CASE i # j
      <4>1. voice'[i] = voice[i]
        BY <1>1, <1>5, <3>1, <3>3 DEF Swapped
      <4>2. g[i] = i
        BY <2>1, <3>3
      <4> QED BY <2>2, <3>1, <4>1, <4>2, ContinuesItself DEF Continues
    <3> QED BY <3>2, <3>3
  <2>3. \A i, h \in Below' : g[i] = g[h] => i = h
    <3> HIDE DEF last
    <3> QED BY <1>3, <2>1
  <2> QED BY <2>2, <2>3 DEF Moved
<1>6. CASE voice' = voice
  BY <1>2, <1>6, FreeingMoves
<1>7. ASSUME NEW j \in spare, Live(voice[last]), voice' = Swapped(voice, j, last)
      PROVE  Moved
  BY <1>1, <1>5, <1>7
<1>8. ASSUME NEW j \in victims, Live(voice[last]),
             voice' = Swapped([voice EXCEPT ![j] = Tidy(Freed(@))], j, last)
      PROVE  Moved
  <2> DEFINE f == [voice EXCEPT ![j] = Tidy(Freed(@))]
  <2>1. j \in VoiceIds
    BY <1>8
  <2>2. Tidy(Freed(voice[j])) \in Voice /\ ~Busy(Tidy(Freed(voice[j])))
    BY <2>1, <1>1, FreedVoice, FreedNotBusy
  <2>3. f \in [VoiceIds -> Voice]
    BY <2>2, <1>1
  <2>4. f[last] = voice[last] \/ ~Busy(f[last])
    BY <2>1, <2>2, <1>1
  <2>5. \A i \in VoiceIds : i # j /\ i # last => f[i] = voice[i]
    BY <1>1
  <2>6. voice' = Swapped(f, j, last)
    BY <1>8
  <2> HIDE DEF f
  <2> QED BY <1>5, <1>8, <2>1, <2>3, <2>4, <2>5, <2>6
<1> QED BY <1>6, <1>7, <1>8 DEF Vacate

LEMMA DropOneMoves ==
    ASSUME IInv, voices > 0, DropOne
    PROVE  Moved
<1> DEFINE spare == Spare(voices - 1)
           victims == {j \in 0..(voices - 1) : Decaying(j)}
<1>1. spare \subseteq VoiceIds /\ victims \subseteq VoiceIds
  BY SizeNow DEF Spare, VoiceIds
<1>2. Shrunk
  BY DEF DropOne
<1>3. CASE Vacate(spare, victims)
  <2> HIDE DEF spare, victims
  <2> QED BY <1>1, <1>2, <1>3, VacateMoves
<1>4. CASE voice' = voice
  <2>1. PICK u \in 0..upper : upper' = u
    BY <1>2, SizeNow DEF Shrunk, Smaller, UpperVoices
  <2> QED BY <1>4, <2>1, FreeingMoves
<1> QED BY <1>3, <1>4 DEF DropOne

LEMMA GrowMoves ==
    ASSUME IInv, NEW n, Grow(n), upper' = upper
    PROVE  Moved
<1>1. \A i \in Below : voice'[i] = voice[i] \/ voice'[i] = Tidy(Freed(voice[i]))
  BY BelowIds DEF Grow
<1>2. upper \in 0..upper
  BY BelowIds
<1> QED BY <1>1, <1>2, FreeingMoves

\* What the handlers make of one voice.
LEMMA HandlerContinues ==
    ASSUME NEW v \in Voice, NEW c \in Channels, NEW s \in BOOLEAN
    PROVE  /\ Continues(Cut(v), v) /\ Continues(Finished(v), v)
           /\ Continues(Dropped(v, c), v) /\ Continues(Redamped(v, c), v)
           /\ Continues(Held(v, c, s), v)
           /\ v.status = "on" => Continues([v EXCEPT !.status = "sustained"], v)
           /\ v.status \in {"pending", "on"} => Continues(Released(v, c), v)
<1>1. Continues(Cut(v), v)
  BY DEF Cut, Continues, GoesOn, Busy, Live, Voice
<1>2. Continues(Finished(v), v)
  BY DEF Finished, Continues, GoesOn, Busy, Rings, Voice
<1>3. v.status \notin {"free", "die"} => Continues([v EXCEPT !.status = "sustained"], v)
  BY DEF Continues, GoesOn, Busy, Rings, Voice
<1>4. Continues(Dropped(v, c), v) /\ Continues(Redamped(v, c), v)
  BY <1>2, <1>3, ContinuesItself DEF Dropped, Redamped
<1>5. Continues(Held(v, c, s), v)
  BY DEF Held, Continues, GoesOn, Busy, Rings, Voice
<1>6. v.status \in {"pending", "on"} => Continues(Released(v, c), v)
  <2>1. v.kind = "release" /\ v.status \in {"pending", "on"} => Continues([v EXCEPT !.status = "on"], v)
    BY DEF Continues, GoesOn, Busy, Rings, Voice
  <2> QED BY <1>2, <1>3, <2>1, ContinuesItself DEF Released
<1> QED BY <1>1, <1>2, <1>3, <1>4, <1>5, <1>6

LEMMA ContinuesOn ==
    ASSUME NEW u, NEW v, NEW w, Continues(w, v), Continues(v, u)
    PROVE  Continues(w, u)
BY DEF Continues, GoesOn

\* The handlers' loops start nothing.
LEMMA SustainMoves ==
    ASSUME IInv, NEW c \in Channels, NEW a \in PedalValues, Sustain(c, a)
    PROVE  Moved
<1> DEFINE level == PedalLevel(c, a)
           redamps == c \in DamperMode /\ c \notin DrumChannels
                      /\ level # sustain[c] /\ level # 0
           drops == level = 0 /\ ~sostenuto[c]
           f == [i \in VoiceIds |-> IF redamps THEN Redamped(voice[i], c)
                                    ELSE IF drops THEN Dropped(voice[i], c) ELSE voice[i]]
<1>1. upper' = upper
  BY DEF Sustain, sizeVars
<1>2. voice' = [i \in VoiceIds |-> IF i < upper THEN Tidy(f[i]) ELSE voice[i]]
  BY DEF Sustain, EachVoice
<1> HIDE DEF redamps, drops
<1>3. \A i \in VoiceIds : Continues(f[i], voice[i])
  BY HandlerContinues, ContinuesItself, BelowIds
<1> HIDE DEF f
<1> QED BY <1>1, <1>2, <1>3, LoopMoves

LEMMA SostenutoMoves ==
    ASSUME IInv, NEW c \in Channels, NEW a \in PedalValues, Sostenuto(c, a)
    PROVE  Moved
<1> DEFINE s == a >= 64
           drops == sustain[c] = 0 /\ ~s
           f == [i \in VoiceIds |-> IF drops THEN Dropped(Held(voice[i], c, s), c)
                                             ELSE Held(voice[i], c, s)]
<1>1. upper' = upper
  BY DEF Sostenuto, sizeVars
<1>2. voice' = [i \in VoiceIds |-> IF i < upper THEN Tidy(f[i]) ELSE voice[i]]
  BY DEF Sostenuto, EachVoice
<1>3. s \in BOOLEAN
  OBVIOUS
<1> HIDE DEF s, drops
<1>4. ASSUME NEW i \in VoiceIds
      PROVE  Continues(f[i], voice[i])
  <2>1. voice[i] \in Voice
    BY BelowIds
  <2>2. Held(voice[i], c, s) \in Voice
    BY <1>3, <2>1, HandlerTypes
  <2>3. Continues(Held(voice[i], c, s), voice[i])
    BY <1>3, <2>1, HandlerContinues
  <2>4. Continues(Dropped(Held(voice[i], c, s), c), Held(voice[i], c, s))
    BY <1>3, <2>2, HandlerContinues
  <2>5. Continues(Dropped(Held(voice[i], c, s), c), voice[i])
    BY <2>3, <2>4, ContinuesOn
  <2> QED BY <2>3, <2>5
<1> HIDE DEF f
<1> QED BY <1>1, <1>2, <1>4, LoopMoves

LEMMA SilenceMoves ==
    ASSUME IInv, NEW c \in Channels, SilenceNotes(c), upper' = upper
    PROVE  Moved
<1> DEFINE f == [i \in VoiceIds |->
                   IF voice[i].status # "on" \/ voice[i].ch # c THEN voice[i]
                   ELSE IF sustain[c] # 0 THEN [voice[i] EXCEPT !.status = "sustained"]
                   ELSE Finished(voice[i])]
<1>1. voice' = [i \in VoiceIds |-> IF i < upper THEN Tidy(f[i]) ELSE voice[i]]
  BY DEF SilenceNotes, EachVoice
<1>2. ASSUME NEW i \in VoiceIds
      PROVE  Continues(f[i], voice[i])
  <2>1. voice[i] \in Voice
    BY BelowIds
  <2>2. /\ Continues(Finished(voice[i]), voice[i])
        /\ voice[i].status = "on" => Continues([voice[i] EXCEPT !.status = "sustained"], voice[i])
    BY <2>1, HandlerContinues
  <2> QED BY <2>2, ContinuesItself
<1> HIDE DEF f
<1> QED BY <1>1, <1>2, LoopMoves

\* A loop that cuts the voices of a set.
LEMMA CuttingMoves ==
    ASSUME IInv, upper' = upper, NEW T,
           voice' = [i \in VoiceIds |-> IF i < upper
                        THEN Tidy(IF i \in T THEN Cut(voice[i]) ELSE voice[i]) ELSE voice[i]]
    PROVE  Moved
<1> DEFINE f == [i \in VoiceIds |-> IF i \in T THEN Cut(voice[i]) ELSE voice[i]]
<1>1. voice' = [i \in VoiceIds |-> IF i < upper THEN Tidy(f[i]) ELSE voice[i]]
  OBVIOUS
<1>2. \A i \in VoiceIds : Continues(Cut(voice[i]), voice[i])
  BY BelowIds DEF Cut, Continues, GoesOn, Busy, Live, Voice
<1>3. \A i \in VoiceIds : Continues(f[i], voice[i])
  BY <1>2, ContinuesItself
<1> HIDE DEF f
<1> QED BY <1>1, <1>3, LoopMoves

LEMMA NoteOffMoves ==
    ASSUME IInv, NEW c \in Channels, NEW n \in Notes, NoteOff(c, n)
    PROVE  Moved
<1> DEFINE m == LegatoOff(c, n).note
           matches(v) == /\ v.status \in {"pending", "on"} /\ v.ch = c
                         /\ v.note = m /\ v.vid = OffVid(c, m)
           f == [i \in VoiceIds |-> IF matches(voice[i]) THEN Released(voice[i], c)
                                                         ELSE voice[i]]
<1>1. upper' = upper
  BY DEF NoteOff, sizeVars
<1> HIDE DEF m
<1>2. \/ voice' = voice
      \/ voice' = EachVoice(LAMBDA v : IF matches(v) THEN Released(v, c) ELSE v)
  BY DEF NoteOff, m
<1>3. CASE voice' = voice
  BY <1>1, <1>3, StaysMoves
<1>4. CASE voice' = EachVoice(LAMBDA v : IF matches(v) THEN Released(v, c) ELSE v)
  <2>1. voice' = [i \in VoiceIds |-> IF i < upper THEN Tidy(f[i]) ELSE voice[i]]
    BY <1>4 DEF EachVoice
  <2>2. ASSUME NEW i \in VoiceIds PROVE Continues(f[i], voice[i])
    <3>1. voice[i] \in Voice
      BY BelowIds
    <3>2. voice[i].status \in {"pending", "on"} => Continues(Released(voice[i], c), voice[i])
      BY <3>1, HandlerContinues
    <3> QED BY <3>2, ContinuesItself
  <2> HIDE DEF f
  <2> QED BY <1>1, <2>1, <2>2, LoopMoves
<1> QED BY <1>2, <1>3, <1>4

LEMMA KillAllMoves ==
    ASSUME IInv, KillAll, upper' = upper
    PROVE  Moved
<1>1. voice' = [i \in VoiceIds |-> IF i < upper
                   THEN Tidy(IF i \in VoiceIds THEN Cut(voice[i]) ELSE voice[i]) ELSE voice[i]]
  BY DEF KillAll, EachVoice
<1> QED BY <1>1, CuttingMoves

LEMMA ControlMoves ==
    ASSUME IInv, ControlEvent
    PROVE  Moved /\ call'.op # "note"
<1>1. PICK c \in Channels :
         \/ \E a \in PedalValues : Sustain(c, a) \/ Sostenuto(c, a)
         \/ LegatoControl(c) \/ \E b \in BOOLEAN : Mono(c, b)
         \/ ResetControllers(c) \/ AllNotesOff(c) \/ AllSoundsOff(c)
  BY DEF ControlEvent
<1>2. call'.op # "note"
  <2>1. call' = call /\ call = Idle
    BY <1>1, LegatoControlSets DEF Sustain, Sostenuto, Mono, ResetControllers, AllNotesOff,
       AllSoundsOff, chanVars, sizeVars
  <2> QED BY <2>1 DEF Idle
<1>3. CASE \E a \in PedalValues : Sustain(c, a) \/ Sostenuto(c, a)
  BY <1>2, <1>3, SustainMoves, SostenutoMoves
<1>4. CASE LegatoControl(c)
  BY <1>2, <1>4, LegatoControlSets, StaysMoves DEF sizeVars
<1>5. CASE AllNotesOff(c) \/ \E b \in BOOLEAN : Mono(c, b)
  BY <1>2, <1>5, SilenceMoves DEF AllNotesOff, Mono, sizeVars
<1>6. CASE AllSoundsOff(c)
  <2> DEFINE T == {i \in VoiceIds : voice[i].ch = c}
  <2>1. voice' = [i \in VoiceIds |-> IF i < upper
                   THEN Tidy(IF i \in T THEN Cut(voice[i]) ELSE voice[i]) ELSE voice[i]]
    BY <1>6 DEF AllSoundsOff, EachVoice
  <2> HIDE DEF T
  <2> QED BY <1>2, <1>6, <2>1, CuttingMoves DEF AllSoundsOff, sizeVars
<1>7. CASE ResetControllers(c)
  <2> DEFINE T == {i \in VoiceIds : legato[c].status /\ legato[c].base # NoNote
                                      /\ voice[i].ch = c
                                      /\ voice[i].note = legato[c].base}
  <2>1. voice' = [i \in VoiceIds |-> IF i < upper
                   THEN Tidy(IF i \in T THEN Cut(voice[i]) ELSE voice[i]) ELSE voice[i]]
    BY <1>7 DEF ResetControllers, EachVoice
  <2> HIDE DEF T
  <2> QED BY <1>2, <1>7, <2>1, CuttingMoves DEF ResetControllers, sizeVars
<1> QED BY <1>1, <1>2, <1>3, <1>4, <1>5, <1>6, <1>7

\* The polyphony control moves voices, and frees some.
LEMMA PolyphonyMoves ==
    ASSUME IInv, Polyphony
    PROVE  Moved
<1>1. ASSUME \/ \E d \in (0 - MaxStep)..MaxStep : PressVoices(d)
             \/ Drain
      PROVE  Moved
  <2>1. UNCHANGED <<voice, sizeVars>>
    BY <1>1 DEF PressVoices, Drain
  <2> QED BY <2>1, StaysMoves DEF sizeVars
<1>2. ASSUME Restore PROVE Moved
  <2>1. /\ voices # oldVoices
        /\ IF voices < oldVoices THEN Grow(oldVoices - voices) /\ UNCHANGED upper ELSE DropOne
    BY <1>2 DEF Restore
  <2>2. CASE voices < oldVoices
    BY <2>1, <2>2, GrowMoves
  <2>3. CASE ~(voices < oldVoices)
    <3>1. voices > 0
      BY <2>1, <2>3, SizeNow
    <3> QED BY <2>1, <2>3, <3>1, DropOneMoves
  <2> QED BY <2>2, <2>3
<1>3. ASSUME Resize PROVE Moved
  <2> DEFINE d == call.delta
  <2>1. CASE ResetVoices
    <3>1. Below' = {}
      BY <2>1, ResetVoicesPasses
    <3> QED BY <3>1, SameMoves
  <2>2. CASE Grow(d) /\ UNCHANGED upper
    <3> HIDE DEF d
    <3> QED BY <2>2, GrowMoves
  <2>3. CASE UNCHANGED <<voice, sizeVars>>
    BY <2>3, StaysMoves DEF sizeVars
  <2> QED BY <1>3, <2>1, <2>2, <2>3 DEF Resize
<1>4. ASSUME Drop PROVE Moved
  <2>1. CASE DropOne /\ voices > 0
    BY <2>1, DropOneMoves
  <2>2. CASE UNCHANGED <<voice, voices, upper>>
    BY <2>2, StaysMoves
  <2> QED BY <1>4, <2>1, <2>2 DEF Drop
<1>5. ASSUME ThinKill PROVE Moved
  <2>1. PICK i \in Steals : voice' = [voice EXCEPT ![i] = Tidy(Freed(@))]
    BY <1>5 DEF ThinKill
  <2>2. \A j \in Below : voice'[j] = voice[j] \/ voice'[j] = Tidy(Freed(voice[j]))
    BY <2>1, BelowIds
  <2>3. upper \in 0..upper /\ upper' = upper
    BY <1>5, BelowIds DEF ThinKill, sizeVars
  <2> QED BY <2>2, <2>3, FreeingMoves
<1>6. ASSUME ThinResize PROVE Moved
  <2> DEFINE t == call.target
             spare == Spare(t)
             victims == {j \in 0..(voices - 1) : Decaying(j) /\ ~Drum(voice[j])}
  <2>1. call \in [op : {"thin"}, kill : 0..MaxVoices, target : 0..MaxVoices]
    BY <1>6, SizeNow DEF ThinResize, Calls
  <2>2. CASE Grow(t - voices) /\ UNCHANGED upper
    <3> HIDE DEF t
    <3> QED BY <2>2, GrowMoves
  <2>3. CASE t < voices /\ Vacate(spare, victims) /\ Shrunk
    <3>1. t \in 0..MaxVoices /\ spare \subseteq VoiceIds /\ victims \subseteq VoiceIds
      BY <2>1, SizeNow DEF Spare, VoiceIds
    <3> HIDE DEF t, spare, victims
    <3>2. voices > 0
      BY <2>3, <3>1, SizeNow
    <3> QED BY <2>3, <3>1, <3>2, VacateMoves
  <2>4. CASE UNCHANGED <<voice, voices, upper>>
    BY <2>4, StaysMoves
  <2> QED BY <1>6, <2>2, <2>3, <2>4 DEF ThinResize
<1>7. ASSUME ThinDone PROVE Moved
  <2>1. PICK u \in 0..upper : upper' = u
    BY <1>7 DEF ThinDone, Trims
  <2>2. voice' = voice
    BY <1>7 DEF ThinDone
  <2> QED BY <2>1, <2>2, FreeingMoves
<1> QED BY <1>1, <1>2, <1>3, <1>4, <1>5, <1>6, <1>7 DEF Polyphony

LEMMA MixBlockMoves ==
    ASSUME IInv, MixBlock
    PROVE  Moved
<1>1. PICK gone \in SUBSET Below :
        /\ voice' = [i \in VoiceIds |-> IF i \in gone THEN Tidy(Freed(voice[i])) ELSE voice[i]]
        /\ upper' \in Trims({i \in Below : Live(voice[i])} \ gone)
  BY DEF MixBlock
<1>2. PICK u \in 0..upper : upper' = u
  BY <1>1 DEF Trims
<1>3. \A i \in Below : voice'[i] = voice[i] \/ voice'[i] = Tidy(Freed(voice[i]))
  BY <1>1, BelowIds
<1> QED BY <1>2, <1>3, FreeingMoves

-----------------------------------------------------------------------------
(* What note_on adds.                                                      *)

\* voice_control takes one note-on off what a voice of the channel may still hear.
LEMMA NewNoteAges ==
    ASSUME NEW v \in Voice, NEW c \in Channels, NEW n \in Notes, Busy(NewNote(v, c, n))
    PROVE  LET w == NewNote(v, c, n)
           IN  /\ Busy(v) /\ w.ch = v.ch /\ w.note = v.note /\ (Rings(w) => Rings(v))
               /\ IF v.ch = c THEN v.cnt > 0 /\ w.cnt = v.cnt - 1 ELSE w.cnt = v.cnt
               /\ v.ch = c /\ v.note = n => Overlap
<1> DEFINE aged == IF v.cnt > 0 THEN [v EXCEPT !.cnt = @ - 1] ELSE Cut(v)
           more == [aged EXCEPT !.ovl = @ - 1]
           w == NewNote(v, c, n)
<1>1. ASSUME NEW x \in Voice PROVE ~Busy(Cut(x))
  BY <1>1 DEF Cut, Busy, Live, Voice
<1>2. aged \in Voice
  <2>1. ChannelLimit \in Nat
    BY VoicesAssumption
  <2> QED BY <2>1, VoiceSteps DEF Voice
<1>3. Busy(aged) => /\ Busy(v) /\ aged.ch = v.ch /\ aged.note = v.note
                    /\ aged.status = v.status /\ aged.own = v.own /\ aged.kind = v.kind
                    /\ v.cnt > 0 /\ aged.cnt = v.cnt - 1
  <2>1. CASE v.cnt > 0
    BY <2>1 DEF Busy, Voice
  <2>2. CASE ~(v.cnt > 0)
    BY <2>2, <1>1
  <2> QED BY <2>1, <2>2
<1>4. /\ more.status = aged.status /\ more.own = aged.own /\ more.kind = aged.kind
      /\ more.ch = aged.ch /\ more.note = aged.note /\ more.cnt = aged.cnt
  <2> HIDE DEF aged
  <2> QED BY <1>2 DEF Voice
<1>5. ~Busy(Cut(aged))
  BY <1>1, <1>2
<1> HIDE DEF more
<1>6. w = IF ~Live(v) \/ v.ch # c THEN v
          ELSE IF Alternate(c, n, v.note) \/ mono[c] THEN Cut(aged)
               ELSE IF v.note # n THEN aged
               ELSE IF ~Overlap \/ AssignMode = 0 THEN Cut(aged)
               ELSE IF AssignMode = 2 THEN aged
               ELSE IF v.ovl > 0 THEN more
               ELSE Cut(aged)
  BY DEF NewNote, more
<1> HIDE DEF aged
<1>7. CASE v.ch # c
  BY <1>6, <1>7
<1>8. CASE v.ch = c
  <2>1. Live(v)
    BY <1>6 DEF Busy, Live
  <2>2. (w = aged \/ w = more) /\ (v.note = n => Overlap)
    BY <1>5, <1>6, <1>8, <2>1
  <2>3. Busy(aged)
    BY <1>4, <2>2 DEF Busy
  <2>4. w.ch = v.ch /\ w.note = v.note /\ w.status = v.status /\ w.own = v.own /\ w.kind = v.kind
    BY <1>3, <1>4, <2>2, <2>3
  <2>5. Busy(v) /\ v.cnt > 0 /\ w.cnt = v.cnt - 1
    BY <1>3, <1>4, <2>2, <2>3
  <2> HIDE DEF w
  <2>6. Rings(w) => Rings(v)
    BY <2>4 DEF Rings
  <2> QED BY <1>8, <2>2, <2>4, <2>5, <2>6 DEF w
<1> QED BY <1>7, <1>8

LEMMA CallNow ==
    ASSUME IInv, call.op = "note"
    PROVE  /\ call.ch \in Channels /\ call.note \in Notes /\ call.todo \in 0..MaxLayers
           /\ call.vlist \in SUBSET VoiceIds
           /\ call \in [op : {"note"}, ch : Channels, note : Notes, todo : 0..MaxLayers,
                        vlist : SUBSET VoiceIds]
BY SizeNow DEF Calls

\* A set that lies in a small one is small.
LEMMA SmallPart ==
    ASSUME NEW T, IsFiniteSet(T), Small(T), NEW S \in SUBSET T
    PROVE  Small(S)
<1>1. /\ Cardinality(S) <= Cardinality(T) /\ Cardinality(S) \in Nat /\ Cardinality(T) \in Nat
  BY FS_Subset, FS_CardinalityType
<1> QED BY <1>1, VoicesAssumption DEF Small

\* A step that starts nothing, and leaves the note alone that is about to.
LEMMA MovedCounted ==
    ASSUME IInv, Counted, Moved, call'.op = "note" => call' = call
    PROVE  Counted'
<1>1. /\ \A c \in Channels, k \in 0..ChannelLimit : Small(Generation(c, k)')
      /\ ~Overlap => \A c \in Channels, n \in Notes : Small(Playing(c, n)')
  BY MovedFewer DEF Counted
<1>2. ASSUME call'.op = "note"
      PROVE  /\ Generation(call.ch, ChannelLimit)' = {}
             /\ ~Overlap => Playing(call.ch, call.note)' = {}
             /\ IsFiniteSet(call'.vlist) /\ Cardinality(call'.vlist) + call'.todo <= MaxLayers
  <2>1. PICK c, n : c = call.ch /\ n = call.note
    OBVIOUS
  <2>2. c = call'.ch /\ n = call'.note
    BY <1>2, <2>1
  <2>3. Generation(c, ChannelLimit)' = {} /\ (~Overlap => Playing(c, n)' = {})
    BY <1>2, <2>1, MovedFewer DEF Counted
  <2>4. IsFiniteSet(call'.vlist) /\ Cardinality(call'.vlist) + call'.todo <= MaxLayers
    BY <1>2 DEF Counted
  <2> QED BY <2>2, <2>3, <2>4 DEF Generation, Playing
<1> QED BY <1>1, <1>2 DEF Counted, Small

\* find_samples: one sample more in the list, one less to come.
LEMMA FindSampleCounted ==
    ASSUME IInv, Counted, FindSample
    PROVE  Counted'
<1>1. PICK i : call' = [call EXCEPT !.todo = @ - 1, !.vlist = @ \cup {i}]
  BY Zenon DEF FindSample
<1>2. call.op = "note" /\ call.todo > 0
  BY DEF FindSample
<1>3. /\ call'.ch = call.ch /\ call'.note = call.note /\ call'.todo = call.todo - 1
      /\ call'.vlist = call.vlist \cup {i} /\ call'.op = "note"
  BY <1>1, <1>2, CallNow
<1>4. Moved
  BY FindSampleMoves
<1>5. /\ \A c \in Channels, k \in 0..ChannelLimit : Small(Generation(c, k)')
      /\ ~Overlap => \A c \in Channels, n \in Notes : Small(Playing(c, n)')
  BY <1>4, MovedFewer DEF Counted
<1>6. /\ Generation(call.ch, ChannelLimit)' = {}
      /\ ~Overlap => Playing(call.ch, call.note)' = {}
  <2>1. PICK c, n : c = call.ch /\ n = call.note
    OBVIOUS
  <2>2. c = call'.ch /\ n = call'.note
    BY <1>3, <2>1
  <2>3. Generation(c, ChannelLimit)' = {} /\ (~Overlap => Playing(c, n)' = {})
    BY <1>2, <1>4, <2>1, MovedFewer DEF Counted
  <2> QED BY <2>2, <2>3 DEF Generation, Playing
<1>7. IsFiniteSet(call'.vlist) /\ Cardinality(call'.vlist) + call'.todo <= MaxLayers
  <2> DEFINE V == call.vlist
             W == V \cup {i}
             d == call.todo
  <2>1. IsFiniteSet(V) /\ Cardinality(V) + d <= MaxLayers /\ d \in Nat
    BY <1>2, CallNow DEF Counted
  <2> HIDE DEF V, d
  <2>2. IsFiniteSet(W) /\ Cardinality(V) \in Nat
        /\ (Cardinality(W) = Cardinality(V) \/ Cardinality(W) = Cardinality(V) + 1)
    BY <2>1, FS_AddElement, FS_CardinalityType
  <2> HIDE DEF W
  <2>3. Cardinality(W) + (d - 1) <= MaxLayers
    BY <2>1, <2>2, VoicesAssumption
  <2>4. call'.vlist = W /\ call'.todo = d - 1
    BY <1>3 DEF W, V, d
  <2> QED BY <2>2, <2>3, <2>4
<1> QED BY <1>3, <1>5, <1>6, <1>7 DEF Counted, Small

\* note_on: every generation of the channel grows older, and the youngest is the new
\* note's alone.
LEMMA NoteOnCounted ==
    ASSUME IInv, Counted, NEW c \in Channels, NEW n \in Notes, NoteOn(c, n)
    PROVE  Counted'
<1>1. upper' = upper /\ call = Idle
  BY DEF NoteOn, sizeVars
<1>2. CASE UNCHANGED <<voice, call>>
  BY <1>1, <1>2, StaysMoves, MovedCounted
<1>3. CASE /\ voice' = EachVoice(LAMBDA v : NewNote(v, c, n))
           /\ \E k \in 0..MaxLayers :
                call' = IF k = 0 THEN Idle
                        ELSE [op |-> "note", ch |-> c, note |-> n, todo |-> k, vlist |-> {}]
  <2> DEFINE f == [i \in VoiceIds |-> NewNote(voice[i], c, n)]
  <2>1. voice' = [i \in VoiceIds |-> IF i < upper THEN Tidy(f[i]) ELSE voice[i]]
    BY <1>3 DEF EachVoice
  <2>2. Below' = Below
    BY <1>1 DEF Below
  <2>3. ASSUME NEW i \in Below, Busy(voice'[i])
        PROVE  LET v == voice[i]
                   w == voice'[i]
               IN  /\ Busy(v) /\ w.ch = v.ch /\ w.note = v.note /\ (Rings(w) => Rings(v))
                   /\ IF v.ch = c THEN v.cnt > 0 /\ w.cnt = v.cnt - 1 ELSE w.cnt = v.cnt
                   /\ v.ch = c /\ v.note = n => Overlap
                   /\ v.cnt \in 0..ChannelLimit
    <3>1. i \in VoiceIds /\ i < upper /\ voice[i] \in Voice
      BY BelowIds
    <3>2. voice'[i] = Tidy(f[i])
      BY <2>1, <3>1
    <3>3. voice'[i] = f[i]
      BY <2>3, <3>2, TidyContinues
    <3>4. voice'[i] = NewNote(voice[i], c, n)
      BY <3>1, <3>3
    <3>5. voice[i].cnt \in 0..ChannelLimit
      BY <3>1 DEF Voice
    <3> HIDE DEF f
    <3> QED BY <2>3, <3>1, <3>4, <3>5, NewNoteAges
  <2>4. ASSUME NEW d \in Channels, NEW k \in 0..ChannelLimit
        PROVE  Small(Generation(d, k)') /\ (d = c /\ k = ChannelLimit => Generation(d, k)' = {})
    <3>1. CASE d # c
      <4> DEFINE S == Generation(d, k)'
                 T == Generation(d, k)
      <4>1. S \subseteq T
        BY <2>2, <2>3, <3>1 DEF Generation
      <4>2. T \subseteq Below /\ Small(T)
        BY DEF Generation, Counted
      <4> HIDE DEF S, T
      <4>3. IsFiniteSet(T)
        BY <4>2, FiniteVoices
      <4>4. Small(S)
        BY <4>1, <4>2, <4>3, SmallPart
      <4> QED BY <3>1, <4>4 DEF S
    <3>2. CASE d = c /\ k # ChannelLimit
      <4> DEFINE S == Generation(d, k)'
                 T == Generation(d, k + 1)
      <4>0. k + 1 \in 0..ChannelLimit
        BY <3>2, VoicesAssumption
      <4>1. S \subseteq T
        BY <2>2, <2>3, <3>2 DEF Generation
      <4>2. T \subseteq Below /\ Small(T)
        BY <4>0 DEF Generation, Counted
      <4> HIDE DEF S, T
      <4>3. IsFiniteSet(T)
        BY <4>2, FiniteVoices
      <4>4. Small(S)
        BY <4>1, <4>2, <4>3, SmallPart
      <4> QED BY <3>2, <4>4 DEF S
    <3>3. CASE d = c /\ k = ChannelLimit
      <4> DEFINE S == Generation(d, k)'
      <4>1. S = {}
        <5> SUFFICES ASSUME NEW i \in S PROVE FALSE
          OBVIOUS
        <5>1. i \in Below /\ Busy(voice'[i]) /\ voice'[i].ch = c /\ voice'[i].cnt = ChannelLimit
          BY <2>2, <3>3 DEF Generation
        <5>2. PICK x \in 0..ChannelLimit : ChannelLimit = x - 1
          BY <2>3, <5>1
        <5> QED BY <5>2, VoicesAssumption
      <4> HIDE DEF S
      <4>2. Small(S)
        BY <4>1, FS_EmptySet, VoicesAssumption DEF Small
      <4> QED BY <4>1, <4>2 DEF S
    <3> QED BY <3>1, <3>2, <3>3
  <2>5. ASSUME ~Overlap, NEW d \in Channels, NEW m \in Notes
        PROVE  Small(Playing(d, m)') /\ (d = c /\ m = n => Playing(d, m)' = {})
    <3> DEFINE S == Playing(d, m)'
               T == Playing(d, m)
    <3>1. S \subseteq T /\ (d = c /\ m = n => S = {})
      <4>1. ASSUME NEW i \in S PROVE i \in Below /\ Busy(voice'[i]) /\ Rings(voice'[i])
                                     /\ voice'[i].ch = d /\ voice'[i].note = m
        BY <2>2 DEF Playing, Rings, Busy
      <4>2. ASSUME NEW i \in S PROVE i \in T /\ ~(d = c /\ m = n)
        BY <2>3, <2>5, <4>1 DEF Playing
      <4> QED BY <4>2
    <3>2. T \subseteq Below /\ Small(T)
      BY <2>5 DEF Playing, Counted
    <3> HIDE DEF S, T
    <3>3. IsFiniteSet(T)
      BY <3>2, FiniteVoices
    <3>4. Small(S)
      BY <3>1, <3>2, <3>3, SmallPart
    <3> QED BY <3>1, <3>4 DEF S
  <2>6. ASSUME call'.op = "note"
        PROVE  /\ Generation(call.ch, ChannelLimit)' = {}
               /\ ~Overlap => Playing(call.ch, call.note)' = {}
               /\ IsFiniteSet(call'.vlist) /\ Cardinality(call'.vlist) + call'.todo <= MaxLayers
    <3>1. PICK k \in 0..MaxLayers :
             call' = [op |-> "note", ch |-> c, note |-> n, todo |-> k, vlist |-> {}]
      <4>1. PICK k \in 0..MaxLayers :
               call' = IF k = 0 THEN Idle
                       ELSE [op |-> "note", ch |-> c, note |-> n, todo |-> k, vlist |-> {}]
        BY <1>3
      <4>2. k # 0
        BY <2>6, <4>1 DEF Idle
      <4> QED BY <4>1, <4>2
    <3>2. /\ call'.ch = c /\ call'.note = n /\ call'.todo = k /\ call'.vlist = {}
      BY <3>1
    <3>3. ChannelLimit \in 0..ChannelLimit
      BY VoicesAssumption
    <3>4. Generation(c, ChannelLimit)' = {} /\ (~Overlap => Playing(c, n)' = {})
      BY <2>4, <2>5, <3>3
    <3>5. Cardinality({}) + k <= MaxLayers /\ IsFiniteSet({})
      BY FS_EmptySet, VoicesAssumption
    <3> QED BY <3>2, <3>4, <3>5 DEF Generation, Playing
  <2> QED BY <2>4, <2>5, <2>6 DEF Counted, Small
<1> QED BY <1>2, <1>3 DEF NoteOn

\* start_note: the voices of the list become the youngest generation.
LEMMA StartNoteCounted ==
    ASSUME IInv, Counted, StartNote
    PROVE  Counted'
<1> DEFINE c == call.ch
           n == call.note
<1>1. /\ call.op = "note" /\ upper' = upper /\ call' = Idle
      /\ \/ LegatoGoesOn(c) /\ UNCHANGED <<voice, head>>
         \/ voice' = [i \in VoiceIds |-> IF i \in call.vlist
                                         THEN Started(voice[i], c, n) ELSE voice[i]]
  BY DEF StartNote, sizeVars
<1>2. /\ c \in Channels /\ n \in Notes /\ call.todo \in 0..MaxLayers
      /\ call'.op # "note"
  BY <1>1, CallNow DEF Idle
<1>3. CASE UNCHANGED voice
  BY <1>1, <1>2, <1>3, StaysMoves, MovedCounted
<1>4. CASE voice' = [i \in VoiceIds |-> IF i \in call.vlist
                                        THEN Started(voice[i], c, n) ELSE voice[i]]
  <2> DEFINE V == call.vlist
  <2>1. /\ IsFiniteSet(V) /\ Small(V)
        /\ Generation(c, ChannelLimit) = {} /\ (~Overlap => Playing(c, n) = {})
    <3>1. /\ IsFiniteSet(V) /\ Cardinality(V) + call.todo <= MaxLayers
          /\ Generation(c, ChannelLimit) = {} /\ (~Overlap => Playing(c, n) = {})
      BY <1>1 DEF Counted
    <3>2. Cardinality(V) \in Nat
      BY <3>1, FS_CardinalityType
    <3> HIDE DEF V
    <3>3. Small(V)
      BY <1>2, <3>1, <3>2, VoicesAssumption DEF Small
    <3> QED BY <3>1, <3>3
  <2>2. Below' = Below
    BY <1>1 DEF Below
  <2>3. \A i \in Below : IF i \in V
           THEN voice'[i].ch = c /\ voice'[i].note = n /\ voice'[i].cnt = ChannelLimit
           ELSE voice'[i] = voice[i]
    <3> SUFFICES ASSUME NEW i \in Below PROVE IF i \in V
           THEN voice'[i].ch = c /\ voice'[i].note = n /\ voice'[i].cnt = ChannelLimit
           ELSE voice'[i] = voice[i]
      OBVIOUS
    <3>1. i \in VoiceIds /\ voice[i] \in Voice
      BY BelowIds
    <3>2. LET w == Started(voice[i], c, n) IN w.ch = c /\ w.note = n /\ w.cnt = ChannelLimit
      BY <3>1 DEF Started, Voice
    <3> QED BY <1>4, <3>1, <3>2
  <2> HIDE DEF c, n, V
  <2>4. ASSUME NEW d \in Channels, NEW k \in 0..ChannelLimit
        PROVE  Small(Generation(d, k)')
    <3> DEFINE S == Generation(d, k)'
               T == Generation(d, k)
    <3>1. S \subseteq T \/ S \subseteq V
      <4>1. CASE d = c /\ k = ChannelLimit
        BY <2>1, <2>2, <2>3, <4>1 DEF Generation
      <4>2. CASE ~(d = c /\ k = ChannelLimit)
        BY <2>2, <2>3, <4>2 DEF Generation
      <4> QED BY <4>1, <4>2
    <3>2. T \subseteq Below /\ Small(T)
      BY DEF Generation, Counted
    <3> HIDE DEF S, T
    <3>3. IsFiniteSet(T)
      BY <3>2, FiniteVoices
    <3>4. Small(S)
      BY <2>1, <3>1, <3>2, <3>3, SmallPart
    <3> QED BY <3>4 DEF S
  <2>5. ASSUME ~Overlap, NEW d \in Channels, NEW m \in Notes
        PROVE  Small(Playing(d, m)')
    <3> DEFINE S == Playing(d, m)'
               T == Playing(d, m)
    <3>1. S \subseteq T \/ S \subseteq V
      <4>1. CASE d = c /\ m = n
        BY <2>1, <2>2, <2>3, <2>5, <4>1 DEF Playing
      <4>2. CASE ~(d = c /\ m = n)
        BY <2>2, <2>3, <4>2 DEF Playing
      <4> QED BY <4>1, <4>2
    <3>2. T \subseteq Below /\ Small(T)
      BY <2>5 DEF Playing, Counted
    <3> HIDE DEF S, T
    <3>3. IsFiniteSet(T)
      BY <3>2, FiniteVoices
    <3>4. Small(S)
      BY <2>1, <3>1, <3>2, <3>3, SmallPart
    <3> QED BY <3>4 DEF S
  <2> QED BY <1>2, <2>4, <2>5 DEF Counted, Small
<1> QED BY <1>1, <1>3, <1>4

LEMMA InitCounted == Init => Counted
<1> SUFFICES ASSUME Init PROVE Counted
  OBVIOUS
<1>1. Below = {} /\ call.op # "note"
  BY InitRinging
<1>2. \A c, k : Generation(c, k) = {} /\ Playing(c, k) = {}
  BY <1>1 DEF Generation, Playing
<1>3. Small({})
  BY FS_EmptySet, VoicesAssumption DEF Small
<1> QED BY <1>1, <1>2, <1>3 DEF Counted

LEMMA NextCounted == IInv /\ Counted /\ [Next]_vars => Counted'
<1> SUFFICES ASSUME IInv, Counted, [Next]_vars PROVE Counted'
  OBVIOUS
<1>1. ASSUME NEW c \in Channels, NEW n \in Notes, NoteOn(c, n) PROVE Counted'
  BY <1>1, NoteOnCounted
<1>2. ASSUME NEW c \in Channels, NEW n \in Notes, NoteOff(c, n) PROVE Counted'
  <2>1. call' = call
    BY <1>2 DEF NoteOff
  <2> QED BY <1>2, <2>1, NoteOffMoves, MovedCounted
<1>3. CASE ControlEvent
  BY <1>3, ControlMoves, MovedCounted
<1>4. CASE ChangeKey \/ ResetMidi
  <2>1. KillAll /\ upper' = upper /\ call' = call
    BY <1>4 DEF ChangeKey, ResetMidi, sizeVars
  <2> QED BY <2>1, KillAllMoves, MovedCounted
<1>5. CASE Allocation
  BY <1>5, FindSampleCounted, StartNoteCounted DEF Allocation
<1>6. CASE MixBlock
  <2>1. call' = call
    BY <1>6 DEF MixBlock
  <2> QED BY <1>6, <2>1, MixBlockMoves, MovedCounted
<1>7. CASE Polyphony
  BY <1>7, PolyphonyMoves, PolyphonyPasses, MovedCounted
<1>8. CASE UNCHANGED vars
  <2>1. voice' = voice /\ upper' = upper /\ call' = call
    BY <1>8 DEF vars, sizeVars
  <2> QED BY <2>1, StaysMoves, MovedCounted
<1> QED BY <1>1, <1>2, <1>3, <1>4, <1>5, <1>6, <1>7, <1>8 DEF Next, KeyEvent

\* Without opt_overlap_voice_allow only one instance of a note plays on a channel: at
\* most the voices of one note-on (voice_control, and the comment at playmidi.c:3726).
THEOREM NoteHasOneInstance == Spec => []OneInstance
<1>1. IInv /\ Counted => OneInstance
  <2> SUFFICES ASSUME IInv, Counted, ~Overlap, NEW c \in Channels, NEW n \in Notes
               PROVE  Cardinality(Sounding(c) \cap StartedOn(c, n)) <= MaxLayers
    BY DEF OneInstance
  <2>1. Sounding(c) \cap StartedOn(c, n) = Playing(c, n)
    BY DEF Sounding, StartedOn, Playing, Rings
  <2> QED BY <2>1 DEF Counted, Small
<1> QED BY <1>1, AlwaysIInv, InitCounted, NextCounted, PTL DEF Spec

\* A channel has at most the voices of as many notes as channel_voice_count lets a new
\* note find, and of the new note (voice_control).
THEOREM ChannelAlwaysBounded == Spec => []ChannelBounded
<1>1. IInv /\ Counted => ChannelBounded
  <2> SUFFICES ASSUME IInv, Counted, NEW c \in Channels
               PROVE  Cardinality({i \in Below : voice[i].own /\ voice[i].ch = c
                                      /\ voice[i].status \notin {"free", "die"}})
                        <= (ChannelLimit + 1) * MaxLayers
    BY DEF ChannelBounded
  <2> DEFINE S == {i \in Below : voice[i].own /\ voice[i].ch = c
                                   /\ voice[i].status \notin {"free", "die"}}
             h == [i \in S |-> voice[i].cnt]
  <2>1. IsFiniteSet(S)
    BY FiniteVoices
  <2>2. \A i \in S : h[i] \in 0..ChannelLimit
    <3> SUFFICES ASSUME NEW i \in S PROVE voice[i].cnt \in 0..ChannelLimit
      OBVIOUS
    <3>1. voice[i] \in Voice
      BY BelowIds
    <3> QED BY <3>1 DEF Voice
  <2>3. ASSUME NEW k \in 0..ChannelLimit
        PROVE  Cardinality({i \in S : h[i] = k}) <= MaxLayers
    <3>1. {i \in S : h[i] = k} = Generation(c, k)
      BY DEF Generation, Busy
    <3> HIDE DEF S, h
    <3> QED BY <3>1 DEF Counted, Small
  <2> HIDE DEF S, h
  <2>4. Cardinality(S) <= (ChannelLimit + 1) * MaxLayers
    BY <2>1, <2>2, <2>3, Classes, VoicesAssumption
  <2> QED BY <2>4 DEF S
<1> QED BY <1>1, AlwaysIInv, InitCounted, NextCounted, PTL DEF Spec
=============================================================================
