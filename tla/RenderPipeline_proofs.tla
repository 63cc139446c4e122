----------------------- MODULE RenderPipeline_proofs ------------------------
(* For every system mode, every choice of effects and any number of blocks:   *)
(* the jobs of a batch touch different buffers, for the four indices and the  *)
(* two of the pairs stay different under rotation; and while the tune         *)
(* switches no effect every block is heard in time, by each of its ways once, *)
(* and silence is skipped only when the buffers are silent.  The second part  *)
(* describes what each buffer holds by the history of what was played, stage  *)
(* by stage (Carries).                                                        *)
EXTENDS RenderPipeline, TLAPS

\* The inductive invariant: the indices are one rotation of each other.
Indices ==
    /\ ofs \in [Slots -> Slots]
    /\ buf \in [{"i", "o"} -> Pair]
    /\ \A s \in Slots : \A t \in Slots \ {s} : ofs[s] # ofs[t]
    /\ buf.i # buf.o

\* Rotation by one is a bijection of the slots, and of the pair.
LEMMA Rotation ==
    /\ \A s \in Slots : (s + 1) % 4 \in Slots
    /\ \A s \in Slots : \A t \in Slots \ {s} : (s + 1) % 4 # (t + 1) % 4
    /\ \A k \in Pair : (k + 1) % 2 \in Pair
    /\ \A k \in Pair : \A l \in Pair \ {k} : (k + 1) % 2 # (l + 1) % 2
  <1>1. Slots = {0, 1, 2, 3} /\ Pair = {0, 1}
    BY DEF Slots, Pair
  <1>2. (0 + 1) % 4 = 1 /\ (1 + 1) % 4 = 2 /\ (2 + 1) % 4 = 3 /\ (3 + 1) % 4 = 0
    OBVIOUS
  <1>3. (0 + 1) % 2 = 1 /\ (1 + 1) % 2 = 0
    OBVIOUS
  <1> QED
    BY <1>1, <1>2, <1>3

\* The initial values 3, 2, 1, 0 and 1, 0 are different.
LEMMA IndicesInit == Init => Indices
  BY DEF Init, Indices, Slots, Pair

\* Only a rendered block moves the indices, and it rotates them all.
LEMMA IndicesStep == Indices /\ [Next]_vars => Indices'
  <1> SUFFICES ASSUME Indices, [Next]_vars PROVE Indices'
    OBVIOUS
  <1>1. CASE UNCHANGED <<ofs, buf>>
    BY <1>1 DEF Indices
  <1>2. CASE ofs' = Rotated /\ buf' = Swapped
    <2>1. ofs' \in [Slots -> Slots]
      BY <1>2, Rotation DEF Indices, Rotated
    <2>2. buf' \in [{"i", "o"} -> Pair]
      BY <1>2, Rotation DEF Indices, Swapped
    <2>3. \A s \in Slots : \A t \in Slots \ {s} : ofs'[s] # ofs'[t]
      <3> TAKE s \in Slots
      <3> TAKE t \in Slots \ {s}
      <3>1. ofs[s] \in Slots /\ ofs[t] \in Slots \ {ofs[s]}
        BY DEF Indices
      <3>2. ofs'[s] = (ofs[s] + 1) % 4 /\ ofs'[t] = (ofs[t] + 1) % 4
        BY <1>2 DEF Rotated
      <3> QED
        BY <3>1, <3>2, Rotation
    <2>4. buf'.i # buf'.o
      <3>1. buf.i \in Pair /\ buf.o \in Pair \ {buf.i}
        BY DEF Indices
      <3>2. buf'.i = (buf.i + 1) % 2 /\ buf'.o = (buf.o + 1) % 2
        BY <1>2 DEF Swapped
      <3> QED
        BY <3>1, <3>2, Rotation
    <2> QED
      BY <2>1, <2>2, <2>3, <2>4 DEF Indices
  <1>3. ASSUME NEW sounding, Compute(sounding) PROVE ofs' = Rotated /\ buf' = Swapped
    BY <1>3 DEF Compute, Becomes
  <1>4. CASE Skip
    BY <1>1, <1>4 DEF Skip
  <1>5. CASE \E e \in Switchable : Switch(e)
    BY <1>1, <1>5 DEF Switch
  <1>6. CASE Reset
    BY <1>1, <1>6 DEF Reset
  <1>7. CASE UNCHANGED vars
    BY <1>1, <1>7 DEF vars
  <1> QED
    BY <1>2, <1>3, <1>4, <1>5, <1>6, <1>7 DEF Next

\* With different indices no two jobs share a buffer.
LEMMA IndicesNoRace == Indices => NoRace
  <1> SUFFICES ASSUME Indices PROVE NoRace
    OBVIOUS
  <1> DEFINE T == Touches(ofs, buf)
  <1>1. ofs[0] # ofs[1] /\ ofs[0] # ofs[2] /\ ofs[1] # ofs[2] /\ buf.i # buf.o
    BY DEF Indices, Slots
  <1>2. T = [master |-> {<<"final", buf.o>>},
             do |-> {<<"sub", buf.o>>},
             send |-> {<<"sub", buf.i>>, <<"channel", ofs[2]>>},
             output |-> {<<"master", ofs[2]>>, <<"channel", ofs[2]>>},
             mix |-> {<<"channel", ofs[1]>>},
             voice |-> {<<"channel", ofs[0]>>}]
    BY DEF Touches
  <1> HIDE DEF T
  <1>3. ASSUME NEW j \in DOMAIN T, NEW k \in DOMAIN T \ {j}, {j, k} # {"send", "output"}
        PROVE T[j] \cap T[k] = {}
    BY <1>1, <1>2, <1>3
  <1> QED
    BY <1>3 DEF NoRace, Readers, T

\* No two jobs of a batch touch one buffer (do_compute_data_midi_thread_block1),
\* for every system mode and every sequence of blocks, switches and resets.
THEOREM JobsApart == Spec => []NoRace
  <1>1. Init => Indices
    BY IndicesInit
  <1>2. Indices /\ [Next]_vars => Indices'
    BY IndicesStep
  <1>3. Indices => NoRace
    BY IndicesNoRace
  <1> QED
    BY <1>1, <1>2, <1>3, PTL DEF Spec

-----------------------------------------------------------------------------
(* What is in the buffers, when the tune switches nothing.                   *)

\* The settings of a tune that switches no effect: the effects are those of the system
\* mode, GS has no multi equaliser, no way is longer than MaxAge, and a silence is
\* counted for longer than the longest way (CDSS_CHECK_MAX).
Setting ==
    /\ System \in {"gs", "xg", "sd"}
    /\ Options \subseteq Effects \cup {"multi"} /\ (System = "gs" => "multi" \notin Options)
    /\ Switchable = {}
    /\ \A sounding \in Voicings : sounding \subseteq Channels
    /\ CheckMax \in Nat /\ CheckMax >= 7 /\ MaxAge \in Nat /\ MaxAge >= 8

On == Options \cap Effects
Flat == Options \subseteq {"multi"}
Multi == "multi" \in Options

\* An effect gets the sounds of effects that tap the ring earlier, and what feeds an
\* effect feeds all that the effect feeds.
LEMMA Routing ==
    ASSUME Setting
    PROVE  /\ \A e \in Effects : Tap[e] \in 0..3
           /\ \A e \in Effects : Multi => Tap[e] \in 0..2
           /\ \A f, e \in On : e \in Feeds(f, Options) => Tap[f] < Tap[e]
           /\ \A f, e, r \in On :
                 e \in Feeds(f, Options) /\ r \in Feeds(e, Options) => r \in Feeds(f, Options)
           /\ "dry" \notin Effects /\ "out" \notin Effects /\ "multi" \notin Effects
<1>1. CASE System = "gs"
  <2>1. Effects = {"ins", "eq", "chorus", "delay", "reverb"} /\ Tap = GsTap
    BY <1>1 DEF Effects, Tap, GsTap
  <2>2. /\ Tap["ins"] = 0 /\ Tap["eq"] = 1 /\ Tap["chorus"] = 1 /\ Tap["delay"] = 2
        /\ Tap["reverb"] = 3
    BY <2>1 DEF GsTap
  <2>3. /\ Feeds("ins", Options) \subseteq {"chorus", "delay", "reverb", "eq"}
        /\ {"chorus", "delay", "reverb"} \subseteq Feeds("ins", Options)
        /\ Feeds("eq", Options) = {}
        /\ Feeds("chorus", Options) = {"delay", "reverb"}
        /\ Feeds("delay", Options) = {"reverb"}
        /\ Feeds("reverb", Options) = {}
    BY <1>1 DEF Feeds, GsFeeds
  <2>4. ~Multi
    BY <1>1 DEF Setting, Multi
  <2>. QED
    BY <2>1, <2>2, <2>3, <2>4 DEF On
<1>2. CASE System = "xg"
  <2>1. Effects = {"chorus", "delay", "reverb"} /\ Tap = XgTap
    BY <1>2 DEF Effects, Tap, XgTap
  <2>2. Tap["delay"] = 0 /\ Tap["chorus"] = 1 /\ Tap["reverb"] = 2
    BY <2>1 DEF XgTap
  <2>3. /\ Feeds("delay", Options) = {"chorus", "reverb"}
        /\ Feeds("chorus", Options) = {"reverb"}
        /\ Feeds("reverb", Options) = {}
    BY <1>2 DEF Feeds, XgFeeds
  <2>. QED
    BY <2>1, <2>2, <2>3 DEF On
<1>3. CASE System = "sd"
  <2>1. Effects = {"mfx", "chorus", "reverb"} /\ Tap = SdTap
    BY <1>3 DEF Effects, Tap, SdTap
  <2>2. Tap["mfx"] = 0 /\ Tap["chorus"] = 1 /\ Tap["reverb"] = 2
    BY <2>1 DEF SdTap
  <2>3. /\ Feeds("mfx", Options) = {"chorus", "reverb"}
        /\ Feeds("chorus", Options) = {"reverb"}
        /\ Feeds("reverb", Options) = {}
    BY <1>3 DEF Feeds, SdFeeds
  <2>. QED
    BY <2>1, <2>2, <2>3 DEF On
<1>. QED
  BY <1>1, <1>2, <1>3 DEF Setting

\* Where a channel's sound may go is on, and what an effect may feed is an effect; only
\* the insertion effect feeds the equaliser, and nothing feeds the insertion effect.
LEMMA Destinations ==
    ASSUME Setting
    PROVE  /\ \A c : Sends(c, Options) \subseteq On \cup {"out"}
           /\ \A e \in On : Feeds(e, Options) \subseteq Effects
           /\ \A e \in On : "eq" \in Feeds(e, Options) <=> e = "ins" /\ "eq" \in Options
           /\ \A e \in On : "ins" \notin Feeds(e, Options)
<1>1. CASE System = "gs"
  <2>1. Effects = {"ins", "eq", "chorus", "delay", "reverb"}
    BY <1>1 DEF Effects, Tap, GsTap
  <2>2. /\ Feeds("ins", Options) = {"chorus", "delay", "reverb"}
                                     \cup (IF "eq" \in Options THEN {"eq"} ELSE {})
        /\ Feeds("eq", Options) = {}
        /\ Feeds("chorus", Options) = {"delay", "reverb"}
        /\ Feeds("delay", Options) = {"reverb"}
        /\ Feeds("reverb", Options) = {}
    BY <1>1 DEF Feeds, GsFeeds
  <2>3. ASSUME NEW c PROVE Sends(c, Options) \subseteq On \cup {"out"}
    BY <1>1, <2>1 DEF Sends, On, Setting
  <2>. QED
    BY <2>1, <2>2, <2>3 DEF On
<1>2. CASE System = "xg"
  <2>1. Effects = {"chorus", "delay", "reverb"}
    BY <1>2 DEF Effects, Tap, XgTap
  <2>2. /\ Feeds("delay", Options) = {"chorus", "reverb"}
        /\ Feeds("chorus", Options) = {"reverb"}
        /\ Feeds("reverb", Options) = {}
    BY <1>2 DEF Feeds, XgFeeds
  <2>3. ASSUME NEW c PROVE Sends(c, Options) \subseteq On \cup {"out"}
    BY <1>2, <2>1 DEF Sends, On, Setting
  <2>. QED
    BY <2>1, <2>2, <2>3 DEF On
<1>3. CASE System = "sd"
  <2>1. Effects = {"mfx", "chorus", "reverb"}
    BY <1>3 DEF Effects, Tap, SdTap
  <2>2. /\ Feeds("mfx", Options) = {"chorus", "reverb"}
        /\ Feeds("chorus", Options) = {"reverb"}
        /\ Feeds("reverb", Options) = {}
    BY <1>3 DEF Feeds, SdFeeds
  <2>3. ASSUME NEW c PROVE Sends(c, Options) \subseteq On \cup {"out"}
    BY <1>3, <2>1 DEF Sends, On, Setting
  <2>. QED
    BY <2>1, <2>2, <2>3 DEF On
<1>. QED
  BY <1>1, <1>2, <1>3 DEF Setting

-----------------------------------------------------------------------------
(* Sounds.  A history h says which channels sounded in each of the last blocks. *)

Ages == 0..7
Histories == [Ages -> SUBSET Channels]
Shift(h, sounding) == [a \in Ages |-> IF a = 0 THEN sounding ELSE h[a - 1]]
Quiet(h, j) == \A a \in Ages : a >= j => h[a] = {}

\* The block of age j as its channels gave it, what of the block of age a goes to
\* the output, and what goes to effect e.
Block(h, j) ==
    {s \in Sound : s.age = j /\ s.first = "dry" /\ s.last = "dry" /\ s.from \in h[j]}
Out(h, a) == {s \in Block(h, a) : "out" \in Sends(s.from, Options)}
To(h, e, a) == {s \in Block(h, a) : e \in Sends(s.from, Options)}

\* A sound that sounded at its time and came by a way that is open.
Via(h, s) ==
    /\ s.first \in On /\ s.last \in On
    /\ s.first = s.last \/ s.last \in Feeds(s.first, Options)
    /\ s.age \in Ages /\ s.from \in h[s.age]
    /\ s.first \in Sends(s.from, Options)

\* What effect e gives d blocks after it gave it, what waits for effect r at stage j from
\* the effects that tap the ring up to stage k, and what is mixed d blocks after.
Gives(h, e, d) ==
    {s \in Sound : s.last = e /\ Via(h, s) /\ s.age = 3 + d + Tap[e] - Tap[s.first]}
Waits(h, r, k, j) ==
    {s \in Sound : /\ Via(h, s) /\ r \in Feeds(s.last, Options)
                   /\ Tap[s.last] <= k /\ s.age = 3 + j - Tap[s.first]}
Wets(h, d) ==
    {s \in Sound : /\ Via(h, s) /\ "eq" \notin Feeds(s.last, Options)
                   /\ s.age = 3 + d + Tap[s.last] - Tap[s.first]}
Mix(h, d) == Out(h, 3 + d) \cup Wets(h, d)

LEMMA ShiftHistory ==
    ASSUME NEW h \in Histories, NEW S \in SUBSET Channels
    PROVE  /\ Shift(h, S) \in Histories /\ Shift(h, S)[0] = S
           /\ \A a \in 0..6 : Shift(h, S)[a + 1] = h[a]
           /\ \A a \in 1..7 : Shift(h, S)[a] = h[a - 1]
           /\ \A j \in Nat : Quiet(h, j) => Quiet(Shift(h, S), j + 1)
<1>1. Shift(h, S) \in Histories /\ Shift(h, S)[0] = S
  BY DEF Histories, Shift, Ages
<1>2. \A a \in 0..6 : Shift(h, S)[a + 1] = h[a]
  BY DEF Histories, Shift, Ages
<1>3. \A a \in 1..7 : Shift(h, S)[a] = h[a - 1]
  BY DEF Histories, Shift, Ages
<1>4. ASSUME NEW j \in Nat, Quiet(h, j) PROVE Quiet(Shift(h, S), j + 1)
  <2>. SUFFICES ASSUME NEW a \in Ages, a >= j + 1 PROVE Shift(h, S)[a] = {}
    BY DEF Quiet
  <2>1. a \in 1..7 /\ a - 1 \in Ages /\ a - 1 >= j
    BY DEF Ages
  <2>. QED
    BY <1>3, <1>4, <2>1 DEF Quiet
<1>. QED
  BY <1>1, <1>2, <1>3, <1>4

\* A sound a block later, and a block earlier.
Later(s) == [from |-> s.from, age |-> s.age + 1, first |-> s.first, last |-> s.last]
Earlier(s) == [from |-> s.from, age |-> s.age - 1, first |-> s.first, last |-> s.last]

LEMMA LaterSound ==
    ASSUME Setting, NEW s \in Sound, s.age < MaxAge
    PROVE  /\ Later(s) \in Sound
           /\ [s EXCEPT !.age = IF @ < MaxAge THEN @ + 1 ELSE @] = Later(s)
<1>1. s = [from |-> s.from, age |-> s.age, first |-> s.first, last |-> s.last]
  BY DEF Sound
<1>2. s.age \in 0..MaxAge /\ s.age + 1 \in 0..MaxAge
  BY DEF Sound, Setting
<1>. QED
  BY <1>1, <1>2 DEF Sound, Later

LEMMA EarlierSound ==
    ASSUME Setting, NEW s \in Sound, s.age > 0
    PROVE  Earlier(s) \in Sound /\ Later(Earlier(s)) = s
<1>1. s = [from |-> s.from, age |-> s.age, first |-> s.first, last |-> s.last]
  BY DEF Sound
<1>2. s.age \in 0..MaxAge /\ s.age - 1 \in 0..MaxAge /\ (s.age - 1) + 1 = s.age
  BY DEF Sound, Setting
<1>. QED
  BY <1>1, <1>2 DEF Sound, Later, Earlier

\* Two sets of sounds of which the one is the other a block later.
LEMMA OlderIs ==
    ASSUME Setting, NEW X \in SUBSET Sound, NEW Y \in SUBSET Sound,
           \A s \in X : s.age \in 0..6 /\ Later(s) \in Y,
           \A s \in Y : s.age > 0 /\ Earlier(s) \in X
    PROVE  Older(X) = Y
<1>1. ASSUME NEW s \in X
      PROVE  [s EXCEPT !.age = IF @ < MaxAge THEN @ + 1 ELSE @] = Later(s)
  <2>1. s.age < MaxAge /\ s \in Sound
    BY DEF Setting, Sound
  <2>. QED
    BY <2>1, LaterSound
<1>2. Older(X) = {Later(s) : s \in X}
  BY <1>1 DEF Older
<1>3. ASSUME NEW t \in Y PROVE \E s \in X : t = Later(s)
  BY EarlierSound
<1>. QED
  BY <1>2, <1>3

-----------------------------------------------------------------------------
(* Everything is a block older.                                              *)

LEMMA BlockOlder ==
    ASSUME Setting, NEW h \in Histories, NEW S \in SUBSET Channels, NEW j \in 0..6
    PROVE  /\ Older(Block(h, j)) = Block(Shift(h, S), j + 1)
           /\ Older(Out(h, j)) = Out(Shift(h, S), j + 1)
           /\ \A e : Older(To(h, e, j)) = To(Shift(h, S), e, j + 1)
<1>. DEFINE g == Shift(h, S)
<1>0. g[j + 1] = h[j]
  BY ShiftHistory
<1>. HIDE DEF g
<1>1. ASSUME NEW s \in Block(h, j)
      PROVE  /\ s.age \in 0..6 /\ Later(s) \in Block(g, j + 1)
             /\ Later(s).from = s.from
  <2>1. s \in Sound /\ s.age = j /\ s.age < MaxAge
    BY DEF Block, Setting
  <2>. QED
    BY <1>0, <2>1, LaterSound DEF Block, Later
<1>2. ASSUME NEW s \in Block(g, j + 1)
      PROVE  s.age > 0 /\ Earlier(s) \in Block(h, j) /\ Earlier(s).from = s.from
  <2>1. s \in Sound /\ s.age = j + 1
    BY DEF Block
  <2>2. Earlier(s) \in Sound
    BY <2>1, EarlierSound
  <2>. QED
    BY <1>0, <2>1, <2>2 DEF Block, Earlier
<1>3. Block(h, j) \subseteq Sound /\ Block(g, j + 1) \subseteq Sound
  BY DEF Block
<1>4. Older(Block(h, j)) = Block(g, j + 1)
  BY <1>1, <1>2, <1>3, OlderIs
<1>5. Older(Out(h, j)) = Out(g, j + 1)
  <2>1. Out(h, j) \subseteq Sound /\ Out(g, j + 1) \subseteq Sound
    BY <1>3 DEF Out
  <2>2. \A s \in Out(h, j) : s.age \in 0..6 /\ Later(s) \in Out(g, j + 1)
    BY <1>1 DEF Out
  <2>3. \A s \in Out(g, j + 1) : s.age > 0 /\ Earlier(s) \in Out(h, j)
    BY <1>2 DEF Out
  <2>. QED
    BY <2>1, <2>2, <2>3, OlderIs
<1>6. ASSUME NEW e PROVE Older(To(h, e, j)) = To(g, e, j + 1)
  <2>1. To(h, e, j) \subseteq Sound /\ To(g, e, j + 1) \subseteq Sound
    BY <1>3 DEF To
  <2>2. \A s \in To(h, e, j) : s.age \in 0..6 /\ Later(s) \in To(g, e, j + 1)
    BY <1>1 DEF To
  <2>3. \A s \in To(g, e, j + 1) : s.age > 0 /\ Earlier(s) \in To(h, e, j)
    BY <1>2 DEF To
  <2>. QED
    BY <2>1, <2>2, <2>3, OlderIs
<1>. QED
  BY <1>4, <1>5, <1>6 DEF g

\* The taps of the effects that a sound went through.
LEMMA ViaTaps ==
    ASSUME Setting, NEW h, NEW s \in Sound, Via(h, s)
    PROVE  /\ Tap[s.first] \in 0..3 /\ Tap[s.last] \in 0..3
           /\ Tap[s.first] <= Tap[s.last]
           /\ Multi => Tap[s.first] \in 0..2 /\ Tap[s.last] \in 0..2
           /\ s.first # "dry"
<1>1. s.first \in Effects /\ s.last \in Effects
  BY DEF Via, On
<1>2. s.first = s.last \/ Tap[s.first] < Tap[s.last]
  BY Routing DEF Via
<1>. QED
  BY <1>1, <1>2, Routing

LEMMA ViaLater ==
    ASSUME Setting, NEW h \in Histories, NEW S \in SUBSET Channels, NEW s \in Sound,
           Via(h, s), s.age \in 0..6
    PROVE  Later(s) \in Sound /\ Via(Shift(h, S), Later(s))
<1>1. Later(s) \in Sound
  BY LaterSound DEF Setting
<1>2. s.age + 1 \in Ages /\ Shift(h, S)[s.age + 1] = h[s.age]
  BY ShiftHistory DEF Ages
<1>. QED
  BY <1>1, <1>2 DEF Via, Later

LEMMA ViaEarlier ==
    ASSUME Setting, NEW h \in Histories, NEW S \in SUBSET Channels, NEW s \in Sound,
           Via(Shift(h, S), s), s.age > 0
    PROVE  Earlier(s) \in Sound /\ Via(h, Earlier(s))
<1>1. Earlier(s) \in Sound
  BY EarlierSound
<1>2. s.age \in 1..7
  BY DEF Via, Ages
<1>3. s.age - 1 \in Ages /\ Shift(h, S)[s.age] = h[s.age - 1]
  BY <1>2, ShiftHistory DEF Ages
<1>. QED
  BY <1>1, <1>3 DEF Via, Earlier

LEMMA WaitsOlder ==
    ASSUME Setting, NEW h \in Histories, NEW S \in SUBSET Channels, NEW r, NEW k,
           NEW j \in 0..3
    PROVE  Older(Waits(h, r, k, j)) = Waits(Shift(h, S), r, k, j + 1)
<1>1. ASSUME NEW s \in Waits(h, r, k, j)
      PROVE  s.age \in 0..6 /\ Later(s) \in Waits(Shift(h, S), r, k, j + 1)
  <2>1. s \in Sound /\ Via(h, s) /\ s.age = 3 + j - Tap[s.first] /\ Tap[s.first] \in 0..3
    BY ViaTaps DEF Waits
  <2>2. s.age \in 0..6 /\ s.age + 1 = 3 + (j + 1) - Tap[s.first]
    BY <2>1
  <2>3. Later(s) \in Sound /\ Via(Shift(h, S), Later(s))
    BY <2>1, <2>2, ViaLater
  <2>. QED
    BY <2>2, <2>3 DEF Waits, Later
<1>2. ASSUME NEW s \in Waits(Shift(h, S), r, k, j + 1)
      PROVE  s.age > 0 /\ Earlier(s) \in Waits(h, r, k, j)
  <2>1. /\ s \in Sound /\ Via(Shift(h, S), s) /\ s.age = 3 + (j + 1) - Tap[s.first]
        /\ Tap[s.first] \in 0..3
    BY ViaTaps DEF Waits
  <2>2. s.age > 0 /\ s.age - 1 = 3 + j - Tap[s.first]
    BY <2>1
  <2>3. Earlier(s) \in Sound /\ Via(h, Earlier(s))
    BY <2>1, <2>2, ViaEarlier
  <2>. QED
    BY <2>2, <2>3 DEF Waits, Earlier
<1>3. Waits(h, r, k, j) \subseteq Sound /\ Waits(Shift(h, S), r, k, j + 1) \subseteq Sound
  BY DEF Waits
<1>. QED
  BY <1>1, <1>2, <1>3, OlderIs

LEMMA MixOlder ==
    ASSUME Setting, NEW h \in Histories, NEW S \in SUBSET Channels,
           NEW d \in 0..1, Multi \/ d = 0
    PROVE  Older(Mix(h, d)) = Mix(Shift(h, S), d + 1)
<1>1. Older(Out(h, 3 + d)) = Out(Shift(h, S), 3 + (d + 1))
  <2>1. 3 + d \in 0..6 /\ (3 + d) + 1 = 3 + (d + 1)
    OBVIOUS
  <2>. QED
    BY <2>1, BlockOlder
<1>2. Older(Wets(h, d)) = Wets(Shift(h, S), d + 1)
  <2>1. ASSUME NEW s \in Wets(h, d)
        PROVE  s.age \in 0..6 /\ Later(s) \in Wets(Shift(h, S), d + 1)
    <3>1. s \in Sound /\ Via(h, s) /\ s.age = 3 + d + Tap[s.last] - Tap[s.first]
      BY DEF Wets
    <3>2. s.age \in 0..6 /\ s.age + 1 = 3 + (d + 1) + Tap[s.last] - Tap[s.first]
      BY <3>1, ViaTaps
    <3>3. Later(s) \in Sound /\ Via(Shift(h, S), Later(s))
      BY <3>1, <3>2, ViaLater
    <3>. QED
      BY <3>1, <3>2, <3>3 DEF Wets, Later
  <2>2. ASSUME NEW s \in Wets(Shift(h, S), d + 1)
        PROVE  s.age > 0 /\ Earlier(s) \in Wets(h, d)
    <3>1. /\ s \in Sound /\ Via(Shift(h, S), s)
          /\ s.age = 3 + (d + 1) + Tap[s.last] - Tap[s.first]
      BY DEF Wets
    <3>2. s.age > 0 /\ s.age - 1 = 3 + d + Tap[s.last] - Tap[s.first]
      BY <3>1, ViaTaps
    <3>3. Earlier(s) \in Sound /\ Via(h, Earlier(s))
      BY <3>1, <3>2, ViaEarlier
    <3>. QED
      BY <3>1, <3>2, <3>3 DEF Wets, Earlier
  <2>3. Wets(h, d) \subseteq Sound /\ Wets(Shift(h, S), d + 1) \subseteq Sound
    BY DEF Wets
  <2>. QED
    BY <2>1, <2>2, <2>3, OlderIs
<1>3. \A X, Y : Older(X \cup Y) = Older(X) \cup Older(Y)
  BY DEF Older
<1>. QED
  BY <1>1, <1>2, <1>3 DEF Mix

\* Where nothing sounded nothing is heard.
LEMMA QuietForms ==
    ASSUME Setting, NEW h \in Histories, NEW j \in Ages, Quiet(h, j)
    PROVE  /\ \A a \in Ages : a >= j => Block(h, a) = {} /\ Out(h, a) = {}
           /\ \A a \in Ages : \A e : a >= j => To(h, e, a) = {}
           /\ j <= 3 => /\ \A e, d : d \in Nat => Gives(h, e, d) = {}
                        /\ \A r, k, i : k \in Nat /\ i \in Nat /\ k <= i =>
                              Waits(h, r, k, i) = {}
                        /\ \A d \in 0..4 : Mix(h, d) = {}
<1>1. \A a \in Ages : a >= j => Block(h, a) = {}
  BY DEF Quiet, Block
<1>2. ASSUME NEW s \in Sound, Via(h, s), j <= 3 PROVE s.age < 3
  BY <1>2 DEF Via, Quiet, Ages
<1>3. ASSUME NEW e, NEW d \in Nat, j <= 3 PROVE Gives(h, e, d) = {}
  <2>. SUFFICES ASSUME NEW s \in Gives(h, e, d) PROVE FALSE
    OBVIOUS
  <2>1. s \in Sound /\ Via(h, s) /\ s.last = e /\ s.age = 3 + d + Tap[e] - Tap[s.first]
    BY DEF Gives
  <2>2. s.age >= 3
    BY <2>1, ViaTaps
  <2>. QED
    BY <1>2, <1>3, <2>1, <2>2 DEF Via, Ages
<1>4. ASSUME NEW r, NEW k \in Nat, NEW i \in Nat, k <= i, j <= 3 PROVE Waits(h, r, k, i) = {}
  <2>. SUFFICES ASSUME NEW s \in Waits(h, r, k, i) PROVE FALSE
    OBVIOUS
  <2>1. /\ s \in Sound /\ Via(h, s) /\ Tap[s.last] <= k
        /\ s.age = 3 + i - Tap[s.first]
    BY DEF Waits
  <2>2. s.age >= 3
    BY <1>4, <2>1, ViaTaps
  <2>. QED
    BY <1>2, <1>4, <2>1, <2>2 DEF Via, Ages
<1>5. ASSUME NEW d \in 0..4, j <= 3 PROVE Mix(h, d) = {}
  <2>1. Out(h, 3 + d) = {}
    BY <1>1, <1>5 DEF Out, Ages
  <2>2. ASSUME NEW s \in Wets(h, d) PROVE FALSE
    <3>1. s \in Sound /\ Via(h, s) /\ s.age = 3 + d + Tap[s.last] - Tap[s.first]
      BY DEF Wets
    <3>2. s.age >= 3
      BY <3>1, ViaTaps
    <3>. QED
      BY <1>2, <1>5, <3>1, <3>2 DEF Via, Ages
  <2>. QED
    BY <2>1, <2>2 DEF Mix
<1>. QED
  BY <1>1, <1>3, <1>4, <1>5 DEF Out, To

-----------------------------------------------------------------------------
(* The stages on such sets.                                                  *)

LEMMA Marked ==
    ASSUME NEW s \in Sound, NEW e \in Effects
    PROVE  [s EXCEPT !.first = IF @ = "dry" THEN e ELSE @, !.last = e]
             = [from |-> s.from, age |-> s.age,
                first |-> IF s.first = "dry" THEN e ELSE s.first, last |-> e]
<1>. DEFINE t == [s EXCEPT !.first = IF @ = "dry" THEN e ELSE @, !.last = e]
<1>1. /\ t \in Sound /\ t.from = s.from /\ t.age = s.age /\ t.last = e
      /\ t.first = IF s.first = "dry" THEN e ELSE s.first
  BY DEF Sound
<1>. HIDE DEF t
<1>2. t = [from |-> t.from, age |-> t.age, first |-> t.first, last |-> t.last]
  BY <1>1 DEF Sound
<1>. QED
  BY <1>1, <1>2 DEF t

\* What an effect gives of its input, that of its channels and that of its ring.
LEMMA DoneIs ==
    ASSUME Setting, NEW h, NEW e \in On
    PROVE  Wet(e, To(h, e, 3) \cup (IF Tap[e] > 0 THEN Waits(h, e, Tap[e] - 1, Tap[e]) ELSE {}))
             = Gives(h, e, 0)
<1>. DEFINE X == To(h, e, 3)
            Y == IF Tap[e] > 0 THEN Waits(h, e, Tap[e] - 1, Tap[e]) ELSE {}
            W(s) == [s EXCEPT !.first = IF @ = "dry" THEN e ELSE @, !.last = e]
<1>0. e \in Effects /\ Tap[e] \in 0..3 /\ e # "dry"
  BY Routing DEF On
<1>1. ASSUME NEW s \in X PROVE W(s) \in Gives(h, e, 0)
  <2>1. /\ s \in Sound /\ s.age = 3 /\ s.first = "dry" /\ s.from \in h[3]
        /\ e \in Sends(s.from, Options)
    BY DEF To, Block
  <2>2. /\ W(s) \in Sound /\ W(s).first = e /\ W(s).last = e
        /\ W(s).age = 3 /\ W(s).from = s.from
    BY <1>0, <2>1 DEF Sound
  <2>3. Via(h, W(s))
    BY <2>1, <2>2 DEF Via, Ages
  <2>4. 3 = 3 + 0 + Tap[e] - Tap[e]
    BY <1>0
  <2>. QED
    BY <2>2, <2>3, <2>4 DEF Gives
<1>2. ASSUME NEW s \in Y PROVE W(s) \in Gives(h, e, 0)
  <2>1. s \in Waits(h, e, Tap[e] - 1, Tap[e])
    OBVIOUS
  <2>2. /\ s \in Sound /\ Via(h, s) /\ e \in Feeds(s.last, Options)
        /\ s.age = 3 + Tap[e] - Tap[s.first]
    BY <2>1 DEF Waits
  <2>3. s.first # "dry"
    BY <2>2, ViaTaps
  <2>4. /\ W(s) \in Sound /\ W(s).first = s.first /\ W(s).last = e
        /\ W(s).age = s.age /\ W(s).from = s.from
    BY <1>0, <2>2, <2>3 DEF Sound
  <2>5. e \in Feeds(s.first, Options)
    BY <2>2, Routing DEF Via
  <2>6. Via(h, W(s))
    BY <2>2, <2>4, <2>5 DEF Via
  <2>7. 3 + Tap[e] - Tap[s.first] = 3 + 0 + Tap[e] - Tap[s.first]
    BY <1>0
  <2>. QED
    BY <2>2, <2>4, <2>6, <2>7 DEF Gives
<1>3. ASSUME NEW t \in Gives(h, e, 0) PROVE \E s \in X \cup Y : t = W(s)
  <2>1. t \in Sound /\ t.last = e /\ Via(h, t) /\ t.age = 3 + 0 + Tap[e] - Tap[t.first]
    BY DEF Gives
  <2>2. t = [from |-> t.from, age |-> t.age, first |-> t.first, last |-> t.last]
    BY <2>1 DEF Sound
  <2>3. Tap[t.first] \in 0..3 /\ t.first # "dry"
    BY <2>1, ViaTaps
  <2>4. CASE t.first = e
    <3>. DEFINE s == [from |-> t.from, age |-> t.age, first |-> "dry", last |-> "dry"]
    <3>1. t.age = 3
      BY <1>0, <2>1, <2>4
    <3>2. s \in Sound
      BY <2>1 DEF Sound
    <3>3. s \in X
      BY <2>1, <2>4, <3>1, <3>2 DEF To, Block, Via
    <3>4. W(s) = [from |-> t.from, age |-> t.age, first |-> e, last |-> e]
      BY <1>0, <3>2, Marked
    <3>5. W(s) = t
      BY <2>1, <2>2, <2>4, <3>4
    <3>. HIDE DEF W, s, X, Y
    <3>. QED
      BY <3>3, <3>5
  <2>5. CASE t.first # e
    <3>. DEFINE s == [from |-> t.from, age |-> t.age, first |-> t.first, last |-> t.first]
    <3>1. s \in Sound
      BY <2>1 DEF Sound
    <3>2. t.first \in On /\ e \in Feeds(t.first, Options)
      BY <2>1, <2>5 DEF Via
    <3>3. Tap[t.first] < Tap[e]
      BY <3>2, Routing
    <3>4. Tap[e] > 0 /\ Tap[s.last] <= Tap[e] - 1 /\ s.age = 3 + Tap[e] - Tap[s.first]
      BY <1>0, <2>1, <2>3, <3>3
    <3>5. Via(h, s)
      BY <2>1 DEF Via
    <3>6. s \in Y
      BY <3>1, <3>2, <3>4, <3>5 DEF Waits
    <3>7. W(s) = [from |-> t.from, age |-> t.age, first |-> t.first, last |-> e]
      BY <1>0, <2>3, <3>1, Marked
    <3>8. W(s) = t
      BY <2>1, <2>2, <3>7
    <3>. HIDE DEF W, s, X, Y
    <3>. QED
      BY <3>6, <3>8
  <2>. QED
    BY <2>4, <2>5
<1>4. Wet(e, X \cup Y) = {W(s) : s \in X \cup Y}
  BY DEF Wet
<1>. HIDE DEF X, Y, W
<1>5. {W(s) : s \in X \cup Y} = Gives(h, e, 0)
  BY <1>1, <1>2, <1>3
<1>. QED
  BY <1>4, <1>5 DEF X, Y

\* The effects that tap the ring at stage j add theirs to what waits there.
LEMMA WaitsMore ==
    ASSUME Setting, NEW h, NEW r, NEW j \in 0..3
    PROVE  Waits(h, r, j, j) =
             (IF j > 0 THEN Waits(h, r, j - 1, j) ELSE {})
               \cup UNION {Gives(h, e, 0) : e \in {e \in On : r \in Feeds(e, Options) /\ Tap[e] = j}}
<1>. DEFINE E == {e \in On : r \in Feeds(e, Options) /\ Tap[e] = j}
<1>1. ASSUME NEW s \in Waits(h, r, j, j), Tap[s.last] # j
      PROVE  j > 0 /\ s \in Waits(h, r, j - 1, j)
  <2>1. s \in Sound /\ Via(h, s) /\ Tap[s.last] <= j
    BY DEF Waits
  <2>2. Tap[s.last] \in 0..3
    BY <2>1, ViaTaps
  <2>3. j > 0 /\ Tap[s.last] <= j - 1
    BY <1>1, <2>1, <2>2
  <2>. QED
    BY <2>3 DEF Waits
<1>2. ASSUME NEW s \in Waits(h, r, j, j), Tap[s.last] = j
      PROVE  s.last \in E /\ s \in Gives(h, s.last, 0)
  <2>1. /\ s \in Sound /\ Via(h, s) /\ r \in Feeds(s.last, Options)
        /\ s.age = 3 + j - Tap[s.first]
    BY DEF Waits
  <2>2. Tap[s.first] \in 0..3
    BY <2>1, ViaTaps
  <2>3. s.age = 3 + 0 + Tap[s.last] - Tap[s.first]
    BY <1>2, <2>1, <2>2
  <2>. QED
    BY <1>2, <2>1, <2>3 DEF Gives, Via
<1>3. ASSUME j > 0, NEW s \in Waits(h, r, j - 1, j) PROVE s \in Waits(h, r, j, j)
  <2>1. s \in Sound /\ Via(h, s) /\ Tap[s.last] <= j - 1
    BY DEF Waits
  <2>2. Tap[s.last] \in 0..3
    BY <2>1, ViaTaps
  <2>3. Tap[s.last] <= j
    BY <2>1, <2>2
  <2>. QED
    BY <2>3 DEF Waits
<1>4. ASSUME NEW e \in E, NEW s \in Gives(h, e, 0) PROVE s \in Waits(h, r, j, j)
  <2>1. /\ s \in Sound /\ Via(h, s) /\ s.last = e
        /\ s.age = 3 + 0 + Tap[e] - Tap[s.first]
    BY DEF Gives
  <2>2. Tap[s.first] \in 0..3
    BY <2>1, ViaTaps
  <2>3. s.age = 3 + j - Tap[s.first] /\ Tap[s.last] <= j
    BY <2>1, <2>2
  <2>. QED
    BY <2>1, <2>3 DEF Waits
<1>. QED
  BY <1>1, <1>2, <1>3, <1>4

\* The mix of a block: what of it goes to the output, and what the effects give
\* that do not go through the equaliser.
LEMMA MixIs ==
    ASSUME NEW h
    PROVE  Mix(h, 0) = Out(h, 3)
             \cup UNION {Gives(h, e, 0) : e \in {e \in On : "eq" \notin Feeds(e, Options)}}
  BY DEF Mix, Wets, Gives, Via

-----------------------------------------------------------------------------
(* The types of the stages.                                                  *)

Buffers ==
    [o : [Slots -> Slots], b : [{"i", "o"} -> Pair], cv : [Slots -> Flags],
     channel : [Slots -> SUBSET Sound], master : [Slots -> SUBSET Sound],
     sub : [Effects -> [Pair -> SUBSET Sound]],
     ring : [Effects -> [Slots -> SUBSET Sound]], multi : [Pair -> SUBSET Sound],
     final : [Pair -> [data : SUBSET Sound, full : BOOLEAN]]]

\* Sounds stay sounds.
LEMMA StillSounds ==
    ASSUME MaxAge \in Nat
    PROVE  /\ \A X \in SUBSET Sound : Older(X) \in SUBSET Sound
           /\ \A e \in Effects : \A X \in SUBSET Sound : Wet(e, X) \in SUBSET Sound
           /\ \A S \in SUBSET Channels : Fresh(S) \in SUBSET Sound
<1>1. ASSUME NEW X \in SUBSET Sound, NEW s \in X
      PROVE  [s EXCEPT !.age = IF @ < MaxAge THEN @ + 1 ELSE @] \in Sound
  <2>1. s \in Sound
    OBVIOUS
  <2>2. (IF s.age < MaxAge THEN s.age + 1 ELSE s.age) \in 0..MaxAge
    BY <2>1 DEF Sound
  <2>. QED
    BY <2>1, <2>2 DEF Sound
<1>2. ASSUME NEW e \in Effects, NEW X \in SUBSET Sound, NEW s \in X
      PROVE  [s EXCEPT !.first = IF @ = "dry" THEN e ELSE @, !.last = e] \in Sound
  BY DEF Sound
<1>3. ASSUME NEW c \in Channels
      PROVE  [from |-> c, age |-> 0, first |-> "dry", last |-> "dry"] \in Sound
  BY DEF Sound
<1>. QED
  BY <1>1, <1>2, <1>3 DEF Older, Wet, Fresh

\* The buffers after a rotation.
LEMMA TurnedType ==
    ASSUME TypeOK, MaxAge \in Nat
    PROVE  /\ Turned \in Buffers
           /\ Turned.o = Rotated /\ Turned.b = Swapped
<1>1. Rotated \in [Slots -> Slots]
  BY Rotation DEF TypeOK, Rotated
<1>2. Swapped \in [{"i", "o"} -> Pair]
  BY Rotation DEF TypeOK, Swapped
<1>3. NewFlags \in Flags
  BY DEF TypeOK, NewFlags, Flags
<1>4. [cv EXCEPT ![Rotated[0]] = NewFlags] \in [Slots -> Flags]
  BY <1>3 DEF TypeOK
<1>5. [s \in Slots |-> Older(channel[s])] \in [Slots -> SUBSET Sound]
  BY StillSounds DEF TypeOK
<1>6. [s \in Slots |-> IF s = Rotated[0] THEN {} ELSE Older(master[s])] \in [Slots -> SUBSET Sound]
  BY StillSounds DEF TypeOK
<1>7. [e \in Effects |-> [k \in Pair |-> Older(sub[e][k])]] \in [Effects -> [Pair -> SUBSET Sound]]
  BY StillSounds DEF TypeOK
<1>8. [e \in Effects |-> [s \in Slots |-> Older(ring[e][s])]]
        \in [Effects -> [Slots -> SUBSET Sound]]
  BY StillSounds DEF TypeOK
<1>9. [k \in Pair |-> Older(multi[k])] \in [Pair -> SUBSET Sound]
  BY StillSounds DEF TypeOK
<1>10. [k \in Pair |-> [final[k] EXCEPT !.data = Older(@)]]
         \in [Pair -> [data : SUBSET Sound, full : BOOLEAN]]
  <2>1. ASSUME NEW k \in Pair
        PROVE  [final[k] EXCEPT !.data = Older(@)] \in [data : SUBSET Sound, full : BOOLEAN]
    <3>1. final[k] \in [data : SUBSET Sound, full : BOOLEAN]
      BY DEF TypeOK
    <3>2. final[k].data \in SUBSET Sound
      BY <3>1
    <3>3. Older(final[k].data) \in SUBSET Sound
      BY <3>2, StillSounds
    <3>. QED
      BY <3>1, <3>3
  <2>. QED
    BY <2>1
<1>. QED
  BY <1>1, <1>2, <1>4, <1>5, <1>6, <1>7, <1>8, <1>9, <1>10 DEF Turned, Buffers

\* What the jobs write.
LEMMA JobsType ==
    ASSUME NEW p \in Buffers, NEW S \in SUBSET Channels, MaxAge \in Nat
    PROVE  /\ Done(p) \in [Effects -> [Pair -> SUBSET Sound]]
           /\ Drained(p) \in [Effects -> [Slots -> SUBSET Sound]]
           /\ \A to : Sent(p, to) \in SUBSET Sound
           /\ [e \in Effects |-> [Done(p)[e] EXCEPT ![p.b.i] = @ \cup Sent(p, e)]]
                \in [Effects -> [Pair -> SUBSET Sound]]
<1>1. /\ p.o \in [Slots -> Slots] /\ p.b.i \in Pair /\ p.b.o \in Pair
      /\ p.channel \in [Slots -> SUBSET Sound]
      /\ p.sub \in [Effects -> [Pair -> SUBSET Sound]]
      /\ p.ring \in [Effects -> [Slots -> SUBSET Sound]]
  BY DEF Buffers
<1>2. Done(p) \in [Effects -> [Pair -> SUBSET Sound]]
  <2>1. ASSUME NEW e \in Effects
        PROVE  Wet(e, p.sub[e][p.b.o] \cup p.ring[e][p.o[Tap[e]]]) \in SUBSET Sound
    <3>1. Tap[e] \in Slots
      BY DEF Effects, Tap, GsTap, XgTap, SdTap, Slots
    <3>2. p.sub[e][p.b.o] \cup p.ring[e][p.o[Tap[e]]] \in SUBSET Sound
      BY <1>1, <3>1
    <3>. QED
      BY <3>2, StillSounds
  <2>. QED
    BY <1>1, <2>1 DEF Done
<1>3. Drained(p) \in [Effects -> [Slots -> SUBSET Sound]]
  BY <1>1 DEF Drained
<1>4. ASSUME NEW to PROVE Sent(p, to) \in SUBSET Sound
  <2>1. p.channel[p.o[2]] \in SUBSET Sound
    BY <1>1 DEF Slots
  <2>. QED
    BY <2>1 DEF Sent
<1>5. [e \in Effects |-> [Done(p)[e] EXCEPT ![p.b.i] = @ \cup Sent(p, e)]]
        \in [Effects -> [Pair -> SUBSET Sound]]
  BY <1>1, <1>2, <1>4
<1>. QED
  BY <1>2, <1>3, <1>4, <1>5

LEMMA AfterJobsFields ==
    ASSUME NEW p \in Buffers, NEW S \in SUBSET Channels, MaxAge \in Nat
    PROVE  LET q == AfterJobs(p, S)
           IN  /\ q \in Buffers
               /\ q.o = p.o /\ q.b = p.b /\ q.cv = p.cv /\ q.multi = p.multi /\ q.final = p.final
               /\ q.channel = [p.channel EXCEPT ![p.o[0]] = Fresh(S)]
               /\ q.master = [p.master EXCEPT ![p.o[2]] = @ \cup Sent(p, "out")]
               /\ q.sub = [e \in Effects |-> [Done(p)[e] EXCEPT ![p.b.i] = @ \cup Sent(p, e)]]
               /\ q.ring = Drained(p)
<1>. DEFINE F == [e \in Effects |-> [Done(p)[e] EXCEPT ![p.b.i] = @ \cup Sent(p, e)]]
            R == Drained(p)
            X == Sent(p, "out")
            Y == Fresh(S)
            q == [p EXCEPT !.sub = F, !.ring = R, !.master[p.o[2]] = @ \cup X,
                           !.channel[p.o[0]] = Y]
<1>1. AfterJobs(p, S) = q
  BY DEF AfterJobs
<1>2. /\ F \in [Effects -> [Pair -> SUBSET Sound]] /\ R \in [Effects -> [Slots -> SUBSET Sound]]
      /\ X \in SUBSET Sound /\ Y \in SUBSET Sound
  BY JobsType, StillSounds
<1>3. p.o[2] \in Slots /\ p.o[0] \in Slots
  BY DEF Buffers, Slots
<1>. HIDE DEF F, R, X, Y
<1>4. q \in Buffers
  BY <1>2, <1>3 DEF Buffers
<1>5. /\ q.o = p.o /\ q.b = p.b /\ q.cv = p.cv /\ q.multi = p.multi /\ q.final = p.final
      /\ q.channel = [p.channel EXCEPT ![p.o[0]] = Y]
      /\ q.master = [p.master EXCEPT ![p.o[2]] = @ \cup X]
      /\ q.sub = F /\ q.ring = R
  BY DEF Buffers
<1>. QED
  BY <1>1, <1>4, <1>5 DEF F, R, X, Y

\* What the mixing writes.
LEMMA ReturnedFields ==
    ASSUME NEW p \in Buffers
    PROVE  LET q == Returned(p)
               flags == p.cv[p.o[3]].on
           IN  /\ q \in Buffers
               /\ q.o = p.o /\ q.b = p.b /\ q.cv = p.cv /\ q.multi = p.multi /\ q.final = p.final
               /\ q.channel = p.channel
               /\ q.master = [p.master EXCEPT ![p.o[3]] =
                    @ \cup UNION {Given(p, e) : e \in {e \in Effects : "eq" \notin Feeds(e, flags)}}]
               /\ q.ring = [r \in Effects |-> [s \in Slots |->
                    p.ring[r][s] \cup UNION {Given(p, e) :
                        e \in {e \in Effects : r \in Feeds(e, flags) /\ p.o[Tap[e]] = s}}]]
               /\ q.sub = [e \in Effects |->
                    IF Runs(p, 3, e) THEN [p.sub[e] EXCEPT ![p.b.o] = {}] ELSE p.sub[e]]
<1>. DEFINE flags == p.cv[p.o[3]].on
            X == UNION {Given(p, e) : e \in {e \in Effects : "eq" \notin Feeds(e, flags)}}
            R == [r \in Effects |-> [s \in Slots |->
                    p.ring[r][s] \cup UNION {Given(p, e) :
                        e \in {e \in Effects : r \in Feeds(e, flags) /\ p.o[Tap[e]] = s}}]]
            F == [e \in Effects |->
                    IF Runs(p, 3, e) THEN [p.sub[e] EXCEPT ![p.b.o] = {}] ELSE p.sub[e]]
            q == [p EXCEPT !.master[p.o[3]] = @ \cup X, !.ring = R, !.sub = F]
<1>1. Returned(p) = q
  BY DEF Returned
<1>2. /\ p.o[3] \in Slots /\ p.b.o \in Pair
      /\ p.sub \in [Effects -> [Pair -> SUBSET Sound]]
      /\ p.ring \in [Effects -> [Slots -> SUBSET Sound]]
  BY DEF Buffers, Slots
<1>3. ASSUME NEW e \in Effects PROVE Given(p, e) \in SUBSET Sound
  BY <1>2 DEF Given
<1>4. X \in SUBSET Sound /\ R \in [Effects -> [Slots -> SUBSET Sound]]
  BY <1>2, <1>3
<1>5. F \in [Effects -> [Pair -> SUBSET Sound]]
  BY <1>2
<1>. HIDE DEF F, R, X
<1>6. q \in Buffers
  BY <1>2, <1>4, <1>5 DEF Buffers
<1>7. /\ q.o = p.o /\ q.b = p.b /\ q.cv = p.cv /\ q.multi = p.multi /\ q.final = p.final
      /\ q.channel = p.channel /\ q.master = [p.master EXCEPT ![p.o[3]] = @ \cup X]
      /\ q.ring = R /\ q.sub = F
  BY DEF Buffers
<1>. QED
  BY <1>1, <1>6, <1>7 DEF F, R, X

LEMMA MultiEqFields ==
    ASSUME NEW p \in Buffers
    PROVE  LET q == MultiEq(p)
               through == System # "gs" /\ Runs(p, 3, "multi")
           IN  /\ q \in Buffers
               /\ q.o = p.o /\ q.b = p.b /\ q.cv = p.cv /\ q.final = p.final
               /\ q.channel = p.channel /\ q.ring = p.ring /\ q.sub = p.sub
               /\ q.multi = IF through THEN [p.multi EXCEPT ![p.b.i] = p.master[p.o[3]]]
                            ELSE p.multi
               /\ q.master = IF through THEN [p.master EXCEPT ![p.o[3]] = p.multi[p.b.o]]
                             ELSE p.master
<1>1. /\ p.o[3] \in Slots /\ p.b.o \in Pair /\ p.b.i \in Pair
      /\ p.master[p.o[3]] \in SUBSET Sound /\ p.multi[p.b.o] \in SUBSET Sound
  BY DEF Buffers, Slots
<1>2. CASE System # "gs" /\ Runs(p, 3, "multi")
  <2>. DEFINE X == p.master[p.o[3]]
              Y == p.multi[p.b.o]
              q == [p EXCEPT !.multi[p.b.i] = X, !.master[p.o[3]] = Y]
  <2>1. MultiEq(p) = q
    BY <1>2 DEF MultiEq
  <2>2. X \in SUBSET Sound /\ Y \in SUBSET Sound
    BY <1>1
  <2>. HIDE DEF X, Y
  <2>3. q \in Buffers
    BY <1>1, <2>2 DEF Buffers
  <2>4. /\ q.o = p.o /\ q.b = p.b /\ q.cv = p.cv /\ q.final = p.final
        /\ q.channel = p.channel /\ q.ring = p.ring /\ q.sub = p.sub
        /\ q.multi = [p.multi EXCEPT ![p.b.i] = X]
        /\ q.master = [p.master EXCEPT ![p.o[3]] = Y]
    BY DEF Buffers
  <2>. QED
    BY <1>2, <2>1, <2>3, <2>4 DEF X, Y
<1>3. CASE ~ (System # "gs" /\ Runs(p, 3, "multi"))
  <2>1. MultiEq(p) = p
    BY <1>3 DEF MultiEq
  <2>. QED
    BY <1>3, <2>1
<1>. QED
  BY <1>2, <1>3

LEMMA MasterEffectFields ==
    ASSUME NEW p \in Buffers, NEW data \in SUBSET Sound
    PROVE  LET q == MasterEffect(p, data).pipe
           IN  /\ q \in Buffers
               /\ q.o = p.o /\ q.b = p.b /\ q.cv = p.cv /\ q.multi = p.multi
               /\ q.channel = p.channel /\ q.ring = p.ring /\ q.sub = p.sub
               /\ q.master = p.master
               /\ q.final = [p.final EXCEPT ![p.b.i] = [data |-> data, full |-> TRUE]]
               /\ MasterEffect(p, data).out =
                    IF p.final[p.b.o].full THEN p.final[p.b.o].data ELSE data
               /\ MasterEffect(p, data).out \in SUBSET Sound
<1>. DEFINE full == [data |-> data, full |-> TRUE]
            q == [p EXCEPT !.final[p.b.i] = full]
<1>1. /\ MasterEffect(p, data).pipe = q
      /\ MasterEffect(p, data).out = IF p.final[p.b.o].full THEN p.final[p.b.o].data ELSE data
  BY DEF MasterEffect
<1>2. p.b.i \in Pair /\ p.b.o \in Pair /\ full \in [data : SUBSET Sound, full : BOOLEAN]
  BY DEF Buffers
<1>3. p.final[p.b.o].data \in SUBSET Sound
  BY <1>2 DEF Buffers
<1>. HIDE DEF full
<1>4. q \in Buffers
  BY <1>2 DEF Buffers
<1>5. /\ q.o = p.o /\ q.b = p.b /\ q.cv = p.cv /\ q.multi = p.multi
      /\ q.channel = p.channel /\ q.ring = p.ring /\ q.sub = p.sub
      /\ q.master = p.master /\ q.final = [p.final EXCEPT ![p.b.i] = full]
  BY DEF Buffers
<1>. QED
  BY <1>1, <1>3, <1>4, <1>5 DEF full

LEMMA AfterBatchType ==
    ASSUME NEW p \in Buffers
    PROVE  /\ AfterBatch(p).pipe \in Buffers /\ AfterBatch(p).out \in SUBSET Sound
           /\ AfterBatch(p).pipe.o = p.o /\ AfterBatch(p).pipe.b = p.b
<1>1. /\ p.channel[p.o[1]] \in SUBSET Sound
      /\ {} \in SUBSET Sound
  BY DEF Buffers, Slots
<1>2. CASE ~ p.cv[p.o[1]].effect
  BY <1>1, <1>2, MasterEffectFields DEF AfterBatch
<1>3. CASE p.cv[p.o[1]].effect /\ ~ p.cv[p.o[3]].effect
  BY <1>1, <1>3, MasterEffectFields DEF AfterBatch
<1>4. CASE p.cv[p.o[1]].effect /\ p.cv[p.o[3]].effect
  <2>. DEFINE q == MultiEq(Returned(p))
  <2>1. q \in Buffers /\ q.o = p.o /\ q.b = p.b
    BY ReturnedFields, MultiEqFields
  <2>2. AfterBatch(p) = MasterEffect(q, q.master[q.o[3]])
    BY <1>4 DEF AfterBatch
  <2>. DEFINE data == q.master[q.o[3]]
  <2>. HIDE DEF q
  <2>3. data \in SUBSET Sound
    BY <2>1 DEF Buffers, Slots
  <2>. HIDE DEF data
  <2>4. /\ MasterEffect(q, data).pipe \in Buffers /\ MasterEffect(q, data).out \in SUBSET Sound
        /\ MasterEffect(q, data).pipe.o = q.o /\ MasterEffect(q, data).pipe.b = q.b
    BY <2>1, <2>3, MasterEffectFields
  <2>5. AfterBatch(p) = MasterEffect(q, data)
    BY <2>2 DEF data
  <2>. QED
    BY <2>1, <2>4, <2>5
<1>. QED
  BY <1>2, <1>3, <1>4

-----------------------------------------------------------------------------
(* Every state is of its type, whatever the tune switches.                   *)

LEMMA TypeStep ==
    ASSUME MaxAge \in Nat, \A sounding \in Voicings : sounding \in SUBSET Channels,
           Switchable \subseteq Effects \cup {"multi"}
    PROVE  TypeOK /\ [Next]_vars => TypeOK'
<1>. SUFFICES ASSUME TypeOK, [Next]_vars PROVE TypeOK'
  OBVIOUS
<1>1. ASSUME NEW sounding \in Voicings, Compute(sounding) PROVE TypeOK'
  <2>. DEFINE q == AfterJobs(Turned, sounding)
              r == AfterBatch(q)
  <2>1. sounding \in SUBSET Channels
    OBVIOUS
  <2>2. Turned \in Buffers /\ Turned.o = Rotated /\ Turned.b = Swapped
    BY TurnedType
  <2>3. q \in Buffers /\ q.o = Rotated /\ q.b = Swapped
    BY <2>1, <2>2, AfterJobsFields
  <2>. HIDE DEF q
  <2>4. r.pipe \in Buffers /\ r.out \in SUBSET Sound /\ r.pipe.o = Rotated /\ r.pipe.b = Swapped
    BY <2>3, AfterBatchType
  <2>5. Becomes(r.pipe) /\ out' = r.out /\ on' = on
    BY <1>1 DEF Compute, q
  <2>. HIDE DEF r
  <2>. QED
    BY <2>4, <2>5 DEF Becomes, Buffers, TypeOK
<1>2. CASE Skip
  BY <1>2 DEF Skip, TypeOK
<1>3. ASSUME NEW e \in Switchable, Switch(e) PROVE TypeOK'
  BY <1>3 DEF Switch, TypeOK
<1>4. CASE Reset
  BY <1>4 DEF Reset, Cleared, TypeOK, Silence, NoData, Off, Flags
<1>5. CASE UNCHANGED vars
  BY <1>5 DEF vars, TypeOK
<1>. QED
  BY <1>1, <1>2, <1>3, <1>4, <1>5 DEF Next

-----------------------------------------------------------------------------
(* What the buffers hold between two blocks, when h has been played: a block   *)
(* of the channels at each of the first three indices, its sends and the dry   *)
(* part of the mix at the third, what the rings wait for, and the master        *)
(* effect's block.  After a reset the flags of a slot are off until a block     *)
(* comes to it, and then nothing sounded before.                                *)

Flagged == [effect |-> ~Flat, on |-> Options]

Final(h) == IF Flat THEN Block(h, 1) ELSE IF Multi THEN Mix(h, 1) ELSE Mix(h, 0)
Output(h) == IF Flat THEN Block(h, 2) ELSE IF Multi THEN Mix(h, 2) ELSE Mix(h, 1)

FlagsOf(p, h) ==
    \A j \in Slots : p.cv[p.o[j]] = Flagged \/ (p.cv[p.o[j]] = Off /\ Quiet(h, j))

Stages(p, h) ==
    /\ FlagsOf(p, h)
    /\ \A j \in Slots : p.channel[p.o[j]] = Block(h, j)
    /\ p.master[p.o[0]] = {} /\ p.master[p.o[1]] = {}
    /\ p.master[p.o[2]] = IF Flat THEN {} ELSE Out(h, 2)
    /\ Quiet(h, 0) => p.master[p.o[3]] = {}
    /\ ~Flat => /\ \A e \in On : p.sub[e][p.b.i] = To(h, e, 2) /\ p.sub[e][p.b.o] = {}
                /\ \A r \in On : \A j \in Slots :
                     p.ring[r][p.o[j]] = IF j < Tap[r] THEN Waits(h, r, j, j) ELSE {}
    /\ ~Flat /\ Multi => p.multi[p.b.i] = Mix(h, 0) /\ p.multi[p.b.o] = Mix(h, 1)
    /\ Flat \/ ~Multi => p.multi[p.b.i] = {} /\ p.multi[p.b.o] = {}

Carries(p, h) ==
    /\ Stages(p, h)
    /\ p.final[p.b.i].data = Final(h) /\ p.final[p.b.o].data = Output(h)
    /\ p.final[p.b.i].full \/ Quiet(h, 0)

\* The same when the indices have turned for the next block, and when the jobs of the
\* batch have run.
CarriesTurned(p, h) ==
    /\ FlagsOf(p, h)
    /\ \A j \in 1..3 : p.channel[p.o[j]] = Block(h, j)
    /\ \A j \in 0..2 : p.master[p.o[j]] = {}
    /\ p.master[p.o[3]] = IF Flat THEN {} ELSE Out(h, 3)
    /\ ~Flat => /\ \A e \in On : p.sub[e][p.b.o] = To(h, e, 3) /\ p.sub[e][p.b.i] = {}
                /\ \A r \in On : \A j \in Slots :
                     p.ring[r][p.o[j]] = IF 0 < j /\ j <= Tap[r] THEN Waits(h, r, j - 1, j) ELSE {}
    /\ ~Flat /\ Multi => p.multi[p.b.o] = Mix(h, 1) /\ p.multi[p.b.i] = Mix(h, 2)
    /\ Flat \/ ~Multi => p.multi[p.b.i] = {} /\ p.multi[p.b.o] = {}
    /\ p.final[p.b.o].data = Output(h)
    /\ p.final[p.b.o].full \/ Quiet(h, 1)

CarriesJobs(p, h) ==
    /\ FlagsOf(p, h)
    /\ \A j \in Slots : p.channel[p.o[j]] = Block(h, j)
    /\ p.master[p.o[0]] = {} /\ p.master[p.o[1]] = {}
    /\ p.master[p.o[2]] = IF Flat THEN {} ELSE Out(h, 2)
    /\ p.master[p.o[3]] = IF Flat THEN {} ELSE Out(h, 3)
    /\ ~Flat => /\ \A e \in On : p.sub[e][p.b.o] = Gives(h, e, 0) /\ p.sub[e][p.b.i] = To(h, e, 2)
                /\ \A r \in On : \A j \in Slots :
                     p.ring[r][p.o[j]] = IF 0 < j /\ j < Tap[r] THEN Waits(h, r, j - 1, j) ELSE {}
    /\ ~Flat /\ Multi => p.multi[p.b.o] = Mix(h, 1) /\ p.multi[p.b.i] = Mix(h, 2)
    /\ Flat \/ ~Multi => p.multi[p.b.i] = {} /\ p.multi[p.b.o] = {}
    /\ p.final[p.b.o].data = Output(h)
    /\ p.final[p.b.o].full \/ Quiet(h, 1)

\* The buffers as they are, and how the indices stand to each other.
Now == [o |-> ofs, b |-> buf, cv |-> cv, channel |-> channel, master |-> master,
        sub |-> sub, ring |-> ring, multi |-> multi, final |-> final]

Apart(p) ==
    /\ p.o[0] # p.o[1] /\ p.o[0] # p.o[2] /\ p.o[0] # p.o[3]
    /\ p.o[1] # p.o[2] /\ p.o[1] # p.o[3] /\ p.o[2] # p.o[3]
    /\ p.b.i # p.b.o

InTurn ==
    /\ ofs[0] = (ofs[1] + 1) % 4 /\ ofs[1] = (ofs[2] + 1) % 4
    /\ ofs[2] = (ofs[3] + 1) % 4 /\ ofs[3] = (ofs[0] + 1) % 4
    /\ buf.i # buf.o

\* A rotation gives every index but the first the slot of the one before it.
LEMMA InTurnTurns ==
    ASSUME TypeOK, InTurn
    PROVE  /\ Rotated[0] = ofs[3] /\ Rotated[1] = ofs[0]
           /\ Rotated[2] = ofs[1] /\ Rotated[3] = ofs[2]
           /\ Swapped.i = buf.o /\ Swapped.o = buf.i
           /\ Apart([o |-> Rotated, b |-> Swapped])
<1>1. /\ Rotated[0] = ofs[3] /\ Rotated[1] = ofs[0]
      /\ Rotated[2] = ofs[1] /\ Rotated[3] = ofs[2]
  <2>1. \A s \in Slots : Rotated[s] = (ofs[s] + 1) % 4
    BY DEF Rotated
  <2>2. 0 \in Slots /\ 1 \in Slots /\ 2 \in Slots /\ 3 \in Slots
    BY DEF Slots
  <2>. QED
    BY <2>1, <2>2, Zenon DEF InTurn
<1>2. ofs[0] \in Slots /\ ofs[1] \in Slots /\ ofs[2] \in Slots /\ ofs[3] \in Slots
  BY DEF TypeOK, Slots
<1>3. \A s \in Slots : s = 0 \/ s = 1 \/ s = 2 \/ s = 3
  BY DEF Slots
<1>4. (0 + 1) % 4 = 1 /\ (1 + 1) % 4 = 2 /\ (2 + 1) % 4 = 3 /\ (3 + 1) % 4 = 0
  OBVIOUS
<1>5. /\ ofs[0] # ofs[1] /\ ofs[0] # ofs[2] /\ ofs[0] # ofs[3]
      /\ ofs[1] # ofs[2] /\ ofs[1] # ofs[3] /\ ofs[2] # ofs[3]
  BY <1>2, <1>3, <1>4 DEF InTurn
<1>6. buf.i \in {0, 1} /\ buf.o \in {0, 1} /\ buf.i # buf.o
  BY DEF TypeOK, InTurn, Pair
<1>7. (0 + 1) % 2 = 1 /\ (1 + 1) % 2 = 0
  OBVIOUS
<1>8. Swapped.i = (buf.i + 1) % 2 /\ Swapped.o = (buf.o + 1) % 2
  BY DEF Swapped
<1>9. Swapped.i = buf.o /\ Swapped.o = buf.i
  BY <1>6, <1>7, <1>8
<1>. QED
  BY <1>1, <1>5, <1>6, <1>9 DEF Apart

LEMMA InTurnStep ==
    ASSUME TypeOK, InTurn, ofs' = Rotated /\ buf' = Swapped
    PROVE  InTurn'
<1>1. /\ Rotated[0] = ofs[3] /\ Rotated[1] = ofs[0]
      /\ Rotated[2] = ofs[1] /\ Rotated[3] = ofs[2]
      /\ Swapped.i = buf.o /\ Swapped.o = buf.i
  BY InTurnTurns
<1>2. PICK t, u : t = ofs' /\ u = buf'
  OBVIOUS
<1>3. /\ t[0] = ofs[3] /\ t[1] = ofs[0] /\ t[2] = ofs[1] /\ t[3] = ofs[2]
      /\ u.i = buf.o /\ u.o = buf.i
  BY <1>1, <1>2
<1>4. /\ t[0] = (t[1] + 1) % 4 /\ t[1] = (t[2] + 1) % 4
      /\ t[2] = (t[3] + 1) % 4 /\ t[3] = (t[0] + 1) % 4
      /\ u.i # u.o
  BY <1>3 DEF InTurn
<1>. QED
  BY <1>2, <1>4, Zenon DEF InTurn

LEMMA TurnedCarries ==
    ASSUME Setting, TypeOK, InTurn, on = Options,
           NEW h \in Histories, NEW S \in SUBSET Channels, Carries(Now, h)
    PROVE  CarriesTurned(Turned, Shift(h, S))
<1>. DEFINE g == Shift(h, S)
            p == Turned
<1>1. /\ p.o[0] = ofs[3] /\ p.o[1] = ofs[0] /\ p.o[2] = ofs[1] /\ p.o[3] = ofs[2]
      /\ p.b.i = buf.o /\ p.b.o = buf.i
      /\ p.cv = [cv EXCEPT ![ofs[3]] = NewFlags]
      /\ p.channel = [s \in Slots |-> Older(channel[s])]
      /\ p.master = [s \in Slots |-> IF s = ofs[3] THEN {} ELSE Older(master[s])]
      /\ p.sub = [e \in Effects |-> [k \in Pair |-> Older(sub[e][k])]]
      /\ p.ring = [e \in Effects |-> [s \in Slots |-> Older(ring[e][s])]]
      /\ p.multi = [k \in Pair |-> Older(multi[k])]
      /\ p.final = [k \in Pair |-> [final[k] EXCEPT !.data = Older(@)]]
  BY InTurnTurns DEF Turned
<1>2. /\ ofs[0] \in Slots /\ ofs[1] \in Slots /\ ofs[2] \in Slots /\ ofs[3] \in Slots
      /\ buf.i \in Pair /\ buf.o \in Pair
      /\ ofs[0] # ofs[3] /\ ofs[1] # ofs[3] /\ ofs[2] # ofs[3]
  <2>1. Apart([o |-> Rotated, b |-> Swapped])
    BY InTurnTurns
  <2>. QED
    BY <2>1, InTurnTurns DEF Apart, TypeOK, Slots
<1>3. \A j \in Nat : Quiet(h, j) => Quiet(g, j + 1)
  BY ShiftHistory
<1>4. FlagsOf(p, g)
  <2>1. NewFlags = Flagged
    <3>1. (Options \ {"multi"} # {}) = ~Flat
      BY DEF Flat
    <3>. QED
      BY <3>1 DEF NewFlags, Flagged
  <2>2. p.cv[p.o[0]] = Flagged
    BY <1>1, <1>2, <2>1 DEF TypeOK
  <2>3. /\ p.cv[p.o[1]] = cv[ofs[0]] /\ p.cv[p.o[2]] = cv[ofs[1]] /\ p.cv[p.o[3]] = cv[ofs[2]]
    BY <1>1, <1>2 DEF TypeOK
  <2>4. \A j \in Slots : cv[ofs[j]] = Flagged \/ (cv[ofs[j]] = Off /\ Quiet(h, j))
    BY DEF Carries, Stages, FlagsOf, Now
  <2>5. 0 + 1 = 1 /\ 1 + 1 = 2 /\ 2 + 1 = 3 /\ 0 \in Nat /\ 1 \in Nat /\ 2 \in Nat
    OBVIOUS
  <2>6. Quiet(h, 0) => Quiet(g, 1)
    BY <1>3, <2>5
  <2>7. Quiet(h, 1) => Quiet(g, 2)
    BY <1>3, <2>5
  <2>8. Quiet(h, 2) => Quiet(g, 3)
    BY <1>3, <2>5
  <2>9. 0 \in Slots /\ 1 \in Slots /\ 2 \in Slots
    BY DEF Slots
  <2>. HIDE DEF p, g
  <2>10. /\ p.cv[p.o[1]] = Flagged \/ (p.cv[p.o[1]] = Off /\ Quiet(g, 1))
         /\ p.cv[p.o[2]] = Flagged \/ (p.cv[p.o[2]] = Off /\ Quiet(g, 2))
         /\ p.cv[p.o[3]] = Flagged \/ (p.cv[p.o[3]] = Off /\ Quiet(g, 3))
    BY <2>3, <2>4, <2>6, <2>7, <2>8, <2>9, Zenon
  <2>11. \A j \in Slots : j = 0 \/ j = 1 \/ j = 2 \/ j = 3
    BY DEF Slots
  <2>. QED
    BY <2>2, <2>10, <2>11 DEF FlagsOf
<1>5. \A j \in 1..3 : p.channel[p.o[j]] = Block(g, j)
  <2>1. /\ channel[ofs[0]] = Block(h, 0) /\ channel[ofs[1]] = Block(h, 1)
        /\ channel[ofs[2]] = Block(h, 2)
    BY DEF Carries, Stages, Now, Slots
  <2>2. \A j \in 0..6 : Older(Block(h, j)) = Block(g, j + 1)
    BY BlockOlder
  <2>3. Older(Block(h, 0)) = Block(g, 1) /\ Older(Block(h, 1)) = Block(g, 2)
        /\ Older(Block(h, 2)) = Block(g, 3)
    BY <2>2
  <2>4. p.channel[p.o[1]] = Block(g, 1) /\ p.channel[p.o[2]] = Block(g, 2)
        /\ p.channel[p.o[3]] = Block(g, 3)
    BY <1>1, <1>2, <2>1, <2>3
  <2>5. \A j \in 1..3 : j = 1 \/ j = 2 \/ j = 3
    OBVIOUS
  <2>. QED
    BY <2>4, <2>5, Zenon
<1>6. \A j \in 0..2 : p.master[p.o[j]] = {}
  <2>1. master[ofs[0]] = {} /\ master[ofs[1]] = {} /\ Older({}) = {}
    BY DEF Carries, Stages, Now, Older
  <2>2. /\ p.o[0] = ofs[3] /\ p.o[1] = ofs[0] /\ p.o[2] = ofs[1]
        /\ \A s \in Slots : p.master[s] = IF s = ofs[3] THEN {} ELSE Older(master[s])
    BY <1>1
  <2>. HIDE DEF p
  <2>4. p.master[p.o[0]] = {} /\ p.master[p.o[1]] = {} /\ p.master[p.o[2]] = {}
    BY <1>2, <2>1, <2>2
  <2>3. \A j \in 0..2 : j = 0 \/ j = 1 \/ j = 2
    OBVIOUS
  <2>. QED
    BY <2>3, <2>4
<1>7. p.master[p.o[3]] = IF Flat THEN {} ELSE Out(g, 3)
  <2>1. master[ofs[2]] = IF Flat THEN {} ELSE Out(h, 2)
    BY DEF Carries, Stages, Now
  <2>2. 2 \in 0..6 /\ 2 + 1 = 3
    OBVIOUS
  <2>3. Older(Out(h, 2)) = Out(g, 3)
    BY <2>2, BlockOlder
  <2>4. Older({}) = {}
    BY DEF Older
  <2>5. p.o[3] = ofs[2] /\ \A s \in Slots : p.master[s] = IF s = ofs[3] THEN {} ELSE Older(master[s])
    BY <1>1
  <2>. HIDE DEF p, g
  <2>. QED
    BY <1>2, <2>1, <2>3, <2>4, <2>5
<1>8. ASSUME ~Flat, NEW e \in On PROVE p.sub[e][p.b.o] = To(g, e, 3) /\ p.sub[e][p.b.i] = {}
  <2>1. sub[e][buf.i] = To(h, e, 2) /\ sub[e][buf.o] = {} /\ Older({}) = {}
    BY <1>8 DEF Carries, Stages, Now, Older
  <2>2. 2 \in 0..6 /\ 2 + 1 = 3
    OBVIOUS
  <2>3. Older(To(h, e, 2)) = To(g, e, 3)
    BY <2>2, BlockOlder
  <2>4. /\ p.b.i = buf.o /\ p.b.o = buf.i /\ e \in Effects
        /\ \A k \in Pair : p.sub[e][k] = Older(sub[e][k])
    BY <1>1 DEF On
  <2>. HIDE DEF p, g
  <2>. QED
    BY <1>2, <2>1, <2>3, <2>4
<1>9. ASSUME ~Flat, NEW r \in On, NEW j \in Slots
      PROVE  p.ring[r][p.o[j]] = IF 0 < j /\ j <= Tap[r] THEN Waits(g, r, j - 1, j) ELSE {}
  <2>0. r \in Effects /\ Tap[r] \in 0..3
    BY Routing DEF On
  <2>1. \A i \in Slots : ring[r][ofs[i]] = IF i < Tap[r] THEN Waits(h, r, i, i) ELSE {}
    BY <1>9 DEF Carries, Stages, Now
  <2>2. Older({}) = {}
    BY DEF Older
  <2>3. \A i \in 0..3 : Older(Waits(h, r, i, i)) = Waits(g, r, i, i + 1)
    BY WaitsOlder
  <2>4. CASE j = 0
    <3>1. p.ring[r][p.o[0]] = Older(ring[r][ofs[3]])
      BY <1>1, <1>2, <2>0
    <3>2. ring[r][ofs[3]] = {}
      BY <2>0, <2>1 DEF Slots
    <3>. QED
      BY <2>2, <2>4, <3>1, <3>2
  <2>5. CASE j # 0
    <3>. DEFINE i == j - 1
    <3>1. i \in 0..2 /\ i \in Slots /\ j = i + 1 /\ 0 < j
      BY <2>5 DEF Slots
    <3>2. j <= Tap[r] <=> i < Tap[r]
      BY <2>0, <3>1
    <3>3. p.o[j] = ofs[i]
      BY <1>1, <3>1
    <3>4. ofs[i] \in Slots
      BY <3>1 DEF TypeOK
    <3>. HIDE DEF i
    <3>5. p.ring[r][p.o[j]] = Older(ring[r][ofs[i]])
      BY <1>1, <2>0, <3>3, <3>4
    <3>6. Older(Waits(h, r, i, i)) = Waits(g, r, i, j)
      BY <2>3, <3>1
    <3>7. j - 1 = i
      BY <3>1
    <3>8. CASE i < Tap[r]
      <4>1. ring[r][ofs[i]] = Waits(h, r, i, i)
        BY <2>1, <3>1, <3>8
      <4>2. p.ring[r][p.o[j]] = Waits(g, r, j - 1, j)
        BY <3>5, <3>6, <3>7, <4>1
      <4>. QED
        BY <3>1, <3>2, <3>8, <4>2
    <3>9. CASE ~ (i < Tap[r])
      <4>1. ring[r][ofs[i]] = {}
        BY <2>1, <3>1, <3>9
      <4>2. p.ring[r][p.o[j]] = {}
        BY <2>2, <3>5, <4>1
      <4>. QED
        BY <3>2, <3>9, <4>2
    <3>. QED
      BY <3>8, <3>9
  <2>. QED
    BY <2>4, <2>5
<1>10. ~Flat /\ Multi => p.multi[p.b.o] = Mix(g, 1) /\ p.multi[p.b.i] = Mix(g, 2)
  <2>. SUFFICES ASSUME ~Flat, Multi PROVE p.multi[p.b.o] = Mix(g, 1) /\ p.multi[p.b.i] = Mix(g, 2)
    OBVIOUS
  <2>1. multi[buf.i] = Mix(h, 0) /\ multi[buf.o] = Mix(h, 1)
    BY DEF Carries, Stages, Now
  <2>2. 0 \in 0..1 /\ 1 \in 0..1 /\ 0 + 1 = 1 /\ 1 + 1 = 2
    OBVIOUS
  <2>3. Older(Mix(h, 0)) = Mix(g, 1) /\ Older(Mix(h, 1)) = Mix(g, 2)
    BY <2>2, MixOlder
  <2>. QED
    BY <1>1, <1>2, <2>1, <2>3
<1>12. Flat \/ ~Multi => p.multi[p.b.i] = {} /\ p.multi[p.b.o] = {}
  <2>1. Flat \/ ~Multi => multi[buf.i] = {} /\ multi[buf.o] = {}
    BY DEF Carries, Stages, Now
  <2>2. Older({}) = {}
    BY DEF Older
  <2>3. p.multi[p.b.o] = Older(multi[buf.i]) /\ p.multi[p.b.i] = Older(multi[buf.o])
    BY <1>1, <1>2
  <2>. QED
    BY <2>1, <2>2, <2>3
<1>11. p.final[p.b.o].data = Output(g) /\ (p.final[p.b.o].full \/ Quiet(g, 1))
  <2>1. final[buf.i].data = Final(h) /\ (final[buf.i].full \/ Quiet(h, 0))
    BY DEF Carries, Stages, Now
  <2>2. final[buf.i] \in [data : SUBSET Sound, full : BOOLEAN]
    BY <1>2 DEF TypeOK
  <2>3. /\ p.final[p.b.o].data = Older(final[buf.i].data)
        /\ p.final[p.b.o].full = final[buf.i].full
    BY <1>1, <1>2, <2>2
  <2>4. Older(Final(h)) = Output(g)
    <3>1. 0 \in 0..1 /\ 1 \in 0..1 /\ 0 + 1 = 1 /\ 1 + 1 = 2 /\ 1 \in 0..6
      OBVIOUS
    <3>2. Multi => Older(Mix(h, 1)) = Mix(g, 2)
      BY <3>1, MixOlder
    <3>3. Older(Mix(h, 0)) = Mix(g, 1)
      BY <3>1, MixOlder
    <3>4. Older(Block(h, 1)) = Block(g, 2)
      BY <3>1, BlockOlder
    <3>. QED
      BY <3>2, <3>3, <3>4 DEF Final, Output
  <2>5. Quiet(h, 0) => Quiet(g, 1)
    <3>1. 0 \in Nat /\ 0 + 1 = 1
      OBVIOUS
    <3>. QED
      BY <1>3, <3>1
  <2>. QED
    BY <2>1, <2>3, <2>4, <2>5, Zenon
<1>. HIDE DEF p, g
<1>13. CarriesTurned(p, g)
  BY <1>4, <1>5, <1>6, <1>7, <1>8, <1>9, <1>10, <1>11, <1>12 DEF CarriesTurned
<1>. QED
  BY <1>13 DEF p, g

\* Different indices of different buffers.
LEMMA ApartSlots ==
    ASSUME NEW p, Apart(p)
    PROVE  \A j, k \in Slots : p.o[j] = p.o[k] => j = k
<1>1. \A j \in Slots : j = 0 \/ j = 1 \/ j = 2 \/ j = 3
  BY DEF Slots
<1>. QED
  BY <1>1 DEF Apart

LEMMA FlagFields ==
    /\ Flagged.effect <=> ~Flat
    /\ Flagged.on = Options
    /\ ~ Off.effect /\ Off.on = {}
<1>1. Flagged.effect <=> ~Flat
  BY Zenon DEF Flagged
<1>2. Flagged.on = Options
  BY DEF Flagged
<1>3. ~ Off.effect /\ Off.on = {}
  BY DEF Off
<1>. QED
  BY <1>1, <1>2, <1>3

LEMMA FreshIs ==
    ASSUME Setting, NEW h \in Histories
    PROVE  Fresh(h[0]) = Block(h, 0)
<1>1. h[0] \in SUBSET Channels
  BY DEF Histories, Ages
<1>2. ASSUME NEW c \in h[0]
      PROVE  [from |-> c, age |-> 0, first |-> "dry", last |-> "dry"] \in Block(h, 0)
  BY <1>1 DEF Block, Sound, Setting
<1>3. ASSUME NEW s \in Block(h, 0)
      PROVE  /\ s.from \in h[0]
             /\ s = [from |-> s.from, age |-> 0, first |-> "dry", last |-> "dry"]
  BY DEF Block, Sound
<1>. QED
  BY <1>2, <1>3 DEF Fresh

LEMMA JobsCarry ==
    ASSUME Setting, NEW p \in Buffers, Apart(p), NEW h \in Histories, CarriesTurned(p, h)
    PROVE  CarriesJobs(AfterJobs(p, h[0]), h)
<1>. DEFINE q == AfterJobs(p, h[0])
<1>1. h[0] \in SUBSET Channels /\ MaxAge \in Nat
  BY DEF Histories, Ages, Setting
<1>2. /\ q.o = p.o /\ q.b = p.b /\ q.cv = p.cv /\ q.multi = p.multi /\ q.final = p.final
      /\ q.channel = [p.channel EXCEPT ![p.o[0]] = Fresh(h[0])]
      /\ q.master = [p.master EXCEPT ![p.o[2]] = @ \cup Sent(p, "out")]
      /\ q.sub = [e \in Effects |-> [Done(p)[e] EXCEPT ![p.b.i] = @ \cup Sent(p, e)]]
      /\ q.ring = Drained(p)
  BY <1>1, AfterJobsFields
<1>. HIDE DEF q
<1>3. /\ p.o \in [Slots -> Slots] /\ p.b.i \in Pair /\ p.b.o \in Pair
      /\ p.channel \in [Slots -> SUBSET Sound] /\ p.master \in [Slots -> SUBSET Sound]
      /\ p.sub \in [Effects -> [Pair -> SUBSET Sound]]
      /\ p.ring \in [Effects -> [Slots -> SUBSET Sound]]
  BY DEF Buffers
<1>4. /\ p.o[0] \in Slots /\ p.o[1] \in Slots /\ p.o[2] \in Slots /\ p.o[3] \in Slots
      /\ 2 \in Slots /\ 3 \in Slots
  BY <1>3 DEF Slots
<1>5. /\ p.o[0] # p.o[1] /\ p.o[0] # p.o[2] /\ p.o[1] # p.o[2]
      /\ p.o[0] # p.o[3] /\ p.o[3] # p.o[2] /\ p.b.i # p.b.o
  BY DEF Apart
<1>6. FlagsOf(q, h)
  BY <1>2 DEF CarriesTurned, FlagsOf
<1>7. \A j \in Slots : q.channel[q.o[j]] = Block(h, j)
  <2>1. q.channel[q.o[0]] = Block(h, 0)
    BY <1>2, <1>3, <1>4, FreshIs
  <2>2. /\ q.channel[q.o[1]] = Block(h, 1) /\ q.channel[q.o[2]] = Block(h, 2)
        /\ q.channel[q.o[3]] = Block(h, 3)
    BY <1>2, <1>3, <1>4, <1>5 DEF CarriesTurned
  <2>3. \A j \in Slots : j = 0 \/ j = 1 \/ j = 2 \/ j = 3
    BY DEF Slots
  <2>. QED
    BY <2>1, <2>2, <2>3
<1>8. ASSUME ~Flat, NEW to PROVE Sent(p, to) = To(h, to, 2)
  <2>1. p.cv[p.o[2]] = Flagged \/ (p.cv[p.o[2]] = Off /\ Quiet(h, 2))
    BY <1>4, Zenon DEF CarriesTurned, FlagsOf
  <2>2. p.channel[p.o[2]] = Block(h, 2)
    BY DEF CarriesTurned
  <2>3. CASE p.cv[p.o[2]] = Flagged
    <3>1. p.cv[p.o[2]].effect /\ p.cv[p.o[2]].on = Options
      BY <1>8, <2>3, FlagFields
    <3>. QED
      BY <2>2, <3>1 DEF Sent, To
  <2>4. CASE p.cv[p.o[2]] = Off /\ Quiet(h, 2)
    <3>1. Block(h, 2) = {}
      BY <2>4, QuietForms DEF Ages
    <3>. QED
      BY <2>2, <3>1 DEF Sent, To
  <2>. QED
    BY <2>1, <2>3, <2>4
<1>9. q.master[q.o[0]] = {} /\ q.master[q.o[1]] = {}
  BY <1>2, <1>3, <1>4, <1>5 DEF CarriesTurned
<1>10. /\ q.master[q.o[2]] = IF Flat THEN {} ELSE Out(h, 2)
       /\ q.master[q.o[3]] = IF Flat THEN {} ELSE Out(h, 3)
  <2>1. To(h, "out", 2) = Out(h, 2)
    BY DEF To, Out
  <2>2. Sent(p, "out") = IF Flat THEN {} ELSE Out(h, 2)
    <3>1. CASE ~Flat
      BY <1>8, <2>1, <3>1
    <3>2. CASE Flat
      <4>1. p.cv[p.o[2]] = Flagged \/ p.cv[p.o[2]] = Off
        BY <1>4, Zenon DEF CarriesTurned, FlagsOf
      <4>2. ~ p.cv[p.o[2]].effect
        BY <3>2, <4>1, FlagFields, Zenon
      <4>. QED
        BY <3>2, <4>2 DEF Sent
    <3>. QED
      BY <3>1, <3>2
  <2>3. p.master[p.o[2]] = {} /\ p.master[p.o[3]] = IF Flat THEN {} ELSE Out(h, 3)
    BY DEF CarriesTurned
  <2>4. q.master[p.o[2]] = p.master[p.o[2]] \cup Sent(p, "out")
    BY <1>2, <1>3, <1>4
  <2>5. q.master[p.o[3]] = p.master[p.o[3]]
    BY <1>2, <1>3, <1>4, <1>5
  <2>. QED
    BY <1>2, <2>2, <2>3, <2>4, <2>5
<1>11. p.cv[p.o[3]] = Flagged \/ (p.cv[p.o[3]] = Off /\ Quiet(h, 3))
  BY <1>4, Zenon DEF CarriesTurned, FlagsOf
<1>12. ASSUME ~Flat, NEW e \in On, p.cv[p.o[3]] = Flagged PROVE Runs(p, 3, e)
  <2>1. p.cv[p.o[3]].effect /\ p.cv[p.o[3]].on = Options
    BY <1>12, FlagFields
  <2>. QED
    BY <2>1 DEF Runs, On
<1>13. ASSUME NEW e, p.cv[p.o[3]] = Off PROVE ~ Runs(p, 3, e)
  BY <1>13 DEF Off, Runs
<1>14. ASSUME ~Flat, NEW e \in On
       PROVE  Done(p)[e][p.b.o] = Gives(h, e, 0) /\ Done(p)[e][p.b.i] = {}
  <2>1. p.sub[e][p.b.o] = To(h, e, 3) /\ p.sub[e][p.b.i] = {}
    BY <1>14 DEF CarriesTurned
  <2>2. e \in Effects /\ Tap[e] \in Slots /\ Tap[e] \in 0..3
    BY Routing DEF On, Slots
  <2>3. CASE p.cv[p.o[3]] = Flagged
    <3>1. Done(p)[e] = [p.sub[e] EXCEPT ![p.b.o] = Wet(e, @ \cup p.ring[e][p.o[Tap[e]]])]
      BY <1>12, <1>14, <2>2, <2>3 DEF Done
    <3>2. p.ring[e][p.o[Tap[e]]] = IF 0 < Tap[e] /\ Tap[e] <= Tap[e]
                                   THEN Waits(h, e, Tap[e] - 1, Tap[e]) ELSE {}
      BY <1>14, <2>2 DEF CarriesTurned
    <3>3. p.ring[e][p.o[Tap[e]]] = IF Tap[e] > 0 THEN Waits(h, e, Tap[e] - 1, Tap[e]) ELSE {}
      BY <2>2, <3>2
    <3>4. Wet(e, p.sub[e][p.b.o] \cup p.ring[e][p.o[Tap[e]]]) = Gives(h, e, 0)
      BY <2>1, <3>3, DoneIs
    <3>5. p.sub[e] \in [Pair -> SUBSET Sound]
      BY <1>3, <2>2
    <3>. QED
      BY <1>3, <1>5, <2>1, <3>1, <3>4, <3>5
  <2>4. CASE p.cv[p.o[3]] = Off /\ Quiet(h, 3)
    <3>1. Done(p)[e] = p.sub[e]
      BY <1>13, <2>2, <2>4 DEF Done
    <3>2. To(h, e, 3) = {} /\ Gives(h, e, 0) = {}
      BY <2>4, QuietForms DEF Ages
    <3>. QED
      BY <2>1, <3>1, <3>2
  <2>. QED
    BY <1>11, <2>3, <2>4
<1>15. ASSUME ~Flat, NEW e \in On
       PROVE  q.sub[e][q.b.o] = Gives(h, e, 0) /\ q.sub[e][q.b.i] = To(h, e, 2)
  <2>1. e \in Effects
    BY DEF On
  <2>. DEFINE f == Done(p)[e]
              X == Sent(p, e)
  <2>2. f \in [Pair -> SUBSET Sound]
    BY <1>1, <2>1, JobsType
  <2>3. q.sub[e] = [f EXCEPT ![p.b.i] = @ \cup X]
    BY <1>2, <2>1
  <2>4. X = To(h, e, 2)
    BY <1>8, <1>15
  <2>5. f[p.b.o] = Gives(h, e, 0) /\ f[p.b.i] = {}
    BY <1>14, <1>15
  <2>. HIDE DEF f, X
  <2>6. q.sub[e][p.b.o] = f[p.b.o] /\ q.sub[e][p.b.i] = f[p.b.i] \cup X
    BY <1>3, <1>5, <2>2, <2>3
  <2>. QED
    BY <1>2, <2>4, <2>5, <2>6
<1>16. ASSUME ~Flat, NEW r \in On, NEW j \in Slots
       PROVE  q.ring[r][q.o[j]] = IF 0 < j /\ j < Tap[r] THEN Waits(h, r, j - 1, j) ELSE {}
  <2>1. r \in Effects /\ Tap[r] \in Slots /\ Tap[r] \in 0..3 /\ j \in 0..3
    BY Routing DEF On, Slots
  <2>2. p.ring[r][p.o[j]] = IF 0 < j /\ j <= Tap[r] THEN Waits(h, r, j - 1, j) ELSE {}
    BY <1>16 DEF CarriesTurned
  <2>3. p.ring[r] \in [Slots -> SUBSET Sound] /\ p.o[j] \in Slots
    BY <1>3, <2>1
  <2>4. CASE p.cv[p.o[3]] = Flagged
    <3>1. q.ring[r] = [p.ring[r] EXCEPT ![p.o[Tap[r]]] = {}]
      BY <1>2, <1>12, <1>16, <2>1, <2>4 DEF Drained
    <3>2. CASE j = Tap[r]
      <4>1. q.ring[r][q.o[j]] = {}
        BY <1>2, <2>3, <3>1, <3>2
      <4>. QED
        BY <2>1, <3>2, <4>1
    <3>3. CASE j # Tap[r]
      <4>1. p.o[j] # p.o[Tap[r]]
        BY <2>1, <3>3, ApartSlots
      <4>2. q.ring[r][q.o[j]] = p.ring[r][p.o[j]]
        BY <1>2, <2>3, <3>1, <4>1
      <4>3. j < Tap[r] <=> j <= Tap[r]
        BY <2>1, <3>3
      <4>. QED
        BY <2>2, <4>2, <4>3
    <3>. QED
      BY <3>2, <3>3
  <2>5. CASE p.cv[p.o[3]] = Off /\ Quiet(h, 3)
    <3>1. q.ring[r] = p.ring[r]
      BY <1>2, <1>13, <2>1, <2>5 DEF Drained
    <3>2. 0 < j => Waits(h, r, j - 1, j) = {}
      <4>. SUFFICES ASSUME 0 < j PROVE Waits(h, r, j - 1, j) = {}
        OBVIOUS
      <4>1. j - 1 \in Nat /\ j \in Nat /\ j - 1 <= j /\ 3 \in Ages /\ 3 <= 3
        BY <2>1 DEF Ages
      <4>. QED
        BY <2>5, <4>1, QuietForms
    <3>. QED
      BY <1>2, <2>2, <3>1, <3>2
  <2>. QED
    BY <1>11, <2>4, <2>5
<1>17. /\ ~Flat /\ Multi => q.multi[q.b.o] = Mix(h, 1) /\ q.multi[q.b.i] = Mix(h, 2)
       /\ Flat \/ ~Multi => q.multi[q.b.i] = {} /\ q.multi[q.b.o] = {}
  BY <1>2 DEF CarriesTurned
<1>18. q.final[q.b.o].data = Output(h) /\ (q.final[q.b.o].full \/ Quiet(h, 1))
  BY <1>2, Zenon DEF CarriesTurned
<1>19. CarriesJobs(q, h)
  BY <1>6, <1>7, <1>9, <1>10, <1>15, <1>16, <1>17, <1>18 DEF CarriesJobs
<1>. QED
  BY <1>19 DEF q

\* The master effect gives back the block before, or the same one after a reset.
LEMMA MasterCarry ==
    ASSUME Setting, NEW p \in Buffers, Apart(p), NEW h \in Histories, Stages(p, h),
           p.final[p.b.o].data = Output(h), p.final[p.b.o].full \/ Quiet(h, 1)
    PROVE  /\ Carries(MasterEffect(p, Final(h)).pipe, h)
           /\ MasterEffect(p, Final(h)).out = Output(h)
<1>. DEFINE data == Final(h)
            m == MasterEffect(p, data)
            q == m.pipe
<1>1. data \in SUBSET Sound
  BY DEF Final, Block, Mix, Out, Wets
<1>2. /\ q.o = p.o /\ q.b = p.b /\ q.cv = p.cv /\ q.multi = p.multi
      /\ q.channel = p.channel /\ q.ring = p.ring /\ q.sub = p.sub
      /\ q.master = p.master
      /\ q.final = [p.final EXCEPT ![p.b.i] = [data |-> data, full |-> TRUE]]
      /\ m.out = IF p.final[p.b.o].full THEN p.final[p.b.o].data ELSE data
  <2>. HIDE DEF data
  <2>. QED
    BY <1>1, MasterEffectFields
<1>. HIDE DEF m
<1>3. p.final \in [Pair -> [data : SUBSET Sound, full : BOOLEAN]] /\ p.b.i \in Pair
  BY DEF Buffers
<1>. HIDE DEF data, q
<1>4. q.final[q.b.i] = [data |-> data, full |-> TRUE]
  BY <1>2, <1>3
<1>5. /\ q.final[q.b.i].data = data /\ q.final[q.b.i].full
      /\ q.final[q.b.o].data = Output(h)
  <2>1. q.final[q.b.o] = p.final[p.b.o]
    BY <1>2, <1>3 DEF Apart
  <2>. QED
    BY <1>4, <2>1
<1>6. Stages(q, h)
  BY <1>2 DEF Stages, FlagsOf
<1>7. Quiet(h, 1) => Output(h) = {} /\ Final(h) = {}
  <2>. SUFFICES ASSUME Quiet(h, 1) PROVE Output(h) = {} /\ Final(h) = {}
    OBVIOUS
  <2>1. 1 \in Ages /\ 2 \in Ages /\ 1 <= 3 /\ 2 >= 1 /\ 1 >= 1 /\ 0 \in 0..4 /\ 1 \in 0..4 /\ 2 \in 0..4
    BY DEF Ages
  <2>2. Block(h, 1) = {} /\ Block(h, 2) = {}
    BY <2>1, QuietForms
  <2>3. Mix(h, 0) = {} /\ Mix(h, 1) = {} /\ Mix(h, 2) = {}
    BY <2>1, QuietForms
  <2>. QED
    BY <2>2, <2>3 DEF Output, Final
<1>8. m.out = Output(h)
  BY <1>2, <1>7 DEF data
<1>9. Carries(q, h)
  BY <1>5, <1>6, Zenon DEF Carries, data
<1>. QED
  BY <1>8, <1>9 DEF q, m, data

\* A block without effects, or one of the silence after a reset, goes through.
LEMMA PlainCarry ==
    ASSUME Setting, NEW p \in Buffers, NEW h \in Histories, CarriesJobs(p, h),
           Flat \/ Quiet(h, 3)
    PROVE  Stages(p, h)
<1>0. Quiet(h, 0) => p.master[p.o[3]] = {}
  <2>. SUFFICES ASSUME Quiet(h, 0) PROVE p.master[p.o[3]] = {}
    OBVIOUS
  <2>1. 0 \in Ages /\ 3 \in Ages /\ 3 >= 0
    BY DEF Ages
  <2>2. Out(h, 3) = {}
    BY <2>1, QuietForms
  <2>. QED
    BY <2>2 DEF CarriesJobs
<1>1. CASE Flat
  BY <1>0, <1>1 DEF Stages, CarriesJobs
<1>2. CASE ~Flat /\ Quiet(h, 3)
  <2>1. 3 \in Ages /\ 3 <= 3 /\ 0 \in 0..4 /\ 2 \in 0..4 /\ 0 \in Nat
    BY DEF Ages
  <2>2. \A e : Gives(h, e, 0) = {}
    BY <1>2, <2>1, QuietForms
  <2>3. Mix(h, 0) = {} /\ Mix(h, 2) = {}
    BY <1>2, <2>1, QuietForms
  <2>4. ASSUME NEW r \in On, NEW j \in Slots
        PROVE  p.ring[r][p.o[j]] = IF j < Tap[r] THEN Waits(h, r, j, j) ELSE {}
    <3>1. p.ring[r][p.o[j]] = IF 0 < j /\ j < Tap[r] THEN Waits(h, r, j - 1, j) ELSE {}
      BY <1>2 DEF CarriesJobs
    <3>2. j \in Nat /\ j <= j
      BY DEF Slots
    <3>3. Waits(h, r, j, j) = {}
      BY <1>2, <2>1, <3>2, QuietForms
    <3>4. 0 < j => Waits(h, r, j - 1, j) = {}
      <4>. SUFFICES ASSUME 0 < j PROVE Waits(h, r, j - 1, j) = {}
        OBVIOUS
      <4>1. j - 1 \in Nat /\ j - 1 <= j
        BY <3>2
      <4>. QED
        BY <1>2, <2>1, <3>2, <4>1, QuietForms
    <3>. QED
      BY <3>1, <3>3, <3>4
  <2>5. \A e \in On : p.sub[e][p.b.i] = To(h, e, 2) /\ p.sub[e][p.b.o] = {}
    BY <1>2, <2>2 DEF CarriesJobs
  <2>6. Multi => p.multi[p.b.i] = Mix(h, 0) /\ p.multi[p.b.o] = Mix(h, 1)
    BY <1>2, <2>3 DEF CarriesJobs
  <2>. QED
    BY <1>0, <1>2, <2>4, <2>5, <2>6 DEF Stages, CarriesJobs
<1>. QED
  BY <1>1, <1>2

\* The mixing of a block with effects.
LEMMA MixedCarry ==
    ASSUME Setting, NEW p \in Buffers, Apart(p), NEW h \in Histories, CarriesJobs(p, h),
           p.cv[p.o[3]] = Flagged, ~Flat
    PROVE  LET q == MultiEq(Returned(p))
           IN  /\ q \in Buffers /\ q.o = p.o /\ q.b = p.b /\ q.final = p.final
               /\ Stages(q, h) /\ q.master[q.o[3]] = Final(h)
<1>. DEFINE flags == p.cv[p.o[3]].on
            r == Returned(p)
            q == MultiEq(r)
<1>1. /\ p.o \in [Slots -> Slots] /\ p.b.i \in Pair /\ p.b.o \in Pair
      /\ p.master \in [Slots -> SUBSET Sound] /\ p.multi \in [Pair -> SUBSET Sound]
      /\ p.sub \in [Effects -> [Pair -> SUBSET Sound]]
      /\ p.ring \in [Effects -> [Slots -> SUBSET Sound]]
  BY DEF Buffers
<1>2. /\ p.o[0] \in Slots /\ p.o[1] \in Slots /\ p.o[2] \in Slots /\ p.o[3] \in Slots
      /\ p.o[0] # p.o[3] /\ p.o[1] # p.o[3] /\ p.o[2] # p.o[3] /\ p.b.i # p.b.o
  BY <1>1 DEF Slots, Apart
<1>3. p.cv[p.o[3]].effect /\ flags = Options
  BY FlagFields
<1>4. \A e : Runs(p, 3, e) <=> e \in Options
  BY <1>3, Zenon DEF Runs, flags
<1>5. \A e \in On : Given(p, e) = Gives(h, e, 0)
  BY <1>4 DEF Given, CarriesJobs, On
<1>6. \A e \in Effects : e \notin On => Given(p, e) = {}
  BY <1>4 DEF Given, On
<1>7. /\ r \in Buffers /\ r.o = p.o /\ r.b = p.b /\ r.cv = p.cv
      /\ r.multi = p.multi /\ r.final = p.final /\ r.channel = p.channel
      /\ r.master = [p.master EXCEPT ![p.o[3]] =
           @ \cup UNION {Given(p, e) : e \in {e \in Effects : "eq" \notin Feeds(e, flags)}}]
      /\ r.ring = [x \in Effects |-> [s \in Slots |->
           p.ring[x][s] \cup UNION {Given(p, e) :
               e \in {e \in Effects : x \in Feeds(e, flags) /\ p.o[Tap[e]] = s}}]]
      /\ r.sub = [e \in Effects |->
           IF Runs(p, 3, e) THEN [p.sub[e] EXCEPT ![p.b.o] = {}] ELSE p.sub[e]]
  BY ReturnedFields
<1>. HIDE DEF r, flags
<1>8. Runs(r, 3, "multi") <=> Multi
  BY <1>4, <1>7 DEF Runs, Multi
<1>9. (System # "gs" /\ Runs(r, 3, "multi")) <=> Multi
  BY <1>8 DEF Setting, Multi
<1>10. /\ q \in Buffers /\ q.o = r.o /\ q.b = r.b /\ q.cv = r.cv /\ q.final = r.final
       /\ q.channel = r.channel /\ q.ring = r.ring /\ q.sub = r.sub
       /\ q.multi = IF Multi THEN [r.multi EXCEPT ![r.b.i] = r.master[r.o[3]]] ELSE r.multi
       /\ q.master = IF Multi THEN [r.master EXCEPT ![r.o[3]] = r.multi[r.b.o]] ELSE r.master
  BY <1>7, <1>9, MultiEqFields
<1>. HIDE DEF q
<1>11. r.master[p.o[3]] = Mix(h, 0)
  <2>. DEFINE X == UNION {Given(p, e) : e \in {e \in Effects : "eq" \notin Feeds(e, flags)}}
  <2>1. X = UNION {Gives(h, e, 0) : e \in {e \in On : "eq" \notin Feeds(e, Options)}}
    BY <1>3, <1>5, <1>6 DEF On
  <2>2. p.master[p.o[3]] = Out(h, 3)
    BY DEF CarriesJobs
  <2>3. r.master = [p.master EXCEPT ![p.o[3]] = @ \cup X]
    BY <1>7
  <2>. HIDE DEF X
  <2>4. r.master[p.o[3]] = Out(h, 3) \cup X
    BY <1>1, <1>2, <2>2, <2>3
  <2>. QED
    BY <2>1, <2>4, MixIs
<1>12. r.master[p.o[0]] = {} /\ r.master[p.o[1]] = {} /\ r.master[p.o[2]] = Out(h, 2)
  <2>. DEFINE X == UNION {Given(p, e) : e \in {e \in Effects : "eq" \notin Feeds(e, flags)}}
  <2>1. r.master = [p.master EXCEPT ![p.o[3]] = @ \cup X]
    BY <1>7
  <2>. HIDE DEF X
  <2>2. r.master[p.o[0]] = p.master[p.o[0]] /\ r.master[p.o[1]] = p.master[p.o[1]]
        /\ r.master[p.o[2]] = p.master[p.o[2]]
    BY <1>1, <1>2, <2>1
  <2>. QED
    BY <2>2 DEF CarriesJobs
<1>13. /\ q.master[p.o[0]] = {} /\ q.master[p.o[1]] = {} /\ q.master[p.o[2]] = Out(h, 2)
       /\ q.master[p.o[3]] = Final(h)
       /\ Multi => q.multi[p.b.i] = Mix(h, 0) /\ q.multi[p.b.o] = Mix(h, 1)
       /\ ~Multi => q.multi[p.b.i] = {} /\ q.multi[p.b.o] = {}
  <2>1. r.master \in [Slots -> SUBSET Sound] /\ r.multi \in [Pair -> SUBSET Sound]
    BY <1>7 DEF Buffers
  <2>2. CASE Multi
    <3>1. p.multi[p.b.o] = Mix(h, 1)
      BY <2>2 DEF CarriesJobs
    <3>. QED
      BY <1>1, <1>2, <1>7, <1>10, <1>11, <1>12, <2>1, <2>2, <3>1 DEF Final
  <2>3. CASE ~Multi
    BY <1>7, <1>10, <1>11, <1>12, <2>3 DEF Final, CarriesJobs
  <2>. QED
    BY <2>2, <2>3
<1>14. ASSUME NEW e \in On PROVE q.sub[e][p.b.i] = To(h, e, 2) /\ q.sub[e][p.b.o] = {}
  <2>1. q.sub[e] = [p.sub[e] EXCEPT ![p.b.o] = {}]
    BY <1>4, <1>7, <1>10 DEF On
  <2>2. p.sub[e] \in [Pair -> SUBSET Sound]
    BY <1>1 DEF On
  <2>. QED
    BY <1>1, <1>2, <2>1, <2>2 DEF CarriesJobs
<1>15. ASSUME NEW x \in On, NEW j \in Slots
       PROVE  q.ring[x][p.o[j]] = IF j < Tap[x] THEN Waits(h, x, j, j) ELSE {}
  <2>. DEFINE E == {e \in On : x \in Feeds(e, Options) /\ Tap[e] = j}
              G == {e \in Effects : x \in Feeds(e, flags) /\ p.o[Tap[e]] = p.o[j]}
  <2>1. x \in Effects /\ p.o[j] \in Slots /\ j \in 0..3
    BY <1>1 DEF On, Slots
  <2>2. q.ring[x][p.o[j]] = p.ring[x][p.o[j]] \cup UNION {Given(p, e) : e \in G}
    BY <1>7, <1>10, <2>1
  <2>3. \A e \in Effects : p.o[Tap[e]] = p.o[j] <=> Tap[e] = j
    <3>1. \A e \in Effects : Tap[e] \in Slots
      BY Routing DEF Slots
    <3>. QED
      BY <3>1, ApartSlots
  <2>4. UNION {Given(p, e) : e \in G} = UNION {Gives(h, e, 0) : e \in E}
    BY <1>3, <1>5, <1>6, <2>3 DEF On
  <2>5. p.ring[x][p.o[j]] = IF 0 < j /\ j < Tap[x] THEN Waits(h, x, j - 1, j) ELSE {}
    BY DEF CarriesJobs
  <2>6. CASE j < Tap[x]
    <3>1. p.ring[x][p.o[j]] = IF j > 0 THEN Waits(h, x, j - 1, j) ELSE {}
      BY <2>1, <2>5, <2>6
    <3>2. Waits(h, x, j, j) = (IF j > 0 THEN Waits(h, x, j - 1, j) ELSE {})
                                \cup UNION {Gives(h, e, 0) : e \in E}
      BY <2>1, WaitsMore
    <3>. QED
      BY <2>2, <2>4, <2>6, <3>1, <3>2
  <2>7. CASE ~ (j < Tap[x])
    <3>1. E = {}
      BY <2>7, Routing
    <3>2. p.ring[x][p.o[j]] = {}
      BY <2>5, <2>7
    <3>. QED
      BY <2>2, <2>4, <2>7, <3>1, <3>2
  <2>. QED
    BY <2>6, <2>7
<1>16. FlagsOf(q, h) /\ \A j \in Slots : q.channel[q.o[j]] = Block(h, j)
  BY <1>7, <1>10 DEF CarriesJobs, FlagsOf
<1>17. Quiet(h, 0) => Final(h) = {}
  <2>. SUFFICES ASSUME Quiet(h, 0) PROVE Final(h) = {}
    OBVIOUS
  <2>1. 0 \in Ages /\ 0 <= 3 /\ 0 \in 0..4 /\ 1 \in 0..4
    BY DEF Ages
  <2>2. Mix(h, 0) = {} /\ Mix(h, 1) = {}
    BY <2>1, QuietForms
  <2>. QED
    BY <2>2 DEF Final
<1>18. Stages(q, h)
  <2>1. /\ q.o = p.o /\ q.b = p.b
    BY <1>7, <1>10
  <2>2. /\ q.master[q.o[0]] = {} /\ q.master[q.o[1]] = {}
        /\ q.master[q.o[2]] = IF Flat THEN {} ELSE Out(h, 2)
        /\ Quiet(h, 0) => q.master[q.o[3]] = {}
    BY <1>13, <1>17, <2>1
  <2>3. /\ ~Flat /\ Multi => q.multi[q.b.i] = Mix(h, 0) /\ q.multi[q.b.o] = Mix(h, 1)
        /\ Flat \/ ~Multi => q.multi[q.b.i] = {} /\ q.multi[q.b.o] = {}
    BY <1>13, <2>1
  <2>4. /\ \A e \in On : q.sub[e][q.b.i] = To(h, e, 2) /\ q.sub[e][q.b.o] = {}
        /\ \A x \in On : \A j \in Slots :
             q.ring[x][q.o[j]] = IF j < Tap[x] THEN Waits(h, x, j, j) ELSE {}
    BY <1>14, <1>15, <2>1
  <2>. QED
    BY <1>16, <2>2, <2>3, <2>4 DEF Stages
<1>. QED
  BY <1>7, <1>10, <1>13, <1>18 DEF q, r

LEMMA BatchCarry ==
    ASSUME Setting, NEW p \in Buffers, Apart(p), NEW h \in Histories, CarriesJobs(p, h)
    PROVE  Carries(AfterBatch(p).pipe, h) /\ AfterBatch(p).out = Output(h)
<1>1. /\ p.final[p.b.o].data = Output(h)
      /\ p.final[p.b.o].full \/ Quiet(h, 1)
  BY Zenon DEF CarriesJobs
<1>2. /\ p.cv[p.o[1]] = Flagged \/ (p.cv[p.o[1]] = Off /\ Quiet(h, 1))
      /\ p.cv[p.o[3]] = Flagged \/ (p.cv[p.o[3]] = Off /\ Quiet(h, 3))
  <2>1. 1 \in Slots /\ 3 \in Slots
    BY DEF Slots
  <2>. QED
    BY <2>1, Zenon DEF CarriesJobs, FlagsOf
<1>3. Quiet(h, 1) => Quiet(h, 3)
  BY DEF Quiet, Ages
<1>4. CASE ~ p.cv[p.o[1]].effect
  <2>1. Flat \/ Quiet(h, 1)
    BY <1>2, <1>4, FlagFields, Zenon
  <2>2. Stages(p, h)
    BY <1>3, <2>1, PlainCarry
  <2>3. p.channel[p.o[1]] = Block(h, 1)
    BY DEF CarriesJobs, Slots
  <2>4. Final(h) = Block(h, 1)
    <3>1. CASE Flat
      BY <3>1 DEF Final
    <3>2. CASE Quiet(h, 1)
      <4>1. 1 \in Ages /\ 1 <= 3 /\ 1 >= 1 /\ 0 \in 0..4 /\ 1 \in 0..4
        BY DEF Ages
      <4>2. Block(h, 1) = {} /\ Mix(h, 0) = {} /\ Mix(h, 1) = {}
        BY <3>2, <4>1, QuietForms
      <4>. QED
        BY <4>2 DEF Final
    <3>. QED
      BY <2>1, <3>1, <3>2
  <2>5. AfterBatch(p) = MasterEffect(p, Final(h))
    BY <1>4, <2>3, <2>4 DEF AfterBatch
  <2>. QED
    BY <1>1, <2>2, <2>5, MasterCarry
<1>5. CASE p.cv[p.o[1]].effect /\ ~ p.cv[p.o[3]].effect
  <2>1. ~Flat /\ Quiet(h, 3)
    BY <1>2, <1>5, FlagFields, Zenon
  <2>2. Stages(p, h)
    BY <2>1, PlainCarry
  <2>3. Final(h) = {}
    <3>1. 3 \in Ages /\ 3 <= 3 /\ 0 \in 0..4 /\ 1 \in 0..4
      BY DEF Ages
    <3>2. Mix(h, 0) = {} /\ Mix(h, 1) = {}
      BY <2>1, <3>1, QuietForms
    <3>. QED
      BY <2>1, <3>2 DEF Final
  <2>4. AfterBatch(p) = MasterEffect(p, Final(h))
    BY <1>5, <2>3 DEF AfterBatch
  <2>. QED
    BY <1>1, <2>2, <2>4, MasterCarry
<1>6. CASE p.cv[p.o[1]].effect /\ p.cv[p.o[3]].effect
  <2>. DEFINE q == MultiEq(Returned(p))
  <2>1. p.cv[p.o[3]] = Flagged /\ ~Flat
    BY <1>2, <1>6, FlagFields, Zenon
  <2>2. /\ q \in Buffers /\ q.o = p.o /\ q.b = p.b /\ q.final = p.final
        /\ Stages(q, h) /\ q.master[q.o[3]] = Final(h)
    BY <2>1, MixedCarry
  <2>3. AfterBatch(p) = MasterEffect(q, Final(h))
    BY <1>6, <2>2 DEF AfterBatch
  <2>. HIDE DEF q
  <2>4. Apart(q)
    BY <2>2 DEF Apart
  <2>5. /\ q.final[q.b.o].data = Output(h)
        /\ q.final[q.b.o].full \/ Quiet(h, 1)
    BY <1>1, <2>2, Zenon
  <2>. QED
    BY <2>2, <2>3, <2>4, <2>5, MasterCarry
<1>. QED
  BY <1>4, <1>5, <1>6

-----------------------------------------------------------------------------
(* What has been played, and what is heard of it.                            *)

Played == [a \in Ages |-> IF a < Len(past) THEN past[a + 1].sounding ELSE {}]

\* The history of a tune that switches nothing.
Entry == [sounding : SUBSET Channels, on : {Options}]
PastOK ==
    /\ past \in Seq(Entry)
    /\ Len(past) <= MaxAge

LEMMA Entries ==
    ASSUME PastOK
    PROVE  \A a \in 0..(Len(past) - 1) :
              past[a + 1].sounding \in SUBSET Channels /\ past[a + 1].on = Options
<1>1. ASSUME NEW a \in 0..(Len(past) - 1) PROVE past[a + 1] \in Entry
  BY DEF PastOK
<1>2. \A e \in Entry : e.sounding \in SUBSET Channels /\ e.on = Options
  BY DEF Entry
<1>. QED
  BY <1>1, <1>2

LEMMA PlayedHistory ==
    ASSUME PastOK
    PROVE  Played \in Histories
<1>1. ASSUME NEW a \in Ages, a < Len(past) PROVE past[a + 1].sounding \in SUBSET Channels
  <2>1. a \in 0..(Len(past) - 1)
    BY <1>1 DEF PastOK, Ages
  <2>. QED
    BY <2>1, Entries
<1>. QED
  BY <1>1 DEF Played, Histories

LEMMA HistoryStep ==
    ASSUME Setting, PastOK, on = Options, NEW S \in SUBSET Channels, past' = History(S)
    PROVE  PastOK' /\ Played' = Shift(Played, S)
<1>. DEFINE new == [sounding |-> S, on |-> on]
            entry == <<new>> \o past
            n == IF Len(entry) > MaxAge THEN MaxAge ELSE Len(entry)
<1>1. new \in Entry /\ past \in Seq(Entry) /\ Len(past) \in Nat /\ Len(past) <= MaxAge
      /\ MaxAge \in Nat /\ MaxAge >= 8
  BY DEF PastOK, Setting, Entry
<1>. HIDE DEF new
<1>2. /\ entry \in Seq(Entry) /\ Len(entry) = Len(past) + 1
      /\ entry[1] = new
      /\ \A k \in 1..Len(past) : entry[k + 1] = past[k]
  BY <1>1
<1>3. past' = SubSeq(entry, 1, n)
  BY DEF History, new
<1>. HIDE DEF entry
<1>4. n \in 1..Len(entry) /\ n <= MaxAge
  BY <1>1, <1>2
<1>5. \A a \in Ages : a < n <=> a < Len(past) + 1
  BY <1>1, <1>2 DEF Ages
<1>. HIDE DEF n
<1>. DEFINE t == SubSeq(entry, 1, n)
<1>6. t \in Seq(Entry) /\ Len(t) = n /\ \A k \in 1..n : t[k] = entry[k]
  BY <1>2, <1>4
<1>. HIDE DEF t
<1>7. past' = t
  BY <1>3 DEF t
<1>8. t \in Seq(Entry) /\ Len(t) <= MaxAge
  BY <1>4, <1>6
<1>9. PastOK'
  BY <1>7, <1>8, Zenon DEF PastOK
<1>10. ASSUME NEW a \in Ages
       PROVE  (IF a < Len(t) THEN t[a + 1].sounding ELSE {}) = Shift(Played, S)[a]
  <2>1. CASE a = 0
    <3>1. Shift(Played, S)[0] = S
      BY PlayedHistory, ShiftHistory
    <3>2. 0 < Len(t) /\ t[0 + 1] = new
      BY <1>2, <1>4, <1>6
    <3>3. new.sounding = S
      BY DEF new
    <3>. QED
      BY <2>1, <3>1, <3>2, <3>3
  <2>2. CASE a # 0
    <3>1. a \in 1..7 /\ a - 1 \in Ages
      BY <2>2 DEF Ages
    <3>2. Shift(Played, S)[a] = Played[a - 1]
      BY <3>1, PlayedHistory, ShiftHistory
    <3>3. Played[a - 1] = IF a - 1 < Len(past) THEN past[(a - 1) + 1].sounding ELSE {}
      BY <3>1 DEF Played
    <3>4. (a - 1) + 1 = a
      BY <3>1
    <3>5. a < Len(t) <=> a - 1 < Len(past)
      BY <1>1, <1>5, <1>6, <3>1
    <3>6. a < Len(t) => t[a + 1] = past[a]
      BY <1>1, <1>2, <1>4, <1>6, <3>1
    <3>. QED
      BY <3>2, <3>3, <3>4, <3>5, <3>6
  <2>. QED
    BY <2>1, <2>2
<1>11. Shift(Played, S) = [a \in Ages |-> Shift(Played, S)[a]]
  BY DEF Shift
<1>12. [a \in Ages |-> IF a < Len(t) THEN t[a + 1].sounding ELSE {}] = Shift(Played, S)
  <2>. DEFINE u == Shift(Played, S)
  <2>1. u = [a \in Ages |-> u[a]]
    BY <1>11
  <2>2. \A a \in Ages : (IF a < Len(t) THEN t[a + 1].sounding ELSE {}) = u[a]
    BY <1>10
  <2>. HIDE DEF u
  <2>3. [a \in Ages |-> IF a < Len(t) THEN t[a + 1].sounding ELSE {}] = u
    BY <2>1, <2>2
  <2>. QED
    BY <2>3 DEF u
<1>13. Played' = Shift(Played, S)
  BY <1>7, <1>12, Zenon DEF Played
<1>. QED
  BY <1>9, <1>13

\* The ways of a sound when effects are on.
LEMMA WaysAre ==
    ASSUME Setting, ~Flat, NEW c
    PROVE  /\ \A w \in Ways(c, Options) :
                \/ w = <<"dry", "dry">> /\ "out" \in Sends(c, Options)
                \/ /\ w = <<w[1], w[2]>> /\ w[1] \in On /\ w[2] \in On
                   /\ w[1] = w[2] \/ w[2] \in Feeds(w[1], Options)
                   /\ w[1] \in Sends(c, Options)
           /\ "out" \in Sends(c, Options) => <<"dry", "dry">> \in Ways(c, Options)
           /\ \A e, l \in On :
                e \in Sends(c, Options) /\ (e = l \/ l \in Feeds(e, Options))
                  => <<e, l>> \in Ways(c, Options)
<1>1. \A w : w \in Ways(c, Options) <=>
         \/ \E e \in Sends(c, Options) \ {"out"} :
               \E l \in {e} \cup (Feeds(e, Options) \cap Options) : w = <<e, l>>
         \/ w = <<"dry", "dry">> /\ "out" \in Sends(c, Options)
  <2>. DEFINE X == UNION {{<<e, l>> : l \in ({e} \cup (Feeds(e, Options) \cap Options))} :
                             e \in Sends(c, Options) \ {"out"}}
  <2>1. Ways(c, Options) = X \cup (IF "out" \in Sends(c, Options) THEN {<<"dry", "dry">>} ELSE {})
    <3>1. ~ (Options \subseteq {"multi"})
      BY DEF Flat
    <3>. QED
      BY <3>1 DEF Ways
  <2>2. \A w : w \in X <=>
          \E e \in Sends(c, Options) \ {"out"} :
             \E l \in {e} \cup (Feeds(e, Options) \cap Options) : w = <<e, l>>
    OBVIOUS
  <2>. HIDE DEF X
  <2>. QED
    BY <2>1, <2>2
<1>2. Sends(c, Options) \subseteq On \cup {"out"} /\ "out" \notin On
  BY Destinations, Routing DEF On
<1>3. \A e \in On : Feeds(e, Options) \cap Options \subseteq On
  BY Destinations DEF On
<1>4. \A e, l \in On : l \in Feeds(e, Options) => l \in Feeds(e, Options) \cap Options
  BY DEF On
<1>5. ASSUME NEW w \in Ways(c, Options)
      PROVE  \/ w = <<"dry", "dry">> /\ "out" \in Sends(c, Options)
             \/ /\ w = <<w[1], w[2]>> /\ w[1] \in On /\ w[2] \in On
                /\ w[1] = w[2] \/ w[2] \in Feeds(w[1], Options)
                /\ w[1] \in Sends(c, Options)
  <2>1. CASE \E e \in Sends(c, Options) \ {"out"} :
                \E l \in {e} \cup (Feeds(e, Options) \cap Options) : w = <<e, l>>
    <3>0. PICK e \in Sends(c, Options) \ {"out"} :
             \E l \in {e} \cup (Feeds(e, Options) \cap Options) : w = <<e, l>>
      BY <2>1
    <3>1. PICK l \in {e} \cup (Feeds(e, Options) \cap Options) : w = <<e, l>>
      BY <3>0
    <3>2. w[1] = e /\ w[2] = l
      BY <3>1
    <3>. QED
      BY <1>2, <1>3, <3>1, <3>2
  <2>2. CASE w = <<"dry", "dry">> /\ "out" \in Sends(c, Options)
    BY <2>2
  <2>. QED
    BY <1>1, <2>1, <2>2
<1>6. ASSUME NEW e \in On, NEW l \in On, e \in Sends(c, Options),
             e = l \/ l \in Feeds(e, Options)
      PROVE  <<e, l>> \in Ways(c, Options)
  BY <1>1, <1>2, <1>4, <1>6
<1>. QED
  BY <1>1, <1>5, <1>6

\* The sounds that are due.
LEMMA HeardAre ==
    ASSUME PastOK
    PROVE  \A s : s \in Heard <=>
             \E a \in 0..(Len(past) - 1) : \E c \in past[a + 1].sounding :
                \E w \in Ways(c, Options) :
                   /\ Audible(w, Options) /\ Lag(w, Options) = a
                   /\ s = [from |-> c, age |-> a, first |-> w[1], last |-> w[2]]
<1>1. ASSUME NEW a \in 0..(Len(past) - 1) PROVE past[a + 1].on = Options
  BY Entries
<1>2. ASSUME NEW a \in 0..(Len(past) - 1)
      PROVE  \A s : s \in Due(a) <=>
               \E c \in past[a + 1].sounding : \E w \in Ways(c, Options) :
                   /\ Audible(w, Options) /\ Lag(w, Options) = a
                   /\ s = [from |-> c, age |-> a, first |-> w[1], last |-> w[2]]
  <2>. DEFINE o == past[a + 1].on
              P == past[a + 1].sounding
  <2>1. o = Options
    BY <1>1
  <2>2. Due(a) =
          UNION {{[from |-> c, age |-> a, first |-> w[1], last |-> w[2]] :
                    w \in {w \in Ways(c, o) : Audible(w, o) /\ Lag(w, o) = a}} : c \in P}
    BY DEF Due
  <2>. HIDE DEF o, P
  <2>3. \A s : s \in Due(a) <=>
          \E c \in P : \E w \in Ways(c, o) :
             /\ Audible(w, o) /\ Lag(w, o) = a
             /\ s = [from |-> c, age |-> a, first |-> w[1], last |-> w[2]]
    BY <2>2
  <2>. QED
    BY <2>1, <2>3 DEF P
<1>. QED
  BY <1>2 DEF Heard

\* What the pipeline gives is what is due: each block once by each way, in its time.
LEMMA OutputIsHeard ==
    ASSUME Setting, PastOK
    PROVE  Output(Played) = Heard
<1>1. /\ Len(past) \in Nat /\ Len(past) <= MaxAge /\ MaxAge \in Nat /\ MaxAge >= 8
      /\ Ages = 0..7
  BY DEF PastOK, Setting, Ages
<1>2. \A a \in Ages : Played[a] = IF a < Len(past) THEN past[a + 1].sounding ELSE {}
  BY DEF Played
<1>3. ASSUME NEW a \in Ages, NEW c
      PROVE  c \in Played[a] <=> a \in 0..(Len(past) - 1) /\ c \in past[a + 1].sounding
  <2>1. a \in 0..(Len(past) - 1) <=> a < Len(past)
    BY <1>1
  <2>. QED
    BY <1>2, <2>1
<1>4. Played \in Histories
  BY PlayedHistory
<1>5. ASSUME NEW a \in Ages PROVE Played[a] \subseteq Channels
  BY <1>4 DEF Histories
<1>6. CASE Flat
  <2>1. Options \subseteq {"multi"}
    BY <1>6 DEF Flat
  <2>2. \A c : Ways(c, Options) = {<<"dry", "dry">>}
    BY <2>1 DEF Ways
  <2>3. Audible(<<"dry", "dry">>, Options) /\ Lag(<<"dry", "dry">>, Options) = 2
    BY <2>1 DEF Audible, Lag
  <2>4. \A s : s \in Heard <=>
          \E c \in Played[2] : s = [from |-> c, age |-> 2, first |-> "dry", last |-> "dry"]
    <3>1. ASSUME NEW s, s \in Heard
          PROVE  \E c \in Played[2] : s = [from |-> c, age |-> 2, first |-> "dry", last |-> "dry"]
      <4>1. PICK a \in 0..(Len(past) - 1) : \E c \in past[a + 1].sounding :
              \E w \in Ways(c, Options) :
                 /\ Audible(w, Options) /\ Lag(w, Options) = a
                 /\ s = [from |-> c, age |-> a, first |-> w[1], last |-> w[2]]
        BY <3>1, HeardAre
      <4>2. PICK c \in past[a + 1].sounding : \E w \in Ways(c, Options) :
              /\ Audible(w, Options) /\ Lag(w, Options) = a
              /\ s = [from |-> c, age |-> a, first |-> w[1], last |-> w[2]]
        BY <4>1
      <4>3. a = 2 /\ s = [from |-> c, age |-> 2, first |-> "dry", last |-> "dry"]
        BY <2>2, <2>3, <4>2
      <4>4. c \in Played[2]
        BY <1>1, <1>3, <4>3
      <4>. QED
        BY <4>3, <4>4
    <3>2. ASSUME NEW c \in Played[2]
          PROVE  [from |-> c, age |-> 2, first |-> "dry", last |-> "dry"] \in Heard
      <4>. DEFINE w == <<"dry", "dry">>
      <4>1. 2 \in 0..(Len(past) - 1) /\ c \in past[2 + 1].sounding
        BY <1>1, <1>3
      <4>2. w \in Ways(c, Options) /\ w[1] = "dry" /\ w[2] = "dry"
        BY <2>2
      <4>3. [from |-> c, age |-> 2, first |-> "dry", last |-> "dry"]
              = [from |-> c, age |-> 2, first |-> w[1], last |-> w[2]]
        BY <4>2
      <4>4. Audible(w, Options) /\ Lag(w, Options) = 2
        BY <2>3
      <4>. HIDE DEF w
      <4>. QED
        BY <4>1, <4>2, <4>3, <4>4, HeardAre
    <3>. QED
      BY <3>1, <3>2
  <2>5. \A s : s \in Block(Played, 2) <=>
          \E c \in Played[2] : s = [from |-> c, age |-> 2, first |-> "dry", last |-> "dry"]
    <3>1. ASSUME NEW c \in Played[2]
          PROVE  [from |-> c, age |-> 2, first |-> "dry", last |-> "dry"] \in Block(Played, 2)
      BY <1>1, <1>5 DEF Block, Sound
    <3>2. ASSUME NEW s \in Block(Played, 2)
          PROVE  s.from \in Played[2]
                   /\ s = [from |-> s.from, age |-> 2, first |-> "dry", last |-> "dry"]
      BY DEF Block, Sound
    <3>. QED
      BY <3>1, <3>2
  <2>. QED
    BY <1>6, <2>4, <2>5 DEF Output
<1>7. CASE ~Flat
  <2>. DEFINE d == IF Multi THEN 2 ELSE 1
  <2>1. Output(Played) = Mix(Played, d) /\ d \in {1, 2}
    BY <1>7 DEF Output
  <2>2. Audible(<<"dry", "dry">>, Options) /\ Lag(<<"dry", "dry">>, Options) = 3 + d
    BY <1>7 DEF Audible, Lag, Flat, Multi
  <2>3. ASSUME NEW e \in On, NEW l \in On, e = l \/ l \in Feeds(e, Options)
        PROVE  /\ Lag(<<e, l>>, Options) = 3 + d + Tap[l] - Tap[e]
               /\ Audible(<<e, l>>, Options) <=> "eq" \notin Feeds(l, Options)
               /\ 3 + d + Tap[l] - Tap[e] \in 0..7
    <3>1. e \in Effects /\ l \in Effects /\ e # "dry"
      BY Routing DEF On
    <3>2. Tap[e] \in 0..3 /\ Tap[l] \in 0..3 /\ (Multi => Tap[e] \in 0..2 /\ Tap[l] \in 0..2)
          /\ Tap[e] <= Tap[l]
      BY <2>3, <3>1, Routing
    <3>3. Lag(<<e, l>>, Options) = (IF Multi THEN 5 ELSE 4) + (Tap[l] - Tap[e])
      BY <1>7, <3>1 DEF Lag, Flat, Multi
    <3>4. 3 + d + Tap[l] - Tap[e] \in 0..7
             /\ Lag(<<e, l>>, Options) = 3 + d + Tap[l] - Tap[e]
      BY <3>2, <3>3
    <3>5. <<e, l>> = <<"ins", "ins">> <=> l = "ins"
      BY <2>3, Destinations
    <3>6. Audible(<<e, l>>, Options) <=> "eq" \notin Feeds(l, Options)
      BY <3>5, Destinations DEF Audible
    <3>. QED
      BY <3>4, <3>6
  <2>. HIDE DEF d
  <2>4. 3 + d \in 0..7
    BY <2>1
  <2>5. ASSUME NEW s, s \in Heard PROVE s \in Mix(Played, d)
    <3>1. PICK a \in 0..(Len(past) - 1) : \E c \in past[a + 1].sounding :
            \E w \in Ways(c, Options) :
               /\ Audible(w, Options) /\ Lag(w, Options) = a
               /\ s = [from |-> c, age |-> a, first |-> w[1], last |-> w[2]]
      BY <2>5, HeardAre
    <3>2. PICK c \in past[a + 1].sounding : \E w \in Ways(c, Options) :
            /\ Audible(w, Options) /\ Lag(w, Options) = a
            /\ s = [from |-> c, age |-> a, first |-> w[1], last |-> w[2]]
      BY <3>1
    <3>3. PICK w \in Ways(c, Options) :
            /\ Audible(w, Options) /\ Lag(w, Options) = a
            /\ s = [from |-> c, age |-> a, first |-> w[1], last |-> w[2]]
      BY <3>2
    <3>4. CASE w = <<"dry", "dry">> /\ "out" \in Sends(c, Options)
      <4>1. a = 3 + d
        BY <2>2, <3>3, <3>4
      <4>2. s = [from |-> c, age |-> 3 + d, first |-> "dry", last |-> "dry"]
        BY <3>3, <3>4, <4>1
      <4>3. 3 + d \in Ages /\ c \in Played[3 + d] /\ c \in Channels /\ 3 + d \in 0..MaxAge
        BY <1>1, <1>3, <1>5, <2>4, <3>2, <4>1
      <4>4. s \in Sound
        BY <4>2, <4>3 DEF Sound
      <4>5. s \in Block(Played, 3 + d) /\ s.from = c
        BY <4>2, <4>3, <4>4 DEF Block
      <4>. QED
        BY <3>4, <4>5 DEF Mix, Out
    <3>5. CASE /\ w = <<w[1], w[2]>> /\ w[1] \in On /\ w[2] \in On
               /\ w[1] = w[2] \/ w[2] \in Feeds(w[1], Options)
               /\ w[1] \in Sends(c, Options)
      <4>. DEFINE e == w[1]
                  l == w[2]
      <4>1. w = <<e, l>> /\ e \in On /\ l \in On /\ (e = l \/ l \in Feeds(e, Options))
            /\ e \in Sends(c, Options)
            /\ s = [from |-> c, age |-> a, first |-> e, last |-> l]
        BY <3>3, <3>5
      <4>. HIDE DEF e, l
      <4>2. /\ a = 3 + d + Tap[l] - Tap[e] /\ a \in 0..7
            /\ "eq" \notin Feeds(l, Options)
        BY <2>3, <3>3, <4>1
      <4>3. a \in Ages /\ c \in Played[a] /\ c \in Channels /\ a \in 0..MaxAge
        BY <1>1, <1>3, <1>5, <3>2, <4>2
      <4>4. s \in Sound
        BY <4>1, <4>3 DEF Sound, On
      <4>5. s.from = c /\ s.age = a /\ s.first = e /\ s.last = l
        BY <4>1
      <4>6. Via(Played, s)
        BY <4>1, <4>3, <4>5 DEF Via
      <4>. QED
        BY <4>2, <4>4, <4>5, <4>6 DEF Mix, Wets
    <3>. QED
      BY <1>7, <3>4, <3>5, WaysAre
  <2>6. ASSUME NEW s, s \in Mix(Played, d) PROVE s \in Heard
    <3>0. s \in Sound
      BY <2>6 DEF Mix, Out, Wets, Block
    <3>1. s = [from |-> s.from, age |-> s.age, first |-> s.first, last |-> s.last]
      BY <3>0 DEF Sound
    <3>2. CASE s \in Out(Played, 3 + d)
      <4>1. /\ s.age = 3 + d /\ s.first = "dry" /\ s.last = "dry"
            /\ s.from \in Played[3 + d] /\ "out" \in Sends(s.from, Options)
        BY <3>2 DEF Out, Block
      <4>2. 3 + d \in 0..(Len(past) - 1) /\ s.from \in past[(3 + d) + 1].sounding
        BY <1>1, <1>3, <2>4, <4>1
      <4>. DEFINE w == <<"dry", "dry">>
      <4>3. w \in Ways(s.from, Options)
        BY <1>7, <4>1, WaysAre
      <4>4. w[1] = s.first /\ w[2] = s.last
        BY <4>1
      <4>5. Audible(w, Options) /\ Lag(w, Options) = 3 + d
        BY <2>2
      <4>. HIDE DEF w
      <4>6. s = [from |-> s.from, age |-> 3 + d, first |-> w[1], last |-> w[2]]
        BY <3>1, <4>1, <4>4
      <4>. QED
        BY <4>2, <4>3, <4>5, <4>6, HeardAre
    <3>3. CASE s \in Wets(Played, d)
      <4>1. /\ s.first \in On /\ s.last \in On
            /\ s.first = s.last \/ s.last \in Feeds(s.first, Options)
            /\ s.age \in Ages /\ s.from \in Played[s.age]
            /\ s.first \in Sends(s.from, Options)
            /\ "eq" \notin Feeds(s.last, Options)
            /\ s.age = 3 + d + Tap[s.last] - Tap[s.first]
        BY <3>3 DEF Wets, Via
      <4>2. s.age \in 0..(Len(past) - 1) /\ s.from \in past[s.age + 1].sounding
        BY <1>3, <4>1
      <4>. DEFINE w == <<s.first, s.last>>
      <4>3. w \in Ways(s.from, Options)
        BY <1>7, <4>1, WaysAre
      <4>4. Audible(w, Options) /\ Lag(w, Options) = s.age
        BY <2>3, <4>1
      <4>5. w[1] = s.first /\ w[2] = s.last
        OBVIOUS
      <4>. HIDE DEF w
      <4>6. s = [from |-> s.from, age |-> s.age, first |-> w[1], last |-> w[2]]
        BY <3>1, <4>5
      <4>. QED
        BY <4>2, <4>3, <4>4, <4>6, HeardAre
    <3>. QED
      BY <2>6, <3>2, <3>3 DEF Mix
  <2>. QED
    BY <2>1, <2>5, <2>6
<1>. QED
  BY <1>6, <1>7

-----------------------------------------------------------------------------
(* The inductive invariant.                                                  *)

\* A realtime player counts only blocks of silence, and skips only when nothing is on
\* its way.
Rests ==
    Realtime => /\ skip = Skipping => Quiet(Played, 0)
                /\ skip # Skipping =>
                     /\ skip.level \in Nat
                     /\ \A a \in Ages : a < skip.level => Played[a] = {}

Delayed ==
    /\ TypeOK /\ InTurn /\ on = Options /\ PastOK
    /\ Carries(Now, Played) /\ out = Output(Played)
    /\ Rests

\* The buffers after a reset.
Emptied(p) ==
    /\ \A s \in Slots : p.cv[s] = Off /\ p.channel[s] = {} /\ p.master[s] = {}
    /\ \A e \in Effects : /\ \A k \in Pair : p.sub[e][k] = {}
                          /\ \A s \in Slots : p.ring[e][s] = {}
    /\ \A k \in Pair : p.multi[k] = {} /\ p.final[k].data = {}

LEMMA QuietOutput ==
    ASSUME Setting, NEW h \in Histories, Quiet(h, 0)
    PROVE  /\ Output(h) = {} /\ Final(h) = {}
           /\ \A j \in Slots : Block(h, j) = {} /\ Out(h, j) = {} /\ Quiet(h, j)
           /\ \A e : To(h, e, 2) = {}
           /\ \A r : \A j \in Slots : Waits(h, r, j, j) = {}
           /\ Mix(h, 0) = {} /\ Mix(h, 1) = {}
<1>1. /\ 0 \in Ages /\ 0 <= 3 /\ 0 \in 0..4 /\ 1 \in 0..4 /\ 2 \in 0..4
      /\ 1 \in Ages /\ 2 \in Ages /\ \A a \in Ages : a >= 0
      /\ \A j \in Slots : j \in Ages /\ j \in Nat /\ j <= j
  BY DEF Ages, Slots
<1>2. Mix(h, 0) = {} /\ Mix(h, 1) = {} /\ Mix(h, 2) = {}
  BY <1>1, QuietForms
<1>3. \A j \in Ages : Block(h, j) = {} /\ Out(h, j) = {}
  BY <1>1, QuietForms
<1>4. \A e : To(h, e, 2) = {}
  BY <1>1, QuietForms
<1>5. \A r : \A j \in Slots : Waits(h, r, j, j) = {}
  BY <1>1, QuietForms
<1>6. \A j \in Slots : Quiet(h, j)
  BY <1>1 DEF Quiet
<1>. QED
  BY <1>1, <1>2, <1>3, <1>4, <1>5, <1>6 DEF Output, Final

LEMMA EmptyCarries ==
    ASSUME Setting, NEW p \in Buffers, NEW h \in Histories, Quiet(h, 0), Emptied(p)
    PROVE  Carries(p, h)
<1>1. /\ \A j \in Slots : p.o[j] \in Slots
      /\ p.b.i \in Pair /\ p.b.o \in Pair
      /\ 0 \in Slots /\ 1 \in Slots /\ 2 \in Slots /\ 3 \in Slots
  BY DEF Buffers, Slots
<1>2. FlagsOf(p, h)
  BY <1>1, QuietOutput, Zenon DEF FlagsOf, Emptied
<1>3. \A j \in Slots : p.channel[p.o[j]] = Block(h, j)
  BY <1>1, QuietOutput DEF Emptied
<1>4. /\ p.master[p.o[0]] = {} /\ p.master[p.o[1]] = {} /\ p.master[p.o[3]] = {}
      /\ p.master[p.o[2]] = IF Flat THEN {} ELSE Out(h, 2)
  BY <1>1, QuietOutput DEF Emptied
<1>5. \A e \in On : p.sub[e][p.b.i] = To(h, e, 2) /\ p.sub[e][p.b.o] = {}
  BY <1>1, QuietOutput DEF Emptied, On
<1>6. \A r \in On : \A j \in Slots :
        p.ring[r][p.o[j]] = IF j < Tap[r] THEN Waits(h, r, j, j) ELSE {}
  BY <1>1, QuietOutput DEF Emptied, On
<1>7. /\ p.multi[p.b.i] = {} /\ p.multi[p.b.o] = {} /\ Mix(h, 0) = {} /\ Mix(h, 1) = {}
      /\ p.final[p.b.i].data = Final(h) /\ p.final[p.b.o].data = Output(h)
  BY <1>1, QuietOutput DEF Emptied
<1>8. Stages(p, h)
  BY <1>2, <1>3, <1>4, <1>5, <1>6, <1>7 DEF Stages
<1>. QED
  BY <1>7, <1>8, Zenon DEF Carries

LEMMA NoPast ==
    ASSUME Setting, past = <<>>
    PROVE  PastOK /\ Played \in Histories /\ Quiet(Played, 0)
<1>1. Len(past) = 0 /\ past \in Seq(Entry)
  OBVIOUS
<1>2. PastOK
  BY <1>1 DEF PastOK, Setting
<1>3. \A a \in Ages : Played[a] = {}
  BY <1>1 DEF Played, Ages
<1>. QED
  BY <1>2, <1>3, PlayedHistory DEF Quiet

LEMMA NowBuffers ==
    ASSUME TypeOK
    PROVE  Now \in Buffers
  BY DEF TypeOK, Now, Buffers

LEMMA TypeInit ==
    ASSUME MaxAge \in Nat, Options \subseteq Effects \cup {"multi"}
    PROVE  Init => TypeOK
<1>1. [s \in Slots |-> 3 - s] \in [Slots -> Slots]
  BY DEF Slots
<1>2. [i |-> 1, o |-> 0] \in [{"i", "o"} -> Pair]
  BY DEF Pair
<1>3. Off \in Flags
  BY DEF Off, Flags
<1>. QED
  BY <1>1, <1>2, <1>3 DEF Init, TypeOK, Silence, NoData

LEMMA DelayedInit ==
    ASSUME Setting
    PROVE  Init => Delayed
<1>. SUFFICES ASSUME Init PROVE Delayed
  OBVIOUS
<1>1. TypeOK
  BY TypeInit DEF Setting
<1>2. InTurn
  <2>1. ofs[0] = 3 /\ ofs[1] = 2 /\ ofs[2] = 1 /\ ofs[3] = 0 /\ buf.i = 1 /\ buf.o = 0
    BY DEF Init, Slots
  <2>. QED
    BY <2>1 DEF InTurn
<1>3. PastOK /\ Played \in Histories /\ Quiet(Played, 0)
  BY NoPast DEF Init
<1>4. Emptied(Now)
  BY DEF Init, Emptied, Now, Silence, NoData
<1>5. Carries(Now, Played)
  BY <1>1, <1>3, <1>4, NowBuffers, EmptyCarries
<1>6. out = Output(Played)
  BY <1>3, QuietOutput DEF Init
<1>7. Rests
  BY <1>3 DEF Rests, Init
<1>. QED
  BY <1>1, <1>2, <1>3, <1>5, <1>6, <1>7 DEF Delayed, Init

\* The count of silent blocks never runs ahead of the silence.
LEMMA RestsStep ==
    ASSUME Setting, Rests, Played \in Histories, NEW S \in SUBSET Channels, NEW data,
           ~ (Realtime /\ SkipBefore(S) = Skipping),
           skip' = IF Realtime THEN SkipAfter(SkipBefore(S), data) ELSE skip,
           Played' = Shift(Played, S)
    PROVE  Rests'
<1>. SUFFICES ASSUME Realtime
              PROVE  /\ skip' = Skipping => Quiet(Shift(Played, S), 0)
                     /\ skip' # Skipping =>
                          /\ skip'.level \in Nat
                          /\ \A a \in Ages : a < skip'.level => Shift(Played, S)[a] = {}
  BY Zenon DEF Rests
<1>. DEFINE g == Shift(Played, S)
            b == SkipBefore(S)
<1>0. PICK t : t = skip'
  OBVIOUS
<1>1. t = SkipAfter(b, data) /\ b # Skipping
  BY <1>0
<1>2. \A l, w : Checking(l, w).level = l /\ Checking(l, w).low = w
  BY DEF Checking
<1>3. \A l \in Nat : \A w : Checking(l, w) # Skipping
  <2>1. Skipping.level = -1
    BY <1>2 DEF Skipping
  <2>. QED
    BY <1>2, <2>1
<1>4. g[0] = S /\ \A a \in 1..7 : g[a] = Played[a - 1]
  BY ShiftHistory
<1>. HIDE DEF g
<1>5. b.level \in Nat /\ \A a \in Ages : a < b.level => g[a] = {}
  <2>1. CASE S # {}
    <3>1. b = Checking(0, 1)
      BY <2>1 DEF SkipBefore
    <3>2. b.level = 0
      BY <1>2, <3>1
    <3>. HIDE DEF b
    <3>. QED
      BY <3>2 DEF Ages
  <2>2. CASE S = {}
    <3>1. skip # Skipping
      BY <1>1, <2>2 DEF SkipBefore
    <3>2. b = Checking(skip.level, skip.low + 2) \/ b = Checking(skip.level, 0)
      BY <2>2, <3>1 DEF SkipBefore
    <3>3. b.level = skip.level
      BY <1>2, <3>2
    <3>4. skip.level \in Nat /\ \A a \in Ages : a < skip.level => Played[a] = {}
      BY <3>1 DEF Rests
    <3>. HIDE DEF b
    <3>5. ASSUME NEW a \in Ages, a < skip.level PROVE g[a] = {}
      <4>1. CASE a = 0
        BY <1>4, <2>2, <4>1
      <4>2. CASE a # 0
        <5>1. a \in 1..7 /\ a - 1 \in Ages /\ a - 1 < skip.level
          BY <3>4, <3>5, <4>2 DEF Ages
        <5>. QED
          BY <1>4, <3>4, <5>1
      <4>. QED
        BY <4>1, <4>2
    <3>. QED
      BY <3>3, <3>4, <3>5
  <2>. QED
    BY <2>1, <2>2
<1>. HIDE DEF b
<1>6. CASE b.low # 0
  <2>1. t = b
    BY <1>1, <1>6 DEF SkipAfter
  <2>. QED
    BY <1>0, <1>1, <1>5, <2>1, Zenon DEF g
<1>7. CASE b.low = 0 /\ data # {}
  <2>1. t = Checking(0, 1)
    BY <1>1, <1>7 DEF SkipAfter
  <2>2. t.level = 0 /\ t # Skipping
    BY <1>2, <1>3, <2>1
  <2>3. t.level \in Nat /\ \A a \in Ages : ~ (a < t.level)
    BY <2>2 DEF Ages
  <2>. QED
    BY <1>0, <2>2, <2>3, Zenon
<1>8. ASSUME b.low = 0, data = {} PROVE S = {} /\ \A a \in Ages : a < b.level + 1 => g[a] = {}
  <2>1. S = {}
    BY <1>2, <1>8 DEF SkipBefore, b
  <2>2. skip # Skipping
    BY <1>1, <2>1 DEF SkipBefore, b
  <2>3. b = Checking(skip.level, skip.low + 2) \/ b = Checking(skip.level, 0)
    BY <2>1, <2>2 DEF SkipBefore, b
  <2>4. b.level = skip.level
    BY <1>2, <2>3
  <2>5. skip.level \in Nat /\ \A a \in Ages : a < skip.level => Played[a] = {}
    BY <2>2 DEF Rests
  <2>6. ASSUME NEW a \in Ages, a < b.level + 1 PROVE g[a] = {}
    <3>1. CASE a = 0
      BY <1>4, <2>1, <3>1
    <3>2. CASE a # 0
      <4>1. a \in 1..7 /\ a - 1 \in Ages /\ a - 1 < skip.level
        BY <2>4, <2>5, <2>6, <3>2 DEF Ages
      <4>. QED
        BY <1>4, <2>5, <4>1
    <3>. QED
      BY <3>1, <3>2
  <2>. QED
    BY <2>1, <2>6
<1>9. CASE b.low = 0 /\ data = {} /\ b.level + 1 <= CheckMax
  <2>1. t = Checking(b.level + 1, 0)
    BY <1>1, <1>9 DEF SkipAfter
  <2>2. b.level + 1 \in Nat
    BY <1>5
  <2>3. t.level = b.level + 1 /\ t # Skipping
    BY <1>2, <1>3, <2>1, <2>2
  <2>4. t.level \in Nat /\ \A a \in Ages : a < t.level => g[a] = {}
    BY <1>8, <1>9, <2>2, <2>3
  <2>. QED
    BY <1>0, <2>3, <2>4, Zenon DEF g
<1>10. CASE b.low = 0 /\ data = {} /\ ~ (b.level + 1 <= CheckMax)
  <2>1. t = Skipping
    BY <1>1, <1>10 DEF SkipAfter
  <2>2. \A a \in Ages : a < b.level + 1
    BY <1>5, <1>10 DEF Ages, Setting
  <2>3. Quiet(g, 0)
    BY <1>8, <1>10, <2>2 DEF Quiet
  <2>. QED
    BY <1>0, <2>1, <2>3, Zenon DEF g
<1>. QED
  BY <1>6, <1>7, <1>9, <1>10

\* A rendered block.
LEMMA ComputeStep ==
    ASSUME Setting, Delayed, NEW S \in SUBSET Channels, Compute(S)
    PROVE  /\ InTurn' /\ PastOK' /\ on' = Options
           /\ Carries(Now, Played)' /\ (out = Output(Played))'
           /\ Rests'
<1>. DEFINE g == Shift(Played, S)
            q == AfterJobs(Turned, S)
            r == AfterBatch(q)
<1>1. /\ TypeOK /\ InTurn /\ on = Options /\ PastOK /\ Carries(Now, Played)
      /\ Rests /\ MaxAge \in Nat /\ Played \in Histories
  BY PlayedHistory DEF Delayed, Setting
<1>2. PastOK' /\ Played' = g
  BY <1>1, HistoryStep DEF Compute
<1>3. Turned \in Buffers /\ Turned.o = Rotated /\ Turned.b = Swapped
  BY <1>1, TurnedType
<1>4. Apart(Turned)
  <2>1. Apart([o |-> Rotated, b |-> Swapped])
    BY <1>1, InTurnTurns
  <2>. QED
    BY <1>3, <2>1 DEF Apart
<1>5. g \in Histories /\ g[0] = S
  BY <1>1, ShiftHistory
<1>6. CarriesTurned(Turned, g)
  BY <1>1, TurnedCarries
<1>7. /\ q \in Buffers /\ q.o = Rotated /\ q.b = Swapped
  BY <1>1, <1>3, AfterJobsFields
<1>8. Apart(q)
  BY <1>3, <1>4, <1>7 DEF Apart
<1>. HIDE DEF g
<1>9. CarriesJobs(q, g)
  BY <1>3, <1>4, <1>5, <1>6, JobsCarry
<1>10. /\ Becomes(r.pipe) /\ out' = r.out /\ on' = on
       /\ ~ (Realtime /\ SkipBefore(S) = Skipping)
       /\ skip' = IF Realtime THEN SkipAfter(SkipBefore(S), r.out) ELSE skip
  BY DEF Compute
<1>. HIDE DEF q
<1>11. /\ Carries(r.pipe, g) /\ r.out = Output(g)
  BY <1>5, <1>7, <1>8, <1>9, BatchCarry
<1>12. r.pipe \in Buffers /\ r.pipe.o = Rotated /\ r.pipe.b = Swapped
  BY <1>7, AfterBatchType
<1>. HIDE DEF r
<1>13. InTurn'
  BY <1>1, <1>10, InTurnStep DEF Becomes
<1>14. Now' = r.pipe
  <2>1. PICK p : p = r.pipe
    OBVIOUS
  <2>2. p = [o |-> p.o, b |-> p.b, cv |-> p.cv, channel |-> p.channel, master |-> p.master,
             sub |-> p.sub, ring |-> p.ring, multi |-> p.multi, final |-> p.final]
    BY <1>12, <2>1 DEF Buffers
  <2>3. /\ ofs' = p.o /\ buf' = p.b /\ cv' = p.cv /\ channel' = p.channel
        /\ master' = p.master /\ sub' = p.sub /\ ring' = p.ring /\ multi' = p.multi
        /\ final' = p.final
    BY <1>10, <1>12, <2>1 DEF Becomes
  <2>4. Now' = [o |-> p.o, b |-> p.b, cv |-> p.cv, channel |-> p.channel, master |-> p.master,
                sub |-> p.sub, ring |-> p.ring, multi |-> p.multi, final |-> p.final]
    BY <2>3, Zenon DEF Now
  <2>. QED
    BY <2>1, <2>2, <2>4
<1>15. Carries(Now', Played')
  BY <1>2, <1>11, <1>14
<1>16. out' = Output(Played')
  BY <1>2, <1>10, <1>11
<1>17. Rests'
  BY <1>1, <1>2, <1>10, RestsStep DEF g
<1>. QED
  BY <1>1, <1>2, <1>10, <1>13, <1>15, <1>16, <1>17

\* The silent skip adds a block of silence to silence.
LEMMA SkipStep ==
    ASSUME Setting, Delayed, Skip
    PROVE  Delayed'
<1>1. /\ TypeOK /\ InTurn /\ on = Options /\ PastOK /\ Carries(Now, Played)
      /\ Rests /\ Played \in Histories
  BY PlayedHistory DEF Delayed
<1>2. skip = Skipping /\ Realtime
  <2>1. Realtime /\ SkipBefore({}) = Skipping
    BY DEF Skip
  <2>2. \A l \in Nat : \A w : Checking(l, w) # Skipping
    <3>1. \A l, w : Checking(l, w).level = l
      BY DEF Checking
    <3>2. Skipping.level = -1
      BY <3>1 DEF Skipping
    <3>. QED
      BY <3>1, <3>2
  <2>3. skip # Skipping => skip.level \in Nat
    BY <1>1, <2>1, Zenon DEF Rests
  <2>. QED
    BY <2>1, <2>2, <2>3 DEF SkipBefore
<1>3. Quiet(Played, 0)
  BY <1>1, <1>2, Zenon DEF Rests
<1>4. PastOK' /\ Played' = Shift(Played, {})
  BY <1>1, HistoryStep DEF Skip
<1>5. Shift(Played, {}) = Played
  <2>. DEFINE h == Played
  <2>1. \A a \in Ages : h[a] = {}
    BY <1>3 DEF Quiet, Ages
  <2>2. h = [a \in Ages |-> h[a]]
    BY <1>1 DEF Histories
  <2>. HIDE DEF h
  <2>3. Shift(h, {}) = [a \in Ages |-> h[a]]
    BY <2>1 DEF Shift, Ages
  <2>. QED
    BY <2>2, <2>3 DEF h
<1>6. UNCHANGED <<on, ofs, buf, cv, channel, master, sub, ring, multi, final, skip>> /\ out' = {}
  BY DEF Skip
<1>7. TypeOK'
  BY <1>1, <1>6 DEF TypeOK
<1>8. InTurn' /\ Now' = Now
  BY <1>1, <1>6 DEF InTurn, Now
<1>9. Carries(Now', Played') /\ out' = Output(Played')
  BY <1>1, <1>3, <1>4, <1>5, <1>6, <1>8, QuietOutput
<1>10. Rests'
  BY <1>1, <1>4, <1>5, <1>6, Zenon DEF Rests
<1>. QED
  BY <1>1, <1>4, <1>6, <1>7, <1>8, <1>9, <1>10 DEF Delayed

\* A reset empties the pipeline and the history.
LEMMA ResetStep ==
    ASSUME Setting, Delayed, Reset, TypeOK'
    PROVE  Delayed'
<1>1. past' = <<>> /\ out' = {} /\ skip' = Skipping /\ on' = on /\ ofs' = ofs /\ buf' = buf
  BY DEF Reset
<1>2. (PastOK /\ Played \in Histories /\ Quiet(Played, 0))'
  <2>1. ASSUME NEW t, t = <<>>
        PROVE  /\ t \in Seq(Entry) /\ Len(t) = 0
               /\ \A a \in Ages : (IF a < Len(t) THEN t[a + 1].sounding ELSE {}) = {}
    BY <2>1 DEF Ages
  <2>2. /\ past' \in Seq(Entry) /\ Len(past') <= MaxAge
    BY <1>1, <2>1 DEF Setting
  <2>3. Played' = [a \in Ages |-> {}]
    <3>1. PICK t : t = past'
      OBVIOUS
    <3>2. [a \in Ages |-> IF a < Len(t) THEN t[a + 1].sounding ELSE {}] = [a \in Ages |-> {}]
      BY <1>1, <2>1, <3>1
    <3>. QED
      BY <3>1, <3>2, Zenon DEF Played
  <2>4. [a \in Ages |-> {}] \in Histories /\ Quiet([a \in Ages |-> {}], 0)
    BY DEF Histories, Quiet
  <2>. QED
    BY <2>2, <2>3, <2>4 DEF PastOK
<1>3. PICK p, h : p = Now' /\ h = Played'
  OBVIOUS
<1>4. p \in Buffers
  <2>1. Now' \in Buffers
    BY DEF TypeOK, Now, Buffers
  <2>. QED
    BY <1>3, <2>1
<1>5. Emptied(p)
  <2>1. /\ p.cv = [s \in Slots |-> Off] /\ p.channel = Silence /\ p.master = Silence
        /\ p.sub = [e \in Effects |-> NoData] /\ p.ring = [e \in Effects |-> Silence]
        /\ p.multi = NoData /\ p.final = [b \in Pair |-> [data |-> {}, full |-> FALSE]]
    BY <1>3 DEF Now, Reset, Cleared
  <2>. QED
    BY <2>1 DEF Emptied, Silence, NoData
<1>6. h \in Histories /\ Quiet(h, 0)
  BY <1>2, <1>3
<1>7. Carries(p, h) /\ Output(h) = {}
  BY <1>4, <1>5, <1>6, EmptyCarries, QuietOutput
<1>8. InTurn' /\ on' = Options
  BY <1>1 DEF InTurn, Delayed
<1>9. Rests'
  BY <1>1, <1>2, Zenon DEF Rests
<1>10. Carries(Now', Played') /\ out' = Output(Played')
  BY <1>1, <1>3, <1>7
<1>. QED
  BY <1>2, <1>8, <1>9, <1>10 DEF Delayed

LEMMA DelayedStep ==
    ASSUME Setting
    PROVE  Delayed /\ [Next]_vars => Delayed'
<1>. SUFFICES ASSUME Delayed, [Next]_vars PROVE Delayed'
  OBVIOUS
<1>1. TypeOK'
  BY TypeStep DEF Delayed, Setting
<1>2. ASSUME NEW sounding \in Voicings, Compute(sounding) PROVE Delayed'
  <2>1. sounding \in SUBSET Channels
    BY DEF Setting
  <2>2. /\ InTurn' /\ PastOK' /\ on' = Options
        /\ Carries(Now, Played)' /\ (out = Output(Played))' /\ Rests'
    BY <1>2, <2>1, ComputeStep
  <2>. QED
    BY <1>1, <2>2 DEF Delayed
<1>3. CASE Skip
  BY <1>3, SkipStep
<1>4. CASE \E e \in Switchable : Switch(e)
  BY <1>4 DEF Setting
<1>5. CASE Reset
  BY <1>1, <1>5, ResetStep
<1>6. CASE UNCHANGED vars
  BY <1>6 DEF vars, Delayed, TypeOK, InTurn, PastOK, Now, Played, Rests
<1>. QED
  BY <1>2, <1>3, <1>4, <1>5, <1>6 DEF Next

LEMMA DelayedSilent == ASSUME Setting PROVE Delayed => SkipIsSilent
<1>. SUFFICES ASSUME Delayed, skip = Skipping, Realtime
              PROVE  /\ \A s \in Slots : channel[s] = {} /\ master[s] = {}
                     /\ \A k \in Pair : multi[k] = {} /\ final[k].data = {}
                     /\ \A e \in on \cap Effects :
                          (\A k \in Pair : sub[e][k] = {}) /\ (\A s \in Slots : ring[e][s] = {})
  BY DEF SkipIsSilent
<1>. DEFINE h == Played
<1>1. h \in Histories /\ Quiet(h, 0)
  BY PlayedHistory, Zenon DEF Delayed, Rests
<1>2. /\ \A j \in Slots : channel[ofs[j]] = Block(h, j)
      /\ master[ofs[0]] = {} /\ master[ofs[1]] = {}
      /\ master[ofs[2]] = IF Flat THEN {} ELSE Out(h, 2)
      /\ master[ofs[3]] = {}
      /\ ~Flat => /\ \A e \in On : sub[e][buf.i] = To(h, e, 2) /\ sub[e][buf.o] = {}
                  /\ \A r \in On : \A j \in Slots :
                       ring[r][ofs[j]] = IF j < Tap[r] THEN Waits(h, r, j, j) ELSE {}
      /\ ~Flat /\ Multi => multi[buf.i] = Mix(h, 0) /\ multi[buf.o] = Mix(h, 1)
      /\ Flat \/ ~Multi => multi[buf.i] = {} /\ multi[buf.o] = {}
      /\ final[buf.i].data = Final(h) /\ final[buf.o].data = Output(h)
  BY <1>1 DEF Delayed, Carries, Stages, Now
<1>. HIDE DEF h
<1>3. /\ \A j \in Slots : channel[ofs[j]] = {} /\ master[ofs[j]] = {}
      /\ \A e \in On : sub[e][buf.i] = {} /\ sub[e][buf.o] = {}
      /\ \A r \in On : \A j \in Slots : ring[r][ofs[j]] = {}
      /\ multi[buf.i] = {} /\ multi[buf.o] = {}
      /\ final[buf.i].data = {} /\ final[buf.o].data = {}
  <2>1. \A j \in Slots : j = 0 \/ j = 1 \/ j = 2 \/ j = 3
    BY DEF Slots
  <2>2. Flat => On = {}
    BY Routing DEF On, Flat
  <2>3. Out(h, 2) = {}
    BY <1>1, QuietOutput DEF Slots
  <2>4. \A j \in Slots : channel[ofs[j]] = {} /\ master[ofs[j]] = {}
    BY <1>1, <1>2, <2>1, <2>3, QuietOutput
  <2>5. /\ \A e \in On : sub[e][buf.i] = {} /\ sub[e][buf.o] = {}
        /\ \A r \in On : \A j \in Slots : ring[r][ofs[j]] = {}
    BY <1>1, <1>2, <2>2, QuietOutput
  <2>6. /\ multi[buf.i] = {} /\ multi[buf.o] = {}
        /\ final[buf.i].data = {} /\ final[buf.o].data = {}
    BY <1>1, <1>2, QuietOutput
  <2>. QED
    BY <2>4, <2>5, <2>6
\* The indices are all the slots.
<1>4. \A s \in Slots : \E j \in Slots : s = ofs[j]
  <2>1. /\ ofs[0] \in {0, 1, 2, 3} /\ ofs[1] \in {0, 1, 2, 3}
        /\ ofs[2] \in {0, 1, 2, 3} /\ ofs[3] \in {0, 1, 2, 3}
    BY DEF Delayed, TypeOK, Slots
  <2>2. (0 + 1) % 4 = 1 /\ (1 + 1) % 4 = 2 /\ (2 + 1) % 4 = 3 /\ (3 + 1) % 4 = 0
    OBVIOUS
  <2>3. /\ ofs[0] = (ofs[1] + 1) % 4 /\ ofs[1] = (ofs[2] + 1) % 4
        /\ ofs[2] = (ofs[3] + 1) % 4 /\ ofs[3] = (ofs[0] + 1) % 4
    BY DEF Delayed, InTurn
  <2>4. \A s \in {0, 1, 2, 3} : s = ofs[0] \/ s = ofs[1] \/ s = ofs[2] \/ s = ofs[3]
    BY <2>1, <2>2, <2>3
  <2>5. Slots = {0, 1, 2, 3}
    BY DEF Slots
  <2>. QED
    BY <2>4, <2>5
<1>5. \A k \in Pair : k = buf.i \/ k = buf.o
  <2>1. buf.i \in {0, 1} /\ buf.o \in {0, 1} /\ buf.i # buf.o
    BY DEF Delayed, TypeOK, InTurn, Pair
  <2>2. Pair = {0, 1}
    BY DEF Pair
  <2>. QED
    BY <2>1, <2>2
<1>6. on \cap Effects = On
  BY DEF Delayed, On
<1>7. \A s \in Slots : channel[s] = {} /\ master[s] = {}
  BY <1>3, <1>4
<1>8. \A k \in Pair : multi[k] = {} /\ final[k].data = {}
  BY <1>3, <1>5
<1>9. ASSUME NEW e \in On
      PROVE  (\A k \in Pair : sub[e][k] = {}) /\ (\A s \in Slots : ring[e][s] = {})
  BY <1>3, <1>4, <1>5
<1>. QED
  BY <1>6, <1>7, <1>8, <1>9

\* For every system mode, every set of effects and any number of blocks and resets, a
\* block is heard once by each of its ways, a fixed number of blocks after it was
\* rendered (do_compute_data_midi_thread, mix_..._thread).
THEOREM BlocksInTime == ASSUME Setting PROVE Spec => []InTime
<1>1. Init => Delayed
  BY DelayedInit
<1>2. Delayed /\ [Next]_vars => Delayed'
  BY DelayedStep
<1>3. Delayed => InTime
  BY OutputIsHeard DEF Delayed, InTime
<1>. QED
  BY <1>1, <1>2, <1>3, PTL DEF Spec

\* While a realtime player skips silence, no buffer of the pipeline holds a sound
\* (compute_data_midi_skip).
THEOREM SkipsInSilence == ASSUME Setting PROVE Spec => []SkipIsSilent
<1>1. Init => Delayed
  BY DelayedInit
<1>2. Delayed /\ [Next]_vars => Delayed'
  BY DelayedStep
<1>3. Delayed => SkipIsSilent
  BY DelayedSilent
<1>. QED
  BY <1>1, <1>2, <1>3, PTL DEF Spec

\* Whatever the tune switches, the buffers hold sounds, flags and indices of their types.
THEOREM BuffersTyped ==
    ASSUME MaxAge \in Nat, \A sounding \in Voicings : sounding \in SUBSET Channels,
           Options \subseteq Effects \cup {"multi"}, Switchable \subseteq Effects \cup {"multi"}
    PROVE  Spec => []TypeOK
<1>1. Init => TypeOK
  BY TypeInit
<1>2. TypeOK /\ [Next]_vars => TypeOK'
  BY TypeStep
<1>. QED
  BY <1>1, <1>2, PTL DEF Spec
=============================================================================
