--------------------------- MODULE RenderPipeline ---------------------------
(* The rendering pipeline of thread_playmidi.c and thread_effect.c.  With   *)
(* the compute threads a call of do_compute_data_midi_thread renders one     *)
(* block, computes the effect sends of the block before last and the effects *)
(* of the block before that, all in one batch of parallel jobs.  A block is  *)
(* carried from stage to stage by rotating the indices cdmt_ofs_0..3 over    *)
(* rings of four buffers and cdmt_buf_i/o over pairs of buffers.             *)
(*                                                                          *)
(* A buffer holds a set of sounds.  A sound says from which channel it came, *)
(* how many blocks ago it was rendered, and the first and the last effect it *)
(* went through; the samples are left out, and with them the tails of the    *)
(* effects.                                                                  *)
EXTENDS Integers, Sequences, FiniteSets

CONSTANTS
    System,     \* play_system_mode: "gs", "xg" or "sd" (GM2 is routed as SD is)
    Channels,   \* subset of {"plain", "sys", "ins"}: the channels, by channel_send
    Voicings,   \* the sets of channels that may sound together
    Options,    \* the effects that are on when the tune starts
    Switchable, \* the effects that messages in the tune switch
    Realtime,   \* opt_realtime_playing
    CheckMax,   \* CDSS_CHECK_MAX
    CheckBlocks,\* blocks in cdss_check_sec, at least
    MaxAge      \* an older sound is only "old"

-----------------------------------------------------------------------------
(* The effects of a system mode.  At block k an effect reads, from its ring,  *)
(* the slot cdmt_ofs_<Tap>, and writes the same slot of the rings it feeds.   *)

GsTap == [ins |-> 0, eq |-> 1, chorus |-> 1, delay |-> 2, reverb |-> 3]
XgTap == [delay |-> 0, chorus |-> 1, reverb |-> 2]
SdTap == [mfx |-> 0, chorus |-> 1, reverb |-> 2]

Tap == IF System = "gs" THEN GsTap ELSE IF System = "xg" THEN XgTap ELSE SdTap

Effects == DOMAIN Tap

\* mix_insertion_effect_gs_thread, mix_ch_chorus_thread, mix_ch_delay_thread
GsFeeds == [ins |-> {"chorus", "delay", "reverb"}, eq |-> {},
            chorus |-> {"delay", "reverb"}, delay |-> {"reverb"}, reverb |-> {}]
\* mix_variation_effect1_xg_thread, mix_ch_chorus_xg_thread
XgFeeds == [delay |-> {"chorus", "reverb"}, chorus |-> {"reverb"}, reverb |-> {}]
\* mix_mfx_effect_sd_thread, mix_ch_chorus_sd_thread
SdFeeds == [mfx |-> {"chorus", "reverb"}, chorus |-> {"reverb"}, reverb |-> {}]

\* The rings that effect e feeds when the effects of set on are on; the
\* insertion effect goes through the equaliser instead of to the output.
Feeds(e, on) ==
    (IF System = "gs" THEN GsFeeds ELSE IF System = "xg" THEN XgFeeds ELSE SdFeeds)[e]
        \cup (IF e = "ins" /\ "eq" \in on THEN {"eq"} ELSE {})

\* The effects that the sound of a channel is sent to, and the output.
Sends(c, on) ==
    CASE c = "plain" -> {"out"}
      [] c = "ins" /\ "ins" \in on -> {"ins"}
      [] c = "ins" /\ "mfx" \in on -> {"mfx"}
      [] OTHER -> (on \cap Effects \cap {"chorus", "delay", "reverb"})
                    \cup (IF System = "gs" /\ "eq" \in on THEN {"eq"} ELSE {"out"})

-----------------------------------------------------------------------------
VARIABLES
    on,       \* the effects that are switched on now
    ofs,      \* cdmt_ofs_0 .. cdmt_ofs_3
    buf,      \* cdmt_buf_i and cdmt_buf_o
    cv,       \* cdmt_cv: the flags of a block, captured when it is rendered
    channel,  \* ch_buffer_thread
    master,   \* master_buffer
    sub,      \* <effect>_effect_buffer_sub
    ring,     \* <effect>_buffer_thread
    multi,    \* eq_effect_buffer_sub as the multi equaliser of XG and SD uses it
    final,    \* master_effect_buffer_thread with me_cv
    skip,     \* compute_skip_count: the check that is next and its low bits
    out,      \* the output buffer that the last call filled
    past      \* history: what sounded, and what was on, in the blocks before

vars == <<on, ofs, buf, cv, channel, master, sub, ring, multi, final, skip, out, past>>

Sound == [from : Channels, age : 0..MaxAge, first : Effects \cup {"dry"},
          last : Effects \cup {"dry"}]

Flags == [effect : BOOLEAN, on : SUBSET (Effects \cup {"multi"})]

Slots == 0..3
Pair == 0..1

TypeOK ==
    /\ on \subseteq Effects \cup {"multi"}
    /\ ofs \in [Slots -> Slots] /\ buf \in [{"i", "o"} -> Pair]
    /\ cv \in [Slots -> Flags]
    /\ channel \in [Slots -> SUBSET Sound] /\ master \in [Slots -> SUBSET Sound]
    /\ sub \in [Effects -> [Pair -> SUBSET Sound]]
    /\ ring \in [Effects -> [Slots -> SUBSET Sound]]
    /\ multi \in [Pair -> SUBSET Sound]
    /\ final \in [Pair -> [data : SUBSET Sound, full : BOOLEAN]]
    /\ out \subseteq Sound

\* A value of compute_skip_count; a negative one is the silent skip.
Checking(level, low) == [level |-> level, low |-> low]
Skipping == Checking(-1, 0)

Off == [effect |-> FALSE, on |-> {}]
Silence == [s \in Slots |-> {}]
NoData == [b \in Pair |-> {}]

\* reset_midi_thread with clear_cdm_thread_buffer, reset_compute_var and
\* init_effect_buffer_thread.
Cleared ==
    /\ cv' = [s \in Slots |-> Off]
    /\ channel' = Silence /\ master' = Silence
    /\ sub' = [e \in Effects |-> NoData]
    /\ ring' = [e \in Effects |-> Silence]
    /\ multi' = NoData
    /\ final' = [b \in Pair |-> [data |-> {}, full |-> FALSE]]

Init ==
    /\ on = Options
    /\ ofs = [s \in Slots |-> 3 - s] /\ buf = [i |-> 1, o |-> 0]
    /\ cv = [s \in Slots |-> Off]
    /\ channel = Silence /\ master = Silence
    /\ sub = [e \in Effects |-> NoData] /\ ring = [e \in Effects |-> Silence]
    /\ multi = NoData
    /\ final = [b \in Pair |-> [data |-> {}, full |-> FALSE]]
    /\ skip = Skipping /\ out = {} /\ past = <<>>

-----------------------------------------------------------------------------
(* Sounds grow older, and are marked by the effects.                        *)

Older(S) == {[s EXCEPT !.age = IF @ < MaxAge THEN @ + 1 ELSE @] : s \in S}

Wet(e, S) ==
    {[s EXCEPT !.first = IF @ = "dry" THEN e ELSE @, !.last = e] : s \in S}

\* New sounds of the channels that have a voice.
Fresh(sounding) ==
    {[from |-> c, age |-> 0, first |-> "dry", last |-> "dry"] : c \in sounding}

\* The flags of the block that is rendered now.
NewFlags == [effect |-> on \ {"multi"} # {}, on |-> on]

History(sounding) ==
    LET entry == <<[sounding |-> sounding, on |-> on]>> \o past
    IN  SubSeq(entry, 1, IF Len(entry) > MaxAge THEN MaxAge ELSE Len(entry))

-----------------------------------------------------------------------------
(* compute_data_midi_skip: the low bits of compute_skip_count count samples   *)
(* in half blocks here, and 1 is the 1 that a sounding voice leaves.          *)

\* The call before the block is rendered.
SkipBefore(sounding) ==
    IF sounding # {} THEN Checking(0, 1)
    ELSE IF skip = Skipping THEN skip
    ELSE IF skip.low + 2 < 2 * CheckBlocks THEN Checking(skip.level, skip.low + 2)
    ELSE Checking(skip.level, 0)

\* The call after it, with what the output buffer holds.
SkipAfter(s, data) ==
    IF s.low # 0 THEN s
    ELSE IF data # {} THEN Checking(0, 1)
    ELSE IF s.level + 1 <= CheckMax THEN Checking(s.level + 1, 0)
    ELSE Skipping

-----------------------------------------------------------------------------
(* One call of do_compute_data_midi_thread, in stages.  p holds the buffers   *)
(* with the indices o (cdmt_ofs) and b (cdmt_buf) that the call has rotated.  *)

Rotated == [s \in Slots |-> (ofs[s] + 1) % 4]
\* Mutant: only cdmt_buf_i is rotated.
SwappedOne == [buf EXCEPT !.i = (@ + 1) % 2]

Swapped == [k \in {"i", "o"} |-> (buf[k] + 1) % 2]

\* The buffers as the jobs find them: everything is one block older, and the
\* flags of the new block are in the slot that the rotation gave it.
Turned ==
    [o |-> Rotated, b |-> Swapped,
     cv |-> [cv EXCEPT ![Rotated[0]] = NewFlags],
     channel |-> [s \in Slots |-> Older(channel[s])],
     master |-> [s \in Slots |-> IF s = Rotated[0] THEN {} ELSE Older(master[s])],
     sub |-> [e \in Effects |-> [k \in Pair |-> Older(sub[e][k])]],
     ring |-> [e \in Effects |-> [s \in Slots |-> Older(ring[e][s])]],
     multi |-> [k \in Pair |-> Older(multi[k])],
     final |-> [k \in Pair |-> [final[k] EXCEPT !.data = Older(@)]]]

Runs(p, stage, e) == p.cv[p.o[stage]].effect /\ e \in p.cv[p.o[stage]].on

\* The do_... jobs of cdmt_ofs_3: an effect adds its ring to its input and
\* processes it in place.
Done(p) ==
    [e \in Effects |->
        IF Runs(p, 3, e)
        THEN [p.sub[e] EXCEPT ![p.b.o] = Wet(e, @ \cup p.ring[e][p.o[Tap[e]]])]
        ELSE p.sub[e]]

Drained(p) ==
    [e \in Effects |->
        IF Runs(p, 3, e) THEN [p.ring[e] EXCEPT ![p.o[Tap[e]]] = {}] ELSE p.ring[e]]

\* The jobs that send block cdmt_ofs_2: the sounds of it that go to one place.
Sent(p, to) ==
    LET f == p.cv[p.o[2]]
    IN  IF f.effect THEN {s \in p.channel[p.o[2]] : to \in Sends(s.from, f.on)} ELSE {}

\* Mutant: the voices of the new block are added to the block that was in the
\* slot before.
AfterJobsKept(p, sounding) ==
    LET done == Done(p)
    IN  [p EXCEPT
           !.sub = [e \in Effects |-> [done[e] EXCEPT ![p.b.i] = @ \cup Sent(p, e)]],
           !.ring = Drained(p),
           !.master[p.o[2]] = @ \cup Sent(p, "out"),
           !.channel[p.o[0]] = @ \cup Fresh(sounding)]

\* The batch go_compute_thread(do_compute_data_midi_thread_block1): the effects
\* of cdmt_ofs_3, the sends of cdmt_ofs_2 and the voices of cdmt_ofs_0.
AfterJobs(p, sounding) ==
    LET done == Done(p)
    IN  [p EXCEPT
           !.sub = [e \in Effects |-> [done[e] EXCEPT ![p.b.i] = @ \cup Sent(p, e)]],
           !.ring = Drained(p),
           !.master[p.o[2]] = @ \cup Sent(p, "out"),
           !.channel[p.o[0]] = Fresh(sounding)]

\* The mix_... calls of cdmt_ofs_3: what effect e gives is added to the output
\* and to the rings it feeds, and its input is cleared.
Given(p, e) == IF Runs(p, 3, e) THEN p.sub[e][p.b.o] ELSE {}

Returned(p) ==
    LET flags == p.cv[p.o[3]].on
    IN  [p EXCEPT
           !.master[p.o[3]] =
               @ \cup UNION {Given(p, e) : e \in {e \in Effects : "eq" \notin Feeds(e, flags)}},
           !.ring = [r \in Effects |-> [s \in Slots |->
               p.ring[r][s] \cup UNION {Given(p, e) :
                   e \in {e \in Effects : r \in Feeds(e, flags) /\ p.o[Tap[e]] = s}}]],
           !.sub = [e \in Effects |->
               IF Runs(p, 3, e) THEN [p.sub[e] EXCEPT ![p.b.o] = {}] ELSE p.sub[e]]]

\* Mutant: the multi equaliser returns the buffer that it fills next.
MultiEqSame(p) ==
    IF System # "gs" /\ Runs(p, 3, "multi")
    THEN [p EXCEPT !.multi[p.b.i] = p.master[p.o[3]],
                   !.master[p.o[3]] = p.multi[p.b.i]]
    ELSE p

\* mix_multi_eq_xg_thread and mix_multi_eq_sd_thread: the block goes in, and
\* the block before comes out.
MultiEq(p) ==
    IF System # "gs" /\ Runs(p, 3, "multi")
    THEN [p EXCEPT !.multi[p.b.i] = p.master[p.o[3]],
                   !.master[p.o[3]] = p.multi[p.b.o]]
    ELSE p

\* do_effect_thread: likewise, but me_cv is empty after a reset, and then the
\* output buffer keeps what went in.
MasterEffect(p, data) ==
    [pipe |-> [p EXCEPT !.final[p.b.i] = [data |-> data, full |-> TRUE]],
     out |-> IF p.final[p.b.o].full THEN p.final[p.b.o].data ELSE data]

\* What follows the batch of jobs.
AfterBatch(p) ==
    IF ~ p.cv[p.o[1]].effect THEN MasterEffect(p, p.channel[p.o[1]])
    ELSE IF ~ p.cv[p.o[3]].effect THEN MasterEffect(p, {})
    ELSE LET q == MultiEq(Returned(p)) IN MasterEffect(q, q.master[q.o[3]])

Becomes(p) ==
    /\ ofs' = Rotated /\ buf' = Swapped /\ cv' = p.cv
    /\ channel' = p.channel /\ master' = p.master /\ sub' = p.sub
    /\ ring' = p.ring /\ multi' = p.multi /\ final' = p.final

-----------------------------------------------------------------------------
(* The calls.                                                               *)

\* do_compute_data_midi_thread while the channels of sounding have voices.
Compute(sounding) ==
    LET before == SkipBefore(sounding)
        result == AfterBatch(AfterJobs(Turned, sounding))
    IN  /\ ~ (Realtime /\ before = Skipping)
        /\ Becomes(result.pipe)
        /\ out' = result.out
        /\ skip' = IF Realtime THEN SkipAfter(before, result.out) ELSE skip
        /\ past' = History(sounding)
        /\ UNCHANGED on

\* The silent skip: the pipeline stands still.
Skip ==
    /\ Realtime /\ SkipBefore({}) = Skipping
    /\ out' = {}
    /\ past' = History({})
    /\ UNCHANGED <<on, ofs, buf, cv, channel, master, sub, ring, multi, final, skip>>

\* A message of the tune switches an effect between two blocks.
Switch(e) ==
    /\ on' = IF e \in on THEN on \ {e} ELSE on \cup {e}
    /\ UNCHANGED <<ofs, buf, cv, channel, master, sub, ring, multi, final, skip, out, past>>

\* reset_midi at the start of a tune and at a system reset in it.
Reset ==
    /\ Cleared
    /\ skip' = Skipping /\ past' = <<>> /\ out' = {}
    /\ UNCHANGED <<on, ofs, buf>>

Next ==
    \/ \E sounding \in Voicings : Compute(sounding)
    \/ Skip
    \/ \E e \in Switchable : Switch(e)
    \/ Reset

Spec == Init /\ [][Next]_vars

-----------------------------------------------------------------------------
(* The properties compare what is heard with a delay line: a sound comes out  *)
(* a fixed number of blocks after it was rendered, by each way it can take.   *)

\* The ways of a channel's sound: the first and the last effect.
Ways(c, flags) ==
    IF flags \subseteq {"multi"} THEN {<<"dry", "dry">>}
    ELSE (UNION {{<<e, l>> : l \in ({e} \cup (Feeds(e, flags) \cap flags))} :
                    e \in Sends(c, flags) \ {"out"}})
         \cup (IF "out" \in Sends(c, flags) THEN {<<"dry", "dry">>} ELSE {})

Audible(w, flags) == ~ (w = <<"ins", "ins">> /\ "eq" \in flags)

\* The blocks between rendering and output by way w.
Lag(w, flags) ==
    (IF flags \subseteq {"multi"} THEN 2 ELSE IF "multi" \in flags THEN 5 ELSE 4)
        + (IF w[1] = "dry" THEN 0 ELSE Tap[w[2]] - Tap[w[1]])

\* The sounds of the block that was rendered a blocks ago that are due now.
Due(a) ==
    LET block == past[a + 1]
    IN  UNION {{[from |-> c, age |-> a, first |-> w[1], last |-> w[2]] :
                  w \in {w \in Ways(c, block.on) :
                           Audible(w, block.on) /\ Lag(w, block.on) = a}} :
                c \in block.sounding}

Heard == UNION {Due(a) : a \in 0..(Len(past) - 1)}

Steady == Len(past) = MaxAge /\ \A k \in 1..MaxAge : past[k].on = on

\* Every block is heard exactly once by each way, in order, and by every way
\* to the same effect at the same time, in every system mode and across the
\* resets and skips (do_compute_data_midi_thread, mix_..._thread).
InTime == out = Heard

\* Whatever was switched before, when nothing was switched for as long as a
\* sound can be on its way every block is heard in its time again; with the
\* multi equaliser nothing else is heard (mix_multi_eq_xg_thread).
Settles ==
    Steady => /\ Heard \subseteq out
              /\ System # "gs" => out \subseteq Heard

\* A sound that comes late was caught in the equaliser when it was switched
\* off (do_ch_eq_gs_thread); no other buffer keeps an old block.
OnlyEqLate == \A s \in out : s.last = "eq" \/ s \in Heard

\* While the silent skip holds the pipeline there is nothing in it that could
\* still be heard (compute_data_midi_skip).
SkipIsSilent ==
    skip = Skipping /\ Realtime =>
        /\ \A s \in Slots : channel[s] = {} /\ master[s] = {}
        /\ \A k \in Pair : multi[k] = {} /\ final[k].data = {}
        /\ \A e \in on \cap Effects :
             (\A k \in Pair : sub[e][k] = {}) /\ (\A s \in Slots : ring[e][s] = {})

\* The buffers that the jobs of a batch touch; do and send are the two jobs of
\* one effect, and two effects have no buffer in common.
Touches(o, b) ==
    [master |-> {<<"final", b.o>>},
     do |-> {<<"sub", b.o>>},
     send |-> {<<"sub", b.i>>, <<"channel", o[2]>>},
     output |-> {<<"master", o[2]>>, <<"channel", o[2]>>},
     mix |-> {<<"channel", o[1]>>},
     voice |-> {<<"channel", o[0]>>}]

\* The jobs that only read the block they share.
Readers == {"send", "output"}

\* Two jobs of a batch, which run at the same time, never touch one buffer
\* unless both only read it (do_compute_data_midi_thread_block1).
NoRace ==
    \A j \in DOMAIN Touches(ofs, buf) : \A k \in DOMAIN Touches(ofs, buf) \ {j} :
        {j, k} = Readers
            \/ Touches(ofs, buf)[j] \cap Touches(ofs, buf)[k] = {}

=============================================================================
