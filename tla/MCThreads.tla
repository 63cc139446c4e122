------------------------------ MODULE MCThreads ------------------------------
(* The compute threads, and what they compute.  player is chosen once:        *)
(* "pool" is ComputeThread, with any number of workers, and every other is    *)
(* the rendering pipeline under one setting.                                  *)
EXTENDS MCComputeThread

VARIABLES player, on, ofs, buf, cv, channel, master, sub, ring, multi, final,
          skip, out, past

pipe == <<on, ofs, buf, cv, channel, master, sub, ring, multi, final, skip, out,
          past>>
allVars == <<player, vars, pipe>>

\* What most of the settings have in common.
Realtime == FALSE
CheckMax == 8
CheckBlocks == 1
MaxAge == 8
Switchable == {}
Together(channels) == {{}, channels}

\* GS with every effect, an insertion channel and one with sends.
Gs == INSTANCE RenderPipeline WITH
    System <- "gs", Channels <- {"sys", "ins"}, Voicings <- Together({"sys", "ins"}),
    Options <- {"ins", "eq", "chorus", "delay", "reverb"}

\* XG with variation, chorus, reverb and the multi equaliser.
Xg == INSTANCE RenderPipeline WITH
    System <- "xg", Channels <- {"plain", "sys"}, Voicings <- Together({"plain", "sys"}),
    Options <- {"delay", "chorus", "reverb", "multi"}

\* SD and GM2 with a multi effect, chorus and reverb.
Sd == INSTANCE RenderPipeline WITH
    System <- "sd", Channels <- {"sys", "ins"}, Voicings <- Together({"sys", "ins"}),
    Options <- {"mfx", "chorus", "reverb"}

\* Every effect off.
Dry == INSTANCE RenderPipeline WITH
    System <- "gs", Channels <- {"plain"}, Voicings <- Together({"plain"}), Options <- {}

\* A realtime player, which skips silence.
Live == INSTANCE RenderPipeline WITH
    System <- "gs", Channels <- {"sys", "ins"}, Voicings <- Together({"sys", "ins"}),
    Options <- {"ins", "chorus", "reverb"}, Realtime <- TRUE

\* GS where the tune switches the equaliser.
GsEq == INSTANCE RenderPipeline WITH
    System <- "gs", Channels <- {"sys", "ins"}, Voicings <- {{"sys", "ins"}},
    Options <- {"ins", "reverb"}, Switchable <- {"eq"}

\* XG where the tune switches the multi equaliser.
XgEq == INSTANCE RenderPipeline WITH
    System <- "xg", Channels <- {"sys"}, Voicings <- {{"sys"}},
    Options <- {"chorus", "reverb"}, Switchable <- {"multi"}

\* Only the equaliser, so that the tune switches all the effects with it.
OnlyEq == INSTANCE RenderPipeline WITH
    System <- "gs", Channels <- {"sys", "plain"}, Voicings <- {{"sys", "plain"}},
    Options <- {}, Switchable <- {"eq"}

PipeInit ==
    \/ player = "gs" /\ Gs!Init
    \/ player = "xg" /\ Xg!Init
    \/ player = "sd" /\ Sd!Init
    \/ player = "dry" /\ Dry!Init
    \/ player = "live" /\ Live!Init
    \/ player = "gseq" /\ GsEq!Init
    \/ player = "xgeq" /\ XgEq!Init
    \/ player = "onlyeq" /\ OnlyEq!Init

PipeNext ==
    /\ \/ player = "gs" /\ Gs!Next
       \/ player = "xg" /\ Xg!Next
       \/ player = "sd" /\ Sd!Next
       \/ player = "dry" /\ Dry!Next
       \/ player = "live" /\ Live!Next
       \/ player = "gseq" /\ GsEq!Next
       \/ player = "xgeq" /\ XgEq!Next
       \/ player = "onlyeq" /\ OnlyEq!Next
    /\ UNCHANGED player

PipeAsleep ==
    /\ on = {} /\ ofs = <<>> /\ buf = <<>> /\ cv = <<>> /\ channel = <<>>
    /\ master = <<>> /\ sub = <<>> /\ ring = <<>> /\ multi = <<>> /\ final = <<>>
    /\ skip = 0 /\ out = <<>> /\ past = <<>>

\* A pool that sleeps is in its initial state.
MCInit == (player = "pool" /\ Init /\ PipeAsleep) \/ (PipeInit /\ Init)

MCNext ==
    \/ player = "pool" /\ Next /\ UNCHANGED <<player, pipe>>
    \/ PipeNext /\ UNCHANGED vars

MCSpec == MCInit /\ [][MCNext]_allVars

-----------------------------------------------------------------------------
(* The properties of RenderPipeline, each under the settings that can break   *)
(* it.  Those of ComputeThread hold of a pool that sleeps too.                *)

\* Every block and every effect is rendered in time and heard in order, a skip of
\* silence is heard as silence (compute_data), and the states of the pool and of the
\* pipeline are of their types: no counter of compute_thread_core runs on, and the
\* indices of cdmt_ofs and cdmt_buf turn.
InTime ==
    /\ TypeOK
    /\ player = "gs" => Gs!InTime /\ Gs!TypeOK
    /\ player = "xg" => Xg!InTime
    /\ player = "sd" => Sd!InTime
    /\ player = "dry" => Dry!InTime
    /\ player = "live" => Live!InTime /\ Live!SkipIsSilent

\* RenderPipeline!Settles: what a switch of an equaliser disturbs is over when what was
\* on its way is out, but for a block caught in the equaliser (OnlyEqLate;
\* mix_multi_eq_xg_thread, do_ch_eq_gs_thread).
Settles ==
    /\ player = "gseq" => GsEq!Settles
    /\ player = "xgeq" => XgEq!Settles
    /\ player = "onlyeq" => OnlyEq!Settles
    /\ player = "gseq" => GsEq!OnlyEqLate
    /\ player = "onlyeq" => OnlyEq!OnlyEqLate

\* RenderPipeline!NoRace: the jobs of a batch touch different buffers
\* (do_compute_data_midi_thread_block1).
NoRace ==
    /\ player = "gs" => Gs!NoRace
    /\ player = "xg" => Xg!NoRace
    /\ player = "sd" => Sd!NoRace
=============================================================================
