------------------------------ MODULE MCTunes -------------------------------
(* The voices under eight settings of the player.  tune is chosen once and    *)
(* says which settings the player was started with.                         *)
EXTENDS Voices

VARIABLE tune

allVars == <<tune, vars>>

NoGroups == <<>>

\* One key, both pedals, half damper, release samples, notes of two samples.
Pedals == INSTANCE Voices WITH
    MaxVoices <- 2, InitialVoices <- 2, Channels <- {0}, DrumChannels <- {}, Notes <- {60},
    Kinds <- {"plain", "release"}, MaxLayers <- 2, DamperMode <- {0},
    PedalValues <- {0, 127}, VidRange <- 3, MaxHeld <- 2

\* Two keys, each down up to twice, and the mode switched between them.
Modes == INSTANCE Voices WITH
    MaxVoices <- 3, InitialVoices <- 3, Channels <- {0}, DrumChannels <- {}, Notes <- {60, 62},
    AssignMode <- 2, VidRange <- 3, MaxHeld <- 2

\* Two keys without opt_overlap_voice_allow.
Single == INSTANCE Voices WITH
    MaxVoices <- 2, InitialVoices <- 2, Channels <- {0}, DrumChannels <- {}, Notes <- {60, 62},
    Overlap <- FALSE, DamperMode <- {0}, PedalValues <- {0, 40, 127},
    VidRange <- 3, MaxHeld <- 2

\* A tone and a drum channel that need more voices than there are.
Crowd == INSTANCE Voices WITH
    MaxVoices <- 2, InitialVoices <- 2, Channels <- {0, 9}, DrumChannels <- {9},
    Notes <- {60}, MaxLayers <- 2, AssignMode <- 2, VidRange <- 2, MaxHeld <- 1

\* "altassign 42 44" and then "altassign 78" (the newest is first), one-shot
\* samples, and a key that ignores its note-off.
Kit == INSTANCE Voices WITH
    MaxVoices <- 2, InitialVoices <- 2, Channels <- {9}, DrumChannels <- {9},
    Notes <- {42, 44, 78}, Kinds <- {"plain", "oneshot"},
    AltGroups <- << {78}, {42, 44} >>, NoOffKeys <- {44},
    VidRange <- 2, MaxHeld <- 1

\* The polyphony changes under notes and release samples.
Sizes == INSTANCE Voices WITH
    MaxVoices <- 3, InitialVoices <- 2, Channels <- {0}, DrumChannels <- {}, Notes <- {60},
    Kinds <- {"plain", "release"}, OverlapCount <- 0, AutoReduce <- TRUE,
    VidRange <- 2, MaxHeld <- 1, MaxStep <- 1

\* The legato pedal on a channel without portamento messages, with a count that
\* legato_hist cannot hold; and one key on a channel that gets them.
Slurs == INSTANCE Voices WITH
    MaxVoices <- 1, InitialVoices <- 1, Channels <- {0}, DrumChannels <- {},
    Notes <- {60, 62}, Overlap <- FALSE, AssignMode <- 2, Portamento <- TRUE,
    Glides <- {}, HistRange <- 3, VidRange <- 2, MaxHeld <- 1
Glide == INSTANCE Voices WITH
    MaxVoices <- 1, InitialVoices <- 1, Channels <- {9}, DrumChannels <- {},
    Notes <- {60}, Portamento <- TRUE, HistRange <- 3, VidRange <- 2, MaxHeld <- 1

MCInit ==
    \/ tune = "pedals" /\ Pedals!Init
    \/ tune = "modes" /\ Modes!Init
    \/ tune = "single" /\ Single!Init
    \/ tune = "crowd" /\ Crowd!Init
    \/ tune = "kit" /\ Kit!Init
    \/ tune = "sizes" /\ Sizes!Init
    \/ tune = "slurs" /\ Slurs!Init
    \/ tune = "glide" /\ Glide!Init

MCNext ==
    /\ \/ tune = "pedals" /\ Pedals!Next
       \/ tune = "modes" /\ Modes!Next
       \/ tune = "single" /\ Single!Next
       \/ tune = "crowd" /\ Crowd!Next
       \/ tune = "kit" /\ Kit!Next
       \/ tune = "sizes" /\ Sizes!Next
       \/ tune = "slurs" /\ Slurs!Next
       \/ tune = "glide" /\ Glide!Next
    /\ UNCHANGED tune

MCSpec == MCInit /\ [][MCNext]_allVars

-----------------------------------------------------------------------------
(* The properties that depend on a setting.                                 *)

\* Voices!NoHungNote, but for the legato pedal: reset_controllers does not give the
\* number of a legato's base note back.
NotesComeOff == tune \notin {"slurs", "glide"} => NoHungNote

\* What must not sound together: the notes of a mono channel, more notes than
\* channel_voice_count allows (Voices!MonoPlaysOne, ChannelBounded), two notes of
\* a key without opt_overlap_voice_allow (OneInstance), the keys of an altassign
\* group of a drum set (GroupPlaysOne); and the counters stay within their width
\* under a changing polyphony (Voices!TypeOK).
WithinLimits ==
    /\ tune = "modes" => Modes!MonoPlaysOne /\ Modes!ChannelBounded
    /\ tune = "single" => Single!OneInstance
    /\ tune = "kit" => Kit!GroupPlaysOne
    /\ tune = "sizes" => Sizes!TypeOK
=============================================================================
