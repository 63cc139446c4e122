------------------------------- MODULE MCTune -------------------------------
(* A tune on its way from the file to the player: a reader of files and       *)
(* groom_list on eight kinds of files, and the player under the users of       *)
(* MCPlayer.  user is chosen once; a reader is a user of its own.             *)
EXTENDS MCPlayer, EventList

CONSTANT Readers    \* what is read

VARIABLES cmds, rcp

tuneVars == <<allVars, readVars, cmds, rcp>>

\* 6/4 of a sample a tick, then 11/4.
Tempi == [common |-> 6, slow |-> 11]

\* Two beats of four ticks, three of two, and beats too short for the divisions.
Meters == [common |-> [beats |-> 2, ticks |-> 4],
           waltz |-> [beats |-> 3, ticks |-> 2],
           dense |-> [beats |-> 4, ticks |-> 0]]

\* The configuration is that of "tracks": two tracks of one time line, in which
\* silence is kept and the list may be full.
Base == ReadNext

\* Two tracks one behind the other, with the loop of a controller to the end; a gap
\* is longer than sample_cum has parts.
Sequel == INSTANCE EventList WITH
    Kinds <- {"note", "slow", "cc111"}, Deltas <- {1, 6}, Format <- 2,
    Preserve <- FALSE, MaxEvents <- 40, Filters <- {"track"}

\* Loops by markers and by two controllers in one file.
Marks == INSTANCE EventList WITH
    Kinds <- {"note", "A", "B", "breath", "foot"}, Deltas <- {2}, Tracks <- 1,
    Format <- 0, Preserve <- FALSE, MaxEvents <- 40, MaxItems <- 4,
    Filters <- {"mark", "ctl"}

\* A loop by two controllers with changes of tempo and quiet channels.
Slowing == INSTANCE EventList WITH
    Kinds <- {"note", "slow", "quiet", "breath", "foot"}, Tracks <- 1,
    Format <- 0, Preserve <- FALSE, MaxEvents <- 40, Filters <- {"ctl"}

\* A track of an MFi file.
Mfi == INSTANCE EventList WITH
    Kinds <- {"program", "slow"}, Deltas <- {0, 2}, Tracks <- 1, Format <- 3,
    MaxEvents <- 40

\* Notes of three ticks and of one on steps of two and one, so that they overlap, meet
\* and leave gaps; loops, and measures that stand for others.
Looping ==
    {[cmd |-> "note", key |-> 1, step |-> 2, gate |-> 3],
     [cmd |-> "note", key |-> 2, step |-> 1, gate |-> 1]}
        \cup [cmd : {"start", "measure"}] \cup [cmd : {"end"}, times : {3}]

\* A Recomposer track of loops: one of three passes is broken off when it lasts more
\* than five ticks.
Recomposer == INSTANCE RcpTrack WITH
    Cmds <- Looping, Offsets <- {0}, Told <- {FALSE}, MaxCmds <- 4, Depth <- 2,
    Limit <- 20, Longest <- 2, Skip <- 2, Usual <- 4,
    MaxEvents <- 40, Tracks <- 1

\* A longer one of one note only.
Nested ==
    {[cmd |-> "note", key |-> 1, step |-> 2, gate |-> 3],
     [cmd |-> "start"], [cmd |-> "end", times |-> 3]}

Nesting == INSTANCE RcpTrack WITH
    Cmds <- Nested, Offsets <- {0}, Told <- {FALSE}, MaxCmds <- 5, Depth <- 2,
    Limit <- 20, Longest <- 2, Skip <- 2, Usual <- 4,
    MaxEvents <- 40, Tracks <- 1

\* Tempi that are set or slide, and a loop for ever, in a track that begins early or late.
Tempos ==
    [cmd : {"note"}, key : {1}, step : {1, 3}, gate : {0, 3}]
        \cup [cmd : {"tempo"}, to : {1, 5}, grade : {0, 2}, step : {1}]
        \cup {[cmd |-> "control", step |-> 0], [cmd |-> "other", adds |-> TRUE],
              [cmd |-> "last"], [cmd |-> "start"], [cmd |-> "end", times |-> -1]}

Sliding == INSTANCE RcpTrack WITH
    Cmds <- Tempos, Offsets <- {-1, 1}, Told <- BOOLEAN, MaxCmds <- 3, Depth <- 2,
    Limit <- 20, Longest <- 2, Skip <- 2, Usual <- 4,
    MaxEvents <- 9, Tracks <- 1

TuneInit == Init /\ Recomposer!RcpInit /\ user \in Users \cup Readers

\* A reader of the file reads on; it is a user of its own.
Read ==
    /\ \/ user = "tracks" /\ Base
       \/ user = "sequel" /\ Sequel!ReadNext
       \/ user = "marks" /\ Marks!ReadNext
       \/ user = "slowing" /\ Slowing!ReadNext
       \/ user = "mfi" /\ Mfi!ReadNext
    /\ UNCHANGED <<allVars, cmds, rcp>>

ReadRcp ==
    /\ \/ user = "recomposer" /\ Recomposer!RcpNext
       \/ user = "nesting" /\ Nesting!RcpNext
       \/ user = "sliding" /\ Sliding!RcpNext
    /\ UNCHANGED allVars

Play == user \in Users /\ MCNext /\ UNCHANGED <<readVars, cmds, rcp>>

TuneNext == Read \/ ReadRcp \/ Play

\* The program's thread runs; a user does not go on for ever.
TuneSpec == TuneInit /\ [][TuneNext]_tuneVars /\ WF_tuneVars(TuneNext)

-----------------------------------------------------------------------------
(* The properties of PlayerControl and EventList, for every user and reader:  *)
(* a player that sleeps keeps the former, a list nobody reads the latter.     *)

\* The groomed list has room for the loop, and plays it as often as was asked
\* (groom_list).
LoopUnwinds ==
    /\ user = "tracks" => Fits /\ Unwinds
    /\ user = "sequel" => Sequel!Fits /\ Sequel!Unwinds
    /\ user = "marks" => Marks!Fits /\ Marks!Unwinds
    /\ user = "slowing" => Slowing!Fits /\ Slowing!Unwinds

\* A Recomposer track is played as it is written: each loop as often as it says unless
\* it lasts too long, measures that stand for others, and each note until its end or
\* until a note of its key takes it over, with one note-off (read_rcp_track).
AsWritten ==
    /\ user = "recomposer" => Recomposer!PlaysAsWritten
    /\ user = "nesting" => Nesting!PlaysAsWritten
    /\ user = "sliding" => Sliding!PlaysAsWritten

\* Every event is at its sample, also after the passes of a loop; the note steps
\* follow each other to the end, the notes of an MFi file are paired, and a Recomposer
\* tempo slides with the time (groom_list, insert_note_steps, read_mfi_track, rcp.c).
KeepsTime ==
    /\ BeatsFollow
    /\ user = "tracks" => OnSample
    /\ user = "sequel" => Sequel!OnSample
    /\ user = "marks" => Marks!OnSample
    /\ user = "slowing" => Slowing!OnSample
    /\ user = "mfi" => Mfi!OnSample /\ Mfi!NotesPaired
    /\ user = "sliding" => Sliding!SlideInTime

\* Whatever is read, it ends, even where a signature has beats of no length
\* (insert_note_steps, groom_list) or a measure stands for one that comes later; and
\* when the user is content the play list comes to its end for good, unless the tune
\* was left paused (dumb_pass_playing_list).  Known exception: the reader of a
\* Recomposer track hangs where a measure stands for itself (next_same_measure), and
\* nowhere else.
TuneEnds == <>[](ReadOver \/ ListOver \/ Recomposer!RcpOver \/ Recomposer!Circling)
=============================================================================
