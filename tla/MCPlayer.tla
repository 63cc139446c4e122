------------------------------ MODULE MCPlayer ------------------------------
(* The player under users who give different commands.  user is chosen once; *)
(* the configuration gives the rest of the constants, and no command.        *)
EXTENDS PlayerControl

CONSTANT Users      \* who plays

VARIABLE user

\* A tune of a controller, two notes and a controller, ended by ME_EOT: two events
\* at the start, and no time but the first at the bound of a block.
Tune == <<0, 0, 2, 5, 8>>

OneFile == <<TRUE>>

allVars == <<user, vars>>

\* Goes about in a tune, pauses it, and changes the reverberation meanwhile.
Seeker == INSTANCE PlayerControl WITH
    Commands <- {"jump", "forward", "back", "restart", "pause", "key", "rewind",
                 "reverb"}

\* Much the same, where the driver cannot trace.
Deaf == INSTANCE PlayerControl WITH
    Commands <- {"jump", "back", "pause", "key", "sync", "trysync", "reverb"},
    Traced <- FALSE

\* Changes the tempo.  With RC_FORWARD or RC_JUMP InOrder would not hold: they
\* compare with a sample_count that keeps the tempo of the file.  Nor would it on
\* a tune whose rounded position can come behind ME_EOT (see PlayerControl), nor
\* ResumesThere with RC_TOGGLE_PAUSE: in a pause midi_restart_time stays in the
\* samples of the old tempo.
Tempo == INSTANCE PlayerControl WITH
    Commands <- {"faster", "slower", "sync", "trysync", "restart"}

\* Changes what needs the file to be read again.  With RC_TOGGLE_PAUSE
\* ResumesThere would not hold (a reload forgets where the pause began), with a
\* refused rate InOrder (it may set midi_restart_time to 0).
Reloader == INSTANCE PlayerControl WITH
    Commands <- {"reload", "rate", "stop"}, Failing <- TRUE

\* Goes about in the play list, which has a file that cannot be read.
Lister == INSTANCE PlayerControl WITH
    Commands <- {"next", "previous", "pause", "quit"}, Files <- <<TRUE, FALSE, TRUE>>

MCInit == Init /\ user \in Users

MCNext ==
    /\ \/ user = "seeker" /\ Seeker!Next
       \/ user = "deaf" /\ Deaf!Next
       \/ user = "tempo" /\ Tempo!Next
       \/ user = "reloader" /\ Reloader!Next
       \/ user = "lister" /\ Lister!Next
    /\ UNCHANGED user

\* The player's thread runs; a user does not go on for ever.
MCSpec == MCInit /\ [][MCNext]_allVars /\ WF_allVars(MCNext)
=============================================================================
