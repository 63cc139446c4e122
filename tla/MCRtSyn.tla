------------------------------ MODULE MCRtSyn -------------------------------
(* The time keeping of the realtime synthesizer on small instances: part is   *)
(* chosen once and says what comes, and how long the loop may be away.  The   *)
(* configuration gives the rest of the constants.                             *)
EXTENDS RtSyn

VARIABLE part

allVars == <<part, vars>>

\* Notes of loud and quiet channels, and resets by message and by key.
Notes == INSTANCE RtSyn WITH
    Kinds <- {"note", "quiet", "reset"}, Capacity <- 1

\* Notes and active sensing.
Sense == INSTANCE RtSyn WITH
    Kinds <- {"note", "sensing"}, Keys <- FALSE, QueueMax <- 5, PassMax <- 2

InNotes == part = "notes" /\ UNCHANGED part
InSense == part = "sense" /\ UNCHANGED part

MCInit == Init /\ part \in {"notes", "sense"}

MCNext == (InNotes /\ Notes!Next) \/ (InSense /\ Sense!Next)

\* The fairness of RtSyn, in either part.
MCSpec ==
    /\ MCInit /\ [][MCNext]_allVars
    /\ WF_allVars((InNotes /\ Notes!Loop) \/ (InSense /\ Sense!Loop))
    /\ WF_allVars((InNotes /\ Notes!Tick) \/ (InSense /\ Sense!Tick))
=============================================================================
