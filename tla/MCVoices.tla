------------------------------ MODULE MCVoices ------------------------------
(* The voices of channels that are no drums.                               *)
EXTENDS Voices

NoGroups == <<>>
=============================================================================
