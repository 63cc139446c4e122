------------------------------ MODULE MCServer -------------------------------
(* The server with two kinds of clients.  client is chosen once.              *)
EXTENDS MidiServer

VARIABLE client

allVars == <<client, vars>>

\* A client of sequencer events, who sends a command before the answer to the last.
Hasty == INSTANCE MidiServer WITH
    Units <- {"data", "voice", "start", "halt", "bad"}, Ahead <- 2, MaxUnits <- 2

MCInit == client \in {"patient", "hasty"} /\ Init

MCServe ==
    /\ \/ client = "patient" /\ Server
       \/ client = "hasty" /\ Hasty!Server
    /\ UNCHANGED client

MCNext ==
    \/ MCServe
    \/ client = "patient" /\ Client /\ UNCHANGED client
    \/ client = "hasty" /\ Hasty!Client /\ UNCHANGED client

MCSpec == MCInit /\ [][MCNext]_allVars /\ WF_allVars(MCServe)

-----------------------------------------------------------------------------
\* MidiServer!FragmentsJoin and MidiServer!ResetKills, and the buffers and the parser
\* are of their types with the two alphabets.
StreamSound ==
    /\ FragmentsJoin /\ ResetKills
    /\ client = "patient" => TypeOK
    /\ client = "hasty" => Hasty!TypeOK

\* MidiServer!Answered, for a client that sends one command at a time.
AnsweredInTurn == client = "patient" => Answered
=============================================================================
