----------------------------- MODULE InputQueue -----------------------------
(* What the realtime synthesizer may expect of its MIDI input: the messages  *)
(* that the driver delivers come to the main loop in their order and once.   *)
(* A message that finds Capacity messages waiting is lost, and all of those  *)
(* with it; unless it comes between a look of the main loop and the take     *)
(* that follows: then the take finds them again, if no other came after it.  *)
EXTENDS Naturals, Sequences

CONSTANTS
    Messages,   \* what the driver may deliver
    None,       \* no message
    Capacity    \* messages that may wait

VARIABLES
    waiting,    \* the messages delivered and not yet taken
    lapped,     \* those that a take may find again
    looked,     \* the main loop has seen that messages wait, and takes one
    hand        \* the message that the main loop handles

vars == <<waiting, lapped, looked, hand>>

Init == waiting = <<>> /\ lapped = <<>> /\ looked = FALSE /\ hand = None

\* The delivery of m.
Accept(m) ==
    IF Len(waiting) < Capacity
    THEN waiting' = Append(waiting, m) /\ lapped' = <<>>
    ELSE waiting' = <<>> /\ lapped' = IF looked THEN Append(waiting, m) ELSE <<>>

Receive == (\E m \in Messages : Accept(m)) /\ UNCHANGED <<looked, hand>>

Look ==
    /\ hand = None /\ waiting # <<>>
    /\ looked' = TRUE
    /\ UNCHANGED <<waiting, lapped, hand>>

Take ==
    /\ looked
    /\ \E q \in {waiting, lapped} \ {<<>>} : hand' = Head(q) /\ waiting' = Tail(q)
    /\ lapped' = <<>> /\ looked' = FALSE

Finish == hand # None /\ hand' = None /\ UNCHANGED <<waiting, lapped, looked>>

\* The ports are closed: what waits is never played.
Forget == hand = None /\ ~looked /\ waiting' = <<>> /\ UNCHANGED <<lapped, looked, hand>>

Next == Receive \/ Look \/ Take \/ Finish \/ Forget

Spec == Init /\ [][Next]_vars
=============================================================================
