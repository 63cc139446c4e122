----------------------------- MODULE MidiInput ------------------------------
(* The MIDI input of the realtime synthesizer on Windows, rtsyn_winmm.c.     *)
(* The driver calls MidiInProc on a thread of its own; it stores each        *)
(* message in a ring from which the main loop takes it.  A system exclusive  *)
(* message comes in a header that the program lends to the driver: the       *)
(* driver fills it, and rtsyn_ws_play_some_data gives it back when the       *)
(* message is played.  The ring is never tested for being full.              *)
EXTENDS Naturals, Sequences

CONSTANTS
    Size,       \* EVBUFF_SIZE
    Shorts,     \* the short messages that the driver delivers
    Headers,    \* IMidiHdr
    None        \* no message is being played

ASSUME InputAssumption ==
    /\ Size \in Nat /\ Size >= 2
    /\ None \notin Shorts \cup Headers
    /\ Shorts \cap Headers = {}

Messages == Shorts \cup Headers
Slots == 0..(Size - 1)

VARIABLES
    port,       \* "closed", "open" or "reset": midiInReset is running
    evbuf,      \* the ring
    evbwpoint,  \* the slot that is written next
    evbrpoint,  \* the slot that is read next
    driver,     \* the headers that the driver may fill
    looked,     \* rtsyn_buf_check found a message, and the main loop goes on to take it
    hand        \* the message that the main loop plays

vars == <<port, evbuf, evbwpoint, evbrpoint, driver, looked, hand>>

TypeOK ==
    /\ port \in {"closed", "open", "reset"}
    /\ evbuf \in [Slots -> Messages \cup {None}]
    /\ evbwpoint \in Slots /\ evbrpoint \in Slots
    /\ driver \subseteq Headers
    /\ looked \in BOOLEAN
    /\ hand \in Messages \cup {None}

\* Mutant: the index runs one slot too far.
StepLate(point) == IF point + 1 > Size THEN point + 1 - Size ELSE point + 1

\* if (++point >= EVBUFF_SIZE) point -= EVBUFF_SIZE;
Step(point) == IF point + 1 >= Size THEN point + 1 - Size ELSE point + 1

\* How many messages wait, and where the i-th of them is.
Count == IF evbwpoint >= evbrpoint THEN evbwpoint - evbrpoint
                                   ELSE evbwpoint + Size - evbrpoint
Slot(i) == IF evbrpoint + i - 1 < Size THEN evbrpoint + i - 1
                                       ELSE evbrpoint + i - 1 - Size

-----------------------------------------------------------------------------
Init ==
    /\ port = "closed"
    /\ evbuf = [s \in Slots |-> None]
    /\ evbwpoint = 0 /\ evbrpoint = 0
    /\ driver = {}
    /\ looked = FALSE /\ hand = None

\* rtsyn_ws_synth_start: the ring is emptied, all headers go to the driver.
Start ==
    /\ port = "closed"
    /\ port' = "open"
    /\ evbwpoint' = 0 /\ evbrpoint' = 0
    /\ driver' = Headers
    /\ UNCHANGED <<evbuf, looked, hand>>

\* MidiInProc.
Store(m) ==
    /\ evbuf' = [evbuf EXCEPT ![evbwpoint] = m]
    /\ evbwpoint' = Step(evbwpoint)
    /\ UNCHANGED <<port, evbrpoint, looked, hand>>

Short(m) == port = "open" /\ Store(m) /\ UNCHANGED driver

Long(h) == h \in driver /\ Store(h) /\ driver' = driver \ {h}

\* rtsyn_buf_check looks into the ring, in a critical section of its own ...
Look ==
    /\ port = "open" /\ hand = None /\ ~looked
    /\ evbrpoint # evbwpoint
    /\ looked' = TRUE
    /\ UNCHANGED <<port, evbuf, evbwpoint, evbrpoint, driver, hand>>

\* Mutant: the header is given back before its message is played.
TakeGiving ==
    /\ looked /\ looked' = FALSE
    /\ hand' = evbuf[evbrpoint]
    /\ evbrpoint' = Step(evbrpoint)
    /\ driver' = driver \cup ({hand'} \cap Headers)
    /\ UNCHANGED <<port, evbuf, evbwpoint>>

\* ... one message is taken in the next, whatever came in between: the ring may have
\* been lapped, and look empty ...
Take ==
    /\ looked /\ looked' = FALSE
    /\ hand' = evbuf[evbrpoint]
    /\ evbrpoint' = Step(evbrpoint)
    /\ UNCHANGED <<port, evbuf, evbwpoint, driver>>

\* Mutant: the header of a played message is not given back.
FinishKeeping ==
    /\ hand # None
    /\ hand' = None
    /\ UNCHANGED <<port, evbuf, evbwpoint, evbrpoint, driver, looked>>

\* ... played, and its header given back with midiInAddBuffer.
Finish ==
    /\ hand # None
    /\ hand' = None
    /\ driver' = driver \cup ({hand} \cap Headers)
    /\ UNCHANGED <<port, evbuf, evbwpoint, evbrpoint, looked>>

\* rtsyn_ws_midiports_close: midiInReset makes the driver return the headers
\* that it has, one call of MidiInProc for each; then the ports are closed.
Return ==
    /\ port = "open" /\ hand = None /\ ~looked
    /\ port' = "reset"
    /\ UNCHANGED <<evbuf, evbwpoint, evbrpoint, driver, looked, hand>>

Close ==
    /\ port = "reset" /\ driver = {}
    /\ port' = "closed"
    /\ UNCHANGED <<evbuf, evbwpoint, evbrpoint, driver, looked, hand>>

Next ==
    \/ Start
    \/ \E m \in Shorts : Short(m)
    \/ \E h \in Headers : Long(h)
    \/ Look
    \/ Take
    \/ Finish
    \/ Return
    \/ Close

Spec == Init /\ [][Next]_vars
-----------------------------------------------------------------------------
Contents == [i \in 1..Count |-> evbuf[Slot(i)]]

\* All slots, the oldest message first, when the ring was lapped after a look.
Lap == looked /\ Count = 0
Lapped == IF Lap THEN [i \in 1..Size |-> evbuf[Slot(i)]] ELSE <<>>

\* The ring is the queue of InputQueue, that loses all when it is full.
Queue == INSTANCE InputQueue WITH
    Capacity <- Size - 1, waiting <- Contents, lapped <- Lapped

\* The messages that MidiInProc stores come to the main loop in their order and
\* once, across the wrap of the ring and a restart, and they are lost only all
\* together when Size - 1 of them wait; a take that comes between such a loss and
\* the next message, with the look before the loss, brings all Size back.
IsQueue == Queue!Spec

Waits(h) == {i \in 1..Count : evbuf[Slot(i)] = h}

\* A header that the driver may fill is neither waiting to be played nor being
\* played: the driver never overwrites a message that is still to be read, and
\* no header waits twice.
OneHolder ==
    \A h \in Headers :
        /\ h \in driver => hand # h /\ Waits(h) = {}
        /\ hand = h => Waits(h) = {}
        /\ \A i, j \in Waits(h) : i = j

Held(h) == h \in driver \/ hand = h \/ Waits(h) # {}

\* A header is lost to the program only when the ring overflows: neither the
\* playing of a message nor the closing of the ports forgets one.
LostByOverflow ==
    [][\A h \in Headers : Held(h) /\ ~Held(h)' => Count = Size - 1]_vars
=============================================================================
