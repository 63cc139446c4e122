------------------------------- MODULE RtSyn --------------------------------
(* The time keeping of the realtime synthesizer, rtsyn_common.c, with the     *)
(* main loop that calls it (doit of winsyn_c.c).  A message is played         *)
(* rtsyn_latency after the driver received it: the synthesizer renders up to  *)
(* that time and then obeys the message.  When no message comes,              *)
(* rtsyn_play_calculate renders on.                                           *)
(*                                                                           *)
(* All times are relative to the clock and in ticks of 1/TICKTIME_HZ: 0 is    *)
(* now, and when the clock ticks they all go down by one.  rendered is the    *)
(* time that current_sample stands for, by rtsyn_start_time and               *)
(* rtsyn_start_sample.                                                        *)
(*                                                                           *)
(* The loop looks and takes in one step.  MidiInput has the two apart: a      *)
(* message that laps the ring between them is, for the loop, one that comes   *)
(* right after the take.                                                      *)
EXTENDS Integers, Sequences

CONSTANTS
    Kinds,      \* what may come: "note", "quiet" (a note of a quiet channel),
                \* "reset" (a system exclusive reset), "sensing" (0xFE)
    Keys,       \* the user may reset the synthesizer from the keyboard
    Latency,    \* rtsyn_latency
    StreamMax,  \* stream_max_compute
    QueueMax,   \* what the audio queue and the device hold
    SenseMax,   \* active sensing expires after 0.5 s: 100 ticks
    Capacity,   \* messages that may wait
    PassMax     \* a pass of the loop takes at most so long, unless the device
                \* makes it wait

\* rtsyn_set_latency sets four ticks at least.
ASSUME TimeAssumption ==
    /\ Latency \in Nat /\ Latency >= 4
    /\ StreamMax \in Nat
    /\ QueueMax \in Nat \ {0}
    /\ SenseMax \in Nat
    /\ Capacity \in Nat
    /\ PassMax \in Nat
    /\ Kinds \subseteq {"note", "quiet", "reset", "sensing"}

\* Mutant: the limit does not follow the latency.
MaxComputeFixed == StreamMax

\* rtsyn_init: the time that may be rendered for one event.
MaxCompute == IF Latency > StreamMax THEN Latency ELSE StreamMax

VARIABLES
    waiting,    \* the messages delivered and not yet taken: kind and age
    pc,         \* where the main loop is
    event,      \* what rtsyn_play_event_time plays: kind, time, and the caller
    rendered,   \* the time up to which samples are rendered
    last,       \* last_event_time
    lastCalc,   \* last_calc_time, or 0 when it is past: it only makes Idle true
    played,     \* rtsyn_played
    sensing,    \* how long ago active sensing was heard; -1 if it is not used
    queued,     \* rendered and not yet played by the device
    since,      \* history: ticks since the loop last saw no message waiting
    fresh       \* history: the time base is new and nothing rendered for it yet

vars == <<waiting, pc, event, rendered, last, lastCalc, played, sensing, queued,
          since, fresh>>

NoEvent == [kind |-> "none", at |-> 0, from |-> "data"]

\* A bound on the time a message waits and on what is counted of a pass, above
\* every value that they are compared with.
AgeMax == PassMax + MaxCompute + QueueMax + 2

Later(a, b) == IF a > b THEN a ELSE b
Sooner(a, b) == IF a < b THEN a ELSE b

Init ==
    /\ waiting = <<>>
    /\ pc = "key"
    /\ event = NoEvent
    /\ rendered = 0 /\ last = Latency /\ lastCalc = 0
    /\ played = FALSE
    /\ sensing = -1
    /\ queued = 0
    /\ since = 0
    /\ fresh = TRUE

-----------------------------------------------------------------------------
(* rtsyn_play_event_time.                                                    *)

\* The time that may be rendered for one event is exceeded.
Exceeds(at) == at - last > MaxCompute

\* The event is not played: its time becomes the base.
Rebase ==
    /\ rendered' = 0
    /\ last' = 0
    /\ fresh' = TRUE

\* How far is rendered for an event: for that of a quiet channel only the whole
\* ticks before it.
Goal(e) ==
    IF e.kind # "quiet" THEN e.at
    ELSE IF e.at - last > 1 THEN e.at - 1
    ELSE rendered

\* The audio queue takes the samples of a tick, or makes the caller wait.
Render ==
    /\ pc = "play"
    /\ rendered < Goal(event)
    /\ queued < QueueMax
    /\ rendered' = rendered + 1
    /\ queued' = queued + 1
    /\ UNCHANGED <<waiting, pc, event, last, lastCalc, played, sensing, since, fresh>>

\* Mutant: the event waits for its very time.
PlayedExactly ==
    /\ pc = "play"
    /\ rendered = Goal(event)
    /\ pc' = IF event.from = "calc" THEN "sense" ELSE event.from
    /\ played' = (event.from = "data")
    /\ last' = event.at
    /\ event' = NoEvent
    /\ UNCHANGED <<waiting, rendered, lastCalc, sensing, queued, since, fresh>>

\* The event is obeyed, and its caller goes on.
Played ==
    /\ pc = "play"
    /\ rendered >= Goal(event)
    /\ last' = IF event.kind = "quiet" THEN last ELSE Later(event.at, last)
    /\ pc' = IF event.from = "calc" THEN "sense" ELSE event.from
    /\ IF event.from = "calc"
       THEN lastCalc' = Later(event.at, 0) /\ played' = FALSE /\ fresh' = FALSE
       ELSE played' = TRUE /\ UNCHANGED <<lastCalc, fresh>>
    /\ event' = NoEvent
    /\ UNCHANGED <<waiting, rendered, sensing, queued, since>>

-----------------------------------------------------------------------------
(* rtsyn_play_some_data: the messages that wait, one after the other.         *)

\* rtsyn_play_one_data and rtsyn_play_one_sysex add the latency.
Due(m) == Latency - m.age

Taken == pc = "data" /\ waiting # <<>> /\ waiting' = Tail(waiting)

Note ==
    /\ Taken
    /\ LET m == Head(waiting) IN
        /\ m.kind \in {"note", "quiet"}
        /\ IF Exceeds(Due(m))
           THEN /\ Rebase
                /\ played' = TRUE
                /\ UNCHANGED <<pc, event>>
           ELSE /\ pc' = "play"
                /\ event' = [kind |-> m.kind, at |-> Due(m), from |-> "data"]
                /\ UNCHANGED <<rendered, last, played, fresh>>
    /\ UNCHANGED <<lastCalc, sensing, queued, since>>

\* Mutant: the queue is flushed and the time goes on.
ServerResetOn ==
    /\ queued' = 0
    /\ fresh' = TRUE
    /\ UNCHANGED <<rendered, last, lastCalc>>

\* rtsyn_server_reset: what is queued is flushed, and the time begins anew.
ServerReset ==
    /\ queued' = 0
    /\ rendered' = 0
    /\ last' = Latency
    /\ lastCalc' = 0
    /\ fresh' = TRUE

\* A reset is obeyed first, then played as an event of the new time.
Reset ==
    /\ Taken
    /\ Head(waiting).kind = "reset"
    /\ ServerReset
    /\ pc' = "play"
    /\ event' = [kind |-> "reset", at |-> Due(Head(waiting)), from |-> "data"]
    /\ UNCHANGED <<played, sensing, since>>

Sensing ==
    /\ Taken
    /\ Head(waiting).kind = "sensing"
    /\ sensing' = 0
    /\ UNCHANGED <<pc, event, rendered, last, lastCalc, played, queued, since, fresh>>

\* Mutant: the input is looked at once in a pass.
NoDataOnce ==
    /\ pc = "data"
    /\ pc' = "calc"
    /\ since' = 0
    /\ UNCHANGED <<waiting, event, rendered, last, lastCalc, played, sensing, queued, fresh>>

\* No message waits: the loop goes on to rtsyn_play_calculate.
NoData ==
    /\ pc = "data" /\ waiting = <<>>
    /\ pc' = "calc"
    /\ since' = 0
    /\ UNCHANGED <<waiting, event, rendered, last, lastCalc, played, sensing, queued, fresh>>

-----------------------------------------------------------------------------
(* The rest of a pass of the loop.                                           *)

Idle == ~played /\ Latency > lastCalc + 1
NearMiss == 2 > last

\* rtsyn_play_calculate renders up to the latency when no message did.
Calculates == Idle \/ NearMiss

Calculate ==
    /\ pc = "calc"
    /\ IF ~Calculates
       THEN pc' = "sense" /\ played' = FALSE /\ UNCHANGED <<event, rendered, last, lastCalc, fresh>>
       ELSE IF Exceeds(Latency)
       THEN pc' = "sense" /\ played' = FALSE /\ Rebase /\ lastCalc' = Latency /\ UNCHANGED event
       ELSE /\ pc' = "play"
            /\ event' = [kind |-> "calc", at |-> Latency, from |-> "calc"]
            /\ UNCHANGED <<rendered, last, lastCalc, played, fresh>>
    /\ UNCHANGED <<waiting, sensing, queued, since>>

Expired == sensing > SenseMax

\* Active sensing has stopped: the device is opened again, and all reset.
Expire ==
    /\ pc = "sense" /\ Expired
    /\ ServerReset
    /\ sensing' = -1
    /\ pc' = "key"
    /\ UNCHANGED <<waiting, event, played, since>>

NotExpired ==
    /\ pc = "sense" /\ ~Expired
    /\ pc' = "key"
    /\ UNCHANGED <<waiting, event, rendered, last, lastCalc, played, sensing, queued, since, fresh>>

\* The loop comes round; a key may call rtsyn_gm_reset and the like, which
\* plays the reset as an event of now.
NoKey ==
    /\ pc = "key"
    /\ pc' = "data"
    /\ UNCHANGED <<waiting, event, rendered, last, lastCalc, played, sensing, queued, since, fresh>>

Key ==
    /\ Keys
    /\ pc = "key"
    /\ ServerReset
    /\ played' = TRUE
    /\ pc' = "data"
    /\ UNCHANGED <<waiting, event, sensing, since>>

Loop == Render \/ Played \/ Note \/ Reset \/ Sensing \/ NoData \/ Calculate
            \/ Expire \/ NotExpired \/ NoKey \/ Key

-----------------------------------------------------------------------------
(* What goes on besides the loop.                                            *)

\* What waits when message m comes: the ring forgets all when it is full.
Accepted(m) == IF Len(waiting) < Capacity THEN Append(waiting, m) ELSE <<>>

\* The driver delivers a message.
Receive(kind) ==
    /\ waiting' = Accepted([kind |-> kind, age |-> 0])
    /\ UNCHANGED <<pc, event, rendered, last, lastCalc, played, sensing, queued, since, fresh>>

\* The loop waits for the audio queue.
Blocked == pc = "play" /\ rendered < Goal(event) /\ queued = QueueMax

\* The clock ticks, and the device plays what is queued.
Tick ==
    /\ since < PassMax \/ Blocked
    /\ \A i \in DOMAIN waiting : waiting[i].age < AgeMax
    /\ waiting' = [i \in DOMAIN waiting |-> [waiting[i] EXCEPT !.age = @ + 1]]
    /\ event' = IF event = NoEvent THEN NoEvent ELSE [event EXCEPT !.at = @ - 1]
    /\ rendered' = rendered - 1
    /\ last' = last - 1
    /\ lastCalc' = Later(lastCalc - 1, 0)
    /\ sensing' = IF sensing = -1 THEN -1 ELSE Sooner(sensing + 1, SenseMax + 1)
    /\ queued' = Later(queued - 1, 0)
    /\ since' = Sooner(since + 1, AgeMax)
    /\ UNCHANGED <<pc, played, fresh>>

Next == Loop \/ Tick \/ \E kind \in Kinds : Receive(kind)

\* The loop runs, and time passes.
Fairness == WF_vars(Loop) /\ WF_vars(Tick)

Spec == Init /\ [][Next]_vars /\ Fairness

-----------------------------------------------------------------------------
TypeOK ==
    /\ waiting \in Seq([kind : Kinds, age : 0..AgeMax])
    /\ pc \in {"key", "data", "play", "calc", "sense"}
    /\ event.kind \in Kinds \cup {"none", "calc"} /\ event.at \in Int
    /\ rendered \in Int /\ last \in Int
    /\ lastCalc \in 0..Latency
    /\ played \in BOOLEAN /\ fresh \in BOOLEAN
    /\ sensing \in -1..(SenseMax + 1)
    /\ queued \in 0..QueueMax
    /\ since \in 0..AgeMax

\* Nothing is rendered further ahead than the latency, and what is rendered ahead
\* of the clock is on its way to the device: it was neither flushed nor skipped
\* (rtsyn_play_event_time, rtsyn_server_reset).
AheadIsQueued == rendered <= Latency /\ last <= Latency /\ rendered <= queued

\* A pass of the loop leaves two ticks rendered, whatever came in it; only a new
\* time base needs one pass more (rtsyn_play_calculate).
KeepsAhead == pc # "play" /\ pc # "calc" /\ ~fresh => rendered >= 2 - since

\* What rtsyn_play_event_time renders ahead of the clock is queued, across resets
\* that flush the queue, and a pass keeps ahead; the times, the queue and the waiting
\* messages stay of their types.
RunsAhead == TypeOK /\ AheadIsQueued /\ KeepsAhead

\* A note is dropped only when the loop was away for longer than what is rendered
\* lasts and, where stream_max_compute exceeds the latency, than the difference
\* (rtsyn_play_event_time).
DropsOnlyLate ==
    pc = "data" /\ waiting # <<>> /\ Head(waiting).kind \in {"note", "quiet"}
    /\ Exceeds(Due(Head(waiting)))
        => since > Later(StreamMax - Latency, 0) + (IF fresh THEN 0 ELSE 2)

\* Active sensing expires only when none was received in its time: none that
\* came before the last look at the input waits (rtsyn_play_calculate).
ExpiresInSilence ==
    pc = "sense" /\ Expired =>
        \A i \in DOMAIN waiting : waiting[i].kind = "sensing" => waiting[i].age <= since

\* The loop of doit always comes back to take messages: it does not wait for ever
\* for the audio queue.
ComesBack == []<>(pc = "data")
=============================================================================
