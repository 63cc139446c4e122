---------------------------- MODULE SynthControl ----------------------------
(* The control of the Windows synthesizer, w32g_syn.c.  The window thread     *)
(* sends commands to the synthesizer thread through msg_loopbuf, which a      *)
(* mutex guards.  When the preferences are applied the window thread first    *)
(* has the synthesizer stopped, and keeps the mutex until it is done; at the  *)
(* end the two threads wait for each other.                                   *)
EXTENDS Integers

CONSTANTS
    Max,        \* W32G_SYN_MESSAGE_MAX
    Refused,    \* a MIDI device may be gone (ctl_pass_playing_list2 returns 2)
    Failing     \* midiInStart may fail, for as long as it likes

VARIABLES
    buf,        \* msg_loopbuf
    first,      \* msg_loopbuf_start
    end,        \* msg_loopbuf_end
    held,       \* the window thread has the mutex, to apply preferences
    status,     \* w32g_syn_status
    prev,       \* w32g_syn_status_prev
    seqQuit,    \* seq_quit
    msg,        \* the message that the synthesizer thread took, "none" if none waited
    synth,      \* where the synthesizer thread is
    window,     \* where the window thread is
    leave,      \* MYWM_QUIT is posted to the window thread
    quitState,  \* w32g_syn.quit_state
    posted      \* history: the last of "quit", "run" and "stop" that was sent;
                \* "apply" for the STOP before the preferences are applied

vars == <<buf, first, end, held, status, prev, seqQuit, msg, synth, window, leave,
          quitState, posted>>

control == <<buf, first, end, posted>>

\* W32G_SYN_QUIT, W32G_SYN_START, W32G_SYN_STOP, and the resets
Commands == {"quit", "run", "stop", "reset"}

TypeOK ==
    /\ buf \in [0..(Max - 1) -> Commands \cup {"none"}]
    /\ first \in -1..(Max - 1) /\ end \in -1..(Max - 1)
    /\ held \in BOOLEAN /\ seqQuit \in BOOLEAN /\ leave \in BOOLEAN
    /\ status \in {"stop", "run", "quit"} /\ prev \in {"stop", "run", "quit", "none"}
    /\ msg \in Commands \cup {"none"}
    /\ synth \in {"main", "taken", "begin", "get", "heard", "play", "close", "bye", "done"}
    /\ window \in {"idle", "ask", "lock", "test", "post", "apply", "again", "restart",
                 "destroy", "left", "ended"}
    /\ quitState \in 0..2
    /\ posted \in {"quit", "run", "stop", "apply", "none"}

\* What cannot be without an error in the program.
TypeCorrect == TypeOK /\ (first = -1 <=> end = -1) /\ first <= end

Init ==
    /\ buf = [i \in 0..(Max - 1) |-> "none"] /\ first = -1 /\ end = -1
    /\ held = FALSE
    /\ status \in {"run", "stop"}
    /\ prev = "none"
    /\ seqQuit = FALSE /\ msg = "none"
    /\ synth = "main" /\ window = "idle"
    /\ leave = FALSE /\ quitState = 0
    /\ posted = "none"

-----------------------------------------------------------------------------
(* The commands.                                                             *)

Overwrite(cmd) ==
    /\ buf' = IF cmd = "quit" THEN [i \in DOMAIN buf |-> cmd] ELSE [buf EXCEPT ![0] = cmd]
    /\ first' = 0 /\ end' = 0

AppendCommand(cmd) ==
    /\ end < Max - 1
    /\ end' = end + 1
    /\ first' = IF end < 0 THEN 0 ELSE first
    /\ buf' = [buf EXCEPT ![end'] = cmd]

\* Mutant: a STOP is appended like the others, and may be lost.
SetLast(cmd) ==
    IF cmd \notin {"reset", "stop"} THEN Overwrite(cmd)
    ELSE AppendCommand(cmd) \/ (end >= Max - 1 /\ UNCHANGED <<buf, first, end>>)

\* w32g_message_set: QUIT, START and STOP come first, and alone; another is
\* appended, or lost when the last slot is used.
Set(cmd) ==
    IF cmd # "reset" THEN Overwrite(cmd)
    ELSE AppendCommand(cmd) \/ (end >= Max - 1 /\ UNCHANGED <<buf, first, end>>)

\* w32g_message_get: waits for the mutex, takes the first message, and lets the mutex
\* go again before anything is done with the message.
Get ==
    /\ ~held
    /\ IF first < 0 THEN msg' = "none" /\ UNCHANGED <<first, end>>
       ELSE /\ msg' = buf[first]
            /\ first' = IF end < first + 1 THEN -1 ELSE first + 1
            /\ end' = IF end < first + 1 THEN -1 ELSE end
    /\ UNCHANGED <<buf, posted>>

-----------------------------------------------------------------------------
(* The synthesizer thread.                                                   *)

Synth(from, to) == synth = from /\ synth' = to /\ UNCHANGED <<prev, window, held>>

\* w32g_syn_ctl_pass_playing_list.
Run ==
    /\ status = "run"
    /\ Synth("main", "begin")
    /\ UNCHANGED <<control, msg, status, seqQuit, leave, quitState>>

\* A synthesizer that stopped takes a message ...
Rest ==
    /\ status = "stop" /\ first >= 0
    /\ Synth("main", "taken")
    /\ Get
    /\ UNCHANGED <<status, seqQuit, leave, quitState>>

\* ... and heeds START and QUIT.
Wake ==
    /\ Synth("taken", "main")
    /\ status' = IF msg \in {"run", "quit"} THEN msg ELSE status
    /\ UNCHANGED <<control, msg, seqQuit, leave, quitState>>

Bye ==
    /\ status = "quit"
    /\ Synth("main", "bye")
    /\ UNCHANGED <<control, msg, status, seqQuit, leave, quitState>>

\* ctl_pass_playing_list2 up to its loop.
Begin ==
    /\ Synth("begin", "get")
    /\ seqQuit' = FALSE
    /\ UNCHANGED <<control, msg, status, leave, quitState>>

NoDevice ==
    /\ Refused
    /\ Synth("begin", "main")
    /\ status' = "stop"
    /\ UNCHANGED <<control, msg, seqQuit, leave, quitState>>

NoStart ==
    /\ Failing
    /\ Synth("begin", "main")
    /\ UNCHANGED <<control, msg, status, seqQuit, leave, quitState>>

\* w32g_syn_doit takes a message ...
Hear ==
    /\ Synth("get", "heard")
    /\ Get
    /\ UNCHANGED <<status, seqQuit, leave, quitState>>

\* ... heeds it ...
Heed ==
    /\ Synth("heard", "play")
    /\ IF msg \in {"none", "reset"} THEN UNCHANGED <<status, seqQuit>>
       ELSE status' = msg /\ seqQuit' = TRUE
    /\ UNCHANGED <<control, msg, leave, quitState>>

\* ... and plays, winplaymidi.
Play ==
    /\ Synth("play", IF seqQuit THEN "close" ELSE "get")
    /\ UNCHANGED <<control, msg, status, seqQuit, leave, quitState>>

\* rtsyn_synth_stop and rtsyn_close.
Close ==
    /\ Synth("close", "main")
    /\ UNCHANGED <<control, msg, status, seqQuit, leave, quitState>>

\* The end: the window thread is told until it has heard.
Tell ==
    /\ quitState < 1 /\ ~leave
    /\ Synth("bye", "bye")
    /\ leave' = TRUE
    /\ UNCHANGED <<control, msg, status, seqQuit, quitState>>

Done ==
    /\ quitState >= 1
    /\ Synth("bye", "done")
    /\ quitState' = 2
    /\ UNCHANGED <<control, msg, status, seqQuit, leave>>

SynthStep ==
    Run \/ Rest \/ Wake \/ Bye \/ Begin \/ Hear \/ Heed \/ Play \/ Close \/ Tell \/ Done

-----------------------------------------------------------------------------
(* The window thread.                                                        *)

Window(from, to) ==
    window = from /\ window' = to /\ UNCHANGED <<status, seqQuit, msg, synth>>

\* The menu.
User(cmd) ==
    /\ Window("idle", "idle")
    /\ Set(cmd)
    /\ posted' = IF cmd = "reset" THEN posted ELSE cmd
    /\ UNCHANGED <<held, prev, leave, quitState>>

\* PrefSettingApply.
Prefs ==
    /\ Window("idle", "ask")
    /\ prev' = "none"
    /\ UNCHANGED <<control, held, leave, quitState>>

\* w32g_syn_do_before_pref_apply: after a QUIT nothing is waited for ...
Ask ==
    /\ Window("ask", IF status = "quit" THEN "apply" ELSE "lock")
    /\ UNCHANGED <<control, held, prev, leave, quitState>>

\* ... else, with the mutex, it first notes what the synthesizer did ...
Lock ==
    /\ Window("lock", "test")
    /\ held' = TRUE
    /\ prev' = IF prev = "none" THEN status ELSE prev
    /\ UNCHANGED <<control, leave, quitState>>

\* Mutant: the mutex is let go although the synthesizer has stopped.
TestFree ==
    /\ Window("test", IF status = "stop" THEN "apply" ELSE "post")
    /\ held' = FALSE
    /\ UNCHANGED <<control, prev, leave, quitState>>

\* ... then looks whether it has stopped, and keeps the mutex if so ...
Test ==
    /\ Window("test", IF status = "stop" THEN "apply" ELSE "post")
    /\ held' = (status = "stop")
    /\ UNCHANGED <<control, prev, leave, quitState>>

\* ... and tells it to if not.
Post ==
    /\ Window("post", "ask")
    /\ Set("stop") /\ posted' = "apply"
    /\ UNCHANGED <<held, prev, leave, quitState>>

\* w32g_syn_do_after_pref_apply: the mutex is released, and a synthesizer that
\* ran is told to start; w32g_syn_do_after_pref_save_restart: it is told to end.
Applied ==
    /\ \E to \in {IF held /\ prev = "run" THEN "again" ELSE "idle", "restart"} :
            Window("apply", to)
    /\ held' = FALSE
    /\ UNCHANGED <<control, prev, leave, quitState>>

Restart ==
    /\ Window("restart", "idle")
    /\ Set("quit") /\ posted' = "quit"
    /\ UNCHANGED <<held, prev, leave, quitState>>

Again ==
    /\ Window("again", "idle")
    /\ Set("run") /\ posted' = "run"
    /\ UNCHANGED <<held, prev, leave, quitState>>

\* MYWM_QUIT, and WM_DESTROY with terminate_syn_thread.
Destroy ==
    /\ leave
    /\ Window("idle", "destroy")
    /\ leave' = FALSE
    /\ quitState' = IF quitState < 1 THEN 1 ELSE quitState
    /\ Set("quit") /\ posted' = "quit"
    /\ UNCHANGED <<held, prev>>

\* The thread has ended, or the window thread waited for 16 s.
Left ==
    /\ Window("destroy", "left")
    /\ UNCHANGED <<control, held, prev, leave, quitState>>

End ==
    /\ quitState >= 2
    /\ Window("left", "ended")
    /\ UNCHANGED <<control, held, prev, leave, quitState>>

WindowStep ==
    \/ Ask \/ Lock \/ Test \/ Post \/ Applied \/ Restart \/ Again
    \/ Destroy \/ Left \/ End

Next ==
    \/ SynthStep \/ NoDevice \/ NoStart
    \/ WindowStep \/ Prefs
    \/ \E cmd \in Commands : User(cmd)

\* Both threads run, one that waits for the mutex gets it, and the window thread
\* handles every message; what the user does, and whether a port opens, is left
\* open.
Fairness ==
    /\ WF_vars(SynthStep \/ NoStart) /\ SF_vars(Rest) /\ SF_vars(Hear)
    /\ WF_vars(WindowStep) /\ SF_vars(Destroy)

Spec == Init /\ [][Next]_vars /\ Fairness

-----------------------------------------------------------------------------
\* While the preferences are applied, unless the program ends, the synthesizer plays
\* at most the pass in which it saw STOP.  It may still close the ports; a START that it
\* took before the window thread had the mutex makes it run and open them, but no pass
\* is played, for the next message cannot be taken (w32g_message_get).
AppliesUnheard ==
    window = "apply" /\ status # "quit" => synth # "play" \/ seqQuit

\* The window thread never waits for ever for the synthesizer to stop.
PrefsEnd == (window \in {"ask", "lock", "test", "post"}) ~> (window = "apply")

\* A STOP that is sent is obeyed, unless another command follows.
StopHeard == (posted = "stop") ~> (posted # "stop" \/ status \in {"stop", "quit"})

\* The last of the commands that come first is obeyed: QUIT and START too.
Obeys ==
    /\ StopHeard
    /\ (posted = "quit") ~> (posted # "quit" \/ status = "quit")
    /\ (first >= 0 /\ buf[first] = "run") ~>
            (posted # "run" \/ synth \in {"begin", "bye", "done"})

\* A synthesizer that ran before the preferences were applied runs again, unless
\* it is told otherwise.
Resumes ==
    (window = "apply" /\ held /\ prev = "run") ~>
        (synth = "begin" \/ posted \in {"stop", "quit"} \/ status = "quit")

\* Once the synthesizer has ended, so does the program.
Ends == (status = "quit") ~> (window = "ended")
=============================================================================
