------------------------------- MODULE MCWaits -------------------------------
(* What threads hand to each other, on small instances: the driver's thread   *)
(* and the main loop the messages of MidiInput, the window thread and the     *)
(* synthesizer thread commands, the main thread and the workers the jobs of a *)
(* block.  part is chosen once and says which of them runs.                   *)
EXTENDS MidiInput, Integers

CONSTANTS Max, Refused, Failing     \* of SynthControl

VARIABLES part, buf, first, end, held, status, prev, seqQuit, msg, synth, window,
          leave, quitState, posted, mainAt, jobNum, jobCnt, subNum, subCnt,
          subFlg, event, finish, threadExit, workerAt, stack, ran, subRan

ctrl == <<buf, first, end, held, status, prev, seqQuit, msg, synth, window, leave,
          quitState, posted>>
pool == <<mainAt, jobNum, jobCnt, subNum, subCnt, subFlg, event, finish,
          threadExit, workerAt, stack, ran, subRan>>
allVars == <<part, vars, ctrl, pool>>

Control == INSTANCE SynthControl

\* A worker, and two effects of three jobs that start two sub-jobs each.
Pool == INSTANCE ComputeThread WITH
    Workers <- {"w"}, Jobs <- 3, SubJobs <- [s \in {0, 1} |-> 2],
    SlotOf <- [j \in 0..2 |-> j]

InputAsleep ==
    /\ port = "closed" /\ evbuf = <<>> /\ evbwpoint = 0 /\ evbrpoint = 0
    /\ driver = {} /\ looked = FALSE /\ hand = None

ControlAsleep ==
    /\ buf = <<>> /\ first = -1 /\ end = -1
    /\ held = FALSE /\ status = "" /\ prev = "" /\ seqQuit = FALSE /\ msg = ""
    /\ synth = "" /\ window = "" /\ leave = FALSE /\ quitState = 0 /\ posted = ""

PoolAsleep ==
    /\ mainAt = "idle" /\ jobNum = 0 /\ jobCnt = 0
    /\ subNum = <<>> /\ subCnt = <<>> /\ subFlg = <<>>
    /\ event = <<>> /\ finish = <<>> /\ threadExit = FALSE /\ workerAt = <<>>
    /\ stack = [t \in Pool!Threads |-> <<>>] /\ ran = <<>> /\ subRan = <<>>

MCInit ==
    \/ part = "input" /\ Init /\ ControlAsleep /\ PoolAsleep
    \/ part = "control" /\ Control!Init /\ InputAsleep /\ PoolAsleep
    \/ part = "pool" /\ Pool!Init /\ InputAsleep /\ ControlAsleep

In(name) == part = name /\ UNCHANGED part

InInput == In("input") /\ UNCHANGED <<ctrl, pool>>
InControl == In("control") /\ UNCHANGED <<vars, pool>>
InPool == In("pool") /\ UNCHANGED <<vars, ctrl>>

\* The program has ended.
Over == In("control") /\ window = "ended" /\ synth = "done" /\ UNCHANGED allVars

MCNext ==
    \/ InInput /\ Next
    \/ (InControl /\ Control!Next) \/ Over
    \/ InPool /\ Pool!Next

\* The fairness of SynthControl and of ComputeThread; MidiInput has none.
MCSpec ==
    /\ MCInit /\ [][MCNext]_allVars
    /\ WF_allVars(InControl /\ (Control!SynthStep \/ Control!NoStart))
    /\ WF_allVars(InControl /\ Control!WindowStep)
    /\ SF_allVars(InControl /\ Control!Rest)
    /\ SF_allVars(InControl /\ Control!Hear)
    /\ SF_allVars(InControl /\ Control!Destroy)
    /\ WF_allVars(InPool /\ Pool!MainStep)
    /\ \A t \in Pool!Threads : WF_allVars(InPool /\ Pool!Work(t))
    /\ WF_allVars(InPool /\ Pool!WorkerStep("w"))

-----------------------------------------------------------------------------
(* The properties of the parts, each said and explained in its own module.    *)
(* IsQueue, OneHolder and LostByOverflow are those of MidiInput; they hold of *)
(* an input that sleeps too, as CallsKept does of a pool that sleeps.         *)

\* While the preferences are applied the synthesizer plays at most the pass in which it
\* saw STOP, whatever it took from the messages before (w32g_syn_do_before_pref_apply,
\* w32g_message_get); the commands and the states of the two threads are of their types.
AppliesUnheard == part = "control" => Control!AppliesUnheard /\ Control!TypeCorrect

\* The last of QUIT, START and STOP is obeyed (w32g_message_set), and once the
\* synthesizer has ended, so does the program (MYWM_QUIT, quit_state).  The window
\* thread never waits for ever for the synthesizer to stop, and a synthesizer that
\* ran before the preferences were applied runs again
\* (w32g_syn_do_before_pref_apply, w32g_syn_do_after_pref_apply).
Obeys ==
    part = "control" =>
        Control!Obeys /\ Control!Ends /\ Control!PrefsEnd /\ Control!Resumes

\* The promises of the pool to its callers when two effects start sub-jobs in
\* the same block: both barriers hold, and every call of the main thread returns
\* (go_compute_thread, go_compute_thread_sub0, go_compute_thread_sub1).
CallsKept == []Pool!SubIsBarrier /\ Pool!GoIsBarrier /\ Pool!CallReturns
=============================================================================
