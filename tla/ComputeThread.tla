--------------------------- MODULE ComputeThread ---------------------------
(***************************************************************************)
(* timidity/thread.c, the Win32 job pool (MULTI_THREAD_COMPUTE2), with the  *)
(* two sub-job slots thread_effect.c hands to reverb effects.              *)
(*                                                                         *)
(* The main thread is thread 0; it calls go_compute_thread and takes part  *)
(* in the work.  Every thread runs compute_thread_core; a job may start    *)
(* the sub-jobs of one slot (go_compute_thread_sub0/1), which runs          *)
(* compute_thread_core again on top of it, so a thread has a stack of      *)
(* calls.  A step touches the shared variables once, except inside the     *)
(* critical section.                                                       *)
(***************************************************************************)
EXTENDS Integers, Sequences, FiniteSets

CONSTANTS
    Workers,        \* the threads of begin_compute_thread
    Jobs,           \* jobs of one go_compute_thread: 0..Jobs-1
    SubJobs,        \* SubJobs[s]: num of go_compute_thread_sub0/1
    SlotOf          \* SlotOf[j]: the slot job j starts, or NoSlot

Main == "main"
Slots == {0, 1}
NoSlot == 2
JobIds == 0..(Jobs - 1)
SubIds == 0..15                     \* MTC2_JOB_MAX

\* effect.c starts the sub-jobs of an effect from the one job that computes
\* that effect, and set_effect_sub_thread gives a slot to one effect.
ASSUME PoolAssumption ==
    /\ Main \notin Workers /\ IsFiniteSet(Workers)
    /\ Jobs \in Nat \ {0}
    /\ SubJobs \in [Slots -> 1..16]
    /\ SlotOf \in [JobIds -> Slots \cup {NoSlot}]
    /\ \A i, j \in JobIds : SlotOf[i] = SlotOf[j] /\ SlotOf[i] # NoSlot => i = j

Threads == Workers \cup {Main}

VARIABLES
    mainAt,         \* where the main thread is in go_compute_thread
    jobNum,         \* compute_thread_job
    jobCnt,         \* compute_thread_job_cnt
    subNum,         \* mtcs_job_num0, mtcs_job_num1
    subCnt,         \* mtcs_job_cnt0, mtcs_job_cnt1
    subFlg,         \* mtcs_job_flg0, mtcs_job_flg1: the raised flags
    event,          \* hEventTcv: signalled
    finish,         \* thread_finish
    threadExit,     \* thread_exit
    workerAt,       \* "wait", "core", "reset" or "gone"
    stack,          \* per thread: the active calls, innermost last
    ran,            \* how often each job ran in this go_compute_thread
    subRan          \* how often each sub-job ran

sharedVars == <<jobNum, jobCnt, subNum, subCnt, subFlg>>
poolVars == <<event, finish, threadExit, workerAt>>
ghostVars == <<ran, subRan>>
vars == <<mainAt, sharedVars, poolVars, stack, ghostVars>>

\* One call of compute_thread_core: where it is and its locals.
CoreFrame == [at |-> "take", job |-> 0, slot |-> 0, nums |-> [s \in Slots |-> 0]]
\* One call of go_compute_thread_sub0 or _sub1.
CallFrame(s) == [at |-> "check", job |-> 0, slot |-> s, nums |-> [r \in Slots |-> 0]]

Top(t) == stack[t][Len(stack[t])]
At(t, label) == stack[t] # <<>> /\ Top(t).at = label
Below(t) == SubSeq(stack[t], 1, Len(stack[t]) - 1)

SetTop(t, frame) == stack' = [stack EXCEPT ![t] = Append(Below(t), frame)]
Goto(t, label) == SetTop(t, [Top(t) EXCEPT !.at = label])
Push(t, frame, label) ==
    stack' = [stack EXCEPT ![t] =
                 Below(t) \o <<[Top(t) EXCEPT !.at = label], frame>>]
Pop(t) == stack' = [stack EXCEPT ![t] = Below(t)]

Init ==
    /\ mainAt = "idle" /\ jobNum = 0 /\ jobCnt = 0
    /\ subNum = [s \in Slots |-> 0] /\ subCnt = [s \in Slots |-> 0]
    /\ subFlg = [s \in Slots |-> {}]
    /\ event = [w \in Workers |-> FALSE] /\ finish = [w \in Workers |-> FALSE]
    /\ threadExit = FALSE
    /\ workerAt = [w \in Workers |-> "wait"]
    /\ stack = [t \in Threads |-> <<>>]
    /\ ran = [j \in JobIds |-> 0]
    /\ subRan = [s \in Slots |-> [i \in SubIds |-> 0]]

-----------------------------------------------------------------------------
(* go_compute_thread.                                                      *)

\* Everything up to the first SetEvent: the workers are all asleep.
Go ==
    /\ mainAt = "idle"
    /\ \A w \in Workers : workerAt[w] # "gone"
    /\ jobNum' = Jobs /\ jobCnt' = 0
    /\ subNum' = [s \in Slots |-> 0] /\ subCnt' = [s \in Slots |-> 0]
    /\ subFlg' = [s \in Slots |-> {}]
    /\ finish' = [w \in Workers |-> FALSE]
    /\ ran' = [j \in JobIds |-> 0]
    /\ subRan' = [s \in Slots |-> [i \in SubIds |-> 0]]
    /\ mainAt' = "signal"
    /\ UNCHANGED <<event, threadExit, workerAt, stack>>

\* SetEvent for one worker after the other.
Signal(w) ==
    /\ mainAt = "signal"
    /\ workerAt[w] = "wait" /\ ~event[w] /\ ~finish[w]
    /\ event' = [event EXCEPT ![w] = TRUE]
    /\ UNCHANGED <<mainAt, sharedVars, finish, threadExit, workerAt, stack, ghostVars>>

\* The main thread joins in once every worker has been signalled.
GoCore ==
    /\ mainAt = "signal"
    /\ \A w \in Workers : event[w] \/ workerAt[w] # "wait" \/ finish[w]
    /\ mainAt' = "core"
    /\ stack' = [stack EXCEPT ![Main] = <<CoreFrame>>]
    /\ UNCHANGED <<sharedVars, poolVars, ghostVars>>

\* Mutant: go_compute_thread returns without compute_thread_wait.
GoNoWait ==
    /\ mainAt = "core" /\ stack[Main] = <<>>
    /\ mainAt' = "idle"
    /\ UNCHANGED <<sharedVars, poolVars, stack, ghostVars>>

\* compute_thread_wait.
GoWait ==
    /\ mainAt = "core" /\ stack[Main] = <<>>
    /\ \A w \in Workers : finish[w]
    /\ mainAt' = "idle"
    /\ UNCHANGED <<sharedVars, poolVars, stack, ghostVars>>

\* THREAD_WAIT_MAIN: one more look at thread_finish.
SpinWait ==
    /\ mainAt = "core" /\ stack[Main] = <<>>
    /\ \E w \in Workers : ~finish[w]
    /\ UNCHANGED vars

-----------------------------------------------------------------------------
(* ComputeThread, a worker.                                                *)

\* WaitForSingleObject returns; an event of CreateEvent(NULL, FALSE, ...)
\* resets itself.
Wake(w) ==
    /\ workerAt[w] = "wait" /\ event[w]
    /\ event' = [event EXCEPT ![w] = FALSE]
    /\ IF threadExit
       THEN /\ workerAt' = [workerAt EXCEPT ![w] = "gone"]
            /\ UNCHANGED stack
       ELSE /\ workerAt' = [workerAt EXCEPT ![w] = "core"]
            /\ stack' = [stack EXCEPT ![w] = <<CoreFrame>>]
    /\ UNCHANGED <<mainAt, sharedVars, finish, threadExit, ghostVars>>

ResetEvent(w) ==
    /\ workerAt[w] = "core" /\ stack[w] = <<>>
    /\ event' = [event EXCEPT ![w] = FALSE]
    /\ workerAt' = [workerAt EXCEPT ![w] = "reset"]
    /\ UNCHANGED <<mainAt, sharedVars, finish, threadExit, stack, ghostVars>>

Finish(w) ==
    /\ workerAt[w] = "reset"
    /\ finish' = [finish EXCEPT ![w] = TRUE]
    /\ workerAt' = [workerAt EXCEPT ![w] = "wait"]
    /\ UNCHANGED <<mainAt, sharedVars, event, threadExit, stack, ghostVars>>

\* Mutant: thread_finish is set first and the event reset afterwards.
FinishThenReset(w) ==
    \/ Wake(w)
    \/ /\ workerAt[w] = "core" /\ stack[w] = <<>>
       /\ finish' = [finish EXCEPT ![w] = TRUE]
       /\ workerAt' = [workerAt EXCEPT ![w] = "reset"]
       /\ UNCHANGED <<mainAt, sharedVars, event, threadExit, stack, ghostVars>>
    \/ /\ workerAt[w] = "reset"
       /\ event' = [event EXCEPT ![w] = FALSE]
       /\ workerAt' = [workerAt EXCEPT ![w] = "wait"]
       /\ UNCHANGED <<mainAt, sharedVars, finish, threadExit, stack, ghostVars>>

\* The loop of ComputeThread.
WorkerStep(w) == Wake(w) \/ ResetEvent(w) \/ Finish(w)

-----------------------------------------------------------------------------
(* compute_thread_core.                                                    *)

\* job_num = compute_thread_job_cnt++ in the critical section; the loop's
\* job_nums0 and job_nums1 start at 0.
TakeJob(t) ==
    /\ At(t, "take")
    /\ jobCnt' = jobCnt + 1
    /\ SetTop(t, [CoreFrame EXCEPT !.job = jobCnt,
                      !.at = IF jobCnt < jobNum THEN "job" ELSE "sub"])
    /\ UNCHANGED <<mainAt, jobNum, subNum, subCnt, subFlg, poolVars, ghostVars>>

\* A job that starts sub-jobs calls go_compute_thread_sub on the way.
StartSub(t) ==
    /\ At(t, "job") /\ SlotOf[Top(t).job] # NoSlot
    /\ Push(t, CallFrame(SlotOf[Top(t).job]), "finish")
    /\ UNCHANGED <<mainAt, sharedVars, poolVars, ghostVars>>

\* do_compute_func returns.
FinishJob(t) ==
    /\ \/ At(t, "finish")
       \/ At(t, "job") /\ SlotOf[Top(t).job] = NoSlot
    /\ ran' = [ran EXCEPT ![Top(t).job] = @ + 1]
    /\ Goto(t, "sub")
    /\ UNCHANGED <<mainAt, sharedVars, poolVars, subRan>>

\* if(mtcs_job_num0), and then the same for slot 1.
TestSlot(t) ==
    /\ At(t, "sub")
    /\ LET s == Top(t).slot
       IN  IF subNum[s] # 0 THEN Goto(t, "stake")
           ELSE IF s = 0 THEN SetTop(t, [Top(t) EXCEPT !.slot = 1])
           ELSE Goto(t, "exit")
    /\ UNCHANGED <<mainAt, sharedVars, poolVars, ghostVars>>

\* job_nums0 = mtcs_job_cnt0++ in the critical section.
TakeSub(t) ==
    /\ At(t, "stake")
    /\ LET s == Top(t).slot
       IN  /\ subCnt' = [subCnt EXCEPT ![s] = @ + 1]
           /\ SetTop(t, [Top(t) EXCEPT !.nums[s] = subCnt[s], !.at = "stest"])
    /\ UNCHANGED <<mainAt, jobNum, jobCnt, subNum, subFlg, poolVars, ghostVars>>

\* if(job_nums0 >= mtcs_job_num0) break;
TestSub(t) ==
    /\ At(t, "stest")
    /\ LET s == Top(t).slot
       IN  IF Top(t).nums[s] < subNum[s] THEN Goto(t, "srun")
           ELSE IF s = 0 THEN SetTop(t, [Top(t) EXCEPT !.slot = 1, !.at = "sub"])
           ELSE Goto(t, "exit")
    /\ UNCHANGED <<mainAt, sharedVars, poolVars, ghostVars>>

\* mtcs_func0 returns, mtcs_job_flg0[job_nums0] = 0.
FinishSub(t) ==
    /\ At(t, "srun")
    /\ LET s == Top(t).slot
           i == Top(t).nums[s]
       IN  /\ subRan' = [subRan EXCEPT ![s][i] = @ + 1]
           /\ subFlg' = [subFlg EXCEPT ![s] = @ \ {i}]
    /\ Goto(t, "stake")
    /\ UNCHANGED <<mainAt, jobNum, jobCnt, subNum, subCnt, poolVars, ran>>

\* The test at the end of the loop: leave, or look for more work.
LeaveCore(t) ==
    /\ At(t, "exit")
    /\ IF /\ Top(t).job >= jobNum
          /\ \A s \in Slots : Top(t).nums[s] >= subNum[s]
       THEN Pop(t)
       ELSE Goto(t, "take")
    /\ UNCHANGED <<mainAt, sharedVars, poolVars, ghostVars>>

-----------------------------------------------------------------------------
(* go_compute_thread_sub0 and go_compute_thread_sub1.                      *)

CheckCall(t) ==
    /\ At(t, "check")
    /\ IF jobNum = 0 \/ subNum[Top(t).slot] # 0 THEN Pop(t) ELSE Goto(t, "flags")
    /\ UNCHANGED <<mainAt, sharedVars, poolVars, ghostVars>>

\* Mutant: the flags of all but the last sub-job are raised.
RaiseFewer(t) ==
    /\ At(t, "flags")
    /\ LET s == Top(t).slot
       IN  subFlg' = [subFlg EXCEPT ![s] = @ \cup 0..(SubJobs[s] - 2)]
    /\ Goto(t, "zero")
    /\ UNCHANGED <<mainAt, jobNum, jobCnt, subNum, subCnt, poolVars, ghostVars>>

RaiseFlags(t) ==
    /\ At(t, "flags")
    /\ LET s == Top(t).slot
       IN  subFlg' = [subFlg EXCEPT ![s] = @ \cup 0..(SubJobs[s] - 1)]
    /\ Goto(t, "zero")
    /\ UNCHANGED <<mainAt, jobNum, jobCnt, subNum, subCnt, poolVars, ghostVars>>

ZeroCount(t) ==
    /\ At(t, "zero")
    /\ subCnt' = [subCnt EXCEPT ![Top(t).slot] = 0]
    /\ Goto(t, "arm")
    /\ UNCHANGED <<mainAt, jobNum, jobCnt, subNum, subFlg, poolVars, ghostVars>>

\* The start flag, then compute_thread_core(0) on top of this call.
Arm(t) ==
    /\ At(t, "arm")
    /\ LET s == Top(t).slot
       IN  subNum' = [subNum EXCEPT ![s] = SubJobs[s]]
    /\ Push(t, CoreFrame, "swait")
    /\ UNCHANGED <<mainAt, jobNum, jobCnt, subCnt, subFlg, poolVars, ghostVars>>

\* Mutant: the slot is closed as soon as the counter is exhausted, without
\* waiting for the flags.
DisarmEarly(t) ==
    /\ At(t, "swait")
    /\ subNum' = [subNum EXCEPT ![Top(t).slot] = 0]
    /\ Pop(t)
    /\ UNCHANGED <<mainAt, jobNum, jobCnt, subCnt, subFlg, poolVars, ghostVars>>

\* compute_thread_sub_wait spins until every flag is down; the end flag.
Disarm(t) ==
    /\ At(t, "swait")
    /\ subFlg[Top(t).slot] = {}
    /\ subNum' = [subNum EXCEPT ![Top(t).slot] = 0]
    /\ Pop(t)
    /\ UNCHANGED <<mainAt, jobNum, jobCnt, subCnt, subFlg, poolVars, ghostVars>>

-----------------------------------------------------------------------------
(* terminate_compute_thread and begin_compute_thread, between two blocks.  *)

Terminate ==
    /\ mainAt = "idle" /\ \A w \in Workers : workerAt[w] = "wait"
    /\ threadExit' = TRUE
    /\ jobNum' = 0
    /\ subNum' = [s \in Slots |-> 0] /\ subFlg' = [s \in Slots |-> {}]
    /\ mainAt' = "term"
    /\ UNCHANGED <<jobCnt, subCnt, event, finish, workerAt, stack, ghostVars>>

\* SetEvent and WaitForSingleObject(hComputeThread[i], ...), one by one.
SignalExit(w) ==
    /\ mainAt = "term" /\ workerAt[w] = "wait"
    /\ \A v \in Workers : ~event[v]
    /\ event' = [event EXCEPT ![w] = TRUE]
    /\ UNCHANGED <<mainAt, sharedVars, finish, threadExit, workerAt, stack, ghostVars>>

Terminated ==
    /\ mainAt = "term" /\ \A w \in Workers : workerAt[w] = "gone"
    /\ threadExit' = FALSE
    /\ finish' = [w \in Workers |-> FALSE]
    /\ event' = [w \in Workers |-> FALSE]
    /\ mainAt' = "idle"
    /\ UNCHANGED <<sharedVars, workerAt, stack, ghostVars>>

Begin ==
    /\ mainAt = "idle" /\ \A w \in Workers : workerAt[w] = "gone"
    /\ workerAt' = [w \in Workers |-> "wait"]
    /\ UNCHANGED <<mainAt, sharedVars, event, finish, threadExit, stack, ghostVars>>

-----------------------------------------------------------------------------
Work(t) ==
    \/ TakeJob(t) \/ StartSub(t) \/ FinishJob(t)
    \/ TestSlot(t) \/ TakeSub(t) \/ TestSub(t) \/ FinishSub(t) \/ LeaveCore(t)
    \/ CheckCall(t) \/ RaiseFlags(t) \/ ZeroCount(t) \/ Arm(t) \/ Disarm(t)

MainStep ==
    \/ GoCore \/ GoWait \/ Terminated
    \/ \E w \in Workers : Signal(w) \/ SignalExit(w)

Next ==
    \/ Go \/ Terminate \/ Begin \/ MainStep \/ SpinWait
    \/ \E t \in Threads : Work(t)
    \/ \E w \in Workers : WorkerStep(w)

Spec == Init /\ [][Next]_vars

\* The system schedules every thread; when the next block starts is the
\* player's choice.
FairSpec ==
    /\ Spec
    /\ WF_vars(MainStep)
    /\ \A t \in Threads : WF_vars(Work(t))
    /\ \A w \in Workers : WF_vars(WorkerStep(w))
-----------------------------------------------------------------------------
(* Properties.                                                             *)

WorkersOf(s) == 0..(SubJobs[s] - 1)
Started == {SlotOf[j] : j \in JobIds} \ {NoSlot}

\* go_compute_thread is a barrier: when it returns, every job of the block and
\* every sub-job of every slot a job started has been computed exactly once
\* (a late worker would meet the restarted compute_thread_job_cnt and take one
\* again),
\* no worker is inside compute_thread_core, and no slot is left open.
Barrier ==
    mainAt = "core" /\ mainAt' = "idle" =>
        /\ \A j \in JobIds : ran[j] = 1
        /\ \A s \in Started : \A i \in WorkersOf(s) : subRan[s][i] = 1
        /\ \A w \in Workers : stack[w] = <<>>
        /\ \A s \in Slots : subNum[s] = 0 /\ subFlg[s] = {}

GoIsBarrier == [][Barrier]_vars

\* go_compute_thread_sub0/1 is a barrier of its slot: the effect that started
\* the sub-jobs goes on only when all of them have been computed, whoever
\* took them.
SubIsBarrier ==
    \A t \in Threads :
        At(t, "finish") =>
            \A i \in WorkersOf(SlotOf[Top(t).job]) :
                subRan[SlotOf[Top(t).job]][i] = 1

\* A thread computes a sub-job only while the slot is open: mtcs_func0/1 is
\* still the initiator's function and its buffers are still in use.
NoOrphanSubJob ==
    \A t \in Threads : At(t, "srun") =>
        /\ subNum[Top(t).slot] # 0
        /\ Top(t).nums[Top(t).slot] \in subFlg[Top(t).slot]

\* A block that was started is finished, and a pool that is being taken down
\* comes down: no wake-up is lost between ResetEvent, thread_finish and the
\* next SetEvent, and nobody spins for a flag that nobody will clear.
CallReturns == (mainAt # "idle") ~> (mainAt = "idle")
=============================================================================
