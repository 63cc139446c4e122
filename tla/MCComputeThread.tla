--------------------------- MODULE MCComputeThread ---------------------------
(* ComputeThread on small pools, with the type of its state.               *)
EXTENDS ComputeThread, TLC

CONSTANTS CounterLimit      \* a number no counter of a block can reach

MCSubJobs == [s \in Slots |-> 2]
OneEffect == [j \in JobIds |-> IF j = 0 THEN 0 ELSE NoSlot]

AnyWorker == Permutations(Workers)

Frames == [at : {"take", "job", "finish", "sub", "stake", "stest", "srun", "exit",
                 "check", "flags", "zero", "arm", "swait"},
           job : 0..CounterLimit, slot : Slots, nums : [Slots -> 0..CounterLimit]]

\* Every counter stays small: a thread that finds nothing to do leaves
\* compute_thread_core and does not keep counting.  A call that started
\* sub-jobs is never on top while they are still to be computed.
TypeOK ==
    /\ mainAt \in {"idle", "signal", "core", "term"}
    /\ jobNum \in {0, Jobs} /\ jobCnt \in 0..CounterLimit
    /\ subNum \in [Slots -> 0..16] /\ subCnt \in [Slots -> 0..CounterLimit]
    /\ subFlg \in [Slots -> SUBSET SubIds]
    /\ event \in [Workers -> BOOLEAN] /\ finish \in [Workers -> BOOLEAN]
    /\ threadExit \in BOOLEAN
    /\ workerAt \in [Workers -> {"wait", "core", "reset", "gone"}]
    /\ DOMAIN stack = Threads
    /\ \A t \in Threads : \A i \in DOMAIN stack[t] : stack[t][i] \in Frames
    /\ DOMAIN ran = JobIds /\ DOMAIN subRan = Slots
=============================================================================
