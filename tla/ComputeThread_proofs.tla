------------------------- MODULE ComputeThread_proofs -------------------------
(***************************************************************************)
(* The barriers of the compute threads, for every number of workers and     *)
(* jobs and whichever jobs start sub-jobs.                                  *)
(***************************************************************************)
EXTENDS ComputeThread, SequenceTheorems, TLAPS

\* Calls of compute_thread_core, and of go_compute_thread_sub0/1.
CoreLabels == {"take", "job", "finish", "sub", "stake", "stest", "srun", "exit"}
CallLabels == {"check", "flags", "zero", "arm", "swait"}

Frame == [at : CoreLabels \cup CallLabels, job : Nat, slot : Slots,
          nums : [Slots -> Nat]]

\* The statics of one slot, and what has been computed of it.
SlotState == [num : Nat, cnt : Nat, flags : SUBSET SubIds, ran : [SubIds -> Nat]]
SlotStates == [s \in Slots |-> [num |-> subNum[s], cnt |-> subCnt[s],
                                flags |-> subFlg[s], ran |-> subRan[s]]]

PoolTyped ==
    /\ mainAt \in {"idle", "signal", "core", "term"}
    /\ jobNum \in Nat /\ jobCnt \in Nat
    /\ subNum \in [Slots -> Nat] /\ subCnt \in [Slots -> Nat]
    /\ subFlg \in [Slots -> SUBSET SubIds]
    /\ event \in [Workers -> BOOLEAN] /\ finish \in [Workers -> BOOLEAN]
    /\ threadExit \in BOOLEAN
    /\ workerAt \in [Workers -> {"wait", "core", "reset", "gone"}]
    /\ stack \in [Threads -> Seq(Frame)]
    /\ ran \in [JobIds -> Nat] /\ subRan \in [Slots -> [SubIds -> Nat]]

-----------------------------------------------------------------------------
(* The four stages of a slot in a block; each follows the one before.       *)

Fresh(d) == d.num = 0 /\ d.flags = {} /\ \A k \in SubIds : d.ran[k] = 0

Raised(s, d) ==
    d.num = 0 /\ d.flags = WorkersOf(s) /\ \A k \in SubIds : d.ran[k] = 0

\* A sub-job whose flag is down has been taken and computed.
Open(s, d) ==
    /\ d.num = SubJobs[s] /\ d.flags \subseteq WorkersOf(s)
    /\ \A k \in WorkersOf(s) : k \in d.flags => d.ran[k] = 0
    /\ \A k \in WorkersOf(s) : k \notin d.flags => d.ran[k] = 1 /\ k < d.cnt

Closed(s, d) ==
    d.num = 0 /\ d.flags = {} /\ \A k \in WorkersOf(s) : d.ran[k] = 1

\* What a call relies on where it stands, given the slots D and the counter cnt.
Sound(f, D, cnt) ==
    /\ f.at \in CoreLabels \ {"take"} => f.job < cnt
    /\ f.at \in {"job", "finish"} => f.job \in JobIds
    /\ f.at = "job" /\ SlotOf[f.job] # NoSlot => Fresh(D[SlotOf[f.job]])
    /\ f.at = "finish" => SlotOf[f.job] # NoSlot
    /\ f.at \in {"check", "flags"} => Fresh(D[f.slot])
    /\ f.at \in {"zero", "arm"} => Raised(f.slot, D[f.slot])
    /\ f.at = "arm" => D[f.slot].cnt = 0
    /\ f.at = "swait" => Open(f.slot, D[f.slot])
    /\ f.at \in {"stake", "stest", "srun"} =>
          Open(f.slot, D[f.slot]) \/ Closed(f.slot, D[f.slot])
    /\ f.at \in {"stest", "srun"} => f.nums[f.slot] < D[f.slot].cnt
    /\ f.at = "stest" /\ Open(f.slot, D[f.slot]) /\ f.nums[f.slot] < SubJobs[f.slot] =>
          f.nums[f.slot] \in D[f.slot].flags
    /\ f.at = "srun" =>
          Open(f.slot, D[f.slot]) /\ f.nums[f.slot] \in D[f.slot].flags

\* compute_thread_core at the bottom; a call of go_compute_thread_sub0/1 above the
\* job that made it, for that job's slot; compute_thread_core above such a call.
Nested(q) ==
    /\ q # <<>> => q[1].at \in CoreLabels
    /\ \A i \in 1..(Len(q) - 1) :
          \/ /\ q[i].at = "finish" /\ q[i + 1].at \in CallLabels
             /\ q[i + 1].slot = SlotOf[q[i].job]
          \/ q[i].at = "swait" /\ q[i + 1].at \in CoreLabels

Holds(f, j) == f.at \in {"job", "finish"} /\ f.job = j
Takes(f, s, k) == f.at \in {"stest", "srun"} /\ f.slot = s /\ f.nums[s] = k

-----------------------------------------------------------------------------
(* The invariant.                                                           *)

InBlock == mainAt \in {"signal", "core"}

\* The workers and the event each sleeps on.
Asleep ==
    /\ threadExit <=> mainAt = "term"
    /\ ~InBlock => \A t \in Threads : stack[t] = <<>>
    /\ mainAt = "signal" => stack[Main] = <<>>
    /\ \A w \in Workers :
          /\ stack[w] # <<>> => workerAt[w] = "core"
          /\ workerAt[w] \in {"core", "reset"} => InBlock /\ ~finish[w] /\ ~event[w]
          /\ event[w] => workerAt[w] = "wait" /\ mainAt # "idle"
          /\ InBlock => workerAt[w] # "gone" /\ ~(event[w] /\ finish[w])

\* Every call is where it may be.
StacksSound ==
    \A t \in Threads :
        /\ Nested(stack[t])
        /\ \A i \in 1..Len(stack[t]) : Sound(stack[t][i], SlotStates, jobCnt)
        /\ At(t, "finish") => Closed(SlotOf[Top(t).job], SlotStates[SlotOf[Top(t).job]])

\* One thread computes a job, one a sub-job.
OneHolder ==
    \A t, u \in Threads : \A i \in 1..Len(stack[t]), k \in 1..Len(stack[u]) :
        \A j \in JobIds :
            Holds(stack[t][i], j) /\ Holds(stack[u][k], j) => t = u /\ i = k

OneTaker ==
    \A t, u \in Threads : \A i \in 1..Len(stack[t]), k \in 1..Len(stack[u]) :
        \A s \in Slots, m \in Nat :
            Takes(stack[t][i], s, m) /\ Takes(stack[u][k], s, m) => t = u

\* A job that was taken is being computed or has been.
JobsCounted ==
    /\ jobNum = Jobs
    /\ \A j \in JobIds :
          /\ ran[j] \in {0, 1}
          /\ ran[j] = 1 =>
                /\ j < jobCnt
                /\ \A t \in Threads : \A i \in 1..Len(stack[t]) :
                      ~Holds(stack[t][i], j)
          /\ ran[j] = 0 /\ j < jobCnt =>
                \E t \in Threads : \E i \in 1..Len(stack[t]) : Holds(stack[t][i], j)
    /\ mainAt = "core" /\ stack[Main] = <<>> => jobCnt >= Jobs

\* The stage of a slot before and after its job, and without one.
SlotsOwned ==
    /\ \A j \in JobIds : SlotOf[j] # NoSlot =>
          /\ j >= jobCnt => Fresh(SlotStates[SlotOf[j]])
          /\ ran[j] = 1 => Closed(SlotOf[j], SlotStates[SlotOf[j]])
    /\ \A s \in Slots \ Started : Fresh(SlotStates[s])

Block == StacksSound /\ OneHolder /\ OneTaker /\ JobsCounted /\ SlotsOwned

\* GoIsBarrier is about one step, SubIsBarrier and NoOrphanSubJob do not say why the
\* thread stands there: each call must carry the stage of its slot with it.
IInv == PoolTyped /\ Asleep /\ (InBlock => Block)

-----------------------------------------------------------------------------
(* Stacks.                                                                  *)

\* The calls below the top.
LEMMA BelowStack ==
    ASSUME PoolTyped, NEW t \in Threads, stack[t] # <<>>
    PROVE  /\ stack \in [Threads -> Seq(Frame)] /\ stack[t] \in Seq(Frame)
           /\ Len(stack[t]) \in Nat \ {0} /\ Top(t) \in Frame
           /\ Below(t) \in Seq(Frame) /\ Len(Below(t)) = Len(stack[t]) - 1
           /\ \A i \in 1..(Len(stack[t]) - 1) : Below(t)[i] = stack[t][i]
<1> DEFINE n == Len(stack[t])
<1>1. stack \in [Threads -> Seq(Frame)] /\ stack[t] \in Seq(Frame) /\ n \in Nat \ {0}
  BY DEF PoolTyped
<1>2. \A i \in 1..n : stack[t][i] \in Frame
  BY <1>1, ElementOfSeq
<1>3. \A i \in 1..(n - 1) : stack[t][i] \in Frame
  BY <1>1, <1>2
<1> DEFINE b == SubSeq(stack[t], 1, n - 1)
<1>4. /\ b \in Seq(Frame)
      /\ Len(b) = IF 1 <= n - 1 THEN n - 1 - 1 + 1 ELSE 0
      /\ \A i \in 1..(n - 1 - 1 + 1) : b[i] = stack[t][1 + i - 1]
  BY <1>1, <1>3, SubSeqProperties
<1>5. Below(t) = b
  BY DEF Below
<1>6. Top(t) \in Frame
  BY <1>1, <1>2 DEF Top
<1> HIDE DEF b
<1>7. Len(b) = n - 1
  <2>1. n \in Nat \ {0} /\ Len(b) = IF 1 <= n - 1 THEN n - 1 - 1 + 1 ELSE 0
    BY <1>1, <1>4
  <2> HIDE DEF n
  <2> QED BY <2>1
<1>8. ASSUME NEW i \in 1..(n - 1)
      PROVE  b[i] = stack[t][i]
  <2>1. i \in 1..(n - 1 - 1 + 1) /\ 1 + i - 1 = i
    BY <1>1
  <2> HIDE DEF n
  <2>2. b[i] = stack[t][1 + i - 1]
    BY <1>4, <2>1
  <2> QED BY <2>1, <2>2
<1> QED BY <1>1, <1>4, <1>5, <1>6, <1>7, <1>8

\* A call that goes on to its next place.
LEMMA SetTopStack ==
    ASSUME PoolTyped, NEW t \in Threads, stack[t] # <<>>, NEW f \in Frame, SetTop(t, f)
    PROVE  /\ stack' \in [Threads -> Seq(Frame)]
           /\ \A u \in Threads : Len(stack'[u]) = Len(stack[u])
           /\ stack'[t][Len(stack[t])] = f
           /\ \A u \in Threads : \A i \in 1..Len(stack[u]) :
                 (u # t \/ i # Len(stack[t])) => stack'[u][i] = stack[u][i]
<1> DEFINE n == Len(stack[t])
           q == Append(Below(t), f)
<1>1. /\ stack \in [Threads -> Seq(Frame)] /\ stack[t] \in Seq(Frame)
      /\ n \in Nat \ {0} /\ Top(t) \in Frame
  BY BelowStack
<1>2. /\ Below(t) \in Seq(Frame) /\ Len(Below(t)) = n - 1
      /\ \A i \in 1..(n - 1) : Below(t)[i] = stack[t][i]
  BY BelowStack
<1>3. /\ q \in Seq(Frame) /\ Len(q) = n /\ q[n] = f
      /\ \A i \in 1..(n - 1) : q[i] = stack[t][i]
  BY <1>1, <1>2
<1>4. stack' = [stack EXCEPT ![t] = q]
  BY DEF SetTop
<1> HIDE DEF q
<1>5. stack' \in [Threads -> Seq(Frame)] /\ stack'[t] = q
      /\ \A u \in Threads \ {t} : stack'[u] = stack[u]
  BY <1>1, <1>3, <1>4
<1>6. \A u \in Threads : Len(stack'[u]) = Len(stack[u])
  BY <1>3, <1>5
<1>7. \A u \in Threads : \A i \in 1..Len(stack[u]) :
         (u # t \/ i # n) => stack'[u][i] = stack[u][i]
  <2> SUFFICES ASSUME NEW u \in Threads, NEW i \in 1..Len(stack[u]), u # t \/ i # n
               PROVE  stack'[u][i] = stack[u][i]
    OBVIOUS
  <2>1. CASE u # t
    BY <2>1, <1>5
  <2>2. CASE u = t
    <3>1. i \in 1..(n - 1)
      BY <2>2, <1>1
    <3> QED BY <3>1, <2>2, <1>3, <1>5
  <2> QED BY <2>1, <2>2
<1> QED BY <1>3, <1>5, <1>6, <1>7

\* A call that makes another.
LEMMA PushStack ==
    ASSUME PoolTyped, NEW t \in Threads, stack[t] # <<>>, NEW g \in Frame,
           NEW label \in CoreLabels \cup CallLabels, Push(t, g, label)
    PROVE  /\ stack' \in [Threads -> Seq(Frame)]
           /\ Len(stack'[t]) = Len(stack[t]) + 1
           /\ \A u \in Threads \ {t} : stack'[u] = stack[u]
           /\ stack'[t][Len(stack[t])] = [Top(t) EXCEPT !.at = label]
           /\ stack'[t][Len(stack[t]) + 1] = g
           /\ \A i \in 1..(Len(stack[t]) - 1) : stack'[t][i] = stack[t][i]
<1> DEFINE n == Len(stack[t])
           f == [Top(t) EXCEPT !.at = label]
           q == Below(t) \o <<f, g>>
<1>1. /\ stack \in [Threads -> Seq(Frame)] /\ stack[t] \in Seq(Frame)
      /\ n \in Nat \ {0} /\ Top(t) \in Frame
  BY BelowStack
<1>2. /\ Below(t) \in Seq(Frame) /\ Len(Below(t)) = n - 1
      /\ \A i \in 1..(n - 1) : Below(t)[i] = stack[t][i]
  BY BelowStack
<1>3. f \in Frame
  BY <1>1 DEF Top, Frame
<1> HIDE DEF f
<1>4. /\ q \in Seq(Frame) /\ Len(q) = n + 1 /\ q[n] = f /\ q[n + 1] = g
      /\ \A i \in 1..(n - 1) : q[i] = stack[t][i]
  <2>1. <<f, g>> \in Seq(Frame) /\ Len(<<f, g>>) = 2
    BY <1>3
  <2> QED BY <2>1, <1>1, <1>2, <1>3
<1>5. stack' = [stack EXCEPT ![t] = q]
  BY DEF Push, f
<1> HIDE DEF q
<1>6. stack' \in [Threads -> Seq(Frame)] /\ stack'[t] = q
      /\ \A u \in Threads \ {t} : stack'[u] = stack[u]
  BY <1>1, <1>4, <1>5
<1> QED BY <1>4, <1>6 DEF f

\* A call that returns.
LEMMA PopStack ==
    ASSUME PoolTyped, NEW t \in Threads, stack[t] # <<>>, Pop(t)
    PROVE  /\ stack' \in [Threads -> Seq(Frame)]
           /\ Len(stack'[t]) = Len(stack[t]) - 1
           /\ \A u \in Threads \ {t} : stack'[u] = stack[u]
           /\ \A i \in 1..(Len(stack[t]) - 1) : stack'[t][i] = stack[t][i]
<1> DEFINE n == Len(stack[t])
<1>1. /\ stack \in [Threads -> Seq(Frame)] /\ stack[t] \in Seq(Frame)
      /\ n \in Nat \ {0} /\ Top(t) \in Frame
  BY BelowStack
<1>2. /\ Below(t) \in Seq(Frame) /\ Len(Below(t)) = n - 1
      /\ \A i \in 1..(n - 1) : Below(t)[i] = stack[t][i]
  BY BelowStack
<1> QED BY <1>1, <1>2 DEF Pop

-----------------------------------------------------------------------------
(* What the invariant says of the call a thread is in.                      *)

LEMMA SlotStatesTyped ==
    ASSUME PoolTyped
    PROVE  SlotStates \in [Slots -> SlotState]
BY DEF PoolTyped, SlotStates, SlotState

LEMMA TopSound ==
    ASSUME IInv, NEW t \in Threads, stack[t] # <<>>
    PROVE  /\ InBlock /\ Block /\ Top(t) \in Frame
           /\ Len(stack[t]) \in Nat \ {0} /\ Len(stack[t]) \in 1..Len(stack[t])
           /\ Top(t) = stack[t][Len(stack[t])]
           /\ Sound(Top(t), SlotStates, jobCnt)
           /\ t \in Workers => workerAt[t] = "core"
           /\ t = Main => mainAt = "core"
<1>1. InBlock /\ Block
  BY DEF IInv, Asleep
<1>2. Top(t) \in Frame /\ Len(stack[t]) \in Nat \ {0}
  BY BelowStack DEF IInv
<1>3. Sound(Top(t), SlotStates, jobCnt)
  BY <1>1, <1>2 DEF Block, StacksSound, Top
<1> QED BY <1>1, <1>2, <1>3 DEF IInv, Asleep, InBlock, Top

\* The event and the flag of a worker that computes do not matter.
LEMMA AsleepKeeps ==
    ASSUME IInv, NEW t \in Threads, stack[t] # <<>>,
           UNCHANGED <<mainAt, poolVars>>,
           \A u \in Threads \ {t} : stack'[u] = stack[u]
    PROVE  Asleep' /\ InBlock'
<1>1. InBlock /\ (t \in Workers => workerAt[t] = "core") /\ (t = Main => mainAt = "core")
  BY TopSound
<1>2. Asleep /\ Main \in Threads /\ Workers \subseteq Threads
  BY DEF IInv, Threads
<1> QED BY <1>1, <1>2 DEF Asleep, InBlock, poolVars

\* One call of go_compute_thread_sub0/1 at a time serves a slot.
LEMMA SoleCaller ==
    ASSUME IInv, NEW t \in Threads, stack[t] # <<>>, Top(t).at \in CallLabels
    PROVE  /\ Len(stack[t]) - 1 \in 1..Len(stack[t])
           /\ LET j == stack[t][Len(stack[t]) - 1].job IN
                /\ stack[t][Len(stack[t]) - 1].at = "finish"
                /\ j \in JobIds /\ SlotOf[j] = Top(t).slot /\ j < jobCnt /\ ran[j] = 0
                /\ \A k \in JobIds : SlotOf[k] = Top(t).slot => k = j
           /\ \A u \in Threads : \A i \in 1..Len(stack[u]) :
                 u # t \/ i # Len(stack[t]) =>
                    /\ stack[u][i].at \in CallLabels => stack[u][i].slot # Top(t).slot
                    /\ stack[u][i].at = "job" => SlotOf[stack[u][i].job] # Top(t).slot
           /\ \A u \in Threads :
                 At(u, "finish") => SlotOf[Top(u).job] # Top(t).slot
<1> DEFINE n == Len(stack[t])
           s == Top(t).slot
           j == stack[t][n - 1].job
<1>1. /\ Block /\ Top(t) = stack[t][n] /\ n \in Nat \ {0} /\ s \in Slots
      /\ stack \in [Threads -> Seq(Frame)]
  BY TopSound DEF IInv, PoolTyped, Frame
<1>2. n # 1
  BY <1>1 DEF Block, StacksSound, Nested, CoreLabels, CallLabels
<1>3. n - 1 \in 1..(n - 1) /\ n - 1 \in 1..n /\ n - 1 + 1 = n
  <2> HIDE DEF n
  <2> QED BY <1>1, <1>2
<1>4. \A i \in 1..(n - 1) :
         \/ /\ stack[t][i].at = "finish" /\ stack[t][i + 1].at \in CallLabels
            /\ stack[t][i + 1].slot = SlotOf[stack[t][i].job]
         \/ stack[t][i].at = "swait" /\ stack[t][i + 1].at \in CoreLabels
  BY <1>1 DEF Block, StacksSound, Nested
<1>5. stack[t][n - 1].at = "finish" /\ SlotOf[j] = s
  <2> HIDE DEF n
  <2> QED BY <1>1, <1>3, <1>4 DEF CoreLabels, CallLabels
<1>6. Sound(stack[t][n - 1], SlotStates, jobCnt)
  BY <1>1, <1>3 DEF Block, StacksSound
<1>7. j \in JobIds /\ j < jobCnt
  BY <1>5, <1>6 DEF Sound, CoreLabels
<1>8. Holds(stack[t][n - 1], j)
  BY <1>5 DEF Holds
<1>9. ran[j] = 0
  BY <1>1, <1>3, <1>7, <1>8 DEF Block, JobsCounted
<1>10. \A k \in JobIds : SlotOf[k] = s => k = j
  BY <1>1, <1>5, <1>7, PoolAssumption DEF NoSlot, Slots
<1>11. ASSUME NEW u \in Threads, NEW i \in 1..Len(stack[u]),
              stack[u][i].at \in {"job", "finish"}, SlotOf[stack[u][i].job] = s
       PROVE  u = t /\ i = n - 1 /\ stack[u][i].at = "finish"
  <2>1. Sound(stack[u][i], SlotStates, jobCnt)
    BY <1>1 DEF Block, StacksSound
  <2>2. stack[u][i].job \in JobIds
    BY <2>1, <1>11 DEF Sound
  <2>3. Holds(stack[u][i], j)
    BY <2>2, <1>10, <1>11 DEF Holds
  <2> QED BY <2>3, <1>1, <1>3, <1>5, <1>7, <1>8 DEF Block, OneHolder
<1>12. ASSUME NEW u \in Threads, NEW i \in 1..Len(stack[u]), u # t \/ i # n,
              stack[u][i].at \in CallLabels
       PROVE  stack[u][i].slot # s
  <2>1. Len(stack[u]) \in Nat /\ Nested(stack[u]) /\ stack[u] # <<>>
    BY <1>1 DEF Block, StacksSound
  <2>2. i # 1
    BY <2>1, <1>12 DEF Nested, CoreLabels, CallLabels
  <2>3. i - 1 \in 1..(Len(stack[u]) - 1) /\ i - 1 \in 1..Len(stack[u]) /\ i - 1 + 1 = i
    BY <2>1, <2>2
  <2>4. /\ stack[u][i - 1].at = "finish"
        /\ stack[u][i].slot = SlotOf[stack[u][i - 1].job]
    BY <2>1, <2>3, <1>12 DEF Nested, CoreLabels, CallLabels
  <2>5. CASE stack[u][i].slot = s
    <3>1. u = t /\ i - 1 = n - 1
      BY <2>3, <2>4, <2>5, <1>11
    <3> QED BY <3>1, <2>3, <1>3, <1>12
  <2> QED BY <2>5
<1>13. ASSUME NEW u \in Threads, NEW i \in 1..Len(stack[u]), stack[u][i].at = "job"
       PROVE  SlotOf[stack[u][i].job] # s
  BY <1>11, <1>13
<1>14. ASSUME NEW u \in Threads, At(u, "finish")
       PROVE  SlotOf[Top(u).job] # s
  <2>1. Len(stack[u]) \in 1..Len(stack[u]) /\ Top(u) = stack[u][Len(stack[u])]
        /\ stack[u] # <<>> /\ Top(u).at = "finish"
    BY <1>14, TopSound DEF At
  <2>2. CASE SlotOf[Top(u).job] = s
    <3>1. u = t /\ Len(stack[u]) = n - 1
      BY <2>1, <2>2, <1>11
    <3> QED BY <3>1, <1>1
  <2> QED BY <2>2
<1> QED BY <1>3, <1>5, <1>7, <1>9, <1>10, <1>12, <1>13, <1>14

-----------------------------------------------------------------------------
(* Sound is kept when another slot changes, and while jobs are taken.       *)

LEMMA SoundElsewhere ==
    ASSUME NEW f \in Frame, NEW D \in [Slots -> SlotState], NEW E \in [Slots -> SlotState],
           NEW c \in Nat, NEW d \in Nat, c <= d, Sound(f, D, c),
           NEW s \in Slots, \A r \in Slots \ {s} : E[r] = D[r],
           f.at = "job" => SlotOf[f.job] # s,
           f.at \in CallLabels \cup {"stake", "stest", "srun"} => f.slot # s
    PROVE  Sound(f, E, d)
<1>1. f.job \in Nat /\ f.slot \in Slots
  BY DEF Frame
<1>2. f.at \in CallLabels \cup {"stake", "stest", "srun"} => E[f.slot] = D[f.slot]
  BY <1>1
<1>3. ASSUME f.at = "job", SlotOf[f.job] # NoSlot
      PROVE  E[SlotOf[f.job]] = D[SlotOf[f.job]]
  <2>1. f.job \in JobIds
    BY <1>3 DEF Sound
  <2>2. SlotOf[f.job] \in Slots \ {s}
    BY <1>3, <2>1, PoolAssumption
  <2> QED BY <2>2
<1>4. f.at \in CoreLabels \ {"take"} => f.job < d
  BY <1>1 DEF Sound
<1>5. f.at = "job" /\ SlotOf[f.job] # NoSlot => Fresh(E[SlotOf[f.job]])
  BY <1>3 DEF Sound
<1> QED BY <1>2, <1>4, <1>5 DEF Sound, CallLabels

LEMMA SoundLater ==
    ASSUME NEW f \in Frame, NEW D, NEW c \in Nat, NEW d \in Nat, c <= d, Sound(f, D, c)
    PROVE  Sound(f, D, d)
<1>1. f.job \in Nat
  BY DEF Frame
<1>2. f.at \in CoreLabels \ {"take"} => f.job < d
  BY <1>1 DEF Sound
<1> QED BY <1>2 DEF Sound

-----------------------------------------------------------------------------
(* Steps that leave the caller and what it calls as they are.               *)

\* A call goes on to its next place.
LEMMA SetTopKeeps ==
    ASSUME IInv, NEW t \in Threads, stack[t] # <<>>, NEW f \in Frame, SetTop(t, f),
           UNCHANGED <<mainAt, poolVars>>, f.at # "finish",
           f.at \in CoreLabels <=> Top(t).at \in CoreLabels,
           f.at \in CallLabels => f.slot = Top(t).slot,
           \A s \in Slots, m \in Nat : Takes(f, s, m) =>
              \/ Takes(Top(t), s, m)
              \/ \A u \in Threads : \A i \in 1..Len(stack[u]) : ~Takes(stack[u][i], s, m),
           \A u \in Threads : \A i \in 1..Len(stack[u]) : u # t \/ i # Len(stack[t]) =>
              Sound(stack[u][i], SlotStates', jobCnt'),
           Sound(f, SlotStates', jobCnt'),
           \A u \in Threads : At(u, "finish") =>
              Closed(SlotOf[Top(u).job], SlotStates'[SlotOf[Top(u).job]])
    PROVE  Asleep' /\ InBlock' /\ StacksSound' /\ OneTaker'
<1> DEFINE n == Len(stack[t])
<1>1. /\ Block /\ InBlock /\ Top(t) = stack[t][n] /\ n \in Nat \ {0}
      /\ stack \in [Threads -> Seq(Frame)]
  BY TopSound DEF IInv, PoolTyped
<1>2. /\ stack' \in [Threads -> Seq(Frame)]
      /\ \A u \in Threads : Len(stack'[u]) = Len(stack[u])
      /\ stack'[t][n] = f
      /\ \A u \in Threads : \A i \in 1..Len(stack[u]) :
            (u # t \/ i # n) => stack'[u][i] = stack[u][i]
  BY SetTopStack DEF IInv
<1>3. \A u \in Threads : stack[u] \in Seq(Frame) /\ stack'[u] \in Seq(Frame)
  BY <1>1, <1>2
<1>4. \A u \in Threads : stack'[u] = <<>> <=> stack[u] = <<>>
  BY <1>2, <1>3
<1>5. Asleep' /\ InBlock'
  <2>1. ASSUME NEW u \in Threads \ {t}
        PROVE  stack'[u] = stack[u]
    BY <1>2, <1>3, <2>1, SeqEqual
  <2> QED BY <2>1, AsleepKeeps
<1>6. ASSUME NEW u \in Threads
      PROVE  Nested(stack'[u])
  <2>1. Nested(stack[u])
    BY <1>1 DEF Block, StacksSound
  <2>2. CASE u # t
    <3>1. stack'[u] = stack[u]
      BY <1>2, <1>3, <2>2, SeqEqual
    <3> QED BY <3>1, <2>1
  <2>3. CASE u = t
    <3> HIDE DEF n
    <3>1. n = Len(stack[t]) /\ Len(stack'[t]) = n
      BY <1>2 DEF n
    <3>2. stack'[t][1].at \in CoreLabels
      BY <1>1, <1>2, <2>1, <2>3, <3>1 DEF Nested
    <3>3. ASSUME NEW i \in 1..(n - 1)
          PROVE  \/ /\ stack'[t][i].at = "finish" /\ stack'[t][i + 1].at \in CallLabels
                    /\ stack'[t][i + 1].slot = SlotOf[stack'[t][i].job]
                 \/ stack'[t][i].at = "swait" /\ stack'[t][i + 1].at \in CoreLabels
      <4>1. i \in 1..n /\ i # n /\ i + 1 \in 1..n
        BY <1>1
      <4>2. stack'[t][i] = stack[t][i]
        BY <4>1, <1>2, <3>1
      <4>3. stack'[t][i + 1] = IF i + 1 = n THEN f ELSE stack[t][i + 1]
        BY <4>1, <1>2, <3>1
      <4>4. \/ /\ stack[t][i].at = "finish" /\ stack[t][i + 1].at \in CallLabels
               /\ stack[t][i + 1].slot = SlotOf[stack[t][i].job]
            \/ stack[t][i].at = "swait" /\ stack[t][i + 1].at \in CoreLabels
        BY <2>1, <2>3, <3>1 DEF Nested
      <4>5. f.at \in CoreLabels \cup CallLabels /\ Top(t).at \in CoreLabels \cup CallLabels
            /\ CoreLabels \cap CallLabels = {}
        BY TopSound DEF Frame, CoreLabels, CallLabels
      <4> QED BY <4>2, <4>3, <4>4, <4>5, <1>1
    <3> QED BY <3>1, <3>2, <3>3, <2>3 DEF Nested
  <2> QED BY <2>2, <2>3
<1>7. ASSUME NEW u \in Threads, NEW i \in 1..Len(stack'[u])
      PROVE  Sound(stack'[u][i], SlotStates', jobCnt')
  <2>1. i \in 1..Len(stack[u])
    BY <1>2
  <2>2. CASE u = t /\ i = n
    BY <2>2, <1>2
  <2>3. CASE ~(u = t /\ i = n)
    BY <2>1, <2>3, <1>2
  <2> QED BY <2>2, <2>3
<1>8. ASSUME NEW u \in Threads, stack'[u] # <<>>, stack'[u][Len(stack'[u])].at = "finish"
      PROVE  LET j == stack'[u][Len(stack'[u])].job IN
             Closed(SlotOf[j], SlotStates'[SlotOf[j]])
  <2>1. u # t
    BY <1>2, <1>8
  <2>2. stack'[u] = stack[u]
    BY <1>2, <1>3, <2>1, SeqEqual
  <2>3. At(u, "finish") /\ Top(u) = stack'[u][Len(stack'[u])]
    BY <2>2, <1>8 DEF At, Top
  <2> QED BY <2>3
<1>9. StacksSound'
  BY <1>6, <1>7, <1>8 DEF StacksSound, At, Top
<1>10. OneTaker'
  <2> SUFFICES ASSUME NEW u \in Threads, NEW v \in Threads,
                      NEW i \in 1..Len(stack[u]), NEW k \in 1..Len(stack[v]),
                      NEW s \in Slots, NEW m \in Nat,
                      Takes(stack'[u][i], s, m), Takes(stack'[v][k], s, m)
               PROVE  u = v
    BY <1>2 DEF OneTaker
  <2>1. \A x \in Threads : \A y \in 1..Len(stack[x]) :
           ~(x = t /\ y = n) => stack'[x][y] = stack[x][y]
    BY <1>2
  <2>2. CASE ~(u = t /\ i = n) /\ ~(v = t /\ k = n)
    BY <2>1, <2>2, <1>1 DEF Block, OneTaker
  <2>3. CASE u = t /\ v = t
    BY <2>3
  <2>4. CASE u = t /\ i = n /\ v # t
    <3>1. Takes(f, s, m) /\ Takes(stack[v][k], s, m)
      BY <2>1, <2>4, <1>2
    <3>2. Takes(Top(t), s, m)
      BY <3>1
    <3> QED BY <3>1, <3>2, <2>4, <1>1 DEF Block, OneTaker
  <2>5. CASE v = t /\ k = n /\ u # t
    <3>1. Takes(f, s, m) /\ Takes(stack[u][i], s, m)
      BY <2>1, <2>5, <1>2
    <3>2. Takes(Top(t), s, m)
      BY <3>1
    <3> QED BY <3>1, <3>2, <2>5, <1>1 DEF Block, OneTaker
  <2> QED BY <2>2, <2>3, <2>4, <2>5
<1> QED BY <1>5, <1>9, <1>10

\* A call goes on to its next place, without a job before or after.
LEMMA GoOnKeeps ==
    ASSUME IInv, PoolTyped', NEW t \in Threads, stack[t] # <<>>,
           NEW f \in Frame, SetTop(t, f),
           UNCHANGED <<mainAt, poolVars, jobNum, jobCnt, ran>>,
           Top(t).at \notin {"job", "finish"}, f.at \notin {"job", "finish"},
           f.at \in CoreLabels <=> Top(t).at \in CoreLabels,
           f.at \in CallLabels => f.slot = Top(t).slot,
           \A s \in Slots, m \in Nat : Takes(f, s, m) =>
              \/ Takes(Top(t), s, m)
              \/ \A u \in Threads : \A i \in 1..Len(stack[u]) : ~Takes(stack[u][i], s, m),
           \A u \in Threads : \A i \in 1..Len(stack[u]) : u # t \/ i # Len(stack[t]) =>
              Sound(stack[u][i], SlotStates', jobCnt),
           Sound(f, SlotStates', jobCnt),
           \A u \in Threads : At(u, "finish") =>
              Closed(SlotOf[Top(u).job], SlotStates'[SlotOf[Top(u).job]]),
           SlotsOwned'
    PROVE  IInv'
<1> DEFINE n == Len(stack[t])
<1>1. /\ Block /\ InBlock /\ Top(t) = stack[t][n] /\ n \in Nat \ {0}
      /\ stack \in [Threads -> Seq(Frame)]
  BY TopSound DEF IInv, PoolTyped
<1>2. /\ stack' \in [Threads -> Seq(Frame)]
      /\ \A u \in Threads : Len(stack'[u]) = Len(stack[u])
      /\ stack'[t][n] = f
      /\ \A u \in Threads : \A i \in 1..Len(stack[u]) :
            (u # t \/ i # n) => stack'[u][i] = stack[u][i]
  BY SetTopStack DEF IInv
<1>3. \A u \in Threads : stack[u] \in Seq(Frame) /\ stack'[u] \in Seq(Frame)
  BY <1>1, <1>2
<1>4. \A u \in Threads : stack'[u] = <<>> <=> stack[u] = <<>>
  BY <1>2, <1>3
<1>5. Asleep' /\ InBlock' /\ StacksSound' /\ OneTaker'
  BY SetTopKeeps
<1>6. ASSUME NEW u \in Threads, NEW i \in 1..Len(stack[u]), NEW j
       PROVE  Holds(stack'[u][i], j) <=> Holds(stack[u][i], j)
  <2>1. CASE u = t /\ i = n
    BY <2>1, <1>1, <1>2 DEF Holds
  <2>2. CASE ~(u = t /\ i = n)
    BY <2>2, <1>2
  <2> QED BY <2>1, <2>2
<1>7. OneHolder'
  <2> SUFFICES ASSUME NEW u \in Threads, NEW v \in Threads,
                      NEW i \in 1..Len(stack[u]), NEW k \in 1..Len(stack[v]),
                      NEW j \in JobIds, Holds(stack'[u][i], j), Holds(stack'[v][k], j)
               PROVE  u = v /\ i = k
    BY <1>2 DEF OneHolder
  <2>1. Holds(stack[u][i], j) /\ Holds(stack[v][k], j)
    BY <1>6
  <2> QED BY <2>1, <1>1 DEF Block, OneHolder
<1>8. JobsCounted'
  <2>1. Main \in Threads
    BY DEF Threads
  <2> QED BY <2>1, <1>1, <1>2, <1>4, <1>6 DEF Block, JobsCounted
<1> QED BY <1>5, <1>7, <1>8 DEF IInv, Block

-----------------------------------------------------------------------------
(* The stages of a slot.                                                    *)

LEMMA SubJobsSome ==
    ASSUME NEW s \in Slots
    PROVE  /\ SubJobs[s] \in Nat \ {0} /\ 0 \in WorkersOf(s)
           /\ WorkersOf(s) \subseteq SubIds
BY PoolAssumption DEF WorkersOf, SubIds

LEMMA StagesApart ==
    ASSUME NEW s \in Slots, NEW d \in SlotState
    PROVE  /\ Fresh(d) => ~Raised(s, d) /\ ~Open(s, d) /\ ~Closed(s, d)
           /\ Raised(s, d) => ~Open(s, d) /\ ~Closed(s, d)
           /\ Open(s, d) => ~Closed(s, d)
<1>1. SubJobs[s] \in Nat \ {0} /\ 0 \in WorkersOf(s) /\ WorkersOf(s) \subseteq SubIds
  BY SubJobsSome
<1>2. Fresh(d) => ~Raised(s, d)
  BY <1>1 DEF Fresh, Raised
<1>3. Fresh(d) \/ Raised(s, d) \/ Closed(s, d) => ~Open(s, d)
  BY <1>1 DEF Fresh, Raised, Open, Closed
<1>4. Fresh(d) \/ Raised(s, d) => ~Closed(s, d)
  BY <1>1 DEF Fresh, Raised, Closed
<1> QED BY <1>2, <1>3, <1>4

\* A slot is in one of its stages, in which its job is.
LEMMA SlotStage ==
    ASSUME IInv, InBlock, NEW s \in Slots
    PROVE  \/ Fresh(SlotStates[s]) \/ Raised(s, SlotStates[s])
           \/ Open(s, SlotStates[s]) \/ Closed(s, SlotStates[s])
<1>1. Block /\ stack \in [Threads -> Seq(Frame)] /\ jobCnt \in Nat
  BY DEF IInv, PoolTyped
<1>2. CASE s \notin Started
  BY <1>1, <1>2 DEF Block, SlotsOwned
<1>3. CASE s \in Started
  <2>1. PICK j \in JobIds : SlotOf[j] = s /\ SlotOf[j] # NoSlot
    BY <1>3 DEF Started
  <2>2. j \in Nat
    BY PoolAssumption DEF JobIds
  <2>3. CASE j >= jobCnt \/ ran[j] = 1
    BY <1>1, <2>1, <2>3 DEF Block, SlotsOwned
  <2>4. CASE j < jobCnt /\ ran[j] # 1
    <3>0. PICK t \in Threads : \E i \in 1..Len(stack[t]) : Holds(stack[t][i], j)
      BY <1>1, <2>4 DEF Block, JobsCounted
    <3>1. PICK i \in 1..Len(stack[t]) : Holds(stack[t][i], j)
      BY <3>0
    <3>2. Sound(stack[t][i], SlotStates, jobCnt) /\ Nested(stack[t])
      BY <1>1 DEF Block, StacksSound
    <3>3. CASE stack[t][i].at = "job"
      BY <3>1, <3>2, <3>3, <2>1 DEF Holds, Sound
    <3>4. CASE stack[t][i].at = "finish" /\ i = Len(stack[t])
      <4>1. At(t, "finish") /\ Top(t).job = j
        BY <3>1, <3>4, <1>1 DEF At, Top, Holds
      <4> QED BY <4>1, <1>1, <2>1 DEF Block, StacksSound
    <3>5. CASE stack[t][i].at = "finish" /\ i # Len(stack[t])
      <4>1. Len(stack[t]) \in Nat
        BY <1>1
      <4>2. i \in 1..(Len(stack[t]) - 1) /\ i + 1 \in 1..Len(stack[t])
        BY <3>5, <4>1
      <4>3. stack[t][i + 1].at \in CallLabels /\ stack[t][i + 1].slot = s
        BY <4>2, <3>2, <3>5, <3>1, <2>1 DEF Nested, Holds
      <4>4. Sound(stack[t][i + 1], SlotStates, jobCnt)
        BY <4>2, <1>1 DEF Block, StacksSound
      <4> QED BY <4>3, <4>4 DEF Sound, CallLabels
    <3> QED BY <3>1, <3>3, <3>4, <3>5 DEF Holds
  <2> QED BY <2>2, <2>3, <2>4, <1>1
<1> QED BY <1>2, <1>3

\* A slot whose start flag is set is open.
LEMMA ArmedIsOpen ==
    ASSUME IInv, InBlock, NEW s \in Slots, subNum[s] # 0
    PROVE  Open(s, SlotStates[s])
<1>1. SlotStates[s].num # 0
  BY DEF SlotStates
<1> QED BY <1>1, SlotStage DEF Fresh, Raised, Closed

LEMMA OwnedKeeps ==
    ASSUME IInv, InBlock, UNCHANGED <<jobCnt, ran>>,
           \A r \in Slots :
              \/ SlotStates'[r] = SlotStates[r]
              \/ \E j \in JobIds : /\ SlotOf[j] = r /\ j < jobCnt /\ ran[j] = 0
                                   /\ \A k \in JobIds : SlotOf[k] = r => k = j
              \/ /\ ~Fresh(SlotStates[r])
                 /\ Closed(r, SlotStates[r]) => Closed(r, SlotStates'[r])
    PROVE  SlotsOwned'
<1>1. Block /\ jobCnt \in Nat /\ JobIds \subseteq Nat
  BY PoolAssumption DEF IInv, PoolTyped, JobIds
<1>2. ASSUME NEW j \in JobIds, SlotOf[j] # NoSlot, j >= jobCnt
      PROVE  Fresh(SlotStates'[SlotOf[j]])
  <2>1. SlotOf[j] \in Slots /\ Fresh(SlotStates[SlotOf[j]])
    BY <1>1, <1>2, PoolAssumption DEF Block, SlotsOwned
  <2>2. j \in Nat /\ ~(j < jobCnt)
    BY <1>1, <1>2
  <2> QED BY <2>1, <2>2
<1>3. ASSUME NEW j \in JobIds, SlotOf[j] # NoSlot, ran[j] = 1
      PROVE  Closed(SlotOf[j], SlotStates'[SlotOf[j]])
  <2>1. SlotOf[j] \in Slots /\ Closed(SlotOf[j], SlotStates[SlotOf[j]])
    BY <1>1, <1>3, PoolAssumption DEF Block, SlotsOwned
  <2> QED BY <2>1, <1>3
<1>4. ASSUME NEW r \in Slots \ Started
      PROVE  Fresh(SlotStates'[r])
  <2>1. Fresh(SlotStates[r])
    BY <1>1 DEF Block, SlotsOwned
  <2>2. \A j \in JobIds : SlotOf[j] # r
    BY <1>4 DEF Started, Slots, NoSlot
  <2> QED BY <2>1, <2>2
<1> QED BY <1>2, <1>3, <1>4 DEF SlotsOwned

-----------------------------------------------------------------------------
(* Steps that change no static.                                             *)

LEMMA PlainKeeps ==
    ASSUME IInv, NEW t \in Threads, stack[t] # <<>>, NEW f \in Frame, SetTop(t, f),
           UNCHANGED <<mainAt, sharedVars, poolVars, ghostVars>>,
           Top(t).at \notin {"job", "finish", "swait"}, f.at \notin {"job", "finish"},
           f.at \in CoreLabels <=> Top(t).at \in CoreLabels,
           f.at \in CallLabels => f.slot = Top(t).slot,
           f.at \in {"stest", "srun"} =>
              Top(t).at \in {"stest", "srun"} /\ f.slot = Top(t).slot /\ f.nums = Top(t).nums,
           Sound(f, SlotStates, jobCnt)
    PROVE  IInv'
<1>1. Block
  BY TopSound
<1>2. SlotStates' = SlotStates
  BY DEF SlotStates, sharedVars, ghostVars
<1>3. PoolTyped'
  BY SetTopStack DEF IInv, PoolTyped, sharedVars, poolVars, ghostVars
<1>4. SlotsOwned'
  BY <1>1, <1>2 DEF Block, SlotsOwned, sharedVars, ghostVars
<1>5. \A s \in Slots, m \in Nat : Takes(f, s, m) => Takes(Top(t), s, m)
  BY DEF Takes
<1> QED
  BY <1>1, <1>2, <1>3, <1>4, <1>5, GoOnKeeps DEF Block, StacksSound, sharedVars, ghostVars

LEMMA TestSlotKeeps ==
    ASSUME IInv, NEW t \in Threads, TestSlot(t)
    PROVE  IInv'
<1> DEFINE s == Top(t).slot
<1>1. stack[t] # <<>> /\ Top(t).at = "sub"
  BY DEF TestSlot, At
<1>2. Top(t) \in Frame /\ InBlock /\ Sound(Top(t), SlotStates, jobCnt) /\ s \in Slots
  BY <1>1, TopSound DEF Frame
<1>3. UNCHANGED <<mainAt, sharedVars, poolVars, ghostVars>>
  BY DEF TestSlot
<1>4. CASE subNum[s] # 0
  <2> DEFINE f == [Top(t) EXCEPT !.at = "stake"]
  <2>1. SetTop(t, f)
    BY <1>4 DEF TestSlot, Goto
  <2>2. f \in Frame /\ f.at = "stake" /\ f.slot = s /\ f.job = Top(t).job
    BY <1>2 DEF Frame, CoreLabels
  <2> HIDE DEF f
  <2>3. Open(s, SlotStates[s])
    BY <1>2, <1>4, ArmedIsOpen
  <2>4. Sound(f, SlotStates, jobCnt)
    BY <1>1, <1>2, <2>2, <2>3 DEF Sound, CoreLabels, CallLabels
  <2> QED
    BY <1>1, <1>3, <2>1, <2>2, <2>4, PlainKeeps DEF CoreLabels, CallLabels
<1>5. CASE subNum[s] = 0 /\ s = 0
  <2> DEFINE f == [Top(t) EXCEPT !.slot = 1]
  <2>1. SetTop(t, f)
    BY <1>5 DEF TestSlot
  <2>2. f \in Frame /\ f.at = "sub" /\ f.job = Top(t).job
    BY <1>1, <1>2 DEF Frame, CoreLabels, Slots
  <2> HIDE DEF f
  <2>3. Sound(f, SlotStates, jobCnt)
    BY <1>1, <1>2, <2>2 DEF Sound, CoreLabels, CallLabels
  <2> QED
    BY <1>1, <1>3, <2>1, <2>2, <2>3, PlainKeeps DEF CoreLabels, CallLabels
<1>6. CASE subNum[s] = 0 /\ s # 0
  <2> DEFINE f == [Top(t) EXCEPT !.at = "exit"]
  <2>1. SetTop(t, f)
    BY <1>6 DEF TestSlot, Goto
  <2>2. f \in Frame /\ f.at = "exit" /\ f.job = Top(t).job
    BY <1>2 DEF Frame, CoreLabels
  <2> HIDE DEF f
  <2>3. Sound(f, SlotStates, jobCnt)
    BY <1>1, <1>2, <2>2 DEF Sound, CoreLabels, CallLabels
  <2> QED
    BY <1>1, <1>3, <2>1, <2>2, <2>3, PlainKeeps DEF CoreLabels, CallLabels
<1> QED BY <1>4, <1>5, <1>6

\* The number that was taken is one of an open slot, or past the last one.
LEMMA TestSubKeeps ==
    ASSUME IInv, NEW t \in Threads, TestSub(t)
    PROVE  IInv'
<1> DEFINE s == Top(t).slot
           d == SlotStates[s]
<1>1. stack[t] # <<>> /\ Top(t).at = "stest"
  BY DEF TestSub, At
<1>2. Top(t) \in Frame /\ InBlock /\ Sound(Top(t), SlotStates, jobCnt) /\ s \in Slots
  BY <1>1, TopSound DEF Frame
<1>3. UNCHANGED <<mainAt, sharedVars, poolVars, ghostVars>>
  BY DEF TestSub
<1>4. CASE Top(t).nums[s] < subNum[s]
  <2> DEFINE f == [Top(t) EXCEPT !.at = "srun"]
  <2>1. SetTop(t, f)
    BY <1>4 DEF TestSub, Goto
  <2>2. /\ f \in Frame /\ f.at = "srun" /\ f.slot = s /\ f.job = Top(t).job
        /\ f.nums = Top(t).nums /\ Top(t).nums \in [Slots -> Nat]
    BY <1>2 DEF Frame, CoreLabels
  <2> HIDE DEF f
  <2>3. subNum[s] # 0
    BY <1>2, <1>4, <2>2
  <2>4. Open(s, d) /\ d.num = subNum[s]
    BY <1>2, <2>3, ArmedIsOpen DEF SlotStates
  <2>5. Top(t).nums[s] < SubJobs[s]
    BY <1>4, <2>4 DEF Open
  <2>6. Top(t).nums[s] \in d.flags /\ Top(t).nums[s] < d.cnt
    BY <1>1, <1>2, <2>4, <2>5 DEF Sound
  <2> HIDE DEF d
  <2>7. Sound(f, SlotStates, jobCnt)
    BY <1>1, <1>2, <2>2, <2>4, <2>6 DEF Sound, CoreLabels, CallLabels, d
  <2> QED
    BY <1>1, <1>3, <2>1, <2>2, <2>7, PlainKeeps DEF CoreLabels, CallLabels
<1>5. CASE ~(Top(t).nums[s] < subNum[s]) /\ s = 0
  <2> DEFINE f == [Top(t) EXCEPT !.slot = 1, !.at = "sub"]
  <2>1. SetTop(t, f)
    BY <1>5 DEF TestSub
  <2>2. f \in Frame /\ f.at = "sub" /\ f.job = Top(t).job
    BY <1>1, <1>2 DEF Frame, CoreLabels, Slots
  <2> HIDE DEF f
  <2>3. Sound(f, SlotStates, jobCnt)
    BY <1>1, <1>2, <2>2 DEF Sound, CoreLabels, CallLabels
  <2> QED
    BY <1>1, <1>3, <2>1, <2>2, <2>3, PlainKeeps DEF CoreLabels, CallLabels
<1>6. CASE ~(Top(t).nums[s] < subNum[s]) /\ s # 0
  <2> DEFINE f == [Top(t) EXCEPT !.at = "exit"]
  <2>1. SetTop(t, f)
    BY <1>6 DEF TestSub, Goto
  <2>2. f \in Frame /\ f.at = "exit" /\ f.job = Top(t).job
    BY <1>2 DEF Frame, CoreLabels
  <2> HIDE DEF f
  <2>3. Sound(f, SlotStates, jobCnt)
    BY <1>1, <1>2, <2>2 DEF Sound, CoreLabels, CallLabels
  <2> QED
    BY <1>1, <1>3, <2>1, <2>2, <2>3, PlainKeeps DEF CoreLabels, CallLabels
<1> QED BY <1>4, <1>5, <1>6

\* The slot of the job that calls is never in use already: nobody gives up.
LEMMA CheckCallKeeps ==
    ASSUME IInv, NEW t \in Threads, CheckCall(t)
    PROVE  IInv'
<1> DEFINE s == Top(t).slot
           f == [Top(t) EXCEPT !.at = "flags"]
<1>1. stack[t] # <<>> /\ Top(t).at = "check"
  BY DEF CheckCall, At
<1>2. Top(t) \in Frame /\ Block /\ Sound(Top(t), SlotStates, jobCnt) /\ s \in Slots
  BY <1>1, TopSound DEF Frame
<1>3. Fresh(SlotStates[s])
  BY <1>1, <1>2 DEF Sound
<1>4. subNum[s] = 0
  BY <1>2, <1>3 DEF Fresh, SlotStates
<1>5. jobNum # 0
  BY <1>2, PoolAssumption DEF Block, JobsCounted
<1>6. SetTop(t, f) /\ UNCHANGED <<mainAt, sharedVars, poolVars, ghostVars>>
  BY <1>4, <1>5 DEF CheckCall, Goto
<1>7. f \in Frame /\ f.at = "flags" /\ f.slot = s
  BY <1>2 DEF Frame, CallLabels
<1> HIDE DEF f
<1>8. Sound(f, SlotStates, jobCnt)
  BY <1>3, <1>7 DEF Sound, CoreLabels, CallLabels
<1> QED
  BY <1>1, <1>6, <1>7, <1>8, PlainKeeps DEF CoreLabels, CallLabels

\* compute_thread_core goes round once more.
LEMMA AgainKeeps ==
    ASSUME IInv, NEW t \in Threads, LeaveCore(t), Goto(t, "take")
    PROVE  IInv'
<1> DEFINE f == [Top(t) EXCEPT !.at = "take"]
<1>1. stack[t] # <<>> /\ Top(t).at = "exit"
  BY DEF LeaveCore, At
<1>2. Top(t) \in Frame
  BY <1>1, TopSound
<1>3. SetTop(t, f) /\ UNCHANGED <<mainAt, sharedVars, poolVars, ghostVars>>
  BY DEF LeaveCore, Goto
<1>4. f \in Frame /\ f.at = "take"
  BY <1>2 DEF Frame, CoreLabels
<1> HIDE DEF f
<1>5. Sound(f, SlotStates, jobCnt)
  BY <1>4 DEF Sound, CoreLabels, CallLabels
<1> QED
  BY <1>1, <1>3, <1>4, <1>5, PlainKeeps DEF CoreLabels, CallLabels

-----------------------------------------------------------------------------
(* Steps of a slot.                                                         *)

\* The other calls, while a call prepares its slot.
LEMMA OthersKeep ==
    ASSUME IInv, NEW t \in Threads, stack[t] # <<>>, Top(t).at \in CallLabels,
           SlotStates' \in [Slots -> SlotState],
           \A r \in Slots \ {Top(t).slot} : SlotStates'[r] = SlotStates[r],
           \/ Fresh(SlotStates[Top(t).slot])
           \/ Raised(Top(t).slot, SlotStates[Top(t).slot])
    PROVE  \A u \in Threads : \A i \in 1..Len(stack[u]) : u # t \/ i # Len(stack[t]) =>
              Sound(stack[u][i], SlotStates', jobCnt)
<1> DEFINE s == Top(t).slot
<1>1. /\ Block /\ s \in Slots /\ SlotStates \in [Slots -> SlotState]
      /\ stack \in [Threads -> Seq(Frame)] /\ jobCnt \in Nat
  BY TopSound, SlotStatesTyped DEF IInv, PoolTyped, Frame
<1> SUFFICES ASSUME NEW u \in Threads, NEW i \in 1..Len(stack[u]),
                    u # t \/ i # Len(stack[t])
             PROVE  Sound(stack[u][i], SlotStates', jobCnt)
  OBVIOUS
<1>2. Sound(stack[u][i], SlotStates, jobCnt) /\ stack[u][i] \in Frame
  BY <1>1, ElementOfSeq DEF Block, StacksSound
<1>3. /\ stack[u][i].at \in CallLabels => stack[u][i].slot # s
      /\ stack[u][i].at = "job" => SlotOf[stack[u][i].job] # s
  BY SoleCaller
<1>4. stack[u][i].at \in {"stake", "stest", "srun"} => stack[u][i].slot # s
  BY <1>1, <1>2, StagesApart DEF Sound
<1>5. \A r \in Slots \ {s} : SlotStates'[r] = SlotStates[r]
  OBVIOUS
<1> DEFINE f == stack[u][i]
<1>6. /\ f \in Frame /\ Sound(f, SlotStates, jobCnt) /\ jobCnt <= jobCnt
      /\ f.at = "job" => SlotOf[f.job] # s
      /\ f.at \in CallLabels \cup {"stake", "stest", "srun"} => f.slot # s
  BY <1>1, <1>2, <1>3, <1>4
<1> HIDE DEF s, f
<1>7. Sound(f, SlotStates', jobCnt)
  BY <1>1, <1>5, <1>6, SoundElsewhere
<1> QED BY <1>7 DEF f

\* Nobody but the caller and its job depends on the slot the call prepares.
LEMMA OwnSlotKeeps ==
    ASSUME IInv, NEW t \in Threads, stack[t] # <<>>, Top(t).at \in CallLabels,
           UNCHANGED <<jobCnt, ran>>,
           \A r \in Slots \ {Top(t).slot} : SlotStates'[r] = SlotStates[r]
    PROVE  /\ \A u \in Threads : At(u, "finish") =>
                 Closed(SlotOf[Top(u).job], SlotStates'[SlotOf[Top(u).job]])
           /\ SlotsOwned'
<1> DEFINE s == Top(t).slot
<1>1. Block /\ InBlock /\ Top(t) \in Frame /\ s \in Slots
  BY TopSound DEF Frame
<1>2. ASSUME NEW u \in Threads, At(u, "finish")
      PROVE  Closed(SlotOf[Top(u).job], SlotStates'[SlotOf[Top(u).job]])
  <2>1. Closed(SlotOf[Top(u).job], SlotStates[SlotOf[Top(u).job]])
    BY <1>1, <1>2 DEF Block, StacksSound
  <2>2. SlotOf[Top(u).job] # s
    BY <1>2, SoleCaller
  <2>3. SlotOf[Top(u).job] \in Slots
    <3>1. Sound(Top(u), SlotStates, jobCnt) /\ Top(u).at = "finish"
      BY <1>2, TopSound DEF At
    <3> QED BY <3>1, PoolAssumption DEF Sound
  <2> QED BY <2>1, <2>2, <2>3
<1>3. SlotsOwned'
  <2>1. \E j \in JobIds : /\ SlotOf[j] = s /\ j < jobCnt /\ ran[j] = 0
                          /\ \A k \in JobIds : SlotOf[k] = s => k = j
    BY SoleCaller
  <2> HIDE DEF s
  <2> QED BY <1>1, <2>1, OwnedKeeps DEF s
<1> QED BY <1>2, <1>3

LEMMA PrepareKeeps ==
    ASSUME IInv, PoolTyped', NEW t \in Threads, stack[t] # <<>>,
           Top(t).at \in {"flags", "zero"}, NEW f \in Frame, SetTop(t, f),
           f.at \in {"zero", "arm"}, f.slot = Top(t).slot,
           UNCHANGED <<mainAt, poolVars, jobNum, jobCnt, ran>>,
           \A r \in Slots \ {Top(t).slot} : SlotStates'[r] = SlotStates[r],
           Raised(Top(t).slot, SlotStates'[Top(t).slot]),
           f.at = "arm" => SlotStates'[Top(t).slot].cnt = 0
    PROVE  IInv'
<1> DEFINE s == Top(t).slot
<1>1. /\ Block /\ InBlock /\ Top(t) \in Frame /\ Sound(Top(t), SlotStates, jobCnt)
      /\ s \in Slots
  BY TopSound DEF Frame
<1>2. Fresh(SlotStates[s]) \/ Raised(s, SlotStates[s])
  BY <1>1 DEF Sound
<1>3. SlotStates' \in [Slots -> SlotState]
  BY DEF PoolTyped, SlotStates, SlotState
<1>4. Top(t).at \in CallLabels /\ Top(t).at \notin CoreLabels
  BY DEF CallLabels, CoreLabels
<1>5. \A u \in Threads : \A i \in 1..Len(stack[u]) : u # t \/ i # Len(stack[t]) =>
         Sound(stack[u][i], SlotStates', jobCnt)
  BY <1>2, <1>3, <1>4, OthersKeep
<1>6. Sound(f, SlotStates', jobCnt)
  BY DEF Sound, CoreLabels, CallLabels
<1>7. /\ \A u \in Threads : At(u, "finish") =>
            Closed(SlotOf[Top(u).job], SlotStates'[SlotOf[Top(u).job]])
      /\ SlotsOwned'
  BY <1>4, OwnSlotKeeps
<1>8. \A r \in Slots, m \in Nat : ~Takes(f, r, m)
  BY DEF Takes
<1>9. /\ Top(t).at \notin {"job", "finish", "swait"} /\ f.at \notin {"job", "finish"}
      /\ f.at \in CoreLabels <=> Top(t).at \in CoreLabels
  BY DEF CoreLabels
<1> QED BY <1>5, <1>6, <1>7, <1>8, <1>9, GoOnKeeps

LEMMA RaiseFlagsKeeps ==
    ASSUME IInv, NEW t \in Threads, RaiseFlags(t)
    PROVE  IInv'
<1> DEFINE s == Top(t).slot
           f == [Top(t) EXCEPT !.at = "zero"]
<1>1. stack[t] # <<>> /\ Top(t).at = "flags"
  BY DEF RaiseFlags, At
<1>2. /\ Top(t) \in Frame /\ Sound(Top(t), SlotStates, jobCnt) /\ s \in Slots
      /\ PoolTyped
  BY <1>1, TopSound DEF Frame, IInv
<1>3. Fresh(SlotStates[s])
  BY <1>1, <1>2 DEF Sound
<1>4. /\ SetTop(t, f) /\ subFlg' = [subFlg EXCEPT ![s] = @ \cup WorkersOf(s)]
      /\ UNCHANGED <<mainAt, jobNum, jobCnt, subNum, subCnt, poolVars, ghostVars>>
  BY DEF RaiseFlags, Goto, WorkersOf
<1>5. f \in Frame /\ f.at = "zero" /\ f.slot = s
  BY <1>2 DEF Frame, CallLabels
<1> HIDE DEF f
<1>6. PoolTyped'
  <2>1. subFlg' \in [Slots -> SUBSET SubIds]
    BY <1>2, <1>4, SubJobsSome DEF PoolTyped
  <2>2. stack' \in [Threads -> Seq(Frame)]
    BY <1>1, <1>2, <1>4, <1>5, SetTopStack
  <2> QED BY <2>1, <2>2, <1>2, <1>4 DEF PoolTyped, poolVars, ghostVars
<1>7. \A r \in Slots \ {s} : SlotStates'[r] = SlotStates[r]
  BY <1>2, <1>4 DEF SlotStates, PoolTyped, ghostVars
<1>8. Raised(s, SlotStates'[s])
  <2>1. /\ SlotStates'[s].num = SlotStates[s].num /\ SlotStates'[s].ran = SlotStates[s].ran
        /\ SlotStates'[s].flags = SlotStates[s].flags \cup WorkersOf(s)
    BY <1>2, <1>4 DEF SlotStates, PoolTyped, ghostVars
  <2> QED BY <2>1, <1>3 DEF Fresh, Raised
<1> HIDE DEF s
<1> QED BY <1>1, <1>4, <1>5, <1>6, <1>7, <1>8, PrepareKeeps DEF s, ghostVars

LEMMA ZeroCountKeeps ==
    ASSUME IInv, NEW t \in Threads, ZeroCount(t)
    PROVE  IInv'
<1> DEFINE s == Top(t).slot
           f == [Top(t) EXCEPT !.at = "arm"]
<1>1. stack[t] # <<>> /\ Top(t).at = "zero"
  BY DEF ZeroCount, At
<1>2. /\ Top(t) \in Frame /\ Sound(Top(t), SlotStates, jobCnt) /\ s \in Slots
      /\ PoolTyped
  BY <1>1, TopSound DEF Frame, IInv
<1>3. Raised(s, SlotStates[s])
  BY <1>1, <1>2 DEF Sound
<1>4. /\ SetTop(t, f) /\ subCnt' = [subCnt EXCEPT ![s] = 0]
      /\ UNCHANGED <<mainAt, jobNum, jobCnt, subNum, subFlg, poolVars, ghostVars>>
  BY DEF ZeroCount, Goto
<1>5. f \in Frame /\ f.at = "arm" /\ f.slot = s
  BY <1>2 DEF Frame, CallLabels
<1> HIDE DEF f
<1>6. PoolTyped'
  <2>1. stack' \in [Threads -> Seq(Frame)]
    BY <1>1, <1>2, <1>4, <1>5, SetTopStack
  <2> QED BY <2>1, <1>2, <1>4 DEF PoolTyped, poolVars, ghostVars
<1>7. \A r \in Slots \ {s} : SlotStates'[r] = SlotStates[r]
  BY <1>2, <1>4 DEF SlotStates, PoolTyped, ghostVars
<1>8. Raised(s, SlotStates'[s]) /\ SlotStates'[s].cnt = 0
  <2>1. /\ SlotStates'[s].num = SlotStates[s].num /\ SlotStates'[s].ran = SlotStates[s].ran
        /\ SlotStates'[s].flags = SlotStates[s].flags /\ SlotStates'[s].cnt = 0
    BY <1>2, <1>4 DEF SlotStates, PoolTyped, ghostVars
  <2> QED BY <2>1, <1>3 DEF Raised
<1> HIDE DEF s
<1> QED BY <1>1, <1>4, <1>5, <1>6, <1>7, <1>8, PrepareKeeps DEF s, ghostVars

\* A number is taken: the other calls of the slot are behind it.
LEMMA SoundTaken ==
    ASSUME NEW f \in Frame, NEW D \in [Slots -> SlotState], NEW E \in [Slots -> SlotState],
           NEW c \in Nat, Sound(f, D, c),
           NEW s \in Slots, \A r \in Slots \ {s} : E[r] = D[r],
           E[s].num = D[s].num, E[s].flags = D[s].flags, E[s].ran = D[s].ran,
           E[s].cnt = D[s].cnt + 1,
           Open(s, D[s]) \/ Closed(s, D[s])
    PROVE  Sound(f, E, c)
<1>1. ~Fresh(D[s]) /\ ~Raised(s, D[s])
  BY StagesApart
<1>2. f.at = "job" => SlotOf[f.job] # s
  BY <1>1 DEF Sound, Slots, NoSlot
<1>3. CASE f.at \in CallLabels \cup {"stake", "stest", "srun"} => f.slot # s
  BY <1>2, <1>3, SoundElsewhere
<1>4. CASE f.at \in CallLabels \cup {"stake", "stest", "srun"} /\ f.slot = s
  <2>1. f.at \in {"swait", "stake", "stest", "srun"}
    BY <1>1, <1>4 DEF Sound, CallLabels
  <2>2. D[s].cnt \in Nat /\ f.nums[s] \in Nat /\ WorkersOf(s) \subseteq Nat
    <3>1. D[s].cnt \in Nat
      BY DEF SlotState
    <3>2. f.nums[s] \in Nat
      BY DEF Frame
    <3>3. WorkersOf(s) \subseteq Nat
      BY SubJobsSome DEF SubIds
    <3> QED BY <3>1, <3>2, <3>3
  <2>3. Open(s, D[s]) <=> Open(s, E[s])
    <3>1. \A k \in WorkersOf(s) : k < D[s].cnt => k < E[s].cnt
      BY <2>2
    <3>2. Open(s, D[s]) => Open(s, E[s])
      BY <3>1 DEF Open
    <3>3. Open(s, E[s]) => ~Closed(s, D[s])
      BY SubJobsSome DEF Open, Closed
    <3> QED BY <3>2, <3>3
  <2>4. Closed(s, D[s]) => Closed(s, E[s])
    BY DEF Closed
  <2>5. f.at \in {"stest", "srun"} => f.nums[s] < E[s].cnt
    BY <1>4, <2>2 DEF Sound
  <2> QED BY <1>4, <2>1, <2>3, <2>4, <2>5 DEF Sound, CoreLabels, CallLabels
<1> QED BY <1>3, <1>4

\* A sub-job is done: no other call has its number.
LEMMA SoundDone ==
    ASSUME NEW f \in Frame, NEW D \in [Slots -> SlotState], NEW E \in [Slots -> SlotState],
           NEW c \in Nat, Sound(f, D, c),
           NEW s \in Slots, \A r \in Slots \ {s} : E[r] = D[r],
           NEW k, k \in D[s].flags, k < D[s].cnt,
           E[s].num = D[s].num, E[s].flags = D[s].flags \ {k},
           E[s].ran = [D[s].ran EXCEPT ![k] = @ + 1],
           E[s].cnt = D[s].cnt,
           Open(s, D[s]), ~Takes(f, s, k)
    PROVE  Open(s, E[s]) /\ Sound(f, E, c)
<1>1. ~Fresh(D[s]) /\ ~Raised(s, D[s])
  BY StagesApart
<1>2. f.at = "job" => SlotOf[f.job] # s
  BY <1>1 DEF Sound, Slots, NoSlot
<1>3. Open(s, E[s])
  <2>1. D[s].ran \in [SubIds -> Nat] /\ WorkersOf(s) \subseteq SubIds /\ D[s].ran[k] = 0
    BY SubJobsSome DEF SlotState, Open
  <2>2. \A m \in WorkersOf(s) : E[s].ran[m] = IF m = k THEN 1 ELSE D[s].ran[m]
    BY <2>1
  <2> QED BY <2>2 DEF Open
<1>4. CASE f.at \in CallLabels \cup {"stake", "stest", "srun"} => f.slot # s
  BY <1>2, <1>3, <1>4, SoundElsewhere
<1>5. CASE f.at \in CallLabels \cup {"stake", "stest", "srun"} /\ f.slot = s
  <2>1. f.at \in {"swait", "stake", "stest", "srun"}
    BY <1>1, <1>5 DEF Sound, CallLabels
  <2>2. f.at \in {"stest", "srun"} => f.nums[s] # k
    BY <1>5 DEF Takes
  <2> QED BY <1>3, <1>5, <2>1, <2>2 DEF Sound, CoreLabels, CallLabels
<1> QED BY <1>3, <1>4, <1>5

\* What the calls on top rely on, when slots stay closed.
LEMMA FinishKeeps ==
    ASSUME IInv, InBlock,
           \A r \in Slots : Closed(r, SlotStates[r]) => Closed(r, SlotStates'[r])
    PROVE  \A u \in Threads : At(u, "finish") =>
              Closed(SlotOf[Top(u).job], SlotStates'[SlotOf[Top(u).job]])
<1> SUFFICES ASSUME NEW u \in Threads, At(u, "finish")
             PROVE  Closed(SlotOf[Top(u).job], SlotStates'[SlotOf[Top(u).job]])
  OBVIOUS
<1>1. Sound(Top(u), SlotStates, jobCnt) /\ Top(u).at = "finish" /\ Block
  BY TopSound DEF At
<1>2. SlotOf[Top(u).job] \in Slots
  BY <1>1, PoolAssumption DEF Sound
<1> QED BY <1>1, <1>2 DEF Block, StacksSound

LEMMA TakeSubKeeps ==
    ASSUME IInv, NEW t \in Threads, TakeSub(t)
    PROVE  IInv'
<1> DEFINE s == Top(t).slot
           d == SlotStates[s]
           f == [Top(t) EXCEPT !.nums[s] = subCnt[s], !.at = "stest"]
<1>1. stack[t] # <<>> /\ Top(t).at = "stake"
  BY DEF TakeSub, At
<1>2. /\ Top(t) \in Frame /\ Sound(Top(t), SlotStates, jobCnt) /\ s \in Slots
      /\ PoolTyped /\ Block /\ InBlock /\ SlotStates \in [Slots -> SlotState]
      /\ stack \in [Threads -> Seq(Frame)] /\ subCnt[s] \in Nat /\ d.cnt = subCnt[s]
      /\ jobCnt \in Nat
  BY <1>1, TopSound, SlotStatesTyped DEF Frame, IInv, PoolTyped, SlotStates
<1>3. Open(s, d) \/ Closed(s, d)
  BY <1>1, <1>2 DEF Sound
<1>4. /\ SetTop(t, f) /\ subCnt' = [subCnt EXCEPT ![s] = @ + 1]
      /\ UNCHANGED <<mainAt, jobNum, jobCnt, subNum, subFlg, poolVars, ghostVars>>
  BY DEF TakeSub
<1>5. /\ f \in Frame /\ f.at = "stest" /\ f.slot = s /\ f.job = Top(t).job
      /\ f.nums[s] = subCnt[s]
  BY <1>2 DEF Frame, CoreLabels
<1> HIDE DEF f
<1>6. PoolTyped'
  <2>1. stack' \in [Threads -> Seq(Frame)]
    BY <1>1, <1>2, <1>4, <1>5, SetTopStack
  <2> QED BY <2>1, <1>2, <1>4 DEF PoolTyped, poolVars, ghostVars
<1>7. /\ SlotStates' \in [Slots -> SlotState]
      /\ \A r \in Slots \ {s} : SlotStates'[r] = SlotStates[r]
  BY <1>2, <1>4, <1>6 DEF SlotStates, SlotState, PoolTyped, ghostVars
<1>8. LET e == SlotStates'[s] IN
         e.num = d.num /\ e.flags = d.flags /\ e.ran = d.ran /\ e.cnt = d.cnt + 1
  BY <1>2, <1>4 DEF SlotStates, PoolTyped, ghostVars
<1> HIDE DEF s, d
<1>9. ASSUME NEW u \in Threads, NEW i \in 1..Len(stack[u])
      PROVE  /\ Sound(stack[u][i], SlotStates', jobCnt)
             /\ \A m \in Nat : Takes(stack[u][i], s, m) => m # subCnt[s]
  <2>1. Sound(stack[u][i], SlotStates, jobCnt) /\ stack[u][i] \in Frame
    BY <1>2, ElementOfSeq DEF Block, StacksSound
  <2>2. Sound(stack[u][i], SlotStates', jobCnt)
    BY <2>1, <1>2, <1>3, <1>7, <1>8, SoundTaken DEF d
  <2>3. ASSUME NEW m \in Nat, Takes(stack[u][i], s, m)
        PROVE  m # subCnt[s]
    <3>1. m < SlotStates[s].cnt
      BY <2>1, <2>3 DEF Sound, Takes
    <3> QED BY <3>1, <1>2 DEF d
  <2> QED BY <2>2, <2>3
<1>10. /\ Open(s, SlotStates'[s]) \/ Closed(s, SlotStates'[s])
       /\ Open(s, SlotStates'[s]) => Open(s, d)
  <2>1. Sound(Top(t), SlotStates', jobCnt)
    BY <1>1, <1>9, TopSound
  <2>2. Open(s, SlotStates'[s]) => ~Closed(s, d)
    BY <1>2, <1>8, SubJobsSome DEF Open, Closed
  <2> QED BY <2>1, <2>2, <1>1, <1>3 DEF Sound, s
<1>11. Sound(f, SlotStates', jobCnt)
  <2>1. f.job < jobCnt
    BY <1>1, <1>2, <1>5 DEF Sound, CoreLabels
  <2>2. f.nums[s] < SlotStates'[s].cnt
    BY <1>2, <1>5, <1>8
  <2>3. ASSUME Open(s, SlotStates'[s]), f.nums[s] < SubJobs[s]
        PROVE  f.nums[s] \in SlotStates'[s].flags
    <3>1. f.nums[s] \in WorkersOf(s)
      BY <2>3, <1>2, <1>5, SubJobsSome DEF WorkersOf
    <3>2. ~(f.nums[s] < d.cnt)
      BY <1>2, <1>5
    <3> QED BY <3>1, <3>2, <2>3, <1>8, <1>10 DEF Open
  <2> QED BY <2>1, <2>2, <2>3, <1>5, <1>10 DEF Sound, CoreLabels, CallLabels
<1>12. \A r \in Slots : Closed(r, SlotStates[r]) => Closed(r, SlotStates'[r])
  BY <1>7, <1>8 DEF Closed, d
<1>13. SlotsOwned'
  <2>1. ~Fresh(d)
    BY <1>2, <1>3, StagesApart DEF d
  <2> QED BY <2>1, <1>2, <1>4, <1>7, <1>12, OwnedKeeps DEF d, ghostVars
<1>14. \A r \in Slots, m \in Nat : Takes(f, r, m) => r = s /\ m = subCnt[s]
  BY <1>5 DEF Takes
<1>15. \A r \in Slots, m \in Nat : Takes(f, r, m) =>
          \A u \in Threads : \A i \in 1..Len(stack[u]) : ~Takes(stack[u][i], r, m)
  BY <1>9, <1>14
<1>16. \A u \in Threads : At(u, "finish") =>
          Closed(SlotOf[Top(u).job], SlotStates'[SlotOf[Top(u).job]])
  BY <1>2, <1>12, FinishKeeps
<1>17. UNCHANGED <<mainAt, poolVars, jobNum, jobCnt, ran>>
  BY <1>4 DEF ghostVars
<1>18. /\ Top(t).at \notin {"job", "finish", "swait"} /\ f.at \notin {"job", "finish"}
       /\ f.at \in CoreLabels <=> Top(t).at \in CoreLabels
       /\ f.at \notin CallLabels
  BY <1>1, <1>5 DEF CoreLabels, CallLabels
<1> QED
  BY <1>1, <1>4, <1>5, <1>6, <1>9, <1>11, <1>13, <1>15, <1>16, <1>17, <1>18, GoOnKeeps

LEMMA FinishSubKeeps ==
    ASSUME IInv, NEW t \in Threads, FinishSub(t)
    PROVE  IInv'
<1> DEFINE s == Top(t).slot
           d == SlotStates[s]
           k == Top(t).nums[s]
           f == [Top(t) EXCEPT !.at = "stake"]
<1>1. stack[t] # <<>> /\ Top(t).at = "srun"
  BY DEF FinishSub, At
<1>2. /\ Top(t) \in Frame /\ Sound(Top(t), SlotStates, jobCnt) /\ s \in Slots
      /\ PoolTyped /\ Block /\ InBlock /\ SlotStates \in [Slots -> SlotState]
      /\ stack \in [Threads -> Seq(Frame)] /\ k \in Nat /\ jobCnt \in Nat
      /\ Top(t) = stack[t][Len(stack[t])] /\ Len(stack[t]) \in 1..Len(stack[t])
  <2>1. /\ Top(t) \in Frame /\ Sound(Top(t), SlotStates, jobCnt) /\ Block /\ InBlock
        /\ Top(t) = stack[t][Len(stack[t])] /\ Len(stack[t]) \in 1..Len(stack[t])
    BY <1>1, TopSound
  <2>2. s \in Slots /\ k \in Nat
    BY <2>1 DEF Frame
  <2>3. PoolTyped /\ stack \in [Threads -> Seq(Frame)] /\ jobCnt \in Nat
    BY DEF IInv, PoolTyped
  <2> QED BY <2>1, <2>2, <2>3, SlotStatesTyped
<1>3. Open(s, d) /\ k \in d.flags /\ k < d.cnt
  BY <1>1, <1>2 DEF Sound
<1>4. k \in SubIds
  BY <1>3, <1>2 DEF SlotState
<1>5. /\ SetTop(t, f) /\ subRan' = [subRan EXCEPT ![s][k] = @ + 1]
      /\ subFlg' = [subFlg EXCEPT ![s] = @ \ {k}]
      /\ UNCHANGED <<mainAt, jobNum, jobCnt, subNum, subCnt, poolVars, ran>>
  BY DEF FinishSub, Goto
<1>6. /\ f \in Frame /\ f.at = "stake" /\ f.slot = s /\ f.job = Top(t).job
  BY <1>2 DEF Frame, CoreLabels
<1> HIDE DEF f
<1>7. PoolTyped'
  <2>1. stack' \in [Threads -> Seq(Frame)]
    BY <1>1, <1>2, <1>5, <1>6, SetTopStack
  <2>2. subRan' \in [Slots -> [SubIds -> Nat]] /\ subFlg' \in [Slots -> SUBSET SubIds]
    BY <1>2, <1>4, <1>5 DEF PoolTyped
  <2> QED BY <2>1, <2>2, <1>2, <1>5 DEF PoolTyped, poolVars
<1>8. /\ SlotStates' \in [Slots -> SlotState]
      /\ \A r \in Slots \ {s} : SlotStates'[r] = SlotStates[r]
  BY <1>2, <1>5, <1>7 DEF SlotStates, SlotState, PoolTyped
<1>9. LET e == SlotStates'[s] IN
         /\ e.num = d.num /\ e.flags = d.flags \ {k} /\ e.cnt = d.cnt
         /\ e.ran = [d.ran EXCEPT ![k] = @ + 1]
  BY <1>2, <1>5 DEF SlotStates, PoolTyped
<1>10. Takes(Top(t), s, k)
  BY <1>1 DEF Takes
<1> HIDE DEF s, d, k
<1>11. ASSUME NEW g \in Frame, Sound(g, SlotStates, jobCnt), ~Takes(g, s, k)
       PROVE  Open(s, SlotStates'[s]) /\ Sound(g, SlotStates', jobCnt)
  BY <1>11, <1>2, <1>3, <1>8, <1>9, SoundDone DEF d
<1>12. ASSUME NEW u \in Threads, NEW i \in 1..Len(stack[u]), u # t \/ i # Len(stack[t])
       PROVE  Sound(stack[u][i], SlotStates', jobCnt)
  <2>1. Sound(stack[u][i], SlotStates, jobCnt) /\ stack[u][i] \in Frame
    BY <1>2, ElementOfSeq DEF Block, StacksSound
  <2>2. ~Takes(stack[u][i], s, k)
    <3>1. CASE u # t
      BY <3>1, <1>2, <1>10 DEF Block, OneTaker
    <3>2. CASE u = t
      <4> DEFINE n == Len(stack[t])
      <4>1. n \in Nat /\ i \in 1..n /\ i # n /\ Nested(stack[t])
        BY <3>2, <1>2, <1>12 DEF Block, StacksSound
      <4> HIDE DEF n
      <4>2. i \in 1..(n - 1)
        BY <4>1
      <4>3. stack[t][i].at \in {"finish", "swait"}
        BY <4>1, <4>2 DEF Nested, n
      <4> QED BY <4>3, <3>2 DEF Takes
    <3> QED BY <3>1, <3>2
  <2> QED BY <2>1, <2>2, <1>11
<1>13. Open(s, SlotStates'[s]) /\ Sound(f, SlotStates', jobCnt)
  <2>1. ~Takes(f, s, k)
    BY <1>6 DEF Takes
  <2>2. f.job < jobCnt
    BY <1>1, <1>2, <1>6 DEF Sound, CoreLabels
  <2>3. Sound(f, SlotStates, jobCnt)
    BY <2>2, <1>3, <1>6 DEF Sound, CoreLabels, CallLabels, d
  <2> QED BY <2>1, <2>3, <1>6, <1>11
<1>14. ~Fresh(d) /\ ~Closed(s, d)
  BY <1>2, <1>3, StagesApart DEF d
<1>15. \A r \in Slots : Closed(r, SlotStates[r]) => Closed(r, SlotStates'[r])
  BY <1>8, <1>14 DEF d
<1>16. SlotsOwned'
  BY <1>2, <1>5, <1>8, <1>14, <1>15, OwnedKeeps DEF d
<1>17. \A r \in Slots, m \in Nat : ~Takes(f, r, m)
  BY <1>6 DEF Takes
<1>18. \A u \in Threads : At(u, "finish") =>
          Closed(SlotOf[Top(u).job], SlotStates'[SlotOf[Top(u).job]])
  BY <1>2, <1>15, FinishKeeps
<1>19. /\ Top(t).at \notin {"job", "finish", "swait"} /\ f.at \notin {"job", "finish"}
       /\ f.at \in CoreLabels <=> Top(t).at \in CoreLabels
       /\ f.at \notin CallLabels
  BY <1>1, <1>6 DEF CoreLabels, CallLabels
<1> QED
  BY <1>1, <1>5, <1>6, <1>7, <1>12, <1>13, <1>16, <1>17, <1>18, <1>19, GoOnKeeps

-----------------------------------------------------------------------------
(* Steps of a job.                                                          *)

\* compute_thread_job_cnt counts on: what is written of the calls holds later.
LEMMA LaterKeeps ==
    ASSUME IInv, NEW u \in Threads, NEW i \in 1..Len(stack[u]), Block,
           SlotStates' = SlotStates, jobCnt' \in Nat, jobCnt <= jobCnt'
    PROVE  Sound(stack[u][i], SlotStates', jobCnt')
<1>1. Sound(stack[u][i], SlotStates, jobCnt) /\ stack[u][i] \in Frame /\ jobCnt \in Nat
  BY ElementOfSeq DEF IInv, PoolTyped, Block, StacksSound
<1> QED BY <1>1, SoundLater

LEMMA TakeJobKeeps ==
    ASSUME IInv, NEW t \in Threads, TakeJob(t)
    PROVE  IInv'
<1> DEFINE n == Len(stack[t])
           f == [CoreFrame EXCEPT !.job = jobCnt,
                     !.at = IF jobCnt < jobNum THEN "job" ELSE "sub"]
<1>1. stack[t] # <<>> /\ Top(t).at = "take"
  BY DEF TakeJob, At
<1>2. /\ Block /\ InBlock /\ Top(t) = stack[t][n] /\ n \in Nat \ {0} /\ n \in 1..n
      /\ stack \in [Threads -> Seq(Frame)] /\ jobCnt \in Nat /\ PoolTyped
      /\ jobNum = Jobs /\ Jobs \in Nat /\ JobIds \subseteq Nat
  BY <1>1, TopSound, PoolAssumption DEF IInv, PoolTyped, Block, JobsCounted, JobIds
<1>3. /\ SetTop(t, f) /\ jobCnt' = jobCnt + 1
      /\ UNCHANGED <<mainAt, jobNum, subNum, subCnt, subFlg, poolVars, ghostVars>>
  BY DEF TakeJob
<1>4. /\ f \in Frame /\ f.job = jobCnt /\ f.at \in {"job", "sub"}
      /\ f.at = "job" <=> jobCnt < Jobs
  BY <1>2 DEF CoreFrame, Frame, CoreLabels, Slots
<1> HIDE DEF f
<1>5. /\ stack' \in [Threads -> Seq(Frame)]
      /\ \A u \in Threads : Len(stack'[u]) = Len(stack[u])
      /\ stack'[t][n] = f
      /\ \A u \in Threads : \A i \in 1..Len(stack[u]) :
            (u # t \/ i # n) => stack'[u][i] = stack[u][i]
  BY <1>1, <1>2, <1>3, <1>4, SetTopStack
<1>6. PoolTyped'
  BY <1>2, <1>3, <1>5 DEF PoolTyped, poolVars, ghostVars
<1>7. SlotStates' = SlotStates
  BY <1>3 DEF SlotStates, ghostVars
<1>8. jobCnt' \in Nat /\ jobCnt <= jobCnt'
  BY <1>2, <1>3
<1>9. ASSUME f.at = "job"
      PROVE  jobCnt \in JobIds
  BY <1>2, <1>4, <1>9 DEF JobIds
<1>10. Sound(f, SlotStates', jobCnt')
  <2>1. ASSUME f.at = "job", SlotOf[jobCnt] # NoSlot
        PROVE  Fresh(SlotStates[SlotOf[jobCnt]])
    BY <1>2, <1>9, <2>1 DEF Block, SlotsOwned
  <2>2. f.job < jobCnt'
    BY <1>2, <1>3, <1>4
  <2> QED BY <2>1, <2>2, <1>4, <1>7, <1>9 DEF Sound, CoreLabels, CallLabels
<1>11. \A u \in Threads : \A i \in 1..Len(stack[u]) :
          Sound(stack[u][i], SlotStates', jobCnt')
  BY <1>2, <1>7, <1>8, LaterKeeps
<1>12. \A s \in Slots, m \in Nat : ~Takes(f, s, m)
  BY <1>4 DEF Takes
<1>13. \A u \in Threads : At(u, "finish") =>
          Closed(SlotOf[Top(u).job], SlotStates'[SlotOf[Top(u).job]])
  BY <1>2, <1>7 DEF Block, StacksSound
<1>14. /\ f.at # "finish" /\ f.at \notin CallLabels
       /\ f.at \in CoreLabels <=> Top(t).at \in CoreLabels
  BY <1>1, <1>4 DEF CoreLabels, CallLabels
<1>15. Asleep' /\ InBlock' /\ StacksSound' /\ OneTaker'
  BY <1>1, <1>3, <1>4, <1>10, <1>11, <1>12, <1>13, <1>14, SetTopKeeps
<1>16. ASSUME NEW u \in Threads, NEW i \in 1..Len(stack[u]), NEW j \in JobIds
       PROVE  Holds(stack'[u][i], j) <=>
                 \/ Holds(stack[u][i], j)
                 \/ u = t /\ i = n /\ j = jobCnt
  <2>1. CASE u = t /\ i = n
    <3>1. ~Holds(stack[u][i], j)
      BY <2>1, <1>1, <1>2 DEF Holds
    <3>2. Holds(f, j) <=> j = jobCnt
      BY <1>2, <1>4 DEF Holds, JobIds
    <3> QED BY <3>1, <3>2, <2>1, <1>5
  <2>2. CASE ~(u = t /\ i = n)
    BY <2>2, <1>5
  <2> QED BY <2>1, <2>2
<1>17. ASSUME NEW u \in Threads, NEW i \in 1..Len(stack[u]), NEW j \in JobIds,
              Holds(stack[u][i], j)
       PROVE  j # jobCnt
  <2>1. Sound(stack[u][i], SlotStates, jobCnt)
    BY <1>2 DEF Block, StacksSound
  <2>2. j < jobCnt
    BY <1>17, <2>1 DEF Sound, Holds, CoreLabels
  <2> QED BY <2>2, <1>2
<1>18. OneHolder'
  <2> SUFFICES ASSUME NEW u \in Threads, NEW v \in Threads,
                      NEW i \in 1..Len(stack[u]), NEW k \in 1..Len(stack[v]),
                      NEW j \in JobIds, Holds(stack'[u][i], j), Holds(stack'[v][k], j)
               PROVE  u = v /\ i = k
    BY <1>5 DEF OneHolder
  <2> QED BY <1>2, <1>16, <1>17 DEF Block, OneHolder
<1>19. JobsCounted'
  <2>1. ASSUME NEW j \in JobIds, ran[j] = 1
        PROVE  /\ j < jobCnt'
               /\ \A u \in Threads : \A i \in 1..Len(stack'[u]) : ~Holds(stack'[u][i], j)
    <3>1. j \in Nat /\ j < jobCnt
      BY <1>2, <2>1 DEF Block, JobsCounted
    <3>2. \A u \in Threads : \A i \in 1..Len(stack[u]) : ~Holds(stack[u][i], j)
      BY <1>2, <2>1 DEF Block, JobsCounted
    <3> QED BY <3>1, <3>2, <1>2, <1>3, <1>5, <1>16
  <2>2. ASSUME NEW j \in JobIds, ran[j] = 0, j < jobCnt'
        PROVE  \E u \in Threads : \E i \in 1..Len(stack'[u]) : Holds(stack'[u][i], j)
    <3>1. CASE j < jobCnt
      <4>1. \E u \in Threads : \E i \in 1..Len(stack[u]) : Holds(stack[u][i], j)
        BY <1>2, <2>2, <3>1 DEF Block, JobsCounted
      <4> QED BY <4>1, <1>5, <1>16
    <3>2. CASE ~(j < jobCnt)
      <4>1. j = jobCnt
        BY <1>2, <1>3, <2>2, <3>2
      <4> QED BY <4>1, <1>2, <1>5, <1>16
    <3> QED BY <3>1, <3>2
  <2>3. ASSUME mainAt' = "core", stack'[Main] = <<>>
        PROVE  jobCnt' >= Jobs
    <3>1. stack[Main] = <<>>
      BY <2>3, <1>2, <1>5 DEF Threads
    <3>2. jobCnt >= Jobs
      BY <3>1, <2>3, <1>2, <1>3 DEF Block, JobsCounted
    <3> QED BY <3>2, <1>2, <1>3
  <2>4. ran' = ran /\ jobNum' = Jobs /\ \A j \in JobIds : ran[j] \in {0, 1}
    BY <1>2, <1>3 DEF Block, JobsCounted, ghostVars
  <2> QED BY <2>1, <2>2, <2>3, <2>4 DEF JobsCounted
<1>20. SlotsOwned'
  <2>1. \A j \in JobIds : j >= jobCnt' => j >= jobCnt
    BY <1>2, <1>3
  <2> QED BY <2>1, <1>2, <1>3, <1>7 DEF Block, SlotsOwned, ghostVars
<1> QED BY <1>6, <1>15, <1>18, <1>19, <1>20 DEF IInv, Block

\* The job is counted, and its slot is closed.
LEMMA FinishJobKeeps ==
    ASSUME IInv, NEW t \in Threads, FinishJob(t)
    PROVE  IInv'
<1> DEFINE n == Len(stack[t])
           f == [Top(t) EXCEPT !.at = "sub"]
           h == Top(t).job
<1>1. /\ stack[t] # <<>> /\ Top(t).at \in {"job", "finish"}
      /\ Top(t).at = "job" => SlotOf[h] = NoSlot
      /\ Top(t).at = "finish" => At(t, "finish")
  BY DEF FinishJob, At
<1>2. /\ Block /\ InBlock /\ Top(t) = stack[t][n] /\ n \in Nat \ {0} /\ n \in 1..n
      /\ stack \in [Threads -> Seq(Frame)] /\ jobCnt \in Nat /\ PoolTyped
      /\ Top(t) \in Frame /\ Sound(Top(t), SlotStates, jobCnt)
  BY <1>1, TopSound DEF IInv, PoolTyped
<1>3. h \in JobIds /\ h < jobCnt /\ Holds(Top(t), h)
  BY <1>1, <1>2 DEF Sound, CoreLabels, Holds
<1>4. ran[h] = 0 /\ ran \in [JobIds -> Nat]
  BY <1>2, <1>3 DEF Block, JobsCounted, PoolTyped
<1>5. /\ SetTop(t, f) /\ ran' = [ran EXCEPT ![h] = @ + 1]
      /\ UNCHANGED <<mainAt, sharedVars, poolVars, subRan>>
  BY DEF FinishJob, Goto
<1>6. f \in Frame /\ f.job = h /\ f.at = "sub"
  BY <1>2 DEF Frame, CoreLabels
<1>7. \A j \in JobIds : ran'[j] = IF j = h THEN 1 ELSE ran[j]
  BY <1>3, <1>4, <1>5
<1> HIDE DEF f, h
<1>8. /\ stack' \in [Threads -> Seq(Frame)]
      /\ \A u \in Threads : Len(stack'[u]) = Len(stack[u])
      /\ stack'[t][n] = f
      /\ \A u \in Threads : \A i \in 1..Len(stack[u]) :
            (u # t \/ i # n) => stack'[u][i] = stack[u][i]
  BY <1>1, <1>2, <1>5, <1>6, SetTopStack
<1>9. PoolTyped'
  <2>1. ran' \in [JobIds -> Nat]
    BY <1>3, <1>4, <1>5
  <2> QED BY <2>1, <1>2, <1>5, <1>8 DEF PoolTyped, poolVars, sharedVars
<1>10. SlotStates' = SlotStates /\ jobCnt' = jobCnt
  BY <1>5 DEF SlotStates, sharedVars
<1>11. Sound(f, SlotStates', jobCnt')
  BY <1>3, <1>6, <1>10 DEF Sound, CoreLabels, CallLabels
<1>12. \A u \in Threads : \A i \in 1..Len(stack[u]) :
          Sound(stack[u][i], SlotStates', jobCnt')
  BY <1>2, <1>10 DEF Block, StacksSound
<1>13. \A s \in Slots, m \in Nat : ~Takes(f, s, m)
  BY <1>6 DEF Takes
<1>14. \A u \in Threads : At(u, "finish") =>
          Closed(SlotOf[Top(u).job], SlotStates'[SlotOf[Top(u).job]])
  BY <1>2, <1>10 DEF Block, StacksSound
<1>15. /\ f.at # "finish" /\ f.at \notin CallLabels
       /\ f.at \in CoreLabels <=> Top(t).at \in CoreLabels
  BY <1>1, <1>6 DEF CoreLabels, CallLabels
<1>16. Asleep' /\ InBlock' /\ StacksSound' /\ OneTaker'
  BY <1>1, <1>5, <1>6, <1>11, <1>12, <1>13, <1>14, <1>15, SetTopKeeps
<1>17. ASSUME NEW u \in Threads, NEW i \in 1..Len(stack[u]), NEW j \in JobIds
       PROVE  Holds(stack'[u][i], j) <=> Holds(stack[u][i], j) /\ j # h
  <2>1. CASE u = t /\ i = n
    <3>1. ~Holds(f, j)
      BY <1>6 DEF Holds
    <3>2. Holds(stack[u][i], j) => j = h
      BY <2>1, <1>2 DEF Holds, h
    <3> QED BY <3>1, <3>2, <2>1, <1>8
  <2>2. CASE ~(u = t /\ i = n)
    <3>1. Holds(stack[u][i], h) => u = t /\ i = n
      BY <1>2, <1>3 DEF Block, OneHolder
    <3> QED BY <3>1, <2>2, <1>8
  <2> QED BY <2>1, <2>2
<1>18. OneHolder'
  <2> SUFFICES ASSUME NEW u \in Threads, NEW v \in Threads,
                      NEW i \in 1..Len(stack[u]), NEW k \in 1..Len(stack[v]),
                      NEW j \in JobIds, Holds(stack'[u][i], j), Holds(stack'[v][k], j)
               PROVE  u = v /\ i = k
    BY <1>8 DEF OneHolder
  <2> QED BY <1>2, <1>17 DEF Block, OneHolder
<1>19. JobsCounted'
  <2>1. ASSUME NEW j \in JobIds, ran'[j] = 1
        PROVE  /\ j < jobCnt'
               /\ \A u \in Threads : \A i \in 1..Len(stack'[u]) : ~Holds(stack'[u][i], j)
    <3>1. CASE j = h
      BY <3>1, <1>3, <1>8, <1>10, <1>17
    <3>2. CASE j # h
      <4>1. ran[j] = 1
        BY <2>1, <3>2, <1>7
      <4>2. j < jobCnt
        BY <4>1, <1>2 DEF Block, JobsCounted
      <4>3. \A u \in Threads : \A i \in 1..Len(stack[u]) : ~Holds(stack[u][i], j)
        BY <4>1, <1>2 DEF Block, JobsCounted
      <4> QED BY <4>2, <4>3, <1>8, <1>10, <1>17
    <3> QED BY <3>1, <3>2
  <2>2. ASSUME NEW j \in JobIds, ran'[j] = 0, j < jobCnt'
        PROVE  \E u \in Threads : \E i \in 1..Len(stack'[u]) : Holds(stack'[u][i], j)
    <3>1. j # h /\ ran[j] = 0
      BY <2>2, <1>7
    <3>2. \E u \in Threads : \E i \in 1..Len(stack[u]) : Holds(stack[u][i], j)
      BY <1>2, <1>10, <2>2, <3>1 DEF Block, JobsCounted
    <3> QED BY <3>1, <3>2, <1>8, <1>17
  <2>3. ASSUME mainAt' = "core", stack'[Main] = <<>>
        PROVE  jobCnt' >= Jobs
    <3>1. stack[Main] = <<>>
      BY <2>3, <1>2, <1>8 DEF Threads
    <3> QED BY <3>1, <2>3, <1>2, <1>5, <1>10 DEF Block, JobsCounted
  <2>4. jobNum' = Jobs /\ \A j \in JobIds : ran'[j] \in {0, 1}
    BY <1>2, <1>5, <1>7 DEF Block, JobsCounted, sharedVars
  <2> QED BY <2>1, <2>2, <2>3, <2>4 DEF JobsCounted
<1>20. SlotsOwned'
  <2>1. ASSUME SlotOf[h] # NoSlot
        PROVE  Closed(SlotOf[h], SlotStates[SlotOf[h]])
    BY <2>1, <1>1, <1>2 DEF Block, StacksSound, h
  <2> QED BY <2>1, <1>2, <1>7, <1>10 DEF Block, SlotsOwned
<1> QED BY <1>9, <1>16, <1>18, <1>19, <1>20 DEF IInv, Block

-----------------------------------------------------------------------------
(* Calls and returns.                                                       *)

LEMMA PushKeeps ==
    ASSUME IInv, PoolTyped', NEW t \in Threads, stack[t] # <<>>,
           NEW g \in Frame, NEW label \in {"finish", "swait"}, Push(t, g, label),
           UNCHANGED <<mainAt, poolVars, jobNum, jobCnt, ran>>,
           Top(t).at \notin {"stest", "srun"}, g.at \notin {"job", "finish", "stest", "srun"},
           \/ /\ label = "finish" /\ Top(t).at = "job"
              /\ g.at \in CallLabels /\ g.slot = SlotOf[Top(t).job]
           \/ /\ label = "swait" /\ Top(t).at \in CallLabels /\ g.at \in CoreLabels,
           \A u \in Threads : \A i \in 1..Len(stack[u]) : u # t \/ i # Len(stack[t]) =>
              Sound(stack[u][i], SlotStates', jobCnt),
           Sound([Top(t) EXCEPT !.at = label], SlotStates', jobCnt),
           Sound(g, SlotStates', jobCnt),
           \A u \in Threads : At(u, "finish") =>
              Closed(SlotOf[Top(u).job], SlotStates'[SlotOf[Top(u).job]]),
           SlotsOwned'
    PROVE  IInv'
<1> DEFINE n == Len(stack[t])
           f == [Top(t) EXCEPT !.at = label]
<1>1. /\ Block /\ InBlock /\ Top(t) = stack[t][n] /\ n \in Nat \ {0} /\ n \in 1..n
      /\ stack \in [Threads -> Seq(Frame)] /\ Top(t) \in Frame
  BY TopSound DEF IInv, PoolTyped
<1>2. f.at = label /\ f.job = Top(t).job /\ f.slot = Top(t).slot
  BY <1>1 DEF Frame
<1>3. /\ stack' \in [Threads -> Seq(Frame)] /\ Len(stack'[t]) = n + 1
      /\ \A u \in Threads \ {t} : stack'[u] = stack[u]
      /\ stack'[t][n] = f /\ stack'[t][n + 1] = g
      /\ \A i \in 1..(n - 1) : stack'[t][i] = stack[t][i]
  <2>1. PoolTyped /\ label \in CoreLabels \cup CallLabels
    BY DEF IInv, CoreLabels, CallLabels
  <2> QED BY <2>1, PushStack
<1> HIDE DEF f
<1>4. ASSUME NEW i \in 1..Len(stack'[t])
      PROVE  \/ i \in 1..(n - 1) /\ i \in 1..n /\ i # n
             \/ i = n /\ n \in 1..n
             \/ i = n + 1
  <2> HIDE DEF n
  <2> QED BY <1>1, <1>3
<1>5. Asleep' /\ InBlock'
  BY <1>3, AsleepKeeps
<1>6. ASSUME NEW u \in Threads, NEW i \in 1..Len(stack'[u])
      PROVE  Sound(stack'[u][i], SlotStates', jobCnt')
  <2>1. CASE u # t
    BY <2>1, <1>3
  <2>2. CASE u = t
    BY <2>2, <1>2, <1>3, <1>4 DEF f
  <2> QED BY <2>1, <2>2
<1>7. ASSUME NEW u \in Threads
      PROVE  Nested(stack'[u])
  <2>1. Nested(stack[u])
    BY <1>1 DEF Block, StacksSound
  <2>2. CASE u # t
    BY <2>1, <2>2, <1>3
  <2>3. CASE u = t
    <3> HIDE DEF n
    <3>1. stack[t] # <<>> /\ n = Len(stack[t])
      BY DEF n
    <3>2. stack[t][1].at \in CoreLabels
      BY <2>1, <2>3, <3>1 DEF Nested
    <3>3. stack'[t][1].at \in CoreLabels
      <4>1. CASE n = 1
        BY <4>1, <1>1, <1>2, <1>3, <3>2 DEF CoreLabels, CallLabels
      <4>2. CASE n # 1
        <5>1. 1 \in 1..(n - 1)
          BY <4>2, <1>1
        <5> QED BY <5>1, <1>3, <3>2
      <4> QED BY <4>1, <4>2
    <3>4. ASSUME NEW i \in 1..n
          PROVE  \/ /\ stack'[t][i].at = "finish" /\ stack'[t][i + 1].at \in CallLabels
                    /\ stack'[t][i + 1].slot = SlotOf[stack'[t][i].job]
                 \/ stack'[t][i].at = "swait" /\ stack'[t][i + 1].at \in CoreLabels
      <4>1. CASE i = n
        BY <4>1, <1>2, <1>3
      <4>2. CASE i # n
        <5>1. i \in 1..(n - 1) /\ i + 1 \in 1..n /\ (i + 1 # n => i + 1 \in 1..(n - 1))
          BY <4>2, <1>1
        <5>2. \/ /\ stack[t][i].at = "finish" /\ stack[t][i + 1].at \in CallLabels
                 /\ stack[t][i + 1].slot = SlotOf[stack[t][i].job]
              \/ stack[t][i].at = "swait" /\ stack[t][i + 1].at \in CoreLabels
          BY <5>1, <2>1, <2>3, <3>1 DEF Nested
        <5>3. stack'[t][i] = stack[t][i]
          BY <5>1, <1>3
        <5>4. CASE i + 1 # n
          BY <5>1, <5>2, <5>3, <5>4, <1>3
        <5>5. CASE i + 1 = n
          <6>1. /\ Top(t).at \in CallLabels <=> f.at \in CallLabels
                /\ Top(t).at \in CoreLabels <=> f.at \in CoreLabels
            BY <1>2 DEF CoreLabels, CallLabels
          <6> QED BY <6>1, <5>2, <5>3, <5>5, <1>1, <1>2, <1>3
        <5> QED BY <5>4, <5>5
      <4> QED BY <4>1, <4>2
    <3>5. Len(stack'[t]) - 1 = n
      BY <1>1, <1>3
    <3> QED BY <2>3, <3>3, <3>4, <3>5 DEF Nested
  <2> QED BY <2>2, <2>3
<1>8. ASSUME NEW u \in Threads, stack'[u] # <<>>, stack'[u][Len(stack'[u])].at = "finish"
      PROVE  LET j == stack'[u][Len(stack'[u])].job IN
             Closed(SlotOf[j], SlotStates'[SlotOf[j]])
  <2>1. u # t
    BY <1>3, <1>8
  <2>2. stack'[u] = stack[u]
    BY <1>3, <2>1
  <2>3. At(u, "finish") /\ Top(u) = stack'[u][Len(stack'[u])]
    BY <2>2, <1>8 DEF At, Top
  <2> QED BY <2>3
<1>9. StacksSound'
  BY <1>6, <1>7, <1>8 DEF StacksSound, At, Top
<1>10. ASSUME NEW u \in Threads, NEW i \in 1..Len(stack[u]), NEW j
       PROVE  i \in 1..Len(stack'[u]) /\ (Holds(stack'[u][i], j) <=> Holds(stack[u][i], j))
  <2>1. CASE u # t
    BY <2>1, <1>3
  <2>2. CASE u = t /\ i = n
    <3>1. i \in 1..Len(stack'[u])
      BY <2>2, <1>1, <1>3
    <3> QED BY <3>1, <2>2, <1>1, <1>2, <1>3 DEF Holds, CallLabels
  <2>3. CASE u = t /\ i # n
    <3>1. i \in 1..(n - 1) /\ i \in 1..Len(stack'[u])
      <4> HIDE DEF n
      <4> QED BY <2>3, <1>1, <1>3 DEF n
    <3> QED BY <3>1, <2>3, <1>3
  <2> QED BY <2>1, <2>2, <2>3
<1>11. ASSUME NEW u \in Threads, NEW i \in 1..Len(stack'[u]), NEW j,
              Holds(stack'[u][i], j)
       PROVE  i \in 1..Len(stack[u]) /\ Holds(stack[u][i], j)
  <2>1. CASE u # t
    BY <2>1, <1>3, <1>11
  <2>2. CASE u = t
    <3>1. i # n + 1
      BY <2>2, <1>3, <1>11 DEF Holds
    <3>2. i \in 1..Len(stack[u])
      BY <2>2, <3>1, <1>4
    <3> QED BY <3>2, <1>10, <1>11
  <2> QED BY <2>1, <2>2
<1>12. ASSUME NEW u \in Threads, NEW i \in 1..Len(stack'[u]), NEW s, NEW m,
              Takes(stack'[u][i], s, m)
       PROVE  i \in 1..Len(stack[u]) /\ Takes(stack[u][i], s, m)
  <2>1. CASE u # t
    BY <2>1, <1>3, <1>12
  <2>2. CASE u = t
    <3>1. i # n + 1 /\ i # n
      BY <2>2, <1>2, <1>3, <1>12 DEF Takes
    <3>2. i \in 1..(n - 1) /\ i \in 1..Len(stack[u])
      BY <2>2, <3>1, <1>4
    <3> QED BY <3>2, <2>2, <1>3, <1>12
  <2> QED BY <2>1, <2>2
<1>13. OneHolder'
  <2> SUFFICES ASSUME NEW u \in Threads, NEW v \in Threads,
                      NEW i \in 1..Len(stack'[u]), NEW k \in 1..Len(stack'[v]),
                      NEW j \in JobIds, Holds(stack'[u][i], j), Holds(stack'[v][k], j)
               PROVE  u = v /\ i = k
    BY DEF OneHolder
  <2> QED BY <1>1, <1>11 DEF Block, OneHolder
<1>14. OneTaker'
  <2> SUFFICES ASSUME NEW u \in Threads, NEW v \in Threads,
                      NEW i \in 1..Len(stack'[u]), NEW k \in 1..Len(stack'[v]),
                      NEW s \in Slots, NEW m \in Nat,
                      Takes(stack'[u][i], s, m), Takes(stack'[v][k], s, m)
               PROVE  u = v
    BY DEF OneTaker
  <2> QED BY <1>1, <1>12 DEF Block, OneTaker
<1>15. JobsCounted'
  <2>1. ASSUME mainAt' = "core", stack'[Main] = <<>>
        PROVE  jobCnt' >= Jobs
    <3>1. stack[Main] = <<>>
      BY <2>1, <1>1, <1>3 DEF Threads
    <3> QED BY <2>1, <3>1, <1>1 DEF Block, JobsCounted
  <2> QED BY <2>1, <1>1, <1>10, <1>11 DEF Block, JobsCounted
<1> QED BY <1>5, <1>9, <1>13, <1>14, <1>15 DEF IInv, Block

LEMMA PopKeeps ==
    ASSUME IInv, PoolTyped', NEW t \in Threads, stack[t] # <<>>, Pop(t),
           UNCHANGED <<mainAt, poolVars, jobNum, jobCnt, ran>>,
           Top(t).at \notin {"job", "finish"},
           \A u \in Threads : \A i \in 1..Len(stack[u]) : u # t \/ i # Len(stack[t]) =>
              Sound(stack[u][i], SlotStates', jobCnt),
           \A u \in Threads : At(u, "finish") =>
              Closed(SlotOf[Top(u).job], SlotStates'[SlotOf[Top(u).job]]),
           Len(stack[t]) - 1 \in 1..Len(stack[t]) /\
           stack[t][Len(stack[t]) - 1].at = "finish" =>
              LET s == SlotOf[stack[t][Len(stack[t]) - 1].job] IN Closed(s, SlotStates'[s]),
           Top(t).at \in CoreLabels => jobCnt >= Jobs,
           SlotsOwned'
    PROVE  IInv'
<1> DEFINE n == Len(stack[t])
<1>1. /\ Block /\ InBlock /\ Top(t) = stack[t][n] /\ n \in Nat \ {0} /\ n \in 1..n
      /\ stack \in [Threads -> Seq(Frame)] /\ Top(t) \in Frame
  BY TopSound DEF IInv, PoolTyped
<1>2. /\ stack' \in [Threads -> Seq(Frame)] /\ Len(stack'[t]) = n - 1
      /\ \A u \in Threads \ {t} : stack'[u] = stack[u]
      /\ \A i \in 1..(n - 1) : stack'[t][i] = stack[t][i]
  BY PopStack DEF IInv
<1>3. ASSUME NEW u \in Threads, NEW i \in 1..Len(stack'[u])
      PROVE  /\ i \in 1..Len(stack[u]) /\ stack'[u][i] = stack[u][i]
             /\ u # t \/ i # n
  <2>1. CASE u # t
    BY <2>1, <1>2
  <2>2. CASE u = t
    <3>1. i \in 1..(n - 1) /\ i \in 1..n /\ i # n
      <4> HIDE DEF n
      <4> QED BY <2>2, <1>1, <1>2
    <3> QED BY <3>1, <2>2, <1>2
  <2> QED BY <2>1, <2>2
<1>4. ASSUME NEW u \in Threads, NEW i \in 1..Len(stack[u]), u # t \/ i # n
      PROVE  i \in 1..Len(stack'[u])
  <2>1. CASE u # t
    BY <2>1, <1>2
  <2>2. CASE u = t
    <3>1. i \in 1..n /\ i # n
      BY <2>2, <1>4
    <3> HIDE DEF n
    <3> QED BY <3>1, <2>2, <1>1, <1>2
  <2> QED BY <2>1, <2>2
<1>5. Asleep' /\ InBlock'
  BY <1>2, AsleepKeeps
<1>6. ASSUME NEW u \in Threads
      PROVE  Nested(stack'[u])
  <2>1. Nested(stack[u])
    BY <1>1 DEF Block, StacksSound
  <2>2. CASE u # t
    BY <2>1, <2>2, <1>2
  <2>3. CASE u = t
    <3>1. stack[t] # <<>> /\ n = Len(stack[t])
      OBVIOUS
    <3> HIDE DEF n
    <3>2. ASSUME stack'[t] # <<>>
          PROVE  stack'[t][1].at \in CoreLabels
      <4>1. Len(stack'[t]) # 0
        BY <3>2, <1>2
      <4>2. 1 \in 1..(n - 1)
        BY <4>1, <1>1, <1>2
      <4> QED BY <4>2, <1>2, <2>1, <2>3, <3>1 DEF Nested
    <3>3. ASSUME NEW i \in 1..(Len(stack'[t]) - 1)
          PROVE  \/ /\ stack'[t][i].at = "finish" /\ stack'[t][i + 1].at \in CallLabels
                    /\ stack'[t][i + 1].slot = SlotOf[stack'[t][i].job]
                 \/ stack'[t][i].at = "swait" /\ stack'[t][i + 1].at \in CoreLabels
      <4>1. i \in 1..(n - 1) /\ i + 1 \in 1..(n - 1)
        BY <1>1, <1>2
      <4> QED BY <4>1, <1>2, <2>1, <2>3, <3>1 DEF Nested
    <3> QED BY <2>3, <3>2, <3>3 DEF Nested
  <2> QED BY <2>2, <2>3
<1>7. ASSUME NEW u \in Threads, stack'[u] # <<>>, stack'[u][Len(stack'[u])].at = "finish"
      PROVE  LET j == stack'[u][Len(stack'[u])].job IN
             Closed(SlotOf[j], SlotStates'[SlotOf[j]])
  <2>1. CASE u # t
    <3>1. stack'[u] = stack[u]
      BY <1>2, <2>1
    <3>2. At(u, "finish") /\ Top(u) = stack'[u][Len(stack'[u])]
      BY <3>1, <1>7 DEF At, Top
    <3> QED BY <3>2
  <2>2. CASE u = t
    <3>1. Len(stack'[t]) # 0
      <4>1. stack'[t] \in Seq(Frame) /\ stack'[t] # <<>>
        BY <2>2, <1>2, <1>7
      <4> QED BY <4>1
    <3>2. n - 1 \in 1..(n - 1) /\ n - 1 \in 1..n
      <4> HIDE DEF n
      <4> QED BY <3>1, <1>1, <1>2
    <3>3. stack'[t][Len(stack'[t])] = stack[t][n - 1]
      BY <3>2, <1>2
    <3> QED BY <2>2, <3>2, <3>3, <1>7
  <2> QED BY <2>1, <2>2
<1>8. StacksSound'
  BY <1>3, <1>6, <1>7 DEF StacksSound, At, Top
<1>9. OneHolder'
  <2> SUFFICES ASSUME NEW u \in Threads, NEW v \in Threads,
                      NEW i \in 1..Len(stack'[u]), NEW k \in 1..Len(stack'[v]),
                      NEW j \in JobIds, Holds(stack'[u][i], j), Holds(stack'[v][k], j)
               PROVE  u = v /\ i = k
    BY DEF OneHolder
  <2> QED BY <1>1, <1>3 DEF Block, OneHolder
<1>10. OneTaker'
  <2> SUFFICES ASSUME NEW u \in Threads, NEW v \in Threads,
                      NEW i \in 1..Len(stack'[u]), NEW k \in 1..Len(stack'[v]),
                      NEW s \in Slots, NEW m \in Nat,
                      Takes(stack'[u][i], s, m), Takes(stack'[v][k], s, m)
               PROVE  u = v
    BY DEF OneTaker
  <2> QED BY <1>1, <1>3 DEF Block, OneTaker
<1>11. JobsCounted'
  <2>1. ASSUME NEW j \in JobIds, ran[j] = 0, j < jobCnt
        PROVE  \E u \in Threads : \E i \in 1..Len(stack'[u]) : Holds(stack'[u][i], j)
    <3>1. PICK u \in Threads : \E i \in 1..Len(stack[u]) : Holds(stack[u][i], j)
      BY <2>1, <1>1 DEF Block, JobsCounted
    <3>2. PICK i \in 1..Len(stack[u]) : Holds(stack[u][i], j)
      BY <3>1
    <3>3. u # t \/ i # n
      BY <3>2, <1>1 DEF Holds
    <3> QED BY <3>2, <3>3, <1>3, <1>4
  <2>2. ASSUME mainAt' = "core", stack'[Main] = <<>>
        PROVE  jobCnt' >= Jobs
    <3>1. CASE t # Main
      <4>1. stack[Main] = <<>>
        BY <2>2, <3>1, <1>1, <1>2 DEF Threads
      <4> QED BY <2>2, <4>1, <1>1 DEF Block, JobsCounted
    <3>2. CASE t = Main
      <4>1. n = 1
        <5>1. Len(stack'[t]) = 0
          BY <2>2, <3>2
        <5> HIDE DEF n
        <5> QED BY <5>1, <1>1, <1>2
      <4>2. stack[t][1].at \in CoreLabels
        BY <1>1 DEF Block, StacksSound, Nested
      <4> QED BY <4>1, <4>2, <1>1
    <3> QED BY <3>1, <3>2
  <2> QED BY <2>1, <2>2, <1>1, <1>3 DEF Block, JobsCounted
<1> QED BY <1>5, <1>8, <1>9, <1>10, <1>11 DEF IInv, Block

LEMMA StartSubKeeps ==
    ASSUME IInv, NEW t \in Threads, StartSub(t)
    PROVE  IInv'
<1> DEFINE s == SlotOf[Top(t).job]
           g == CallFrame(s)
           f == [Top(t) EXCEPT !.at = "finish"]
<1>1. stack[t] # <<>> /\ Top(t).at = "job" /\ s # NoSlot
  BY DEF StartSub, At
<1>2. /\ Block /\ InBlock /\ PoolTyped /\ Top(t) \in Frame
      /\ Sound(Top(t), SlotStates, jobCnt)
  BY <1>1, TopSound DEF IInv
<1>3. Top(t).job \in JobIds /\ Top(t).job < jobCnt /\ Fresh(SlotStates[s]) /\ s \in Slots
  BY <1>1, <1>2, PoolAssumption DEF Sound, CoreLabels
<1>4. Push(t, g, "finish") /\ UNCHANGED <<mainAt, sharedVars, poolVars, ghostVars>>
  BY DEF StartSub
<1>5. g \in Frame /\ g.at = "check" /\ g.slot = s
  BY <1>3 DEF CallFrame, Frame, CallLabels, Slots
<1>6. f.at = "finish" /\ f.job = Top(t).job
  BY <1>2 DEF Frame
<1> HIDE DEF f, g
<1>7. SlotStates' = SlotStates /\ UNCHANGED <<mainAt, poolVars, jobNum, jobCnt, ran>>
  BY <1>4 DEF SlotStates, sharedVars, ghostVars
<1>8. PoolTyped'
  <2>1. stack' \in [Threads -> Seq(Frame)]
    BY <1>1, <1>2, <1>4, <1>5, PushStack DEF CoreLabels
  <2> QED BY <2>1, <1>2, <1>4 DEF PoolTyped, poolVars, ghostVars, sharedVars
<1>9. Sound(f, SlotStates', jobCnt)
  BY <1>1, <1>3, <1>6 DEF Sound, CoreLabels, CallLabels
<1>10. Sound(g, SlotStates', jobCnt)
  BY <1>3, <1>5, <1>7 DEF Sound, CoreLabels, CallLabels
<1>11. /\ \A u \in Threads : \A i \in 1..Len(stack[u]) :
             Sound(stack[u][i], SlotStates', jobCnt)
       /\ \A u \in Threads : At(u, "finish") =>
             Closed(SlotOf[Top(u).job], SlotStates'[SlotOf[Top(u).job]])
  BY <1>2, <1>7 DEF Block, StacksSound
<1>12. SlotsOwned'
  BY <1>2, <1>7 DEF Block, SlotsOwned
<1>13. g.at \in CallLabels
  BY <1>5 DEF CallLabels
<1> QED
  BY <1>1, <1>4, <1>5, <1>7, <1>8, <1>9, <1>10, <1>11, <1>12, <1>13, PushKeeps DEF f

\* The slot is opened by its only caller.
LEMMA ArmKeeps ==
    ASSUME IInv, NEW t \in Threads, Arm(t)
    PROVE  IInv'
<1> DEFINE s == Top(t).slot
           d == SlotStates[s]
           f == [Top(t) EXCEPT !.at = "swait"]
<1>1. stack[t] # <<>> /\ Top(t).at = "arm" /\ Top(t).at \in CallLabels
  BY DEF Arm, At, CallLabels
<1>2. /\ Block /\ InBlock /\ PoolTyped /\ Top(t) \in Frame /\ s \in Slots
      /\ Sound(Top(t), SlotStates, jobCnt)
  BY <1>1, TopSound DEF IInv, Frame
<1>3. Raised(s, d)
  BY <1>1, <1>2 DEF Sound
<1>4. /\ Push(t, CoreFrame, "swait") /\ subNum' = [subNum EXCEPT ![s] = SubJobs[s]]
      /\ UNCHANGED <<mainAt, jobNum, jobCnt, subCnt, subFlg, poolVars, ghostVars>>
  BY DEF Arm
<1>5. CoreFrame \in Frame /\ CoreFrame.at = "take" /\ CoreFrame.at \in CoreLabels
  BY DEF CoreFrame, Frame, CoreLabels, Slots
<1>6. f.at = "swait" /\ f.slot = s
  BY <1>2 DEF Frame
<1> HIDE DEF f
<1>7. PoolTyped'
  <2>1. stack' \in [Threads -> Seq(Frame)]
    BY <1>1, <1>2, <1>4, <1>5, PushStack DEF CallLabels
  <2>2. subNum' \in [Slots -> Nat]
    BY <1>2, <1>4, SubJobsSome DEF PoolTyped
  <2> QED BY <2>1, <2>2, <1>2, <1>4 DEF PoolTyped, poolVars, ghostVars
<1>8. /\ SlotStates' \in [Slots -> SlotState]
      /\ \A r \in Slots \ {s} : SlotStates'[r] = SlotStates[r]
  BY <1>2, <1>4, <1>7 DEF SlotStates, SlotState, PoolTyped, ghostVars
<1>9. Open(s, SlotStates'[s])
  <2>1. LET e == SlotStates'[s] IN
           e.num = SubJobs[s] /\ e.flags = d.flags /\ e.ran = d.ran
    BY <1>2, <1>4 DEF SlotStates, PoolTyped, ghostVars
  <2>2. WorkersOf(s) \subseteq SubIds
    BY <1>2, SubJobsSome
  <2> QED BY <2>1, <2>2, <1>3 DEF Raised, Open
<1> HIDE DEF s, d
<1>10. \A u \in Threads : \A i \in 1..Len(stack[u]) : u # t \/ i # Len(stack[t]) =>
          Sound(stack[u][i], SlotStates', jobCnt)
  BY <1>1, <1>3, <1>8, OthersKeep DEF s, d
<1>11. /\ \A u \in Threads : At(u, "finish") =>
             Closed(SlotOf[Top(u).job], SlotStates'[SlotOf[Top(u).job]])
       /\ SlotsOwned'
  BY <1>1, <1>4, <1>8, OwnSlotKeeps DEF s, ghostVars
<1>12. Sound(f, SlotStates', jobCnt)
  BY <1>6, <1>9 DEF Sound, CoreLabels, CallLabels
<1>13. Sound(CoreFrame, SlotStates', jobCnt)
  BY <1>5 DEF Sound, CoreLabels, CallLabels
<1>14. /\ Top(t).at \notin {"stest", "srun"}
       /\ CoreFrame.at \notin {"job", "finish", "stest", "srun"}
       /\ UNCHANGED <<mainAt, poolVars, jobNum, jobCnt, ran>>
  BY <1>1, <1>4, <1>5 DEF ghostVars
<1> QED
  BY <1>1, <1>4, <1>5, <1>7, <1>10, <1>11, <1>12, <1>13, <1>14, PushKeeps DEF f

\* A thread leaves compute_thread_core when no job is left.
LEMMA ReturnKeeps ==
    ASSUME IInv, NEW t \in Threads, LeaveCore(t), Pop(t), Top(t).job >= jobNum
    PROVE  IInv'
<1> DEFINE n == Len(stack[t])
<1>1. stack[t] # <<>> /\ Top(t).at = "exit"
  BY DEF LeaveCore, At
<1>2. /\ Block /\ InBlock /\ PoolTyped /\ Top(t) \in Frame /\ Top(t) = stack[t][n]
      /\ Sound(Top(t), SlotStates, jobCnt) /\ n \in Nat \ {0}
  BY <1>1, TopSound DEF IInv
<1>3. UNCHANGED <<mainAt, sharedVars, poolVars, ghostVars>>
  BY DEF LeaveCore
<1>4. SlotStates' = SlotStates /\ UNCHANGED <<mainAt, poolVars, jobNum, jobCnt, ran>>
  BY <1>3 DEF SlotStates, sharedVars, ghostVars
<1>5. PoolTyped'
  BY <1>1, <1>2, <1>3, PopStack DEF PoolTyped, sharedVars, poolVars, ghostVars
<1>6. /\ \A u \in Threads : \A i \in 1..Len(stack[u]) :
            Sound(stack[u][i], SlotStates', jobCnt)
      /\ \A u \in Threads : At(u, "finish") =>
            Closed(SlotOf[Top(u).job], SlotStates'[SlotOf[Top(u).job]])
      /\ SlotsOwned'
  BY <1>2, <1>4 DEF Block, StacksSound, SlotsOwned
<1>7. jobCnt >= Jobs
  <2>1. Top(t).job < jobCnt /\ Top(t).job \in Nat /\ jobNum = Jobs
        /\ jobCnt \in Nat /\ Jobs \in Nat
    BY <1>1, <1>2, PoolAssumption
       DEF Sound, CoreLabels, Frame, Block, JobsCounted, PoolTyped
  <2> QED BY <2>1
<1>8. ASSUME n - 1 \in 1..n, stack[t][n - 1].at = "finish"
      PROVE  FALSE
  <2>1. Nested(stack[t])
    BY <1>2 DEF Block, StacksSound
  <2>2. \A i \in 1..(n - 1) :
           \/ stack[t][i].at = "finish" /\ stack[t][i + 1].at \in CallLabels
           \/ stack[t][i].at = "swait"
    BY <2>1 DEF Nested
  <2> HIDE DEF n
  <2>3. n - 1 \in 1..(n - 1) /\ n - 1 + 1 = n
    BY <1>2, <1>8
  <2>4. stack[t][n].at \in CallLabels
    BY <2>2, <2>3, <1>8
  <2> QED BY <2>4, <1>1, <1>2 DEF CallLabels
<1>9. Top(t).at \notin {"job", "finish"}
  BY <1>1
<1> QED BY <1>1, <1>4, <1>5, <1>6, <1>7, <1>8, <1>9, PopKeeps

\* Every flag is down: the slot is closed with every sub-job computed.
LEMMA DisarmKeeps ==
    ASSUME IInv, NEW t \in Threads, Disarm(t)
    PROVE  IInv'
<1> DEFINE s == Top(t).slot
           d == SlotStates[s]
<1>1. stack[t] # <<>> /\ Top(t).at = "swait" /\ Top(t).at \in CallLabels
  BY DEF Disarm, At, CallLabels
<1>2. /\ Block /\ InBlock /\ PoolTyped /\ Top(t) \in Frame /\ s \in Slots
      /\ Sound(Top(t), SlotStates, jobCnt) /\ SlotStates \in [Slots -> SlotState]
      /\ stack \in [Threads -> Seq(Frame)] /\ jobCnt \in Nat
  BY <1>1, TopSound, SlotStatesTyped DEF IInv, Frame, PoolTyped
<1>3. Open(s, d)
  BY <1>1, <1>2 DEF Sound
<1>4. /\ Pop(t) /\ subFlg[s] = {} /\ subNum' = [subNum EXCEPT ![s] = 0]
      /\ UNCHANGED <<mainAt, jobNum, jobCnt, subCnt, subFlg, poolVars, ghostVars>>
  BY DEF Disarm
<1>5. PoolTyped'
  <2>1. stack' \in [Threads -> Seq(Frame)]
    BY <1>1, <1>2, <1>4, PopStack
  <2> QED BY <2>1, <1>2, <1>4 DEF PoolTyped, poolVars, ghostVars
<1>6. /\ SlotStates' \in [Slots -> SlotState]
      /\ \A r \in Slots \ {s} : SlotStates'[r] = SlotStates[r]
  BY <1>2, <1>4, <1>5 DEF SlotStates, SlotState, PoolTyped, ghostVars
<1>7. LET e == SlotStates'[s] IN
         e.num = 0 /\ e.flags = {} /\ e.ran = d.ran /\ e.cnt = d.cnt
  BY <1>2, <1>4 DEF SlotStates, PoolTyped, ghostVars
<1>8. d.flags = {}
  BY <1>2, <1>4 DEF SlotStates
<1> HIDE DEF s, d
<1>9. Closed(s, SlotStates'[s])
  BY <1>3, <1>7, <1>8 DEF Open, Closed
<1>10. ASSUME NEW u \in Threads, NEW i \in 1..Len(stack[u]), u # t \/ i # Len(stack[t])
       PROVE  Sound(stack[u][i], SlotStates', jobCnt)
  <2> DEFINE f == stack[u][i]
  <2>1. Sound(f, SlotStates, jobCnt) /\ f \in Frame
    BY <1>2, ElementOfSeq DEF Block, StacksSound
  <2>2. /\ f.at \in CallLabels => f.slot # s
        /\ f.at = "job" => SlotOf[f.job] # s
    BY <1>1, <1>10, SoleCaller DEF s
  <2> HIDE DEF f
  <2>3. CASE f.at \in {"stake", "stest", "srun"} => f.slot # s
    <3>1. f.at \in CallLabels \cup {"stake", "stest", "srun"} => f.slot # s
      BY <2>2, <2>3
    <3> QED BY <3>1, <2>1, <2>2, <1>2, <1>6, SoundElsewhere DEF f
  <2>4. CASE f.at \in {"stake", "stest", "srun"} /\ f.slot = s
    <3>1. f.at # "srun"
      BY <2>1, <2>4, <1>8 DEF Sound, d
    <3>2. ~Open(s, SlotStates'[s])
      BY <1>2, <1>6, <1>9, StagesApart
    <3>3. f.job < jobCnt
      BY <2>1, <2>4 DEF Sound, CoreLabels
    <3>4. f.at = "stest" => f.nums[s] < SlotStates'[s].cnt
      BY <2>1, <2>4, <1>7 DEF Sound, d
    <3> QED BY <2>4, <3>1, <3>2, <3>3, <3>4, <1>9 DEF Sound, CoreLabels, CallLabels, f
  <2> QED BY <2>3, <2>4
<1>11. /\ \A u \in Threads : At(u, "finish") =>
             Closed(SlotOf[Top(u).job], SlotStates'[SlotOf[Top(u).job]])
       /\ SlotsOwned'
  BY <1>1, <1>4, <1>6, OwnSlotKeeps DEF s, ghostVars
<1>12. SlotOf[stack[t][Len(stack[t]) - 1].job] = s
  BY <1>1, SoleCaller DEF s
<1>13. /\ Top(t).at \notin {"job", "finish"} /\ Top(t).at \notin CoreLabels
       /\ UNCHANGED <<mainAt, poolVars, jobNum, jobCnt, ran>>
  BY <1>1, <1>4 DEF CoreLabels, ghostVars
<1> QED
  BY <1>1, <1>4, <1>5, <1>9, <1>10, <1>11, <1>12, <1>13, PopKeeps

LEMMA WorkKeeps ==
    ASSUME IInv, NEW t \in Threads, Work(t)
    PROVE  IInv'
<1>1. ASSUME LeaveCore(t)
      PROVE  IInv'
  <2> DEFINE done == /\ Top(t).job >= jobNum
                     /\ \A s \in Slots : Top(t).nums[s] >= subNum[s]
  <2>1. CASE done
    <3>1. Pop(t)
      BY <1>1, <2>1 DEF LeaveCore
    <3> QED BY <1>1, <2>1, <3>1, ReturnKeeps
  <2>2. CASE ~done
    <3>1. Goto(t, "take")
      BY <1>1, <2>2 DEF LeaveCore
    <3> QED BY <1>1, <3>1, AgainKeeps
  <2> QED BY <2>1, <2>2
<1> QED
  BY <1>1, TakeJobKeeps, StartSubKeeps, FinishJobKeeps, TestSlotKeeps, TakeSubKeeps,
     TestSubKeeps, FinishSubKeeps, CheckCallKeeps, RaiseFlagsKeeps, ZeroCountKeeps,
     ArmKeeps, DisarmKeeps
  DEF Work

-----------------------------------------------------------------------------
(* The main thread and the workers.                                         *)

LEMMA InitKeeps ==
    ASSUME Init
    PROVE  IInv
<1>1. PoolTyped
  <2>1. \A t \in Threads : <<>> \in Seq(Frame)
    OBVIOUS
  <2> QED BY <2>1, PoolAssumption DEF Init, PoolTyped, Slots
<1>2. Asleep
  BY DEF Init, Asleep, InBlock, Threads
<1>3. ~InBlock
  BY DEF Init, InBlock
<1> QED BY <1>1, <1>2, <1>3 DEF IInv

\* A block starts with every slot fresh and no job taken.
LEMMA GoKeeps ==
    ASSUME IInv, Go
    PROVE  IInv'
<1>1. PoolTyped /\ Asleep /\ Jobs \in Nat /\ JobIds \subseteq Nat
  BY PoolAssumption DEF IInv, JobIds
<1>2. PoolTyped'
  BY <1>1 DEF Go, PoolTyped
<1>3. \A t \in Threads : stack[t] = <<>> /\ stack'[t] = <<>>
  BY <1>1 DEF Go, Asleep, InBlock
<1>4. Asleep'
  BY <1>1, <1>3 DEF Go, Asleep, InBlock, Threads, PoolTyped
<1>5. (StacksSound /\ OneHolder /\ OneTaker)'
  <2>1. \A t \in Threads : 1..Len(stack'[t]) = {} /\ 1..(Len(stack'[t]) - 1) = {}
    BY <1>3
  <2>2. StacksSound'
    BY <1>3, <2>1 DEF StacksSound, Nested, At
  <2> QED BY <2>1, <2>2 DEF OneHolder, OneTaker
<1>6. /\ jobNum' = Jobs /\ jobCnt' = 0 /\ mainAt' = "signal"
      /\ \A j \in JobIds : ran'[j] = 0
  BY DEF Go
<1>7. JobsCounted'
  BY <1>1, <1>6 DEF JobsCounted
<1>8. \A s \in Slots : Fresh(SlotStates'[s])
  BY DEF Go, Fresh, SlotStates
<1>9. SlotsOwned'
  <2>1. \A j \in JobIds : SlotOf[j] # NoSlot => SlotOf[j] \in Slots
    BY PoolAssumption
  <2> QED BY <2>1, <1>6, <1>8 DEF SlotsOwned
<1> QED BY <1>2, <1>4, <1>5, <1>7, <1>9 DEF IInv, Block

\* Steps that touch only mainAt, the events and the workers.
LEMMA BlockKeeps ==
    ASSUME Block, UNCHANGED <<sharedVars, stack, ghostVars>>,
           mainAt' = "core" => mainAt = "core" \/ stack[Main] # <<>>
    PROVE  Block'
<1>1. SlotStates' = SlotStates
  BY DEF SlotStates, sharedVars, ghostVars
<1>2. StacksSound'
  BY <1>1 DEF Block, StacksSound, sharedVars, At, Top
<1>3. OneHolder' /\ OneTaker'
  BY DEF Block, OneHolder, OneTaker
<1>4. SlotsOwned'
  BY <1>1 DEF Block, SlotsOwned, sharedVars, ghostVars
<1>5. JobsCounted'
  BY DEF Block, JobsCounted, sharedVars, ghostVars
<1> QED BY <1>2, <1>3, <1>4, <1>5 DEF Block

LEMMA SignalKeeps ==
    ASSUME IInv, NEW w \in Workers, Signal(w)
    PROVE  IInv'
<1>1. Block'
  BY BlockKeeps DEF IInv, Signal, InBlock
<1>2. PoolTyped'
  BY DEF IInv, PoolTyped, Signal, sharedVars, ghostVars
<1>3. Asleep'
  BY DEF IInv, PoolTyped, Asleep, Signal, InBlock, Threads
<1> QED BY <1>1, <1>2, <1>3 DEF IInv

\* An empty stack gets its first call.
LEMMA FirstCallKeeps ==
    ASSUME IInv, InBlock, NEW t \in Threads, stack[t] = <<>>,
           stack' = [stack EXCEPT ![t] = <<CoreFrame>>],
           UNCHANGED <<sharedVars, ghostVars>>,
           mainAt' = "core" => mainAt = "core" \/ t = Main,
           Asleep', PoolTyped'
    PROVE  IInv'
<1>1. Block /\ stack \in [Threads -> Seq(Frame)]
  BY DEF IInv, PoolTyped
<1>2. /\ \A u \in Threads \ {t} : stack'[u] = stack[u]
      /\ stack'[t] = <<CoreFrame>> /\ Len(stack'[t]) = 1
      /\ stack'[t][1] = CoreFrame /\ stack'[t] # <<>>
  BY <1>1
<1>3. CoreFrame.at = "take"
  BY DEF CoreFrame
<1> HIDE DEF CoreFrame
<1>4. SlotStates' = SlotStates
  BY DEF SlotStates, sharedVars, ghostVars
<1>5. ASSUME NEW u \in Threads, NEW i \in 1..Len(stack'[u])
      PROVE  \/ u # t /\ i \in 1..Len(stack[u]) /\ stack'[u][i] = stack[u][i]
             \/ u = t /\ i = 1 /\ stack'[u][i] = CoreFrame
  BY <1>2
<1>6. \A u \in Threads : \A i \in 1..Len(stack[u]) :
         i \in 1..Len(stack'[u]) /\ stack'[u][i] = stack[u][i]
  <2>1. 1..Len(stack[t]) = {}
    OBVIOUS
  <2> QED BY <2>1, <1>2
<1>7. Sound(CoreFrame, SlotStates, jobCnt)
  BY <1>3 DEF Sound, CoreLabels, CallLabels
<1>8. \A j : ~Holds(CoreFrame, j)
  BY <1>3 DEF Holds
<1>9. \A s, m : ~Takes(CoreFrame, s, m)
  BY <1>3 DEF Takes
<1>10. StacksSound'
  <2>1. ASSUME NEW u \in Threads
        PROVE  Nested(stack'[u])
    <3>1. CASE u = t
      <4>1. 1..(Len(stack'[t]) - 1) = {}
        BY <1>2
      <4>2. CoreFrame.at \in CoreLabels
        BY <1>3 DEF CoreLabels
      <4> QED BY <3>1, <4>1, <4>2, <1>2 DEF Nested
    <3>2. CASE u # t
      BY <3>2, <1>1, <1>2 DEF Block, StacksSound
    <3> QED BY <3>1, <3>2
  <2>2. ASSUME NEW u \in Threads, NEW i \in 1..Len(stack'[u])
        PROVE  Sound(stack'[u][i], SlotStates', jobCnt')
    <3>1. jobCnt' = jobCnt
      BY DEF sharedVars
    <3>2. CASE u # t
      BY <3>1, <3>2, <1>1, <1>4, <1>5 DEF Block, StacksSound
    <3>3. CASE u = t
      BY <3>1, <3>3, <1>4, <1>5, <1>7
    <3> QED BY <3>2, <3>3
  <2>3. ASSUME NEW u \in Threads, stack'[u] # <<>>, stack'[u][Len(stack'[u])].at = "finish"
        PROVE  LET j == stack'[u][Len(stack'[u])].job IN
               Closed(SlotOf[j], SlotStates'[SlotOf[j]])
    <3>1. u # t
      BY <2>3, <1>2, <1>3
    <3>2. stack'[u] = stack[u]
      BY <3>1, <1>2
    <3> QED BY <2>3, <3>2, <1>1, <1>4 DEF Block, StacksSound, At, Top
  <2> QED BY <2>1, <2>2, <2>3 DEF StacksSound, At, Top
<1>11. OneHolder'
  <2> SUFFICES ASSUME NEW u \in Threads, NEW v \in Threads,
                      NEW i \in 1..Len(stack'[u]), NEW k \in 1..Len(stack'[v]),
                      NEW j \in JobIds, Holds(stack'[u][i], j), Holds(stack'[v][k], j)
               PROVE  u = v /\ i = k
    BY DEF OneHolder
  <2> QED BY <1>1, <1>5, <1>8 DEF Block, OneHolder
<1>12. OneTaker'
  <2> SUFFICES ASSUME NEW u \in Threads, NEW v \in Threads,
                      NEW i \in 1..Len(stack'[u]), NEW k \in 1..Len(stack'[v]),
                      NEW s \in Slots, NEW m \in Nat,
                      Takes(stack'[u][i], s, m), Takes(stack'[v][k], s, m)
               PROVE  u = v
    BY DEF OneTaker
  <2> QED BY <1>1, <1>5, <1>9 DEF Block, OneTaker
<1>13. JobsCounted'
  <2>1. UNCHANGED <<jobNum, jobCnt, ran>>
    BY DEF sharedVars, ghostVars
  <2>2. ASSUME NEW j \in JobIds, ran[j] = 1
        PROVE  /\ j < jobCnt
               /\ \A u \in Threads : \A i \in 1..Len(stack'[u]) : ~Holds(stack'[u][i], j)
    BY <2>2, <1>1, <1>5, <1>8 DEF Block, JobsCounted
  <2>3. ASSUME NEW j \in JobIds, ran[j] = 0, j < jobCnt
        PROVE  \E u \in Threads : \E i \in 1..Len(stack'[u]) : Holds(stack'[u][i], j)
    <3>1. \E u \in Threads : \E i \in 1..Len(stack[u]) : Holds(stack[u][i], j)
      BY <2>3, <1>1 DEF Block, JobsCounted
    <3> QED BY <3>1, <1>6
  <2>4. ASSUME mainAt' = "core", stack'[Main] = <<>>
        PROVE  jobCnt >= Jobs
    <3>1. t # Main
      BY <2>4, <1>2
    <3>2. stack[Main] = <<>> /\ mainAt = "core"
      BY <2>4, <3>1, <1>2 DEF Threads
    <3> QED BY <3>2, <1>1 DEF Block, JobsCounted
  <2> QED BY <2>1, <2>2, <2>3, <2>4, <1>1 DEF Block, JobsCounted
<1>14. SlotsOwned'
  BY <1>1, <1>4 DEF Block, SlotsOwned, sharedVars, ghostVars
<1> QED BY <1>10, <1>11, <1>12, <1>13, <1>14 DEF IInv, Block

LEMMA CoreFrameTyped == CoreFrame \in Frame /\ <<CoreFrame>> \in Seq(Frame)
<1>1. CoreFrame \in Frame
  BY DEF CoreFrame, Frame, CoreLabels, Slots
<1> QED BY <1>1

LEMMA GoCoreKeeps ==
    ASSUME IInv, GoCore
    PROVE  IInv'
<1>1. Main \in Threads /\ Workers \subseteq Threads /\ Main \notin Workers
  BY PoolAssumption DEF Threads
<1>2. InBlock /\ stack[Main] = <<>>
  BY DEF IInv, Asleep, GoCore, InBlock
<1>3. PoolTyped'
  BY <1>1, CoreFrameTyped DEF IInv, PoolTyped, GoCore, sharedVars, poolVars, ghostVars
<1>4. \A w \in Workers : stack'[w] = stack[w]
  BY <1>1 DEF IInv, PoolTyped, GoCore
<1>5. Asleep'
  BY <1>4 DEF IInv, Asleep, GoCore, InBlock, poolVars
<1> QED BY <1>1, <1>2, <1>3, <1>5, FirstCallKeeps DEF GoCore

LEMMA WakeKeeps ==
    ASSUME IInv, NEW w \in Workers, Wake(w)
    PROVE  IInv'
<1>1. w \in Threads /\ w # Main /\ Workers \subseteq Threads
  BY PoolAssumption DEF Threads
<1>2. event[w] /\ workerAt[w] = "wait" /\ mainAt # "idle" /\ mainAt' = mainAt
  BY DEF IInv, Asleep, Wake
<1>3. CASE threadExit
  <2>1. mainAt = "term"
    BY <1>3 DEF IInv, Asleep
  <2>2. ~InBlock /\ ~InBlock'
    BY <2>1, <1>2 DEF InBlock
  <2>3. PoolTyped'
    BY <1>3 DEF IInv, PoolTyped, Wake, sharedVars, ghostVars
  <2>4. Asleep'
    BY <1>2, <1>3, <2>1, <2>2 DEF IInv, PoolTyped, Asleep, Wake
  <2> QED BY <2>2, <2>3, <2>4 DEF IInv
<1>4. CASE ~threadExit
  <2>1. InBlock /\ InBlock'
    BY <1>2, <1>4 DEF IInv, PoolTyped, Asleep, InBlock
  <2>2. stack[w] = <<>> /\ ~finish[w]
    BY <1>1, <1>2, <2>1 DEF IInv, Asleep
  <2>3. /\ stack' = [stack EXCEPT ![w] = <<CoreFrame>>]
        /\ workerAt' = [workerAt EXCEPT ![w] = "core"]
        /\ event' = [event EXCEPT ![w] = FALSE]
        /\ UNCHANGED <<mainAt, sharedVars, finish, threadExit, ghostVars>>
    BY <1>4 DEF Wake
  <2>4. PoolTyped'
    BY <1>1, <2>3, CoreFrameTyped DEF IInv, PoolTyped, sharedVars, ghostVars
  <2>5. /\ \A v \in Threads \ {w} : stack'[v] = stack[v]
        /\ workerAt'[w] = "core" /\ ~event'[w]
        /\ \A v \in Workers \ {w} : workerAt'[v] = workerAt[v] /\ event'[v] = event[v]
    BY <1>1, <2>3 DEF IInv, PoolTyped
  <2>6. stack'[Main] = stack[Main] /\ Main \in Threads
    BY <1>1, <2>5 DEF Threads
  <2>7. Asleep'
    <3>1. Asleep
      BY DEF IInv
    <3>2. ASSUME NEW v \in Workers
          PROVE  /\ stack'[v] # <<>> => workerAt'[v] = "core"
                 /\ workerAt'[v] \in {"core", "reset"} => ~finish'[v] /\ ~event'[v]
                 /\ event'[v] => workerAt'[v] = "wait" /\ mainAt' # "idle"
                 /\ workerAt'[v] # "gone" /\ ~(event'[v] /\ finish'[v])
      <4>1. CASE v = w
        BY <4>1, <2>2, <2>3, <2>5
      <4>2. CASE v # w
        BY <4>2, <3>1, <1>1, <2>1, <2>3, <2>5 DEF Asleep
      <4> QED BY <4>1, <4>2
    <3>3. /\ threadExit' <=> mainAt' = "term"
          /\ mainAt' = "signal" => stack'[Main] = <<>>
      BY <3>1, <2>3, <2>6 DEF Asleep
    <3> QED BY <3>2, <3>3, <2>1 DEF Asleep
  <2> QED BY <1>1, <2>1, <2>2, <2>3, <2>4, <2>7, FirstCallKeeps
<1> QED BY <1>3, <1>4

LEMMA ResetEventKeeps ==
    ASSUME IInv, NEW w \in Workers, ResetEvent(w)
    PROVE  IInv'
<1>1. Block'
  BY BlockKeeps DEF IInv, ResetEvent, Asleep, InBlock
<1>2. PoolTyped'
  BY DEF IInv, PoolTyped, ResetEvent, sharedVars, ghostVars
<1>3. Asleep'
  BY DEF IInv, PoolTyped, Asleep, ResetEvent, InBlock, Threads
<1> QED BY <1>1, <1>2, <1>3 DEF IInv

LEMMA WorkerDoneKeeps ==
    ASSUME IInv, NEW w \in Workers, Finish(w)
    PROVE  IInv'
<1>1. Block'
  BY BlockKeeps DEF IInv, Finish, Asleep, InBlock
<1>2. PoolTyped'
  BY DEF IInv, PoolTyped, Finish, sharedVars, ghostVars
<1>3. Asleep'
  BY DEF IInv, PoolTyped, Asleep, Finish, InBlock, Threads
<1> QED BY <1>1, <1>2, <1>3 DEF IInv

\* Nobody computes any more when the main thread has seen every thread_finish.
LEMMA AllFinished ==
    ASSUME IInv, GoWait
    PROVE  /\ \A t \in Threads : stack[t] = <<>>
           /\ \A w \in Workers : workerAt[w] = "wait" /\ ~event[w]
<1>1. mainAt = "core" /\ InBlock /\ \A w \in Workers : finish[w]
  BY DEF GoWait, InBlock
<1>2. \A w \in Workers : workerAt[w] = "wait" /\ ~event[w] /\ stack[w] = <<>>
  BY <1>1 DEF IInv, PoolTyped, Asleep
<1> QED BY <1>2 DEF GoWait, Threads

LEMMA GoWaitKeeps ==
    ASSUME IInv, GoWait
    PROVE  IInv'
<1>1. ~InBlock'
  BY DEF GoWait, InBlock
<1>2. PoolTyped'
  BY DEF IInv, PoolTyped, GoWait, sharedVars, poolVars, ghostVars
<1>3. mainAt = "core" /\ mainAt' = "idle" /\ UNCHANGED <<poolVars, stack>>
  BY DEF GoWait
<1>4. Asleep'
  BY <1>3, AllFinished DEF IInv, Asleep, InBlock, poolVars
<1> QED BY <1>1, <1>2, <1>4 DEF IInv

\* terminate_compute_thread and begin_compute_thread: no block is running.
LEMMA PoolKeeps ==
    ASSUME IInv, Terminate \/ Terminated \/ Begin \/ \E w \in Workers : SignalExit(w)
    PROVE  IInv'
<1>1. ~InBlock /\ ~InBlock' /\ stack' = stack
  BY DEF Terminate, Terminated, Begin, SignalExit, InBlock
<1>2. PoolTyped'
  <2>1. CASE Terminate
    BY <2>1 DEF IInv, PoolTyped, Terminate, ghostVars
  <2>2. CASE Terminated \/ Begin
    BY <2>2 DEF IInv, PoolTyped, Terminated, Begin, sharedVars, ghostVars
  <2>3. ASSUME NEW w \in Workers, SignalExit(w)
        PROVE  PoolTyped'
    BY <2>3 DEF IInv, PoolTyped, SignalExit, sharedVars, ghostVars
  <2> QED BY <2>1, <2>2, <2>3
<1>3. Asleep'
  <2>1. CASE Terminate
    BY <1>1, <2>1 DEF IInv, PoolTyped, Asleep, Terminate, InBlock
  <2>2. CASE Terminated
    BY <1>1, <2>2 DEF IInv, PoolTyped, Asleep, Terminated, InBlock
  <2>3. CASE Begin
    BY <1>1, <2>3 DEF IInv, PoolTyped, Asleep, Begin, InBlock
  <2>4. ASSUME NEW w \in Workers, SignalExit(w)
        PROVE  Asleep'
    BY <1>1, <2>4 DEF IInv, PoolTyped, Asleep, SignalExit, InBlock
  <2> QED BY <2>1, <2>2, <2>3, <2>4
<1> QED BY <1>1, <1>2, <1>3 DEF IInv

LEMMA NextKeeps ==
    ASSUME IInv, [Next]_vars
    PROVE  IInv'
<1>1. CASE UNCHANGED vars
  <2>1. UNCHANGED <<sharedVars, stack, ghostVars, mainAt, poolVars>>
    BY <1>1 DEF vars
  <2>2. PoolTyped'
    BY <2>1 DEF IInv, PoolTyped, sharedVars, poolVars, ghostVars
  <2>3. Asleep'
    BY <2>1 DEF IInv, Asleep, InBlock, poolVars
  <2>4. InBlock' => Block'
    BY <2>1, BlockKeeps DEF IInv, InBlock
  <2> QED BY <2>2, <2>3, <2>4 DEF IInv
<1>2. CASE MainStep
  BY <1>2, GoCoreKeeps, GoWaitKeeps, SignalKeeps, PoolKeeps DEF MainStep
<1>3. CASE \E w \in Workers : WorkerStep(w)
  BY <1>3, WakeKeeps, ResetEventKeeps, WorkerDoneKeeps DEF WorkerStep
<1>4. CASE SpinWait
  BY <1>1, <1>4 DEF SpinWait
<1> QED BY <1>1, <1>2, <1>3, <1>4, GoKeeps, PoolKeeps, WorkKeeps DEF Next

-----------------------------------------------------------------------------
(* The theorems.                                                            *)

\* Through all blocks, sub-jobs and restarts of the pool the job counters, the
\* stacks of the threads and the events of the workers stay in step (thread.c).
THEOREM InvariantHolds == Spec => []IInv
<1>1. Init => IInv
  BY InitKeeps
<1>2. IInv /\ [Next]_vars => IInv'
  BY NextKeeps
<1> QED BY <1>1, <1>2, PTL DEF Spec

\* The effect that started sub-jobs with go_compute_thread_sub0/1 goes on only when
\* every one of them has been computed once, whichever threads took them.
THEOREM SubBarrierHolds == Spec => []SubIsBarrier
<1>1. ASSUME IInv
      PROVE  SubIsBarrier
  <2> SUFFICES ASSUME NEW t \in Threads, At(t, "finish"),
                      NEW i \in WorkersOf(SlotOf[Top(t).job])
               PROVE  subRan[SlotOf[Top(t).job]][i] = 1
    BY DEF SubIsBarrier
  <2> DEFINE s == SlotOf[Top(t).job]
  <2>1. Block /\ Sound(Top(t), SlotStates, jobCnt) /\ Top(t).at = "finish"
    BY <1>1, TopSound DEF At
  <2>2. Closed(s, SlotStates[s])
    BY <2>1 DEF Block, StacksSound
  <2>3. s \in Slots
    BY <2>1, PoolAssumption DEF Sound
  <2>4. SlotStates[s].ran[i] = 1 /\ SlotStates[s].ran = subRan[s]
    BY <2>2, <2>3 DEF Closed, SlotStates
  <2> QED BY <2>4
<1> QED BY <1>1, InvariantHolds, PTL

\* mtcs_func0/1 is called only while the slot's start flag is set and the caller's
\* own mtcs_job_flg0/1 is still up: never for an initiator that has returned.
THEOREM NoOrphanHolds == Spec => []NoOrphanSubJob
<1>1. ASSUME IInv
      PROVE  NoOrphanSubJob
  <2> SUFFICES ASSUME NEW t \in Threads, At(t, "srun")
               PROVE  /\ subNum[Top(t).slot] # 0
                      /\ Top(t).nums[Top(t).slot] \in subFlg[Top(t).slot]
    BY DEF NoOrphanSubJob
  <2> DEFINE s == Top(t).slot
  <2>1. Sound(Top(t), SlotStates, jobCnt) /\ Top(t).at = "srun" /\ s \in Slots
    BY <1>1, TopSound DEF At, Frame
  <2>2. Open(s, SlotStates[s]) /\ Top(t).nums[s] \in SlotStates[s].flags
    BY <2>1 DEF Sound
  <2>3. SlotStates[s].num = subNum[s] /\ SlotStates[s].flags = subFlg[s]
    BY <2>1 DEF SlotStates
  <2>4. SubJobs[s] # 0
    BY <2>1, SubJobsSome
  <2> QED BY <2>2, <2>3, <2>4 DEF Open
<1> QED BY <1>1, InvariantHolds, PTL

\* When go_compute_thread returns, every job of the block and every sub-job of every
\* slot a job started has been computed once, no worker is inside
\* compute_thread_core, and no slot is left open.
THEOREM GoBarrierHolds == Spec => GoIsBarrier
<1>1. ASSUME IInv, [Next]_vars, mainAt = "core", mainAt' = "idle"
      PROVE  GoWait
  <2>1. mainAt' # mainAt
    BY <1>1
  <2>2. ASSUME NEW t \in Threads, Work(t)
        PROVE  FALSE
    BY <2>1, <2>2
       DEF Work, TakeJob, StartSub, FinishJob, TestSlot, TakeSub, TestSub, FinishSub,
           LeaveCore, CheckCall, RaiseFlags, ZeroCount, Arm, Disarm
  <2>3. ASSUME NEW w \in Workers, WorkerStep(w)
        PROVE  FALSE
    BY <2>1, <2>3 DEF WorkerStep, Wake, ResetEvent, Finish
  <2>4. ~(Go \/ Terminate \/ Begin \/ SpinWait \/ UNCHANGED vars)
    BY <1>1 DEF Go, Terminate, Begin, SpinWait, vars
  <2>5. MainStep
    BY <1>1, <2>2, <2>3, <2>4 DEF Next
  <2> QED BY <1>1, <2>5 DEF MainStep, GoCore, Terminated, Signal, SignalExit
<1>2. ASSUME IInv, GoWait
      PROVE  /\ \A j \in JobIds : ran[j] = 1
             /\ \A s \in Started : \A i \in WorkersOf(s) : subRan[s][i] = 1
             /\ \A w \in Workers : stack[w] = <<>>
             /\ \A s \in Slots : subNum[s] = 0 /\ subFlg[s] = {}
  <2>1. \A t \in Threads : stack[t] = <<>> /\ 1..Len(stack[t]) = {}
    BY <1>2, AllFinished
  <2>2. Block /\ jobCnt >= Jobs /\ jobCnt \in Nat
    BY <1>2, <2>1 DEF IInv, PoolTyped, Block, JobsCounted, GoWait, InBlock
  <2>3. ASSUME NEW j \in JobIds
        PROVE  ran[j] = 1
    <3>1. j < jobCnt
      BY <2>2, PoolAssumption DEF JobIds
    <3> QED BY <3>1, <2>1, <2>2 DEF Block, JobsCounted
  <2>4. ASSUME NEW s \in Started
        PROVE  s \in Slots /\ Closed(s, SlotStates[s])
    <3>1. PICK j \in JobIds : SlotOf[j] = s /\ s # NoSlot
      BY DEF Started
    <3> QED BY <3>1, <2>2, <2>3, PoolAssumption DEF Block, SlotsOwned
  <2>5. ASSUME NEW s \in Slots
        PROVE  SlotStates[s].num = 0 /\ SlotStates[s].flags = {}
    BY <2>2, <2>4 DEF Block, SlotsOwned, Fresh, Closed
  <2>6. \A s \in Slots : SlotStates[s].num = subNum[s] /\ SlotStates[s].flags = subFlg[s]
                         /\ SlotStates[s].ran = subRan[s]
    BY DEF SlotStates
  <2>7. \A s \in Started : \A i \in WorkersOf(s) : subRan[s][i] = 1
    BY <2>4, <2>6 DEF Closed
  <2> QED BY <2>1, <2>3, <2>5, <2>6, <2>7 DEF Threads
<1>3. ASSUME IInv, [Next]_vars
      PROVE  [Barrier]_vars
  <2>1. ASSUME mainAt = "core", mainAt' = "idle"
        PROVE  Barrier
    <3>1. GoWait
      BY <1>1, <1>3, <2>1
    <3> QED BY <1>2, <1>3, <3>1 DEF Barrier
  <2> QED BY <2>1 DEF Barrier
<1> QED BY <1>3, InvariantHolds, PTL DEF Spec, GoIsBarrier
=============================================================================
