----------------------------- MODULE AudioQueue -----------------------------
(***************************************************************************)
(* timidity/aq.c composed with timidity/miditrace.c: the software audio    *)
(* queue between the synthesizer and a sound device, the clock that guesses *)
(* how much of the output was heard, and the list of display events that   *)
(* wait for that clock.                                                    *)
(*                                                                         *)
(* One thread (the player) calls the queue; the device plays on its own.   *)
(* A call that can block or sleep is split at the points where time passes *)
(* (pc); everything between two such points is one step.  A sample is its   *)
(* position in the tune, so order, loss and duplication are visible;       *)
(* silence is 0.  One tick is the playing time of one sample and Bps is 1. *)
(* The output driver is IS_STREAM_TRACE.                                   *)
(***************************************************************************)
EXTENDS Integers, Sequences

CONSTANTS
    MaxBuckets,     \* bound: buckets aq_set_soft_queue may ask for
    BucketSize,     \* bucket_size
    DevCap,         \* samples the device really holds
    ComputeSize,    \* compute_buffer_size: every aq_add hands over this many
    StartCounts,    \* values of aq_start_count
    Tracing,        \* ctl->trace_playing
    Reports,        \* the driver answers PM_REQ_GETSAMPLES, _GETFILLED, ...
    DrainSlack,     \* the 0.1 seconds of aq_flush, in ticks
    SeekPoints,     \* stream positions skip_to may be asked for
    MaxSample,      \* bound: stream positions
    MaxTrace,       \* bound: display events waiting
    MaxErrors       \* bound: writes the device refuses

ASSUME QueueAssumption ==
    /\ MaxBuckets \in Nat /\ BucketSize \in Nat \ {0}
    /\ ComputeSize \in Nat \ {0}
    /\ DevCap \in Nat /\ DevCap >= BucketSize /\ DevCap >= ComputeSize
    /\ StartCounts \subseteq Nat /\ 0 \in StartCounts
    /\ Tracing \in BOOLEAN /\ Reports \in BOOLEAN
    /\ DrainSlack \in Nat /\ SeekPoints \subseteq Nat
    /\ MaxSample \in Nat /\ MaxTrace \in Nat /\ MaxErrors \in Nat

\* aq_setup: a device shorter than two buckets is used without the queue.
DeviceQSize == IF BucketSize * 2 > DevCap THEN 0 ELSE DevCap

Silence == 0

VARIABLES
    pc,             \* where the player is inside the queue's functions
    ret,            \* who called aq_fill_nonblocking or aq_soft_flush
    buf,            \* what aq_add has not put into a bucket yet
    nfills,         \* loop counter of aq_fill_nonblocking
    nb,             \* nbuckets
    startCount,     \* aq_start_count
    free,           \* allocated_bucket_list, top first
    queue,          \* the buckets from head to tail
    data,           \* contents of each bucket of base_buckets
    filling,        \* aq_fill_buffer_flag
    addCount,       \* aq_add_count
    clk,            \* play_counter, play_offset_counter, now - play_start_time
    dev,            \* samples inside the device
    heard,          \* samples the device played since its last flush
    asleep,         \* aq_wait_ticks: no time has passed since the sleep began
    deadline,       \* timeout_expect - now, in the drain loop of aq_flush
    traces,         \* midi_trace.head .. tail
    traceOffset,    \* midi_trace.offset
    lasttime,       \* trace_loop's static lasttime
    curSample,      \* current_sample of playmidi.c
    acc,            \* stream position after the last sample given to aq_add
    errors          \* writes refused since the last flush

callVars   == <<pc, ret, buf, nfills, asleep, deadline>>
bucketVars == <<nb, startCount, free, queue, data>>
fillVars   == <<filling, addCount>>
devVars    == <<dev, heard, errors>>
traceVars  == <<traces, lasttime>>
posVars    == <<traceOffset, curSample, acc>>
vars == <<callVars, bucketVars, fillVars, clk, devVars, traceVars, posVars>>

Buckets == 0..(MaxBuckets - 1)

\* play_start_time older than anything the counters can reach: every sample,
\* padded once per aq_add, and what refused writes have counted.
LongAgo == MaxSample + (MaxSample \div ComputeSize) * (BucketSize - 1)
             + MaxErrors * (BucketSize + ComputeSize) + 1

\* What the player has sent to the device since the last flush.
Sent == heard + Len(dev)

-----------------------------------------------------------------------------
(* Buckets.                                                                *)

HeadFull == queue # <<>> /\ Len(data[Head(queue)]) = BucketSize
LastBucket == queue[Len(queue)]
TailFull == queue # <<>> /\ Len(data[LastBucket]) = BucketSize

\* flush_buckets pushes bucket 0 first: the list starts with the last one.
FreeList(n) == [i \in 1..n |-> n - i]

SmallerOf(a, b) == IF a <= b THEN a ELSE b

\* memcpy into a bucket: as much of the rest of the call as there is room.
Fill(contents, samples) ==
    contents \o SubSeq(samples, 1,
                       SmallerOf(Len(samples), BucketSize - Len(contents)))

\* Mutant: a sample is dropped where the call goes on in the next bucket.
RestSkipsOne(contents, samples) ==
    SubSeq(samples,
           SmallerOf(Len(samples), BucketSize - Len(contents)) + 2,
           Len(samples))

\* "buf + total": what is left of the call after that copy.
Rest(contents, samples) ==
    SubSeq(samples,
           SmallerOf(Len(samples), BucketSize - Len(contents)) + 1,
           Len(samples))

\* memset of the rest of a bucket.
Padded(contents) ==
    contents \o [i \in 1..(BucketSize - Len(contents)) |-> Silence]

-----------------------------------------------------------------------------
(* The clock.                                                              *)

StoppedClock(c) == [counter |-> 0, offset |-> c.offset + c.counter, elapsed |-> 0]
\* Mutant: flush_buckets resets play_counter only.
ResetClockOffsetKept(c) == [c EXCEPT !.counter = 0]
ResetClock(c) == [c EXCEPT !.counter = 0, !.offset = 0]

\* The estimate of aq_samples and aq_filled for a driver that does not answer:
\* an idle clock restarts now, an overrun one has played everything.
EstimatedClock(c) ==
    IF c.counter = 0 \/ c.elapsed >= c.counter THEN StoppedClock(c) ELSE c

\* aq_samples also re-bases the counters on a driver that does answer.
AfterSamples(c) ==
    IF ~Reports THEN EstimatedClock(c)
    ELSE IF c.counter # 0
         THEN [counter |-> 0, offset |-> heard, elapsed |-> 0] ELSE c

SamplesAt(c) ==
    IF Reports THEN heard
    ELSE EstimatedClock(c).offset + EstimatedClock(c).elapsed

AfterFilled(c) == IF Reports THEN c ELSE EstimatedClock(c)

FilledAt(c) ==
    IF Reports THEN Len(dev)
    ELSE EstimatedClock(c).counter - EstimatedClock(c).elapsed

FillableAt(c) == IF Reports THEN DevCap - Len(dev) ELSE DeviceQSize - FilledAt(c)

\* Mutant: the number of buckets is rounded up.
FillsAtRoundedUp(c) ==
    IF FillableAt(c) <= 0 THEN 0 ELSE FillableAt(c) \div BucketSize + 1
FillsAt(c) == IF FillableAt(c) <= 0 THEN 0 ELSE FillableAt(c) \div BucketSize

-----------------------------------------------------------------------------
(* trace_loop, trace_flush.  Every event is a CtlEvent (ARG_CE).           *)

\* Events at the front of the list whose time has come.
DueTraces(cur) ==
    IF cur <= 0 THEN 0       \* "prevent flying start"
    ELSE CHOOSE n \in 0..Len(traces) :
            /\ \A i \in 1..n : traces[i].start <= cur
            /\ n = Len(traces) \/ traces[n + 1].start > cur

\* current_trace_samples when the clock is c.
TraceTime(c) == traceOffset + SamplesAt(c)

\* trace_loop reads the clock only when an event is waiting.
TraceClock(c) == IF traces = <<>> THEN c ELSE AfterSamples(c)

\* trace_wait_samples: -1 when nothing waits, else the time to the first event.
TraceWait(c) ==
    IF traces = <<>> THEN -1
    ELSE IF traces[1].start <= TraceTime(c) THEN 0
    ELSE traces[1].start - TraceTime(c)

\* trace_loop runs the due events; when none was due and time stood still
\* since the last look, the first one moves one sample nearer.
TracePass(c) ==
    LET due == DueTraces(TraceTime(c))
    IN  IF traces = <<>> THEN UNCHANGED traceVars
        ELSE /\ traces' = IF due = 0 /\ lasttime = TraceTime(c)
                          THEN [traces EXCEPT ![1].start = @ - 1]
                          ELSE SubSeq(traces, due + 1, Len(traces))
             /\ lasttime' = IF due = 0 THEN TraceTime(c) ELSE lasttime

\* Mutant: trace_flush is not called.
TraceFlushForgotten == UNCHANGED traceVars
TraceFlush == traces' = <<>> /\ UNCHANGED lasttime

-----------------------------------------------------------------------------
(* Building blocks of the steps.                                           *)

\* Mutant of WriteHead: the bucket never returns to the free list.
WriteHeadLeak(contents) ==
    /\ Len(dev) + BucketSize <= DevCap
    /\ dev' = dev \o contents
    /\ queue' = Tail(queue)
    /\ data' = [data EXCEPT ![Head(queue)] = <<>>]
    /\ UNCHANGED <<free, nb, startCount, heard, errors>>

\* aq_output_data for the bucket at the head, then reuse_audio_bucket.  The
\* driver blocks until the device has room.
WriteHead(contents) ==
    /\ Len(dev) + BucketSize <= DevCap
    /\ dev' = dev \o contents
    /\ free' = <<Head(queue)>> \o free
    /\ queue' = Tail(queue)
    /\ data' = [data EXCEPT ![Head(queue)] = <<>>]
    /\ UNCHANGED <<nb, startCount, heard, errors>>

Written(c, n) == [c EXCEPT !.counter = @ + n]

\* The driver returns -1: aq_output_data has counted the samples already.
\* The error ends the call of the queue; compute_data gives up on its buffer.
RefuseWrite(n) ==
    /\ errors < MaxErrors
    /\ errors' = errors + 1
    /\ clk' = Written(clk, n)
    /\ pc' = "idle" /\ ret' = "idle" /\ buf' = <<>> /\ nfills' = 0
    /\ UNCHANGED <<asleep, deadline, fillVars, dev, heard, traceVars, posVars>>

\* flush_buckets.
FlushBuckets(n, start) ==
    /\ free' = FreeList(n)
    /\ queue' = <<>>
    /\ data' = [b \in Buckets |-> <<>>]
    /\ filling' = (start > 0)
    /\ clk' = ResetClock(clk)

\* PM_REQ_DISCARD and flush_buckets: what aq_flush(1) does.
DiscardAll ==
    /\ dev' = <<>> /\ heard' = 0 /\ errors' = 0
    /\ FlushBuckets(nb, startCount)
    /\ UNCHANGED <<nb, startCount>>

Return ==
    /\ pc' = "idle" /\ ret' = "idle" /\ buf' = <<>>
    /\ nfills' = 0 /\ deadline' = 0 /\ asleep' = FALSE

\* The entry of aq_fill_nonblocking when the clock is c.
EnterFill(c, caller) ==
    /\ pc' = "fill" /\ ret' = caller
    /\ clk' = IF HeadFull THEN AfterFilled(c) ELSE c
    /\ nfills' = IF HeadFull THEN FillsAt(c) ELSE 0

-----------------------------------------------------------------------------
Init ==
    /\ pc = "idle" /\ ret = "idle" /\ buf = <<>> /\ nfills = 0
    /\ asleep = FALSE /\ deadline = 0
    /\ nb \in (IF DeviceQSize = 0 THEN {0} ELSE 0..MaxBuckets)
    /\ startCount \in (IF nb = 0 THEN {0} ELSE StartCounts)
    /\ free = FreeList(nb) /\ queue = <<>>
    /\ data = [b \in Buckets |-> <<>>]
    /\ filling = (startCount > 0) /\ addCount = 0
    /\ clk = [counter |-> 0, offset |-> 0, elapsed |-> LongAgo]
    /\ dev = <<>> /\ heard = 0 /\ errors = 0
    /\ traces = <<>> /\ lasttime = -1
    /\ traceOffset = 0 /\ curSample = 0 /\ acc = 0

-----------------------------------------------------------------------------
(* aq_add.                                                                 *)

\* The device queue is not used at all: "thru audio_queue".
PassThrough == DeviceQSize = 0 \/ nb = 0

NewSamples == [i \in 1..ComputeSize |-> acc + i]

\* aq_add up to its first wait, called with the next samples of the tune.
AqAdd ==
    /\ pc = "idle"
    /\ acc + ComputeSize <= MaxSample
    /\ buf' = NewSamples
    /\ acc' = acc + ComputeSize
    /\ addCount' = addCount + ComputeSize
    /\ deadline' = 0 /\ asleep' = FALSE
    /\ \/ /\ PassThrough
          /\ TracePass(clk) /\ clk' = TraceClock(clk)
          /\ pc' = "thru" /\ ret' = "idle" /\ nfills' = 0
          /\ UNCHANGED filling
       \/ /\ ~PassThrough
          /\ filling' = (addCount' <= startCount)
          /\ \/ /\ filling'
                /\ TracePass(clk) /\ clk' = TraceClock(clk)
                /\ pc' = "copy" /\ ret' = "idle" /\ nfills' = 0
             \/ /\ ~filling'
                /\ EnterFill(clk, "add")
                /\ UNCHANGED traceVars
    /\ UNCHANGED <<bucketVars, devVars, traceOffset>>

\* compute_data: the samples up to curSample + n exist; a full buffer goes to
\* aq_add.
ComputeData(n) ==
    /\ pc = "idle"
    /\ curSample' = curSample + n
    /\ IF curSample + n - acc >= ComputeSize
       THEN AqAdd
       ELSE UNCHANGED <<callVars, bucketVars, fillVars, clk, devVars,
                        traceVars, traceOffset, acc>>

\* compute_data(0): the last buffer of a tune goes out whole.
ComputeRest ==
    /\ curSample > acc
    /\ AqAdd
    /\ curSample' = acc'

\* Pass-through: one blocking write.
ThruWrite ==
    /\ pc = "thru"
    /\ Len(dev) + Len(buf) <= DevCap
    /\ dev' = dev \o buf
    /\ clk' = Written(clk, Len(buf))
    /\ Return
    /\ UNCHANGED <<bucketVars, fillVars, heard, errors, traceVars, posVars>>

ThruRefused ==
    pc = "thru" /\ RefuseWrite(Len(buf)) /\ UNCHANGED bucketVars

\* add_play_bucket takes a free bucket; its data starts empty.
CopyNew ==
    /\ pc = "copy" /\ buf # <<>>
    /\ queue = <<>> \/ TailFull
    /\ free # <<>>
    /\ free' = Tail(free)
    /\ queue' = Append(queue, Head(free))
    /\ data' = [data EXCEPT ![Head(free)] = Fill(<<>>, buf)]
    /\ buf' = Rest(<<>>, buf)
    /\ UNCHANGED <<pc, ret, nfills, asleep, deadline, nb, startCount, fillVars, clk,
                   devVars, traceVars, posVars>>

\* add_play_bucket goes on with the last bucket.
CopyTail ==
    /\ pc = "copy" /\ buf # <<>>
    /\ queue # <<>> /\ ~TailFull
    /\ data' = [data EXCEPT ![LastBucket] = Fill(@, buf)]
    /\ buf' = Rest(data[LastBucket], buf)
    /\ UNCHANGED <<pc, ret, nfills, asleep, deadline, nb, startCount, free, queue,
                   fillVars, clk, devVars, traceVars, posVars>>

CopyDone ==
    /\ pc = "copy" /\ buf = <<>>
    /\ Return
    /\ UNCHANGED <<bucketVars, fillVars, clk, devVars, traceVars, posVars>>

\* No bucket is left: with display events waiting the player sleeps, without
\* them it writes one bucket and blocks.
CopyFull ==
    /\ pc = "copy" /\ buf # <<>>
    /\ TailFull /\ free = <<>>
    /\ pc' = IF Tracing THEN "wait" ELSE "full"
    /\ asleep' = (Tracing /\ TraceWait(clk) # 0)
    /\ clk' = IF Tracing THEN TraceClock(clk) ELSE clk
    /\ UNCHANGED <<ret, buf, nfills, deadline, bucketVars, fillVars,
                   devVars, traceVars, posVars>>

FullWrite ==
    /\ pc = "full" /\ HeadFull
    /\ WriteHead(data[Head(queue)])
    /\ clk' = Written(clk, BucketSize)
    /\ filling' = FALSE
    /\ pc' = "copy"
    /\ UNCHANGED <<ret, buf, nfills, asleep, deadline, addCount, traceVars, posVars>>

FullRefused ==
    /\ pc = "full" /\ HeadFull
    /\ RefuseWrite(BucketSize) /\ UNCHANGED bucketVars

\* Mutant of WaitOver: the queue sleeps but writes nothing.
WaitOverNoFill ==
    /\ pc = "wait" /\ ~asleep
    /\ TracePass(clk) /\ clk' = TraceClock(clk)
    /\ pc' = "copy"
    /\ UNCHANGED <<ret, nfills, buf, asleep, deadline, bucketVars, fillVars, devVars, posVars>>

\* aq_wait_ticks is over: trace_loop, aq_fill_nonblocking.
WaitOver ==
    /\ pc = "wait" /\ ~asleep
    /\ TracePass(clk)
    /\ EnterFill(TraceClock(clk), "wait")
    /\ UNCHANGED <<buf, asleep, deadline, bucketVars, fillVars, devVars, posVars>>

-----------------------------------------------------------------------------
(* aq_fill_nonblocking.                                                    *)

\* aq_add(NULL, 0): only while the buffer is not being filled up.
AqUpdate ==
    /\ pc = "idle" /\ ~filling /\ HeadFull
    /\ EnterFill(clk, "idle")
    /\ UNCHANGED <<buf, asleep, deadline, bucketVars, fillVars, devVars, traceVars, posVars>>

\* The call of the realtime interfaces, whatever aq_fill_buffer_flag says;
\* they set up the queue with no fill_start_time.
AqFillNonblocking ==
    /\ pc = "idle" /\ HeadFull /\ startCount = 0
    /\ EnterFill(clk, "idle")
    /\ UNCHANGED <<buf, asleep, deadline, bucketVars, fillVars, devVars, traceVars, posVars>>

FillWrite ==
    /\ pc = "fill" /\ nfills > 0 /\ HeadFull
    /\ WriteHead(data[Head(queue)])
    /\ clk' = Written(clk, BucketSize)
    /\ nfills' = nfills - 1
    /\ UNCHANGED <<pc, ret, buf, asleep, deadline, fillVars, traceVars, posVars>>

FillRefused ==
    /\ pc = "fill" /\ nfills > 0 /\ HeadFull
    /\ RefuseWrite(BucketSize) /\ UNCHANGED bucketVars

\* Back to the caller: aq_add runs trace_loop before it fills its buckets, the
\* loop over a full queue clears aq_fill_buffer_flag.
FillDone ==
    /\ pc = "fill"
    /\ nfills = 0 \/ ~HeadFull
    /\ pc' = IF ret = "idle" THEN "idle" ELSE "copy"
    /\ ret' = "idle" /\ nfills' = 0
    /\ filling' = (filling /\ ret # "wait")
    /\ IF ret = "add" THEN TracePass(clk) /\ clk' = TraceClock(clk)
       ELSE UNCHANGED <<clk, traceVars>>
    /\ UNCHANGED <<buf, asleep, deadline, addCount, bucketVars, devVars, posVars>>

-----------------------------------------------------------------------------
(* aq_soft_flush and aq_flush.                                             *)

\* aq_soft_flush alone, when nobody watches the clock: midi_play_end runs the
\* waiting display events first.
AqSoftFlush ==
    /\ pc = "idle" /\ ~Tracing
    /\ TraceFlush
    /\ pc' = "soft" /\ ret' = "idle"
    /\ UNCHANGED <<buf, nfills, asleep, deadline, bucketVars, fillVars, clk, devVars, posVars>>

\* aq_flush(0).
AqFlush ==
    /\ pc = "idle"
    /\ addCount' = 0
    /\ pc' = "soft" /\ ret' = "drain"
    /\ UNCHANGED <<buf, nfills, asleep, deadline, bucketVars, filling, clk, devVars,
                   traceVars, posVars>>

\* One round of aq_soft_flush: silence up to the end of the bucket, write it.
SoftWrite ==
    /\ pc = "soft" /\ queue # <<>>
    /\ WriteHead(Padded(data[Head(queue)]))
    /\ LET c == Written(clk, BucketSize)
       IN  TracePass(c) /\ clk' = TraceClock(c)
    /\ pc' = "softctl"
    /\ UNCHANGED <<ret, buf, nfills, asleep, deadline, fillVars, posVars>>

\* The silence stays in the bucket when the device refuses it.
SoftRefused ==
    /\ pc = "soft" /\ queue # <<>>
    /\ RefuseWrite(BucketSize)
    /\ data' = [data EXCEPT ![Head(queue)] = Padded(@)]
    /\ UNCHANGED <<nb, startCount, free, queue>>

\* All buckets are out: aq_soft_flush returns, aq_flush notes when the device
\* should have played everything.
SoftDone ==
    /\ pc = "soft" /\ queue = <<>>
    /\ \/ /\ ret = "idle"
          /\ Return
          /\ UNCHANGED clk
       \/ /\ ret = "drain"
          /\ deadline' = FilledAt(clk)
          /\ clk' = AfterFilled(clk)
          /\ pc' = "drainctl"
          /\ UNCHANGED <<ret, buf, nfills, asleep>>
    /\ UNCHANGED <<bucketVars, fillVars, devVars, traceVars, posVars>>

\* The rest of a round of the drain loop, after check_apply_control.
DrainRound ==
    /\ pc = "drainrun"
    /\ TracePass(clk) /\ clk' = TraceClock(clk)
    /\ pc' = IF deadline <= DrainSlack THEN "sync" ELSE "drain"
    /\ asleep' = (deadline > DrainSlack)
    /\ UNCHANGED <<ret, buf, nfills, deadline, bucketVars, fillVars, devVars, posVars>>

\* The loop condition, after the sleep: more_trace || aq_filled() > 0.
DrainTest ==
    /\ pc = "drain" /\ ~asleep
    /\ IF traces # <<>>
       THEN pc' = "drainctl" /\ UNCHANGED clk
       ELSE /\ clk' = AfterFilled(clk)
            /\ pc' = IF FilledAt(clk) > 0 THEN "drainctl" ELSE "sync"
    /\ UNCHANGED <<ret, buf, nfills, asleep, deadline, bucketVars, fillVars, devVars,
                   traceVars, posVars>>

\* trace_flush, PM_REQ_FLUSH (the driver returns when the device is empty),
\* flush_buckets.
DrainSync ==
    /\ pc = "sync" /\ dev = <<>>
    /\ DiscardAll
    /\ TraceFlush
    /\ Return
    /\ UNCHANGED <<addCount, posVars>>

\* check_apply_control inside a flush: nothing to do,
ControlNone ==
    /\ pc \in {"softctl", "drainctl"}
    /\ pc' = IF pc = "softctl" THEN "soft" ELSE "drainrun"
    /\ UNCHANGED <<ret, buf, nfills, asleep, deadline, bucketVars, fillVars, clk,
                   devVars, traceVars, posVars>>

\* a code for which RC_IS_SKIP_FILE holds,
ControlSkip ==
    /\ pc \in {"softctl", "drainctl"}
    /\ DiscardAll
    /\ Return
    /\ UNCHANGED <<addCount, traceVars, posVars>>

\* RC_SYNC_RESTART: aq_flush(1) from inside the flush,
ControlSync ==
    /\ pc \in {"softctl", "drainctl"}
    /\ pc' = IF pc = "softctl" THEN "soft" ELSE "drainrun"
    /\ DiscardAll
    /\ TraceFlush
    /\ addCount' = 0
    /\ UNCHANGED <<ret, buf, nfills, asleep, deadline, posVars>>

\* aq_flush(1), aq_setup, aq_set_soft_queue: a new output or sampling rate.
Reconfigured ==
    /\ dev' = <<>> /\ heard' = 0 /\ errors' = 0
    /\ nb' \in (IF DeviceQSize = 0 THEN {0} ELSE 0..MaxBuckets)
    /\ startCount' \in (IF nb' = 0 THEN {0} ELSE StartCounts)
    /\ FlushBuckets(nb', startCount')
    /\ TraceFlush
    /\ addCount' = 0

\* RC_CHANGE_RATE, RC_OUTPUT_CHANGED.
ControlReload ==
    /\ pc \in {"softctl", "drainctl"}
    /\ pc' = IF pc = "softctl" THEN "soft" ELSE "drainrun"
    /\ Reconfigured
    /\ UNCHANGED <<ret, buf, nfills, asleep, deadline, posVars>>

-----------------------------------------------------------------------------
(* What playmidi.c does with the queue between two calls of aq_add.        *)

\* aq_flush(1): trace_flush, PM_REQ_DISCARD, flush_buckets.
AqDiscard ==
    /\ pc = "idle"
    /\ DiscardAll
    /\ TraceFlush
    /\ addCount' = 0
    /\ UNCHANGED <<callVars, posVars>>

\* playmidi_output_changed, playmidi_change_rate between two tunes or notes.
OutputChanged ==
    /\ pc = "idle"
    /\ Reconfigured
    /\ UNCHANGED <<callVars, posVars>>

\* skip_to: the waiting events run, the stream goes on at another position.
SkipTo(pos) ==
    /\ TraceFlush
    /\ traceOffset' = pos /\ curSample' = pos /\ acc' = pos

\* sync_restart, RC_JUMP, RC_FORWARD, RC_BACK: aq_flush(1) and skip_to.
Seek(pos) ==
    /\ pc = "idle"
    /\ DiscardAll
    /\ SkipTo(pos)
    /\ addCount' = 0
    /\ UNCHANGED callVars

\* play_midi calls skip_to when aq_flush(0) has returned.
StartTune(pos) ==
    /\ pc = "idle" /\ dev = <<>> /\ queue = <<>> /\ heard = 0
    /\ clk.counter = 0 /\ addCount = 0
    /\ SkipTo(pos)
    /\ UNCHANGED <<callVars, bucketVars, fillVars, clk, devVars>>

\* push_midi_trace_ce: an event for the sample that is being computed.
PushTrace ==
    /\ pc = "idle" /\ Tracing
    /\ Len(traces) < MaxTrace
    /\ traces' = Append(traces, [start |-> curSample, pos |-> curSample])
    /\ UNCHANGED <<callVars, bucketVars, fillVars, clk, devVars, lasttime, posVars>>

-----------------------------------------------------------------------------
\* One sample time passes; the device plays what it has.
Tick ==
    /\ dev' = IF dev = <<>> THEN dev ELSE Tail(dev)
    /\ heard' = IF dev = <<>> THEN heard ELSE heard + 1
    /\ clk' = [clk EXCEPT !.elapsed = SmallerOf(@ + 1, LongAgo)]
    /\ deadline' = IF deadline > 0 THEN deadline - 1 ELSE 0
    /\ asleep' = FALSE
    /\ UNCHANGED <<pc, ret, buf, nfills, bucketVars, fillVars, errors,
                   traceVars, posVars>>

\* The steps inside a call: the player takes them until the call returns.
Running ==
    \/ ThruWrite \/ CopyNew \/ CopyTail \/ CopyDone \/ CopyFull
    \/ FullWrite \/ WaitOver \/ FillWrite \/ FillDone
    \/ SoftWrite \/ SoftDone \/ DrainRound \/ DrainTest \/ DrainSync
    \/ ControlNone

\* Answers of the user, the system and the device.
Disturbance ==
    \/ ThruRefused \/ FullRefused \/ FillRefused \/ SoftRefused
    \/ ControlSkip \/ ControlSync \/ ControlReload

Calls ==
    \/ \E n \in 1..ComputeSize : ComputeData(n)
    \/ ComputeRest \/ AqUpdate \/ AqFillNonblocking
    \/ AqSoftFlush \/ AqFlush \/ AqDiscard \/ OutputChanged
    \/ \E pos \in SeekPoints : Seek(pos) \/ StartTune(pos)
    \/ PushTrace

Next == Running \/ Disturbance \/ Calls \/ Tick

Spec == Init /\ [][Next]_vars

-----------------------------------------------------------------------------
(* Safety.                                                                 *)

ActiveBuckets == 0..(nb - 1)

\* Every bucket of base_buckets is either in allocated_bucket_list or between
\* head and tail, once: next_allocated_bucket never hands out a bucket that
\* still waits for the device, none is lost, and add_play_bucket, which does
\* not test head = tail = next_allocated_bucket() for NULL, always gets one.
BucketsConserved ==
    /\ \A b \in ActiveBuckets :
          \/ \E i \in DOMAIN free : free[i] = b
          \/ \E i \in DOMAIN queue : queue[i] = b
    /\ \A i \in DOMAIN free, j \in DOMAIN queue : free[i] # queue[j]
    /\ \A i, j \in DOMAIN free : free[i] = free[j] => i = j
    /\ \A i, j \in DOMAIN queue : queue[i] = queue[j] => i = j

\* aq_fill_one sends bucket_size bytes whatever the length of the bucket says:
\* only the last bucket may be partly filled, and none is empty.
OnlyLastPartial ==
    \A i \in DOMAIN queue :
       /\ Len(data[queue[i]]) > 0
       /\ i < Len(queue) => Len(data[queue[i]]) = BucketSize

\* play_counter and play_offset_counter together count exactly what was sent
\* since the last flush, however often aq_samples and aq_filled move samples
\* from one to the other: the display clock cannot drift.
ClockAccountsOutput ==
    ~Reports /\ errors = 0 => clk.offset + clk.counter = Sent

\* While aq_flush waits for the device, no sample is left in the software
\* queue: the flush_buckets at its end drops nothing.
PlayedOut ==
    pc \in {"drainctl", "drainrun", "drain", "sync"} => queue = <<>> /\ buf = <<>>

\* Display events wait in the order of their samples, none is older than the
\* position of the last seek or newer than the sample being computed.
TracesBelongToTune ==
    \A i \in DOMAIN traces :
       /\ traceOffset <= traces[i].pos /\ traces[i].pos <= curSample
       /\ traces[i].start <= traces[i].pos
       /\ \A j \in DOMAIN traces : i < j => traces[i].start <= traces[j].start

\* What aq_fill_one, aq_flush and the display rely on.
QueueSound == OnlyLastPartial /\ PlayedOut /\ TracesBelongToTune

\* aq.h: aq_fill_nonblocking "doesn't block if (play_mode->flag&PF_CAN_TRACE)
\* is true": when its loop writes, the device has room.
FillNeverBlocks ==
    pc = "fill" /\ nfills > 0 /\ HeadFull => Len(dev) + BucketSize <= DevCap

-----------------------------------------------------------------------------
(* The stream of samples.                                                  *)

\* The buckets one after the other: all but the last are full.
Queued ==
    LET size == IF queue = <<>> THEN 0
                ELSE (Len(queue) - 1) * BucketSize + Len(data[LastBucket])
    IN  [k \in 1..size |-> data[queue[((k - 1) \div BucketSize) + 1]]
                               [((k - 1) % BucketSize) + 1]]

\* What is not heard yet is in the device, in the buckets and in the rest of
\* the aq_add call, in this order.
Stream == INSTANCE SampleStream WITH
    pending <- dev \o Queued \o buf, next <- acc, failures <- errors

\* The queue implements the sample stream: no sample is lost, repeated or
\* reordered on its way to the device, and silence is only inserted by a flush.
StreamKept == Stream!StreamSpec
=============================================================================
