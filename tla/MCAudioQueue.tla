---------------------------- MODULE MCAudioQueue ----------------------------
(* The audio queue with its type.                                          *)
EXTENDS AudioQueue

Positions == 0..(MaxSample + ComputeSize)

\* One type invariant for aq.c's and miditrace.c's statics.
TypeOK ==
    /\ pc \in {"idle", "thru", "copy", "full", "wait", "fill", "soft", "softctl",
               "drain", "drainctl", "drainrun", "sync"}
    /\ ret \in {"idle", "add", "wait", "drain"}
    /\ buf \in Seq(Positions) /\ Len(buf) <= ComputeSize
    /\ nfills \in 0..(DevCap \div BucketSize)
    /\ nb \in 0..MaxBuckets /\ startCount \in StartCounts
    /\ free \in Seq(Buckets) /\ queue \in Seq(Buckets)
    /\ data \in [Buckets -> Seq(Positions)]
    /\ filling \in BOOLEAN /\ addCount \in Nat
    /\ clk \in [counter : Nat, offset : Nat, elapsed : 0..LongAgo]
    /\ dev \in Seq(Positions) /\ heard \in Nat /\ errors \in 0..MaxErrors
    /\ deadline \in Nat /\ asleep \in BOOLEAN
    /\ traces \in Seq([start : Int, pos : Positions]) /\ Len(traces) <= MaxTrace
    /\ lasttime \in Int
    /\ traceOffset \in SeekPoints /\ curSample \in Positions /\ acc \in Positions
=============================================================================
