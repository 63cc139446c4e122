---------------------------- MODULE SampleStream ----------------------------
(***************************************************************************)
(* What the audio queue of TiMidity++ promises its callers: the samples    *)
(* handed to aq_add are heard once each, in the order they were handed     *)
(* over, with silence only where a flush fills up the last bucket.  A      *)
(* discard forgets everything that was not heard yet, and a failing device *)
(* may cost the samples of the call that failed, from the end.             *)
(***************************************************************************)
EXTENDS Integers, Sequences

CONSTANTS
    BucketSize,     \* padding never reaches a whole bucket
    ComputeSize     \* samples per aq_add

Silence == 0

VARIABLES
    pending,        \* accepted and not heard yet, oldest first
    next,           \* stream position after the last accepted sample
    failures        \* writes the device refused since the last discard

streamVars == <<pending, next, failures>>

StreamInit == pending = <<>> /\ next = 0 /\ failures = 0

\* aq_add takes the next ComputeSize samples of the tune.
Accept ==
    /\ pending' = pending \o [i \in 1..ComputeSize |-> next + i]
    /\ next' = next + ComputeSize
    /\ UNCHANGED failures

\* The device plays the oldest sample.
Hear ==
    /\ pending # <<>>
    /\ pending' = Tail(pending)
    /\ UNCHANGED <<next, failures>>

\* A flush completes the last bucket with silence.
Pad ==
    /\ \E k \in 1..(BucketSize - 1) :
          pending' = pending \o [i \in 1..k |-> Silence]
    /\ UNCHANGED <<next, failures>>

\* A discarding flush, or a seek, which also moves the stream position.
Discard ==
    /\ pending' = <<>>
    /\ next' \in Nat /\ failures' = 0

\* The device refused a write: the rest of the current aq_add call is lost,
\* or, in a flush, the last bucket has been completed in vain.
Refuse ==
    /\ failures' = failures + 1
    /\ \/ \E k \in 0..Len(pending) :
             /\ Len(pending) - k <= ComputeSize
             /\ pending' = SubSeq(pending, 1, k)
       \/ \E k \in 1..(BucketSize - 1) :
             pending' = pending \o [i \in 1..k |-> Silence]
    /\ UNCHANGED next

StreamNext == Accept \/ Hear \/ Pad \/ Discard \/ Refuse

StreamSpec == StreamInit /\ [][StreamNext]_streamVars
=============================================================================
