------------------------- MODULE AudioQueue_proofs -------------------------
(***************************************************************************)
(* Proofs about the audio queue for every number and size of buckets, every *)
(* device and every order of calls, user interruptions and device errors.  *)
(***************************************************************************)
EXTENDS AudioQueue, SequenceTheorems, FiniteSetTheorems, TLAPS

\* BucketsConserved as a relation between two lists and a set of buckets.
Split(f, q, S) ==
    /\ f \in Seq(S) /\ q \in Seq(S)
    /\ \A b \in S : \/ \E i \in 1..Len(f) : f[i] = b
                    \/ \E i \in 1..Len(q) : q[i] = b
    /\ \A i \in 1..Len(f), j \in 1..Len(q) : f[i] # q[j]
    /\ \A i, j \in 1..Len(f) : f[i] = f[j] => i = j
    /\ \A i, j \in 1..Len(q) : q[i] = q[j] => i = j

\* flush_buckets: the list of all buckets, next to an empty queue.
LEMMA FreeListSplit ==
    ASSUME NEW n \in Nat
    PROVE  Split(FreeList(n), <<>>, 0..(n - 1))
<1> DEFINE F == FreeList(n)
<1>1. F \in Seq(0..(n - 1)) /\ Len(F) = n /\ \A i \in 1..n : F[i] = n - i
  <2>1. \A i \in 1..n : n - i \in 0..(n - 1)
    OBVIOUS
  <2> QED BY <2>1 DEF FreeList
<1>2. \A b \in 0..(n - 1) : n - b \in 1..n /\ F[n - b] = b
  BY <1>1
<1> HIDE DEF F
<1>3. Split(F, <<>>, 0..(n - 1))
  BY <1>1, <1>2 DEF Split
<1> QED BY <1>3 DEF F

\* aq_fill_one: the head of the queue becomes the top of the free list.
LEMMA ReuseSplit ==
    ASSUME NEW S, NEW f, NEW q, Split(f, q, S), q # <<>>
    PROVE  Split(<<Head(q)>> \o f, Tail(q), S)
<1> DEFINE g == <<Head(q)>> \o f
           r == Tail(q)
<1>1. f \in Seq(S) /\ q \in Seq(S)
  BY DEF Split
<1>2. /\ r \in Seq(S) /\ Len(q) \in Nat \ {0} /\ Len(r) = Len(q) - 1
      /\ Head(q) = q[1] /\ q[1] \in S
      /\ \A i \in 1..Len(r) : r[i] = q[i + 1]
  BY <1>1
<1>3. /\ g \in Seq(S) /\ Len(g) = Len(f) + 1 /\ Len(f) \in Nat
      /\ g[1] = q[1] /\ \A i \in 2..Len(g) : g[i] = f[i - 1]
  <2>1. <<Head(q)>> \in Seq(S) /\ Len(<<Head(q)>>) = 1 /\ <<Head(q)>>[1] = q[1]
    BY <1>2
  <2> QED BY <2>1, <1>1, <1>2
<1> HIDE DEF g, r
<1>4. \A b \in S : \/ \E i \in 1..Len(g) : g[i] = b
                   \/ \E i \in 1..Len(r) : r[i] = b
  <2> SUFFICES ASSUME NEW b \in S
               PROVE  \/ \E i \in 1..Len(g) : g[i] = b
                      \/ \E i \in 1..Len(r) : r[i] = b
    OBVIOUS
  <2>1. CASE \E i \in 1..Len(f) : f[i] = b
    <3>1. PICK i \in 1..Len(f) : f[i] = b
      BY <2>1
    <3>2. i + 1 \in 2..Len(g) /\ g[i + 1] = b
      BY <3>1, <1>3
    <3> QED BY <3>2
  <2>2. CASE \E i \in 1..Len(q) : q[i] = b
    <3>1. PICK i \in 1..Len(q) : q[i] = b
      BY <2>2
    <3>2. CASE i = 1
      BY <3>1, <3>2, <1>3
    <3>3. CASE i > 1
      <4>1. i - 1 \in 1..Len(r) /\ r[i - 1] = b
        BY <3>1, <3>3, <1>2
      <4> QED BY <4>1
    <3> QED BY <3>1, <3>2, <3>3
  <2> QED BY <2>1, <2>2 DEF Split
<1>5. \A i \in 1..Len(g), j \in 1..Len(r) : g[i] # r[j]
  <2> SUFFICES ASSUME NEW i \in 1..Len(g), NEW j \in 1..Len(r)
               PROVE  g[i] # r[j]
    OBVIOUS
  <2>1. r[j] = q[j + 1] /\ j + 1 \in 1..Len(q) /\ 1 \in 1..Len(q) /\ j + 1 # 1
    BY <1>2
  <2>2. CASE i = 1
    BY <2>1, <2>2, <1>3 DEF Split
  <2>3. CASE i # 1
    <3>1. g[i] = f[i - 1] /\ i - 1 \in 1..Len(f)
      BY <2>3, <1>3
    <3>2. \A k \in 1..Len(f), l \in 1..Len(q) : f[k] # q[l]
      BY DEF Split
    <3>3. f[i - 1] # q[j + 1]
      BY <2>1, <3>1, <3>2
    <3> QED BY <2>1, <3>1, <3>3
  <2> QED BY <2>2, <2>3
<1>6. \A i, j \in 1..Len(g) : g[i] = g[j] => i = j
  <2> SUFFICES ASSUME NEW i \in 1..Len(g), NEW j \in 1..Len(g), g[i] = g[j]
               PROVE  i = j
    OBVIOUS
  <2>1. \A k \in 1..Len(g) : k # 1 => g[k] = f[k - 1] /\ k - 1 \in 1..Len(f)
    BY <1>3
  <2>2. \A k \in 1..Len(f) : f[k] # q[1]
    BY <1>2 DEF Split
  <2>3. CASE i = 1 \/ j = 1
    BY <2>1, <2>2, <2>3, <1>3
  <2>4. CASE i # 1 /\ j # 1
    <3>1. f[i - 1] = f[j - 1] /\ i - 1 \in 1..Len(f) /\ j - 1 \in 1..Len(f)
      BY <2>1, <2>4
    <3>2. i - 1 = j - 1
      BY <3>1 DEF Split
    <3> QED BY <3>2, <1>3
  <2> QED BY <2>3, <2>4
<1>7. \A i, j \in 1..Len(r) : r[i] = r[j] => i = j
  BY <1>2 DEF Split
<1>8. Split(g, r, S)
  BY <1>2, <1>3, <1>4, <1>5, <1>6, <1>7 DEF Split
<1> QED BY <1>8 DEF g, r

\* next_allocated_bucket: the top of the free list becomes the last bucket.
LEMMA TakeSplit ==
    ASSUME NEW S, NEW f, NEW q, Split(f, q, S), f # <<>>
    PROVE  Split(Tail(f), Append(q, Head(f)), S)
<1> DEFINE g == Tail(f)
           r == Append(q, Head(f))
<1>1. f \in Seq(S) /\ q \in Seq(S)
  BY DEF Split
<1>2. /\ g \in Seq(S) /\ Len(f) \in Nat \ {0} /\ Len(g) = Len(f) - 1
      /\ Head(f) = f[1] /\ f[1] \in S
      /\ \A i \in 1..Len(g) : g[i] = f[i + 1]
  BY <1>1
<1>3. /\ r \in Seq(S) /\ Len(q) \in Nat /\ Len(r) = Len(q) + 1
      /\ r[Len(q) + 1] = f[1]
      /\ \A i \in 1..Len(q) : r[i] = q[i]
  BY <1>1, <1>2
<1> HIDE DEF g, r
<1>4. \A b \in S : \/ \E i \in 1..Len(g) : g[i] = b
                   \/ \E i \in 1..Len(r) : r[i] = b
  <2> SUFFICES ASSUME NEW b \in S
               PROVE  \/ \E i \in 1..Len(g) : g[i] = b
                      \/ \E i \in 1..Len(r) : r[i] = b
    OBVIOUS
  <2>1. CASE \E i \in 1..Len(q) : q[i] = b
    BY <2>1, <1>3
  <2>2. CASE \E i \in 1..Len(f) : f[i] = b
    <3>1. PICK i \in 1..Len(f) : f[i] = b
      BY <2>2
    <3>2. CASE i = 1
      BY <3>1, <3>2, <1>3
    <3>3. CASE i > 1
      <4>1. i - 1 \in 1..Len(g) /\ g[i - 1] = b
        BY <3>1, <3>3, <1>2
      <4> QED BY <4>1
    <3> QED BY <3>1, <3>2, <3>3
  <2> QED BY <2>1, <2>2 DEF Split
<1>5. \A i \in 1..Len(g), j \in 1..Len(r) : g[i] # r[j]
  <2> SUFFICES ASSUME NEW i \in 1..Len(g), NEW j \in 1..Len(r)
               PROVE  g[i] # r[j]
    OBVIOUS
  <2>1. g[i] = f[i + 1] /\ i + 1 \in 1..Len(f) /\ 1 \in 1..Len(f) /\ i + 1 # 1
    BY <1>2
  <2>2. CASE j = Len(q) + 1
    BY <2>1, <2>2, <1>3 DEF Split
  <2>3. CASE j # Len(q) + 1
    <3>1. r[j] = q[j] /\ j \in 1..Len(q)
      BY <2>3, <1>3
    <3> QED BY <2>1, <3>1 DEF Split
  <2> QED BY <2>2, <2>3
<1>6. \A i, j \in 1..Len(g) : g[i] = g[j] => i = j
  BY <1>2 DEF Split
<1>7. \A i, j \in 1..Len(r) : r[i] = r[j] => i = j
  <2> SUFFICES ASSUME NEW i \in 1..Len(r), NEW j \in 1..Len(r), r[i] = r[j]
               PROVE  i = j
    OBVIOUS
  <2>1. \A k \in 1..Len(r) : k # Len(q) + 1 => r[k] = q[k] /\ k \in 1..Len(q)
    BY <1>3
  <2>2. \A k \in 1..Len(q) : q[k] # f[1]
    BY <1>2 DEF Split
  <2>3. CASE i = Len(q) + 1 \/ j = Len(q) + 1
    BY <2>1, <2>2, <2>3, <1>3
  <2>4. CASE i # Len(q) + 1 /\ j # Len(q) + 1
    BY <2>1, <2>4 DEF Split
  <2> QED BY <2>3, <2>4
<1>8. Split(g, r, S)
  BY <1>2, <1>3, <1>4, <1>5, <1>6, <1>7 DEF Split
<1> QED BY <1>8 DEF g, r

-----------------------------------------------------------------------------
\* The inductive form of BucketsConserved: the bucket bookkeeping is also well
\* typed, so that the lists can be taken apart.
BucketInv ==
    /\ nb \in 0..MaxBuckets
    /\ Split(free, queue, ActiveBuckets)

\* allocated_bucket_list and the queue share out the buckets whatever is called.
LEMMA BucketInit == Init => BucketInv
<1> SUFFICES ASSUME Init PROVE BucketInv
  OBVIOUS
<1>1. nb \in 0..MaxBuckets
  BY QueueAssumption DEF Init
<1>2. Split(FreeList(nb), <<>>, 0..(nb - 1))
  BY <1>1, FreeListSplit
<1> QED BY <1>1, <1>2 DEF Init, BucketInv, ActiveBuckets

\* flush_buckets, with the old or a new number of buckets.
LEMMA FlushKeepsBuckets ==
    ASSUME NEW n \in 0..MaxBuckets, NEW start, FlushBuckets(n, start), nb' = n
    PROVE  BucketInv'
<1>1. Split(FreeList(n), <<>>, 0..(n - 1))
  BY FreeListSplit
<1>2. free' = FreeList(n) /\ queue' = <<>>
  BY DEF FlushBuckets
<1> QED BY <1>1, <1>2 DEF BucketInv, ActiveBuckets

LEMMA WriteKeepsBuckets ==
    ASSUME BucketInv, queue # <<>>, NEW contents, WriteHead(contents)
    PROVE  BucketInv'
<1>1. Split(<<Head(queue)>> \o free, Tail(queue), ActiveBuckets)
  BY ReuseSplit DEF BucketInv
<1>2. /\ free' = <<Head(queue)>> \o free /\ queue' = Tail(queue) /\ nb' = nb
  BY DEF WriteHead
<1> QED BY <1>1, <1>2 DEF BucketInv, ActiveBuckets

LEMMA UnchangedKeepsBuckets ==
    ASSUME BucketInv, UNCHANGED <<nb, free, queue>>
    PROVE  BucketInv'
BY DEF BucketInv, ActiveBuckets

LEMMA ReconfigureKeepsBuckets ==
    ASSUME Reconfigured
    PROVE  BucketInv'
<1>1. nb' \in 0..MaxBuckets
  BY QueueAssumption DEF Reconfigured
<1>2. FlushBuckets(nb', startCount')
  BY DEF Reconfigured
<1> QED BY <1>1, <1>2, FlushKeepsBuckets

LEMMA DiscardKeepsBuckets ==
    ASSUME BucketInv, DiscardAll
    PROVE  BucketInv'
<1>1. nb \in 0..MaxBuckets /\ nb' = nb /\ FlushBuckets(nb, startCount)
  BY DEF BucketInv, DiscardAll
<1> QED BY <1>1, FlushKeepsBuckets

LEMMA CopyNewKeepsBuckets ==
    ASSUME BucketInv, CopyNew
    PROVE  BucketInv'
<1>1. Split(Tail(free), Append(queue, Head(free)), ActiveBuckets)
  BY TakeSplit DEF BucketInv, CopyNew
<1>2. free' = Tail(free) /\ queue' = Append(queue, Head(free)) /\ nb' = nb
  BY DEF CopyNew
<1> QED BY <1>1, <1>2 DEF BucketInv, ActiveBuckets

LEMMA RunningKeepsBuckets == BucketInv /\ Running => BucketInv'
<1> SUFFICES ASSUME BucketInv, Running PROVE BucketInv'
  OBVIOUS
<1>1. CASE ThruWrite
  BY <1>1, UnchangedKeepsBuckets DEF ThruWrite, bucketVars
<1>2. CASE CopyNew
  BY <1>2, CopyNewKeepsBuckets
<1>3. CASE CopyTail
  BY <1>3, UnchangedKeepsBuckets DEF CopyTail
<1>4. CASE CopyDone
  BY <1>4, UnchangedKeepsBuckets DEF CopyDone, bucketVars
<1>5. CASE CopyFull
  BY <1>5, UnchangedKeepsBuckets DEF CopyFull, bucketVars
<1>6. CASE FullWrite
  BY <1>6, WriteKeepsBuckets DEF FullWrite, HeadFull
<1>7. CASE WaitOver
  BY <1>7, UnchangedKeepsBuckets DEF WaitOver, bucketVars
<1>8. CASE FillWrite
  BY <1>8, WriteKeepsBuckets DEF FillWrite, HeadFull
<1>9. CASE FillDone
  BY <1>9, UnchangedKeepsBuckets DEF FillDone, bucketVars
<1>10. CASE SoftWrite
  BY <1>10, WriteKeepsBuckets DEF SoftWrite
<1>11. CASE SoftDone
  BY <1>11, UnchangedKeepsBuckets DEF SoftDone, bucketVars
<1>12. CASE DrainRound
  BY <1>12, UnchangedKeepsBuckets DEF DrainRound, bucketVars
<1>13. CASE DrainTest
  BY <1>13, UnchangedKeepsBuckets DEF DrainTest, bucketVars
<1>14. CASE DrainSync
  BY <1>14, DiscardKeepsBuckets DEF DrainSync
<1>15. CASE ControlNone
  BY <1>15, UnchangedKeepsBuckets DEF ControlNone, bucketVars
<1> QED
  BY <1>1, <1>2, <1>3, <1>4, <1>5, <1>6, <1>7, <1>8, <1>9, <1>10, <1>11,
     <1>12, <1>13, <1>14, <1>15 DEF Running

LEMMA DisturbanceKeepsBuckets == BucketInv /\ Disturbance => BucketInv'
<1> SUFFICES ASSUME BucketInv, Disturbance PROVE BucketInv'
  OBVIOUS
<1>1. CASE ThruRefused
  BY <1>1, UnchangedKeepsBuckets DEF ThruRefused, bucketVars
<1>2. CASE FullRefused
  BY <1>2, UnchangedKeepsBuckets DEF FullRefused, bucketVars
<1>3. CASE FillRefused
  BY <1>3, UnchangedKeepsBuckets DEF FillRefused, bucketVars
<1>4. CASE SoftRefused
  BY <1>4, UnchangedKeepsBuckets DEF SoftRefused
<1>5. CASE ControlSkip
  BY <1>5, DiscardKeepsBuckets DEF ControlSkip
<1>6. CASE ControlSync
  BY <1>6, DiscardKeepsBuckets DEF ControlSync
<1>7. CASE ControlReload
  BY <1>7, ReconfigureKeepsBuckets DEF ControlReload
<1> QED BY <1>1, <1>2, <1>3, <1>4, <1>5, <1>6, <1>7 DEF Disturbance

LEMMA CallsKeepBuckets == BucketInv /\ Calls => BucketInv'
<1> SUFFICES ASSUME BucketInv, Calls PROVE BucketInv'
  OBVIOUS
<1>0. AqAdd => UNCHANGED <<nb, free, queue>>
  BY DEF AqAdd, bucketVars
<1>1. ASSUME NEW n \in 1..ComputeSize, ComputeData(n) PROVE BucketInv'
  BY <1>0, <1>1, UnchangedKeepsBuckets DEF ComputeData, bucketVars
<1>2. CASE ComputeRest
  BY <1>0, <1>2, UnchangedKeepsBuckets DEF ComputeRest
<1>3. CASE AqUpdate
  BY <1>3, UnchangedKeepsBuckets DEF AqUpdate, bucketVars
<1>4. CASE AqFillNonblocking
  BY <1>4, UnchangedKeepsBuckets DEF AqFillNonblocking, bucketVars
<1>5. CASE AqSoftFlush
  BY <1>5, UnchangedKeepsBuckets DEF AqSoftFlush, bucketVars
<1>6. CASE AqFlush
  BY <1>6, UnchangedKeepsBuckets DEF AqFlush, bucketVars
<1>7. CASE AqDiscard
  BY <1>7, DiscardKeepsBuckets DEF AqDiscard
<1>8. CASE OutputChanged
  BY <1>8, ReconfigureKeepsBuckets DEF OutputChanged
<1>9. ASSUME NEW pos \in SeekPoints, Seek(pos) PROVE BucketInv'
  BY <1>9, DiscardKeepsBuckets DEF Seek
<1>10. ASSUME NEW pos \in SeekPoints, StartTune(pos) PROVE BucketInv'
  BY <1>10, UnchangedKeepsBuckets DEF StartTune, bucketVars
<1>11. CASE PushTrace
  BY <1>11, UnchangedKeepsBuckets DEF PushTrace, bucketVars
<1> QED
  BY <1>1, <1>2, <1>3, <1>4, <1>5, <1>6, <1>7, <1>8, <1>9, <1>10, <1>11
     DEF Calls

LEMMA BucketStep == BucketInv /\ [Next]_vars => BucketInv'
<1> SUFFICES ASSUME BucketInv, [Next]_vars PROVE BucketInv'
  OBVIOUS
<1>1. CASE Running
  BY <1>1, RunningKeepsBuckets
<1>2. CASE Disturbance
  BY <1>2, DisturbanceKeepsBuckets
<1>3. CASE Calls
  BY <1>3, CallsKeepBuckets
<1>4. CASE Tick
  BY <1>4, UnchangedKeepsBuckets DEF Tick, bucketVars
<1>5. CASE UNCHANGED vars
  BY <1>5, UnchangedKeepsBuckets DEF vars, bucketVars
<1> QED BY <1>1, <1>2, <1>3, <1>4, <1>5 DEF Next

\* No bucket is ever lost or in two places (aq.c: reuse_audio_bucket,
\* next_allocated_bucket, flush_buckets, add_play_bucket, aq_fill_one).
THEOREM BucketsAlwaysConserved == Spec => []BucketsConserved
<1>1. BucketInv => BucketsConserved
  <2>1. \A s \in Seq(ActiveBuckets) : DOMAIN s = 1..Len(s)
    OBVIOUS
  <2> QED BY <2>1 DEF BucketInv, Split, BucketsConserved
<1> QED BY <1>1, BucketInit, BucketStep, PTL DEF Spec

-----------------------------------------------------------------------------
(* The contents of the buckets as one sequence.                            *)

\* The k-th queued sample is number j of bucket number i + 1.
LEMMA Position ==
    ASSUME NEW k \in Nat \ {0}
    PROVE  \E i \in Nat, j \in 1..BucketSize :
              /\ k = i * BucketSize + j
              /\ (k - 1) \div BucketSize = i /\ (k - 1) % BucketSize = j - 1
<1> DEFINE i == (k - 1) \div BucketSize
           j == (k - 1) % BucketSize
<1>1. BucketSize \in Nat /\ BucketSize > 0 /\ k - 1 \in Nat
  BY QueueAssumption
<1>2. i \in Nat
  BY <1>1
<1>3. j \in 0..(BucketSize - 1)
  BY <1>1
<1>4. k - 1 = BucketSize * i + j
  BY <1>1
<1>5. BucketSize * i = i * BucketSize
  BY <1>1, <1>2
<1> HIDE DEF i, j
<1>6. k = i * BucketSize + (j + 1) /\ j + 1 \in 1..BucketSize /\ j = (j + 1) - 1
  BY <1>1, <1>2, <1>3, <1>4, <1>5
<1> QED BY <1>2, <1>6 DEF i, j

LEMMA PositionOf ==
    ASSUME NEW i \in Nat, NEW j \in 1..BucketSize
    PROVE  /\ i * BucketSize + j \in Nat \ {0}
           /\ ((i * BucketSize + j) - 1) \div BucketSize = i
           /\ ((i * BucketSize + j) - 1) % BucketSize = j - 1
<1>1. BucketSize \in Nat \ {0} /\ i * BucketSize \in Nat
  BY QueueAssumption
<1>2. j - 1 \in 0..(BucketSize - 1)
  BY <1>1
<1>3. (i * BucketSize + (j - 1)) \div BucketSize = i
  BY <1>1, <1>2
<1>4. (i * BucketSize + (j - 1)) % BucketSize = j - 1
  BY <1>1, <1>2
<1>5. (i * BucketSize + j) - 1 = i * BucketSize + (j - 1)
  BY <1>1
<1> QED BY <1>1, <1>3, <1>4, <1>5


\* A whole bucket lies before the next one begins.
LEMMA BucketBefore ==
    ASSUME NEW i \in Nat, NEW n \in Nat, i < n
    PROVE  i * BucketSize + BucketSize <= n * BucketSize
<1>1. BucketSize \in Nat /\ n - i - 1 \in Nat
  BY QueueAssumption
<1>2. (n - i - 1) * BucketSize >= 0
  BY <1>1
<1> QED BY <1>1, <1>2

\* Where bucket number i of the queue begins.
Start(i) == (i - 1) * BucketSize

LEMMA StartFacts ==
    /\ Start(1) = 0
    /\ \A i \in Nat \ {0} : Start(i) \in Nat /\ Start(i + 1) = Start(i) + BucketSize
    /\ \A i, n \in Nat \ {0} : i < n => Start(i) + BucketSize <= Start(n)
<1>1. BucketSize \in Nat
  BY QueueAssumption
<1>2. Start(1) = 0
  BY <1>1 DEF Start
<1>3. ASSUME NEW i \in Nat \ {0}
      PROVE  Start(i) \in Nat /\ Start(i + 1) = Start(i) + BucketSize
  BY <1>1 DEF Start
<1>4. ASSUME NEW i \in Nat \ {0}, NEW n \in Nat \ {0}, i < n
      PROVE  Start(i) + BucketSize <= Start(n)
  <2>1. i - 1 \in Nat /\ n - 1 \in Nat /\ i - 1 < n - 1
    BY <1>4
  <2>2. (i - 1) * BucketSize + BucketSize <= (n - 1) * BucketSize
    BY <2>1, BucketBefore
  <2> QED BY <2>2 DEF Start
<1> QED BY <1>2, <1>3, <1>4

\* Queued as a function of the queue and the bucket contents.
Amount(q, D) ==
    IF q = <<>> THEN 0 ELSE Start(Len(q)) + Len(D[q[Len(q)]])

Laid(q, D) ==
    [k \in 1..Amount(q, D) |->
        D[q[((k - 1) \div BucketSize) + 1]][((k - 1) % BucketSize) + 1]]

LEMMA QueuedIsLaid ==
    Queued = Laid(queue, data) /\ Queued' = Laid(queue', data')
BY DEF Queued, Laid, Amount, Start, LastBucket

\* The buckets hold samples, and all but the last one in the queue are full.
Filled(q, D) ==
    /\ q \in Seq(Buckets)
    /\ D \in [Buckets -> Seq(Nat)]
    /\ \A b \in Buckets : Len(D[b]) <= BucketSize
    /\ \A i \in 1..Len(q) :
          /\ Len(D[q[i]]) > 0
          /\ i < Len(q) => Len(D[q[i]]) = BucketSize

LEMMA BucketOf ==
    ASSUME NEW q, NEW D, Filled(q, D), NEW i \in 1..Len(q)
    PROVE  /\ q[i] \in Buckets /\ D[q[i]] \in Seq(Nat)
           /\ Len(D[q[i]]) \in 1..BucketSize
           /\ i < Len(q) => Len(D[q[i]]) = BucketSize
<1>1. q[i] \in Buckets
  BY ElementOfSeq DEF Filled
<1>2. D[q[i]] \in Seq(Nat)
  BY <1>1 DEF Filled
<1>3. Len(D[q[i]]) \in Nat /\ BucketSize \in Nat
  BY <1>2, QueueAssumption
<1> QED BY <1>1, <1>2, <1>3 DEF Filled

LEMMA AmountType ==
    ASSUME NEW q, NEW D, Filled(q, D)
    PROVE  /\ Len(q) \in Nat /\ Amount(q, D) \in Nat
           /\ q = <<>> => Amount(q, D) = 0
           /\ q # <<>> => /\ Len(q) \in Nat \ {0} /\ Len(q) \in 1..Len(q)
                          /\ Len(D[q[Len(q)]]) \in 1..BucketSize
                          /\ Amount(q, D) = Start(Len(q)) + Len(D[q[Len(q)]])
<1>1. q \in Seq(Buckets) /\ Len(q) \in Nat /\ BucketSize \in Nat
  BY QueueAssumption DEF Filled
<1>2. CASE q = <<>>
  BY <1>1, <1>2 DEF Amount
<1>3. CASE q # <<>>
  <2>1. Len(q) \in Nat \ {0} /\ Len(q) \in 1..Len(q)
    BY <1>1, <1>3
  <2>2. Len(D[q[Len(q)]]) \in 1..BucketSize
    BY <2>1, BucketOf
  <2>3. Start(Len(q)) \in Nat
    BY <2>1, StartFacts
  <2>4. Amount(q, D) = Start(Len(q)) + Len(D[q[Len(q)]])
    BY <1>3 DEF Amount
  <2> QED BY <1>1, <1>3, <2>1, <2>2, <2>3, <2>4
<1> QED BY <1>2, <1>3

\* Where sample j of bucket i lies.
LEMMA PlaceOf ==
    ASSUME NEW q, NEW D, Filled(q, D), NEW i \in 1..Len(q), NEW j \in 1..Len(D[q[i]])
    PROVE  /\ j \in 1..BucketSize
           /\ Start(i) + j \in 1..Amount(q, D)
           /\ Laid(q, D)[Start(i) + j] = D[q[i]][j]
<1>1. q \in Seq(Buckets) /\ Len(q) \in Nat /\ BucketSize \in Nat
  BY QueueAssumption DEF Filled
<1>2. q # <<>> /\ i \in Nat \ {0}
  BY <1>1
<1>3. /\ Len(D[q[i]]) \in 1..BucketSize
      /\ i < Len(q) => Len(D[q[i]]) = BucketSize
  BY BucketOf
<1>4. j \in 1..BucketSize
  BY <1>1, <1>3
<1>5. /\ Amount(q, D) = Start(Len(q)) + Len(D[q[Len(q)]])
      /\ Len(D[q[Len(q)]]) \in 1..BucketSize /\ Len(q) \in Nat \ {0}
  BY <1>2, AmountType
<1>6. Start(i) \in Nat /\ Start(Len(q)) \in Nat
  BY <1>2, <1>5, StartFacts
<1>7. Start(i) + j <= Amount(q, D)
  <2>1. CASE i = Len(q)
    BY <2>1, <1>1, <1>3, <1>5, <1>6
  <2>2. CASE i < Len(q)
    <3>1. Start(i) + BucketSize <= Start(Len(q))
      BY <1>2, <1>5, <2>2, StartFacts
    <3> QED BY <3>1, <1>1, <1>4, <1>5, <1>6
  <2> QED BY <2>1, <2>2, <1>1
<1>8. Start(i) + j \in 1..Amount(q, D)
  BY <1>4, <1>6, <1>7, AmountType, <1>1
<1>9. i - 1 \in Nat /\ (i - 1) + 1 = i /\ (j - 1) + 1 = j
  BY <1>2, <1>4
<1>10. /\ ((Start(i) + j) - 1) \div BucketSize = i - 1
       /\ ((Start(i) + j) - 1) % BucketSize = j - 1
  BY <1>4, <1>9, PositionOf DEF Start
<1>11. Laid(q, D)[Start(i) + j]
         = D[q[(((Start(i) + j) - 1) \div BucketSize) + 1]]
            [(((Start(i) + j) - 1) % BucketSize) + 1]
  BY <1>8 DEF Laid
<1> QED BY <1>4, <1>8, <1>9, <1>10, <1>11

\* Every sample of the queue lies in some bucket.
LEMMA PlaceFrom ==
    ASSUME NEW q, NEW D, Filled(q, D), NEW k \in 1..Amount(q, D)
    PROVE  \E i \in 1..Len(q) : \E j \in 1..Len(D[q[i]]) : k = Start(i) + j
<1>1. Len(q) \in Nat /\ BucketSize \in Nat /\ BucketSize > 0 /\ Amount(q, D) \in Nat
  BY QueueAssumption, AmountType
<1>2. q # <<>>
  BY <1>1, AmountType
<1>3. k \in Nat \ {0}
  BY <1>1
<1>4. PICK n \in Nat : \E j \in 1..BucketSize : k = n * BucketSize + j
  BY <1>3, Position
<1>5. PICK j \in 1..BucketSize : k = n * BucketSize + j
  BY <1>4
<1> DEFINE i == n + 1
<1>6. i \in Nat \ {0} /\ i - 1 = n
  OBVIOUS
<1>7. k = Start(i) + j
  BY <1>5, <1>6 DEF Start
<1> HIDE DEF i
<1>8. /\ Amount(q, D) = Start(Len(q)) + Len(D[q[Len(q)]])
      /\ Len(D[q[Len(q)]]) \in 1..BucketSize /\ Len(q) \in Nat \ {0}
  BY <1>2, AmountType
<1>9. Start(i) \in Nat /\ Start(Len(q)) \in Nat
  BY <1>6, <1>8, StartFacts
<1>10. i <= Len(q)
  <2> SUFFICES ASSUME Len(q) < i PROVE FALSE
    BY <1>1, <1>6
  <2>1. Start(Len(q)) + BucketSize <= Start(i)
    BY <1>6, <1>8, StartFacts
  <2> QED BY <2>1, <1>1, <1>7, <1>8, <1>9
<1>11. i \in 1..Len(q)
  BY <1>1, <1>6, <1>10
<1>12. j \in 1..Len(D[q[i]])
  <2>1. CASE i = Len(q)
    BY <2>1, <1>1, <1>7, <1>8, <1>9
  <2>2. CASE i < Len(q)
    BY <2>2, <1>11, BucketOf
  <2> QED BY <2>1, <2>2, <1>1, <1>10, <1>6
<1> QED BY <1>7, <1>11, <1>12

LEMMA LaidType ==
    ASSUME NEW q, NEW D, Filled(q, D)
    PROVE  Laid(q, D) \in Seq(Nat) /\ Len(Laid(q, D)) = Amount(q, D)
<1>1. Amount(q, D) \in Nat
  BY AmountType
<1>2. \A k \in 1..Amount(q, D) : Laid(q, D)[k] \in Nat
  <2> SUFFICES ASSUME NEW k \in 1..Amount(q, D) PROVE Laid(q, D)[k] \in Nat
    OBVIOUS
  <2>1. PICK i \in 1..Len(q) : \E j \in 1..Len(D[q[i]]) : k = Start(i) + j
    BY PlaceFrom
  <2>2. PICK j \in 1..Len(D[q[i]]) : k = Start(i) + j
    BY <2>1
  <2>3. Laid(q, D)[k] = D[q[i]][j]
    BY <2>2, PlaceOf
  <2>4. D[q[i]][j] \in Nat
    BY BucketOf, ElementOfSeq
  <2> QED BY <2>3, <2>4
<1>3. Laid(q, D) \in [1..Amount(q, D) -> Nat]
  BY <1>2 DEF Laid
<1> HIDE DEF Laid
<1> QED BY <1>1, <1>3

\* A sequence with every bucket in its place is the queue.
LEMMA LaidOnly ==
    ASSUME NEW q, NEW D, Filled(q, D),
           NEW s \in Seq(Nat), Len(s) = Amount(q, D),
           \A i \in 1..Len(q) : \A j \in 1..Len(D[q[i]]) :
              s[Start(i) + j] = D[q[i]][j]
    PROVE  s = Laid(q, D)
<1>1. \A k \in 1..Len(s) : s[k] = Laid(q, D)[k]
  <2> SUFFICES ASSUME NEW k \in 1..Len(s) PROVE s[k] = Laid(q, D)[k]
    OBVIOUS
  <2>1. PICK i \in 1..Len(q) : \E j \in 1..Len(D[q[i]]) : k = Start(i) + j
    BY PlaceFrom
  <2>2. PICK j \in 1..Len(D[q[i]]) : k = Start(i) + j
    BY <2>1
  <2> QED BY <2>2, PlaceOf
<1> QED BY <1>1, LaidType, SeqEqual

Distinct(q) == \A i, j \in 1..Len(q) : q[i] = q[j] => i = j

\* A sample of a concatenation is found in one of the two parts.
LEMMA Joined ==
    ASSUME NEW a \in Seq(Nat), NEW c \in Seq(Nat)
    PROVE  /\ Len(a) \in Nat /\ Len(c) \in Nat
           /\ a \o c \in Seq(Nat) /\ Len(a \o c) = Len(a) + Len(c)
           /\ \A k \in 1..Len(a) : (a \o c)[k] = a[k]
           /\ \A k \in 1..Len(c) : (a \o c)[Len(a) + k] = c[k]
<1> DEFINE m == Len(a)
           n == Len(c)
<1>1. m \in Nat /\ n \in Nat /\ a \o c \in Seq(Nat) /\ Len(a \o c) = m + n
  OBVIOUS
<1>2. \A k \in 1..(m + n) : (a \o c)[k] = IF k <= m THEN a[k] ELSE c[k - m]
  BY ConcatProperties
<1> HIDE DEF m, n
<1>3. ASSUME NEW k \in 1..m PROVE (a \o c)[k] = a[k]
  <2>1. k \in 1..(m + n) /\ k <= m
    BY <1>1
  <2> QED BY <2>1, <1>2
<1>4. ASSUME NEW k \in 1..n PROVE (a \o c)[m + k] = c[k]
  <2>1. m + k \in 1..(m + n) /\ ~(m + k <= m) /\ (m + k) - m = k
    BY <1>1
  <2> QED BY <2>1, <1>2
<1> QED BY <1>1, <1>3, <1>4 DEF m, n

LEMMA Regrouped ==
    ASSUME NEW a \in Seq(Nat), NEW b \in Seq(Nat), NEW c \in Seq(Nat)
    PROVE  (a \o b) \o c = a \o (b \o c)
BY ConcatAssociative

\* The contents E of the buckets are D with s in bucket b.
Stored(E, D, b, s) ==
    /\ E \in [Buckets -> Seq(Nat)]
    /\ \A c \in Buckets : E[c] = IF c = b THEN s ELSE D[c]

LEMMA ExceptStored ==
    ASSUME NEW D \in [Buckets -> Seq(Nat)], NEW b \in Buckets, NEW s \in Seq(Nat)
    PROVE  Stored([D EXCEPT ![b] = s], D, b, s)
BY DEF Stored

\* The bucket at the head leaves the queue.
LEMMA LaidWithoutHead ==
    ASSUME NEW q, NEW D, Filled(q, D), q # <<>>, Distinct(q),
           Len(D[Head(q)]) = BucketSize \/ Len(q) = 1,
           NEW D2, Stored(D2, D, Head(q), <<>>)
    PROVE  /\ Filled(Tail(q), D2)
           /\ Laid(q, D) = D[Head(q)] \o Laid(Tail(q), D2)
<1> DEFINE n == Len(q)
           t == Tail(q)
<1>1. q \in Seq(Buckets) /\ D \in [Buckets -> Seq(Nat)]
  BY DEF Filled
<1>2. /\ n \in Nat \ {0} /\ Head(q) = q[1] /\ 1 \in 1..n
      /\ t \in Seq(Buckets) /\ Len(t) = n - 1
      /\ \A i \in 1..Len(t) : t[i] = q[i + 1] /\ i + 1 \in 1..n
  BY <1>1, HeadTailProperties
<1>3. BucketSize \in Nat \ {0}
  BY QueueAssumption
<1>4. q[1] \in Buckets /\ D[q[1]] \in Seq(Nat) /\ Len(D[q[1]]) \in 1..BucketSize
  BY <1>2, BucketOf
<1>5. D2 \in [Buckets -> Seq(Nat)]
      /\ \A b \in Buckets : D2[b] = IF b = q[1] THEN <<>> ELSE D[b]
  BY <1>2 DEF Stored
<1> HIDE DEF n, t
<1>6. \A i \in 1..Len(t) : t[i] = q[i + 1] /\ D2[t[i]] = D[q[i + 1]]
  <2> SUFFICES ASSUME NEW i \in 1..Len(t)
               PROVE  t[i] = q[i + 1] /\ D2[t[i]] = D[q[i + 1]]
    OBVIOUS
  <2>1. i + 1 \in 1..n /\ i + 1 # 1 /\ t[i] = q[i + 1]
    BY <1>2
  <2>2. q[i + 1] # q[1]
    BY <2>1, <1>2 DEF Distinct, n
  <2>3. q[i + 1] \in Buckets
    BY <2>1, BucketOf DEF n
  <2> QED BY <2>1, <2>2, <2>3, <1>5
<1>7. Filled(t, D2)
  <2>1. \A b \in Buckets : Len(D2[b]) <= BucketSize
    <3>1. Len(<<>>) = 0 /\ \A b \in Buckets : Len(D[b]) <= BucketSize
      BY DEF Filled
    <3> QED BY <3>1, <1>3, <1>5
  <2>2. ASSUME NEW i \in 1..Len(t)
        PROVE  /\ Len(D2[t[i]]) > 0
               /\ i < Len(t) => Len(D2[t[i]]) = BucketSize
    <3>1. i + 1 \in 1..n /\ (i < Len(t) => i + 1 < n)
      BY <1>2
    <3>2. /\ Len(D[q[i + 1]]) > 0
          /\ i + 1 < n => Len(D[q[i + 1]]) = BucketSize
      BY <3>1 DEF Filled, n
    <3> QED BY <3>1, <3>2, <1>6
  <2> QED BY <2>1, <2>2, <1>2, <1>5 DEF Filled
<1>8. Laid(t, D2) \in Seq(Nat) /\ Len(Laid(t, D2)) = Amount(t, D2) /\ Amount(t, D2) \in Nat
  BY <1>7, LaidType, AmountType
<1> DEFINE s == D[q[1]] \o Laid(t, D2)
           l == Len(D[q[1]])
           m == Amount(t, D2)
<1>9. /\ l \in Nat /\ m \in Nat /\ s \in Seq(Nat) /\ Len(s) = l + m
      /\ \A k \in 1..l : s[k] = D[q[1]][k]
      /\ \A k \in 1..m : s[l + k] = Laid(t, D2)[k]
  <2> DEFINE a == D[q[1]]
             c == Laid(t, D2)
  <2>1. a \in Seq(Nat) /\ Len(a) = l /\ c \in Seq(Nat) /\ Len(c) = m
    BY <1>4, <1>8
  <2> HIDE DEF a, c
  <2>2. /\ Len(a) \in Nat /\ Len(c) \in Nat
        /\ a \o c \in Seq(Nat) /\ Len(a \o c) = Len(a) + Len(c)
        /\ \A k \in 1..Len(a) : (a \o c)[k] = a[k]
        /\ \A k \in 1..Len(c) : (a \o c)[Len(a) + k] = c[k]
    BY <2>1, Joined
  <2>3. s = a \o c
    BY DEF a, c
  <2> HIDE DEF s, l, m
  <2> QED BY <2>1, <2>2, <2>3 DEF a, c
<1> HIDE DEF s, l, m
<1>10. Len(s) = Amount(q, D)
  <2>1. Amount(q, D) = Start(n) + Len(D[q[n]]) /\ Len(D[q[n]]) \in 1..BucketSize
    BY AmountType DEF n
  <2>2. CASE n = 1
    <3>1. t = <<>>
      BY <2>2, <1>2
    <3>2. m = 0
      BY <3>1, <1>7, AmountType DEF m
    <3>3. Amount(q, D) = 0 + Len(D[q[1]])
      BY <2>1, <2>2, StartFacts
    <3> QED BY <3>2, <3>3, <1>9 DEF l
  <2>3. CASE n # 1
    <3>1. n - 1 \in Nat \ {0} /\ t # <<>> /\ Len(t) = n - 1 /\ (n - 1) + 1 = n
      BY <2>3, <1>2
    <3>2. m = Start(n - 1) + Len(D2[t[n - 1]])
      BY <3>1, <1>7, AmountType DEF m
    <3>3. D2[t[n - 1]] = D[q[n]]
      <4>1. n - 1 \in 1..Len(t)
        BY <3>1
      <4> QED BY <4>1, <3>1, <1>6
    <3>4. Start(n) = Start(n - 1) + BucketSize /\ Start(n - 1) \in Nat
      BY <3>1, StartFacts
    <3>5. l = BucketSize
      BY <2>3, <1>2 DEF n, l
    <3>6. Amount(q, D) = (Start(n - 1) + BucketSize) + Len(D[q[n]])
      BY <2>1, <3>4
    <3>7. Len(s) = BucketSize + (Start(n - 1) + Len(D[q[n]]))
      BY <3>2, <3>3, <3>5, <1>9
    <3> QED BY <2>1, <3>4, <3>6, <3>7, <1>3
  <2> QED BY <2>2, <2>3
<1>11. ASSUME NEW i \in 1..n, NEW j \in 1..Len(D[q[i]])
       PROVE  s[Start(i) + j] = D[q[i]][j]
  <2>1. CASE i = 1
    <3>1. j \in 1..l
      BY <2>1, <1>11 DEF l
    <3>2. Start(i) + j = j
      BY <2>1, <3>1, <1>9, StartFacts
    <3> QED BY <3>1, <3>2, <2>1, <1>9
  <2>2. CASE i # 1
    <3>1. i - 1 \in 1..Len(t) /\ (i - 1) + 1 = i /\ i - 1 \in Nat \ {0} /\ n # 1
      BY <2>2, <1>2, <1>11
    <3>2. l = BucketSize
      BY <3>1, <1>2 DEF n, l
    <3>3. Start(i) = Start(i - 1) + BucketSize /\ Start(i - 1) \in Nat
      BY <3>1, StartFacts
    <3>4. t[i - 1] = q[i] /\ D2[t[i - 1]] = D[q[i]]
      BY <3>1, <1>6
    <3>5. j \in 1..Len(D2[t[i - 1]])
      BY <3>4, <1>11
    <3>6. j \in 1..BucketSize
      BY <3>1, <3>5, <1>7, PlaceOf
    <3>7. Start(i - 1) + j \in 1..m
      <4>1. Start(i - 1) + j \in 1..Amount(t, D2)
        BY <3>1, <3>5, <1>7, PlaceOf
      <4> QED BY <4>1 DEF m
    <3>8. Laid(t, D2)[Start(i - 1) + j] = D2[t[i - 1]][j]
      BY <3>1, <3>5, <1>7, PlaceOf
    <3>9. Start(i) + j = l + (Start(i - 1) + j)
      BY <3>2, <3>3, <3>6, <1>3
    <3> QED BY <3>4, <3>7, <3>8, <3>9, <1>9
  <2> QED BY <2>1, <2>2
<1>12. s = Laid(q, D)
  BY <1>9, <1>10, <1>11, LaidOnly DEF n
<1> QED BY <1>2, <1>7, <1>12 DEF s, t

\* Bucket b may follow the last bucket of the queue.
MayFollow(b, q, D) ==
    /\ \A i \in 1..Len(q) : q[i] # b
    /\ q # <<>> => Len(D[q[Len(q)]]) = BucketSize

\* A bucket that was not in the queue becomes the last one.
LEMMA LaidWithLast ==
    ASSUME NEW q, NEW D, Filled(q, D), NEW b \in Buckets,
           MayFollow(b, q, D),
           NEW w \in Seq(Nat), Len(w) \in 1..BucketSize,
           NEW D2, Stored(D2, D, b, w)
    PROVE  /\ Filled(Append(q, b), D2)
           /\ Laid(Append(q, b), D2) = Laid(q, D) \o w
<1> DEFINE n == Len(q)
           t == Append(q, b)
<1>1. q \in Seq(Buckets) /\ D \in [Buckets -> Seq(Nat)] /\ n \in Nat
  BY DEF Filled
<1>2. /\ t \in Seq(Buckets) /\ t # <<>> /\ Len(t) = n + 1 /\ t[n + 1] = b
      /\ \A i \in 1..n : t[i] = q[i]
  <2>1. /\ Append(q, b) \in Seq(Buckets) /\ Append(q, b) # <<>>
        /\ Len(Append(q, b)) = Len(q) + 1 /\ Append(q, b)[Len(q) + 1] = b
        /\ \A i \in 1..Len(q) : Append(q, b)[i] = q[i]
    <3>1. q \in Seq(Buckets)
      BY <1>1
    <3> HIDE DEF n, t
    <3> QED BY <3>1, AppendProperties
  <2> QED BY <2>1
<1>3. BucketSize \in Nat \ {0}
  BY QueueAssumption
<1>4. D2 \in [Buckets -> Seq(Nat)]
      /\ \A c \in Buckets : D2[c] = IF c = b THEN w ELSE D[c]
  BY DEF Stored
<1> HIDE DEF n, t
<1>5. \A i \in 1..n : D2[t[i]] = D[q[i]]
  BY <1>2, <1>4, BucketOf DEF n, MayFollow
<1>6. D2[t[n + 1]] = w
  BY <1>2, <1>4
<1>7. \A i \in 1..n : Len(D[q[i]]) = BucketSize
  <2> SUFFICES ASSUME NEW i \in 1..n PROVE Len(D[q[i]]) = BucketSize
    OBVIOUS
  <2>1. CASE i < n
    BY <2>1, BucketOf DEF n
  <2>2. CASE i = n
    <3>1. q # <<>>
      BY <1>1, <2>2 DEF n
    <3> QED BY <3>1, <2>2 DEF n, MayFollow
  <2>3. i < n \/ i = n
    BY <1>1
  <2> QED BY <2>1, <2>2, <2>3
<1>8. Filled(t, D2)
  <2>1. \A c \in Buckets : Len(D2[c]) <= BucketSize
    <3>1. \A c \in Buckets : Len(D[c]) <= BucketSize
      BY DEF Filled
    <3>2. Len(w) <= BucketSize
      BY <1>3
    <3> QED BY <3>1, <3>2, <1>4
  <2>2. ASSUME NEW i \in 1..Len(t)
        PROVE  /\ Len(D2[t[i]]) > 0
               /\ i < Len(t) => Len(D2[t[i]]) = BucketSize
    <3>1. CASE i = n + 1
      BY <3>1, <1>1, <1>2, <1>6
    <3>2. CASE i # n + 1
      <4>1. i \in 1..n
        BY <3>2, <1>1, <1>2
      <4> QED BY <4>1, <1>3, <1>5, <1>7
    <3> QED BY <3>1, <3>2
  <2> QED BY <2>1, <2>2, <1>2, <1>4 DEF Filled
<1>9. Laid(q, D) \in Seq(Nat) /\ Len(Laid(q, D)) = Amount(q, D) /\ Amount(q, D) \in Nat
  BY LaidType, AmountType
<1>10. Amount(q, D) = Start(n + 1)
  <2>1. CASE q = <<>>
    BY <2>1, AmountType, StartFacts DEF n
  <2>2. CASE q # <<>>
    <3>1. n \in Nat \ {0} /\ Amount(q, D) = Start(n) + Len(D[q[n]])
      BY <2>2, <1>1, AmountType DEF n
    <3>2. Len(D[q[n]]) = BucketSize
      BY <2>2 DEF n, MayFollow
    <3> QED BY <3>1, <3>2, StartFacts
  <2> QED BY <2>1, <2>2
<1> DEFINE s == Laid(q, D) \o w
           l == Amount(q, D)
           m == Len(w)
<1>11. /\ l \in Nat /\ m \in Nat /\ s \in Seq(Nat) /\ Len(s) = l + m
       /\ \A k \in 1..l : s[k] = Laid(q, D)[k]
       /\ \A k \in 1..m : s[l + k] = w[k]
  <2> DEFINE a == Laid(q, D)
  <2>1. a \in Seq(Nat) /\ Len(a) = l
    BY <1>9
  <2> HIDE DEF a
  <2>2. /\ Len(a) \in Nat /\ Len(w) \in Nat
        /\ a \o w \in Seq(Nat) /\ Len(a \o w) = Len(a) + Len(w)
        /\ \A k \in 1..Len(a) : (a \o w)[k] = a[k]
        /\ \A k \in 1..Len(w) : (a \o w)[Len(a) + k] = w[k]
    BY <2>1, Joined
  <2>3. s = a \o w /\ m = Len(w)
    BY DEF a
  <2> HIDE DEF s, l, m
  <2> QED BY <2>1, <2>2, <2>3 DEF a
<1> HIDE DEF s, l, m
<1>12. Len(s) = Amount(t, D2)
  <2>1. Amount(t, D2) = Start(n + 1) + Len(D2[t[n + 1]])
    BY <1>2, <1>8, AmountType
  <2> QED BY <2>1, <1>6, <1>10, <1>11 DEF l, m
<1>13. ASSUME NEW i \in 1..Len(t), NEW j \in 1..Len(D2[t[i]])
       PROVE  s[Start(i) + j] = D2[t[i]][j]
  <2>1. CASE i = n + 1
    <3>1. j \in 1..m /\ D2[t[i]] = w
      BY <2>1, <1>6, <1>13 DEF m
    <3>2. Start(i) = l
      BY <2>1, <1>10 DEF l
    <3> QED BY <3>1, <3>2, <1>11
  <2>2. CASE i # n + 1
    <3>1. i \in 1..n /\ D2[t[i]] = D[q[i]]
      BY <2>2, <1>1, <1>2, <1>5, <1>13
    <3>2. j \in 1..Len(D[q[i]])
      BY <3>1, <1>13
    <3>3. Start(i) + j \in 1..l /\ Laid(q, D)[Start(i) + j] = D[q[i]][j]
      BY <3>1, <3>2, PlaceOf DEF n, l
    <3> QED BY <3>1, <3>3, <1>11
  <2> QED BY <2>1, <2>2
<1>14. \A i \in 1..Len(t) : \A j \in 1..Len(D2[t[i]]) : s[Start(i) + j] = D2[t[i]][j]
  <2> SUFFICES ASSUME NEW i \in 1..Len(t), NEW j \in 1..Len(D2[t[i]])
               PROVE  s[Start(i) + j] = D2[t[i]][j]
    OBVIOUS
  <2> QED BY <1>13
<1>15. s = Laid(t, D2)
  BY <1>8, <1>11, <1>12, <1>14, LaidOnly
<1> QED BY <1>8, <1>15 DEF s, t

\* The last bucket takes more samples.
LEMMA LaidExtended ==
    ASSUME NEW q, NEW D, Filled(q, D), q # <<>>, Distinct(q),
           NEW w \in Seq(Nat), Len(D[q[Len(q)]]) + Len(w) <= BucketSize,
           NEW D2, Stored(D2, D, q[Len(q)], D[q[Len(q)]] \o w)
    PROVE  /\ Filled(q, D2)
           /\ Laid(q, D2) = Laid(q, D) \o w
<1> DEFINE n == Len(q)
           old == D[q[n]]
<1>1. q \in Seq(Buckets) /\ D \in [Buckets -> Seq(Nat)]
  BY DEF Filled
<1>2. /\ n \in Nat \ {0} /\ n \in 1..n /\ Len(old) \in 1..BucketSize
      /\ Amount(q, D) = Start(n) + Len(old)
  BY AmountType
<1>3. BucketSize \in Nat \ {0} /\ Len(w) \in Nat
  BY QueueAssumption
<1>4. q[n] \in Buckets /\ old \in Seq(Nat)
  BY <1>2, BucketOf
<1>5. /\ old \o w \in Seq(Nat) /\ Len(old \o w) = Len(old) + Len(w)
      /\ \A k \in 1..(Len(old) + Len(w)) :
            (old \o w)[k] = IF k <= Len(old) THEN old[k] ELSE w[k - Len(old)]
  BY <1>4, ConcatProperties
<1>6. D2 \in [Buckets -> Seq(Nat)]
      /\ \A c \in Buckets : D2[c] = IF c = q[n] THEN old \o w ELSE D[c]
  BY DEF Stored
<1>7. D2[q[n]] = old \o w
  BY <1>4, <1>6
<1> HIDE DEF n, old
<1>8. \A i \in 1..n : i # n => D2[q[i]] = D[q[i]]
  <2> SUFFICES ASSUME NEW i \in 1..n, i # n PROVE D2[q[i]] = D[q[i]]
    OBVIOUS
  <2>1. q[i] # q[n]
    BY <1>2 DEF Distinct, n
  <2>2. q[i] \in Buckets
    BY BucketOf DEF n
  <2> QED BY <2>1, <2>2, <1>6
<1>9. Len(old) + Len(w) <= BucketSize
  BY DEF n, old
<1>10. Filled(q, D2)
  <2>1. \A c \in Buckets : Len(D2[c]) <= BucketSize
    BY <1>5, <1>6, <1>9 DEF Filled
  <2>2. ASSUME NEW i \in 1..Len(q)
        PROVE  /\ Len(D2[q[i]]) > 0
               /\ i < Len(q) => Len(D2[q[i]]) = BucketSize
    <3>1. CASE i = n
      <4>1. Len(old) \in Nat /\ Len(old) > 0
        BY <1>2, <1>3
      <4>2. Len(D2[q[i]]) = Len(old) + Len(w)
        BY <3>1, <1>5, <1>7
      <4>3. ~(i < Len(q))
        BY <3>1, <1>2 DEF n
      <4> QED BY <4>1, <4>2, <4>3, <1>3
    <3>2. CASE i # n
      <4>1. D2[q[i]] = D[q[i]]
        BY <3>2, <1>8 DEF n
      <4> QED BY <4>1 DEF Filled
    <3> QED BY <3>1, <3>2
  <2> QED BY <2>1, <2>2, <1>1, <1>6 DEF Filled
<1>11. Laid(q, D) \in Seq(Nat) /\ Len(Laid(q, D)) = Start(n) + Len(old) /\ Start(n) \in Nat
  BY <1>2, LaidType, StartFacts
<1> DEFINE s == Laid(q, D) \o w
           l == Start(n) + Len(old)
           m == Len(w)
<1>12. /\ l \in Nat /\ m \in Nat /\ s \in Seq(Nat) /\ Len(s) = l + m
       /\ \A k \in 1..l : s[k] = Laid(q, D)[k]
       /\ \A k \in 1..m : s[l + k] = w[k]
  <2> DEFINE a == Laid(q, D)
  <2>1. a \in Seq(Nat) /\ Len(a) = l
    BY <1>11
  <2> HIDE DEF a
  <2>2. /\ Len(a) \in Nat /\ Len(w) \in Nat
        /\ a \o w \in Seq(Nat) /\ Len(a \o w) = Len(a) + Len(w)
        /\ \A k \in 1..Len(a) : (a \o w)[k] = a[k]
        /\ \A k \in 1..Len(w) : (a \o w)[Len(a) + k] = w[k]
    BY <2>1, Joined
  <2>3. s = a \o w /\ m = Len(w)
    BY DEF a
  <2> HIDE DEF s, l, m
  <2> QED BY <2>1, <2>2, <2>3 DEF a
<1> HIDE DEF s, l, m
<1>13. Len(s) = Amount(q, D2)
  <2>1. Amount(q, D2) = Start(n) + Len(D2[q[n]])
    BY <1>10, AmountType DEF n
  <2>2. Amount(q, D2) = Start(n) + (Len(old) + Len(w))
    BY <2>1, <1>5, <1>7
  <2>3. Len(s) = (Start(n) + Len(old)) + Len(w)
    BY <1>12 DEF l, m
  <2> QED BY <2>2, <2>3, <1>2, <1>3, <1>11
<1>14. ASSUME NEW i \in 1..Len(q), NEW j \in 1..Len(D2[q[i]])
       PROVE  s[Start(i) + j] = D2[q[i]][j]
  <2>1. CASE i = n
    <3>1. j \in 1..(Len(old) + Len(w)) /\ D2[q[i]][j] = (old \o w)[j]
      BY <2>1, <1>5, <1>7, <1>14
    <3>2. CASE j <= Len(old)
      <4>1. i \in 1..Len(q) /\ j \in 1..Len(D[q[i]]) /\ D[q[i]] = old
        BY <2>1, <3>1, <3>2, <1>2 DEF n, old
      <4>2. Laid(q, D)[Start(i) + j] = old[j]
        BY <4>1, PlaceOf
      <4>3. Start(i) + j \in 1..l
        <5>1. Start(i) + j \in 1..Amount(q, D)
          BY <4>1, PlaceOf
        <5> QED BY <5>1, <1>2 DEF l
      <4>4. (old \o w)[j] = old[j]
        BY <3>1, <3>2, <1>5
      <4> QED BY <3>1, <4>2, <4>3, <4>4, <1>12
    <3>3. CASE ~(j <= Len(old))
      <4>1. j - Len(old) \in 1..m /\ Start(i) + j = l + (j - Len(old))
        BY <2>1, <3>1, <3>3, <1>2, <1>3, <1>11 DEF l, m
      <4>2. (old \o w)[j] = w[j - Len(old)]
        BY <3>1, <3>3, <1>5
      <4> QED BY <3>1, <4>1, <4>2, <1>12
    <3> QED BY <3>2, <3>3
  <2>2. CASE i # n
    <3>1. D2[q[i]] = D[q[i]]
      BY <2>2, <1>8 DEF n
    <3>2. j \in 1..Len(D[q[i]])
      BY <3>1, <1>14
    <3>3. Start(i) + j \in 1..l /\ Laid(q, D)[Start(i) + j] = D[q[i]][j]
      BY <3>2, <1>2, PlaceOf DEF l
    <3> QED BY <3>1, <3>3, <1>12
  <2> QED BY <2>1, <2>2
<1>15. \A i \in 1..Len(q) : \A j \in 1..Len(D2[q[i]]) : s[Start(i) + j] = D2[q[i]][j]
  <2> SUFFICES ASSUME NEW i \in 1..Len(q), NEW j \in 1..Len(D2[q[i]])
               PROVE  s[Start(i) + j] = D2[q[i]][j]
    OBVIOUS
  <2> QED BY <1>14
<1>16. s = Laid(q, D2)
  BY <1>10, <1>12, <1>13, <1>15, LaidOnly
<1> QED BY <1>10, <1>16 DEF s

-----------------------------------------------------------------------------
(* What a step does to the samples.                                        *)

Contents ==
    /\ Filled(queue, data)
    /\ buf \in Seq(Nat) /\ Len(buf) <= ComputeSize
    /\ dev \in Seq(Nat)
    /\ heard \in Nat /\ errors \in Nat /\ acc \in Nat

\* Everything accepted and not heard yet, as the sample stream sees it.
Pending == dev \o Queued \o buf

\* A bucket of samples s leaves the head of the queue for the device.
Sends(s) ==
    /\ queue # <<>>
    /\ dev' = dev \o s
    /\ queue' = Tail(queue)
    /\ data' = [data EXCEPT ![Head(queue)] = <<>>]
    /\ UNCHANGED <<heard, errors, acc, buf>>

Keeps == UNCHANGED <<queue, data, dev, heard, errors, acc, buf>>
SendsFull == HeadFull /\ Sends(data[Head(queue)])
SendsPadded == buf = <<>> /\ Sends(Padded(data[Head(queue)]))
SendsThrough ==
    /\ queue = <<>>
    /\ dev' = dev \o buf /\ buf' = <<>>
    /\ UNCHANGED <<queue, data, heard, errors, acc>>
OpensBucket ==
    /\ buf # <<>> /\ free # <<>>
    /\ queue = <<>> \/ TailFull
    /\ queue' = Append(queue, Head(free))
    /\ data' = [data EXCEPT ![Head(free)] = Fill(<<>>, buf)]
    /\ buf' = Rest(<<>>, buf)
    /\ UNCHANGED <<dev, heard, errors, acc>>
ExtendsBucket ==
    /\ buf # <<>> /\ queue # <<>> /\ ~TailFull
    /\ data' = [data EXCEPT ![LastBucket] = Fill(@, buf)]
    /\ buf' = Rest(data[LastBucket], buf)
    /\ UNCHANGED <<queue, dev, heard, errors, acc>>
Fails ==
    /\ errors' = errors + 1 /\ buf' = <<>>
    /\ UNCHANGED <<queue, data, dev, heard, acc>>
FailsPadded ==
    /\ queue # <<>> /\ buf = <<>> /\ buf' = <<>>
    /\ errors' = errors + 1
    /\ data' = [data EXCEPT ![Head(queue)] = Padded(@)]
    /\ UNCHANGED <<queue, dev, heard, acc>>
Forgets ==
    /\ buf = <<>> /\ buf' = <<>> /\ dev' = <<>> /\ queue' = <<>>
    /\ data' = [b \in Buckets |-> <<>>]
    /\ heard' = 0 /\ errors' = 0 /\ acc' \in Nat
Restarts ==
    /\ buf = <<>> /\ dev = <<>> /\ queue = <<>> /\ errors = 0
    /\ acc' \in Nat
    /\ UNCHANGED <<queue, data, dev, heard, errors, buf>>
Accepts ==
    /\ buf = <<>> /\ buf' = NewSamples /\ acc' = acc + ComputeSize
    /\ UNCHANGED <<queue, data, dev, heard, errors>>
Plays ==
    /\ dev # <<>> /\ dev' = Tail(dev) /\ heard' = heard + 1
    /\ UNCHANGED <<queue, data, errors, acc, buf>>

Effect ==
    \/ Keeps \/ SendsFull \/ SendsPadded \/ SendsThrough
    \/ OpensBucket \/ ExtendsBucket \/ Fails \/ FailsPadded
    \/ Forgets \/ Restarts \/ Accepts \/ Plays

-----------------------------------------------------------------------------
LEMMA QueueDistinct == BucketInv => Distinct(queue)
BY DEF BucketInv, Split, Distinct

\* next_allocated_bucket does not hand out a bucket of the queue.
LEMMA FreeBucket ==
    ASSUME BucketInv, free # <<>>
    PROVE  Head(free) \in Buckets /\ \A i \in 1..Len(queue) : queue[i] # Head(free)
<1>1. free \in Seq(ActiveBuckets)
  BY DEF BucketInv, Split
<1>2. Head(free) = free[1] /\ 1 \in 1..Len(free) /\ free[1] \in ActiveBuckets
  BY <1>1
<1>3. ActiveBuckets \subseteq Buckets
  BY QueueAssumption DEF BucketInv, ActiveBuckets, Buckets
<1>4. \A i \in 1..Len(free), j \in 1..Len(queue) : free[i] # queue[j]
  BY DEF BucketInv, Split
<1> QED BY <1>2, <1>3, <1>4

\* memcpy into the room a bucket has left: what is copied, and what remains.
LEMMA Copied ==
    ASSUME NEW c \in Seq(Nat), Len(c) < BucketSize, NEW s \in Seq(Nat), s # <<>>
    PROVE  \E w \in Seq(Nat) :
              /\ Len(w) > 0 /\ Len(c) + Len(w) <= BucketSize
              /\ Fill(c, s) = c \o w
              /\ Rest(c, s) \in Seq(Nat) /\ Len(Rest(c, s)) <= Len(s)
              /\ s = w \o Rest(c, s)
<1> DEFINE m == SmallerOf(Len(s), BucketSize - Len(c))
           n == Len(s)
           w == SubSeq(s, 1, m)
           r == SubSeq(s, m + 1, n)
<1>1. n \in Nat \ {0} /\ Len(c) \in Nat /\ BucketSize \in Nat
  BY QueueAssumption
<1>2. m \in 1..n /\ Len(c) + m <= BucketSize
  BY <1>1 DEF SmallerOf
<1>3. \A i \in 1..n : s[i] \in Nat
  BY ElementOfSeq
<1> HIDE DEF m, n
<1>4. w \in Seq(Nat) /\ Len(w) = m /\ \A i \in 1..m : w[i] = s[i]
  <2>1. \A i \in 1..m : s[i] \in Nat
    BY <1>1, <1>2, <1>3
  <2>2. /\ SubSeq(s, 1, m) \in Seq(Nat)
        /\ Len(SubSeq(s, 1, m)) = IF 1 <= m THEN m - 1 + 1 ELSE 0
        /\ \A i \in 1..(m - 1 + 1) : SubSeq(s, 1, m)[i] = s[1 + i - 1]
    BY <1>2, <2>1, SubSeqProperties
  <2> QED BY <1>1, <1>2, <2>2
<1>5. r \in Seq(Nat) /\ Len(r) = n - m /\ \A i \in 1..(n - m) : r[i] = s[m + i]
  <2>1. \A i \in (m + 1)..n : s[i] \in Nat
    BY <1>1, <1>2, <1>3
  <2>2. /\ SubSeq(s, m + 1, n) \in Seq(Nat)
        /\ Len(SubSeq(s, m + 1, n)) = IF m + 1 <= n THEN n - (m + 1) + 1 ELSE 0
        /\ \A i \in 1..(n - (m + 1) + 1) :
              SubSeq(s, m + 1, n)[i] = s[(m + 1) + i - 1]
    BY <1>1, <1>2, <2>1, SubSeqProperties
  <2> QED BY <1>1, <1>2, <2>2
<1>6. Fill(c, s) = c \o w /\ Rest(c, s) = r
  BY DEF Fill, Rest, m, n
<1> HIDE DEF w, r
<1>7. /\ w \o r \in Seq(Nat) /\ Len(w \o r) = m + (n - m)
      /\ \A k \in 1..m : (w \o r)[k] = w[k]
      /\ \A k \in 1..(n - m) : (w \o r)[m + k] = r[k]
  <2>1. /\ w \o r \in Seq(Nat) /\ Len(w \o r) = Len(w) + Len(r)
        /\ \A k \in 1..Len(w) : (w \o r)[k] = w[k]
        /\ \A k \in 1..Len(r) : (w \o r)[Len(w) + k] = r[k]
    BY <1>4, <1>5, Joined
  <2>2. Len(w) = m /\ Len(r) = n - m
    BY <1>4, <1>5
  <2> QED BY <2>1, <2>2
<1>8. ASSUME NEW k \in 1..n PROVE s[k] = (w \o r)[k]
  <2>1. CASE k <= m
    BY <2>1, <1>1, <1>2, <1>4, <1>7
  <2>2. CASE ~(k <= m)
    <3>1. k - m \in 1..(n - m) /\ m + (k - m) = k
      BY <2>2, <1>1, <1>2
    <3> QED BY <3>1, <1>5, <1>7
  <2> QED BY <2>1, <2>2
<1>9. s = w \o r
  <2>1. Len(s) = Len(w \o r)
    BY <1>1, <1>2, <1>7 DEF n
  <2>2. \A k \in 1..Len(s) : s[k] = (w \o r)[k]
    BY <1>8 DEF n
  <2> QED BY <2>1, <2>2, <1>7, SeqEqual
<1>10. Len(r) <= Len(s)
  BY <1>1, <1>2, <1>5 DEF n
<1>11. /\ w \in Seq(Nat) /\ Len(w) > 0 /\ Len(c) + Len(w) <= BucketSize
       /\ Rest(c, s) \in Seq(Nat) /\ Len(Rest(c, s)) <= Len(s)
       /\ Fill(c, s) = c \o w /\ s = w \o Rest(c, s)
  BY <1>1, <1>2, <1>4, <1>5, <1>6, <1>9, <1>10
<1> QED BY <1>11

\* memset of the rest of a bucket.
LEMMA PaddedBy ==
    ASSUME NEW c \in Seq(Nat), Len(c) \in 1..BucketSize
    PROVE  \E k \in 0..(BucketSize - 1) :
              /\ k = BucketSize - Len(c)
              /\ [i \in 1..k |-> Silence] \in Seq(Nat)
              /\ Len([i \in 1..k |-> Silence]) = k
              /\ Padded(c) = c \o [i \in 1..k |-> Silence]
<1> DEFINE k == BucketSize - Len(c)
<1>1. BucketSize \in Nat
  BY QueueAssumption
<1>2. k \in 0..(BucketSize - 1)
  BY <1>1
<1>3. Padded(c) = c \o [i \in 1..k |-> Silence]
  BY DEF Padded
<1>4. k = BucketSize - Len(c)
  OBVIOUS
<1> HIDE DEF k
<1>5. [i \in 1..k |-> Silence] \in Seq(Nat) /\ Len([i \in 1..k |-> Silence]) = k
  BY <1>1, <1>2 DEF Silence
<1> QED BY <1>2, <1>3, <1>4, <1>5

-----------------------------------------------------------------------------
(* The effects, as steps of the sample stream.                             *)

StreamStep == [Stream!StreamNext]_(Stream!streamVars)

LEMMA StreamStutters ==
    ASSUME Pending' = Pending, acc' = acc, errors' = errors
    PROVE  StreamStep
BY DEF StreamStep, Pending, Stream!streamVars

LEMMA StreamAccepts ==
    ASSUME Pending' = Pending \o NewSamples, acc' = acc + ComputeSize, errors' = errors
    PROVE  StreamStep
BY DEF StreamStep, Pending, NewSamples, Stream!StreamNext, Stream!Accept

LEMMA StreamHears ==
    ASSUME Pending # <<>>, Pending' = Tail(Pending), acc' = acc, errors' = errors
    PROVE  StreamStep
BY DEF StreamStep, Pending, Stream!StreamNext, Stream!Hear

LEMMA StreamPads ==
    ASSUME NEW k \in 1..(BucketSize - 1),
           Pending' = Pending \o [i \in 1..k |-> Silence],
           acc' = acc, errors' = errors
    PROVE  StreamStep
BY DEF StreamStep, Pending, Silence, Stream!StreamNext, Stream!Pad, Stream!Silence

LEMMA StreamDiscards ==
    ASSUME Pending' = <<>>, acc' \in Nat, errors' = 0
    PROVE  StreamStep
BY DEF StreamStep, Pending, Stream!StreamNext, Stream!Discard

LEMMA StreamRefuses ==
    ASSUME errors' = errors + 1, acc' = acc,
           \/ \E k \in 0..Len(Pending) :
                 /\ Len(Pending) - k <= ComputeSize
                 /\ Pending' = SubSeq(Pending, 1, k)
           \/ \E k \in 1..(BucketSize - 1) :
                 Pending' = Pending \o [i \in 1..k |-> Silence]
    PROVE  StreamStep
BY DEF StreamStep, Pending, Silence, Stream!StreamNext, Stream!Refuse, Stream!Silence

-----------------------------------------------------------------------------
LEMMA PendingParts ==
    ASSUME Contents
    PROVE  /\ Queued \in Seq(Nat)
           /\ dev \o Queued \in Seq(Nat)
           /\ Pending \in Seq(Nat)
           /\ Pending = (dev \o Queued) \o buf
           /\ Pending = dev \o (Queued \o buf)
           /\ Len(Pending) = Len(dev \o Queued) + Len(buf)
           /\ queue = <<>> => Queued = <<>>
<1>1. Filled(queue, data) /\ buf \in Seq(Nat) /\ dev \in Seq(Nat)
  BY DEF Contents
<1>2. Queued \in Seq(Nat) /\ Len(Queued) = Amount(queue, data)
  BY <1>1, LaidType, QueuedIsLaid
<1>3. dev \o Queued \in Seq(Nat)
  BY <1>1, <1>2
<1>4. Pending = (dev \o Queued) \o buf
  BY DEF Pending
<1>5. Pending \in Seq(Nat) /\ Len(Pending) = Len(dev \o Queued) + Len(buf)
  BY <1>1, <1>3, <1>4, Joined
<1>6. Pending = dev \o (Queued \o buf)
  <2>1. (dev \o Queued) \o buf = dev \o (Queued \o buf)
    BY <1>1, <1>2, Regrouped
  <2> QED BY <2>1, <1>4
<1>7. ASSUME queue = <<>> PROVE Queued = <<>>
  <2>1. Len(Queued) = 0
    BY <1>2, <1>7 DEF Amount
  <2> QED BY <2>1, <1>2, EmptySeq
<1> QED BY <1>2, <1>3, <1>4, <1>5, <1>6, <1>7

LEMMA HeadBucket ==
    ASSUME Contents, queue # <<>>
    PROVE  /\ Head(queue) \in Buckets /\ data[Head(queue)] \in Seq(Nat)
           /\ Len(data[Head(queue)]) \in 1..BucketSize
           /\ Len(data[Head(queue)]) # BucketSize =>
                 Len(queue) = 1 /\ Head(queue) = queue[Len(queue)]
<1>1. Filled(queue, data) /\ queue \in Seq(Buckets)
  BY DEF Contents, Filled
<1>2. Head(queue) = queue[1] /\ 1 \in 1..Len(queue) /\ Len(queue) \in Nat \ {0}
  BY <1>1
<1>3. /\ queue[1] \in Buckets /\ data[queue[1]] \in Seq(Nat)
      /\ Len(data[queue[1]]) \in 1..BucketSize
      /\ 1 < Len(queue) => Len(data[queue[1]]) = BucketSize
  BY <1>1, <1>2, BucketOf
<1>4. Len(queue) = 1 \/ 1 < Len(queue)
  BY <1>2
<1> QED BY <1>2, <1>3, <1>4

LEMMA KeepsIsStep ==
    ASSUME Contents, Keeps
    PROVE  Contents' /\ StreamStep
<1>1. Contents'
  BY DEF Contents, Keeps
<1>2. Queued' = Queued
  BY QueuedIsLaid DEF Keeps
<1>3. Pending' = Pending
  BY <1>2 DEF Pending, Keeps
<1> QED BY <1>1, <1>3, StreamStutters DEF Keeps

\* What the queue holds after its head has left.
LEMMA SendsLaid ==
    ASSUME BucketInv, Contents, NEW s, Sends(s), s \in Seq(Nat), HeadFull \/ Len(queue) = 1
    PROVE  Contents' /\ Queued = data[Head(queue)] \o Queued' /\ Queued' \in Seq(Nat)
<1>1. queue # <<>> /\ Filled(queue, data) /\ Distinct(queue)
  BY QueueDistinct DEF Sends, Contents
<1>2. data \in [Buckets -> Seq(Nat)] /\ Head(queue) \in Buckets
  BY <1>1, HeadBucket DEF Contents, Filled
<1>3. <<>> \in Seq(Nat)
  OBVIOUS
<1>4. Stored(data', data, Head(queue), <<>>)
  BY <1>2, <1>3, ExceptStored DEF Sends
<1>5. Len(data[Head(queue)]) = BucketSize \/ Len(queue) = 1
  BY DEF HeadFull
<1>6. /\ Filled(Tail(queue), data')
      /\ Laid(queue, data) = data[Head(queue)] \o Laid(Tail(queue), data')
  BY <1>1, <1>4, <1>5, LaidWithoutHead
<1>7. Queued = data[Head(queue)] \o Queued'
  BY <1>6, QueuedIsLaid DEF Sends
<1>8. dev' \in Seq(Nat)
  <2>1. dev \in Seq(Nat)
    BY DEF Contents
  <2> QED BY <2>1 DEF Sends
<1>9. Contents'
  BY <1>6, <1>8 DEF Contents, Sends
<1>10. Queued' \in Seq(Nat)
  BY <1>6, LaidType, QueuedIsLaid DEF Sends
<1> QED BY <1>7, <1>9, <1>10

LEMMA SendsFullIsStep ==
    ASSUME BucketInv, Contents, SendsFull
    PROVE  Contents' /\ StreamStep
<1> DEFINE h == data[Head(queue)]
<1>1. Sends(h) /\ HeadFull /\ queue # <<>>
  BY DEF SendsFull, HeadFull
<1>2. h \in Seq(Nat)
  BY <1>1, HeadBucket
<1> HIDE DEF h
<1>3. Contents' /\ Queued = h \o Queued' /\ Queued' \in Seq(Nat)
  BY <1>1, <1>2, SendsLaid DEF h
<1>4. dev' = dev \o h /\ buf' = buf /\ acc' = acc /\ errors' = errors
  BY <1>1 DEF Sends
<1>5. dev \in Seq(Nat)
  BY DEF Contents
<1>6. (dev \o h) \o Queued' = dev \o (h \o Queued')
  BY <1>2, <1>3, <1>5, Regrouped
<1>7. Pending' = Pending
  <2>1. Pending = (dev \o (h \o Queued')) \o buf
    BY <1>3 DEF Pending
  <2>2. Pending' = ((dev \o h) \o Queued') \o buf
    BY <1>4 DEF Pending
  <2> QED BY <2>1, <2>2, <1>6
<1> QED BY <1>3, <1>4, <1>7, StreamStutters

LEMMA SendsPaddedIsStep ==
    ASSUME BucketInv, Contents, SendsPadded
    PROVE  Contents' /\ StreamStep
<1> DEFINE h == data[Head(queue)]
<1>1. Sends(Padded(h)) /\ queue # <<>> /\ buf = <<>>
  BY DEF SendsPadded, Sends
<1>2. /\ h \in Seq(Nat) /\ Len(h) \in 1..BucketSize
      /\ Len(h) # BucketSize => Len(queue) = 1
  BY <1>1, HeadBucket
<1> HIDE DEF h
<1>3. PICK k \in 0..(BucketSize - 1) :
         /\ k = BucketSize - Len(h)
         /\ [i \in 1..k |-> Silence] \in Seq(Nat)
         /\ Len([i \in 1..k |-> Silence]) = k
         /\ Padded(h) = h \o [i \in 1..k |-> Silence]
  BY <1>2, PaddedBy
<1> DEFINE z == [i \in 1..k |-> Silence]
<1>4. z \in Seq(Nat) /\ Len(z) = k /\ Padded(h) = h \o z
  BY <1>3
<1> HIDE DEF z
<1>5. Padded(h) \in Seq(Nat)
  BY <1>2, <1>4
<1>6. HeadFull \/ Len(queue) = 1
  BY <1>1, <1>2 DEF HeadFull, h
<1>7. Contents' /\ Queued = h \o Queued' /\ Queued' \in Seq(Nat)
  BY <1>1, <1>5, <1>6, SendsLaid DEF h
<1>8. dev' = dev \o Padded(h) /\ buf' = <<>> /\ acc' = acc /\ errors' = errors
  BY <1>1 DEF Sends
<1>9. dev \in Seq(Nat) /\ dev \o h \in Seq(Nat)
  BY <1>2 DEF Contents
<1>10. CASE k = 0
  <2>1. z = <<>>
    BY <1>4, <1>10, EmptySeq
  <2>2. Padded(h) = h
    BY <2>1, <1>2, <1>4, ConcatEmptySeq
  <2>3. Pending' = (dev \o h) \o Queued' \o buf
    BY <2>2, <1>1, <1>8 DEF Pending
  <2>4. Pending = (dev \o (h \o Queued')) \o buf
    BY <1>7 DEF Pending
  <2>5. Pending' = Pending
    <3>1. (dev \o h) \o Queued' = dev \o (h \o Queued')
      BY <1>2, <1>7, <1>9, Regrouped
    <3> QED BY <3>1, <2>3, <2>4
  <2> QED BY <2>5, <1>7, <1>8, StreamStutters
<1>11. CASE k # 0
  <2>1. k \in 1..(BucketSize - 1) /\ Len(h) # BucketSize
    BY <1>2, <1>3, <1>11, QueueAssumption
  <2>2. queue' = <<>>
    <3>1. Len(queue) = 1 /\ queue \in Seq(Buckets)
      BY <2>1, <1>2 DEF Contents, Filled
    <3>2. queue' = Tail(queue)
      BY <1>1 DEF Sends
    <3> QED BY <3>1, <3>2
  <2>3. Queued' = <<>>
    <3>1. Filled(queue', data')
      BY <1>7 DEF Contents
    <3>2. Len(Queued') = 0
      BY <2>2, <3>1, LaidType, AmountType, QueuedIsLaid
    <3> QED BY <3>2, <1>7, EmptySeq
  <2>4. Queued = h
    BY <2>3, <1>2, <1>7, ConcatEmptySeq
  <2>5. Pending = dev \o h
    BY <2>4, <1>1, <1>9, ConcatEmptySeq DEF Pending
  <2>6. (dev \o h) \o z \in Seq(Nat) /\ (dev \o h) \o z = dev \o (h \o z)
    <3>1. (dev \o h) \o z = dev \o (h \o z)
      BY <1>2, <1>4, <1>9, Regrouped
    <3> QED BY <3>1, <1>4, <1>9
  <2>7. Pending' = ((dev \o (h \o z)) \o <<>>) \o <<>>
    BY <2>3, <1>4, <1>8 DEF Pending
  <2>8. Pending' = Pending \o z
    <3> DEFINE x == (dev \o h) \o z
    <3>1. x \in Seq(Nat)
      BY <2>6
    <3>2. Pending' = (x \o <<>>) \o <<>>
      BY <2>6, <2>7
    <3> HIDE DEF x
    <3>3. x \o <<>> = x
      BY <3>1, ConcatEmptySeq
    <3>4. Pending' = x
      BY <3>2, <3>3
    <3> QED BY <3>4, <2>5 DEF x
  <2> QED BY <2>1, <2>8, <1>7, <1>8, StreamPads DEF z
<1> QED BY <1>10, <1>11

LEMMA SendsThroughIsStep ==
    ASSUME Contents, SendsThrough
    PROVE  Contents' /\ StreamStep
<1>1. dev \in Seq(Nat) /\ buf \in Seq(Nat) /\ Queued \in Seq(Nat) /\ Queued = <<>>
  BY PendingParts DEF Contents, SendsThrough
<1>2. Queued' = Queued
  BY QueuedIsLaid DEF SendsThrough
<1>3. dev' = dev \o buf /\ buf' = <<>> /\ acc' = acc /\ errors' = errors
  BY DEF SendsThrough
<1>4. dev \o <<>> = dev /\ dev \o buf \in Seq(Nat)
  BY <1>1, ConcatEmptySeq
<1>5. (dev \o buf) \o <<>> = dev \o buf
  BY <1>4, ConcatEmptySeq
<1>6. Pending = dev \o buf
  BY <1>1, <1>4 DEF Pending
<1>7. Pending' = ((dev \o buf) \o <<>>) \o <<>>
  BY <1>1, <1>2, <1>3 DEF Pending
<1>8. Pending' = Pending
  BY <1>5, <1>6, <1>7
<1>9. Contents'
  <2>1. <<>> \in Seq(Nat) /\ Len(<<>>) = 0
    OBVIOUS
  <2> QED BY <2>1, <1>3, <1>4, QueueAssumption DEF Contents, SendsThrough
<1> QED BY <1>3, <1>8, <1>9, StreamStutters

\* The call moves samples from the rest of its buffer to the end of the queue.
LEMMA CopyIsStep ==
    ASSUME Contents, NEW w \in Seq(Nat), buf = w \o buf', buf' \in Seq(Nat),
           Len(buf') <= Len(buf), Queued' = Queued \o w, Filled(queue', data'),
           UNCHANGED <<dev, heard, errors, acc>>
    PROVE  Contents' /\ StreamStep
<1>1. dev \in Seq(Nat) /\ Queued \in Seq(Nat) /\ dev \o Queued \in Seq(Nat)
  BY PendingParts DEF Contents
<1>2. (dev \o Queued) \o w = dev \o (Queued \o w)
  BY <1>1, Regrouped
<1>3. ((dev \o Queued) \o w) \o buf' = (dev \o Queued) \o (w \o buf')
  BY <1>1, Regrouped
<1>4. Pending' = (dev \o (Queued \o w)) \o buf'
  BY DEF Pending
<1>5. Pending = (dev \o Queued) \o (w \o buf')
  BY DEF Pending
<1>6. Pending' = Pending
  BY <1>2, <1>3, <1>4, <1>5
<1>7. Contents'
  <2>1. Len(buf') <= ComputeSize
    BY QueueAssumption DEF Contents
  <2> QED BY <2>1 DEF Contents
<1> QED BY <1>6, <1>7, StreamStutters

LEMMA OpensBucketIsStep ==
    ASSUME BucketInv, Contents, OpensBucket
    PROVE  Contents' /\ StreamStep
<1> DEFINE b == Head(free)
<1>1. b \in Buckets /\ \A i \in 1..Len(queue) : queue[i] # b
  BY FreeBucket DEF OpensBucket
<1> HIDE DEF b
<1>2. Filled(queue, data) /\ buf \in Seq(Nat) /\ buf # <<>>
  BY DEF Contents, OpensBucket
<1>3. <<>> \in Seq(Nat) /\ Len(<<>>) = 0 /\ 0 < BucketSize
  BY QueueAssumption
<1>4. PICK w \in Seq(Nat) :
         /\ Len(w) > 0 /\ Len(<<>>) + Len(w) <= BucketSize
         /\ Fill(<<>>, buf) = <<>> \o w
         /\ Rest(<<>>, buf) \in Seq(Nat) /\ Len(Rest(<<>>, buf)) <= Len(buf)
         /\ buf = w \o Rest(<<>>, buf)
  BY <1>2, <1>3, Copied
<1>5. Len(w) \in 1..BucketSize /\ Fill(<<>>, buf) = w
  BY <1>3, <1>4, QueueAssumption
<1>6. Stored(data', data, b, w)
  BY <1>1, <1>2, <1>5, ExceptStored DEF OpensBucket, Filled, b
<1>7. MayFollow(b, queue, data)
  BY <1>1 DEF OpensBucket, TailFull, LastBucket, MayFollow
<1>8. /\ Filled(Append(queue, b), data')
      /\ Laid(Append(queue, b), data') = Laid(queue, data) \o w
  BY <1>1, <1>2, <1>5, <1>6, <1>7, LaidWithLast
<1>9. queue' = Append(queue, b) /\ buf' = Rest(<<>>, buf)
  BY DEF OpensBucket, b
<1>10. Queued' = Queued \o w
  BY <1>8, <1>9, QueuedIsLaid
<1>11. UNCHANGED <<dev, heard, errors, acc>>
  BY DEF OpensBucket
<1>12. /\ buf = w \o buf' /\ buf' \in Seq(Nat) /\ Len(buf') <= Len(buf)
       /\ Filled(queue', data')
  BY <1>4, <1>8, <1>9
<1> QED BY <1>10, <1>11, <1>12, CopyIsStep

LEMMA ExtendsBucketIsStep ==
    ASSUME BucketInv, Contents, ExtendsBucket
    PROVE  Contents' /\ StreamStep
<1> DEFINE b == queue[Len(queue)]
<1>1. /\ Filled(queue, data) /\ buf \in Seq(Nat) /\ buf # <<>> /\ queue # <<>>
      /\ Distinct(queue)
  BY QueueDistinct DEF Contents, ExtendsBucket
<1>2. /\ b \in Buckets /\ data[b] \in Seq(Nat) /\ Len(data[b]) \in 1..BucketSize
  BY <1>1, AmountType, BucketOf
<1>3. Len(data[b]) < BucketSize
  BY <1>1, <1>2, QueueAssumption DEF ExtendsBucket, TailFull, LastBucket
<1> HIDE DEF b
<1>4. PICK w \in Seq(Nat) :
         /\ Len(w) > 0 /\ Len(data[b]) + Len(w) <= BucketSize
         /\ Fill(data[b], buf) = data[b] \o w
         /\ Rest(data[b], buf) \in Seq(Nat) /\ Len(Rest(data[b], buf)) <= Len(buf)
         /\ buf = w \o Rest(data[b], buf)
  BY <1>1, <1>2, <1>3, Copied
<1>5. data[b] \o w \in Seq(Nat)
  BY <1>2
<1>6. data' = [data EXCEPT ![b] = data[b] \o w]
  BY <1>4 DEF ExtendsBucket, LastBucket, b
<1>7. Stored(data', data, b, data[b] \o w)
  BY <1>1, <1>2, <1>5, <1>6, ExceptStored DEF Filled
<1>8. Filled(queue, data') /\ Laid(queue, data') = Laid(queue, data) \o w
  BY <1>1, <1>4, <1>7, LaidExtended DEF b
<1>9. queue' = queue /\ buf' = Rest(data[b], buf)
  BY DEF ExtendsBucket, LastBucket, b
<1>10. Queued' = Queued \o w
  BY <1>8, <1>9, QueuedIsLaid
<1>11. UNCHANGED <<dev, heard, errors, acc>>
  BY DEF ExtendsBucket
<1>12. /\ buf = w \o buf' /\ buf' \in Seq(Nat) /\ Len(buf') <= Len(buf)
       /\ Filled(queue', data')
  BY <1>4, <1>8, <1>9
<1> QED BY <1>10, <1>11, <1>12, CopyIsStep

LEMMA FailsIsStep ==
    ASSUME Contents, Fails
    PROVE  Contents' /\ StreamStep
<1> DEFINE p == dev \o Queued
           n == Len(p)
<1>1. p \in Seq(Nat) /\ buf \in Seq(Nat) /\ Pending = p \o buf
  BY PendingParts DEF Contents
<1>2. Queued' = Queued /\ dev' = dev /\ buf' = <<>>
  BY QueuedIsLaid DEF Fails
<1>3. Pending' = p \o <<>>
  BY <1>2 DEF Pending
<1> HIDE DEF p
<1>4. Pending' = p
  BY <1>1, <1>3, ConcatEmptySeq
<1>5. /\ n \in Nat /\ Len(buf) \in Nat /\ Len(Pending) = n + Len(buf)
      /\ Pending \in Seq(Nat) /\ \A k \in 1..n : Pending[k] = p[k]
  BY <1>1, Joined
<1> HIDE DEF n
<1>6. n \in 0..Len(Pending) /\ Len(Pending) - n <= ComputeSize
  BY <1>5, QueueAssumption DEF Contents
<1>7. SubSeq(Pending, 1, n) = p
  <2>1. \A k \in 1..n : Pending[k] \in Nat
    BY <1>1, <1>5, ElementOfSeq DEF n
  <2>2. /\ SubSeq(Pending, 1, n) \in Seq(Nat)
        /\ Len(SubSeq(Pending, 1, n)) = IF 1 <= n THEN n - 1 + 1 ELSE 0
        /\ \A k \in 1..(n - 1 + 1) : SubSeq(Pending, 1, n)[k] = Pending[1 + k - 1]
    BY <1>5, <2>1, SubSeqProperties
  <2>3. Len(SubSeq(Pending, 1, n)) = n
    BY <1>5, <2>2
  <2>4. \A k \in 1..n : SubSeq(Pending, 1, n)[k] = p[k]
    BY <1>5, <2>2
  <2> QED BY <1>1, <2>2, <2>3, <2>4, SeqEqual DEF n
<1>8. Contents'
  <2>1. <<>> \in Seq(Nat) /\ Len(<<>>) = 0
    OBVIOUS
  <2> QED BY <2>1, QueueAssumption DEF Contents, Fails
<1>9. errors' = errors + 1 /\ acc' = acc
  BY DEF Fails
<1>10. \E k \in 0..Len(Pending) :
          /\ Len(Pending) - k <= ComputeSize
          /\ Pending' = SubSeq(Pending, 1, k)
  BY <1>4, <1>6, <1>7
<1> QED BY <1>8, <1>9, <1>10, StreamRefuses

LEMMA FailsPaddedIsStep ==
    ASSUME BucketInv, Contents, FailsPadded
    PROVE  Contents' /\ StreamStep
<1> DEFINE b == Head(queue)
           h == data[b]
<1>1. queue # <<>> /\ buf = <<>> /\ Filled(queue, data) /\ Distinct(queue)
  BY QueueDistinct DEF FailsPadded, Contents
<1>2. /\ b \in Buckets /\ h \in Seq(Nat) /\ Len(h) \in 1..BucketSize
      /\ Len(h) # BucketSize => b = queue[Len(queue)]
  BY <1>1, HeadBucket
<1> HIDE DEF b, h
<1>3. PICK k \in 0..(BucketSize - 1) :
         /\ k = BucketSize - Len(h)
         /\ [i \in 1..k |-> Silence] \in Seq(Nat)
         /\ Len([i \in 1..k |-> Silence]) = k
         /\ Padded(h) = h \o [i \in 1..k |-> Silence]
  BY <1>2, PaddedBy
<1> DEFINE z == [i \in 1..k |-> Silence]
<1>4. z \in Seq(Nat) /\ Len(z) = k /\ Padded(h) = h \o z
  BY <1>3
<1> HIDE DEF z
<1>5. /\ data' = [data EXCEPT ![b] = h \o z]
      /\ queue' = queue /\ dev' = dev /\ buf' = <<>> /\ buf' = buf
      /\ errors' = errors + 1 /\ acc' = acc /\ heard' = heard
  BY <1>1, <1>4 DEF FailsPadded, b, h
<1>6. data \in [Buckets -> Seq(Nat)] /\ h \o z \in Seq(Nat)
  BY <1>1, <1>2, <1>4 DEF Filled
<1>7. /\ Pending \in Seq(Nat) /\ dev \o Queued \in Seq(Nat)
      /\ Queued \in Seq(Nat) /\ dev \in Seq(Nat)
      /\ Pending = (dev \o Queued) \o <<>>
  BY <1>1, PendingParts DEF Contents
<1>8. CASE k = 0
  <2>1. z = <<>>
    BY <1>4, <1>8, EmptySeq
  <2>2. h \o z = h
    BY <2>1, <1>2, ConcatEmptySeq
  <2>3. data' = data
    BY <2>2, <1>2, <1>5, <1>6 DEF h
  <2>4. Queued' = Queued
    BY <2>3, <1>5, QueuedIsLaid
  <2>5. Pending' = Pending
    BY <2>4, <1>5 DEF Pending
  <2>6. Len(Pending) \in 0..Len(Pending) /\ Len(Pending) - Len(Pending) <= ComputeSize
    BY <1>7, QueueAssumption
  <2>7. SubSeq(Pending, 1, Len(Pending)) = Pending
    BY <1>7, SubSeqFull
  <2>8. Contents'
    BY <2>3, <1>5 DEF Contents
  <2>9. \E m \in 0..Len(Pending) :
           /\ Len(Pending) - m <= ComputeSize
           /\ Pending' = SubSeq(Pending, 1, m)
    BY <2>5, <2>6, <2>7
  <2> QED BY <2>8, <2>9, <1>5, StreamRefuses
<1>9. CASE k # 0
  <2>1. k \in 1..(BucketSize - 1) /\ Len(h) # BucketSize
    BY <1>2, <1>3, <1>9, QueueAssumption
  <2>2. b = queue[Len(queue)] /\ h = data[queue[Len(queue)]]
    BY <2>1, <1>2 DEF h
  <2>3. Stored(data', data, b, h \o z)
    BY <1>2, <1>5, <1>6, ExceptStored
  <2>4. Len(h) + Len(z) <= BucketSize
    BY <1>2, <1>3, <1>4, QueueAssumption
  <2>5. Filled(queue, data') /\ Laid(queue, data') = Laid(queue, data) \o z
    BY <2>2, <2>3, <2>4, <1>1, <1>4, LaidExtended
  <2>6. Queued' = Queued \o z
    BY <2>5, <1>5, QueuedIsLaid
  <2>7. (dev \o Queued) \o z \in Seq(Nat) /\ (dev \o Queued) \o z = dev \o (Queued \o z)
    BY <1>4, <1>7, Regrouped
  <2>8. Pending' = ((dev \o Queued) \o z) \o <<>>
    BY <2>6, <2>7, <1>5 DEF Pending
  <2>9. Pending' = (dev \o Queued) \o z /\ Pending = dev \o Queued
    BY <2>7, <2>8, <1>7, ConcatEmptySeq
  <2>10. Contents'
    BY <2>5, <1>5 DEF Contents
  <2>11. \E m \in 1..(BucketSize - 1) : Pending' = Pending \o [i \in 1..m |-> Silence]
    BY <2>1, <2>9 DEF z
  <2> QED BY <2>10, <2>11, <1>5, StreamRefuses
<1> QED BY <1>8, <1>9

LEMMA EmptyFilled ==
    /\ Filled(<<>>, [b \in Buckets |-> <<>>])
    /\ Laid(<<>>, [b \in Buckets |-> <<>>]) = <<>>
<1> DEFINE D == [b \in Buckets |-> <<>>]
<1>1. D \in [Buckets -> Seq(Nat)] /\ \A b \in Buckets : D[b] = <<>>
  <2>1. <<>> \in Seq(Nat)
    OBVIOUS
  <2> QED BY <2>1
<1>2. \A b \in Buckets : Len(D[b]) <= BucketSize
  <2>1. Len(<<>>) = 0
    OBVIOUS
  <2> QED BY <2>1, <1>1, QueueAssumption
<1> HIDE DEF D
<1>3. <<>> \in Seq(Buckets) /\ Len(<<>>) = 0
  OBVIOUS
<1>4. Filled(<<>>, D)
  BY <1>1, <1>2, <1>3 DEF Filled
<1>5. Laid(<<>>, D) \in Seq(Nat) /\ Len(Laid(<<>>, D)) = 0
  BY <1>4, LaidType DEF Amount
<1> QED BY <1>4, <1>5, EmptySeq DEF D

LEMMA ForgetsIsStep ==
    ASSUME Forgets
    PROVE  Contents' /\ StreamStep
<1>1. Filled(queue', data') /\ Queued' = <<>>
  BY EmptyFilled, QueuedIsLaid DEF Forgets
<1>2. <<>> \in Seq(Nat) /\ Len(<<>>) = 0
  OBVIOUS
<1>3. Contents'
  BY <1>1, <1>2, QueueAssumption DEF Contents, Forgets
<1>4. Pending' = (<<>> \o <<>>) \o <<>>
  BY <1>1 DEF Pending, Forgets
<1>5. <<>> \o <<>> = <<>>
  BY <1>2, ConcatEmptySeq
<1>6. Pending' = <<>>
  BY <1>4, <1>5
<1> QED BY <1>3, <1>6, StreamDiscards DEF Forgets

LEMMA RestartsIsStep ==
    ASSUME Contents, Restarts
    PROVE  Contents' /\ StreamStep
<1>1. Contents'
  BY DEF Contents, Restarts
<1>2. Queued = <<>> /\ Queued' = Queued
  BY PendingParts, QueuedIsLaid DEF Restarts
<1>3. <<>> \in Seq(Nat)
  OBVIOUS
<1>4. Pending' = (<<>> \o <<>>) \o <<>>
  BY <1>2 DEF Pending, Restarts
<1>5. <<>> \o <<>> = <<>>
  BY <1>3, ConcatEmptySeq
<1>6. Pending' = <<>>
  BY <1>4, <1>5
<1> QED BY <1>1, <1>6, StreamDiscards DEF Restarts

LEMMA AcceptsIsStep ==
    ASSUME Contents, Accepts
    PROVE  Contents' /\ StreamStep
<1>1. NewSamples \in Seq(Nat) /\ Len(NewSamples) = ComputeSize
  BY QueueAssumption DEF NewSamples, Contents
<1>2. Contents'
  BY <1>1, QueueAssumption DEF Contents, Accepts
<1>3. Queued' = Queued /\ dev' = dev /\ buf = <<>> /\ buf' = NewSamples
  BY QueuedIsLaid DEF Accepts
<1>4. dev \o Queued \in Seq(Nat) /\ Pending = (dev \o Queued) \o <<>>
  BY <1>3, PendingParts
<1>5. Pending = dev \o Queued
  BY <1>4, ConcatEmptySeq
<1>6. Pending' = (dev \o Queued) \o NewSamples
  BY <1>3 DEF Pending
<1>7. Pending' = Pending \o NewSamples
  BY <1>5, <1>6
<1> QED BY <1>2, <1>7, StreamAccepts DEF Accepts

LEMMA PlaysIsStep ==
    ASSUME Contents, Plays
    PROVE  Contents' /\ StreamStep
<1> DEFINE d == dev
           s == Queued \o buf
<1>1. d \in Seq(Nat) /\ d # <<>> /\ s \in Seq(Nat) /\ Pending = d \o s
  <2>1. dev \in Seq(Nat) /\ dev # <<>> /\ buf \in Seq(Nat)
    BY DEF Contents, Plays
  <2>2. Queued \in Seq(Nat) /\ Pending = dev \o (Queued \o buf)
    BY PendingParts
  <2> QED BY <2>1, <2>2
<1>2. Tail(d) \in Seq(Nat) /\ dev' = Tail(d) /\ Queued' = Queued /\ buf' = buf
  BY <1>1, QueuedIsLaid DEF Plays
<1>3. Pending' = (Tail(d) \o Queued) \o buf
  BY <1>2 DEF Pending
<1>4. (Tail(d) \o Queued) \o buf = Tail(d) \o s
  BY <1>2, PendingParts, Regrouped DEF Contents
<1> HIDE DEF d, s
<1>5. Tail(d \o s) = Tail(d) \o s /\ d \o s # <<>>
  BY <1>1, <1>2
<1>6. Contents'
  BY <1>2 DEF Contents, Plays, d
<1> QED BY <1>1, <1>3, <1>4, <1>5, <1>6, StreamHears DEF Plays

\* Every effect keeps the contents in order and is a step of the stream.
LEMMA EffectIsStep ==
    ASSUME BucketInv, Contents, Effect
    PROVE  Contents' /\ StreamStep
BY KeepsIsStep, SendsFullIsStep, SendsPaddedIsStep, SendsThroughIsStep,
   OpensBucketIsStep, ExtendsBucketIsStep, FailsIsStep, FailsPaddedIsStep,
   ForgetsIsStep, RestartsIsStep, AcceptsIsStep, PlaysIsStep DEF Effect

-----------------------------------------------------------------------------
(* Where the player is, and what it holds there.                           *)

AtDrain == pc \in {"drainctl", "drainrun", "drain", "sync"}
\* The call has put all its samples into the queue.
HandedOver ==
    \/ pc \in {"idle", "soft", "softctl", "drainctl", "drainrun", "drain", "sync"}
    \/ pc = "fill" /\ ret = "idle"
\* aq_flush(0) has cleared aq_add_count and will empty the queue.
Flushing == AtDrain \/ (pc \in {"soft", "softctl"} /\ ret = "drain")

Phases ==
    /\ HandedOver => buf = <<>>
    /\ AtDrain => queue = <<>>
    /\ pc = "thru" => addCount > 0 /\ nb = 0
    /\ DeviceQSize = 0 => nb = 0
    /\ addCount \in Nat

\* A refused write leaves a trace until the next discard: play_midi cannot
\* take the queue for a fresh one.
ErrorsShow ==
    errors > 0 /\ heard = 0 /\ dev = <<>> /\ ~Flushing
       => addCount > 0 \/ queue # <<>>

Whole == BucketInv /\ Contents /\ Phases /\ ErrorsShow

LEMMA RunningEffect == Whole /\ Running => Effect
<1> SUFFICES ASSUME Whole, Running PROVE Effect
  OBVIOUS
<1> USE DEF bucketVars, fillVars, devVars, posVars, Whole
<1>1. CASE ThruWrite
  <2>1. queue \in Seq({})
    <3>1. nb = 0 /\ queue \in Seq(ActiveBuckets)
      BY <1>1 DEF ThruWrite, Phases, BucketInv, Split
    <3>2. ActiveBuckets = {}
      BY <3>1 DEF ActiveBuckets
    <3> QED BY <3>1, <3>2
  <2>2. queue = <<>>
    BY <2>1
  <2> QED BY <2>2, <1>1 DEF ThruWrite, Return, Effect, SendsThrough
<1>2. CASE CopyNew
  BY <1>2 DEF CopyNew, Effect, OpensBucket
<1>3. CASE CopyTail
  BY <1>3 DEF CopyTail, Effect, ExtendsBucket
<1>4. CASE CopyDone
  BY <1>4 DEF CopyDone, Return, Effect, Keeps
<1>5. CASE CopyFull
  BY <1>5 DEF CopyFull, Effect, Keeps
<1>6. CASE FullWrite
  BY <1>6 DEF FullWrite, HeadFull, WriteHead, Effect, SendsFull, Sends
<1>7. CASE WaitOver
  BY <1>7 DEF WaitOver, Effect, Keeps
<1>8. CASE FillWrite
  BY <1>8 DEF FillWrite, HeadFull, WriteHead, Effect, SendsFull, Sends
<1>9. CASE FillDone
  BY <1>9 DEF FillDone, Effect, Keeps
<1>10. CASE SoftWrite
  BY <1>10 DEF SoftWrite, Phases, HandedOver, WriteHead, Effect, SendsPadded, Sends
<1>11. CASE SoftDone
  BY <1>11 DEF SoftDone, Return, Phases, HandedOver, Effect, Keeps
<1>12. CASE DrainRound
  BY <1>12 DEF DrainRound, Effect, Keeps
<1>13. CASE DrainTest
  BY <1>13 DEF DrainTest, Effect, Keeps
<1>14. CASE DrainSync
  BY <1>14 DEF DrainSync, DiscardAll, FlushBuckets, Return, Phases, HandedOver,
               Contents, Effect, Forgets
<1>15. CASE ControlNone
  BY <1>15 DEF ControlNone, Effect, Keeps
<1> QED
  BY <1>1, <1>2, <1>3, <1>4, <1>5, <1>6, <1>7, <1>8, <1>9, <1>10, <1>11,
     <1>12, <1>13, <1>14, <1>15 DEF Running

LEMMA DisturbanceEffect == Whole /\ Disturbance => Effect
<1> SUFFICES ASSUME Whole, Disturbance PROVE Effect
  OBVIOUS
<1> USE DEF bucketVars, fillVars, devVars, posVars, Whole
<1>1. CASE ThruRefused
  BY <1>1 DEF ThruRefused, RefuseWrite, Effect, Fails
<1>2. CASE FullRefused
  BY <1>2 DEF FullRefused, RefuseWrite, Effect, Fails
<1>3. CASE FillRefused
  BY <1>3 DEF FillRefused, RefuseWrite, Effect, Fails
<1>4. CASE SoftRefused
  BY <1>4 DEF SoftRefused, RefuseWrite, Phases, HandedOver, Effect, FailsPadded
<1>5. CASE ControlSkip
  BY <1>5 DEF ControlSkip, DiscardAll, FlushBuckets, Return, Phases, HandedOver,
              Contents, Effect, Forgets
<1>6. CASE ControlSync
  BY <1>6 DEF ControlSync, DiscardAll, FlushBuckets, Phases, HandedOver,
              Contents, Effect, Forgets
<1>7. CASE ControlReload
  BY <1>7 DEF ControlReload, Reconfigured, FlushBuckets, Phases, HandedOver,
              Contents, Effect, Forgets
<1> QED BY <1>1, <1>2, <1>3, <1>4, <1>5, <1>6, <1>7 DEF Disturbance

\* aq_add takes the samples into the rest of its call, whatever it does next.
LEMMA AddEffect ==
    ASSUME Whole, AqAdd
    PROVE  Accepts
BY DEF AqAdd, bucketVars, devVars, Whole, Phases, HandedOver, Accepts

LEMMA CallsEffect == Whole /\ Calls => Effect
<1> SUFFICES ASSUME Whole, Calls PROVE Effect
  OBVIOUS
<1> USE DEF bucketVars, fillVars, devVars, posVars, callVars, Whole
<1>1. ASSUME NEW n \in 1..ComputeSize, ComputeData(n) PROVE Effect
  <2>1. CASE AqAdd
    BY <2>1, AddEffect DEF Effect
  <2>2. CASE UNCHANGED <<callVars, bucketVars, fillVars, clk, devVars,
                         traceVars, traceOffset, acc>>
    BY <2>2 DEF Effect, Keeps
  <2> QED BY <1>1, <2>1, <2>2 DEF ComputeData
<1>2. CASE ComputeRest
  BY <1>2, AddEffect DEF ComputeRest, Effect
<1>3. CASE AqUpdate
  BY <1>3 DEF AqUpdate, Effect, Keeps
<1>4. CASE AqFillNonblocking
  BY <1>4 DEF AqFillNonblocking, Effect, Keeps
<1>5. CASE AqSoftFlush
  BY <1>5 DEF AqSoftFlush, Effect, Keeps
<1>6. CASE AqFlush
  BY <1>6 DEF AqFlush, Effect, Keeps
<1>7. CASE AqDiscard
  BY <1>7 DEF AqDiscard, DiscardAll, FlushBuckets, Phases, HandedOver, Contents,
              Effect, Forgets
<1>8. CASE OutputChanged
  BY <1>8 DEF OutputChanged, Reconfigured, FlushBuckets, Phases, HandedOver,
              Contents, Effect, Forgets
<1>9. ASSUME NEW pos \in SeekPoints, Seek(pos) PROVE Effect
  <2>1. pos \in Nat
    BY QueueAssumption
  <2> QED BY <1>9, <2>1 DEF Seek, DiscardAll, FlushBuckets, SkipTo, Phases,
                            HandedOver, Effect, Forgets
<1>10. ASSUME NEW pos \in SeekPoints, StartTune(pos) PROVE Effect
  <2>1. pos \in Nat
    BY QueueAssumption
  <2>2. buf = <<>> /\ errors = 0
    <3>1. ~(errors > 0)
      BY <1>10 DEF StartTune, ErrorsShow, Flushing, AtDrain, Phases
    <3> QED BY <3>1, <1>10 DEF StartTune, Phases, HandedOver, Contents
  <2> QED BY <1>10, <2>1, <2>2 DEF StartTune, SkipTo, Effect, Restarts
<1>11. CASE PushTrace
  BY <1>11 DEF PushTrace, Effect, Keeps
<1> QED
  BY <1>1, <1>2, <1>3, <1>4, <1>5, <1>6, <1>7, <1>8, <1>9, <1>10, <1>11
     DEF Calls

LEMMA TickEffect == Tick => Effect
<1> SUFFICES ASSUME Tick PROVE Effect
  OBVIOUS
<1>1. CASE dev = <<>>
  BY <1>1 DEF Tick, bucketVars, posVars, Effect, Keeps
<1>2. CASE dev # <<>>
  BY <1>2 DEF Tick, bucketVars, posVars, Effect, Plays
<1> QED BY <1>1, <1>2

LEMMA StepEffect == Whole /\ [Next]_vars => Effect
<1> SUFFICES ASSUME Whole, [Next]_vars PROVE Effect
  OBVIOUS
<1>1. CASE UNCHANGED vars
  BY <1>1 DEF vars, callVars, bucketVars, devVars, posVars, Effect, Keeps
<1> QED
  BY <1>1, RunningEffect, DisturbanceEffect, CallsEffect, TickEffect DEF Next

\* A bucket that was written is in the device.
LEMMA WrittenIsThere ==
    ASSUME Contents, NEW s \in Seq(Nat), Len(s) > 0, WriteHead(s)
    PROVE  dev' # <<>>
<1>1. dev \in Seq(Nat) /\ dev' = dev \o s
  BY DEF Contents, WriteHead
<1>2. Len(dev') = Len(dev) + Len(s) /\ Len(dev) \in Nat /\ Len(s) \in Nat
  BY <1>1, Joined
<1>3. Len(dev') # 0
  BY <1>2
<1> QED BY <1>3, EmptySeq

LEMMA HeadWritten ==
    ASSUME Contents, queue # <<>>
    PROVE  /\ WriteHead(data[Head(queue)]) => dev' # <<>>
           /\ WriteHead(Padded(data[Head(queue)])) => dev' # <<>>
<1> DEFINE h == data[Head(queue)]
<1>1. h \in Seq(Nat) /\ Len(h) \in 1..BucketSize /\ Len(h) > 0
  BY HeadBucket, QueueAssumption
<1> HIDE DEF h
<1>2. PICK k \in 0..(BucketSize - 1) :
         /\ k = BucketSize - Len(h)
         /\ [i \in 1..k |-> Silence] \in Seq(Nat)
         /\ Len([i \in 1..k |-> Silence]) = k
         /\ Padded(h) = h \o [i \in 1..k |-> Silence]
  BY <1>1, PaddedBy
<1> DEFINE z == [i \in 1..k |-> Silence]
<1>3. z \in Seq(Nat) /\ Padded(h) = h \o z
  BY <1>2
<1> HIDE DEF z
<1>4. Padded(h) \in Seq(Nat) /\ Len(Padded(h)) > 0
  BY <1>1, <1>3, Joined
<1>5. WriteHead(h) => dev' # <<>>
  BY <1>1, WrittenIsThere
<1>6. WriteHead(Padded(h)) => dev' # <<>>
  BY <1>4, WrittenIsThere
<1> QED BY <1>5, <1>6 DEF h

LEMMA RunningPhases == Whole /\ Running => Phases' /\ ErrorsShow'
<1> SUFFICES ASSUME Whole, Running PROVE Phases' /\ ErrorsShow'
  OBVIOUS
<1> USE DEF bucketVars, fillVars, devVars, posVars, Phases, ErrorsShow, HandedOver,
            AtDrain, Flushing
<1>0. Contents /\ Phases /\ ErrorsShow
  BY DEF Whole
<1>1. CASE ThruWrite
  BY <1>0, <1>1 DEF ThruWrite, Return
<1>2. CASE CopyNew
  <2>1. queue \in Seq(Buckets) /\ Head(free) \in Buckets
    BY <1>0, <1>2, FreeBucket DEF Whole, Contents, Filled, CopyNew
  <2>2. queue' # <<>>
    BY <1>2, <2>1, AppendProperties DEF CopyNew
  <2> QED BY <1>0, <1>2, <2>2 DEF CopyNew
<1>3. CASE CopyTail
  BY <1>0, <1>3 DEF CopyTail
<1>4. CASE CopyDone
  BY <1>0, <1>4 DEF CopyDone, Return
<1>5. CASE CopyFull
  BY <1>0, <1>5 DEF CopyFull
<1>6. CASE FullWrite
  <2>1. dev' # <<>>
    BY <1>0, <1>6, HeadWritten DEF FullWrite, HeadFull
  <2> QED BY <1>0, <1>6, <2>1 DEF FullWrite, WriteHead
<1>7. CASE WaitOver
  BY <1>0, <1>7 DEF WaitOver, EnterFill
<1>8. CASE FillWrite
  <2>1. dev' # <<>>
    BY <1>0, <1>8, HeadWritten DEF FillWrite, HeadFull
  <2> QED BY <1>0, <1>8, <2>1 DEF FillWrite, WriteHead
<1>9. CASE FillDone
  BY <1>0, <1>9 DEF FillDone
<1>10. CASE SoftWrite
  <2>1. dev' # <<>>
    BY <1>0, <1>10, HeadWritten DEF SoftWrite
  <2> QED BY <1>0, <1>10, <2>1 DEF SoftWrite, WriteHead
<1>11. CASE SoftDone
  BY <1>0, <1>11 DEF SoftDone, Return
<1>12. CASE DrainRound
  BY <1>0, <1>12 DEF DrainRound
<1>13. CASE DrainTest
  BY <1>0, <1>13 DEF DrainTest
<1>14. CASE DrainSync
  BY <1>0, <1>14 DEF DrainSync, DiscardAll, FlushBuckets, Return
<1>15. CASE ControlNone
  BY <1>0, <1>15 DEF ControlNone
<1> QED
  BY <1>1, <1>2, <1>3, <1>4, <1>5, <1>6, <1>7, <1>8, <1>9, <1>10, <1>11,
     <1>12, <1>13, <1>14, <1>15 DEF Running

LEMMA DisturbancePhases == Whole /\ Disturbance => Phases' /\ ErrorsShow'
<1> SUFFICES ASSUME Whole, Disturbance PROVE Phases' /\ ErrorsShow'
  OBVIOUS
<1> USE DEF bucketVars, fillVars, devVars, posVars, Phases, ErrorsShow, HandedOver,
            AtDrain, Flushing
<1>0. Contents /\ Phases /\ ErrorsShow
  BY DEF Whole
<1>1. CASE ThruRefused
  BY <1>0, <1>1 DEF ThruRefused, RefuseWrite
<1>2. CASE FullRefused
  BY <1>0, <1>2 DEF FullRefused, RefuseWrite, HeadFull
<1>3. CASE FillRefused
  BY <1>0, <1>3 DEF FillRefused, RefuseWrite, HeadFull
<1>4. CASE SoftRefused
  BY <1>0, <1>4 DEF SoftRefused, RefuseWrite
<1>5. CASE ControlSkip
  BY <1>0, <1>5 DEF ControlSkip, DiscardAll, FlushBuckets, Return
<1>6. CASE ControlSync
  BY <1>0, <1>6 DEF ControlSync, DiscardAll, FlushBuckets
<1>7. CASE ControlReload
  BY <1>0, <1>7 DEF ControlReload, Reconfigured, FlushBuckets
<1> QED BY <1>1, <1>2, <1>3, <1>4, <1>5, <1>6, <1>7 DEF Disturbance

LEMMA AddPhases ==
    ASSUME Whole, AqAdd
    PROVE  Phases' /\ ErrorsShow'
<1>1. addCount \in Nat /\ (DeviceQSize = 0 => nb = 0)
  BY DEF Whole, Phases
<1>2. /\ addCount' \in Nat /\ addCount' > 0 /\ nb' = nb
      /\ pc' \in {"thru", "copy", "fill"}
      /\ pc' = "thru" => PassThrough
      /\ pc' = "fill" => ret' = "add"
  BY <1>1, QueueAssumption DEF AqAdd, EnterFill, bucketVars
<1> QED BY <1>1, <1>2 DEF Phases, ErrorsShow, HandedOver, AtDrain, PassThrough,
                          DeviceQSize

LEMMA CallsPhases == Whole /\ Calls => Phases' /\ ErrorsShow'
<1> SUFFICES ASSUME Whole, Calls PROVE Phases' /\ ErrorsShow'
  OBVIOUS
<1> USE DEF bucketVars, fillVars, devVars, posVars, callVars, Phases, ErrorsShow,
            HandedOver, AtDrain, Flushing
<1>0. Contents /\ Phases /\ ErrorsShow
  BY DEF Whole
<1>1. ASSUME NEW n \in 1..ComputeSize, ComputeData(n) PROVE Phases' /\ ErrorsShow'
  <2>1. CASE AqAdd
    BY <2>1, AddPhases
  <2>2. CASE UNCHANGED <<callVars, bucketVars, fillVars, clk, devVars,
                         traceVars, traceOffset, acc>>
    BY <1>0, <2>2
  <2> QED BY <1>1, <2>1, <2>2 DEF ComputeData
<1>2. CASE ComputeRest
  BY <1>2, AddPhases DEF ComputeRest
<1>3. CASE AqUpdate
  BY <1>0, <1>3 DEF AqUpdate, EnterFill
<1>4. CASE AqFillNonblocking
  BY <1>0, <1>4 DEF AqFillNonblocking, EnterFill
<1>5. CASE AqSoftFlush
  BY <1>0, <1>5 DEF AqSoftFlush
<1>6. CASE AqFlush
  BY <1>0, <1>6 DEF AqFlush
<1>7. CASE AqDiscard
  BY <1>0, <1>7 DEF AqDiscard, DiscardAll, FlushBuckets
<1>8. CASE OutputChanged
  BY <1>0, <1>8 DEF OutputChanged, Reconfigured, FlushBuckets
<1>9. ASSUME NEW pos \in SeekPoints, Seek(pos) PROVE Phases' /\ ErrorsShow'
  BY <1>0, <1>9 DEF Seek, DiscardAll, FlushBuckets
<1>10. ASSUME NEW pos \in SeekPoints, StartTune(pos) PROVE Phases' /\ ErrorsShow'
  BY <1>0, <1>10 DEF StartTune
<1>11. CASE PushTrace
  BY <1>0, <1>11 DEF PushTrace
<1> QED
  BY <1>1, <1>2, <1>3, <1>4, <1>5, <1>6, <1>7, <1>8, <1>9, <1>10, <1>11
     DEF Calls

LEMMA TickPhases == Whole /\ Tick => Phases' /\ ErrorsShow'
<1> SUFFICES ASSUME Whole, Tick PROVE Phases' /\ ErrorsShow'
  OBVIOUS
<1>1. Contents /\ Phases /\ ErrorsShow
  BY DEF Whole
<1> USE DEF bucketVars, fillVars, Phases, ErrorsShow, HandedOver, AtDrain, Flushing,
            Contents, Tick
<1>2. CASE dev = <<>>
  BY <1>1, <1>2
<1>3. CASE dev # <<>>
  BY <1>1, <1>3
<1> QED BY <1>2, <1>3

LEMMA WholeInit == Init => Whole /\ Stream!StreamInit
<1> SUFFICES ASSUME Init PROVE Whole /\ Stream!StreamInit
  OBVIOUS
<1>1. Filled(queue, data) /\ Queued = <<>>
  BY EmptyFilled, QueuedIsLaid DEF Init
<1>2. <<>> \in Seq(Nat) /\ Len(<<>>) = 0
  OBVIOUS
<1>3. Contents
  BY <1>1, <1>2, QueueAssumption DEF Init, Contents
<1>4. Phases /\ ErrorsShow
  BY DEF Init, Phases, ErrorsShow, HandedOver, AtDrain, Flushing
<1>5. (<<>> \o <<>>) \o <<>> = <<>>
  BY <1>2, ConcatEmptySeq
<1>6. Stream!StreamInit
  BY <1>1, <1>5 DEF Init, Stream!StreamInit
<1> QED BY <1>3, <1>4, <1>6, BucketInit DEF Whole

LEMMA WholeStep == Whole /\ [Next]_vars => Whole' /\ StreamStep
<1> SUFFICES ASSUME Whole, [Next]_vars PROVE Whole' /\ StreamStep
  OBVIOUS
<1>1. BucketInv' /\ Contents' /\ StreamStep
  BY BucketStep, StepEffect, EffectIsStep DEF Whole
<1>2. CASE UNCHANGED vars
  <2>1. Phases' /\ ErrorsShow'
    BY <1>2 DEF vars, callVars, bucketVars, fillVars, devVars, Whole, Phases,
                ErrorsShow, HandedOver, AtDrain, Flushing
  <2> QED BY <1>1, <2>1 DEF Whole
<1>3. CASE Next
  BY <1>1, <1>3, RunningPhases, DisturbancePhases, CallsPhases, TickPhases
     DEF Next, Whole
<1> QED BY <1>2, <1>3

\* The audio queue of aq.c keeps what aq_add promises: every sample handed over
\* is played once and in order, silence is only added where a flush completes a
\* bucket, and only a discard or a failing device loses samples.
THEOREM QueueKeepsStream == Spec => StreamKept
<1>1. Whole /\ [Next]_vars => Whole'
  BY WholeStep
<1>2. Whole /\ [Next]_vars => [Stream!StreamNext]_(Stream!streamVars)
  BY WholeStep DEF StreamStep
<1>3. Init => Whole
  BY WholeInit
<1>4. Init => Stream!StreamInit
  BY WholeInit
<1> QED BY <1>1, <1>2, <1>3, <1>4, PTL DEF Spec, StreamKept, Stream!StreamSpec

-----------------------------------------------------------------------------
(* The clock.                                                              *)

Clocks == [counter : Nat, offset : Nat, elapsed : Nat]

\* Samples the two counters of c account for.
Counted(c) == c.offset + c.counter

\* d is the clock c, perhaps with samples moved from one counter to the other.
Rebased(c, d) == d \in Clocks /\ (~Reports => Counted(d) = Counted(c))

LEMMA ClockParts ==
    ASSUME NEW c \in Clocks
    PROVE  /\ c.counter \in Nat /\ c.offset \in Nat /\ c.elapsed \in Nat
           /\ Counted(c) \in Nat /\ Rebased(c, c)
BY DEF Clocks, Counted, Rebased

LEMMA EstimateRebases ==
    ASSUME NEW c \in Clocks
    PROVE  EstimatedClock(c) \in Clocks /\ Counted(EstimatedClock(c)) = Counted(c)
<1>1. c.counter \in Nat /\ c.offset \in Nat
  BY ClockParts
<1>2. StoppedClock(c) \in Clocks /\ Counted(StoppedClock(c)) = Counted(c)
  BY <1>1 DEF StoppedClock, Clocks, Counted
<1> QED BY <1>2 DEF EstimatedClock

LEMMA LooksRebase ==
    ASSUME NEW c \in Clocks, heard \in Nat
    PROVE  /\ Rebased(c, AfterSamples(c)) /\ Rebased(c, AfterFilled(c))
           /\ Rebased(c, TraceClock(c))
           /\ SamplesAt(c) \in Nat
<1>1. EstimatedClock(c) \in Clocks /\ Counted(EstimatedClock(c)) = Counted(c)
  BY EstimateRebases
<1>2. Rebased(c, c)
  BY ClockParts
<1>3. [counter |-> 0, offset |-> heard, elapsed |-> 0] \in Clocks
  BY DEF Clocks
<1>4. Rebased(c, AfterSamples(c))
  BY <1>1, <1>2, <1>3 DEF AfterSamples, Rebased
<1>5. Rebased(c, AfterFilled(c))
  BY <1>1, <1>2 DEF AfterFilled, Rebased
<1>6. Rebased(c, TraceClock(c))
  BY <1>2, <1>4 DEF TraceClock
<1>7. SamplesAt(c) \in Nat
  <2>1. EstimatedClock(c).offset \in Nat /\ EstimatedClock(c).elapsed \in Nat
    BY <1>1, ClockParts
  <2> QED BY <2>1 DEF SamplesAt
<1> QED BY <1>4, <1>5, <1>6, <1>7

LEMMA WrittenCounts ==
    ASSUME NEW c \in Clocks, NEW n \in Nat
    PROVE  Written(c, n) \in Clocks /\ Counted(Written(c, n)) = Counted(c) + n
<1>1. /\ Written(c, n).counter = c.counter + n
      /\ Written(c, n).offset = c.offset
      /\ Written(c, n).elapsed = c.elapsed
      /\ c.counter + n \in Nat /\ c.offset \in Nat /\ c.elapsed \in Nat
  BY ClockParts DEF Written, Clocks
<1>2. Written(c, n) \in Clocks
  BY <1>1 DEF Written, Clocks
<1>3. c.counter \in Nat
  BY ClockParts
<1> QED BY <1>1, <1>2, <1>3 DEF Counted

LEMMA ResetCounts ==
    ASSUME NEW c \in Clocks
    PROVE  ResetClock(c) \in Clocks /\ Counted(ResetClock(c)) = 0
<1>1. /\ ResetClock(c).counter = 0 /\ ResetClock(c).offset = 0
      /\ ResetClock(c).elapsed = c.elapsed /\ c.elapsed \in Nat
  BY ClockParts DEF ResetClock, Clocks
<1>2. ResetClock(c) \in Clocks
  BY <1>1 DEF ResetClock, Clocks
<1> QED BY <1>1, <1>2 DEF Counted

LEMMA LongAgoType == LongAgo \in Nat
<1>1. MaxSample \div ComputeSize \in Nat
  BY QueueAssumption
<1>2. BucketSize - 1 \in Nat /\ BucketSize + ComputeSize \in Nat
  BY QueueAssumption
<1>3. (MaxSample \div ComputeSize) * (BucketSize - 1) \in Nat
  BY <1>1, <1>2
<1>4. MaxErrors * (BucketSize + ComputeSize) \in Nat
  BY <1>2, QueueAssumption
<1> QED BY <1>3, <1>4, QueueAssumption DEF LongAgo

Clocked ==
    /\ clk \in Clocks
    /\ ~Reports /\ errors = 0 => Counted(clk) = Sent

LEMMA SentType == Contents => Sent \in Nat /\ Len(dev) \in Nat
BY DEF Contents, Sent

\* Nothing was sent, and the clock was at most re-based.
LEMMA ClockedByRebase ==
    ASSUME Clocked, Rebased(clk, clk'), heard' + Len(dev') = Sent, errors' = errors
    PROVE  Clocked'
BY DEF Clocked, Rebased, Sent

\* n samples were sent and counted.
LEMMA ClockedByWrite ==
    ASSUME Clocked, NEW n \in Nat, Rebased(Written(clk, n), clk'),
           heard' + Len(dev') = Sent + n, errors' = errors
    PROVE  Clocked'
BY WrittenCounts DEF Clocked, Rebased, Sent

LEMMA ClockedByReset ==
    ASSUME Clocked, clk' = ResetClock(clk), dev' = <<>>, heard' = 0
    PROVE  Clocked'
<1>1. Len(dev') = 0
  OBVIOUS
<1> QED BY <1>1, ResetCounts DEF Clocked, Sent

\* The lost write was counted, but it shows.
LEMMA ClockedByRefusal ==
    ASSUME Clocked, Contents, NEW n \in Nat, RefuseWrite(n)
    PROVE  Clocked'
<1>1. errors \in Nat /\ errors' = errors + 1 /\ clk' = Written(clk, n)
  BY DEF Contents, RefuseWrite
<1>2. clk' \in Clocks
  BY <1>1, WrittenCounts DEF Clocked
<1> QED BY <1>1, <1>2 DEF Clocked

\* What WriteHead adds to the samples sent.
LEMMA HeadSent ==
    ASSUME Contents, queue # <<>>
    PROVE  /\ HeadFull /\ WriteHead(data[Head(queue)])
                => heard' + Len(dev') = Sent + BucketSize /\ Len(dev') = Len(dev) + BucketSize
           /\ WriteHead(Padded(data[Head(queue)]))
                => heard' + Len(dev') = Sent + BucketSize
<1> DEFINE h == data[Head(queue)]
<1>1. h \in Seq(Nat) /\ Len(h) \in 1..BucketSize /\ dev \in Seq(Nat) /\ heard \in Nat
  BY HeadBucket DEF Contents
<1>2. HeadFull => Len(h) = BucketSize
  BY DEF HeadFull
<1> HIDE DEF h
<1>3. BucketSize \in Nat /\ Len(dev) \in Nat
  BY <1>1, QueueAssumption
<1>4. PICK k \in 0..(BucketSize - 1) :
         /\ k = BucketSize - Len(h)
         /\ [i \in 1..k |-> Silence] \in Seq(Nat)
         /\ Len([i \in 1..k |-> Silence]) = k
         /\ Padded(h) = h \o [i \in 1..k |-> Silence]
  BY <1>1, PaddedBy
<1> DEFINE z == [i \in 1..k |-> Silence]
<1>5. z \in Seq(Nat) /\ Len(z) = k /\ Padded(h) = h \o z
  BY <1>4
<1> HIDE DEF z
<1>6. Padded(h) \in Seq(Nat) /\ Len(Padded(h)) = BucketSize
  BY <1>1, <1>3, <1>4, <1>5, Joined
<1>7. ASSUME HeadFull, WriteHead(h)
      PROVE  heard' + Len(dev') = Sent + BucketSize /\ Len(dev') = Len(dev) + BucketSize
  <2>1. Len(dev \o h) = Len(dev) + BucketSize
    BY <1>1, <1>2, <1>7, Joined
  <2>2. dev' = dev \o h /\ heard' = heard
    BY <1>7 DEF WriteHead
  <2>3. Len(dev') = Len(dev) + BucketSize
    BY <2>1, <2>2
  <2> QED BY <2>2, <2>3, <1>1, <1>3 DEF Sent
<1>8. ASSUME WriteHead(Padded(h)) PROVE heard' + Len(dev') = Sent + BucketSize
  <2>1. Len(dev \o Padded(h)) = Len(dev) + BucketSize
    BY <1>1, <1>6, Joined
  <2>2. dev' = dev \o Padded(h) /\ heard' = heard
    BY <1>8 DEF WriteHead
  <2>3. Len(dev') = Len(dev) + BucketSize
    BY <2>1, <2>2
  <2> QED BY <2>2, <2>3, <1>1, <1>3 DEF Sent
<1> QED BY <1>7, <1>8 DEF h

LEMMA RunningClock == Whole /\ Clocked /\ Running => Clocked'
<1> SUFFICES ASSUME Whole, Clocked, Running PROVE Clocked'
  OBVIOUS
<1>0. /\ Contents /\ clk \in Clocks /\ heard \in Nat
      /\ Rebased(clk, clk) /\ Rebased(clk, TraceClock(clk))
      /\ Rebased(clk, AfterFilled(clk))
      /\ BucketSize \in Nat /\ dev \in Seq(Nat) /\ buf \in Seq(Nat)
  BY ClockParts, LooksRebase, QueueAssumption DEF Whole, Contents, Clocked
<1>r. UNCHANGED <<dev, heard, errors>> /\ Rebased(clk, clk') => Clocked'
  <2>1. UNCHANGED <<dev, heard>> => heard' + Len(dev') = Sent
    BY DEF Sent
  <2> QED BY <2>1, ClockedByRebase
<1>w. Rebased(Written(clk, BucketSize), Written(clk, BucketSize))
  BY <1>0, WrittenCounts, ClockParts
<1> USE DEF bucketVars, fillVars, devVars, posVars
<1>1. CASE ThruWrite
  <2>1. /\ Len(buf) \in Nat /\ Len(dev \o buf) = Len(dev) + Len(buf) /\ Len(dev) \in Nat
    BY <1>0, Joined
  <2>2. heard' + Len(dev') = Sent + Len(buf)
    BY <2>1, <1>0, <1>1 DEF ThruWrite, Sent
  <2>3. Rebased(Written(clk, Len(buf)), Written(clk, Len(buf)))
    BY <2>1, <1>0, WrittenCounts, ClockParts
  <2> QED BY <2>1, <2>2, <2>3, <1>1, ClockedByWrite DEF ThruWrite
<1>2. CASE CopyNew
  BY <1>0, <1>r, <1>2 DEF CopyNew
<1>3. CASE CopyTail
  BY <1>0, <1>r, <1>3 DEF CopyTail
<1>4. CASE CopyDone
  BY <1>0, <1>r, <1>4 DEF CopyDone
<1>5. CASE CopyFull
  BY <1>0, <1>r, <1>5 DEF CopyFull
<1>6. CASE FullWrite
  <2>1. heard' + Len(dev') = Sent + BucketSize
    BY <1>0, <1>6, HeadSent DEF FullWrite, HeadFull
  <2> QED BY <2>1, <1>0, <1>w, <1>6, ClockedByWrite DEF FullWrite, WriteHead
<1>7. CASE WaitOver
  <2>1. TraceClock(clk) \in Clocks
    BY <1>0 DEF Rebased
  <2>2. Rebased(TraceClock(clk), AfterFilled(TraceClock(clk)))
    BY <2>1, <1>0, LooksRebase
  <2>3. Rebased(clk, AfterFilled(TraceClock(clk)))
    BY <2>2, <1>0 DEF Rebased
  <2> QED BY <2>3, <1>0, <1>r, <1>7 DEF WaitOver, EnterFill
<1>8. CASE FillWrite
  <2>1. heard' + Len(dev') = Sent + BucketSize
    BY <1>0, <1>8, HeadSent DEF FillWrite, HeadFull
  <2> QED BY <2>1, <1>0, <1>w, <1>8, ClockedByWrite DEF FillWrite, WriteHead
<1>9. CASE FillDone
  BY <1>0, <1>r, <1>9 DEF FillDone
<1>10. CASE SoftWrite
  <2>1. heard' + Len(dev') = Sent + BucketSize
    BY <1>0, <1>10, HeadSent DEF SoftWrite
  <2>2. Written(clk, BucketSize) \in Clocks
    BY <1>0, WrittenCounts
  <2>3. Rebased(Written(clk, BucketSize), TraceClock(Written(clk, BucketSize)))
    BY <2>2, <1>0, LooksRebase
  <2> QED BY <2>1, <2>3, <1>0, <1>10, ClockedByWrite DEF SoftWrite, WriteHead
<1>11. CASE SoftDone
  BY <1>0, <1>r, <1>11 DEF SoftDone
<1>12. CASE DrainRound
  BY <1>0, <1>r, <1>12 DEF DrainRound
<1>13. CASE DrainTest
  BY <1>0, <1>r, <1>13 DEF DrainTest
<1>14. CASE DrainSync
  BY <1>14, ClockedByReset DEF DrainSync, DiscardAll, FlushBuckets
<1>15. CASE ControlNone
  BY <1>0, <1>r, <1>15 DEF ControlNone
<1> QED
  BY <1>1, <1>2, <1>3, <1>4, <1>5, <1>6, <1>7, <1>8, <1>9, <1>10, <1>11,
     <1>12, <1>13, <1>14, <1>15 DEF Running

LEMMA DisturbanceClock == Whole /\ Clocked /\ Disturbance => Clocked'
<1> SUFFICES ASSUME Whole, Clocked, Disturbance PROVE Clocked'
  OBVIOUS
<1>0. Contents /\ BucketSize \in Nat /\ Len(buf) \in Nat
  BY QueueAssumption DEF Whole, Contents
<1>1. CASE ThruRefused
  BY <1>0, <1>1, ClockedByRefusal DEF ThruRefused
<1>2. CASE FullRefused
  BY <1>0, <1>2, ClockedByRefusal DEF FullRefused
<1>3. CASE FillRefused
  BY <1>0, <1>3, ClockedByRefusal DEF FillRefused
<1>4. CASE SoftRefused
  BY <1>0, <1>4, ClockedByRefusal DEF SoftRefused
<1>5. CASE ControlSkip
  BY <1>5, ClockedByReset DEF ControlSkip, DiscardAll, FlushBuckets
<1>6. CASE ControlSync
  BY <1>6, ClockedByReset DEF ControlSync, DiscardAll, FlushBuckets
<1>7. CASE ControlReload
  BY <1>7, ClockedByReset DEF ControlReload, Reconfigured, FlushBuckets
<1> QED BY <1>1, <1>2, <1>3, <1>4, <1>5, <1>6, <1>7 DEF Disturbance

LEMMA CallsClock == Whole /\ Clocked /\ Calls => Clocked'
<1> SUFFICES ASSUME Whole, Clocked, Calls PROVE Clocked'
  OBVIOUS
<1>0. /\ Rebased(clk, clk) /\ Rebased(clk, TraceClock(clk))
      /\ Rebased(clk, AfterFilled(clk))
  BY ClockParts, LooksRebase DEF Whole, Contents, Clocked
<1>r. UNCHANGED <<dev, heard, errors>> /\ Rebased(clk, clk') => Clocked'
  <2>1. UNCHANGED <<dev, heard>> => heard' + Len(dev') = Sent
    BY DEF Sent
  <2> QED BY <2>1, ClockedByRebase
<1> USE DEF bucketVars, fillVars, devVars, posVars, callVars
<1>a. AqAdd => Clocked'
  BY <1>0, <1>r DEF AqAdd, EnterFill
<1>1. ASSUME NEW n \in 1..ComputeSize, ComputeData(n) PROVE Clocked'
  BY <1>0, <1>r, <1>a, <1>1 DEF ComputeData
<1>2. CASE ComputeRest
  BY <1>a, <1>2 DEF ComputeRest
<1>3. CASE AqUpdate
  BY <1>0, <1>r, <1>3 DEF AqUpdate, EnterFill
<1>4. CASE AqFillNonblocking
  BY <1>0, <1>r, <1>4 DEF AqFillNonblocking, EnterFill
<1>5. CASE AqSoftFlush
  BY <1>0, <1>r, <1>5 DEF AqSoftFlush
<1>6. CASE AqFlush
  BY <1>0, <1>r, <1>6 DEF AqFlush
<1>7. CASE AqDiscard
  BY <1>7, ClockedByReset DEF AqDiscard, DiscardAll, FlushBuckets
<1>8. CASE OutputChanged
  BY <1>8, ClockedByReset DEF OutputChanged, Reconfigured, FlushBuckets
<1>9. ASSUME NEW pos \in SeekPoints, Seek(pos) PROVE Clocked'
  BY <1>9, ClockedByReset DEF Seek, DiscardAll, FlushBuckets
<1>10. ASSUME NEW pos \in SeekPoints, StartTune(pos) PROVE Clocked'
  BY <1>0, <1>r, <1>10 DEF StartTune
<1>11. CASE PushTrace
  BY <1>0, <1>r, <1>11 DEF PushTrace
<1> QED
  BY <1>1, <1>2, <1>3, <1>4, <1>5, <1>6, <1>7, <1>8, <1>9, <1>10, <1>11
     DEF Calls

LEMMA TickClock == Whole /\ Clocked /\ Tick => Clocked'
<1> SUFFICES ASSUME Whole, Clocked, Tick PROVE Clocked'
  OBVIOUS
<1>1. clk \in Clocks /\ dev \in Seq(Nat) /\ heard \in Nat
  BY DEF Whole, Contents, Clocked
<1>2. SmallerOf(clk.elapsed + 1, LongAgo) \in Nat
  BY <1>1, LongAgoType, ClockParts DEF SmallerOf
<1>3. /\ clk'.counter = clk.counter /\ clk'.offset = clk.offset /\ clk' \in Clocks
  BY <1>1, <1>2 DEF Tick, Clocks
<1>4. Rebased(clk, clk')
  BY <1>3 DEF Rebased, Counted
<1>5. heard' + Len(dev') = Sent
  <2>1. CASE dev = <<>>
    BY <2>1 DEF Tick, Sent
  <2>2. CASE dev # <<>>
    <3>1. Len(Tail(dev)) = Len(dev) - 1 /\ Len(dev) \in Nat
      BY <2>2, <1>1
    <3> QED BY <3>1, <2>2, <1>1 DEF Tick, Sent
  <2> QED BY <2>1, <2>2
<1>6. errors' = errors
  BY DEF Tick
<1> QED BY <1>4, <1>5, <1>6, ClockedByRebase

LEMMA ClockStep == Whole /\ Clocked /\ [Next]_vars => Clocked'
<1>1. Clocked /\ UNCHANGED vars => Clocked'
  BY DEF Clocked, Counted, Sent, vars, devVars
<1> QED BY <1>1, RunningClock, DisturbanceClock, CallsClock, TickClock DEF Next

\* With an estimating driver the two play counters of aq.c always add up to the
\* samples sent since the last flush, whatever aq_samples and aq_filled move.
THEOREM ClockNeverDrifts == Spec => []ClockAccountsOutput
<1>1. Init => Whole /\ Clocked
  <2>1. Init => clk \in Clocks /\ Counted(clk) = 0
    BY LongAgoType DEF Init, Clocks, Counted
  <2>2. Init => Sent = 0
    BY DEF Init, Sent
  <2> QED BY <2>1, <2>2, WholeInit DEF Clocked
<1>2. Whole /\ Clocked /\ [Next]_vars => (Whole /\ Clocked)'
  BY WholeStep, ClockStep
<1>3. Clocked => ClockAccountsOutput
  BY DEF Clocked, Counted, ClockAccountsOutput
<1> QED BY <1>1, <1>2, <1>3, PTL DEF Spec

-----------------------------------------------------------------------------
(* The display events.                                                     *)

Events == [start : Int, pos : Nat]

\* Events t in order, for samples between from and to.
Ordered(t, from, to) ==
    /\ t \in Seq(Events)
    /\ \A i \in 1..Len(t) :
          /\ from <= t[i].pos /\ t[i].pos <= to
          /\ t[i].start <= t[i].pos
          /\ \A j \in 1..Len(t) : i < j => t[i].start <= t[j].start

LEMMA EventParts ==
    ASSUME NEW t \in Seq(Events), NEW i \in 1..Len(t)
    PROVE  t[i] \in Events /\ t[i].start \in Int /\ t[i].pos \in Nat
<1>1. t[i] \in Events
  BY ElementOfSeq
<1> QED BY <1>1 DEF Events

\* trace_loop takes events off the front.
LEMMA OrderedRest ==
    ASSUME NEW t, NEW from, NEW to, Ordered(t, from, to), NEW k \in 0..Len(t)
    PROVE  Ordered(SubSeq(t, k + 1, Len(t)), from, to)
<1> DEFINE n == Len(t)
           r == SubSeq(t, k + 1, n)
<1>1. t \in Seq(Events) /\ n \in Nat
  BY DEF Ordered
<1>2. \A i \in (k + 1)..n : t[i] \in Events
  <2> SUFFICES ASSUME NEW i \in (k + 1)..n PROVE t[i] \in Events
    OBVIOUS
  <2>1. i \in 1..Len(t)
    BY <1>1
  <2> QED BY <1>1, <2>1, ElementOfSeq
<1> HIDE DEF n
<1>3. k \in 0..n
  BY DEF n
<1>4. /\ r \in Seq(Events) /\ Len(r) = n - k
      /\ \A i \in 1..(n - k) : r[i] = t[k + i]
  <2>1. /\ SubSeq(t, k + 1, n) \in Seq(Events)
        /\ Len(SubSeq(t, k + 1, n)) = IF k + 1 <= n THEN n - (k + 1) + 1 ELSE 0
        /\ \A i \in 1..(n - (k + 1) + 1) : SubSeq(t, k + 1, n)[i] = t[(k + 1) + i - 1]
    BY <1>1, <1>2, <1>3, SubSeqProperties
  <2> QED BY <1>1, <1>3, <2>1
<1> HIDE DEF r
<1>5. ASSUME NEW i \in 1..(n - k)
      PROVE  /\ from <= r[i].pos /\ r[i].pos <= to /\ r[i].start <= r[i].pos
             /\ \A j \in 1..(n - k) : i < j => r[i].start <= r[j].start
  <2>1. k + i \in 1..n /\ r[i] = t[k + i]
    BY <1>1, <1>3, <1>4
  <2>2. \A j \in 1..(n - k) :
           k + j \in 1..n /\ r[j] = t[k + j] /\ (i < j => k + i < k + j)
    BY <1>1, <1>3, <1>4
  <2> QED BY <2>1, <2>2 DEF Ordered, n
<1> QED BY <1>4, <1>5 DEF Ordered, r, n

\* trace_loop moves the first event one sample nearer.
LEMMA OrderedNearer ==
    ASSUME NEW t, NEW from, NEW to, Ordered(t, from, to), t # <<>>
    PROVE  Ordered([t EXCEPT ![1].start = @ - 1], from, to)
<1> DEFINE n == Len(t)
           e == [t[1] EXCEPT !.start = @ - 1]
           r == [t EXCEPT ![1] = e]
<1>1. t \in Seq(Events) /\ n \in Nat \ {0} /\ 1 \in 1..n
  BY DEF Ordered
<1>2. t[1] \in Events /\ t[1].start \in Int /\ t[1].pos \in Nat
  BY <1>1, EventParts
<1>3. e \in Events /\ e.start = t[1].start - 1 /\ e.pos = t[1].pos
  BY <1>2 DEF Events
<1> HIDE DEF e
<1>4. /\ r \in Seq(Events) /\ Len(r) = n
      /\ r[1] = e /\ \A i \in 1..n : i # 1 => r[i] = t[i]
  BY <1>1, <1>3, ExceptSeq
<1>5. [t EXCEPT ![1].start = @ - 1] = r
  BY DEF e
<1> HIDE DEF n, r
<1>6. ASSUME NEW i \in 1..n
      PROVE  /\ from <= r[i].pos /\ r[i].pos <= to /\ r[i].start <= r[i].pos
             /\ \A j \in 1..n : i < j => r[i].start <= r[j].start
  <2>1. /\ from <= t[i].pos /\ t[i].pos <= to /\ t[i].start <= t[i].pos
        /\ \A j \in 1..n : i < j => t[i].start <= t[j].start
    BY DEF Ordered, n
  <2>2. r[i].pos = t[i].pos /\ r[i].start <= t[i].start /\ r[i].start \in Int
    <3>1. t[i].start \in Int
      BY <1>1, EventParts DEF n
    <3> QED BY <3>1, <1>2, <1>3, <1>4
  <2>3. t[i].start \in Int /\ t[i].pos \in Nat
    BY <1>1, EventParts DEF n
  <2>4. ASSUME NEW j \in 1..n, i < j PROVE r[i].start <= r[j].start
    <3>1. j # 1 /\ t[j].start \in Int
      BY <2>4, <1>1, EventParts DEF n
    <3>2. r[j] = t[j] /\ t[i].start <= t[j].start
      BY <3>1, <2>1, <2>4, <1>4
    <3> QED BY <3>1, <3>2, <2>2, <2>3
  <2> QED BY <2>1, <2>2, <2>3, <2>4
<1>7. Ordered(r, from, to)
  BY <1>4, <1>6 DEF Ordered, n
<1> QED BY <1>5, <1>7

\* push_midi_trace: the new event is for the newest sample.
LEMMA OrderedAppend ==
    ASSUME NEW t, NEW from \in Nat, NEW to \in Nat, Ordered(t, from, to), from <= to
    PROVE  Ordered(Append(t, [start |-> to, pos |-> to]), from, to)
<1> DEFINE n == Len(t)
           e == [start |-> to, pos |-> to]
           r == Append(t, e)
<1>1. t \in Seq(Events) /\ n \in Nat
  BY DEF Ordered
<1>2. e \in Events /\ e.start = to /\ e.pos = to
  BY DEF Events
<1> HIDE DEF e
<1>3. /\ r \in Seq(Events) /\ Len(r) = n + 1 /\ r[n + 1] = e
      /\ \A i \in 1..n : r[i] = t[i]
  BY <1>1, <1>2, AppendProperties
<1> HIDE DEF n, r
<1>4. ASSUME NEW i \in 1..(n + 1)
      PROVE  /\ from <= r[i].pos /\ r[i].pos <= to /\ r[i].start <= r[i].pos
             /\ \A j \in 1..(n + 1) : i < j => r[i].start <= r[j].start
  <2>1. CASE i = n + 1
    BY <2>1, <1>1, <1>2, <1>3
  <2>2. CASE i # n + 1
    <3>1. i \in 1..n /\ r[i] = t[i]
      BY <2>2, <1>1, <1>3
    <3>2. /\ from <= t[i].pos /\ t[i].pos <= to /\ t[i].start <= t[i].pos
          /\ \A j \in 1..n : i < j => t[i].start <= t[j].start
      BY <3>1 DEF Ordered, n
    <3>3. t[i].start \in Int /\ t[i].pos \in Nat /\ t[i].start <= to
      BY <3>1, <3>2, <1>1, EventParts DEF n
    <3>4. ASSUME NEW j \in 1..(n + 1), i < j PROVE t[i].start <= r[j].start
      <4>1. CASE j = n + 1
        BY <4>1, <3>3, <1>2, <1>3
      <4>2. CASE j # n + 1
        <5>1. j \in 1..n /\ r[j] = t[j]
          BY <4>2, <1>1, <1>3
        <5> QED BY <5>1, <3>2, <3>4
      <4> QED BY <4>1, <4>2
    <3> QED BY <3>1, <3>2, <3>4
  <2> QED BY <2>1, <2>2
<1>5. Ordered(r, from, to)
  BY <1>3, <1>4 DEF Ordered
<1> QED BY <1>5 DEF r, e

LEMMA OrderedLater ==
    ASSUME NEW t, NEW from \in Nat, NEW to \in Nat, NEW to2 \in Nat,
           Ordered(t, from, to), to <= to2
    PROVE  Ordered(t, from, to2)
<1>1. t \in Seq(Events)
  BY DEF Ordered
<1>2. \A i \in 1..Len(t) : t[i].pos \in Nat /\ t[i].pos <= to2
  BY <1>1, EventParts DEF Ordered
<1> QED BY <1>2 DEF Ordered

LEMMA OrderedNone ==
    ASSUME NEW from, NEW to
    PROVE  Ordered(<<>>, from, to)
<1>1. <<>> \in Seq(Events) /\ Len(<<>>) = 0
  OBVIOUS
<1> QED BY <1>1 DEF Ordered

LEMMA Counting ==
    ASSUME NEW m \in Nat
    PROVE  IsFiniteSet(1..m) /\ Cardinality(1..m) = m
<1>1. IsFiniteSet(1..m) /\ Cardinality(1..m) = IF 1 > m THEN 0 ELSE m - 1 + 1
  <2>1. 1 \in Int /\ m \in Int
    OBVIOUS
  <2> QED BY <2>1, FS_Interval
<1> QED BY <1>1

\* The loop of trace_loop stops at an event of the list, or at its end: the
\* events that are due form a prefix, so their number is where it stops.
LEMMA DueInRange ==
    ASSUME NEW cur \in Int, traces \in Seq(Events)
    PROVE  DueTraces(cur) \in 0..Len(traces)
<1> DEFINE n == Len(traces)
           T == {m \in 1..n : \A i \in 1..m : traces[i].start <= cur}
           k == Cardinality(T)
<1>1. n \in Nat /\ T \subseteq 1..n
  OBVIOUS
<1>2. /\ IsFiniteSet(T) /\ k \in Nat /\ k <= n
  <2>1. IsFiniteSet(1..n) /\ Cardinality(1..n) = n
    <3> HIDE DEF n
    <3> QED BY <1>1, Counting
  <2> HIDE DEF n, T
  <2> QED BY <1>1, <2>1, FS_Subset, FS_CardinalityType
<1> HIDE DEF n
<1>3. \A i \in 1..k : traces[i].start <= cur
  <2> SUFFICES ASSUME NEW i \in 1..k, ~(traces[i].start <= cur) PROVE FALSE
    OBVIOUS
  <2>1. T \subseteq 1..(i - 1)
    <3> SUFFICES ASSUME NEW m \in T, ~(m \in 1..(i - 1)) PROVE FALSE
      OBVIOUS
    <3>1. m \in 1..n /\ i \in 1..m
      BY <1>1, <1>2
    <3> QED BY <3>1
  <2>2. IsFiniteSet(1..(i - 1)) /\ Cardinality(1..(i - 1)) = i - 1
    <3> HIDE DEF k
    <3>1. i - 1 \in Nat
      BY <1>2
    <3> QED BY <3>1, Counting
  <2>3. k <= i - 1
    <3> HIDE DEF T
    <3>1. Cardinality(T) <= Cardinality(1..(i - 1))
      BY <2>1, <2>2, FS_Subset
    <3> QED BY <3>1, <2>2
  <2> HIDE DEF T, k
  <2> QED BY <1>2, <2>3
<1>4. k # n => traces[k + 1].start > cur
  <2> SUFFICES ASSUME k # n, ~(traces[k + 1].start > cur) PROVE FALSE
    OBVIOUS
  <2>1. k + 1 \in 1..n
    BY <1>1, <1>2
  <2>2. traces[k + 1].start <= cur
    <3>1. traces[k + 1].start \in Int
      BY <2>1, EventParts DEF n
    <3> QED BY <3>1
  <2>3. 1..(k + 1) \subseteq T
    <3> SUFFICES ASSUME NEW m \in 1..(k + 1) PROVE m \in T
      OBVIOUS
    <3> HIDE DEF k
    <3>1. m \in 1..n
      BY <1>1, <1>2, <2>1
    <3>2. ASSUME NEW i \in 1..m PROVE traces[i].start <= cur
      <4>1. i \in 1..k \/ i = k + 1
        BY <1>2
      <4> QED BY <4>1, <1>3, <2>2
    <3> QED BY <3>1, <3>2
  <2>4. Cardinality(1..(k + 1)) = k + 1
    <3> HIDE DEF k
    <3>1. k + 1 \in Nat
      BY <1>2
    <3> QED BY <3>1, Counting
  <2>5. k + 1 <= k
    <3> HIDE DEF T
    <3> QED BY <1>2, <2>3, <2>4, FS_Subset
  <2> HIDE DEF T, k
  <2> QED BY <1>2, <2>5
<1> HIDE DEF T, k
<1>5. \E m \in 0..Len(traces) :
         /\ \A i \in 1..m : traces[i].start <= cur
         /\ m = Len(traces) \/ traces[m + 1].start > cur
  <2>1. k \in 0..Len(traces)
    BY <1>1, <1>2 DEF n
  <2> QED BY <2>1, <1>3, <1>4 DEF n
<1> QED BY <1>1, <1>5 DEF DueTraces, n

\* One pass of trace_loop.
LEMMA PassOrdered ==
    ASSUME NEW c \in Clocks, heard \in Nat, traceOffset \in Nat,
           NEW from, NEW to, Ordered(traces, from, to), TracePass(c)
    PROVE  Ordered(traces', from, to)
<1> DEFINE cur == TraceTime(c)
           due == DueTraces(cur)
<1>1. cur \in Int /\ traces \in Seq(Events)
  BY LooksRebase DEF TraceTime, Ordered
<1> HIDE DEF cur
<1>2. due \in 0..Len(traces)
  BY <1>1, DueInRange
<1>3. CASE traces = <<>>
  BY <1>3 DEF TracePass, traceVars
<1>4. CASE traces # <<>>
  <2>1. \/ traces' = [traces EXCEPT ![1].start = @ - 1]
        \/ traces' = SubSeq(traces, due + 1, Len(traces))
    BY <1>4 DEF TracePass, cur
  <2>2. Ordered([traces EXCEPT ![1].start = @ - 1], from, to)
    BY <1>4, OrderedNearer
  <2>3. Ordered(SubSeq(traces, due + 1, Len(traces)), from, to)
    BY <1>2, OrderedRest
  <2> QED BY <2>1, <2>2, <2>3
<1> QED BY <1>3, <1>4

Traced ==
    /\ traceOffset \in Nat /\ curSample \in Nat /\ traceOffset <= curSample
    /\ curSample < acc + ComputeSize
    /\ Ordered(traces, traceOffset, curSample)

\* What a step does to the waiting events while the synthesizer stands still:
\* nothing, a pass of trace_loop, or trace_flush.
TracesMove ==
    \/ UNCHANGED traces
    \/ \E c \in Clocks : TracePass(c)
    \/ traces' = <<>>

LEMMA MoveOrdered ==
    ASSUME heard \in Nat, traceOffset \in Nat, TracesMove,
           NEW from, NEW to, Ordered(traces, from, to)
    PROVE  Ordered(traces', from, to)
<1>1. CASE UNCHANGED traces
  BY <1>1
<1>2. CASE \E c \in Clocks : TracePass(c)
  BY <1>2, PassOrdered
<1>3. CASE traces' = <<>>
  BY <1>3, OrderedNone
<1> QED BY <1>1, <1>2, <1>3 DEF TracesMove

LEMMA TracedAtRest ==
    ASSUME Traced, heard \in Nat, TracesMove, UNCHANGED posVars
    PROVE  Traced'
<1>1. Ordered(traces', traceOffset, curSample)
  BY MoveOrdered DEF Traced
<1> QED BY <1>1 DEF Traced, posVars

\* The synthesizer goes on: the sample being computed only grows.
LEMMA TracedForward ==
    ASSUME Traced, heard \in Nat, TracesMove, traceOffset' = traceOffset,
           curSample' \in Nat, curSample <= curSample', curSample' < acc' + ComputeSize
    PROVE  Traced'
<1>1. Ordered(traces', traceOffset, curSample)
  BY MoveOrdered DEF Traced
<1>2. Ordered(traces', traceOffset, curSample')
  BY <1>1, OrderedLater DEF Traced
<1>3. traceOffset <= curSample'
  BY DEF Traced
<1> QED BY <1>2, <1>3 DEF Traced

LEMMA TracedSkip ==
    ASSUME NEW pos \in Nat, SkipTo(pos)
    PROVE  Traced'
<1>1. traceOffset' = pos /\ curSample' = pos /\ acc' = pos /\ traces' = <<>>
  BY DEF SkipTo, TraceFlush
<1>2. pos <= pos /\ pos < pos + ComputeSize
  BY QueueAssumption
<1> QED BY <1>1, <1>2, OrderedNone DEF Traced

LEMMA RunningTraced == Whole /\ Clocked /\ Traced /\ Running => Traced'
<1> SUFFICES ASSUME Whole, Clocked, Traced, Running PROVE Traced'
  OBVIOUS
<1>0. heard \in Nat /\ clk \in Clocks /\ Written(clk, BucketSize) \in Clocks
  BY WrittenCounts, QueueAssumption DEF Whole, Contents, Clocked
<1> USE DEF traceVars
<1>1. UNCHANGED posVars
  BY DEF Running, ThruWrite, CopyNew, CopyTail, CopyDone, CopyFull, FullWrite,
         WaitOver, FillWrite, FillDone, SoftWrite, SoftDone, DrainRound, DrainTest,
         DrainSync, ControlNone
<1>2. CASE WaitOver \/ DrainRound
  <2>1. TracePass(clk)
    BY <1>2 DEF WaitOver, DrainRound
  <2> QED BY <2>1, <1>0, <1>1, TracedAtRest DEF TracesMove
<1>3. CASE SoftWrite
  <2>1. TracePass(Written(clk, BucketSize))
    BY <1>3 DEF SoftWrite
  <2> QED BY <2>1, <1>0, <1>1, TracedAtRest DEF TracesMove
<1>4. CASE FillDone
  <2>1. TracePass(clk) \/ UNCHANGED traces
    BY <1>4 DEF FillDone
  <2> QED BY <2>1, <1>0, <1>1, TracedAtRest DEF TracesMove
<1>5. CASE DrainSync
  <2>1. traces' = <<>>
    BY <1>5 DEF DrainSync, TraceFlush
  <2> QED BY <2>1, <1>0, <1>1, TracedAtRest DEF TracesMove
<1>6. CASE \/ ThruWrite \/ CopyNew \/ CopyTail \/ CopyDone \/ CopyFull
           \/ FullWrite \/ FillWrite \/ SoftDone \/ DrainTest \/ ControlNone
  <2>1. UNCHANGED traces
    BY <1>6 DEF ThruWrite, CopyNew, CopyTail, CopyDone, CopyFull, FullWrite,
                FillWrite, SoftDone, DrainTest, ControlNone
  <2> QED BY <2>1, <1>0, <1>1, TracedAtRest DEF TracesMove
<1> QED BY <1>2, <1>3, <1>4, <1>5, <1>6 DEF Running

LEMMA DisturbanceTraced == Whole /\ Traced /\ Disturbance => Traced'
<1> SUFFICES ASSUME Whole, Traced, Disturbance PROVE Traced'
  OBVIOUS
<1>1. UNCHANGED posVars
  BY DEF Disturbance, ThruRefused, FullRefused, FillRefused, SoftRefused, RefuseWrite,
         ControlSkip, ControlSync, ControlReload
<1>2. UNCHANGED traces \/ traces' = <<>>
  BY DEF Disturbance, ThruRefused, FullRefused, FillRefused, SoftRefused, RefuseWrite,
         ControlSkip, ControlSync, ControlReload, Reconfigured, TraceFlush, traceVars
<1>3. heard \in Nat
  BY DEF Whole, Contents
<1> QED BY <1>1, <1>2, <1>3, TracedAtRest DEF TracesMove

LEMMA CallsTraced == Whole /\ Clocked /\ Traced /\ Calls => Traced'
<1> SUFFICES ASSUME Whole, Clocked, Traced, Calls PROVE Traced'
  OBVIOUS
<1>0. /\ heard \in Nat /\ clk \in Clocks /\ acc \in Nat /\ ComputeSize \in Nat \ {0}
      /\ traceOffset \in Nat /\ curSample \in Nat /\ traceOffset <= curSample
      /\ curSample < acc + ComputeSize
  BY QueueAssumption DEF Whole, Contents, Clocked, Traced
<1> USE DEF traceVars, posVars
<1>a. ASSUME AqAdd
      PROVE  TracesMove /\ traceOffset' = traceOffset /\ acc' = acc + ComputeSize
  <2>1. TracePass(clk) \/ UNCHANGED traces
    BY <1>a DEF AqAdd
  <2> QED BY <2>1, <1>0, <1>a DEF AqAdd, TracesMove
<1>1. ASSUME NEW n \in 1..ComputeSize, ComputeData(n) PROVE Traced'
  <2>1. curSample' = curSample + n /\ curSample' \in Nat /\ curSample <= curSample'
    BY <1>0, <1>1 DEF ComputeData
  <2>2. CASE curSample + n - acc >= ComputeSize
    <3>1. AqAdd
      BY <1>1, <2>2 DEF ComputeData
    <3>2. curSample' < acc' + ComputeSize
      BY <1>0, <1>a, <2>1, <3>1
    <3> QED BY <1>0, <1>a, <2>1, <3>1, <3>2, TracedForward
  <2>3. CASE ~(curSample + n - acc >= ComputeSize)
    <3>1. UNCHANGED traces /\ traceOffset' = traceOffset /\ acc' = acc
      BY <1>1, <2>3 DEF ComputeData
    <3>2. curSample' < acc' + ComputeSize
      BY <1>0, <2>1, <2>3, <3>1
    <3> QED BY <1>0, <2>1, <3>1, <3>2, TracedForward DEF TracesMove
  <2> QED BY <2>2, <2>3
<1>2. CASE ComputeRest
  <2>1. AqAdd /\ curSample' = acc'
    BY <1>2 DEF ComputeRest
  <2>2. acc' \in Nat /\ curSample <= curSample' /\ curSample' < acc' + ComputeSize
    BY <1>0, <1>a, <2>1
  <2> QED BY <1>0, <1>a, <2>1, <2>2, TracedForward
<1>3. CASE AqUpdate \/ AqFillNonblocking \/ AqFlush
  <2>1. UNCHANGED traces /\ UNCHANGED posVars
    BY <1>3 DEF AqUpdate, AqFillNonblocking, AqFlush
  <2> QED BY <2>1, <1>0, TracedAtRest DEF TracesMove
<1>4. CASE AqSoftFlush \/ AqDiscard \/ OutputChanged
  <2>1. traces' = <<>> /\ UNCHANGED posVars
    BY <1>4 DEF AqSoftFlush, AqDiscard, OutputChanged, Reconfigured, TraceFlush
  <2> QED BY <2>1, <1>0, TracedAtRest DEF TracesMove
<1>5. ASSUME NEW pos \in SeekPoints, Seek(pos) \/ StartTune(pos) PROVE Traced'
  BY <1>5, TracedSkip, QueueAssumption DEF Seek, StartTune
<1>6. CASE PushTrace
  <2>1. /\ traces' = Append(traces, [start |-> curSample, pos |-> curSample])
        /\ UNCHANGED posVars
    BY <1>6 DEF PushTrace
  <2>2. Ordered(traces', traceOffset, curSample)
    BY <1>0, <2>1, OrderedAppend DEF Traced
  <2> QED BY <2>1, <2>2 DEF Traced
<1> QED BY <1>1, <1>2, <1>3, <1>4, <1>5, <1>6 DEF Calls

LEMMA TracedStep == Whole /\ Clocked /\ Traced /\ [Next]_vars => Traced'
<1>1. Whole /\ Traced /\ (Tick \/ UNCHANGED vars) => Traced'
  <2> SUFFICES ASSUME Whole, Traced, Tick \/ UNCHANGED vars PROVE Traced'
    OBVIOUS
  <2>1. UNCHANGED traces /\ UNCHANGED posVars
    BY DEF Tick, vars, traceVars
  <2> QED BY <2>1, TracedAtRest DEF TracesMove, Whole, Contents
<1> QED BY <1>1, RunningTraced, DisturbanceTraced, CallsTraced DEF Next

\* Only the last bucket is ever short when aq_fill_one sends bucket_size bytes
\* of the first; nothing is left behind when aq_flush waits for the device; the
\* display events wait in the order of their samples and belong to the tune.
THEOREM QueueIsSound == Spec => []QueueSound
<1> DEFINE Inv == Whole /\ Clocked /\ Traced
<1>1. Init => Inv
  <2> SUFFICES ASSUME Init PROVE Inv
    OBVIOUS
  <2>1. Clocked
    <3>1. clk \in Clocks /\ Counted(clk) = 0
      BY LongAgoType DEF Init, Clocks, Counted
    <3>2. Sent = 0
      BY DEF Init, Sent
    <3> QED BY <3>1, <3>2 DEF Clocked
  <2>2. Traced
    BY OrderedNone, QueueAssumption DEF Init, Traced
  <2> QED BY <2>1, <2>2, WholeInit
<1>2. Inv /\ [Next]_vars => Inv'
  BY WholeStep, ClockStep, TracedStep
<1>3. Inv => QueueSound
  <2> SUFFICES ASSUME Whole, Traced PROVE QueueSound
    OBVIOUS
  <2>1. OnlyLastPartial
    BY DEF Whole, Contents, Filled, OnlyLastPartial
  <2>2. PlayedOut
    BY DEF Whole, Phases, PlayedOut, HandedOver, AtDrain
  <2>3. TracesBelongToTune
    <3>1. DOMAIN traces = 1..Len(traces)
      BY DEF Traced, Ordered
    <3> QED BY <3>1 DEF Traced, Ordered, TracesBelongToTune
  <2> QED BY <2>1, <2>2, <2>3 DEF QueueSound
<1> QED BY <1>1, <1>2, <1>3, PTL DEF Spec

-----------------------------------------------------------------------------
(* aq_fill_nonblocking and a driver that reports how full the device is.   *)

\* The room the loop still counts on: nfills whole buckets.
Roomy ==
    Reports /\ pc = "fill" =>
       /\ nfills \in Nat
       /\ nfills > 0 => Start(nfills + 1) + Len(dev) <= DevCap

LEMMA QuotientFits ==
    ASSUME NEW n \in Nat, NEW b \in Nat \ {0}
    PROVE  n \div b \in Nat /\ (n \div b) * b <= n
OBVIOUS

LEMMA EnterIsRoomy ==
    ASSUME NEW c, NEW caller, EnterFill(c, caller), dev' = dev, dev \in Seq(Nat)
    PROVE  Roomy'
<1> SUFFICES ASSUME Reports
             PROVE  /\ nfills' \in Nat
                    /\ nfills' > 0 => Start(nfills' + 1) + Len(dev) <= DevCap
  BY DEF Roomy, Start
<1> DEFINE room == DevCap - Len(dev)
<1>1. room \in Int /\ BucketSize \in Nat \ {0} /\ Len(dev) \in Nat /\ DevCap \in Nat
  BY QueueAssumption
<1>2. nfills' = 0 \/ (nfills' = FillsAt(c))
  BY DEF EnterFill
<1>3. FillsAt(c) = IF room <= 0 THEN 0 ELSE room \div BucketSize
  BY DEF FillsAt, FillableAt
<1> HIDE DEF room
<1>4. CASE nfills' = 0
  BY <1>4
<1>5. CASE nfills' # 0
  <2>1. room \in Nat /\ nfills' = room \div BucketSize
    BY <1>1, <1>2, <1>3, <1>5
  <2>2. nfills' \in Nat /\ nfills' * BucketSize <= room
    BY <1>1, <2>1, QuotientFits
  <2>3. Start(nfills' + 1) = nfills' * BucketSize
    BY <2>2 DEF Start
  <2>4. Start(nfills' + 1) <= room
    BY <2>2, <2>3
  <2>5. Start(nfills' + 1) \in Int
    BY <2>2, StartFacts
  <2> DEFINE st == Start(nfills' + 1)
             len == Len(dev)
  <2>6. st \in Int /\ len \in Nat /\ DevCap \in Nat /\ st <= DevCap - len
    BY <1>1, <2>4, <2>5 DEF room
  <2> HIDE DEF st, len
  <2>7. st + len <= DevCap
    BY <2>6
  <2> QED BY <2>2, <2>7 DEF st, len
<1> QED BY <1>4, <1>5

LEMMA RoomyStep == Whole /\ Roomy /\ [Next]_vars => Roomy'
<1> SUFFICES ASSUME Whole, Roomy, [Next]_vars PROVE Roomy'
  OBVIOUS
<1>0. /\ Contents /\ dev \in Seq(Nat) /\ Len(dev) \in Nat
      /\ BucketSize \in Nat \ {0} /\ DevCap \in Nat
  BY QueueAssumption DEF Whole, Contents
<1>1. CASE FillWrite
  <2>1. nfills' = nfills - 1 /\ nfills > 0 /\ pc = "fill"
    BY <1>1 DEF FillWrite
  <2>2. Len(dev') = Len(dev) + BucketSize
    BY <1>0, <1>1, HeadSent DEF FillWrite, HeadFull
  <2> SUFFICES ASSUME Reports
               PROVE  /\ nfills' \in Nat
                      /\ nfills' > 0 => Start(nfills' + 1) + Len(dev') <= DevCap
    BY DEF Roomy, Start
  <2>3. nfills \in Nat \ {0} /\ Start(nfills + 1) + Len(dev) <= DevCap
    BY <2>1 DEF Roomy
  <2>4. Start(nfills) \in Nat /\ Start(nfills + 1) = Start(nfills) + BucketSize
    BY <2>3, StartFacts
  <2>5. nfills' \in Nat /\ nfills' + 1 = nfills
    BY <2>1, <2>3
  <2>6. Start(nfills' + 1) = Start(nfills)
    BY <2>5
  <2> DEFINE a == Start(nfills)
             b == Start(nfills + 1)
             m == Len(dev)
             n == Len(dev')
  <2>7. a \in Nat /\ b = a + BucketSize /\ b + m <= DevCap /\ n = m + BucketSize
        /\ m \in Nat
    BY <1>0, <2>2, <2>3, <2>4
  <2> HIDE DEF a, b, m, n
  <2>8. a + n <= DevCap
    BY <1>0, <2>7
  <2> QED BY <2>5, <2>6, <2>8 DEF a, n
<1>2. CASE Tick
  <2>1. pc' = pc /\ nfills' = nfills
    BY <1>2 DEF Tick
  <2>2. Len(dev') \in Nat /\ Len(dev') <= Len(dev)
    BY <1>0, <1>2 DEF Tick
  <2> SUFFICES ASSUME Reports, pc = "fill", nfills > 0
               PROVE  nfills \in Nat /\ Start(nfills + 1) + Len(dev') <= DevCap
    BY <2>1 DEF Roomy, Start
  <2>3. nfills \in Nat /\ Start(nfills + 1) + Len(dev) <= DevCap
    BY DEF Roomy
  <2>4. Start(nfills + 1) \in Nat
    BY <2>3, StartFacts
  <2> QED BY <1>0, <2>2, <2>3, <2>4
<1>3. CASE WaitOver \/ AqUpdate \/ AqFillNonblocking
  <2>1. dev' = dev
    BY <1>3 DEF WaitOver, AqUpdate, AqFillNonblocking, devVars
  <2>2. \E c, caller : EnterFill(c, caller)
    BY <1>3 DEF WaitOver, AqUpdate, AqFillNonblocking
  <2> QED BY <1>0, <2>1, <2>2, EnterIsRoomy
<1>a. AqAdd => Roomy'
  <2> SUFFICES ASSUME AqAdd PROVE Roomy'
    OBVIOUS
  <2>1. dev' = dev
    BY DEF AqAdd, devVars
  <2>2. pc' # "fill" \/ EnterFill(clk, "add")
    BY DEF AqAdd
  <2> QED BY <1>0, <2>1, <2>2, EnterIsRoomy DEF Roomy
<1>4. ASSUME NEW n \in 1..ComputeSize, ComputeData(n) PROVE Roomy'
  <2>1. AqAdd \/ (pc = "idle" /\ UNCHANGED callVars)
    BY <1>4 DEF ComputeData
  <2> QED BY <1>a, <2>1 DEF Roomy, callVars
<1>5. CASE ComputeRest
  BY <1>a, <1>5 DEF ComputeRest
<1>6. CASE UNCHANGED vars
  BY <1>6 DEF Roomy, Start, vars, callVars, devVars
<1>7. CASE \/ ThruWrite \/ CopyNew \/ CopyTail \/ CopyDone \/ CopyFull \/ FullWrite
           \/ FillDone \/ SoftWrite \/ SoftDone \/ DrainRound \/ DrainTest
           \/ DrainSync \/ ControlNone
  <2>1. pc' # "fill"
    BY <1>7 DEF ThruWrite, CopyNew, CopyTail, CopyDone, CopyFull, FullWrite, FillDone,
                SoftWrite, SoftDone, DrainRound, DrainTest, DrainSync, ControlNone, Return
  <2> QED BY <2>1 DEF Roomy
<1>8. CASE Disturbance
  <2>1. pc' # "fill"
    BY <1>8 DEF Disturbance, ThruRefused, FullRefused, FillRefused, SoftRefused,
                RefuseWrite, ControlSkip, ControlSync, ControlReload, Return
  <2> QED BY <2>1 DEF Roomy
<1>9. CASE \/ AqSoftFlush \/ AqFlush \/ AqDiscard \/ OutputChanged \/ PushTrace
           \/ \E pos \in SeekPoints : Seek(pos) \/ StartTune(pos)
  <2>1. pc' # "fill"
    BY <1>9 DEF AqSoftFlush, AqFlush, AqDiscard, OutputChanged, PushTrace, Seek,
                StartTune, callVars
  <2> QED BY <2>1 DEF Roomy
<1> QED
  BY <1>1, <1>2, <1>3, <1>4, <1>5, <1>6, <1>7, <1>8, <1>9 DEF Next, Running, Calls

\* Where the driver reports how full the device is, aq_fill_nonblocking does
\* what aq.h promises of it: the device has room for every bucket it writes.
THEOREM ReportedFillsFit == Spec => [](Reports => FillNeverBlocks)
<1>1. Init => Whole /\ Roomy
  BY WholeInit DEF Init, Roomy
<1>2. Whole /\ Roomy /\ [Next]_vars => (Whole /\ Roomy)'
  BY WholeStep, RoomyStep
<1>3. Whole /\ Roomy => (Reports => FillNeverBlocks)
  <2> SUFFICES ASSUME Whole, Roomy, Reports, pc = "fill", nfills > 0
               PROVE  Len(dev) + BucketSize <= DevCap
    BY DEF FillNeverBlocks
  <2>1. nfills \in Nat \ {0} /\ Start(nfills + 1) + Len(dev) <= DevCap
    BY DEF Roomy
  <2>2. Start(nfills) \in Nat /\ Start(nfills + 1) = Start(nfills) + BucketSize
    BY <2>1, StartFacts
  <2>3. dev \in Seq(Nat) /\ BucketSize \in Nat /\ DevCap \in Nat
    BY QueueAssumption DEF Whole, Contents
  <2> QED BY <2>1, <2>2, <2>3
<1> QED BY <1>1, <1>2, <1>3, PTL DEF Spec
=============================================================================
