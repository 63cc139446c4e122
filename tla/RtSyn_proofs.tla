---------------------------- MODULE RtSyn_proofs -----------------------------
(* The time keeping of the realtime synthesizer, for every latency that      *)
(* rtsyn_set_latency allows, every limit of stream_max_compute, every size of *)
(* the queue and every stream of messages: what is rendered ahead is queued,   *)
(* every pass leaves two ticks rendered, a note is dropped only when the loop   *)
(* was away for too long, and active sensing expires only in silence.          *)
EXTENDS RtSyn, SequenceTheorems, TLAPS

\* The messages of waiting, and the events of rtsyn_play_event_time.
Message == [kind : Kinds, age : 0..AgeMax]
Event == [kind : Kinds \cup {"none", "calc"}, at : Int, from : {"data", "calc"}]

Typed ==
    /\ waiting \in Seq(Message)
    /\ pc \in {"key", "data", "play", "calc", "sense"}
    /\ event \in Event
    /\ rendered \in Int /\ last \in Int
    /\ lastCalc \in 0..Latency
    /\ played \in BOOLEAN /\ fresh \in BOOLEAN
    /\ sensing \in -1..(SenseMax + 1)
    /\ queued \in 0..QueueMax
    /\ since \in 0..AgeMax

\* rtsyn_play_calculate renders.
Calculating == pc = "play" /\ event.from = "calc"

\* What is played is an event, not before its time; that of rtsyn_play_calculate
\* was the latency away when the messages were last looked at.
Playing ==
    /\ pc = "play" => event.kind # "none" /\ event.at <= Latency
    /\ Calculating => /\ event.kind = "calc" /\ last <= event.at
                      /\ since = AgeMax \/ event.at >= Latency - since

\* The last event is not ahead of what is rendered, but for a new time base, where
\* it is ahead by the latency at most.
Covered ==
    /\ ~fresh => rendered >= last
    /\ rendered + Latency >= last

\* rtsyn_play_calculate leaves the last event two ticks ahead.
LastAhead ==
    pc # "calc" /\ ~Calculating =>
        since = AgeMax \/ (last >= 0 - since /\ (~fresh => last >= 2 - since))

\* How far the clock can run past what is rendered: in the time of a pass, and in
\* a tick for each that the device makes the loop wait.
Behind ==
    MaxCompute + Sooner(since, PassMax)
        + (IF since > PassMax /\ queued # QueueMax THEN 1 ELSE 0)

Reached == pc # "calc" => rendered + Behind >= 0

\* What waits came after the last look at the input.
CameSince ==
    pc \in {"calc", "sense", "key"} \/ Calculating =>
        \A i \in DOMAIN waiting : waiting[i].age <= since

IInv == Typed /\ AheadIsQueued /\ Playing /\ Covered /\ LastAhead /\ Reached /\ CameSince

-----------------------------------------------------------------------------
(* What the bounds are, and what the messages are.                           *)

\* The limit on the time that is rendered for an event is the latency and what
\* stream_max_compute exceeds it by; the ages go beyond it by a pass and more.
LEMMA Bounds ==
    /\ MaxCompute \in Nat /\ MaxCompute >= Latency
    /\ MaxCompute = Latency + Later(StreamMax - Latency, 0)
    /\ AgeMax \in Nat /\ AgeMax >= PassMax + MaxCompute + 3
  BY TimeAssumption DEF MaxCompute, AgeMax, Later

\* A message taken leaves the others; it was one of the messages.
LEMMA TakeKeeps ==
    ASSUME waiting \in Seq(Message), waiting # <<>>
    PROVE  Head(waiting) \in Message /\ Tail(waiting) \in Seq(Message)
  BY HeadTailProperties

\* A message that comes is the last and has just come, or all are lost.
LEMMA ReceiveKeeps ==
    ASSUME waiting \in Seq(Message), NEW m \in Message
    PROVE  /\ Accepted(m) \in Seq(Message)
           /\ \A i \in DOMAIN Accepted(m) :
                \/ i \in DOMAIN waiting /\ Accepted(m)[i] = waiting[i]
                \/ Accepted(m)[i] = m
  <1>1. CASE Len(waiting) < Capacity
    <2>1. Accepted(m) = Append(waiting, m)
      BY <1>1 DEF Accepted
    <2> QED
      BY <2>1, AppendProperties, LenProperties
  <1>2. CASE ~ (Len(waiting) < Capacity)
    <2>1. Accepted(m) = <<>>
      BY <1>2 DEF Accepted
    <2> QED
      BY <2>1, EmptySeq
  <1> QED
    BY <1>1, <1>2

\* The sooner of two times.
LEMMA SoonerOne ==
    ASSUME NEW a \in Nat, NEW b \in Nat
    PROVE  Sooner(a, b) \in 0..b /\ Sooner(a, b) <= a /\ Sooner(a, b) \in {a, b}
  BY DEF Sooner

LEMMA BehindBound == Typed => Behind \in Nat /\ Behind >= MaxCompute
  BY TimeAssumption, Bounds DEF Typed, Behind, Sooner

LEMMA TypesOK == Typed => TypeOK
  BY DEF Typed, TypeOK, Message, Event

LEMMA InitSound == Init => IInv
  <1> SUFFICES ASSUME Init PROVE IInv
    OBVIOUS
  <1>1. Typed
    <2>1. waiting \in Seq(Message)
      BY EmptySeq DEF Init
    <2>2. event \in Event
      BY DEF Init, Event, NoEvent
    <2>3. sensing \in -1..(SenseMax + 1) /\ queued \in 0..QueueMax /\ since \in 0..AgeMax
      BY TimeAssumption, Bounds DEF Init
    <2>4. last \in Int /\ lastCalc \in 0..Latency
      BY TimeAssumption DEF Init
    <2>5. pc = "key" /\ rendered \in Int
      BY DEF Init
    <2>6. played \in BOOLEAN /\ fresh \in BOOLEAN
      BY Zenon DEF Init
    <2> QED
      BY <2>1, <2>2, <2>3, <2>4, <2>5, <2>6 DEF Typed
  <1>2. AheadIsQueued /\ Playing /\ Covered /\ LastAhead /\ CameSince
    BY TimeAssumption, Bounds
    DEF Init, AheadIsQueued, Playing, Calculating, Covered, LastAhead, CameSince, NoEvent
  <1>3. Reached
    BY TimeAssumption, Bounds DEF Init, Reached, Behind, Sooner
  <1> QED
    BY <1>1, <1>2, <1>3 DEF IInv

-----------------------------------------------------------------------------
(* The actions.                                                              *)

LEMMA RenderKeeps == IInv /\ Render => IInv'
  <1> SUFFICES ASSUME IInv, Render PROVE IInv'
    OBVIOUS
  <1> USE TimeAssumption, Bounds
  <1>1. pc' = pc /\ event' = event /\ waiting' = waiting /\ last' = last /\ since' = since
        /\ fresh' = fresh /\ rendered' = rendered + 1 /\ queued' = queued + 1
        /\ rendered < Goal(event) /\ queued < QueueMax /\ pc = "play"
    BY DEF Render
  <1>2. Typed'
    BY <1>1 DEF IInv, Typed, Render
  <1>3. Goal(event) <= Latency
    BY <1>1 DEF IInv, Typed, Event, Goal, Playing, AheadIsQueued
  <1>4. AheadIsQueued'
    BY <1>1, <1>3 DEF IInv, Typed, Event, Goal, AheadIsQueued
  <1>5. Playing' /\ LastAhead' /\ CameSince'
    BY <1>1 DEF IInv, Playing, LastAhead, CameSince, Calculating
  <1>6. Covered'
    BY <1>1 DEF IInv, Typed, Covered
  <1>7. Reached'
    <2> DEFINE b == MaxCompute + Sooner(since, PassMax)
    <2>1. b \in Nat /\ rendered \in Int /\ b' = b
      BY <1>1 DEF IInv, Typed, Sooner, MaxCompute
    <2>2. rendered + b + 1 >= 0
      BY <1>1, <2>1 DEF IInv, Reached, Behind
    <2>3. Behind' = b \/ Behind' = b + 1
      BY <1>1, <2>1 DEF Behind
    <2> HIDE DEF b
    <2>4. rendered + 1 + b >= 0 /\ rendered + 1 + (b + 1) >= 0
      BY <2>1, <2>2
    <2> QED
      BY <1>1, <2>3, <2>4 DEF Reached
  <1> QED
    BY <1>2, <1>4, <1>5, <1>6, <1>7 DEF IInv

LEMMA PlayedKeeps == IInv /\ Played => IInv'
  <1> SUFFICES ASSUME IInv, Played PROVE IInv'
    OBVIOUS
  <1> USE TimeAssumption, Bounds
  <1>1. pc = "play" /\ event.at \in Int /\ event.from \in {"data", "calc"}
        /\ event.at <= Latency /\ event' = NoEvent
    BY DEF IInv, Typed, Event, Playing, Played
  <1>2. last' \in Int /\ last' <= Latency /\ last' >= last
    BY <1>1 DEF Played, IInv, Typed, Later, AheadIsQueued
  <1>3. Typed'
    <2>1. NoEvent \in Event
      BY DEF NoEvent, Event
    <2>2. lastCalc' \in 0..Latency
      BY <1>1 DEF Played, IInv, Typed, Later
    <2>3. pc' \in {"data", "sense"}
      BY <1>1 DEF Played
    <2>4. played' \in BOOLEAN /\ fresh' \in BOOLEAN
      BY Zenon DEF Played, IInv, Typed
    <2> QED
      BY <1>1, <1>2, <2>1, <2>2, <2>3, <2>4 DEF Played, IInv, Typed
  <1>4. AheadIsQueued' /\ Reached'
    BY <1>1, <1>2 DEF Played, IInv, Typed, AheadIsQueued, Reached, Behind
  <1>5. pc' # "play" /\ pc' # "calc"
    BY <1>1 DEF Played
  <1>6. Playing' /\ CameSince'
    BY <1>1, <1>5 DEF Played, IInv, Playing, CameSince, Calculating
  <1>7. CASE event.from = "calc"
    <2>1. event.kind = "calc" /\ last <= event.at
          /\ (since = AgeMax \/ event.at >= Latency - since)
      BY <1>1, <1>7 DEF IInv, Playing, Calculating
    <2>2. rendered >= event.at /\ last' = event.at
      BY <1>1, <2>1 DEF Played, Goal, Later, IInv, Typed
    <2>3. since' = since /\ rendered' = rendered /\ AgeMax' = AgeMax /\ since \in Nat
          /\ rendered \in Int
      BY <1>1 DEF Played, AgeMax, MaxCompute, IInv, Typed
    <2>4. rendered + Latency >= event.at
      BY <1>1, <2>2, <2>3
    <2>5. Covered'
      BY <2>2, <2>3, <2>4 DEF Covered
    <2>6. since = AgeMax \/ (event.at >= 0 - since /\ event.at >= 2 - since)
      BY <1>1, <2>1, <2>3
    <2>7. LastAhead'
      BY <2>2, <2>3, <2>6 DEF LastAhead
    <2> QED
      BY <1>3, <1>4, <1>6, <2>5, <2>7 DEF IInv
  <1>8. CASE event.from = "data"
    <2>1. fresh' = fresh /\ since' = since /\ rendered' = rendered
      BY <1>8 DEF Played
    <2>2. rendered \in Int /\ last \in Int /\ since \in Nat
          /\ rendered + Latency >= last /\ (~fresh => rendered >= last)
      BY DEF IInv, Covered, Typed
    <2>3. since = AgeMax \/ (last >= 0 - since /\ (~fresh => last >= 2 - since))
      BY <1>1, <1>8 DEF IInv, LastAhead, Calculating
    <2>4. AgeMax' = AgeMax
      BY DEF AgeMax, MaxCompute
    <2>5. CASE last' = last
      BY <1>3, <1>4, <1>6, <2>1, <2>2, <2>3, <2>4, <2>5 DEF IInv, Covered, LastAhead
    <2>6. CASE last' = event.at /\ last < event.at /\ event.at <= rendered
      <3>1. /\ rendered + Latency >= event.at
            /\ since = AgeMax \/ (event.at >= 0 - since /\ (~fresh => event.at >= 2 - since))
        BY <1>1, <2>2, <2>3, <2>6
      <3> QED
        BY <1>3, <1>4, <1>6, <2>1, <2>4, <2>6, <3>1 DEF IInv, Covered, LastAhead
    <2> QED
      BY <1>1, <2>2, <2>5, <2>6 DEF Played, Goal, Later
  <1> QED
    BY <1>1, <1>7, <1>8

LEMMA NoteKeeps == IInv /\ Note => IInv'
  <1> SUFFICES ASSUME IInv, Note PROVE IInv'
    OBVIOUS
  <1> USE TimeAssumption, Bounds
  <1> DEFINE m == Head(waiting)
  <1>1. m \in Message /\ waiting' = Tail(waiting) /\ Tail(waiting) \in Seq(Message)
    BY TakeKeeps DEF Note, Taken, IInv, Typed
  <1>2. pc = "data" /\ m.kind \in {"note", "quiet"} /\ m.kind \in Kinds /\ m.age \in 0..AgeMax
        /\ lastCalc' = lastCalc /\ sensing' = sensing /\ queued' = queued /\ since' = since
    BY <1>1 DEF Note, Taken, Message
  <1>3. ~Calculating
    BY <1>2 DEF Calculating
  <1>4. CASE Exceeds(Due(m))
    <2>1. rendered' = 0 /\ last' = 0 /\ fresh' = TRUE /\ played' = TRUE
          /\ pc' = pc /\ event' = event
      BY <1>4 DEF Note, Rebase
    <2>2. Typed'
      BY <1>1, <1>2, <2>1 DEF IInv, Typed
    <2>3. AheadIsQueued' /\ Covered' /\ LastAhead' /\ Reached'
      BY <1>2, <2>1 DEF IInv, Typed, AheadIsQueued, Covered, LastAhead, Reached, Behind, Sooner
    <2>4. Playing' /\ CameSince'
      BY <1>2, <2>1 DEF Playing, CameSince, Calculating
    <2> QED
      BY <2>2, <2>3, <2>4 DEF IInv
  <1>5. CASE ~Exceeds(Due(m))
    <2>1. pc' = "play" /\ event' = [kind |-> m.kind, at |-> Due(m), from |-> "data"]
          /\ rendered' = rendered /\ last' = last /\ played' = played /\ fresh' = fresh
      BY <1>5 DEF Note
    <2>2. Due(m) \in Int /\ Due(m) <= Latency
      BY <1>2 DEF Due
    <2>3. event' \in Event
      BY <1>2, <2>1, <2>2 DEF Event
    <2>4. Typed'
      BY <1>1, <1>2, <2>1, <2>3 DEF IInv, Typed
    <2>5. Playing' /\ CameSince'
      BY <1>2, <2>1, <2>2 DEF Playing, CameSince, Calculating
    <2>6. AheadIsQueued' /\ Covered' /\ LastAhead' /\ Reached'
      BY <1>2, <1>3, <2>1
      DEF IInv, Typed, AheadIsQueued, Covered, LastAhead, Reached, Behind, Sooner
    <2> QED
      BY <2>4, <2>5, <2>6 DEF IInv
  <1> QED
    BY <1>4, <1>5

\* A new time base keeps what is said of the times, wherever the loop goes on but
\* to rtsyn_play_calculate.
LEMMA ServerResetKeeps ==
    ASSUME IInv, ServerReset, since' = since, pc' # "calc", ~Calculating'
    PROVE  AheadIsQueued' /\ Covered' /\ LastAhead' /\ Reached'
  <1> USE TimeAssumption, Bounds
  <1>1. since \in Nat /\ rendered' = 0 /\ last' = Latency /\ queued' = 0 /\ fresh' = TRUE
    BY DEF IInv, Typed, ServerReset
  <1> QED
    BY <1>1 DEF AheadIsQueued, Covered, LastAhead, Reached, Behind, Sooner

LEMMA ResetKeeps == IInv /\ Reset => IInv'
  <1> SUFFICES ASSUME IInv, Reset PROVE IInv'
    OBVIOUS
  <1> USE TimeAssumption, Bounds
  <1> DEFINE m == Head(waiting)
  <1>1. m \in Message /\ waiting' = Tail(waiting) /\ Tail(waiting) \in Seq(Message)
    BY TakeKeeps DEF Reset, Taken, IInv, Typed
  <1>2. /\ m.kind = "reset" /\ m.kind \in Kinds /\ m.age \in 0..AgeMax
        /\ pc' = "play" /\ event' = [kind |-> "reset", at |-> Due(m), from |-> "data"]
        /\ played' = played /\ sensing' = sensing /\ since' = since /\ ServerReset
    BY <1>1 DEF Reset, Message
  <1>3. Due(m) \in Int /\ Due(m) <= Latency
    BY <1>2 DEF Due
  <1>4. event' \in Event
    BY <1>2, <1>3 DEF Event
  <1>5. Typed'
    BY <1>1, <1>2, <1>4 DEF IInv, Typed, ServerReset
  <1>6. Playing' /\ CameSince' /\ ~Calculating'
    BY <1>2, <1>3 DEF Playing, CameSince, Calculating
  <1> QED
    BY <1>2, <1>5, <1>6, ServerResetKeeps DEF IInv

LEMMA SensingKeeps == IInv /\ Sensing => IInv'
  <1> SUFFICES ASSUME IInv, Sensing PROVE IInv'
    OBVIOUS
  <1> USE TimeAssumption, Bounds
  <1>1. waiting' \in Seq(Message) /\ pc = "data"
    BY TakeKeeps DEF Sensing, Taken, IInv, Typed
  <1>2. Typed'
    BY <1>1 DEF Sensing, IInv, Typed
  <1>3. AheadIsQueued' /\ Playing' /\ Covered' /\ LastAhead' /\ Reached' /\ CameSince'
    BY <1>1 DEF Sensing, IInv, AheadIsQueued, Playing, Calculating, Covered, LastAhead,
                Reached, Behind, CameSince
  <1> QED
    BY <1>2, <1>3 DEF IInv

LEMMA NoDataKeeps == IInv /\ NoData => IInv'
  <1> SUFFICES ASSUME IInv, NoData PROVE IInv'
    OBVIOUS
  <1> USE TimeAssumption, Bounds
  <1>1. pc' = "calc" /\ since' = 0 /\ waiting' = <<>>
    BY DEF NoData
  <1>2. Typed'
    BY <1>1, EmptySeq DEF NoData, IInv, Typed
  <1>3. AheadIsQueued' /\ Playing' /\ Covered' /\ LastAhead' /\ Reached' /\ CameSince'
    BY <1>1 DEF NoData, IInv, AheadIsQueued, Playing, Calculating, Covered, LastAhead,
                Reached, CameSince
  <1> QED
    BY <1>2, <1>3 DEF IInv

LEMMA CalculateKeeps == IInv /\ Calculate => IInv'
  <1> SUFFICES ASSUME IInv, Calculate PROVE IInv'
    OBVIOUS
  <1> USE TimeAssumption, Bounds
  <1>1. pc = "calc" /\ waiting' = waiting /\ sensing' = sensing /\ queued' = queued
        /\ since' = since /\ since \in Nat /\ last \in Int /\ rendered \in Int
        /\ last <= Latency /\ rendered + Latency >= last
    BY DEF Calculate, IInv, Typed, AheadIsQueued, Covered
  <1>2. \A i \in DOMAIN waiting : waiting[i].age <= since
    BY <1>1 DEF IInv, CameSince
  <1>3. CameSince'
    BY <1>1, <1>2 DEF CameSince
  <1>4. MaxCompute' = MaxCompute /\ AgeMax' = AgeMax
    BY DEF MaxCompute, AgeMax
  <1>5. CASE ~Calculates
    <2>1. pc' = "sense" /\ played' = FALSE /\ event' = event /\ rendered' = rendered
          /\ last' = last /\ lastCalc' = lastCalc /\ fresh' = fresh
      BY <1>5 DEF Calculate
    <2>2. last >= 2
      BY <1>1, <1>5 DEF Calculates, NearMiss
    <2>3. Typed'
      BY <1>1, <2>1 DEF IInv, Typed
    <2>4. AheadIsQueued' /\ Playing' /\ Covered' /\ LastAhead'
      BY <1>1, <2>1, <2>2
      DEF IInv, AheadIsQueued, Playing, Calculating, Covered, LastAhead
    <2>5. Reached'
      BY <1>1, <2>1, <2>2 DEF Reached, Behind, Sooner
    <2> QED
      BY <1>3, <2>3, <2>4, <2>5 DEF IInv
  <1>6. CASE Calculates /\ Exceeds(Latency)
    <2>1. pc' = "sense" /\ played' = FALSE /\ event' = event /\ rendered' = 0 /\ last' = 0
          /\ fresh' = TRUE /\ lastCalc' = Latency
      BY <1>6 DEF Calculate, Rebase
    <2>2. Typed'
      <3>1. lastCalc' \in 0..Latency /\ rendered' \in Int /\ last' \in Int
        BY <2>1
      <3>2. played' \in BOOLEAN /\ fresh' \in BOOLEAN
        BY <2>1, Zenon
      <3> QED
        BY <1>1, <2>1, <3>1, <3>2 DEF IInv, Typed
    <2>3. AheadIsQueued' /\ Playing' /\ Covered' /\ LastAhead'
      BY <1>1, <2>1
      DEF IInv, Typed, AheadIsQueued, Playing, Calculating, Covered, LastAhead
    <2>4. Reached'
      BY <1>1, <2>1 DEF Reached, Behind, Sooner
    <2> QED
      BY <1>3, <2>2, <2>3, <2>4 DEF IInv
  <1>7. CASE Calculates /\ ~Exceeds(Latency)
    <2>1. pc' = "play" /\ event' = [kind |-> "calc", at |-> Latency, from |-> "calc"]
          /\ rendered' = rendered /\ last' = last /\ lastCalc' = lastCalc
          /\ played' = played /\ fresh' = fresh
      BY <1>7 DEF Calculate
    <2>2. Latency - last <= MaxCompute
      BY <1>1, <1>7 DEF Exceeds
    <2>3. event' \in Event
      BY <2>1 DEF Event
    <2>4. Typed'
      BY <1>1, <2>1, <2>3 DEF IInv, Typed
    <2>5. AheadIsQueued' /\ Covered'
      BY <1>1, <2>1 DEF IInv, AheadIsQueued, Covered
    <2>6. Playing' /\ LastAhead'
      BY <1>1, <2>1 DEF Playing, Calculating, LastAhead
    <2>7. Reached'
      <3>1. rendered + MaxCompute >= 0
        BY <1>1, <2>2
      <3> QED
        BY <1>1, <1>4, <2>1, <3>1 DEF Reached, Behind, Sooner
    <2> QED
      BY <1>3, <2>4, <2>5, <2>6, <2>7 DEF IInv
  <1> QED
    BY <1>5, <1>6, <1>7

LEMMA ExpireKeeps == IInv /\ Expire => IInv'
  <1> SUFFICES ASSUME IInv, Expire PROVE IInv'
    OBVIOUS
  <1> USE TimeAssumption, Bounds
  <1>1. pc = "sense" /\ pc' = "key" /\ since' = since /\ ServerReset /\ waiting' = waiting
    BY DEF Expire
  <1>2. Typed'
    BY <1>1 DEF Expire, ServerReset, IInv, Typed
  <1>3. Playing' /\ CameSince' /\ ~Calculating'
    BY <1>1 DEF IInv, Playing, CameSince, Calculating
  <1> QED
    BY <1>1, <1>2, <1>3, ServerResetKeeps DEF IInv

LEMMA NotExpiredKeeps == IInv /\ (NotExpired \/ NoKey) => IInv'
  <1> SUFFICES ASSUME IInv, NotExpired \/ NoKey PROVE IInv'
    OBVIOUS
  <1>1. /\ pc \in {"sense", "key"} /\ pc' \in {"key", "data"} /\ (pc' = "key" => pc = "sense")
        /\ UNCHANGED <<waiting, event, rendered, last, lastCalc, played, sensing, queued,
                       since, fresh>>
    BY DEF NotExpired, NoKey
  <1>2. Typed' /\ AheadIsQueued' /\ Covered'
    BY <1>1 DEF IInv, Typed, AheadIsQueued, Covered
  <1>3. Playing' /\ LastAhead' /\ Reached' /\ CameSince'
    BY <1>1 DEF IInv, Playing, Calculating, LastAhead, Reached, Behind, CameSince
  <1> QED
    BY <1>2, <1>3 DEF IInv

LEMMA KeyKeeps == IInv /\ Key => IInv'
  <1> SUFFICES ASSUME IInv, Key PROVE IInv'
    OBVIOUS
  <1> USE TimeAssumption, Bounds
  <1>1. pc' = "data" /\ since' = since /\ ServerReset
    BY DEF Key
  <1>2. Typed'
    BY <1>1 DEF Key, ServerReset, IInv, Typed
  <1>3. Playing' /\ CameSince' /\ ~Calculating'
    BY <1>1 DEF Playing, CameSince, Calculating
  <1> QED
    BY <1>1, <1>2, <1>3, ServerResetKeeps DEF IInv

LEMMA ReceiveMessageKeeps == IInv /\ (\E kind \in Kinds : Receive(kind)) => IInv'
  <1> SUFFICES ASSUME IInv, NEW kind \in Kinds, Receive(kind) PROVE IInv'
    OBVIOUS
  <1> USE TimeAssumption, Bounds
  <1> DEFINE m == [kind |-> kind, age |-> 0]
  <1>1. m \in Message /\ m.age = 0 /\ since \in Nat
    BY DEF Message, IInv, Typed
  <1>2. waiting' = Accepted(m)
        /\ UNCHANGED <<pc, event, rendered, last, lastCalc, played, sensing, queued,
                       since, fresh>>
    BY DEF Receive
  <1> HIDE DEF m
  <1>3. waiting' \in Seq(Message)
        /\ \A i \in DOMAIN waiting' :
              \/ i \in DOMAIN waiting /\ waiting'[i] = waiting[i]
              \/ waiting'[i] = m
    BY <1>1, <1>2, ReceiveKeeps DEF IInv, Typed
  <1>4. Typed'
    BY <1>2, <1>3 DEF IInv, Typed
  <1>5. AheadIsQueued' /\ Covered' /\ Playing' /\ LastAhead' /\ Reached'
    BY <1>2 DEF IInv, AheadIsQueued, Covered, Playing, Calculating, LastAhead, Reached, Behind
  <1>6. CameSince'
    BY <1>1, <1>2, <1>3 DEF IInv, CameSince, Calculating
  <1> QED
    BY <1>4, <1>5, <1>6 DEF IInv

\* A tick makes the messages older, and leaves them as they are otherwise.
LEMMA AgedMessages ==
    ASSUME waiting \in Seq(Message), \A i \in DOMAIN waiting : waiting[i].age < AgeMax,
           waiting' = [i \in DOMAIN waiting |-> [waiting[i] EXCEPT !.age = @ + 1]]
    PROVE  /\ waiting' \in Seq(Message) /\ DOMAIN waiting' = DOMAIN waiting
           /\ \A i \in DOMAIN waiting : waiting'[i].age = waiting[i].age + 1
  <1>1. DOMAIN waiting = 1..Len(waiting) /\ Len(waiting) \in Nat
        /\ \A i \in DOMAIN waiting : waiting[i] \in Message
    BY ElementOfSeq, LenProperties
  <1>2. ASSUME NEW i \in DOMAIN waiting
        PROVE  /\ [waiting[i] EXCEPT !.age = @ + 1] \in Message
               /\ waiting'[i] = [waiting[i] EXCEPT !.age = @ + 1]
               /\ waiting'[i].age = waiting[i].age + 1
    <2>1. waiting[i] \in [kind : Kinds, age : 0..AgeMax] /\ waiting[i].age < AgeMax
      BY <1>1 DEF Message
    <2>2. waiting[i].age \in Nat /\ waiting[i].age + 1 \in 0..AgeMax
      BY <2>1, Bounds
    <2>3. waiting'[i] = [waiting[i] EXCEPT !.age = @ + 1]
      OBVIOUS
    <2>4. [waiting[i] EXCEPT !.age = @ + 1] \in [kind : Kinds, age : 0..AgeMax]
      BY <2>1, <2>2
    <2>5. [waiting[i] EXCEPT !.age = @ + 1].age = waiting[i].age + 1
      BY <2>1
    <2> QED
      BY <2>3, <2>4, <2>5 DEF Message
  <1>3. waiting' \in [1..Len(waiting) -> Message]
    BY <1>1, <1>2
  <1> QED
    BY <1>1, <1>2, <1>3, IsASeq

\* A tick brings the event nearer.
LEMMA NearerEvent ==
    ASSUME event \in Event,
           event' = IF event = NoEvent THEN NoEvent ELSE [event EXCEPT !.at = @ - 1]
    PROVE  /\ event' \in Event /\ event'.from = event.from /\ event'.kind = event.kind
           /\ event.kind # "none" => event'.at = event.at - 1
  <1>1. CASE event = NoEvent
    BY <1>1 DEF NoEvent
  <1>2. CASE event # NoEvent
    BY <1>2 DEF Event
  <1> QED
    BY <1>1, <1>2

LEMMA TickKeeps == IInv /\ Tick => IInv'
  <1> SUFFICES ASSUME IInv, Tick PROVE IInv'
    OBVIOUS
  <1> USE TimeAssumption, Bounds
  <1>1. waiting \in Seq(Message) /\ event \in Event /\ rendered \in Int /\ last \in Int
        /\ lastCalc \in 0..Latency /\ sensing \in -1..(SenseMax + 1) /\ queued \in 0..QueueMax
        /\ since \in 0..AgeMax
    BY DEF IInv, Typed
  <1>2. /\ rendered' = rendered - 1 /\ last' = last - 1 /\ lastCalc' = Later(lastCalc - 1, 0)
        /\ queued' = Later(queued - 1, 0) /\ since' = Sooner(since + 1, AgeMax)
        /\ pc' = pc /\ played' = played /\ fresh' = fresh
    BY DEF Tick
  <1>3. waiting' \in Seq(Message) /\ DOMAIN waiting' = DOMAIN waiting
        /\ \A i \in DOMAIN waiting : waiting'[i].age = waiting[i].age + 1
    BY <1>1, AgedMessages DEF Tick
  <1>4. /\ event' \in Event /\ event'.from = event.from /\ event'.kind = event.kind
        /\ event.kind # "none" => event'.at = event.at - 1
    BY <1>1, NearerEvent DEF Tick
  <1>5. /\ queued' \in 0..QueueMax /\ since' \in 0..AgeMax /\ lastCalc' \in 0..Latency
        /\ sensing' \in -1..(SenseMax + 1)
    <2>1. queued' \in 0..QueueMax /\ lastCalc' \in 0..Latency
      BY <1>1, <1>2 DEF Later
    <2>2. since' \in 0..AgeMax
      <3>1. since + 1 \in Nat
        BY <1>1
      <3> QED
        BY <1>2, <3>1, SoonerOne
    <2>3. sensing' \in -1..(SenseMax + 1)
      <3>1. sensing' = IF sensing = -1 THEN -1 ELSE Sooner(sensing + 1, SenseMax + 1)
        BY DEF Tick
      <3>2. CASE sensing = -1
        BY <3>1, <3>2
      <3>3. CASE sensing # -1
        <4>1. sensing + 1 \in Nat /\ SenseMax + 1 \in Nat
          BY <1>1, <3>3
        <4>2. sensing' \in 0..(SenseMax + 1)
          BY <3>1, <3>3, <4>1, SoonerOne
        <4> QED
          BY <4>1, <4>2
      <3> QED
        BY <3>2, <3>3
    <2> QED
      BY <2>1, <2>2, <2>3
  <1>6. (since' = since + 1 \/ since' = AgeMax) /\ Calculating' = Calculating
        /\ AgeMax' = AgeMax
    BY <1>1, <1>2, <1>4 DEF Sooner, Calculating, AgeMax, MaxCompute
  <1>7. Typed'
    BY <1>1, <1>2, <1>3, <1>4, <1>5 DEF IInv, Typed
  <1>8. AheadIsQueued'
    BY <1>1, <1>2 DEF IInv, AheadIsQueued, Later
  <1>9. Covered'
    BY <1>1, <1>2 DEF IInv, Covered
  <1>10. Playing'
    <2>1. CASE pc = "play"
      <3>1. event.kind # "none" /\ event.at \in Int /\ event.at <= Latency
        BY <1>1, <2>1 DEF IInv, Playing, Event
      <3>2. event'.at = event.at - 1 /\ event'.at <= Latency
        BY <1>4, <3>1
      <3>3. ASSUME Calculating
            PROVE  /\ event.kind = "calc" /\ last - 1 <= event.at - 1
                   /\ since' = AgeMax \/ event.at - 1 >= Latency - since'
        <4>1. event.kind = "calc" /\ last <= event.at
              /\ (since = AgeMax \/ event.at >= Latency - since)
          BY <3>3 DEF IInv, Playing
        <4>2. CASE since' = AgeMax
          BY <1>1, <3>1, <4>1, <4>2
        <4>3. CASE since' = since + 1 /\ since # AgeMax
          BY <1>1, <3>1, <4>1, <4>3
        <4> QED
          BY <1>1, <1>2, <1>6, <4>2, <4>3 DEF Sooner
      <3> QED
        BY <1>2, <1>4, <1>6, <3>1, <3>2, <3>3 DEF Playing
    <2>2. CASE pc # "play"
      BY <1>2, <2>2 DEF Playing, Calculating
    <2> QED
      BY <2>1, <2>2
  <1>11. LastAhead'
    <2>1. SUFFICES ASSUME pc # "calc", ~Calculating, since # AgeMax
          PROVE since' = AgeMax
                  \/ (last - 1 >= 0 - since' /\ (~fresh => last - 1 >= 2 - since'))
      BY <1>1, <1>2, <1>5, <1>6 DEF LastAhead, Sooner
    <2> QED
      BY <1>1, <1>6, <2>1 DEF IInv, LastAhead
  <1>12. Reached'
    <2>1. SUFFICES ASSUME pc # "calc" PROVE rendered - 1 + Behind' >= 0
      BY <1>2 DEF Reached
    <2>2. rendered + Behind >= 0
      BY <2>1 DEF IInv, Reached
    <2>3. since < PassMax \/ queued = QueueMax
      BY DEF Tick, Blocked
    <2> DEFINE b == Behind'
    <2>4. b >= Behind + 1
      <3> DEFINE s == since'   q == queued'
      <3>1. b = MaxCompute + Sooner(s, PassMax)
                  + (IF s > PassMax /\ q # QueueMax THEN 1 ELSE 0)
        BY DEF Behind, MaxCompute
      <3>2. s = Sooner(since + 1, AgeMax) /\ q = Later(queued - 1, 0)
        BY <1>2
      <3> HIDE DEF b, s, q
      <3>3. CASE since < PassMax
        <4>1. s = since + 1 /\ s <= PassMax
          BY <1>1, <3>2, <3>3 DEF Sooner
        <4>2. b = MaxCompute + s
          BY <1>1, <3>1, <4>1 DEF Sooner
        <4>3. Behind = MaxCompute + since
          BY <1>1, <3>3 DEF Behind, Sooner
        <4> QED
          BY <1>1, <4>1, <4>2, <4>3
      <3>4. CASE since >= PassMax /\ queued = QueueMax
        <4>1. s > PassMax /\ q # QueueMax
          BY <1>1, <3>2, <3>4 DEF Sooner, Later
        <4>2. s \in Nat
          BY <1>1, <3>2 DEF Sooner
        <4>3. b = MaxCompute + PassMax + 1
          BY <3>1, <4>1, <4>2 DEF Sooner
        <4>4. Behind = MaxCompute + PassMax
          BY <1>1, <3>4 DEF Behind, Sooner
        <4> QED
          BY <4>3, <4>4
      <3> QED
        BY <1>1, <2>3, <3>3, <3>4
    <2>5. Behind \in Nat /\ b \in Nat
      <3>1. Behind \in Nat
        BY BehindBound DEF IInv
      <3>2. MaxCompute' = MaxCompute
        BY DEF MaxCompute
      <3> QED
        BY <1>2, <1>5, <3>1, <3>2 DEF Behind, Sooner
    <2> HIDE DEF b
    <2>6. rendered - 1 + b >= 0
      BY <1>1, <2>2, <2>4, <2>5
    <2> QED
      BY <2>6 DEF b
  <1>13. CameSince'
    <2>1. SUFFICES ASSUME pc \in {"calc", "sense", "key"} \/ Calculating,
                          NEW i \in DOMAIN waiting
          PROVE  waiting[i].age + 1 <= since'
      BY <1>2, <1>3, <1>6 DEF CameSince
    <2>2. waiting[i].age <= since /\ waiting[i].age < AgeMax
      <3>1. \A j \in DOMAIN waiting : waiting[j].age <= since
        BY <2>1 DEF IInv, CameSince
      <3>2. \A j \in DOMAIN waiting : waiting[j].age < AgeMax
        BY DEF Tick
      <3> QED
        BY <3>1, <3>2
    <2>3. waiting[i].age \in Nat
      <3>1. waiting[i] \in Message
        BY <1>1, <2>1, ElementOfSeq, LenProperties
      <3> QED
        BY <3>1, Bounds DEF Message
    <2> DEFINE a == waiting[i].age
    <2>4. a \in Nat /\ a <= since /\ a < AgeMax
      BY <2>2, <2>3
    <2> HIDE DEF a
    <2>5. a + 1 <= since + 1 /\ a + 1 <= AgeMax
      BY <1>1, <2>4
    <2>6. since' = since + 1 \/ since' = AgeMax
      BY <1>6
    <2> QED
      BY <2>5, <2>6 DEF a
  <1> QED
    BY <1>7, <1>8, <1>9, <1>10, <1>11, <1>12, <1>13 DEF IInv

LEMMA InvStep == IInv /\ [Next]_vars => IInv'
  <1> SUFFICES ASSUME IInv, [Next]_vars PROVE IInv'
    OBVIOUS
  <1>1. CASE UNCHANGED vars
    BY <1>1 DEF vars, IInv, Typed, Message, Event, AheadIsQueued, Playing, Calculating, Covered,
                LastAhead, Reached, Behind, CameSince
  <1> QED
    BY <1>1, RenderKeeps, PlayedKeeps, NoteKeeps, ResetKeeps, SensingKeeps, NoDataKeeps,
       CalculateKeeps, ExpireKeeps, NotExpiredKeeps, KeyKeeps, TickKeeps, ReceiveMessageKeeps
    DEF Next, Loop

LEMMA InvAlways == Spec => []IInv
  BY InitSound, InvStep, PTL DEF Spec

-----------------------------------------------------------------------------
(* The properties.                                                           *)

\* What is rendered ahead of the clock is queued, and a pass of the loop leaves two
\* ticks rendered, or the base of the time is new (rtsyn_play_event_time,
\* rtsyn_play_calculate, rtsyn_server_reset).
THEOREM AlwaysRunsAhead == Spec => []RunsAhead
  <1>1. IInv => RunsAhead
    <2> SUFFICES ASSUME IInv PROVE RunsAhead
      OBVIOUS
    <2> USE TimeAssumption, Bounds
    <2>1. rendered \in Int /\ last \in Int /\ since \in 0..AgeMax
      BY DEF IInv, Typed
    <2>2. ASSUME pc # "play", pc # "calc", ~fresh PROVE rendered >= 2 - since
      <3>1. rendered >= last /\ (since = AgeMax \/ last >= 2 - since) /\ rendered + Behind >= 0
        BY <2>2 DEF IInv, Covered, LastAhead, Calculating, Reached
      <3>2. Behind \in Nat /\ Behind <= MaxCompute + PassMax + 1
        BY <2>1 DEF Behind, Sooner
      <3> QED
        BY <2>1, <3>1, <3>2
    <2> QED
      BY <2>2, TypesOK DEF IInv, RunsAhead, KeepsAhead
  <1> QED
    BY <1>1, InvAlways, PTL

\* A note is dropped only when the loop was away for longer than what is rendered
\* lasts and stream_max_compute exceeds the latency (rtsyn_play_event_time).
THEOREM OnlyLateDropped == Spec => []DropsOnlyLate
  <1>1. IInv => DropsOnlyLate
    <2> SUFFICES ASSUME IInv, pc = "data", waiting # <<>>, Exceeds(Due(Head(waiting)))
        PROVE  since > Later(StreamMax - Latency, 0) + (IF fresh THEN 0 ELSE 2)
      BY DEF DropsOnlyLate
    <2> USE TimeAssumption, Bounds
    <2> DEFINE d == Later(StreamMax - Latency, 0)   m == Head(waiting)
    <2>1. m \in Message
      BY TakeKeeps DEF IInv, Typed
    <2>2. m.age \in Nat /\ last \in Int /\ since \in 0..AgeMax /\ d \in Nat
          /\ MaxCompute = Latency + d
      BY <2>1 DEF Message, IInv, Typed, Later
    <2>3. last < 0 - d
      <3> DEFINE a == m.age
      <3>1. a \in Nat /\ (Latency - a) - last > MaxCompute
        BY <2>2 DEF Exceeds, Due
      <3> HIDE DEF a, m, d
      <3> QED
        BY <2>2, <3>1
    <2>4. since = AgeMax \/ (last >= 0 - since /\ (~fresh => last >= 2 - since))
      BY DEF IInv, LastAhead, Calculating
    <2> HIDE DEF d
    <2>5. since > d /\ (~fresh => since > d + 2)
      BY <2>2, <2>3, <2>4
    <2> QED
      BY <2>2, <2>5 DEF d
  <1> QED
    BY <1>1, InvAlways, PTL

\* When active sensing expires, every 0xFE that waits came after the last look at the
\* input (rtsyn_play_calculate).
THEOREM ExpiresOnlyInSilence == Spec => []ExpiresInSilence
  <1>1. IInv => ExpiresInSilence
    BY DEF IInv, CameSince, ExpiresInSilence
  <1> QED
    BY <1>1, InvAlways, PTL
=============================================================================
