------------------------- MODULE WinThreads_proofs --------------------------
(* Proofs about what the threads of the Windows synthesizer hand to each     *)
(* other.  MidiInput: for every size of the ring and every set of messages    *)
(* the ring is the queue of InputQueue, a header has one holder, and only an  *)
(* overflow loses one.  SynthControl: for every number of places for commands *)
(* no pass begins while the preferences are applied.                          *)
EXTENDS MCWaits, TLAPS, SequenceTheorems

\* How many messages a take finds: all slots of an empty ring.
Reach == IF Count = 0 THEN Size ELSE Count

\* Where the waiting messages are: the slots from the one that is read next to
\* the one before that which is written next.
LEMMA Window ==
    ASSUME TypeOK
    PROVE  /\ Count \in 0..(Size - 1)
           /\ \A i \in 1..Count : Slot(i) \in Slots /\ Slot(i) # evbwpoint
           /\ \A i, j \in 1..Count : Slot(i) = Slot(j) => i = j
           /\ Count > 0 => Slot(1) = evbrpoint
           /\ Count = 0 <=> evbrpoint = evbwpoint
  BY InputAssumption DEF TypeOK, Slots, Count, Slot

LEMMA StepType == ASSUME NEW p \in Slots PROVE Step(p) \in Slots
  BY InputAssumption DEF Slots, Step

\* What a delivery does to the window: it takes the next slot, or empties all.
LEMMA StoreWindow ==
    ASSUME TypeOK, NEW m \in Messages, Store(m)
    PROVE  /\ Count < Size - 1 =>
                /\ Count' = Count + 1
                /\ \A i \in 1..Count : Slot(i)' = Slot(i) /\ evbuf'[Slot(i)] = evbuf[Slot(i)]
                /\ \A n \in 1..Size : n = Count + 1 => Slot(n)' = evbwpoint
                /\ evbuf'[evbwpoint] = m
           /\ Count = Size - 1 =>
                /\ Count' = 0
                /\ \A i \in 1..Count : Slot(i)' = Slot(i) /\ evbuf'[Slot(i)] = evbuf[Slot(i)]
                /\ Slot(Size)' = evbwpoint
                /\ evbuf'[evbwpoint] = m
<1>1. evbuf' = [evbuf EXCEPT ![evbwpoint] = m] /\ evbwpoint' = Step(evbwpoint) /\ evbrpoint' = evbrpoint
  BY DEF Store
<1>2. Count < Size - 1 => Count' = Count + 1
  BY <1>1, InputAssumption DEF TypeOK, Slots, Count, Step
<1>7. \A n \in 1..Size : n = Count + 1 => Slot(n)' = evbwpoint
  BY <1>1, InputAssumption DEF TypeOK, Slots, Count, Slot
<1>3. \A i \in 1..Count : Slot(i)' = Slot(i)
  BY <1>1 DEF Slot
<1>4. \A i \in 1..Count : evbuf'[Slot(i)] = evbuf[Slot(i)]
  BY <1>1, Window DEF TypeOK
<1>5. evbuf'[evbwpoint] = m
  BY <1>1 DEF TypeOK
<1>6. Count = Size - 1 => Count' = 0 /\ Slot(Size)' = evbwpoint
  BY <1>1, InputAssumption DEF TypeOK, Slots, Count, Step, Slot
<1>. QED
  BY <1>2, <1>3, <1>4, <1>5, <1>6, <1>7

\* What a take does to the window: it gives up the first slot, and one of a ring that
\* was lapped makes the others wait again.
LEMMA TakeWindow ==
    ASSUME TypeOK, Take
    PROVE  /\ Count' = Reach - 1
           /\ \A i \in 1..(Reach - 1) : Slot(i)' = Slot(i + 1)
           /\ evbuf' = evbuf /\ hand' = evbuf[Slot(1)]
<1>1. evbrpoint' = Step(evbrpoint) /\ evbwpoint' = evbwpoint /\ evbuf' = evbuf
  BY DEF Take
<1>2. Count' = Reach - 1
  BY <1>1, InputAssumption DEF TypeOK, Slots, Count, Step, Reach
<1>3. \A i \in 1..(Reach - 1) : Slot(i)' = Slot(i + 1)
  BY <1>1, InputAssumption DEF TypeOK, Slots, Count, Slot, Step, Reach
<1>4. Slot(1) = evbrpoint
  BY InputAssumption DEF TypeOK, Slots, Slot
<1>. QED
  BY <1>1, <1>2, <1>3, <1>4 DEF Take

-----------------------------------------------------------------------------
(* Types.                                                                    *)

\* The message in hand is played before the ports are closed, and before the next is
\* looked for.
Idle ==
    /\ port # "open" => hand = None
    /\ looked => port = "open" /\ hand = None

LEMMA TypeInit == Init => TypeOK /\ Idle
<1>1. Init => looked \in BOOLEAN
  BY Zenon DEF Init
<1>. QED
  BY <1>1, InputAssumption DEF Init, TypeOK, Idle, Slots

LEMMA StoreType ==
    ASSUME TypeOK, NEW m \in Messages, Store(m)
    PROVE  /\ evbuf' \in [Slots -> Messages \cup {None}]
           /\ evbwpoint' \in Slots /\ evbrpoint' \in Slots
  BY StepType DEF TypeOK, Store

LEMMA TypeStep == ASSUME TypeOK, Idle, [Next]_vars PROVE TypeOK' /\ Idle'
<1>1. CASE Start
  BY <1>1, InputAssumption DEF Start, TypeOK, Idle, Slots
<1>2. ASSUME NEW m \in Shorts, Short(m) PROVE TypeOK' /\ Idle'
  BY <1>2, StoreType DEF Short, Store, TypeOK, Idle, Messages
<1>3. ASSUME NEW h \in Headers, Long(h) PROVE TypeOK' /\ Idle'
  BY <1>3, StoreType DEF Long, Store, TypeOK, Idle, Messages
<1>4. CASE Take
  <2>1. evbuf[evbrpoint] \in Messages \cup {None} /\ Step(evbrpoint) \in Slots
    BY StepType DEF TypeOK
  <2>. QED
    BY <1>4, <2>1 DEF Take, TypeOK, Idle
<1>5. CASE Finish
  BY <1>5 DEF Finish, TypeOK, Idle
<1>6. CASE Return
  BY <1>6 DEF Return, TypeOK, Idle
<1>7. CASE Close
  BY <1>7 DEF Close, TypeOK, Idle
<1>8. CASE UNCHANGED vars
  BY <1>8 DEF vars, TypeOK, Idle
<1>9. CASE Look
  BY <1>9 DEF Look, TypeOK, Idle
<1>. QED
  BY <1>1, <1>2, <1>3, <1>4, <1>5, <1>6, <1>7, <1>8, <1>9 DEF Next

-----------------------------------------------------------------------------
(* The ring is a queue.                                                      *)

LEMMA ContentsSeq ==
    ASSUME TypeOK
    PROVE  Contents \in Seq(Messages \cup {None}) /\ Len(Contents) = Count
<1>1. Count \in Nat
  BY Window, InputAssumption
<1>2. \A i \in 1..Count : evbuf[Slot(i)] \in Messages \cup {None}
  BY Window DEF TypeOK
<1>. QED
  BY <1>1, <1>2 DEF Contents

\* Append and Tail as functions.
LEMMA SeqForms ==
    ASSUME NEW S, NEW s \in Seq(S), NEW e \in S
    PROVE  /\ Append(s, e) = [i \in 1..(Len(s) + 1) |->
                                IF i \in 1..Len(s) THEN s[i] ELSE e]
           /\ s # <<>> => /\ Head(s) = s[1]
                          /\ Tail(s) = [i \in 1..(Len(s) - 1) |-> s[i + 1]]
<1>1. \A t \in Seq(S) : t = [i \in 1..Len(t) |-> t[i]]
  OBVIOUS
<1>2. Append(s, e) = [i \in 1..(Len(s) + 1) |-> Append(s, e)[i]]
  <2>1. Append(s, e) \in Seq(S) /\ Len(Append(s, e)) = Len(s) + 1
    BY AppendProperties
  <2>. QED
    BY <1>1, <2>1, Zenon
<1>3. \A i \in 1..(Len(s) + 1) : Append(s, e)[i] = IF i \in 1..Len(s) THEN s[i] ELSE e
  BY AppendProperties
<1>4. s # <<>> => Tail(s) = [i \in 1..(Len(s) - 1) |-> Tail(s)[i]]
  BY <1>1, HeadTailProperties
<1>5. s # <<>> => \A i \in 1..(Len(s) - 1) : Tail(s)[i] = s[i + 1]
  BY HeadTailProperties
<1>6. s # <<>> => Head(s) = s[1]
  OBVIOUS
<1>. QED
  BY <1>2, <1>3, <1>4, <1>5, <1>6

LEMMA StoreIsReceive ==
    ASSUME TypeOK, TypeOK', NEW m \in Messages, Store(m)
    PROVE  Queue!Accept(m)
<1>0. Contents \in Seq(Messages \cup {None}) /\ Len(Contents) = Count /\ Count \in 0..(Size - 1)
  BY ContentsSeq, Window
<1>1. Append(Contents, m) =
        [i \in 1..(Count + 1) |-> IF i \in 1..Count THEN evbuf[Slot(i)] ELSE m]
  <2>1. Append(Contents, m) = [i \in 1..(Len(Contents) + 1) |->
                                 IF i \in 1..Len(Contents) THEN Contents[i] ELSE m]
    BY <1>0, SeqForms
  <2>2. \A i \in 1..Count : Contents[i] = evbuf[Slot(i)]
    BY DEF Contents
  <2>. QED
    BY <1>0, <2>1, <2>2
<1>2. ASSUME NEW i \in 1..(Count + 1)
      PROVE  evbuf'[Slot(i)'] = IF i \in 1..Count THEN evbuf[Slot(i)] ELSE m
  <2>1. Count < Size - 1 \/ Count = Size - 1
    BY <1>0, InputAssumption
  <2>2. CASE i \in 1..Count
    BY <2>1, <2>2, StoreWindow
  <2>3. CASE i \notin 1..Count
    <3>1. i = Count + 1 /\ i \in 1..Size
      BY <1>0, <2>3, InputAssumption
    <3>2. Slot(i)' = evbwpoint
      <4>1. CASE Count < Size - 1
        BY <3>1, <4>1, StoreWindow
      <4>2. CASE Count = Size - 1
        <5>1. i = Size
          BY <3>1, <4>2, InputAssumption
        <5>. QED
          BY <4>2, <5>1, StoreWindow
      <4>. QED
        BY <2>1, <4>1, <4>2
    <3>. QED
      BY <2>1, <2>3, <3>2, StoreWindow
  <2>. QED
    BY <2>2, <2>3
<1>3. CASE Count < Size - 1
  <2>1. Count' = Count + 1
    BY <1>3, StoreWindow
  <2>2. Contents' = Append(Contents, m)
    BY <1>1, <1>2, <2>1 DEF Contents
  <2>3. Lapped' = <<>>
    BY <1>0, <2>1 DEF Lapped, Lap
  <2>. QED
    BY <1>0, <1>3, <2>2, <2>3 DEF Queue!Accept
<1>4. CASE Count = Size - 1
  <2>1. Count' = 0 /\ Count + 1 = Size
    BY <1>4, StoreWindow, InputAssumption
  <2>4. looked' = looked
    BY DEF Store
  <2>2. Contents' = <<>>
    BY <2>1 DEF Contents
  <2>3. Lapped' = IF looked THEN Append(Contents, m) ELSE <<>>
    BY <1>1, <1>2, <2>1, <2>4 DEF Lapped, Lap
  <2>. QED
    BY <1>0, <1>4, <2>2, <2>3 DEF Queue!Accept
<1>. QED
  BY <1>0, <1>3, <1>4, InputAssumption

LEMMA TakeIsTake == ASSUME TypeOK, Take PROVE Queue!Take
<1>. DEFINE Found == [i \in 1..Reach |-> evbuf[Slot(i)]]
<1>1. Reach \in 1..Size /\ \A i \in 1..Size : Slot(i) \in Slots
  BY InputAssumption DEF TypeOK, Slots, Count, Slot, Reach
<1>2. Found \in Seq(Messages \cup {None}) /\ Len(Found) = Reach /\ Found # <<>>
  <2>1. Reach \in Nat /\ 1 \in 1..Reach
    BY <1>1, InputAssumption
  <2>2. \A i \in 1..Reach : evbuf[Slot(i)] \in Messages \cup {None}
    BY <1>1, InputAssumption DEF TypeOK
  <2>. QED
    BY <2>1, <2>2
<1>3. hand' = Head(Found)
  BY <1>1, <1>2, TakeWindow, InputAssumption
<1>4. Contents' = Tail(Found)
  <2>1. Contents' = [i \in 1..(Reach - 1) |-> evbuf[Slot(i + 1)]]
    BY TakeWindow DEF Contents
  <2>2. \A i \in 1..(Reach - 1) : Found[i + 1] = evbuf[Slot(i + 1)]
    BY <1>1, InputAssumption
  <2>3. Tail(Found) = [i \in 1..(Reach - 1) |-> Found[i + 1]]
    <3>. HIDE DEF Found
    <3>. QED
      BY <1>2, SeqForms
  <2>. QED
    BY <2>1, <2>2, <2>3
<1>5. Found \in {Contents, Lapped} \ {<<>>}
  <2>1. Found = Contents \/ Found = Lapped
    BY DEF Take, Reach, Contents, Lapped, Lap
  <2>. QED
    BY <1>2, <2>1
<1>6. looked /\ ~looked' /\ looked' = FALSE
  BY DEF Take
<1>7. Lapped' = <<>>
  BY <1>6 DEF Lapped, Lap
<1>. HIDE DEF Found
<1>. QED
  BY <1>3, <1>4, <1>5, <1>6, <1>7 DEF Queue!Take

\* Every step of the ring is a step of the queue, or leaves the queue alone.
LEMMA QueueStep ==
    ASSUME TypeOK, Idle, TypeOK', [Next]_vars
    PROVE  [Queue!Next]_<<Contents, Lapped, looked, hand>>
<1>. USE DEF Contents, Lapped, Lap, Count, Slot
<1>1. CASE Start
  BY <1>1 DEF Start, Idle, Queue!Next, Queue!Forget
<1>2. ASSUME NEW m \in Messages, Store(m) PROVE Queue!Next
  <2>. HIDE DEF Contents, Lapped, Lap, Count, Slot
  <2>. QED
    BY <1>2, StoreIsReceive DEF Store, Queue!Next, Queue!Receive
<1>4. CASE Take
  BY <1>4, TakeIsTake DEF Queue!Next
<1>5. CASE Finish
  BY <1>5 DEF Finish, Queue!Next, Queue!Finish
<1>6. CASE Return
  BY <1>6 DEF Return
<1>7. CASE Close
  BY <1>7 DEF Close
<1>8. CASE UNCHANGED vars
  BY <1>8 DEF vars
<1>9. CASE Look
  <2>1. Count # 0 /\ Count' = Count /\ looked' /\ ~looked
    BY <1>9, InputAssumption DEF Look, TypeOK, Slots
  <2>2. Contents' = Contents /\ UNCHANGED hand /\ hand = None
    BY <1>9 DEF Look
  <2>3. Contents # <<>>
    <3>. HIDE DEF Contents, Lapped, Lap, Count, Slot
    <3>. QED
      BY <2>1, ContentsSeq
  <2>4. Lapped' = Lapped
    <3>. HIDE DEF Count
    <3>. QED
      BY <2>1
  <2>5. looked' = TRUE
    BY <1>9 DEF Look
  <2>. QED
    BY <2>2, <2>3, <2>4, <2>5 DEF Queue!Next, Queue!Look
<1>. QED
  <2>. HIDE DEF Contents, Lapped, Lap, Count, Slot
  <2>. QED
    BY <1>1, <1>2, <1>4, <1>5, <1>6, <1>7, <1>8, <1>9 DEF Next, Short, Long, Messages

\* For every ring and every set of messages: what MidiInProc stores comes to the
\* main loop in its order and once, and is lost only when the ring overflows.
THEOREM RingIsQueue == Spec => IsQueue
<1>1. Init => Queue!Init
  BY InputAssumption DEF Init, Queue!Init, Count, Contents, Lapped, Lap
<1>2. QED
  BY <1>1, TypeInit, TypeStep, QueueStep, PTL
     DEF Spec, IsQueue, Queue!Spec, Queue!vars

-----------------------------------------------------------------------------
(* A header has one holder.                                                  *)

LEMMA StoreWaits ==
    ASSUME TypeOK, NEW m \in Messages, Store(m), NEW h \in Headers
    PROVE  \A i \in Waits(h)' : i \in Waits(h) \/ (m = h /\ i = Count + 1)
<1>. SUFFICES ASSUME NEW i \in Waits(h)', i # Count + 1 \/ m # h
              PROVE  i \in Waits(h)
  OBVIOUS
<1>1. i \in 1..Count' /\ evbuf'[Slot(i)'] = h
  BY DEF Waits
<1>2. Count < Size - 1 /\ Count' = Count + 1
  BY <1>1, StoreWindow, Window, InputAssumption
<1>3. CASE i \in 1..Count
  BY <1>1, <1>2, <1>3, StoreWindow DEF Waits
<1>4. CASE i \notin 1..Count
  <2>1. i = Count + 1 /\ i \in 1..Size
    BY <1>1, <1>2, <1>4, Window, InputAssumption
  <2>. QED
    BY <1>1, <1>2, <2>1, StoreWindow
<1>. QED
  BY <1>3, <1>4

\* The places where a take finds h.
Finds(h) == {i \in 1..Reach : evbuf[Slot(i)] = h}

\* After a lap, too, a header is in one slot, and not with the driver.
LapOnce ==
    Lap => \A h \in Headers : /\ h \in driver => Finds(h) = {}
                             /\ \A i, j \in Finds(h) : i = j

LEMMA StoreFinds ==
    ASSUME TypeOK, NEW m \in Messages, Store(m), Lap', NEW h \in Headers
    PROVE  \A i \in Finds(h)' : i \in Waits(h) \/ (m = h /\ i = Size)
<1>1. Count = Size - 1
  BY StoreWindow, Window, InputAssumption DEF Lap
<1>. SUFFICES ASSUME NEW i \in Finds(h)' PROVE i \in Waits(h) \/ (m = h /\ i = Size)
  OBVIOUS
<1>2. i \in 1..Size /\ evbuf'[Slot(i)'] = h
  BY DEF Finds, Reach, Lap
<1>3. CASE i \in 1..Count
  BY <1>1, <1>2, <1>3, StoreWindow DEF Waits
<1>4. CASE i \notin 1..Count
  <2>1. i = Size
    BY <1>1, <1>2, <1>4, InputAssumption
  <2>. QED
    BY <1>1, <1>2, <2>1, StoreWindow
<1>. QED
  BY <1>3, <1>4

LEMMA TakeWaits ==
    ASSUME TypeOK, Take, NEW h \in Headers
    PROVE  /\ \A i \in Waits(h)' : i \in Nat /\ i + 1 \in Finds(h) /\ i + 1 # 1
           /\ hand' = h => 1 \in Finds(h)
<1>0. Reach \in Nat /\ Reach >= 1
  BY Window, InputAssumption DEF Reach
<1>1. ASSUME NEW i \in Waits(h)' PROVE i \in Nat /\ i + 1 \in Finds(h) /\ i + 1 # 1
  <2>1. i \in 1..Count' /\ evbuf'[Slot(i)'] = h
    BY DEF Waits
  <2>2. i \in 1..(Reach - 1) /\ i + 1 \in 1..Reach
    BY <1>0, <2>1, TakeWindow
  <2>3. evbuf[Slot(i + 1)] = h
    BY <2>1, <2>2, TakeWindow
  <2>. QED
    BY <2>2, <2>3 DEF Finds
<1>2. ASSUME hand' = h PROVE 1 \in Finds(h)
  BY <1>0, <1>2, TakeWindow DEF Finds
<1>. QED
  BY <1>1, <1>2

LEMMA LapStep ==
    ASSUME TypeOK, Idle, OneHolder, LapOnce, [Next]_vars
    PROVE  LapOnce'
<1>. SUFFICES ASSUME Lap', NEW h \in Headers
              PROVE  /\ h \in driver' => Finds(h)' = {}
                     /\ \A i, j \in Finds(h)' : i = j
  BY DEF LapOnce
<1>0. /\ h \in driver => Waits(h) = {}
      /\ \A i, j \in Waits(h) : i = j
  BY DEF OneHolder
<1>1. CASE Start
  BY <1>1 DEF Start, Idle, Lap
<1>2. ASSUME NEW m \in Shorts, Short(m)
      PROVE  (\A i \in Finds(h)' : i \in Waits(h)) /\ driver' = driver
  BY <1>2, StoreFinds, InputAssumption DEF Short, Messages
<1>3. ASSUME NEW g \in Headers, Long(g), g # h
      PROVE  (\A i \in Finds(h)' : i \in Waits(h)) /\ (h \in driver' <=> h \in driver)
  BY <1>3, StoreFinds DEF Long, Messages
<1>4. CASE Long(h)
  <2>1. \A i \in Finds(h)' : i = Size
    BY <1>0, <1>4, StoreFinds DEF Long, Messages
  <2>2. h \notin driver'
    BY <1>4 DEF Long
  <2>. QED
    BY <2>1, <2>2
<1>5. CASE Take
  BY <1>5 DEF Take, Lap
<1>6. CASE Finish
  BY <1>6, InputAssumption DEF Finish, Idle, Lap
<1>7. CASE Return \/ Close \/ UNCHANGED vars
  <2>1. Lap /\ Finds(h)' = Finds(h) /\ driver' = driver
    BY <1>7 DEF Return, Close, vars, Lap, Count, Finds, Reach, Slot
  <2>. QED
    BY <2>1 DEF LapOnce
<1>8. CASE Look
  <2>1. Count' = Count /\ Count # 0
    BY <1>8, Window DEF Look, Count
  <2>. QED
    BY <2>1 DEF Lap
<1>9. CASE \E m \in Shorts : Short(m)
  BY <1>0, <1>2, <1>9
<1>10. CASE \E g \in Headers : Long(g) /\ g # h
  BY <1>0, <1>3, <1>10
<1>. QED
  BY <1>1, <1>4, <1>5, <1>6, <1>7, <1>8, <1>9, <1>10 DEF Next

LEMMA HolderStep ==
    ASSUME TypeOK, Idle, OneHolder, LapOnce, TypeOK', [Next]_vars
    PROVE  OneHolder'
<1>. SUFFICES ASSUME NEW h \in Headers
              PROVE  /\ h \in driver' => hand' # h /\ Waits(h)' = {}
                     /\ hand' = h => Waits(h)' = {}
                     /\ \A i, j \in Waits(h)' : i = j
  BY DEF OneHolder
<1>0. /\ h \in driver => hand # h /\ Waits(h) = {}
      /\ hand = h => Waits(h) = {}
      /\ \A i, j \in Waits(h) : i = j
  BY DEF OneHolder
<1>1. CASE Start
  <2>1. Waits(h)' = {}
    BY <1>1 DEF Start, Waits, Count
  <2>. QED
    BY <1>1, <2>1, InputAssumption DEF Start, Idle
<1>2. ASSUME NEW m \in Shorts, Short(m)
      PROVE  \A i \in Waits(h)' : i \in Waits(h)
  BY <1>2, StoreWaits, InputAssumption DEF Short, Messages
<1>3. ASSUME NEW g \in Headers, Long(g), g # h
      PROVE  \A i \in Waits(h)' : i \in Waits(h)
  BY <1>3, StoreWaits DEF Long, Messages
<1>4. CASE Long(h)
  <2>1. \A i \in Waits(h)' : i = Count + 1
    BY <1>0, <1>4, StoreWaits DEF Long, Messages
  <2>. QED
    BY <1>0, <1>4, <2>1 DEF Long, Store
<1>5. CASE Take
  <2>0. (h \in driver => Finds(h) = {}) /\ \A i, j \in Finds(h) : i = j
    <3>1. CASE Count = 0
      BY <1>5, <3>1 DEF Take, Lap, LapOnce
    <3>2. CASE Count # 0
      <4>1. Finds(h) = Waits(h)
        BY <3>2 DEF Finds, Waits, Reach
      <4>. QED
        BY <1>0, <4>1
    <3>. QED
      BY <3>1, <3>2
  <2>1. \A i, j \in Waits(h)' : i = j
    BY <1>5, <2>0, TakeWaits
  <2>2. hand' = h => Waits(h)' = {}
    BY <1>5, <2>0, TakeWaits
  <2>3. h \in driver' => hand' # h /\ Waits(h)' = {}
    BY <1>5, <2>0, TakeWaits DEF Take
  <2>. QED
    BY <2>1, <2>2, <2>3
<1>6. CASE Finish
  BY <1>0, <1>6, InputAssumption DEF Finish, Waits, Count, Slot
<1>7. CASE Look \/ Return \/ Close \/ UNCHANGED vars
  BY <1>0, <1>7 DEF Look, Return, Close, vars, Waits, Count, Slot
<1>8. ASSUME NEW m \in Shorts, Short(m)
      PROVE  driver' = driver /\ hand' = hand
  BY <1>8 DEF Short, Store
<1>9. ASSUME NEW g \in Headers, Long(g), g # h
      PROVE  (h \in driver' <=> h \in driver) /\ hand' = hand
  BY <1>9 DEF Long, Store
<1>10. CASE \E m \in Shorts : Short(m)
  BY <1>0, <1>2, <1>8, <1>10
<1>11. CASE \E g \in Headers : Long(g) /\ g # h
  BY <1>0, <1>3, <1>9, <1>11
<1>. QED
  BY <1>1, <1>4, <1>5, <1>6, <1>7, <1>10, <1>11 DEF Next

\* For every ring: a header that the driver may fill is neither waiting nor
\* being played, and no header waits twice; the messages that a take finds again after
\* a lap (rtsyn_ws_play_some_data) bring no header into two places.
THEOREM HeaderHasOneHolder == Spec => []OneHolder
<1>1. Init => OneHolder /\ LapOnce
  BY InputAssumption DEF Init, OneHolder, Waits, Count, LapOnce, Lap
<1>. QED
  BY <1>1, TypeInit, TypeStep, LapStep, HolderStep, PTL DEF Spec

-----------------------------------------------------------------------------
(* No header is lost but by an overflow.                                     *)

\* A delivery that does not lap the ring leaves what waits where it is.
LEMMA StoreKeeps ==
    ASSUME TypeOK, NEW m \in Messages, Store(m), NEW h \in Headers, Count # Size - 1
    PROVE  /\ Waits(h) \subseteq Waits(h)'
           /\ m = h => Waits(h)' # {}
<1>1. Count \in 0..(Size - 1) /\ Size \in Nat
  BY Window, InputAssumption
<1>2. Count < Size - 1 /\ Count' = Count + 1
  BY <1>1, StoreWindow
<1>3. ASSUME NEW i \in Waits(h) PROVE i \in Waits(h)'
  <2>1. i \in 1..Count /\ evbuf[Slot(i)] = h
    BY DEF Waits
  <2>2. i \in 1..Count' /\ evbuf'[Slot(i)'] = h
    BY <1>1, <1>2, <2>1, StoreWindow
  <2>. QED
    BY <2>2 DEF Waits
<1>4. ASSUME m = h PROVE Waits(h)' # {}
  <2>1. PICK n \in 1..Size : n = Count + 1 /\ n \in 1..Count'
    BY <1>1, <1>2
  <2>2. evbuf'[Slot(n)'] = h
    BY <1>2, <1>4, <2>1, StoreWindow
  <2>. QED
    BY <2>1, <2>2 DEF Waits
<1>. QED
  BY <1>3, <1>4

\* What waits is in hand after a take, or one place nearer.
LEMMA TakeKeeps ==
    ASSUME TypeOK, Take, NEW h \in Headers, Waits(h) # {}
    PROVE  hand' = h \/ Waits(h)' # {}
<1>1. PICK i \in 1..Count : evbuf[Slot(i)] = h
  BY DEF Waits
<1>2. Count \in Nat /\ Count' = Count - 1 /\ Reach = Count
  BY <1>1, Window, TakeWindow, InputAssumption DEF Reach
<1>3. CASE i = 1
  BY <1>1, <1>3, TakeWindow
<1>4. CASE i # 1
  <2>1. i - 1 \in 1..(Reach - 1) /\ (i - 1) + 1 = i
    BY <1>2, <1>4
  <2>2. evbuf'[Slot(i - 1)'] = h
    BY <1>1, <2>1, TakeWindow
  <2>. QED
    BY <1>2, <2>1, <2>2 DEF Waits
<1>. QED
  BY <1>3, <1>4

LEMMA HeldStep ==
    ASSUME TypeOK, Idle, [Next]_vars, NEW h \in Headers, Held(h), Count # Size - 1
    PROVE  Held(h)'
<1>1. CASE Start
  BY <1>1 DEF Start, Held
<1>2. ASSUME NEW m \in Shorts, Short(m) PROVE Held(h)'
  BY <1>2, StoreKeeps DEF Short, Store, Held, Messages
<1>3. ASSUME NEW g \in Headers, Long(g) PROVE Held(h)'
  <2>1. Waits(h) \subseteq Waits(h)' /\ (g = h => Waits(h)' # {}) /\ hand' = hand
    BY <1>3, StoreKeeps DEF Long, Store, Messages
  <2>2. h \in driver => h \in driver' \/ g = h
    BY <1>3 DEF Long
  <2>. QED
    BY <2>1, <2>2 DEF Held
<1>4. CASE Take
  <2>1. hand # h /\ driver' = driver
    BY <1>4, InputAssumption DEF Take, Idle
  <2>. QED
    BY <1>4, <2>1, TakeKeeps DEF Held
<1>5. CASE Finish
  BY <1>5 DEF Finish, Held, Waits, Count, Slot
<1>6. CASE Look \/ Return \/ Close \/ UNCHANGED vars
  BY <1>6 DEF Look, Return, Close, vars, Held, Waits, Count, Slot
<1>. QED
  BY <1>1, <1>2, <1>3, <1>4, <1>5, <1>6 DEF Next

\* For every ring: a header that the driver, the ring or the main loop has is had by
\* one of them after the next step too, but for a delivery that finds Size - 1
\* messages waiting (MidiInProc, rtsyn_ws_play_some_data, midiInReset).
THEOREM OnlyOverflowLoses == Spec => LostByOverflow
<1>1. TypeOK /\ Idle /\ [Next]_vars => [\A h \in Headers : Held(h) /\ ~Held(h)' => Count = Size - 1]_vars
  BY HeldStep
<1>. QED
  BY <1>1, TypeInit, TypeStep, PTL DEF Spec, LostByOverflow

-----------------------------------------------------------------------------
(* The window thread and the synthesizer thread.                             *)

\* Where the synthesizer thread plays or is about to, it runs: only the thread itself
\* changes w32g_syn_status, and where it does it sets seq_quit or is in its main loop.  A
\* message is taken there only when it stopped, and it ends only after a QUIT.
Runs ==
    /\ synth \in {"begin", "get", "heard"} \/ (synth = "play" /\ ~seqQuit) => status = "run"
    /\ synth = "taken" => status = "stop"
    /\ synth \in {"bye", "done"} => status = "quit"

\* Preferences are applied after a QUIT, or while the window thread has the mutex; the
\* synthesizer had stopped then, and takes no further message, so that a START which it
\* took before brings it no further than to the next take.
Stops ==
    window = "apply" =>
        status = "quit" \/ (held /\ synth # "heard" /\ (synth = "play" => seqQuit))

\* The commands that wait are commands.
Waiting ==
    first >= 0 => \A i \in first..end : buf[i] \in Control!Commands

\* The commands are well formed, whatever is sent or read.
Buffered ==
    /\ buf \in [0..(Max - 1) -> Control!Commands \cup {"none"}]
    /\ first \in -1..(Max - 1) /\ end \in -1..(Max - 1)
    /\ (first = -1 <=> end = -1) /\ first <= end
    /\ Waiting

\* The types of the rest.
Flags == held \in BOOLEAN /\ seqQuit \in BOOLEAN /\ leave \in BOOLEAN

Places ==
    /\ status \in {"stop", "run", "quit"} /\ prev \in {"stop", "run", "quit", "none"}
    /\ msg \in Control!Commands \cup {"none"}
    /\ synth \in {"main", "taken", "begin", "get", "heard", "play", "close", "bye", "done"}
    /\ window \in {"idle", "ask", "lock", "test", "post", "apply", "again", "restart",
                   "destroy", "left", "ended"}
    /\ quitState \in 0..2
    /\ posted \in {"quit", "run", "stop", "apply", "none"}

ControlInv == Buffered /\ Flags /\ Places /\ Runs /\ Stops

LEMMA ControlInit == ASSUME Max \in Nat, Max > 0, Control!Init PROVE ControlInv
<1>1. Buffered
  BY DEF Control!Init, Buffered, Waiting, Control!Commands
<1>2. Flags
  BY Zenon DEF Control!Init, Flags
<1>3. Places
  BY DEF Control!Init, Places
<1>4. Runs /\ Stops
  BY DEF Control!Init, Runs, Stops
<1>. QED
  BY <1>1, <1>2, <1>3, <1>4 DEF ControlInv

LEMMA SetBuffered ==
    ASSUME Max \in Nat, Max > 0, Buffered, NEW cmd \in Control!Commands, Control!Set(cmd)
    PROVE  Buffered'
<1>1. CASE cmd # "reset"
  <2>1. first' = 0 /\ end' = 0 /\ buf' \in [0..(Max - 1) -> Control!Commands \cup {"none"}]
    BY <1>1 DEF Control!Set, Control!Overwrite, Buffered
  <2>2. buf'[0] = cmd
    BY <1>1 DEF Control!Set, Control!Overwrite, Buffered
  <2>. QED
    BY <2>1, <2>2 DEF Buffered, Waiting
<1>2. CASE cmd = "reset" /\ Control!AppendCommand(cmd)
  <2>1. /\ end < Max - 1 /\ end' = end + 1
        /\ first' = IF end < 0 THEN 0 ELSE first
        /\ buf' = [buf EXCEPT ![end'] = cmd]
    BY <1>2 DEF Control!AppendCommand
  <2>2. end + 1 \in 0..(Max - 1)
    BY <2>1 DEF Buffered
  <2>3. buf' \in [0..(Max - 1) -> Control!Commands \cup {"none"}]
    BY <2>1 DEF Buffered
  <2>4. ASSUME NEW i \in first'..end' PROVE buf'[i] \in Control!Commands
    BY <2>1, <2>2, <2>4 DEF Buffered, Waiting
  <2>. QED
    BY <2>1, <2>2, <2>3, <2>4 DEF Buffered, Waiting
<1>3. CASE UNCHANGED <<buf, first, end>>
  BY <1>3 DEF Buffered, Waiting
<1>. QED
  BY <1>1, <1>2, <1>3 DEF Control!Set

LEMMA GetBuffered ==
    ASSUME Max \in Nat, Buffered, Control!Get
    PROVE  Buffered' /\ msg' \in Control!Commands \cup {"none"}
<1>1. CASE first < 0
  BY <1>1 DEF Buffered, Waiting, Control!Get
<1>2. CASE first >= 0
  <2>1. buf[first] \in Control!Commands
    BY <1>2 DEF Buffered, Waiting
  <2>. QED
    BY <1>2, <2>1 DEF Buffered, Waiting, Control!Get
<1>. QED
  BY <1>1, <1>2 DEF Buffered

\* What a step leaves alone.
LEMMA BufferStays == ASSUME Buffered, UNCHANGED <<buf, first, end>> PROVE Buffered'
BY DEF Buffered, Waiting

\* A step of the synthesizer thread.
LEMMA SynthKeeps ==
    ASSUME Max \in Nat, Max > 0, ControlInv,
           Control!SynthStep \/ Control!NoDevice \/ Control!NoStart
    PROVE  ControlInv'
<1>. USE DEF ControlInv, Control!Synth, Control!control
<1>1. CASE Control!Rest
  <2>1. Buffered' /\ msg' \in Control!Commands \cup {"none"}
    BY <1>1, GetBuffered DEF Control!Rest
  <2>2. Flags' /\ Runs' /\ Stops'
    BY <1>1, Zenon DEF Control!Rest, Control!Get, Flags, Runs, Stops
  <2>3. Places'
    BY <1>1, <2>1 DEF Control!Rest, Control!Get, Places
  <2>. QED
    BY <2>1, <2>2, <2>3
<1>2. CASE Control!Hear
  <2>1. Buffered' /\ msg' \in Control!Commands \cup {"none"}
    BY <1>2, GetBuffered DEF Control!Hear
  <2>2. status = "run" /\ ~held
    BY <1>2 DEF Control!Hear, Control!Get, Runs
  <2>3. window # "apply"
    BY <2>2 DEF Stops
  <2>4. Flags' /\ Runs' /\ Stops'
    BY <1>2, <2>2, <2>3, Zenon DEF Control!Hear, Control!Get, Flags, Runs, Stops
  <2>5. Places'
    BY <1>2, <2>1 DEF Control!Hear, Control!Get, Places
  <2>. QED
    BY <2>1, <2>4, <2>5
<1>3. CASE Control!Heed
  <2>. USE <1>3 DEF Control!Heed
  <2>1. window # "apply"
    BY DEF Runs, Stops
  <2>2. Flags' /\ Stops'
    BY <2>1, Zenon DEF Flags, Stops
  <2>3. Places'
    BY DEF Places, Control!Commands
  <2>4. Runs'
    BY Zenon DEF Runs
  <2>. QED
    BY <2>2, <2>3, <2>4, BufferStays
<1>4. CASE \/ Control!Run \/ Control!Wake \/ Control!Bye \/ Control!Begin \/ Control!Play
           \/ Control!Close \/ Control!Tell \/ Control!Done \/ Control!NoDevice
           \/ Control!NoStart
  <2>. USE DEF Control!Run, Control!Wake, Control!Bye, Control!Begin, Control!Play,
               Control!Close, Control!Tell, Control!Done, Control!NoDevice, Control!NoStart
  <2>1. UNCHANGED <<buf, first, end>>
    BY <1>4, Zenon
  <2>2. Flags'
    BY <1>4, Zenon DEF Flags
  <2>3. Places'
    BY <1>4 DEF Places
  <2>4. Runs'
    BY <1>4, Zenon DEF Runs
  <2>5. Stops'
    BY <1>4, Zenon DEF Runs, Stops
  <2>. QED
    BY <2>1, <2>2, <2>3, <2>4, <2>5, BufferStays
<1>. QED
  BY <1>1, <1>2, <1>3, <1>4 DEF Control!SynthStep

\* A step of the window thread: it applies preferences only after it saw that the
\* synthesizer has stopped, or is to end.
LEMMA WindowKeeps ==
    ASSUME Max \in Nat, Max > 0, ControlInv,
           Control!WindowStep \/ Control!Prefs \/ (\E cmd \in Control!Commands : Control!User(cmd))
    PROVE  ControlInv'
<1>. USE DEF ControlInv, Control!Window, Control!control
<1>1. ASSUME NEW cmd \in Control!Commands, Control!User(cmd) PROVE ControlInv'
  <2>. USE <1>1 DEF Control!User
  <2>1. Flags' /\ Runs' /\ Stops'
    BY Zenon DEF Flags, Runs, Stops
  <2>2. Places'
    BY DEF Places, Control!Commands
  <2>. QED
    BY <2>1, <2>2, SetBuffered
<1>2. CASE Control!Post
  <2>. USE <1>2 DEF Control!Post
  <2>1. Flags' /\ Runs' /\ Stops'
    BY Zenon DEF Flags, Runs, Stops
  <2>2. Places'
    BY DEF Places
  <2>3. "stop" \in Control!Commands
    BY DEF Control!Commands
  <2>. QED
    BY <2>1, <2>2, <2>3, SetBuffered
<1>3. CASE Control!Again
  <2>. USE <1>3 DEF Control!Again
  <2>1. Flags' /\ Runs' /\ Stops'
    BY Zenon DEF Flags, Runs, Stops
  <2>2. Places'
    BY DEF Places
  <2>3. "run" \in Control!Commands
    BY DEF Control!Commands
  <2>. QED
    BY <2>1, <2>2, <2>3, SetBuffered
<1>4. CASE Control!Destroy
  <2>. USE <1>4 DEF Control!Destroy
  <2>1. Flags' /\ Runs' /\ Stops'
    BY Zenon DEF Flags, Runs, Stops
  <2>2. Places'
    BY DEF Places
  <2>3. "quit" \in Control!Commands
    BY DEF Control!Commands
  <2>. QED
    BY <2>1, <2>2, <2>3, SetBuffered
<1>5. CASE Control!Test
  <2>. USE <1>5 DEF Control!Test
  <2>1. held' \in BOOLEAN
    OBVIOUS
  <2>2. Flags' /\ Runs'
    BY <2>1, Zenon DEF Flags, Runs
  <2>3. Places'
    BY DEF Places
  <2>4. Stops'
    BY DEF Runs, Stops, Places
  <2>. QED
    BY <2>2, <2>3, <2>4, BufferStays
<1>6. CASE Control!Restart
  <2>. USE <1>6 DEF Control!Restart
  <2>1. Flags' /\ Runs' /\ Stops'
    BY Zenon DEF Flags, Runs, Stops
  <2>2. Places'
    BY DEF Places
  <2>3. "quit" \in Control!Commands
    BY DEF Control!Commands
  <2>. QED
    BY <2>1, <2>2, <2>3, SetBuffered
<1>7. CASE Control!Ask \/ Control!Lock \/ Control!Applied
  <2>. USE <1>7 DEF Control!Ask, Control!Lock, Control!Applied
  <2>1. Flags' /\ Runs'
    BY Zenon DEF Flags, Runs
  <2>2. Places' /\ Stops'
    BY DEF Places, Stops
  <2>. QED
    BY <2>1, <2>2, BufferStays
<1>8. CASE Control!Left \/ Control!End \/ Control!Prefs
  <2>. USE <1>8 DEF Control!Left, Control!End, Control!Prefs
  <2>1. Flags' /\ Runs' /\ Stops'
    BY Zenon DEF Flags, Runs, Stops
  <2>2. Places'
    BY DEF Places
  <2>. QED
    BY <2>1, <2>2, BufferStays
<1>. QED
  BY <1>1, <1>2, <1>3, <1>4, <1>5, <1>6, <1>7, <1>8 DEF Control!WindowStep

LEMMA ControlKeeps ==
    ASSUME Max \in Nat, Max > 0, ControlInv, [Control!Next]_(Control!vars)
    PROVE  ControlInv'
<1>1. CASE UNCHANGED Control!vars
  <2>. USE <1>1 DEF Control!vars, ControlInv
  <2>1. Buffered'
    BY BufferStays
  <2>2. Flags' /\ Runs' /\ Stops'
    BY Zenon DEF Flags, Runs, Stops
  <2>3. Places'
    BY DEF Places
  <2>. QED
    BY <2>1, <2>2, <2>3
<1>. QED
  BY <1>1, SynthKeeps, WindowKeeps DEF Control!Next

LEMMA ControlSafe ==
    ASSUME ControlInv
    PROVE  Control!AppliesUnheard /\ Control!TypeCorrect
<1>1. Control!AppliesUnheard
  BY DEF ControlInv, Stops, Control!AppliesUnheard
<1>2. Control!TypeCorrect
  <2>1. Buffered /\ Flags /\ Places
    BY DEF ControlInv
  <2>. QED
    BY <2>1 DEF Buffered, Flags, Places, Control!TypeCorrect, Control!TypeOK
<1>. QED
  BY <1>1, <1>2

\* Whatever the user does, however many commands fit, and though a message is heeded only
\* after the mutex is let go: while preferences are applied, unless the program ends, the
\* synthesizer plays at most the pass in which it saw STOP
\* (w32g_syn_do_before_pref_apply keeps the mutex, which w32g_message_get needs), and the
\* commands and the two threads stay in the states that the code knows.
THEOREM PrefsPlayNothing ==
    ASSUME Max \in Nat, Max > 0
    PROVE  Control!Spec => [](Control!AppliesUnheard /\ Control!TypeCorrect)
BY ControlInit, ControlKeeps, ControlSafe, PTL DEF Control!Spec

\* The same of the control part of MCWaits, where the other parts stand still.
THEOREM PartPlaysNothing ==
    ASSUME Max \in Nat, Max > 0
    PROVE  MCSpec => []AppliesUnheard
<1>. DEFINE Inv == part = "control" => ControlInv
<1>1. MCInit => Inv
  BY ControlInit DEF MCInit
<1>2. ASSUME Inv, [MCNext]_allVars PROVE Inv'
  <2>. SUFFICES ASSUME part' = "control" PROVE ControlInv'
    OBVIOUS
  <2>1. CASE part = "control" /\ Control!Next
    BY <1>2, <2>1, ControlKeeps
  <2>2. ASSUME UNCHANGED ctrl, part = "control" PROVE ControlInv'
    <3>1. UNCHANGED Control!vars
      BY <2>2 DEF ctrl, Control!vars
    <3>. QED
      BY <1>2, <2>2, <3>1, ControlKeeps
  <2>. QED
    BY <1>2, <2>1, <2>2
       DEF MCNext, In, InInput, InControl, InPool, Over, allVars
<1>3. Inv => AppliesUnheard
  BY ControlSafe DEF AppliesUnheard
<1>. QED
  BY <1>1, <1>2, <1>3, PTL DEF MCSpec
=============================================================================
