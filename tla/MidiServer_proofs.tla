-------------------------- MODULE MidiServer_proofs --------------------------
(* What server_c.c plays is the stream that the client sent, however it came. *)
EXTENDS MCServer, SequenceTheorems, WellFoundedInduction, TLAPS

Whats == {"none", "note", "program", "sysex", "voice", "start", "halt", "stop"}
Statuses == {"none", "on", "prog"}
Decoders == [run : Statuses, prefix : BOOLEAN, need : 0..2, what : Whats,
             due : Seq(Whats \cup {"wrong"})]

\* A decoder between two messages.
Between(run, pre, what, due) ==
    [run |-> run, prefix |-> pre, need |-> 0, what |-> what, due |-> due]

\* e is what d comes to when it takes the units: t are the decoders on the way.
Way(t, d, units, e) ==
    /\ t[0] = d /\ t[Len(units)] = e
    /\ \A i \in 1 .. Len(units) : t[i] = Decoded(t[i - 1], units[i])

Reads(d, units, e) == \E t \in [0 .. Len(units) -> Decoders] : Way(t, d, units, e)

-----------------------------------------------------------------------------
(* The decoder.                                                               *)

LEMMA BegunType ==
    ASSUME NEW d \in Decoders, NEW n \in 0 .. 2, NEW what \in Whats,
           NEW run \in Statuses
    PROVE  Begun(d, n, what, run) \in Decoders
<1>1. d.due \in Seq(Whats \cup {"wrong"}) /\ what \in Whats \cup {"wrong"}
  BY DEF Decoders
<1>2. Append(d.due, what) \in Seq(Whats \cup {"wrong"})
  BY <1>1
<1>3. CASE n = 0
  <2>1. Begun(d, n, what, run) =
          [d EXCEPT !.need = n, !.what = what, !.run = run, !.due = Append(d.due, what)]
    BY <1>3 DEF Begun, Decoders
  <2> QED BY <1>2, <2>1 DEF Decoders
<1>4. CASE n # 0
  <2>1. Begun(d, n, what, run) = [d EXCEPT !.need = n, !.what = what, !.run = run]
    BY <1>4 DEF Begun, Decoders
  <2> QED BY <2>1 DEF Decoders
<1> QED BY <1>3, <1>4

LEMMA DecodedType ==
    ASSUME NEW d \in Decoders, NEW unit
    PROVE  Decoded(d, unit) \in Decoders
<1>1. d.run \in Statuses /\ d.what \in Whats /\ d.need \in 0 .. 2
  BY DEF Decoders
<1>2. CASE d.need > 0
  BY <1>1, <1>2, BegunType DEF Decoded
<1>3. CASE d.need = 0
  <2>1. CASE Event(unit)
    <3>1. Decoded(d, unit) = Begun(d, 1, unit, d.run) /\ unit \in Whats
      BY <1>3, <2>1 DEF Decoded, Event, Whats
    <3> QED BY <1>1, <3>1, BegunType
  <2>2. CASE ~Event(unit) /\ d.prefix /\ unit = "f7"
    <3> DEFINE b == Begun(d, 0, "sysex", d.run)
    <3>1. b \in Decoders
      BY <1>1, BegunType DEF Whats
    <3>2. Decoded(d, unit) = [b EXCEPT !.prefix = FALSE]
      BY <1>3, <2>2 DEF Decoded
    <3> HIDE DEF b
    <3> QED BY <3>1, <3>2 DEF Decoders
  <2>3. CASE ~Event(unit) /\ d.prefix /\ unit # "f7"
    BY <1>3, <2>3 DEF Decoded
  <2>4. CASE ~Event(unit) /\ ~d.prefix /\ unit \in {"on", "prog", "data"}
    BY <1>1, <1>3, <2>4, BegunType DEF Decoded, Whats, Statuses, Event
  <2>5. CASE ~Event(unit) /\ ~d.prefix /\ unit \notin {"on", "prog", "data"}
    <3>1. Decoded(d, unit) = [d EXCEPT !.run = "none", !.prefix = (unit = "f0")]
      BY <1>3, <2>5 DEF Decoded
    <3>2. (unit = "f0") \in BOOLEAN
      OBVIOUS
    <3> QED BY <3>1, <3>2 DEF Decoders, Statuses
  <2> QED BY <2>1, <2>2, <2>3, <2>4, <2>5
<1> QED BY <1>1, <1>2, <1>3

-----------------------------------------------------------------------------
(* What a decoder comes to.                                                   *)

\* Nothing.
LEMMA ReadsNone ==
    ASSUME NEW d \in Decoders
    PROVE  Reads(d, <<>>, d)
<1> DEFINE t == [i \in 0 .. 0 |-> d]
<1>1. t \in [0 .. Len(<<>>) -> Decoders] /\ Way(t, d, <<>>, d)
  BY DEF Way
<1> QED BY <1>1 DEF Reads

LEMMA ReadsNothing ==
    ASSUME NEW d, NEW e, Reads(d, <<>>, e)
    PROVE  d = e
BY DEF Reads, Way

LEMMA ReadsType ==
    ASSUME NEW S, NEW units \in Seq(S), NEW d, NEW e, Reads(d, units, e)
    PROVE  d \in Decoders /\ e \in Decoders
<1>1. Len(units) \in Nat
  BY LenProperties
<1> QED BY <1>1 DEF Reads, Way

\* A unit more.
LEMMA ReadsMore ==
    ASSUME NEW S, NEW units \in Seq(S), NEW unit \in S, NEW d, NEW e,
           Reads(d, units, e)
    PROVE  Reads(d, Append(units, unit), Decoded(e, unit))
<1> DEFINE n == Len(units)
           more == Append(units, unit)
           new == Decoded(e, unit)
<1>1. PICK t \in [0 .. n -> Decoders] : Way(t, d, units, e)
  BY DEF Reads
<1>2. n \in Nat /\ Len(more) = n + 1 /\ more[n + 1] = unit
        /\ \A i \in 1 .. n : more[i] = units[i]
  BY LenProperties
<1>3. e \in Decoders /\ new \in Decoders
  BY ReadsType, DecodedType
<1> DEFINE s == [i \in 0 .. n + 1 |-> IF i <= n THEN t[i] ELSE new]
<1> HIDE DEF n, more, new
<1>4. s \in [0 .. Len(more) -> Decoders]
  BY <1>1, <1>2, <1>3
<1>5. s[0] = d /\ s[Len(more)] = new /\ s[n] = e
  BY <1>1, <1>2 DEF Way, n
<1>6. \A i \in 1 .. Len(more) : s[i] = Decoded(s[i - 1], more[i])
  <2> SUFFICES ASSUME NEW i \in 1 .. n + 1 PROVE s[i] = Decoded(s[i - 1], more[i])
    BY <1>2
  <2>1. CASE i = n + 1
    <3>1. s[i] = new /\ s[i - 1] = e /\ more[i] = unit
      BY <1>2, <1>5, <2>1
    <3> QED BY <3>1 DEF new
  <2>2. CASE i # n + 1
    <3>1. i \in 1 .. n /\ i - 1 \in 0 .. n + 1 /\ i - 1 <= n /\ i <= n /\ i \in 0 .. n + 1
      BY <1>2, <2>2
    <3>2. s[i] = t[i] /\ s[i - 1] = t[i - 1] /\ more[i] = units[i]
      BY <1>2, <3>1
    <3>3. t[i] = Decoded(t[i - 1], units[i])
      BY <1>1, <3>1 DEF Way, n
    <3> QED BY <3>2, <3>3
  <2> QED BY <2>1, <2>2
<1> HIDE DEF s
<1> QED BY <1>4, <1>5, <1>6 DEF Reads, Way, more, new

\* The first unit is taken.
LEMMA ReadsFirst ==
    ASSUME NEW S, NEW units \in Seq(S), units # <<>>, NEW d, NEW e,
           Reads(d, units, e)
    PROVE  Reads(Decoded(d, units[1]), Tail(units), e)
<1> DEFINE n == Len(units)
           rest == Tail(units)
<1>1. PICK t \in [0 .. n -> Decoders] : Way(t, d, units, e)
  BY DEF Reads
<1>2. n \in Nat \ {0} /\ Len(rest) = n - 1 /\ \A i \in 1 .. n - 1 : rest[i] = units[i + 1]
  BY EmptySeq
<1> DEFINE s == [i \in 0 .. n - 1 |-> t[i + 1]]
<1> HIDE DEF n, rest
<1>4. s \in [0 .. Len(rest) -> Decoders]
  BY <1>1, <1>2
<1>5. s[0] = Decoded(d, units[1]) /\ s[Len(rest)] = e
  <2>1. s[0] = t[1] /\ t[1] = Decoded(t[1 - 1], units[1]) /\ t[0] = d
    BY <1>1, <1>2 DEF Way, n
  <2>2. s[Len(rest)] = t[n] /\ t[n] = e
    BY <1>1, <1>2 DEF Way, n
  <2> QED BY <2>1, <2>2
<1>6. \A i \in 1 .. Len(rest) : s[i] = Decoded(s[i - 1], rest[i])
  <2> SUFFICES ASSUME NEW i \in 1 .. n - 1 PROVE s[i] = Decoded(s[i - 1], rest[i])
    BY <1>2
  <2>1. i + 1 \in 1 .. n /\ (i + 1) - 1 = i /\ (i - 1) + 1 = i /\ i \in 0 .. n - 1
          /\ i - 1 \in 0 .. n - 1
    BY <1>2
  <2>2. s[i] = t[i + 1] /\ s[i - 1] = t[i] /\ rest[i] = units[i + 1]
    BY <1>2, <2>1
  <2>3. t[i + 1] = Decoded(t[(i + 1) - 1], units[i + 1])
    BY <1>1, <2>1 DEF Way, n
  <2> QED BY <2>1, <2>2, <2>3
<1> HIDE DEF s
<1> QED BY <1>4, <1>5, <1>6 DEF Reads, Way, rest

\* What holds of 0 and of each number behind one it holds of, up to n.
LEMMA Climbs ==
    ASSUME NEW n \in Nat, NEW T, 0 \in T, \A i \in 0 .. n - 1 : i \in T => i + 1 \in T
    PROVE  \A i \in 0 .. n : i \in T
<1> DEFINE Out == {i \in 0 .. n : i \notin T}
<1> SUFFICES ASSUME Out # {} PROVE FALSE
  OBVIOUS
<1>1. Out \subseteq Nat
  OBVIOUS
<1>2. PICK i \in Out : \A j \in Out : <<j, i>> \notin OpToRel(<, Nat)
  <2> HIDE DEF Out
  <2> QED BY <1>1, NatLessThanWellFounded, WFMin
<1>3. \A j \in Out : ~(j < i)
  BY <1>1, <1>2 DEF OpToRel
<1>4. i # 0 /\ i - 1 \in 0 .. n - 1 /\ i - 1 < i /\ (i - 1) + 1 = i
  <2>1. i \in 0 .. n /\ i \notin T
    OBVIOUS
  <2> HIDE DEF Out
  <2> QED BY <2>1
<1>5. i - 1 \notin Out
  BY <1>3, <1>4
<1>6. i - 1 \in T
  BY <1>4, <1>5
<1> QED BY <1>2, <1>4, <1>6

\* The first of what is due does not matter to a decoder.
Heard1(d) == [d EXCEPT !.due = Tail(@)]
Owing(what) == {d \in Decoders : d.due # <<>> /\ Head(d.due) = what}

LEMMA Swapped ==
    ASSUME NEW d \in Decoders, NEW n, NEW w, NEW r, NEW a, NEW b
    PROVE  [[d EXCEPT !.need = n, !.what = w, !.run = r, !.due = a] EXCEPT !.due = b] =
             [[d EXCEPT !.due = Tail(@)] EXCEPT !.need = n, !.what = w, !.run = r, !.due = b]
BY DEF Decoders

LEMMA DecodedOwes ==
    ASSUME NEW what, NEW d \in Owing(what), NEW unit
    PROVE  /\ Decoded(d, unit) \in Owing(what)
           /\ Heard1(d) \in Decoders
           /\ Heard1(Decoded(d, unit)) = Decoded(Heard1(d), unit)
<1> DEFINE h == Heard1(d)
<1>1. d \in Decoders /\ d.due \in Seq(Whats \cup {"wrong"}) /\ d.due # <<>> /\ Head(d.due) = what
  BY DEF Owing, Decoders
<1>2. h \in Decoders /\ h.run = d.run /\ h.prefix = d.prefix /\ h.need = d.need
        /\ h.what = d.what /\ h.due = Tail(d.due)
  <2>1. Tail(d.due) \in Seq(Whats \cup {"wrong"})
    BY <1>1
  <2> QED BY <1>1, <2>1 DEF Heard1, Decoders
<1>3. ASSUME NEW n \in 0 .. 2, NEW w \in Whats, NEW run \in Statuses
      PROVE  /\ Begun(d, n, w, run) \in Owing(what)
             /\ Heard1(Begun(d, n, w, run)) = Begun(h, n, w, run)
  <2>1. Begun(d, n, w, run) \in Decoders /\ Begun(h, n, w, run) \in Decoders
    BY <1>1, <1>2, BegunType
  <2>2. CASE n = 0
    <3>1. Begun(d, n, w, run).due = Append(d.due, w) /\ Begun(h, n, w, run).due = Append(Tail(d.due), w)
      BY <1>1, <1>2, <2>2 DEF Begun, Decoders
    <3>2. Append(d.due, w) # <<>> /\ Head(Append(d.due, w)) = what
            /\ Tail(Append(d.due, w)) = Append(Tail(d.due), w)
      <4>1. w \in Whats \cup {"wrong"}
        OBVIOUS
      <4> HIDE DEF h
      <4> QED BY <1>1, <4>1, AppendProperties, HeadTailProperties, HeadTailAppend
    <3>3. Begun(d, n, w, run) \in Owing(what)
      BY <2>1, <3>1, <3>2 DEF Owing
    <3>4. Heard1(Begun(d, n, w, run)) = Begun(h, n, w, run)
      <4>1. Begun(d, n, w, run) = [d EXCEPT !.need = n, !.what = w, !.run = run, !.due = Append(d.due, w)]
        BY <1>1, <2>2 DEF Begun, Decoders
      <4>2. Begun(h, n, w, run) = [h EXCEPT !.need = n, !.what = w, !.run = run, !.due = Append(Tail(d.due), w)]
        <5> HIDE DEF h
        <5> QED BY <1>2, <2>2 DEF Begun, Decoders
      <4>3. Tail(Begun(d, n, w, run).due) = Append(Tail(d.due), w)
        BY <3>1, <3>2
      <4> QED BY <1>1, <4>1, <4>2, <4>3, Swapped DEF Heard1
    <3> QED BY <3>3, <3>4
  <2>3. CASE n # 0
    <3>1. Begun(d, n, w, run) = [d EXCEPT !.need = n, !.what = w, !.run = run, !.due = d.due]
      BY <1>1, <2>3 DEF Begun, Decoders
    <3>2. Begun(h, n, w, run) = [h EXCEPT !.need = n, !.what = w, !.run = run, !.due = Tail(d.due)]
      <4> HIDE DEF h
      <4> QED BY <1>2, <2>3 DEF Begun, Decoders
    <3>3. Begun(d, n, w, run).due = d.due
      BY <1>1, <3>1 DEF Decoders
    <3>4. Heard1(Begun(d, n, w, run)) = Begun(h, n, w, run)
      BY <1>1, <3>1, <3>2, <3>3, Swapped DEF Heard1
    <3> QED BY <1>1, <2>1, <3>3, <3>4 DEF Owing
  <2> QED BY <2>2, <2>3
<1>4. d.run \in Statuses /\ d.what \in Whats /\ d.need \in 0 .. 2
  BY <1>1 DEF Decoders
<1> HIDE DEF h
<1>5. CASE d.need > 0
  <2>1. Decoded(d, unit) = Begun(d, d.need - 1, d.what, d.run)
          /\ Decoded(h, unit) = Begun(h, d.need - 1, d.what, d.run) /\ d.need - 1 \in 0 .. 2
    BY <1>2, <1>4, <1>5 DEF Decoded
  <2> QED BY <1>2, <1>3, <1>4, <2>1 DEF h
<1>6. CASE d.need = 0 /\ Event(unit)
  <2>1. Decoded(d, unit) = Begun(d, 1, unit, d.run)
          /\ Decoded(h, unit) = Begun(h, 1, unit, d.run) /\ unit \in Whats
    BY <1>2, <1>6 DEF Decoded, Event, Whats
  <2> QED BY <1>2, <1>3, <1>4, <2>1 DEF h
<1>7. CASE d.need = 0 /\ ~Event(unit) /\ d.prefix /\ unit = "f7"
  <2> DEFINE b == Begun(d, 0, "sysex", d.run)
             c == Begun(h, 0, "sysex", d.run)
  <2>1. Decoded(d, unit) = [b EXCEPT !.prefix = FALSE]
          /\ Decoded(h, unit) = [c EXCEPT !.prefix = FALSE]
    BY <1>2, <1>7 DEF Decoded
  <2>2. b \in Owing(what) /\ Heard1(b) = c
    BY <1>3, <1>4 DEF Whats
  <2> HIDE DEF b, c
  <2>3. b \in Decoders /\ b.due # <<>> /\ Head(b.due) = what
    BY <2>2 DEF Owing
  <2>4. [b EXCEPT !.prefix = FALSE] \in Decoders /\ [b EXCEPT !.prefix = FALSE].due = b.due
    BY <2>3 DEF Decoders
  <2>5. Heard1([b EXCEPT !.prefix = FALSE]) = [c EXCEPT !.prefix = FALSE]
    BY <2>2, <2>3 DEF Heard1, Decoders
  <2> QED BY <1>2, <2>1, <2>3, <2>4, <2>5 DEF h, Owing
<1>8. CASE d.need = 0 /\ ~Event(unit) /\ d.prefix /\ unit # "f7"
  <2>1. Decoded(d, unit) = d /\ Decoded(h, unit) = h
    BY <1>2, <1>8 DEF Decoded
  <2> QED BY <1>2, <2>1 DEF h
<1>9. CASE d.need = 0 /\ ~Event(unit) /\ ~d.prefix
  <2>1. CASE unit = "on"
    <3>1. Decoded(d, unit) = Begun(d, 2, "note", "on") /\ Decoded(h, unit) = Begun(h, 2, "note", "on")
      BY <1>2, <1>9, <2>1 DEF Decoded
    <3> QED BY <1>2, <1>3, <3>1 DEF h, Whats, Statuses
  <2>2. CASE unit = "prog"
    <3>1. Decoded(d, unit) = Begun(d, 1, "program", "prog") /\ Decoded(h, unit) = Begun(h, 1, "program", "prog")
      BY <1>2, <1>9, <2>2 DEF Decoded
    <3> QED BY <1>2, <1>3, <3>1 DEF h, Whats, Statuses
  <2>3. CASE unit = "data" /\ d.run = "on"
    <3>1. Decoded(d, unit) = Begun(d, 1, "note", "on") /\ Decoded(h, unit) = Begun(h, 1, "note", "on")
      BY <1>2, <1>9, <2>3 DEF Decoded
    <3> QED BY <1>2, <1>3, <3>1 DEF h, Whats, Statuses
  <2>4. CASE unit = "data" /\ d.run = "prog"
    <3>1. Decoded(d, unit) = Begun(d, 0, "program", "prog") /\ Decoded(h, unit) = Begun(h, 0, "program", "prog")
      BY <1>2, <1>9, <2>4 DEF Decoded
    <3> QED BY <1>2, <1>3, <3>1 DEF h, Whats, Statuses
  <2>5. CASE unit = "data" /\ d.run \notin {"on", "prog"}
    <3>1. Decoded(d, unit) = d /\ Decoded(h, unit) = h
      BY <1>2, <1>9, <2>5 DEF Decoded
    <3> QED BY <1>2, <3>1 DEF h
  <2>6. CASE unit \notin {"on", "prog", "data"}
    <3> DEFINE p == (unit = "f0")
    <3>1. Decoded(d, unit) = [d EXCEPT !.run = "none", !.prefix = p]
            /\ Decoded(h, unit) = [h EXCEPT !.run = "none", !.prefix = p]
      BY <1>2, <1>9, <2>6 DEF Decoded
    <3>2. p \in BOOLEAN
      OBVIOUS
    <3> HIDE DEF p
    <3>3. Decoded(d, unit) = [run |-> "none", prefix |-> p, need |-> d.need, what |-> d.what, due |-> d.due]
      BY <1>1, <3>1 DEF Decoders
    <3>4. Decoded(h, unit) = [run |-> "none", prefix |-> p, need |-> d.need, what |-> d.what, due |-> Tail(d.due)]
      BY <1>2, <3>1 DEF Decoders
    <3>5. Decoded(d, unit) \in Decoders
      BY <1>1, DecodedType
    <3>6. Decoded(d, unit).due = d.due
      BY <3>3
    <3>7. Heard1(Decoded(d, unit)) = Decoded(h, unit)
      <4>1. [[d EXCEPT !.run = "none", !.prefix = p] EXCEPT !.due = Tail(d.due)] =
               [[d EXCEPT !.due = Tail(@)] EXCEPT !.run = "none", !.prefix = p]
        BY <1>1 DEF Decoders
      <4> QED BY <3>1, <3>6, <4>1 DEF h, Heard1
    <3> QED BY <1>1, <1>2, <3>5, <3>6, <3>7 DEF h, Owing
  <2> QED BY <1>4, <2>1, <2>2, <2>3, <2>4, <2>5, <2>6
<1> QED BY <1>4, <1>5, <1>6, <1>7, <1>8, <1>9

LEMMA ReadsHeard ==
    ASSUME NEW S, NEW units \in Seq(S), NEW what, NEW d \in Owing(what), NEW e,
           Reads(d, units, e)
    PROVE  e \in Owing(what) /\ Reads(Heard1(d), units, Heard1(e))
<1> DEFINE n == Len(units)
<1>1. PICK t \in [0 .. n -> Decoders] : Way(t, d, units, e)
  BY DEF Reads
<1>2. n \in Nat
  BY LenProperties
<1> DEFINE T == {i \in 0 .. n : t[i] \in Owing(what)}
           s == [i \in 0 .. n |-> Heard1(t[i])]
<1>3. \A i \in 0 .. n : i \in T
  <2>1. 0 \in T
    BY <1>1, <1>2 DEF Way
  <2>2. \A i \in 0 .. n - 1 : i \in T => i + 1 \in T
    <3> SUFFICES ASSUME NEW i \in 0 .. n - 1, i \in T PROVE i + 1 \in T
      OBVIOUS
    <3>1. i + 1 \in 1 .. n /\ (i + 1) - 1 = i /\ i + 1 \in 0 .. n
      BY <1>2
    <3>2. t[i + 1] = Decoded(t[(i + 1) - 1], units[i + 1])
      BY <1>1, <3>1 DEF Way
    <3>3. t[i + 1] \in Owing(what)
      BY <3>1, <3>2, DecodedOwes
    <3> QED BY <3>1, <3>3
  <2> HIDE DEF T, n
  <2> QED BY <1>2, <2>1, <2>2, Climbs
<1>4. s \in [0 .. Len(units) -> Decoders]
  BY <1>3, DecodedOwes
<1>5. s[0] = Heard1(d) /\ s[n] = Heard1(e) /\ e \in Owing(what)
  BY <1>1, <1>2, <1>3 DEF Way
<1>6. \A i \in 1 .. n : s[i] = Decoded(s[i - 1], units[i])
  <2> SUFFICES ASSUME NEW i \in 1 .. n PROVE s[i] = Decoded(s[i - 1], units[i])
    OBVIOUS
  <2>1. i \in 0 .. n /\ i - 1 \in 0 .. n
    BY <1>2
  <2>2. t[i] = Decoded(t[i - 1], units[i]) /\ t[i - 1] \in Owing(what)
    BY <1>1, <1>3, <2>1 DEF Way
  <2>3. Heard1(Decoded(t[i - 1], units[i])) = Decoded(Heard1(t[i - 1]), units[i])
    BY <2>2, DecodedOwes
  <2> QED BY <2>1, <2>2, <2>3
<1> HIDE DEF s
<1> QED BY <1>4, <1>5, <1>6 DEF Reads, Way

-----------------------------------------------------------------------------
(* A message, taken by a decoder that is between two.                         *)

LEMMA BetweenType ==
    ASSUME NEW run \in Statuses, NEW pre \in BOOLEAN, NEW w \in Whats,
           NEW q \in Seq(Whats \cup {"wrong"})
    PROVE  Between(run, pre, w, q) \in Decoders
BY DEF Between, Decoders

LEMMA Same ==
    ASSUME NEW d \in Decoders, NEW e \in Decoders, d.run = e.run, d.prefix = e.prefix,
           d.need = e.need, d.what = e.what, d.due = e.due
    PROVE  d = e
BY DEF Decoders

LEMMA BegunFields ==
    ASSUME NEW d \in Decoders, NEW n \in 0 .. 2, NEW what \in Whats, NEW after \in Statuses
    PROVE  LET b == Begun(d, n, what, after)
           IN  /\ b \in Decoders /\ b.run = after /\ b.prefix = d.prefix /\ b.need = n
               /\ b.what = what
               /\ n = 0 => b.due = Append(d.due, what)
               /\ n # 0 => b.due = d.due
<1> DEFINE v == IF n = 0 THEN Append(d.due, what) ELSE d.due
           b == [d EXCEPT !.need = n, !.what = what, !.run = after, !.due = v]
<1>1. Begun(d, n, what, after) = b
  BY DEF Begun, Decoders
<1>2. b \in Decoders
  BY <1>1, BegunType
<1> HIDE DEF v
<1>3. b.run = after /\ b.prefix = d.prefix /\ b.need = n /\ b.what = what /\ b.due = v
  BY DEF Decoders
<1>4. (n = 0 => v = Append(d.due, what)) /\ (n # 0 => v = d.due)
  BY DEF v
<1> HIDE DEF b
<1> QED BY <1>1, <1>2, <1>3, <1>4

LEMMA BetweenFields ==
    ASSUME NEW run \in Statuses, NEW pre \in BOOLEAN, NEW w \in Whats,
           NEW q \in Seq(Whats \cup {"wrong"})
    PROVE  LET b == Between(run, pre, w, q)
           IN  /\ b \in Decoders /\ b.run = run /\ b.prefix = pre /\ b.need = 0
               /\ b.what = w /\ b.due = q
BY BetweenType DEF Between

LEMMA BegunWhole ==
    ASSUME NEW d \in Decoders, NEW what \in Whats, NEW after \in Statuses
    PROVE  Begun(d, 0, what, after) = Between(after, d.prefix, what, Append(d.due, what))
<1> DEFINE more == Append(d.due, what)
           c == Begun(d, 0, what, after)
           z == Between(after, d.prefix, what, more)
<1>1. d.prefix \in BOOLEAN /\ d.due \in Seq(Whats \cup {"wrong"})
  BY DEF Decoders
<1>2. more \in Seq(Whats \cup {"wrong"})
  BY <1>1
<1>3. /\ c \in Decoders /\ c.run = after /\ c.prefix = d.prefix /\ c.need = 0
      /\ c.what = what /\ c.due = more
  BY BegunFields
<1> HIDE DEF more
<1>4. /\ z \in Decoders /\ z.run = after /\ z.prefix = d.prefix /\ z.need = 0
      /\ z.what = what /\ z.due = more
  BY <1>1, <1>2, BetweenFields
<1> HIDE DEF c, z
<1>5. c = z
  BY <1>3, <1>4, Same
<1> QED BY <1>5 DEF c, z, more

LEMMA Ended ==
    ASSUME NEW run \in Statuses, NEW pre \in BOOLEAN, NEW p \in BOOLEAN,
           NEW w \in Whats,
           NEW q \in Seq(Whats \cup {"wrong"})
    PROVE  [Between(run, pre, w, q) EXCEPT !.prefix = p] = Between(run, p, w, q)
<1> DEFINE c == Between(run, pre, w, q)
           e == [c EXCEPT !.prefix = p]
           z == Between(run, p, w, q)
<1>1. /\ c \in Decoders /\ c.run = run /\ c.need = 0 /\ c.what = w /\ c.due = q
  BY BetweenFields
<1>2. /\ z \in Decoders /\ z.run = run /\ z.prefix = p /\ z.need = 0 /\ z.what = w
      /\ z.due = q
  BY BetweenFields
<1> HIDE DEF c, z
<1>3. /\ e \in Decoders /\ e.run = run /\ e.prefix = p /\ e.need = 0 /\ e.what = w
      /\ e.due = q
  BY <1>1 DEF Decoders
<1> HIDE DEF e
<1>4. e = z
  BY <1>2, <1>3, Same
<1> QED BY <1>4 DEF c, e, z

\* A message of one unit takes the decoder to d.
One(run, pre, w, q, u, d) ==
    /\ pre /\ u = "f7" => d = Between(run, FALSE, "sysex", Append(q, "sysex"))
    /\ pre /\ u # "f7" => d = Between(run, pre, w, q)
    /\ ~pre /\ u = "data" /\ run = "prog" =>
           d = Between("prog", pre, "program", Append(q, "program"))
    /\ ~pre /\ u = "data" /\ run \notin {"on", "prog"} => d = Between(run, pre, w, q)
    /\ ~pre /\ u \notin {"on", "prog", "data"} => d = Between("none", u = "f0", w, q)

LEMMA OneUnit ==
    ASSUME NEW run \in Statuses, NEW pre \in BOOLEAN, NEW w \in Whats,
           NEW q \in Seq(Whats \cup {"wrong"}), NEW u, ~Event(u)
    PROVE  One(run, pre, w, q, u, Decoded(Between(run, pre, w, q), u))
<1> USE DEF One
<1> DEFINE b == Between(run, pre, w, q)
<1>1. /\ b \in Decoders /\ b.prefix = pre
      /\ b.need = 0 /\ b.run = run /\ b.what = w /\ b.due = q
  BY BetweenFields
<1>q. ASSUME NEW x \in Whats
      PROVE  Append(q, x) \in Seq(Whats \cup {"wrong"})
  OBVIOUS
<1> HIDE DEF b
<1>2. CASE pre /\ u = "f7"
  <2> DEFINE c == Begun(b, 0, "sysex", run)
  <2>1. Decoded(b, u) = [c EXCEPT !.prefix = FALSE]
    BY <1>1, <1>2 DEF Decoded
  <2>2. "sysex" \in Whats
    BY DEF Whats
  <2>3. c = Between(run, b.prefix, "sysex", Append(q, "sysex"))
    BY <1>1, <2>2, BegunWhole
  <2>4. \A x \in Whats, more \in Seq(Whats \cup {"wrong"}) :
          [Between(run, b.prefix, x, more) EXCEPT !.prefix = FALSE] = Between(run, FALSE, x, more)
    BY <1>1, Ended
  <2>5. Append(q, "sysex") \in Seq(Whats \cup {"wrong"})
    BY <1>q, <2>2
  <2> HIDE DEF c
  <2> QED BY <1>2, <2>1, <2>2, <2>3, <2>4, <2>5 DEF b
<1>3. CASE pre /\ u # "f7"
  <2>1. Decoded(b, u) = b
    BY <1>1, <1>3 DEF Decoded
  <2> QED BY <1>3, <2>1 DEF b
<1>4. CASE ~pre /\ u = "data" /\ run = "prog"
  <2>1. Decoded(b, u) = Begun(b, 0, "program", "prog")
    BY <1>1, <1>4 DEF Decoded
  <2>2. "program" \in Whats /\ "prog" \in Statuses
    BY DEF Whats, Statuses
  <2>3. Begun(b, 0, "program", "prog") =
          Between("prog", pre, "program", Append(q, "program"))
    BY <1>1, <2>2, BegunWhole
  <2> QED BY <1>4, <2>1, <2>3 DEF b
<1>5. CASE ~pre /\ u = "data" /\ run \notin {"on", "prog"}
  <2>1. Decoded(b, u) = b
    BY <1>1, <1>5 DEF Decoded
  <2> QED BY <1>5, <2>1 DEF b
<1>6. CASE ~pre /\ u \notin {"on", "prog", "data"}
  <2> DEFINE p == (u = "f0")
             e == [b EXCEPT !.run = "none", !.prefix = p]
             z == Between("none", p, w, q)
  <2>1. Decoded(b, u) = e
    BY <1>1, <1>6 DEF Decoded
  <2>2. p \in BOOLEAN /\ "none" \in Statuses
    BY DEF Statuses
  <2> HIDE DEF p
  <2>3. /\ e \in Decoders /\ e.run = "none" /\ e.need = 0 /\ e.what = w
        /\ e.due = q /\ e.prefix = p
    BY <1>1, <2>2 DEF Decoders
  <2>4. /\ z \in Decoders /\ z.run = "none" /\ z.prefix = p /\ z.need = 0
        /\ z.what = w /\ z.due = q
    BY <2>2, BetweenFields
  <2> HIDE DEF e, z
  <2>5. e = z
    BY <2>3, <2>4, Same
  <2> QED BY <1>6, <2>1, <2>5 DEF z, b, p
<1> QED BY <1>2, <1>3, <1>4, <1>5, <1>6 DEF b

\* A message of more: the units behind the first are taken as they are.
Within(run, pre, n, what, q) ==
    [run |-> run, prefix |-> pre, need |-> n, what |-> what, due |-> q]

LEMMA WithinFields ==
    ASSUME NEW run \in Statuses, NEW pre \in BOOLEAN, NEW n \in 0 .. 2, NEW w \in Whats,
           NEW q \in Seq(Whats \cup {"wrong"})
    PROVE  LET b == Within(run, pre, n, w, q)
           IN  /\ b \in Decoders /\ b.run = run /\ b.prefix = pre /\ b.need = n
               /\ b.what = w /\ b.due = q
BY DEF Within, Decoders

LEMMA BegunWithin ==
    ASSUME NEW d \in Decoders, NEW n \in 1 .. 2, NEW what \in Whats, NEW after \in Statuses
    PROVE  Begun(d, n, what, after) = Within(after, d.prefix, n, what, d.due)
<1> DEFINE c == Begun(d, n, what, after)
           z == Within(after, d.prefix, n, what, d.due)
<1>1. d.prefix \in BOOLEAN /\ d.due \in Seq(Whats \cup {"wrong"}) /\ n \in 0 .. 2 /\ n # 0
  BY DEF Decoders
<1>2. /\ c \in Decoders /\ c.run = after /\ c.need = n /\ c.what = what
      /\ c.due = d.due /\ c.prefix = d.prefix
  BY <1>1, BegunFields
<1>3. /\ z \in Decoders /\ z.run = after /\ z.prefix = d.prefix /\ z.need = n
      /\ z.what = what /\ z.due = d.due
  BY <1>1, WithinFields
<1> HIDE DEF c, z
<1>4. c = z
  BY <1>2, <1>3, Same
<1> QED BY <1>4 DEF c, z

LEMMA FirstUnit ==
    ASSUME NEW run \in Statuses, NEW pre \in BOOLEAN, NEW w \in Whats,
           NEW q \in Seq(Whats \cup {"wrong"}), NEW u
    PROVE  LET d == Decoded(Between(run, pre, w, q), u)
           IN  /\ Event(u) => d = Within(run, pre, 1, u, q)
               /\ ~Event(u) /\ ~pre /\ u = "on" => d = Within("on", pre, 2, "note", q)
               /\ ~Event(u) /\ ~pre /\ u = "prog" => d = Within("prog", pre, 1, "program", q)
               /\ ~Event(u) /\ ~pre /\ u = "data" /\ run = "on" => d = Within("on", pre, 1, "note", q)
<1> DEFINE b == Between(run, pre, w, q)
<1>1. /\ b \in Decoders /\ b.prefix = pre
      /\ b.need = 0 /\ b.run = run /\ b.what = w /\ b.due = q
  BY BetweenFields
<1> HIDE DEF b
<1>2. ASSUME NEW n \in 1 .. 2, NEW what \in Whats, NEW after \in Statuses
      PROVE  Begun(b, n, what, after) = Within(after, pre, n, what, q)
  BY <1>1, BegunWithin
<1>3. CASE Event(u)
  <2>1. Decoded(b, u) = Begun(b, 1, u, run)
    BY <1>1, <1>3 DEF Decoded
  <2>2. u \in Whats
    BY <1>3 DEF Event, Whats
  <2> QED BY <1>2, <1>3, <2>1, <2>2 DEF b
<1>4. CASE ~Event(u) /\ ~pre
  <2>1. u = "on" => Decoded(b, u) = Begun(b, 2, "note", "on")
    BY <1>1, <1>4 DEF Decoded
  <2>2. u = "prog" => Decoded(b, u) = Begun(b, 1, "program", "prog")
    BY <1>1, <1>4 DEF Decoded
  <2>3. u = "data" /\ run = "on" => Decoded(b, u) = Begun(b, 1, "note", "on")
    BY <1>1, <1>4 DEF Decoded
  <2>4. "note" \in Whats /\ "program" \in Whats /\ "on" \in Statuses /\ "prog" \in Statuses
    BY DEF Whats, Statuses
  <2>5. /\ Begun(b, 2, "note", "on") = Within("on", pre, 2, "note", q)
        /\ Begun(b, 1, "note", "on") = Within("on", pre, 1, "note", q)
        /\ Begun(b, 1, "program", "prog") = Within("prog", pre, 1, "program", q)
    BY <1>2, <2>4
  <2> QED BY <1>4, <2>1, <2>2, <2>3, <2>5 DEF b
<1> QED BY <1>3, <1>4 DEF b

LEMMA NextUnit ==
    ASSUME NEW run \in Statuses, NEW pre \in BOOLEAN, NEW what \in Whats,
           NEW q \in Seq(Whats \cup {"wrong"}), NEW u
    PROVE  /\ Decoded(Within(run, pre, 2, what, q), u) = Within(run, pre, 1, what, q)
           /\ Decoded(Within(run, pre, 1, what, q), u) = Between(run, pre, what, Append(q, what))
<1> DEFINE two == Within(run, pre, 2, what, q)
           one == Within(run, pre, 1, what, q)
           c == Begun(one, 0, what, run)
<1>1. /\ two \in Decoders /\ two.need = 2 /\ two.what = what /\ two.run = run
      /\ two.prefix = pre /\ two.due = q
  BY WithinFields
<1>2. /\ one \in Decoders /\ one.need = 1 /\ one.what = what /\ one.run = run
      /\ one.prefix = pre /\ one.due = q
  BY WithinFields
<1> DEFINE more == Append(q, what)
           z == Between(run, pre, what, more)
<1>q. more \in Seq(Whats \cup {"wrong"})
  OBVIOUS
<1> HIDE DEF more
<1>3. /\ z \in Decoders /\ z.need = 0 /\ z.what = what /\ z.run = run
      /\ z.prefix = pre /\ z.due = more
  BY <1>q, BetweenFields
<1> HIDE DEF two, one, z
<1>4. Decoded(two, u) = Begun(two, 1, what, run) /\ Decoded(one, u) = c
  BY <1>1, <1>2 DEF Decoded
<1>5. /\ c \in Decoders /\ c.need = 0 /\ c.what = what /\ c.run = run
      /\ c.prefix = pre /\ c.due = more
  BY <1>2, BegunFields DEF more
<1>6. Begun(two, 1, what, run) = Within(run, pre, 1, what, q)
  BY <1>1, BegunWithin
<1> HIDE DEF c
<1>7. c = z
  BY <1>3, <1>5, Same
<1> QED BY <1>4, <1>6, <1>7 DEF two, one, z, more
-----------------------------------------------------------------------------
(* The inductive invariant, for units U and A commands ahead.                  *)

Frames == [at : Places, what : Whats, size : 0 .. 3]
Above(f, s) == <<f>> \o s
Call(place) == Frame(place, "none", 0)

\* The stacks of the thread: in no call of do_sequencer, in cmd_reset, in the middle
\* of a message of k units that plays what, at the end of a connection.
Bottom == <<Call("select")>>
Bases == {Bottom, Above(Call("stop"), Bottom), Above(Call("asked"), Bottom)}
Plain == Bases \cup {<<>>, Above(Call("compute"), Bottom)}
Accepts == Above(Call("accept"), Bottom)
Discards == {Above(Call("discard"), b) : b \in Bases}
Resets == Discards \cup {Above(Call("stop"), s) : s \in Discards}
Took(what, k) == Above(Frame("advance", what, k), Bottom)
Played(place, what, k) == Above(Frame(place, what, 0), Took(what, k))
Halts == Above(Call("stop"), Took("stop", 1))
Parses(what, k) == Above(Frame("parse", what, k), Bottom)
Fails == {Above(Call("fail"), Bottom), Above(Call("stop"), Above(Call("fail"), Bottom))}

Queue == lines \o socket
NoReset(queue) == \A i \in 1 .. Len(queue) : queue[i] # "RESET"
OneReset(queue) ==
    \A i, j \in 1 .. Len(queue) : queue[i] = "RESET" /\ queue[j] = "RESET" => i = j

\* What is left of the stream when the message of k units is taken.
Left(k) == SubSeq(buffer, offset + k + 1, length) \o wire

\* The decoder reads it from where the parser is, and due is played meanwhile.
InStep(run, pre, due, units, d) == \E w \in Whats : Reads(Between(run, pre, w, due), units, d)

Typed(U, A) ==
    /\ socket \in Seq(Commands) /\ lines \in Seq(Commands) /\ hungup \in BOOLEAN
    /\ owed \in 0 .. A /\ asked \in BOOLEAN
    /\ data \in {"closed", "open"} /\ wire \in Seq(U) /\ ended \in BOOLEAN
    /\ buffer \in Seq(U) /\ length \in 0 .. Len(buffer) /\ offset \in 0 .. length
    /\ rstatus \in Statuses /\ prefix \in BOOLEAN
    /\ tmr \in BOOLEAN /\ notmr \in BOOLEAN
    /\ stack \in Seq(Frames) /\ decoder \in Decoders
    /\ torn = FALSE

\* Each line has an answer to come; the client waits for the answer to the RESET among
\* them; and a connection that is closed has no data.
Kept ==
    /\ Len(Queue) <= owed
    /\ OneReset(Queue) /\ (~asked => NoReset(Queue))
    /\ data = "closed" => wire = <<>> /\ ~ended

Streaming == data = "open" /\ ~(asked /\ ended)
Synced == Streaming => InStep(rstatus, prefix, <<>>, Left(0), decoder)
Short == length > 0 => Size > length

Waiting ==
    /\ stack \in Plain
    /\ offset = 0 /\ (data = "open" => Short) /\ Synced
Accepting ==
    /\ stack = Accepts
    /\ offset = 0 /\ data = "closed" /\ Len(Queue) + 1 <= owed
Resetting ==
    /\ stack \in Resets
    /\ offset = 0 /\ (data = "open" => Short)
    /\ asked /\ NoReset(Queue) /\ Len(Queue) + 1 <= owed
Reading == (\E w \in Whats, k \in 0 .. 3 : stack = Parses(w, k)) /\ Synced
Taking(what, k, due) ==
    /\ offset + k <= length
    /\ Streaming => InStep(StatusAfter(what), prefix /\ what # "sysex", due, Left(k), decoder)
Playing == \E w \in Whats \ {"none"}, k \in 1 .. 3 :
    \/ stack \in {Played("compute", w, k), Played("asked", w, k)} /\ Taking(w, k, <<w>>)
    \/ stack = Took(w, k) /\ Taking(w, k, <<>>)
Stopping == stack = Halts /\ Taking("stop", 1, <<>>)
Failing == stack \in Fails

\* Where the thread is tells which part of the invariant holds.
Stage == Waiting \/ Accepting \/ Resetting \/ Reading \/ Playing \/ Stopping \/ Failing

Sane(U, A) == Typed(U, A) /\ Kept /\ Stage

\* A RESET inside an event: the calls that it returns to, and what they need of the
\* buffer when it fails; a RESET that does not empties the buffer under them.
Inners == {Played("asked", w, k) : w \in Whats \ {"none"}, k \in 1 .. 3}
             \cup {Halts, Above(Call("stop"), Above(Call("fail"), Bottom))}
Room(b) ==
    /\ \A w \in Whats \ {"none"}, k \in 1 .. 3 : b = Played("asked", w, k) => offset + k <= length
    /\ b = Halts => offset + 1 <= length
    /\ offset <= length
Empty == buffer = <<>> /\ length = 0

Loose(U, A) ==
    /\ socket \in Seq(Commands) /\ lines \in Seq(Commands) /\ hungup \in BOOLEAN
    /\ owed \in 0 .. A /\ asked \in BOOLEAN
    /\ data \in {"closed", "open"} /\ wire \in Seq(U) /\ ended \in BOOLEAN
    /\ buffer \in Seq(U) /\ length \in 0 .. Len(buffer) /\ offset \in Nat
    /\ rstatus \in Statuses /\ prefix \in BOOLEAN
    /\ tmr \in BOOLEAN /\ notmr \in BOOLEAN
    /\ stack \in Seq(Frames) /\ decoder \in Decoders
    /\ torn \in BOOLEAN

Holding(b) ==
    /\ stack = Above(Call("discard"), b) \/ stack = Above(Call("stop"), Above(Call("discard"), b))
    /\ asked /\ NoReset(Queue) /\ Len(Queue) + 1 <= owed
    /\ IF torn THEN Empty ELSE Room(b)
Held == \E b \in Inners : Holding(b)

\* The way to the end of the server, or of the data connection.
Broken ==
    /\ torn /\ Empty
    /\ \/ stack \in Inners
       \/ stack = Above(Call("fail"), Bottom)
       \/ \E w \in Whats \ {"none"}, k \in 1 .. 3 : stack = Took(w, k)
       \/ offset > 0 /\ \E w \in Whats, k \in 0 .. 3 : stack = Parses(w, k)

Astray(U, A) == Loose(U, A) /\ Kept /\ (Held \/ Broken)

IInv(U, A) == Sane(U, A) \/ Astray(U, A)

-----------------------------------------------------------------------------
(* Stacks.                                                                    *)

LEMMA AboveFacts ==
    ASSUME NEW f \in Frames, NEW s \in Seq(Frames)
    PROVE  /\ Above(f, s) \in Seq(Frames) /\ Above(f, s) # <<>>
           /\ Head(Above(f, s)) = f /\ Tail(Above(f, s)) = s
           /\ Len(Above(f, s)) = Len(s) + 1 /\ Above(f, s)[1] = f
           /\ \A i \in 1 .. Len(s) : Above(f, s)[i + 1] = s[i]
<1> DEFINE o == <<f>>
           t == o \o s
<1>1. o \in Seq(Frames) /\ Len(o) = 1 /\ o[1] = f
  OBVIOUS
<1>2. Len(s) \in Nat
  BY LenProperties
<1> HIDE DEF o
<1>3. t \in Seq(Frames) /\ Len(t) = 1 + Len(s)
        /\ \A i \in 1 .. 1 + Len(s) : t[i] = IF i <= 1 THEN o[i] ELSE s[i - 1]
  <2>1. /\ t \in Seq(Frames) /\ Len(t) = Len(o) + Len(s)
        /\ \A i \in 1 .. Len(o) + Len(s) : t[i] = IF i <= Len(o) THEN o[i] ELSE s[i - Len(o)]
    BY <1>1, ConcatProperties
  <2> HIDE DEF t
  <2> QED BY <1>1, <2>1
<1> HIDE DEF t
<1>4. t[1] = f /\ \A i \in 1 .. Len(s) : t[i + 1] = s[i]
  <2>1. t[1] = f
    BY <1>1, <1>2, <1>3
  <2>2. ASSUME NEW i \in 1 .. Len(s) PROVE t[i + 1] = s[i]
    <3>1. i + 1 \in 1 .. 1 + Len(s) /\ ~(i + 1 <= 1) /\ (i + 1) - 1 = i
      BY <1>2
    <3> QED BY <1>3, <3>1
  <2> QED BY <2>1, <2>2
<1>5. t # <<>> /\ Head(t) = f
  BY <1>2, <1>3, <1>4
<1>6. Tail(t) = s
  <2>1. Tail(t) \in Seq(Frames) /\ Len(Tail(t)) = Len(s)
          /\ \A i \in 1 .. Len(s) : Tail(t)[i] = t[i + 1]
    BY <1>2, <1>3, <1>5, HeadTailProperties
  <2>2. \A i \in 1 .. Len(s) : Tail(t)[i] = s[i]
    BY <1>4, <2>1
  <2> QED BY <2>1, <2>2, SeqEqual
<1>7. Len(t) = Len(s) + 1
  BY <1>2, <1>3
<1> QED BY <1>3, <1>4, <1>5, <1>6, <1>7 DEF Above, t, o

LEMMA FrameType ==
    ASSUME NEW place \in Places, NEW what \in Whats, NEW k \in 0 .. 3
    PROVE  /\ Frame(place, what, k) \in Frames
           /\ Frame(place, what, k).at = place /\ Frame(place, what, k).what = what
           /\ Frame(place, what, k).size = k
           /\ Call(place) = Frame(place, "none", 0)
BY DEF Frame, Frames, Call

LEMMA CallType ==
    ASSUME NEW place \in Places
    PROVE  Call(place) \in Frames /\ Call(place).at = place /\ Call(place).what = "none"
BY DEF Frame, Frames, Call, Whats

LEMMA BottomType ==
    /\ Bottom \in Seq(Frames) /\ Bottom # <<>> /\ Head(Bottom) = Call("select")
    /\ Head(Bottom).at = "select" /\ Tail(Bottom) = <<>> /\ Len(Bottom) = 1
    /\ <<>> \in Seq(Frames)
<1>1. Call("select") \in Frames /\ Call("select").at = "select"
  BY CallType DEF Places
<1> QED BY <1>1 DEF Bottom

\* Two calls are pushed, and the first one goes on somewhere else.
LEMMA PushTwo ==
    ASSUME NEW f \in Frames, NEW g \in Frames, NEW s \in Seq(Frames)
    PROVE  <<f, g>> \o s = Above(f, Above(g, s))
<1>2. <<f>> \in Seq(Frames) /\ <<g>> \in Seq(Frames)
  OBVIOUS
<1>1. <<f, g>> = <<f>> \o <<g>>
  <2>1. Append(<<f>>, g) = <<f>> \o <<g>>
    BY <1>2, AppendIsConcat
  <2> DEFINE o == <<f>>
             a == Append(o, g)
             t == <<f, g>>
  <2>2. o \in Seq(Frames) /\ Len(o) = 1 /\ o[1] = f
    OBVIOUS
  <2>3. t \in Seq(Frames) /\ Len(t) = 2 /\ t[1] = f /\ t[2] = g
    OBVIOUS
  <2> HIDE DEF o, t
  <2>4. a \in Seq(Frames) /\ Len(a) = 2 /\ a[1] = f /\ a[2] = g
    <3>1. a \in Seq(Frames) /\ Len(a) = Len(o) + 1 /\ a[Len(o) + 1] = g
            /\ \A i \in 1 .. Len(o) : a[i] = o[i]
      BY <2>2, AppendProperties, ZenonT(30)
    <3> HIDE DEF a
    <3>2. Len(a) = 2 /\ a[2] = g
      BY <2>2, <3>1
    <3>3. a[1] = o[1]
      BY <2>2, <3>1
    <3> QED BY <2>2, <3>1, <3>2, <3>3
  <2> HIDE DEF a
  <2>5. a = t
    BY <2>3, <2>4, SeqEqual
  <2> QED BY <2>1, <2>5 DEF a, o, t
<1>3. (<<f>> \o <<g>>) \o s = <<f>> \o (<<g>> \o s)
  BY <1>2, ConcatAssociative
<1> QED BY <1>1, <1>3 DEF Above

LEMMA Stacks ==
    ASSUME NEW place \in Places, NEW what \in Whats, NEW k \in 0 .. 3,
           NEW s \in Seq(Frames)
    PROVE  /\ Above(Frame(place, what, k), s) \in Seq(Frames)
           /\ Above(Frame(place, what, k), s) # <<>>
           /\ Head(Above(Frame(place, what, k), s)) = Frame(place, what, k)
           /\ Tail(Above(Frame(place, what, k), s)) = s
           /\ Head(Above(Frame(place, what, k), s)).at = place
<1>1. Frame(place, what, k) \in Frames /\ Frame(place, what, k).at = place
  BY FrameType
<1> QED BY <1>1, AboveFacts

LEMMA Calls ==
    ASSUME NEW place \in Places, NEW s \in Seq(Frames)
    PROVE  /\ Above(Call(place), s) \in Seq(Frames) /\ Above(Call(place), s) # <<>>
           /\ Head(Above(Call(place), s)) = Call(place) /\ Tail(Above(Call(place), s)) = s
           /\ Head(Above(Call(place), s)).at = place
BY AboveFacts, CallType

LEMMA BasesType ==
    ASSUME NEW b \in Bases
    PROVE  /\ b \in Seq(Frames) /\ b # <<>>
           /\ Head(b).at \in {"select", "stop", "asked"}
           /\ Head(b).at = "select" => b = Bottom
           /\ Head(b).at = "stop" => b = Above(Call("stop"), Bottom)
           /\ Head(b).at = "asked" => b = Above(Call("asked"), Bottom)
<1>1. "stop" \in Places /\ "asked" \in Places
  BY DEF Places
<1>2. CASE b = Bottom
  BY <1>2, BottomType
<1>3. CASE b = Above(Call("stop"), Bottom)
  BY <1>1, <1>3, Calls, BottomType
<1>4. CASE b = Above(Call("asked"), Bottom)
  BY <1>1, <1>4, Calls, BottomType
<1> QED BY <1>2, <1>3, <1>4 DEF Bases

\* What the thread is in, and what it returns to.
LEMMA PlainTop ==
    ASSUME NEW s \in Plain
    PROVE  /\ s \in Seq(Frames)
           /\ s = <<>> \/ s = Bottom \/ \E place \in {"stop", "asked", "compute"} :
                                            s = Above(Call(place), Bottom)
           /\ s # <<>> => Head(s).at \in {"select", "stop", "asked", "compute"}
           /\ s # <<>> /\ Head(s).at = "select" => s = Bottom
           /\ \A place \in {"stop", "asked", "compute"} :
                 s # <<>> /\ Head(s).at = place => s = Above(Call(place), Bottom)
<1>1. CASE s = <<>>
  BY <1>1, BottomType
<1>2. CASE s \in Bases
  BY <1>2, BasesType DEF Bases
<1>3. CASE s = Above(Call("compute"), Bottom)
  <2>1. "compute" \in Places
    BY DEF Places
  <2> QED BY <1>3, <2>1, Calls, BottomType
<1> QED BY <1>1, <1>2, <1>3 DEF Plain

LEMMA AcceptsTop == Accepts \in Seq(Frames) /\ Accepts # <<>> /\ Head(Accepts).at = "accept"
                      /\ Tail(Accepts) = Bottom
<1>1. "accept" \in Places
  BY DEF Places
<1> QED BY <1>1, Calls, BottomType DEF Accepts

LEMMA ResetsTop ==
    ASSUME NEW s \in Resets
    PROVE  /\ s \in Seq(Frames) /\ s # <<>> /\ Head(s).at \in {"discard", "stop"}
           /\ Head(s).at = "discard" => \E b \in Bases : s = Above(Call("discard"), b) /\ Tail(s) = b
           /\ Head(s).at = "stop" => Tail(s) \in Discards
<1>1. "discard" \in Places /\ "stop" \in Places
  BY DEF Places
<1>2. \A t \in Discards : /\ t \in Seq(Frames) /\ t # <<>> /\ Head(t).at = "discard"
                          /\ \E b \in Bases : t = Above(Call("discard"), b) /\ Tail(t) = b
  <2> SUFFICES ASSUME NEW b \in Bases
               PROVE  LET t == Above(Call("discard"), b)
                      IN  t \in Seq(Frames) /\ t # <<>> /\ Head(t).at = "discard" /\ Tail(t) = b
    BY DEF Discards
  <2> QED BY <1>1, Calls, BasesType
<1>3. CASE s \in Discards
  BY <1>2, <1>3
<1>4. CASE \E t \in Discards : s = Above(Call("stop"), t)
  <2>1. PICK t \in Discards : s = Above(Call("stop"), t)
    BY <1>4
  <2>2. t \in Seq(Frames)
    BY <1>2
  <2> QED BY <1>1, <2>1, <2>2, Calls
<1> QED BY <1>3, <1>4 DEF Resets

LEMMA TookTop ==
    ASSUME NEW w \in Whats, NEW k \in 0 .. 3
    PROVE  /\ Took(w, k) \in Seq(Frames) /\ Took(w, k) # <<>>
           /\ Head(Took(w, k)) = Frame("advance", w, k) /\ Head(Took(w, k)).at = "advance"
           /\ Head(Took(w, k)).what = w /\ Head(Took(w, k)).size = k
           /\ Tail(Took(w, k)) = Bottom
<1>0. PICK place \in Places : place = "advance"
  BY DEF Places
<1>1. "advance" \in Places
  BY DEF Places
<1>2. Head(Took(w, k)) = Frame("advance", w, k) /\ Tail(Took(w, k)) = Bottom
        /\ Took(w, k) \in Seq(Frames) /\ Took(w, k) # <<>>
  <2>1. Frame(place, w, k) \in Frames
    BY FrameType
  <2>2. Bottom \in Seq(Frames)
    BY BottomType
  <2> QED BY <1>0, <2>1, <2>2, AboveFacts DEF Took
<1>3. Frame("advance", w, k).at = "advance" /\ Frame("advance", w, k).what = w
        /\ Frame("advance", w, k).size = k
  BY <1>1, FrameType
<1> QED BY <1>2, <1>3

LEMMA PlayedTop ==
    ASSUME NEW place \in Places, NEW w \in Whats, NEW k \in 0 .. 3
    PROVE  /\ Played(place, w, k) \in Seq(Frames) /\ Played(place, w, k) # <<>>
           /\ Head(Played(place, w, k)) = Frame(place, w, 0)
           /\ Head(Played(place, w, k)).at = place /\ Head(Played(place, w, k)).what = w
           /\ Tail(Played(place, w, k)) = Took(w, k)
<1>1. /\ Head(Played(place, w, k)) = Frame(place, w, 0)
      /\ Played(place, w, k) \in Seq(Frames) /\ Played(place, w, k) # <<>>
      /\ Tail(Played(place, w, k)) = Took(w, k)
  <2>1. Took(w, k) \in Seq(Frames) /\ 0 \in 0 .. 3
    BY TookTop
  <2> QED BY <2>1, Stacks, Zenon DEF Played
<1>2. Frame(place, w, 0).at = place /\ Frame(place, w, 0).what = w
  BY FrameType
<1> QED BY <1>1, <1>2

LEMMA AskedTop ==
    ASSUME NEW w \in Whats, NEW k \in 0 .. 3
    PROVE  /\ Played("asked", w, k) \in Seq(Frames) /\ Played("asked", w, k) # <<>>
           /\ Head(Played("asked", w, k)).at = "asked" /\ Head(Played("asked", w, k)).what = w
           /\ Tail(Played("asked", w, k)) = Took(w, k)
<1>1. PICK place \in Places : place = "asked"
  BY DEF Places
<1>2. /\ Played(place, w, k) \in Seq(Frames) /\ Played(place, w, k) # <<>>
      /\ Head(Played(place, w, k)).at = place /\ Head(Played(place, w, k)).what = w
      /\ Tail(Played(place, w, k)) = Took(w, k)
  BY PlayedTop
<1> QED BY <1>1, <1>2

LEMMA ParsesTop ==
    ASSUME NEW w \in Whats, NEW k \in 0 .. 3
    PROVE  /\ Parses(w, k) \in Seq(Frames) /\ Parses(w, k) # <<>>
           /\ Head(Parses(w, k)).at = "parse" /\ Tail(Parses(w, k)) = Bottom
<1>1. PICK place \in Places : place = "parse"
  BY DEF Places
<1>2. Frame(place, w, k) \in Frames /\ Frame(place, w, k).at = place
  BY FrameType
<1>3. Bottom \in Seq(Frames)
  BY BottomType
<1> QED BY <1>1, <1>2, <1>3, AboveFacts DEF Parses

LEMMA HaltsTop ==
    Halts \in Seq(Frames) /\ Halts # <<>> /\ Head(Halts).at = "stop" /\ Tail(Halts) = Took("stop", 1)
<1>1. "stop" \in Places /\ "stop" \in Whats
  BY DEF Places, Whats
<1> QED BY <1>1, Calls, TookTop DEF Halts

LEMMA FailsTop ==
    ASSUME NEW s \in Fails
    PROVE  /\ s \in Seq(Frames) /\ s # <<>> /\ Head(s).at \in {"fail", "stop"}
           /\ Head(s).at = "fail" => Tail(s) = Bottom
           /\ Head(s).at = "stop" => Tail(s) = Above(Call("fail"), Bottom)
<1>1. "stop" \in Places /\ "fail" \in Places
  BY DEF Places
<1> DEFINE f == Above(Call("fail"), Bottom)
<1>2. f \in Seq(Frames) /\ f # <<>> /\ Head(f).at = "fail" /\ Tail(f) = Bottom
  BY <1>1, Calls, BottomType
<1>3. CASE s = f
  BY <1>2, <1>3
<1>4. CASE s = Above(Call("stop"), f)
  <2> HIDE DEF f
  <2> QED BY <1>1, <1>2, <1>4, Calls DEF f
<1> QED BY <1>3, <1>4 DEF Fails

\* The calls that a command inside an event returns to, and those of another.
LEMMA InsideTwo ==
    ASSUME NEW g \in Frames, NEW f \in Frames, f.at \in {"parse", "advance", "fail"}
    PROVE  Inside(Above(g, Above(f, Bottom)))
<1> DEFINE s == Above(f, Bottom)
           t == Above(g, s)
<1>1. s \in Seq(Frames) /\ Len(s) = 2 /\ s[1] = f
  <2>1. Bottom \in Seq(Frames) /\ Len(Bottom) = 1
    BY BottomType
  <2>2. s[1] = f /\ Len(s) = Len(Bottom) + 1 /\ s \in Seq(Frames)
    BY <2>1, AboveFacts
  <2> HIDE DEF s
  <2>3. Len(s) = 2
    BY <2>1, <2>2
  <2> QED BY <2>2, <2>3
<1> HIDE DEF s
<1>2. t \in Seq(Frames) /\ Len(t) = Len(s) + 1 /\ \A i \in 1 .. Len(s) : t[i + 1] = s[i]
  BY <1>1, AboveFacts
<1> HIDE DEF t
<1>3. Len(t) = 3 /\ 1 \in 1 .. Len(s) /\ 2 \in 1 .. 3 /\ 1 + 1 = 2
  BY <1>1, <1>2
<1>4. t[2] = f
  BY <1>1, <1>2, <1>3
<1>5. 2 \in DOMAIN t
  BY <1>2, <1>3, LenProperties
<1>6. Inside(t)
  BY <1>4, <1>5 DEF Inside
<1> QED BY <1>6 DEF t, s

LEMMA BasesOutside ==
    ASSUME NEW b \in Bases
    PROVE  ~Inside(b)
<1>1. /\ Bottom \in Seq(Frames) /\ Len(Bottom) = 1 /\ Bottom[1].at = "select"
      /\ DOMAIN Bottom = 1 .. 1
  <2>1. Bottom \in Seq(Frames) /\ Bottom # <<>> /\ Len(Bottom) = 1 /\ Head(Bottom).at = "select"
    BY BottomType
  <2>2. Head(Bottom) = Bottom[1] /\ DOMAIN Bottom = 1 .. 1
    BY <2>1, LenProperties, HeadTailProperties
  <2> QED BY <2>1, <2>2
<1>2. ~Inside(Bottom)
  <2>1. \A i \in DOMAIN Bottom : i = 1
    BY <1>1
  <2> QED BY <1>1, <2>1 DEF Inside
<1>3. ASSUME NEW place \in {"stop", "asked"} PROVE ~Inside(Above(Call(place), Bottom))
  <2> DEFINE t == Above(Call(place), Bottom)
  <2>1. Call(place) \in Frames /\ Call(place).at = place
    <3>1. place \in Places
      BY DEF Places
    <3> QED BY <3>1, CallType
  <2>2. /\ t \in Seq(Frames) /\ Len(t) = Len(Bottom) + 1 /\ t[1] = Call(place)
        /\ \A i \in 1 .. Len(Bottom) : t[i + 1] = Bottom[i]
    BY <1>1, <2>1, AboveFacts
  <2> HIDE DEF t
  <2>3. Len(t) = 2 /\ 1 + 1 = 2 /\ 1 \in 1 .. Len(Bottom)
    BY <1>1, <2>2
  <2>4. t[2] = Bottom[1] /\ DOMAIN t = 1 .. 2
    BY <2>2, <2>3, LenProperties
  <2>5. \A i \in DOMAIN t : i = 1 \/ i = 2
    BY <2>4
  <2>6. ~Inside(t)
    BY <1>1, <2>1, <2>2, <2>4, <2>5 DEF Inside
  <2> QED BY <2>6 DEF t
<1> QED BY <1>2, <1>3 DEF Bases

LEMMA InnersTop ==
    ASSUME NEW b \in Inners
    PROVE  /\ b \in Seq(Frames) /\ b # <<>> /\ Head(b).at \in {"asked", "stop"} /\ Inside(b)
           /\ Head(b) = b[1]
           /\ Head(b).at = "asked" =>
                 \E w \in Whats \ {"none"}, k \in 1 .. 3 : b = Played("asked", w, k)
           /\ Head(b).at = "stop" => b = Halts \/ b = Above(Call("stop"), Above(Call("fail"), Bottom))
<1>1. /\ "asked" \in Places /\ "stop" \in Places /\ "fail" \in Places /\ "advance" \in Places
      /\ "stop" \in Whats /\ 0 \in 0 .. 3 /\ 1 \in 0 .. 3
  BY DEF Places, Whats
<1> DEFINE f == Above(Call("stop"), Above(Call("fail"), Bottom))
<1>2. ASSUME NEW w \in Whats \ {"none"}, NEW k \in 1 .. 3, b = Played("asked", w, k)
      PROVE  b \in Seq(Frames) /\ b # <<>> /\ Head(b).at = "asked" /\ Inside(b)
  <2>1. k \in 0 .. 3
    OBVIOUS
  <2>2. b \in Seq(Frames) /\ b # <<>> /\ Head(b).at = "asked"
    BY <1>2, <2>1, AskedTop
  <2>3. /\ Frame("asked", w, 0) \in Frames /\ Frame("advance", w, k) \in Frames
        /\ Frame("advance", w, k).at = "advance"
    BY <1>1, <2>1, FrameType
  <2>4. Inside(b)
    BY <1>2, <2>3, InsideTwo DEF Played, Took
  <2> QED BY <2>2, <2>4
<1>3. CASE b = Halts
  <2>1. Call("stop") \in Frames
    BY <1>1, CallType
  <2>2. Frame("advance", "stop", 1) \in Frames /\ Frame("advance", "stop", 1).at = "advance"
    BY <1>1, FrameType
  <2>3. Inside(b)
    BY <1>3, <2>1, <2>2, InsideTwo DEF Halts, Took
  <2>4. Head(b) = b[1]
    BY <1>3, HaltsTop, HeadTailProperties
  <2> QED BY <1>3, <2>3, <2>4, HaltsTop
<1>4. CASE b = f
  <2>1. f \in Fails
    BY DEF Fails
  <2>2. /\ Call("stop") \in Frames /\ Call("stop").at = "stop"
        /\ Call("fail") \in Frames /\ Call("fail").at = "fail"
    BY <1>1, CallType
  <2>3. Inside(b)
    BY <1>4, <2>2, InsideTwo
  <2>4. b \in Seq(Frames) /\ b # <<>>
    BY <1>4, <2>1, FailsTop
  <2>5. Above(Call("fail"), Bottom) \in Seq(Frames)
    BY <2>2, BottomType, AboveFacts
  <2>6. Head(b).at = "stop"
    BY <1>4, <2>2, <2>5, AboveFacts
  <2>7. Head(b) = b[1]
    BY <2>4, HeadTailProperties
  <2> QED BY <1>4, <2>3, <2>4, <2>6, <2>7
<1>5. CASE \E w \in Whats \ {"none"}, k \in 1 .. 3 : b = Played("asked", w, k)
  <2>1. b \in Seq(Frames) /\ b # <<>> /\ Head(b).at = "asked" /\ Inside(b)
    BY <1>2, <1>5
  <2>2. Head(b) = b[1]
    BY <2>1, HeadTailProperties
  <2> QED BY <1>5, <2>1, <2>2
<1> QED BY <1>3, <1>4, <1>5 DEF Inners

LEMMA Tops ==
    /\ Waiting /\ stack # <<>> => Head(stack).at \in {"select", "stop", "asked", "compute"}
    /\ Accepting => Head(stack).at = "accept"
    /\ Resetting => Head(stack).at \in {"discard", "stop"}
    /\ Reading => Head(stack).at = "parse"
    /\ Playing => Head(stack).at \in {"compute", "asked", "advance"}
    /\ Stopping => Head(stack).at = "stop"
    /\ Failing => Head(stack).at \in {"fail", "stop"}
<1>1. Waiting /\ stack # <<>> => Head(stack).at \in {"select", "stop", "asked", "compute"}
  BY PlainTop DEF Waiting
<1>2. Accepting => Head(stack).at = "accept"
  BY AcceptsTop DEF Accepting
<1>3. Resetting => Head(stack).at \in {"discard", "stop"}
  BY ResetsTop DEF Resetting
<1>4. Reading => Head(stack).at = "parse"
  BY ParsesTop DEF Reading
<1>5. Playing => Head(stack).at \in {"compute", "asked", "advance"}
  <2>1. SUFFICES ASSUME NEW w \in Whats, NEW k \in 0 .. 3,
                        stack \in {Played("compute", w, k), Played("asked", w, k), Took(w, k)}
                 PROVE  Head(stack).at \in {"compute", "asked", "advance"}
    BY DEF Playing
  <2>2. \A place \in {"compute", "asked"} : place \in Places
    BY DEF Places
  <2>3. \A place \in {"compute", "asked"} : Head(Played(place, w, k)).at = place
    <3> SUFFICES ASSUME NEW place \in {"compute", "asked"}
                 PROVE  Head(Played(place, w, k)).at = place
      OBVIOUS
    <3>1. place \in Places
      BY <2>2
    <3> QED BY <3>1, PlayedTop
  <2> QED BY <2>1, <2>3, TookTop
<1>6. Stopping => Head(stack).at = "stop"
  BY HaltsTop DEF Stopping
<1>7. Failing => Head(stack).at \in {"fail", "stop"}
  BY FailsTop DEF Failing
<1> QED BY <1>1, <1>2, <1>3, <1>4, <1>5, <1>6, <1>7

LEMMA AtPlace ==
    ASSUME Stage
    PROVE  /\ At("select") => Waiting /\ stack = Bottom
           /\ At("accept") => Accepting
           /\ At("discard") => Resetting /\ \E b \in Bases : stack = Above(Call("discard"), b) /\ Tail(stack) = b
           /\ At("parse") => Reading
           /\ At("fail") => Failing /\ Tail(stack) = Bottom
           /\ At("stop") => \/ Waiting /\ stack = Above(Call("stop"), Bottom)
                            \/ Resetting /\ Tail(stack) \in Discards
                            \/ Stopping
                            \/ Failing /\ Tail(stack) = Above(Call("fail"), Bottom)
           /\ At("advance") => \E w \in Whats \ {"none"}, k \in 1 .. 3 :
                                   stack = Took(w, k) /\ Taking(w, k, <<>>)
           /\ \A place \in {"compute", "asked"} : At(place) =>
                 \/ Waiting /\ stack = Above(Call(place), Bottom)
                 \/ \E w \in Whats \ {"none"}, k \in 1 .. 3 :
                        stack = Played(place, w, k) /\ Taking(w, k, <<w>>)
<1> USE DEF At, Stage
<1>1. At("select") => Waiting /\ stack = Bottom
  <2>1. At("select") => Waiting
    BY Tops
  <2> QED BY <2>1, PlainTop DEF Waiting
<1>2. At("accept") => Accepting
  BY Tops
<1>3. At("discard") => Resetting /\ \E b \in Bases : stack = Above(Call("discard"), b) /\ Tail(stack) = b
  <2>1. At("discard") => Resetting
    BY Tops
  <2> QED BY <2>1, ResetsTop DEF Resetting
<1>4. At("parse") => Reading
  BY Tops
<1>5. At("fail") => Failing /\ Tail(stack) = Bottom
  <2>1. At("fail") => Failing
    BY Tops
  <2> QED BY <2>1, FailsTop DEF Failing
<1>6. At("stop") => \/ Waiting /\ stack = Above(Call("stop"), Bottom)
                    \/ Resetting /\ Tail(stack) \in Discards
                    \/ Stopping
                    \/ Failing /\ Tail(stack) = Above(Call("fail"), Bottom)
  <2>1. At("stop") => Waiting \/ Resetting \/ Stopping \/ Failing
    BY Tops
  <2>2. At("stop") /\ Waiting => stack = Above(Call("stop"), Bottom)
    BY PlainTop DEF Waiting
  <2>3. At("stop") /\ Resetting => Tail(stack) \in Discards
    BY ResetsTop DEF Resetting
  <2>4. At("stop") /\ Failing => Tail(stack) = Above(Call("fail"), Bottom)
    BY FailsTop DEF Failing
  <2> QED BY <2>1, <2>2, <2>3, <2>4
<1>7. "compute" \in Places /\ "asked" \in Places /\ \A k \in 1 .. 3 : k \in 0 .. 3
  BY DEF Places
<1>8. At("advance") => \E w \in Whats \ {"none"}, k \in 1 .. 3 :
                           stack = Took(w, k) /\ Taking(w, k, <<>>)
  <2> SUFFICES ASSUME At("advance")
               PROVE  \E w \in Whats \ {"none"}, k \in 1 .. 3 : stack = Took(w, k) /\ Taking(w, k, <<>>)
    OBVIOUS
  <2>1. Playing
    BY Tops
  <2>2. PICK w \in Whats \ {"none"}, k \in 1 .. 3 :
            \/ stack \in {Played("compute", w, k), Played("asked", w, k)} /\ Taking(w, k, <<w>>)
            \/ stack = Took(w, k) /\ Taking(w, k, <<>>)
    BY <2>1 DEF Playing
  <2>3. \A place \in {"compute", "asked"} : Head(Played(place, w, k)).at = place
    <3> SUFFICES ASSUME NEW place \in {"compute", "asked"}
                 PROVE  Head(Played(place, w, k)).at = place
      OBVIOUS
    <3>1. place \in Places /\ k \in 0 .. 3
      BY <1>7
    <3> QED BY <3>1, PlayedTop
  <2> QED BY <2>2, <2>3
<1>9. ASSUME NEW place \in {"compute", "asked"}, At(place)
      PROVE  \/ Waiting /\ stack = Above(Call(place), Bottom)
             \/ \E w \in Whats \ {"none"}, k \in 1 .. 3 :
                    stack = Played(place, w, k) /\ Taking(w, k, <<w>>)
  <2>1. Waiting \/ Playing
    BY <1>9, Tops
  <2>2. Waiting => stack = Above(Call(place), Bottom)
    BY <1>9, PlainTop DEF Waiting
  <2>3. CASE Playing
    <3>1. PICK w \in Whats \ {"none"}, k \in 1 .. 3 :
            \/ stack \in {Played("compute", w, k), Played("asked", w, k)} /\ Taking(w, k, <<w>>)
            \/ stack = Took(w, k) /\ Taking(w, k, <<>>)
      BY <2>3 DEF Playing
    <3>2. stack # Took(w, k)
      BY <1>7, <1>9, TookTop
    <3>3. ASSUME NEW p \in {"compute", "asked"}, stack = Played(p, w, k)
          PROVE  p = place
      <4>1. p \in Places /\ k \in 0 .. 3
        BY <1>7
      <4>2. Head(stack).at = p
        BY <3>3, <4>1, PlayedTop
      <4> QED BY <1>9, <4>2 DEF At
    <3>4. stack = Played(place, w, k) /\ Taking(w, k, <<w>>)
      BY <3>1, <3>2, <3>3
    <3> QED BY <3>4
  <2> QED BY <2>1, <2>2, <2>3
<1> QED BY <1>1, <1>2, <1>3, <1>4, <1>5, <1>6, <1>8, <1>9

-----------------------------------------------------------------------------
(* The lines of the control connection.                                       *)

LEMMA TailResets ==
    ASSUME NEW S, NEW q \in Seq(S), q # <<>>
    PROVE  /\ NoReset(q) => NoReset(Tail(q)) /\ q[1] # "RESET"
           /\ OneReset(q) => OneReset(Tail(q))
           /\ OneReset(q) /\ q[1] = "RESET" => NoReset(Tail(q))
<1> DEFINE t == Tail(q)
           n == Len(q)
<1>1. n \in Nat \ {0} /\ Len(t) = n - 1 /\ \A i \in 1 .. n - 1 : t[i] = q[i + 1]
  BY EmptySeq
<1> HIDE DEF t
<1>2. \A i \in 1 .. n - 1 : i + 1 \in 1 .. n /\ i + 1 # 1
  BY <1>1
<1>3. 1 \in 1 .. n
  BY <1>1
<1>4. \A i, j \in 1 .. n - 1 : i + 1 = j + 1 => i = j
  BY <1>1
<1> HIDE DEF n
<1>5. NoReset(q) => NoReset(t) /\ q[1] # "RESET"
  BY <1>1, <1>2, <1>3 DEF NoReset, n
<1>6. OneReset(q) => OneReset(t)
  <2> SUFFICES ASSUME OneReset(q), NEW i \in 1 .. n - 1, NEW j \in 1 .. n - 1,
                      t[i] = "RESET", t[j] = "RESET"
               PROVE  i = j
    BY <1>1 DEF OneReset
  <2>1. q[i + 1] = "RESET" /\ q[j + 1] = "RESET" /\ i + 1 \in 1 .. n /\ j + 1 \in 1 .. n
    BY <1>1, <1>2
  <2>2. i + 1 = j + 1
    BY <2>1 DEF OneReset, n
  <2> QED BY <1>4, <2>2
<1>7. OneReset(q) /\ q[1] = "RESET" => NoReset(t)
  <2> SUFFICES ASSUME OneReset(q), q[1] = "RESET", NEW i \in 1 .. n - 1, t[i] = "RESET"
               PROVE  FALSE
    BY <1>1 DEF NoReset
  <2>1. q[i + 1] = "RESET" /\ i + 1 \in 1 .. n /\ i + 1 # 1
    BY <1>1, <1>2
  <2> QED BY <1>3, <2>1 DEF OneReset, n
<1> QED BY <1>5, <1>6, <1>7 DEF t

LEMMA AppendResets ==
    ASSUME NEW S, NEW q \in Seq(S), NEW c \in S
    PROVE  /\ NoReset(q) => OneReset(Append(q, c))
           /\ c # "RESET" /\ NoReset(q) => NoReset(Append(q, c))
           /\ c # "RESET" /\ OneReset(q) => OneReset(Append(q, c))
<1> DEFINE t == Append(q, c)
           n == Len(q)
<1>1. n \in Nat /\ Len(t) = n + 1 /\ t[n + 1] = c /\ \A i \in 1 .. n : t[i] = q[i]
  BY AppendProperties, LenProperties
<1> HIDE DEF t
<1>2. \A i \in 1 .. n + 1 : i = n + 1 \/ i \in 1 .. n
  BY <1>1
<1> HIDE DEF n
<1>3. NoReset(q) => OneReset(t)
  BY <1>1, <1>2 DEF NoReset, OneReset, n
<1>4. c # "RESET" /\ NoReset(q) => NoReset(t)
  BY <1>1, <1>2 DEF NoReset, n
<1>5. c # "RESET" /\ OneReset(q) => OneReset(t)
  BY <1>1, <1>2 DEF OneReset, n
<1> QED BY <1>3, <1>4, <1>5 DEF t

LEMMA JoinType ==
    ASSUME NEW S, NEW l \in Seq(S), NEW s \in Seq(S)
    PROVE  /\ l \o s \in Seq(S) /\ Len(l \o s) = Len(l) + Len(s)
           /\ Len(l) \in Nat /\ Len(s) \in Nat
           /\ l \o s # <<>> <=> l # <<>> \/ s # <<>>
           /\ s = <<>> => l \o s = l
           /\ l = <<>> => l \o s = s
           /\ l # <<>> => Head(l \o s) = Head(l) /\ Tail(l \o s) = Tail(l) \o s
<1>1. l \o s \in Seq(S) /\ Len(l \o s) = Len(l) + Len(s) /\ Len(l) \in Nat /\ Len(s) \in Nat
  BY ConcatProperties, LenProperties
<1>2. l \o s = <<>> <=> l = <<>> /\ s = <<>>
  BY <1>1, EmptySeq
<1>3. (s = <<>> => l \o s = l) /\ (l = <<>> => l \o s = s)
  BY ConcatEmptySeq
<1>4. l # <<>> => Head(l \o s) = Head(l) /\ Tail(l \o s) = Tail(l) \o s
  <2> SUFFICES ASSUME l # <<>> PROVE Head(l \o s) = Head(l) /\ Tail(l \o s) = Tail(l) \o s
    OBVIOUS
  <2> DEFINE t == l \o s
             tt == Tail(t)
             tl == Tail(l)
             u == tl \o s
             n == Len(l)
             m == Len(s)
  <2>1. /\ t \in Seq(S) /\ Len(t) = n + m
        /\ \A i \in 1 .. n + m : t[i] = IF i <= n THEN l[i] ELSE s[i - n]
    BY ConcatProperties
  <2>2. n \in Nat \ {0} /\ m \in Nat
    BY EmptySeq
  <2>3. tl \in Seq(S) /\ Len(tl) = n - 1 /\ \A i \in 1 .. Len(tl) : tl[i] = l[i + 1]
    BY HeadTailProperties
  <2> HIDE DEF tl
  <2>4. /\ u \in Seq(S) /\ Len(u) = Len(tl) + m
        /\ \A i \in 1 .. Len(tl) + m : u[i] = IF i <= Len(tl) THEN tl[i] ELSE s[i - Len(tl)]
    BY <2>3, ConcatProperties
  <2> HIDE DEF t, u, n, m
  <2>5. Len(u) = n - 1 + m
    BY <2>2, <2>3, <2>4
  <2>6. t # <<>> /\ t[1] = l[1] /\ Head(t) = t[1] /\ Head(l) = l[1]
    BY <2>1, <2>2
  <2>7. tt \in Seq(S) /\ Len(tt) = Len(t) - 1 /\ \A i \in 1 .. Len(tt) : tt[i] = t[i + 1]
    BY <2>1, <2>6, HeadTailProperties
  <2> HIDE DEF tt
  <2>8. ASSUME NEW i \in 1 .. n - 1 + m PROVE tt[i] = u[i]
    <3>1. i + 1 \in 1 .. n + m /\ i \in 1 .. Len(tt) /\ i \in 1 .. Len(tl) + m
            /\ (i <= Len(tl) <=> i + 1 <= n) /\ (i + 1) - n = i - Len(tl)
      BY <2>1, <2>2, <2>3, <2>7
    <3>2. tt[i] = t[i + 1] /\ t[i + 1] = IF i + 1 <= n THEN l[i + 1] ELSE s[(i + 1) - n]
      BY <2>1, <2>7, <3>1
    <3>3. u[i] = IF i <= Len(tl) THEN tl[i] ELSE s[i - Len(tl)]
      BY <2>4, <3>1
    <3>4. CASE i <= Len(tl)
      <4>1. i \in 1 .. Len(tl)
        BY <2>2, <2>3, <3>4
      <4>2. tl[i] = l[i + 1]
        BY <2>3, <4>1
      <4> QED BY <3>1, <3>2, <3>3, <3>4, <4>2
    <3>5. CASE ~(i <= Len(tl))
      BY <3>1, <3>2, <3>3, <3>5
    <3> QED BY <3>4, <3>5
  <2>9. Len(tt) = Len(u)
    BY <2>1, <2>2, <2>5, <2>7
  <2>10. tt = u
    <3>1. \A i \in 1 .. Len(tt) : tt[i] = u[i]
      BY <2>5, <2>8, <2>9
    <3> QED BY <2>4, <2>7, <2>9, <3>1, SeqEqual
  <2> QED BY <2>6, <2>10 DEF t, tt, tl, u
<1> QED BY <1>1, <1>2, <1>3, <1>4

LEMMA CommandTaken ==
    ASSUME NEW A \in Nat, socket \in Seq(Commands), lines \in Seq(Commands), owed \in 0 .. A,
           Kept, NEW c, Line(c)
    PROVE  /\ lines' \in Seq(Commands) /\ socket' \in Seq(Commands) /\ hungup' = hungup
           /\ Len(Queue') + 1 <= owed /\ owed - 1 \in 0 .. A /\ Len(Queue') \in Nat
           /\ Len(Queue') + 1 = Len(Queue)
           /\ OneReset(Queue')
           /\ NoReset(Queue) => NoReset(Queue') /\ c # "RESET"
           /\ c = "RESET" => NoReset(Queue') /\ asked
<1>1. lines \in Seq(Commands) /\ socket \in Seq(Commands) /\ owed \in 0 .. A
  OBVIOUS
<1>2. Queue \in Seq(Commands) /\ Queue # <<>> /\ Head(Queue) = c /\ Len(Queue) <= owed
        /\ OneReset(Queue) /\ (~asked => NoReset(Queue))
  BY <1>1, JoinType DEF Line, HasLine, NextLine, Queue, Kept
<1>3. lines' \in Seq(Commands) /\ socket' \in Seq(Commands) /\ Queue' = Tail(Queue)
  <2>1. CASE lines # <<>>
    <3>1. lines' = Tail(lines) /\ socket' = socket
      BY <2>1 DEF Line, TakeLine
    <3>2. Tail(lines) \in Seq(Commands)
      BY <1>1, <2>1, HeadTailProperties
    <3> QED BY <1>1, <2>1, <3>1, <3>2, JoinType DEF Queue
  <2>2. CASE lines = <<>>
    <3>1. lines' = Tail(socket) /\ socket' = <<>> /\ socket # <<>>
      BY <2>2 DEF Line, TakeLine, HasLine
    <3>2. Tail(socket) \in Seq(Commands) /\ <<>> \in Seq(Commands)
      BY <1>1, <3>1, HeadTailProperties, EmptySeq
    <3>3. Queue = socket /\ lines' \o socket' = lines'
      BY <1>1, <2>2, <3>1, <3>2, JoinType DEF Queue
    <3> QED BY <3>1, <3>2, <3>3 DEF Queue
  <2> QED BY <2>1, <2>2
<1> DEFINE q == Queue
           t == Tail(q)
<1>4. /\ Head(q) = q[1] /\ t \in Seq(Commands) /\ Len(t) = Len(q) - 1
      /\ Len(q) \in Nat \ {0}
  BY <1>2, HeadTailProperties, EmptySeq DEF Queue
<1>5. /\ NoReset(q) => NoReset(t) /\ q[1] # "RESET"
      /\ OneReset(q) => OneReset(t)
      /\ OneReset(q) /\ q[1] = "RESET" => NoReset(t)
  BY <1>2, TailResets
<1> HIDE DEF q, t
<1>7. Len(t) + 1 <= owed /\ owed - 1 \in 0 .. A /\ Len(t) \in Nat /\ Len(t) + 1 = Len(q)
  BY <1>1, <1>2, <1>4 DEF q
<1>8. OneReset(t) /\ (NoReset(q) => NoReset(t) /\ c # "RESET") /\ (c = "RESET" => NoReset(t) /\ asked)
  BY <1>2, <1>4, <1>5 DEF q
<1>9. Queue' = t /\ q = Queue
  BY <1>3 DEF q, t
<1>10. hungup' = hungup
  BY DEF Line
<1> QED BY <1>3, <1>7, <1>8, <1>9, <1>10

LEMMA Commanded ==
    ASSUME NEW U, NEW A \in Nat, Typed(U, A), Kept, NEW c, Line(c)
    PROVE  /\ lines' \in Seq(Commands) /\ socket' \in Seq(Commands) /\ hungup' = hungup
           /\ Len(Queue') + 1 <= owed /\ owed - 1 \in 0 .. A /\ Len(Queue') \in Nat
           /\ Len(Queue') + 1 = Len(Queue)
           /\ OneReset(Queue')
           /\ NoReset(Queue) => NoReset(Queue') /\ c # "RESET"
           /\ c = "RESET" => NoReset(Queue') /\ asked
BY CommandTaken DEF Typed

-----------------------------------------------------------------------------
(* The steps that leave the stream alone.                                     *)

LEMMA Untouched ==
    ASSUME UNCHANGED <<link, input, parser, decoder>>, asked => asked'
    PROVE  /\ Synced => Synced'
           /\ Short' <=> Short
           /\ \A w, k, due : Taking(w, k, due) => Taking(w, k, due)'
<1> USE DEF link, input, parser
<1>1. Synced => Synced'
  BY DEF Synced, Streaming, Left
<1>2. Short' <=> Short
  BY DEF Short, Size, Unit
<1>3. \A w, k, due : Taking(w, k, due) => Taking(w, k, due)'
  BY DEF Taking, Left, StatusAfter, Streaming
<1> QED BY <1>1, <1>2, <1>3

LEMMA TypedSame ==
    ASSUME NEW U, NEW A, Typed(U, A), UNCHANGED <<link, input, parser, decoder>>,
           socket' \in Seq(Commands), lines' \in Seq(Commands), hungup' \in BOOLEAN,
           owed' \in 0 .. A, asked' \in BOOLEAN, stack' \in Seq(Frames),
           tmr' \in BOOLEAN, notmr' \in BOOLEAN
    PROVE  Typed(U, A)'
BY DEF Typed, link, input, parser

LEMMA MovedTo ==
    ASSUME NEW p \in Places, NEW w \in Whats, NEW k \in 0 .. 3, NEW s \in Seq(Frames),
           NEW q \in Places, stack = Above(Frame(p, w, k), s)
    PROVE  Moved(q) = Above(Frame(q, w, k), s)
<1>1. Head(stack) = Frame(p, w, k) /\ Tail(stack) = s
  BY Stacks
<1>2. [Frame(p, w, k) EXCEPT !.at = q] = Frame(q, w, k)
  BY DEF Frame
<1> QED BY <1>1, <1>2 DEF Moved, Above

\* A call of play_event asks once.
LEMMA Asked ==
    ASSUME Stage, At("compute")
    PROVE  \/ Waiting /\ Moved("asked") = Above(Call("asked"), Bottom) /\ Moved("asked") \in Bases
           \/ \E w \in Whats \ {"none"}, k \in 1 .. 3 :
                  /\ stack = Played("compute", w, k) /\ Taking(w, k, <<w>>)
                  /\ Moved("asked") = Played("asked", w, k)
<1>1. PICK p \in Places : p = "compute"
  BY DEF Places
<1>2. PICK q \in Places : q = "asked"
  BY DEF Places
<1>3. \/ Waiting /\ stack = Above(Call(p), Bottom)
      \/ \E w \in Whats \ {"none"}, k \in 1 .. 3 :
             stack = Played(p, w, k) /\ Taking(w, k, <<w>>)
  BY <1>1, AtPlace
<1>4. CASE Waiting /\ stack = Above(Call(p), Bottom)
  <2>1. PICK w \in Whats, k \in 0 .. 3 : w = "none" /\ k = 0
    BY DEF Whats
  <2>2. Call(p) = Frame(p, w, k) /\ Call(q) = Frame(q, w, k)
    BY <2>1 DEF Call
  <2>3. Moved(q) = Above(Frame(q, w, k), Bottom)
    BY <1>4, <2>2, BottomType, MovedTo
  <2> QED BY <1>2, <1>4, <2>2, <2>3 DEF Bases
<1>5. ASSUME NEW w \in Whats \ {"none"}, NEW k \in 1 .. 3,
             stack = Played(p, w, k), Taking(w, k, <<w>>)
      PROVE  Moved(q) = Played(q, w, k)
  <2>1. PICK z \in 0 .. 3 : z = 0
    OBVIOUS
  <2>2. Took(w, k) \in Seq(Frames) /\ stack = Above(Frame(p, w, z), Took(w, k))
    BY <1>5, <2>1, TookTop DEF Played
  <2>3. Moved(q) = Above(Frame(q, w, z), Took(w, k))
    BY <2>2, MovedTo
  <2> QED BY <2>1, <2>3 DEF Played
<1> QED BY <1>1, <1>2, <1>3, <1>4, <1>5

\* A step of the control connection, of any call.
LEMMA Carried ==
    ASSUME Stage, UNCHANGED <<link, input, parser, decoder>>, asked => asked',
           asked /\ NoReset(Queue) => NoReset(Queue'),
           Len(Queue) + 1 <= owed => Len(Queue') + 1 <= owed',
           stack' = stack \/ (At("compute") /\ stack' = Moved("asked"))
    PROVE  Stage'
<1>1. /\ Synced => Synced'
      /\ Short' <=> Short
      /\ \A w, k, due : Taking(w, k, due) => Taking(w, k, due)'
  BY Untouched
<1>2. offset' = offset /\ data' = data /\ wire' = wire
  BY DEF link, input
<1>3. Waiting /\ stack' \in Plain => Waiting'
  BY <1>1, <1>2 DEF Waiting
<1>4. CASE stack' = stack
  <2>1. Accepting => Accepting'
    BY <1>2, <1>4 DEF Accepting
  <2>2. Resetting => Resetting'
    BY <1>1, <1>2, <1>4 DEF Resetting
  <2>3. Reading => Reading'
    BY <1>1, <1>2, <1>4 DEF Reading
  <2>4. Playing => Playing'
    BY <1>1, <1>4 DEF Playing
  <2>5. Stopping => Stopping'
    BY <1>1, <1>4 DEF Stopping
  <2>6. Failing => Failing'
    BY <1>2, <1>4 DEF Failing
  <2>7. Waiting => stack' \in Plain
    BY <1>4 DEF Waiting
  <2> QED BY <1>3, <2>1, <2>2, <2>3, <2>4, <2>5, <2>6, <2>7 DEF Stage
<1>5. CASE At("compute") /\ stack' = Moved("asked")
  <2>1. CASE Waiting /\ Moved("asked") \in Bases
    BY <1>3, <1>5, <2>1 DEF Stage, Plain
  <2>2. CASE \E w \in Whats \ {"none"}, k \in 1 .. 3 :
                  /\ stack = Played("compute", w, k) /\ Taking(w, k, <<w>>)
                  /\ Moved("asked") = Played("asked", w, k)
    <3>1. Playing'
      BY <1>1, <1>5, <2>2 DEF Playing
    <3> QED BY <3>1 DEF Stage
  <2> QED BY <1>5, <2>1, <2>2, Asked
<1> QED BY <1>4, <1>5

LEMMA AskedType ==
    ASSUME Stage, At("compute")
    PROVE  Moved("asked") \in Seq(Frames)
<1>1. "asked" \in Places
  BY DEF Places
<1>2. CASE Moved("asked") \in Bases
  BY <1>2, BasesType
<1>3. CASE \E w \in Whats \ {"none"}, k \in 1 .. 3 : Moved("asked") = Played("asked", w, k)
  BY <1>1, <1>3, PlayedTop
<1> QED BY <1>2, <1>3, Asked

\* The connection is dropped by the step.
LEMMA DroppedStage ==
    ASSUME Stage, UNCHANGED <<asked, input, parser>>, Dropped,
           NoReset(Queue) => NoReset(Queue'),
           Len(Queue) + 1 <= owed => Len(Queue') + 1 <= owed',
           stack' = stack \/ (At("compute") /\ stack' = Moved("asked"))
    PROVE  Stage'
<1>1. asked' = asked /\ offset' = offset /\ length' = length /\ data' = "closed" /\ wire' = <<>>
  BY DEF input, Dropped
<1>2. Synced'
  BY <1>1 DEF Synced, Streaming
<1>3. \A w, k, due, d : Taking(w, k, d) => Taking(w, k, due)'
  BY <1>1 DEF Taking, Streaming
<1>4. Waiting /\ stack' \in Plain => Waiting'
  BY <1>1, <1>2 DEF Waiting
<1>5. CASE stack' = stack
  <2>1. Accepting => Accepting'
    BY <1>1, <1>5 DEF Accepting
  <2>2. Resetting => Resetting'
    BY <1>1, <1>5 DEF Resetting
  <2>3. Reading => Reading'
    BY <1>1, <1>2, <1>5 DEF Reading
  <2>4. Playing => Playing'
    BY <1>3, <1>5 DEF Playing
  <2>5. Stopping => Stopping'
    BY <1>3, <1>5 DEF Stopping
  <2>6. Failing => Failing'
    BY <1>1, <1>5 DEF Failing
  <2>7. Waiting => stack' \in Plain
    BY <1>5 DEF Waiting
  <2> QED BY <1>4, <2>1, <2>2, <2>3, <2>4, <2>5, <2>6, <2>7 DEF Stage
<1>6. CASE At("compute") /\ stack' = Moved("asked")
  <2>1. CASE Waiting /\ Moved("asked") \in Bases
    BY <1>4, <1>6, <2>1 DEF Stage, Plain
  <2>2. CASE \E w \in Whats \ {"none"}, k \in 1 .. 3 :
                  /\ stack = Played("compute", w, k) /\ Taking(w, k, <<w>>)
                  /\ Moved("asked") = Played("asked", w, k)
    <3>1. Playing'
      BY <1>3, <1>6, <2>2 DEF Playing
    <3> QED BY <3>1 DEF Stage
  <2> QED BY <1>6, <2>1, <2>2, Asked
<1> QED BY <1>5, <1>6

\* server_reset.
LEMMA Restarted ==
    ASSUME NEW U, NEW A \in Nat, Typed(U, A), Initialize, UNCHANGED <<link, hungup>>,
           wire = <<>>, offset = 0, offset' = 0, torn' = FALSE, asked' = FALSE,
           socket' \in Seq(Commands), lines' \in Seq(Commands), owed' \in 0 .. A,
           Len(Queue') <= owed', NoReset(Queue'), data = "closed" => ~ended,
           stack' \in Bases
    PROVE  Sane(U, A)'
<1>1. /\ data' = data /\ wire' = <<>> /\ ended' = ended /\ offset' = 0
      /\ buffer' = <<>> /\ length' = 0 /\ rstatus' = "none" /\ prefix' = FALSE
      /\ tmr' = FALSE /\ notmr' = FALSE /\ decoder' = Decoder("none") /\ hungup' = hungup
  BY DEF Initialize, link
<1> DEFINE d == Decoder("none")
<1>2. d \in Decoders /\ d = Between("none", FALSE, "none", <<>>)
  BY DEF Decoder, Decoders, Between, Statuses, Whats
<1> HIDE DEF d
<1>3. <<>> \in Seq(U) /\ Len(<<>>) = 0
  BY EmptySeq
<1>4. stack' \in Seq(Frames) /\ "none" \in Statuses
  BY BasesType DEF Statuses
<1>5. Typed(U, A)'
  <2>1. length' \in 0 .. Len(buffer') /\ offset' \in 0 .. length' /\ buffer' \in Seq(U)
    BY <1>1, <1>3
  <2>2. decoder' \in Decoders /\ rstatus' \in Statuses /\ stack' \in Seq(Frames)
    BY <1>1, <1>2, <1>4 DEF d
  <2>3. /\ prefix' \in BOOLEAN /\ tmr' \in BOOLEAN /\ notmr' \in BOOLEAN
        /\ hungup' \in BOOLEAN /\ asked' \in BOOLEAN /\ ended' \in BOOLEAN
    BY <1>1 DEF Typed
  <2>4. wire' \in Seq(U) /\ data' \in {"closed", "open"}
    BY <1>1, <1>3 DEF Typed
  <2> QED BY <2>1, <2>2, <2>3, <2>4 DEF Typed
<1>6. Kept'
  BY <1>1 DEF Kept, OneReset, NoReset
<1>7. Left(0)' = <<>>
  <2>1. SubSeq(<<>>, 1, 0) = <<>>
    OBVIOUS
  <2>2. <<>> \o <<>> = <<>>
    OBVIOUS
  <2>3. offset' + 0 + 1 = 1
    BY <1>1
  <2> QED BY <1>1, <2>1, <2>2, <2>3 DEF Left
<1>8. Synced'
  <2>1. Reads(d, <<>>, d)
    BY <1>2, ReadsNone
  <2>2. "none" \in Whats
    BY DEF Whats
  <2>3. InStep("none", FALSE, <<>>, <<>>, d)
    BY <1>2, <2>1, <2>2 DEF InStep
  <2> QED BY <1>1, <1>7, <2>3 DEF Synced, d
<1>9. Waiting'
  BY <1>1, <1>8 DEF Waiting, Short, Plain
<1> QED BY <1>5, <1>6, <1>9 DEF Sane, Stage

-----------------------------------------------------------------------------
(* Commands.                                                                  *)

Back == stack' = stack \/ (At("compute") /\ stack' = Moved("asked"))

LEMMA BackType ==
    ASSUME NEW U, NEW A, Sane(U, A), Back
    PROVE  stack' \in Seq(Frames)
<1>1. Stage /\ stack \in Seq(Frames)
  BY DEF Sane, Stage, Typed
<1> QED BY <1>1, AskedType DEF Back

LEMMA AnswerGiven ==
    ASSUME NEW A \in Nat, socket \in Seq(Commands), lines \in Seq(Commands),
           owed \in 0 .. A, hungup \in BOOLEAN, Kept,
           NEW c, Line(c), Answer, asked' = asked
    PROVE  /\ socket' \in Seq(Commands) /\ lines' \in Seq(Commands) /\ hungup' \in BOOLEAN
           /\ owed' \in 0 .. A /\ Len(Queue') <= owed'
           /\ Len(Queue) + 1 <= owed => Len(Queue') + 1 <= owed'
           /\ OneReset(Queue') /\ (~asked' => NoReset(Queue'))
<1>2. /\ lines' \in Seq(Commands) /\ socket' \in Seq(Commands) /\ hungup' = hungup
      /\ Len(Queue') + 1 <= owed /\ owed - 1 \in 0 .. A /\ Len(Queue') \in Nat
      /\ Len(Queue') + 1 = Len(Queue)
      /\ OneReset(Queue') /\ (NoReset(Queue) => NoReset(Queue'))
  BY CommandTaken
<1>3. hungup \in BOOLEAN /\ owed \in Nat /\ owed' = owed - 1 /\ (~asked => NoReset(Queue))
  BY DEF Kept, Answer
<1> DEFINE m == Len(Queue')
           n == Len(Queue)
<1>4. PICK o : o = owed'
  OBVIOUS
<1>5. m + 1 <= owed /\ m + 1 = n /\ m \in Nat /\ o = owed - 1
  BY <1>2, <1>3, <1>4
<1> HIDE DEF m, n
<1>6. m <= o /\ (n + 1 <= owed => m + 1 <= o)
  BY <1>3, <1>5
<1> QED BY <1>2, <1>3, <1>4, <1>6, Zenon DEF m, n

LEMMA AnsweredStep ==
    ASSUME NEW U, NEW A \in Nat, Sane(U, A), NEW c, Line(c), Answer, asked' = asked
    PROVE  /\ socket' \in Seq(Commands) /\ lines' \in Seq(Commands) /\ hungup' \in BOOLEAN
           /\ owed' \in 0 .. A /\ Len(Queue') <= owed'
           /\ Len(Queue) + 1 <= owed => Len(Queue') + 1 <= owed'
           /\ OneReset(Queue') /\ (~asked' => NoReset(Queue'))
BY AnswerGiven DEF Sane, Typed

LEMMA NopStep ==
    ASSUME NEW U, NEW A \in Nat, Sane(U, A), NEW c, c # "RESET", Line(c), Answer, Back,
           UNCHANGED <<asked, link, input, parser, timers, decoder>>
    PROVE  Sane(U, A)'
<1>1. Typed(U, A) /\ Kept /\ Stage
  BY DEF Sane, Stage
<1>2. /\ socket' \in Seq(Commands) /\ lines' \in Seq(Commands) /\ hungup' \in BOOLEAN
      /\ owed' \in 0 .. A /\ Len(Queue') <= owed'
      /\ Len(Queue) + 1 <= owed => Len(Queue') + 1 <= owed'
      /\ OneReset(Queue') /\ (~asked' => NoReset(Queue'))
  BY AnsweredStep
<1>3. (NoReset(Queue) => NoReset(Queue'))
  BY <1>1, Commanded
<1>4. /\ asked' \in BOOLEAN /\ stack' \in Seq(Frames) /\ tmr' \in BOOLEAN /\ notmr' \in BOOLEAN
      /\ asked' = asked /\ UNCHANGED <<link, input, parser, decoder>>
  BY <1>1, BackType DEF Typed, timers
<1>5. Typed(U, A)'
  BY <1>1, <1>2, <1>4, TypedSame
<1>6. Kept'
  BY <1>1, <1>2, <1>4 DEF Kept, link
<1>7. Stage'
  BY <1>1, <1>2, <1>3, <1>4, Carried DEF Back
<1> QED BY <1>5, <1>6, <1>7 DEF Sane, Stage

LEMMA CloseStep ==
    ASSUME NEW U, NEW A \in Nat, Sane(U, A), Line("CLOSE"), Answer, Dropped, Back,
           UNCHANGED <<asked, input, parser, timers, decoder>>
    PROVE  Sane(U, A)'
<1>1. Typed(U, A) /\ Kept /\ Stage
  BY DEF Sane, Stage
<1>2. /\ socket' \in Seq(Commands) /\ lines' \in Seq(Commands) /\ hungup' \in BOOLEAN
      /\ owed' \in 0 .. A /\ Len(Queue') <= owed'
      /\ Len(Queue) + 1 <= owed => Len(Queue') + 1 <= owed'
      /\ OneReset(Queue') /\ (~asked' => NoReset(Queue'))
  BY AnsweredStep
<1>3. NoReset(Queue) => NoReset(Queue')
  BY <1>1, Commanded
<1>4. stack' \in Seq(Frames) /\ <<>> \in Seq(U)
  BY BackType, EmptySeq
<1>5. Typed(U, A)'
  BY <1>1, <1>2, <1>4 DEF Typed, Dropped, input, parser, timers
<1>6. Kept'
  BY <1>2 DEF Kept, Dropped
<1>7. Stage'
  BY <1>1, <1>2, <1>3, DroppedStage DEF Back
<1> QED BY <1>5, <1>6, <1>7 DEF Sane, Stage

\* RESET is pushed over what doit or ctl_read is in.
LEMMA ResetStep ==
    ASSUME NEW U, NEW A \in Nat, Sane(U, A), Line("RESET"), Waiting,
           NEW rest \in Bases,
           stack' = <<Frame("stop", "none", 0), Frame("discard", "none", 0)>> \o rest,
           UNCHANGED <<owed, asked, link, input, parser, timers, decoder>>
    PROVE  Sane(U, A)'
<1>1. Typed(U, A) /\ Kept
  BY DEF Sane, Stage
<1>2. /\ lines' \in Seq(Commands) /\ socket' \in Seq(Commands) /\ hungup' = hungup
      /\ Len(Queue') + 1 <= owed /\ owed - 1 \in 0 .. A /\ Len(Queue') \in Nat
      /\ NoReset(Queue') /\ asked
  BY <1>1, Commanded
<1>3. /\ asked' = asked /\ owed' = owed /\ UNCHANGED <<link, input, parser, decoder>>
      /\ tmr' = tmr /\ notmr' = notmr
  BY DEF timers
<1>4. stack' \in Resets /\ stack' \in Seq(Frames)
  <2>1. Call("stop") \in Frames /\ Call("discard") \in Frames /\ rest \in Seq(Frames)
    BY CallType, BasesType DEF Places
  <2>2. stack' = Above(Call("stop"), Above(Call("discard"), rest))
    BY <2>1, PushTwo DEF Call
  <2>3. stack' \in Resets
    BY <2>2 DEF Resets, Discards
  <2> QED BY <2>3, ResetsTop
<1>5. Typed(U, A)'
  BY <1>1, <1>2, <1>3, <1>4, TypedSame DEF Typed
<1>6. Len(Queue') <= owed' /\ Len(Queue') + 1 <= owed'
  <2> DEFINE m == Len(Queue')
  <2>1. m + 1 <= owed /\ m \in Nat /\ owed \in Nat
    BY <1>1, <1>2 DEF Typed
  <2> HIDE DEF m
  <2>2. m <= owed /\ m + 1 <= owed
    BY <2>1
  <2> QED BY <1>3, <2>2, Zenon DEF m
<1>7. Kept'
  BY <1>1, <1>2, <1>3, <1>6 DEF Kept, link, OneReset, NoReset
<1>8. Resetting'
  <2>1. Short' <=> Short
    BY <1>3, Untouched
  <2> QED BY <1>2, <1>3, <1>4, <1>6, <2>1 DEF Resetting, Waiting, link, input
<1> QED BY <1>5, <1>7, <1>8 DEF Sane, Stage

LEMMA OpenStep ==
    ASSUME NEW U, NEW A \in Nat, Sane(U, A), At("select"), Open(stack)
    PROVE  Sane(U, A)'
<1>1. Typed(U, A) /\ Kept /\ Waiting /\ stack = Bottom
  BY AtPlace DEF Sane, Stage
<1>2. /\ lines' \in Seq(Commands) /\ socket' \in Seq(Commands) /\ hungup' = hungup
      /\ Len(Queue') + 1 <= owed /\ Len(Queue') \in Nat
      /\ OneReset(Queue') /\ (NoReset(Queue) => NoReset(Queue'))
  BY <1>1, Commanded DEF Open
<1>3. /\ asked' = asked /\ owed' = owed /\ UNCHANGED <<link, input, parser, decoder>>
      /\ tmr' = tmr /\ notmr' = notmr /\ data = "closed"
  BY DEF Open, timers
<1>4. stack' = Accepts
  BY <1>1 DEF Open, Accepts, Above, Call
<1>5. Typed(U, A)'
  BY <1>1, <1>2, <1>3, <1>4, AcceptsTop, TypedSame DEF Typed
<1>6. Len(Queue') <= owed' /\ Len(Queue') + 1 <= owed'
  <2> DEFINE m == Len(Queue')
  <2>1. m + 1 <= owed /\ m \in Nat /\ owed \in Nat
    BY <1>1, <1>2 DEF Typed
  <2> HIDE DEF m
  <2>2. m <= owed /\ m + 1 <= owed
    BY <2>1
  <2> QED BY <1>3, <2>2, Zenon DEF m
<1>7. Kept'
  BY <1>1, <1>2, <1>3, <1>6 DEF Kept, link
<1>8. Accepting'
  BY <1>1, <1>3, <1>4, <1>6 DEF Accepting, Waiting, link, input
<1> QED BY <1>5, <1>7, <1>8 DEF Sane, Stage

LEMMA ServeStep ==
    ASSUME NEW U, NEW A \in Nat, Sane(U, A), Serve
    PROVE  Sane(U, A)'
<1>1. Typed(U, A) /\ Kept /\ Waiting /\ stack = Bottom /\ At("select")
  BY AtPlace DEF Sane, Stage, Serve
<1>2. CASE Nop(stack)
  <2>1. PICK c \in {"NOP", "OPEN"} : Line(c)
    BY <1>2 DEF Nop
  <2>2. Answer /\ Back /\ UNCHANGED <<asked, link, input, parser, timers, decoder>>
    BY <1>2 DEF Nop, Back
  <2> QED BY <2>1, <2>2, NopStep
<1>3. CASE Close(stack)
  BY <1>3, CloseStep DEF Close, Back
<1>4. CASE Open(stack)
  BY <1>1, <1>4, OpenStep
<1>5. CASE Reset(stack)
  <2>1. stack \in Bases /\ Line("RESET")
    BY <1>1, <1>5 DEF Bases, Reset
  <2>2. CASE data = "open"
    BY <1>1, <1>5, <2>1, <2>2, ResetStep DEF Reset
  <2>3. CASE data # "open"
    <3>1. /\ Initialize /\ asked' = FALSE /\ Answer /\ stack' = stack /\ UNCHANGED link
          /\ offset' = offset /\ torn' = FALSE
      BY <1>1, <1>5, <2>1, <2>3, BasesOutside DEF Reset, ServerReset, Typed
    <3>2. /\ lines' \in Seq(Commands) /\ socket' \in Seq(Commands) /\ hungup' = hungup
          /\ Len(Queue') + 1 <= owed /\ owed - 1 \in 0 .. A /\ Len(Queue') \in Nat
          /\ NoReset(Queue')
      BY <1>1, <2>1, Commanded
    <3>3. owed' \in 0 .. A /\ Len(Queue') <= owed'
      <4> DEFINE m == Len(Queue')
      <4>1. PICK o : o = owed - 1
        OBVIOUS
      <4>2. m + 1 <= owed /\ m \in Nat /\ owed \in Nat /\ o \in 0 .. A
        BY <1>1, <3>2, <4>1 DEF Typed
      <4> HIDE DEF m
      <4>3. m <= o
        BY <4>1, <4>2
      <4> QED BY <3>1, <4>1, <4>2, <4>3, Zenon DEF m, Answer
    <3>4. wire = <<>> /\ offset = 0 /\ (data = "closed" => ~ended)
      BY <1>1, <2>3 DEF Kept, Waiting, Typed
    <3> QED BY <1>1, <2>1, <3>1, <3>2, <3>3, <3>4, Restarted
  <2> QED BY <2>2, <2>3
<1> QED BY <1>2, <1>3, <1>4, <1>5 DEF Serve, Command

LEMMA SaneLoose ==
    ASSUME NEW U, NEW A, Typed(U, A)
    PROVE  Loose(U, A) /\ offset <= length
<1>1. offset \in 0 .. length /\ length \in 0 .. Len(buffer) /\ Len(buffer) \in Nat
  BY LenProperties DEF Typed
<1>2. offset \in Nat /\ offset <= length
  BY <1>1
<1> QED BY <1>2 DEF Typed, Loose

LEMMA HeadsDiffer ==
    ASSUME NEW w \in Whats, NEW k \in 0 .. 3
    PROVE  /\ Played("asked", w, k) # Halts
           /\ Played("asked", w, k) # Above(Call("stop"), Above(Call("fail"), Bottom))
           /\ Halts # Above(Call("stop"), Above(Call("fail"), Bottom))
<1>1. /\ "asked" \in Places /\ "stop" \in Places /\ "fail" \in Places
      /\ "stop" \in Whats /\ 1 \in 0 .. 3
  BY DEF Places, Whats
<1>2. Head(Played("asked", w, k)).at = "asked"
  BY AskedTop
<1>3. /\ Above(Call("fail"), Bottom) \in Seq(Frames)
      /\ Head(Above(Call("fail"), Bottom)).at = "fail"
  BY <1>1, Calls, BottomType
<1>4. /\ Head(Above(Call("stop"), Above(Call("fail"), Bottom))).at = "stop"
      /\ Tail(Above(Call("stop"), Above(Call("fail"), Bottom))) = Above(Call("fail"), Bottom)
  BY <1>1, <1>3, Calls
<1>5. Head(Took("stop", 1)).at = "advance"
  BY <1>1, TookTop
<1> QED BY <1>2, <1>3, <1>4, <1>5, HaltsTop

\* One event has one size.
LEMMA PlayedOnce ==
    ASSUME NEW w \in Whats, NEW k \in 0 .. 3, NEW v \in Whats, NEW n \in 0 .. 3,
           Played("asked", w, k) = Played("asked", v, n)
    PROVE  w = v /\ k = n
<1>1. Took(w, k) = Tail(Played("asked", w, k))
  BY AskedTop
<1>2. Took(v, n) = Tail(Played("asked", v, n))
  BY AskedTop
<1>3. Head(Took(w, k)).what = w /\ Head(Took(w, k)).size = k
  BY TookTop
<1>4. Head(Took(v, n)).what = v /\ Head(Took(v, n)).size = n
  BY TookTop
<1> QED BY <1>1, <1>2, <1>3, <1>4

LEMMA RoomPlayed ==
    ASSUME NEW U, NEW A, Typed(U, A), NEW w \in Whats \ {"none"}, NEW k \in 1 .. 3,
           NEW due, Taking(w, k, due)
    PROVE  Room(Played("asked", w, k))
<1>1. offset + k <= length /\ offset <= length
  BY SaneLoose DEF Taking
<1>2. k \in 0 .. 3 /\ \A n \in 1 .. 3 : n \in 0 .. 3
  OBVIOUS
<1>3. Played("asked", w, k) # Halts
  BY <1>2, HeadsDiffer
<1>4. ASSUME NEW v \in Whats \ {"none"}, NEW n \in 1 .. 3, Played("asked", w, k) = Played("asked", v, n)
      PROVE  offset + n <= length
  <2>1. k = n
    BY <1>2, <1>4, PlayedOnce
  <2> QED BY <1>1, <2>1
<1> QED BY <1>1, <1>3, <1>4 DEF Room

LEMMA RoomHalts ==
    ASSUME NEW U, NEW A, Typed(U, A), offset + 1 <= length
    PROVE  Room(Halts)
<1>1. offset <= length
  BY SaneLoose
<1>2. \A w \in Whats \ {"none"}, k \in 1 .. 3 : Halts # Played("asked", w, k)
  <2>1. \A k \in 1 .. 3 : k \in 0 .. 3
    OBVIOUS
  <2> QED BY <2>1, HeadsDiffer
<1> QED BY <1>1, <1>2 DEF Room

LEMMA RoomFails ==
    ASSUME NEW U, NEW A, Typed(U, A), stack \in Fails, At("stop")
    PROVE  /\ stack = Above(Call("stop"), Above(Call("fail"), Bottom))
           /\ Room(stack)
<1>1. "stop" \in Places /\ "fail" \in Places
  BY DEF Places
<1>2. Head(Above(Call("fail"), Bottom)).at = "fail"
  BY <1>1, Calls, BottomType
<1>3. stack = Above(Call("stop"), Above(Call("fail"), Bottom))
  BY <1>2 DEF Fails, At
<1>4. \A w \in Whats \ {"none"}, k \in 1 .. 3 : stack # Played("asked", w, k)
  <2>1. \A k \in 1 .. 3 : k \in 0 .. 3
    OBVIOUS
  <2> QED BY <1>3, <2>1, HeadsDiffer
<1>5. stack # Halts
  <2>1. PICK w \in Whats, k \in 0 .. 3 : w = "none" /\ k = 0
    BY DEF Whats
  <2> QED BY <1>3, <2>1, HeadsDiffer
<1> QED BY <1>3, <1>4, <1>5, SaneLoose DEF Room

\* RESET is pushed over an event.
LEMMA ResetInside ==
    ASSUME NEW U, NEW A \in Nat, Loose(U, A), Kept, Line("RESET"),
           NEW rest \in Inners, IF torn THEN Empty ELSE Room(rest),
           stack' = <<Frame("stop", "none", 0), Frame("discard", "none", 0)>> \o rest,
           UNCHANGED <<owed, asked, link, input, parser, timers, decoder>>
    PROVE  Astray(U, A)'
<1>1. /\ lines' \in Seq(Commands) /\ socket' \in Seq(Commands) /\ hungup' = hungup
      /\ Len(Queue') + 1 <= owed /\ Len(Queue') \in Nat
      /\ OneReset(Queue') /\ NoReset(Queue') /\ asked
  BY CommandTaken DEF Loose
<1>2. stack' = Above(Call("stop"), Above(Call("discard"), rest)) /\ stack' \in Seq(Frames)
  <2>1. Call("stop") \in Frames /\ Call("discard") \in Frames /\ rest \in Seq(Frames)
    BY CallType, InnersTop DEF Places
  <2>2. stack' = Above(Call("stop"), Above(Call("discard"), rest))
    BY <2>1, PushTwo DEF Call
  <2>3. Above(Call("discard"), rest) \in Seq(Frames)
    BY <2>1, AboveFacts
  <2> QED BY <2>1, <2>2, <2>3, AboveFacts
<1>3. Loose(U, A)'
  BY <1>1, <1>2 DEF Loose, link, input, parser, timers
<1>4. Len(Queue') <= owed' /\ Len(Queue') + 1 <= owed'
  <2> DEFINE m == Len(Queue')
  <2>1. m + 1 <= owed /\ m \in Nat /\ owed \in Nat
    BY <1>1 DEF Loose
  <2> HIDE DEF m
  <2>2. m <= owed /\ m + 1 <= owed
    BY <2>1
  <2> QED BY <2>2, Zenon DEF m
<1>5. Kept'
  BY <1>1, <1>4 DEF Kept, link
<1>6. (IF torn THEN Empty ELSE Room(rest))'
  BY DEF Empty, Room, input
<1>7. Holding(rest)'
  BY <1>1, <1>2, <1>4, <1>6 DEF Holding
<1> QED BY <1>3, <1>5, <1>7 DEF Astray, Held

LEMMA AskStep ==
    ASSUME NEW U, NEW A \in Nat, Sane(U, A), Ask
    PROVE  IInv(U, A)'
<1>1. Typed(U, A) /\ Kept /\ Stage /\ Asks /\ data = "open"
  BY DEF Sane, Stage, Ask, Asks
<1>2. /\ stack' = Returned => Back
      /\ Returned \in {stack, Moved("asked")}
  BY <1>1 DEF Returned, Back
<1>3. CASE Nop(Returned)
  <2>1. PICK c \in {"NOP", "OPEN"} : Line(c)
    BY <1>3 DEF Nop
  <2>2. Answer /\ Back /\ UNCHANGED <<asked, link, input, parser, timers, decoder>>
    BY <1>2, <1>3 DEF Nop
  <2> QED BY <2>1, <2>2, NopStep DEF IInv
<1>4. CASE Close(Returned)
  BY <1>2, <1>4, CloseStep DEF Close, IInv
<1>5. ~Open(Returned)
  BY <1>1 DEF Open
<1>6. CASE Reset(Returned)
  <2>1. /\ Line("RESET") /\ UNCHANGED <<owed, asked, link, input, parser, timers, decoder>>
        /\ stack' = <<Frame("stop", "none", 0), Frame("discard", "none", 0)>> \o Returned
    BY <1>1, <1>6 DEF Reset
  <2>2. ~NoReset(Queue)
    BY <1>1, <2>1, Commanded
  <2>3. (Waiting /\ Returned \in Bases) \/ (Returned \in Inners /\ Room(Returned))
    <3>1. CASE At("compute")
      <4>1. Returned = Moved("asked")
        BY <3>1 DEF Returned
      <4>2. ASSUME NEW w \in Whats \ {"none"}, NEW k \in 1 .. 3, Taking(w, k, <<w>>),
                   Returned = Played("asked", w, k)
            PROVE  Returned \in Inners /\ Room(Returned)
        BY <1>1, <4>2, RoomPlayed DEF Inners
      <4> QED BY <1>1, <3>1, <4>1, <4>2, Asked
    <3>2. CASE ~At("compute")
      <4>1. At("stop") /\ Returned = stack
        BY <1>1, <3>2 DEF Asks, Returned
      <4>2. \/ Waiting /\ stack = Above(Call("stop"), Bottom)
            \/ Stopping
            \/ Failing /\ Tail(stack) = Above(Call("fail"), Bottom)
        BY <1>1, <2>2, <4>1, AtPlace DEF Resetting
      <4>3. CASE Stopping
        BY <1>1, <4>1, <4>3, RoomHalts DEF Stopping, Inners, Taking
      <4>4. CASE Failing /\ Tail(stack) = Above(Call("fail"), Bottom)
        BY <1>1, <4>1, <4>4, RoomFails DEF Failing, Inners
      <4> QED BY <4>1, <4>2, <4>3, <4>4 DEF Bases
    <3> QED BY <3>1, <3>2
  <2>4. CASE Waiting /\ Returned \in Bases
    BY <2>1, <2>4, ResetStep DEF IInv
  <2>5. CASE Returned \in Inners /\ Room(Returned)
    BY <1>1, <2>1, <2>5, SaneLoose, ResetInside DEF IInv, Typed
  <2> QED BY <2>3, <2>4, <2>5
<1> QED BY <1>3, <1>4, <1>5, <1>6 DEF Ask, Command

LEMMA AskLeaveStep ==
    ASSUME NEW U, NEW A \in Nat, Sane(U, A), AskLeave
    PROVE  Sane(U, A)'
<1>1. Typed(U, A) /\ Kept /\ Stage
  BY DEF Sane, Stage
<1>2. Back /\ UNCHANGED <<asked, link, input, parser, timers, decoder>>
  BY DEF AskLeave, Asks, Returned, Back
<1>3. CASE HasLine
  <2>1. Line("QUIT") /\ Answer
    BY <1>3 DEF AskLeave
  <2>2. PICK c : c = "QUIT"
    OBVIOUS
  <2> QED BY <1>2, <2>1, <2>2, NopStep
<1>4. CASE ~HasLine
  <2>1. UNCHANGED <<socket, lines, hungup, owed>>
    BY <1>4 DEF AskLeave
  <2>2. Queue' = Queue 
    BY <2>1 DEF Queue
  <2>3. Stage'
    BY <1>1, <1>2, <2>1, <2>2, Carried DEF Back
  <2>4. stack' \in Seq(Frames)
    BY <1>2, BackType
  <2>5. Typed(U, A)'
    BY <1>1, <1>2, <2>1, <2>4, TypedSame DEF Typed, timers
  <2>6. Kept'
    BY <1>1, <1>2, <2>1, <2>2 DEF Kept, link
  <2> QED BY <2>3, <2>5, <2>6 DEF Sane, Stage
<1> QED BY <1>3, <1>4

-----------------------------------------------------------------------------
(* The reset of the data connection, and the connection.                      *)

LEMMA DiscardStep ==
    ASSUME NEW U, NEW A \in Nat, Sane(U, A), Discard
    PROVE  Sane(U, A)'
<1>1. Typed(U, A) /\ Kept /\ Resetting
  BY AtPlace DEF Sane, Stage, Discard
<1>2. wire' = <<>> /\ UNCHANGED <<control, data, ended, input, parser, timers, stack, decoder>>
  BY DEF Discard
<1>3. <<>> \in Seq(U)
  BY EmptySeq
<1>4. Typed(U, A)'
  BY <1>1, <1>2, <1>3 DEF Typed, control, input, parser, timers
<1>5. Queue' = Queue /\ UNCHANGED <<owed, asked, data, ended, offset, length>>
  BY <1>2 DEF Queue, control, input
<1>6. Kept'
  BY <1>1, <1>2, <1>5 DEF Kept
<1>7. Short' <=> Short
  BY <1>2 DEF Short, Size, Unit, input, parser
<1>8. Resetting'
  BY <1>1, <1>2, <1>5, <1>7 DEF Resetting
<1> QED BY <1>4, <1>6, <1>8 DEF Sane, Stage

LEMMA DiscardedStep ==
    ASSUME NEW U, NEW A \in Nat, Sane(U, A), Discarded
    PROVE  Sane(U, A)'
<1>1. Typed(U, A) /\ Kept /\ Resetting /\ wire = <<>> /\ offset = 0
        /\ Tail(stack) \in Bases /\ ~ended
  BY AtPlace DEF Sane, Stage, Discarded, Resetting
<1>2. /\ Initialize /\ UNCHANGED <<link, socket, lines, hungup>> /\ asked' = FALSE
      /\ owed' = owed - 1 /\ stack' \in Bases /\ offset' = offset /\ torn' = FALSE
  BY <1>1, BasesOutside DEF Discarded, ServerReset, Answer, Typed
<1>3. Queue' = Queue /\ NoReset(Queue)
  BY <1>1, <1>2 DEF Queue, Resetting
<1>4. owed' \in 0 .. A /\ Len(Queue') <= owed'
  <2> DEFINE m == Len(Queue)
  <2>1. PICK o : o = owed - 1
    OBVIOUS
  <2>2. m \in Nat /\ m + 1 <= owed /\ owed \in 0 .. A
    BY <1>1, JoinType DEF Typed, Resetting, Queue
  <2> HIDE DEF m
  <2>3. o \in 0 .. A /\ m <= o
    BY <2>1, <2>2
  <2> QED BY <1>2, <1>3, <2>1, <2>3, Zenon DEF m
<1>5. socket' \in Seq(Commands) /\ lines' \in Seq(Commands)
  BY <1>1, <1>2 DEF Typed
<1> QED BY <1>1, <1>2, <1>3, <1>4, <1>5, Restarted

LEMMA OverStep ==
    ASSUME NEW U, NEW A \in Nat, Over
    PROVE  Sane(U, A)'
<1>2. /\ socket' = <<>> /\ lines' = <<>> /\ hungup' = FALSE /\ owed' = 0 /\ asked' = FALSE
      /\ data' = "closed" /\ wire' = <<>> /\ ended' = FALSE /\ offset' = 0
      /\ buffer' = <<>> /\ length' = 0 /\ rstatus' = "none" /\ prefix' = FALSE
      /\ tmr' = FALSE /\ notmr' = FALSE /\ decoder' = Decoder("none") /\ stack' = <<>>
      /\ torn' = FALSE
  BY DEF Over, Dropped, Initialize
<1>3. Decoder("none") \in Decoders /\ "none" \in Statuses
  BY DEF Decoder, Decoders, Statuses, Whats
<1>4. /\ \A S : <<>> \in Seq(S)
      /\ Len(<<>>) = 0 /\ <<>> \o <<>> = <<>>
  BY EmptySeq
<1>5. Typed(U, A)'
  <2>1. length' \in 0 .. Len(buffer') /\ offset' \in 0 .. length' /\ buffer' \in Seq(U)
          /\ owed' \in 0 .. A
    BY <1>2, <1>4
  <2>2. decoder' \in Decoders /\ rstatus' \in Statuses /\ stack' \in Seq(Frames)
    BY <1>2, <1>3, <1>4
  <2>3. /\ prefix' \in BOOLEAN /\ tmr' \in BOOLEAN /\ notmr' \in BOOLEAN
        /\ hungup' \in BOOLEAN /\ asked' \in BOOLEAN /\ ended' \in BOOLEAN
    BY <1>2
  <2>4. wire' \in Seq(U) /\ data' \in {"closed", "open"}
          /\ socket' \in Seq(Commands) /\ lines' \in Seq(Commands)
    BY <1>2, <1>4
  <2>5. torn' = FALSE
    BY <1>2
  <2> QED BY <2>1, <2>2, <2>3, <2>4, <2>5 DEF Typed
<1>6. Kept'
  <2>1. Queue' = <<>>
    BY <1>2, <1>4 DEF Queue
  <2> QED BY <1>2, <1>4, <2>1 DEF Kept, NoReset, OneReset
<1>7. Waiting'
  BY <1>2 DEF Waiting, Plain, Synced, Streaming
<1> QED BY <1>5, <1>6, <1>7 DEF Sane, Stage

LEMMA LeaveStep ==
    ASSUME NEW U, NEW A \in Nat, Sane(U, A), Leave
    PROVE  Sane(U, A)'
BY OverStep DEF Leave

\* The base that a RESET goes back to without an answer.
LEMMA ResetFailsStep ==
    ASSUME NEW U, NEW A \in Nat, Sane(U, A), ResetFails
    PROVE  Sane(U, A)'
<1>1. Typed(U, A) /\ Kept /\ Resetting /\ wire = <<>> /\ offset = 0
        /\ Tail(stack) \in Bases /\ ended
  BY AtPlace DEF Sane, Stage, ResetFails, Resetting
<1>2. CASE Over
  BY <1>1, <1>2, OverStep
<1>3. CASE /\ stack' = Tail(stack)
           /\ UNCHANGED <<control, link, input, parser, timers, decoder>>
  <2>1. /\ UNCHANGED <<asked, link, input, parser, decoder, socket, lines, hungup, owed, tmr, notmr>>
        /\ stack' \in Bases /\ stack' \in Seq(Frames) /\ Queue' = Queue
    BY <1>1, <1>3, BasesType DEF control, timers, Queue
  <2>2. Typed(U, A)'
    BY <1>1, <2>1, TypedSame DEF Typed
  <2>3. Kept'
    BY <1>1, <2>1 DEF Kept, link
  <2>4. Short' <=> Short
    BY <2>1, Untouched
  <2>5. Waiting'
    <3>1. ~Streaming'
      BY <1>1, <2>1 DEF Streaming, Resetting, link
    <3> QED BY <1>1, <2>1, <2>4, <3>1 DEF Waiting, Resetting, Synced, Plain, link, input
  <2> QED BY <2>2, <2>3, <2>5 DEF Sane, Stage
<1> QED BY <1>2, <1>3 DEF ResetFails

LEMMA ConnectStep ==
    ASSUME NEW U, NEW A \in Nat, Sane(U, A), Connect
    PROVE  Sane(U, A)'
<1>1. Typed(U, A) /\ Kept /\ Accepting /\ stack' = Bottom /\ offset = 0
  BY AtPlace, AcceptsTop DEF Sane, Stage, Connect, Accepting
<1>2. /\ data' = "open" /\ wire' = <<>> /\ ended' = FALSE
      /\ buffer' = <<>> /\ length' = 0 /\ prefix' = FALSE /\ offset' = 0
      /\ decoder' = Decoder(rstatus) /\ owed' = owed - 1
      /\ UNCHANGED <<socket, lines, hungup, asked, torn, rstatus, tmr, notmr>>
  BY <1>1 DEF Connect, Answer, timers
<1> DEFINE d == Decoder(rstatus)
<1>3. PICK run \in Statuses : run = rstatus
  BY <1>1 DEF Typed
<1>4. d \in Decoders /\ d = Between(run, FALSE, "none", <<>>)
  BY <1>3 DEF Decoder, Decoders, Between, Whats
<1> HIDE DEF d
<1>5. \A S : <<>> \in Seq(S) /\ Len(<<>>) = 0
  BY EmptySeq
<1>6. Queue' = Queue /\ owed' \in 0 .. A /\ Len(Queue') <= owed'
  <2> DEFINE m == Len(Queue)
  <2>0. Queue' = Queue
    BY <1>2 DEF Queue
  <2>1. PICK o : o = owed - 1
    OBVIOUS
  <2>2. m \in Nat /\ m + 1 <= owed /\ owed \in 0 .. A
    BY <1>1, JoinType DEF Typed, Accepting, Queue
  <2> HIDE DEF m
  <2>3. o \in 0 .. A /\ m <= o
    BY <2>1, <2>2
  <2> QED BY <1>2, <2>0, <2>1, <2>3, Zenon DEF m
<1>7. Typed(U, A)'
  <2>1. length' \in 0 .. Len(buffer') /\ offset' \in 0 .. length' /\ buffer' \in Seq(U)
    BY <1>2, <1>5
  <2>2. decoder' \in Decoders /\ rstatus' \in Statuses /\ stack' \in Seq(Frames)
    BY <1>1, <1>2, <1>3, <1>4, BottomType DEF d
  <2>3. /\ prefix' \in BOOLEAN /\ tmr' \in BOOLEAN /\ notmr' \in BOOLEAN
        /\ hungup' \in BOOLEAN /\ asked' \in BOOLEAN /\ ended' \in BOOLEAN
    BY <1>1, <1>2 DEF Typed
  <2>4. wire' \in Seq(U) /\ data' \in {"closed", "open"}
          /\ socket' \in Seq(Commands) /\ lines' \in Seq(Commands)
    BY <1>1, <1>2, <1>5 DEF Typed
  <2>5. torn' = FALSE
    BY <1>1, <1>2 DEF Typed
  <2> QED BY <1>6, <2>1, <2>2, <2>3, <2>4, <2>5 DEF Typed
<1>8. Kept'
  BY <1>1, <1>2, <1>6 DEF Kept
<1>9. Synced'
  <2>1. Left(0)' = <<>>
    <3>1. SubSeq(<<>>, 1, 0) = <<>>
      OBVIOUS
    <3>2. <<>> \o <<>> = <<>>
      OBVIOUS
    <3>3. offset' + 0 + 1 = 1
      BY <1>2
    <3> QED BY <1>2, <3>1, <3>2, <3>3 DEF Left
  <2>2. Reads(d, <<>>, d)
    BY <1>4, ReadsNone
  <2>3. "none" \in Whats
    BY DEF Whats
  <2>4. InStep(run, FALSE, <<>>, <<>>, d)
    BY <1>4, <2>2, <2>3 DEF InStep
  <2> QED BY <1>2, <1>3, <2>1, <2>4 DEF Synced, d
<1>10. Waiting'
  BY <1>1, <1>2, <1>9 DEF Waiting, Short, Plain, Bases
<1> QED BY <1>7, <1>8, <1>10 DEF Sane, Stage

LEMMA NotConnectedStep ==
    ASSUME NEW U, NEW A \in Nat, Sane(U, A), NotConnected
    PROVE  Sane(U, A)'
<1>1. Typed(U, A) /\ Kept /\ Accepting /\ stack' = Bottom /\ offset = 0
  BY AtPlace, AcceptsTop DEF Sane, Stage, NotConnected, Accepting
<1>2. /\ owed' = owed - 1
      /\ UNCHANGED <<socket, lines, hungup, asked, link, input, parser, tmr, notmr, decoder>>
  BY DEF NotConnected, Answer, timers
<1>3. Queue' = Queue /\ owed' \in 0 .. A /\ Len(Queue') <= owed'
  <2> DEFINE m == Len(Queue)
  <2>0. Queue' = Queue
    BY <1>2 DEF Queue
  <2>1. PICK o : o = owed - 1
    OBVIOUS
  <2>2. m \in Nat /\ m + 1 <= owed /\ owed \in 0 .. A
    BY <1>1, JoinType DEF Typed, Accepting, Queue
  <2> HIDE DEF m
  <2>3. o \in 0 .. A /\ m <= o
    BY <2>1, <2>2
  <2> QED BY <1>2, <2>0, <2>1, <2>3, Zenon DEF m
<1>4. Typed(U, A)'
  BY <1>1, <1>2, <1>3, BottomType, TypedSame DEF Typed
<1>5. Kept'
  BY <1>1, <1>2, <1>3 DEF Kept, link
<1>6. Waiting'
  <2>1. data' = "closed" /\ wire' = <<>> /\ offset' = 0
    BY <1>1, <1>2 DEF Accepting, Kept, link, input
  <2> QED BY <1>1, <2>1 DEF Waiting, Plain, Bases, Synced, Streaming
<1> QED BY <1>4, <1>5, <1>6 DEF Sane, Stage

-----------------------------------------------------------------------------
(* Parsing.                                                                   *)

LEMMA LeftFirst ==
    ASSUME NEW S, NEW b \in Seq(S), NEW n \in 0 .. Len(b), NEW w \in Seq(S), NEW i \in 1 .. n
    PROVE  /\ SubSeq(b, i, n) \o w \in Seq(S) /\ SubSeq(b, i, n) \o w # <<>>
           /\ (SubSeq(b, i, n) \o w)[1] = b[i]
           /\ Tail(SubSeq(b, i, n) \o w) = SubSeq(b, i + 1, n) \o w
<1> DEFINE s == SubSeq(b, i, n)
           r == s \o w
<1>0. Len(b) \in Nat
  BY LenProperties
<1>1. /\ i \in Int /\ n \in Int /\ \A j \in i .. n : b[j] \in S
      /\ i \in 1 .. Len(b) /\ n \in i .. Len(b) /\ i <= n
  <2>1. i \in 1 .. Len(b) /\ n \in i .. Len(b) /\ i <= n /\ i \in Int /\ n \in Int
    BY <1>0
  <2>2. \A j \in i .. n : j \in 1 .. Len(b)
    BY <1>0
  <2> QED BY <2>1, <2>2, ElementOfSeq
<1>2. s \in Seq(S) /\ Len(s) = n - i + 1
  BY <1>1, SubSeqProperties
<1>3. Head(s) = b[i] /\ Tail(s) = SubSeq(b, i + 1, n)
  BY <1>1, HeadTailOfSubSeq
<1> HIDE DEF s
<1>4. s # <<>> /\ Len(s) > 0
  BY <1>1, <1>2, EmptySeq
<1>5. r \in Seq(S) /\ r # <<>> /\ Head(r) = Head(s) /\ Tail(r) = Tail(s) \o w
  <2>1. s \in Seq(S) /\ s # <<>> /\ w \in Seq(S)
    BY <1>2, <1>4
  <2> QED BY <2>1, JoinType
<1>6. Head(r) = r[1]
  <2> HIDE DEF r
  <2> QED BY <1>5
<1> QED BY <1>3, <1>5, <1>6 DEF s

LEMMA LeftType ==
    ASSUME NEW U, NEW A, Typed(U, A), NEW k \in 0 .. 3
    PROVE  Left(k) \in Seq(U)
<1>1. buffer \in Seq(U) /\ wire \in Seq(U) /\ length \in 0 .. Len(buffer) /\ offset \in 0 .. length
        /\ Len(buffer) \in Nat
  BY LenProperties DEF Typed
<1> DEFINE i == offset + k + 1
<1>2. i \in Int /\ length \in Int /\ \A j \in i .. length : j \in 1 .. Len(buffer)
  BY <1>1
<1>3. \A j \in i .. length : buffer[j] \in U
  BY <1>1, <1>2, ElementOfSeq
<1> HIDE DEF i
<1>4. SubSeq(buffer, i, length) \in Seq(U)
  BY <1>2, <1>3, SubSeqProperties
<1> QED BY <1>1, <1>4, JoinType DEF Left, i

LEMMA LeftNext ==
    ASSUME NEW U, NEW A, Typed(U, A), NEW k \in 0 .. 2, offset + k < length,
           NEW d, NEW e, Reads(d, Left(k), e)
    PROVE  Reads(Decoded(d, buffer[offset + k + 1]), Left(k + 1), e)
<1>1. buffer \in Seq(U) /\ wire \in Seq(U) /\ length \in 0 .. Len(buffer) /\ offset \in 0 .. length
        /\ Len(buffer) \in Nat
  BY LenProperties DEF Typed
<1> DEFINE i == offset + k + 1
<1>2. i \in 1 .. length /\ offset + (k + 1) + 1 = i + 1
  BY <1>1
<1>3. Left(k) = SubSeq(buffer, i, length) \o wire
        /\ Left(k + 1) = SubSeq(buffer, i + 1, length) \o wire
  BY <1>2 DEF Left
<1> HIDE DEF i
<1>4. /\ Left(k) \in Seq(U) /\ Left(k) # <<>> /\ Left(k)[1] = buffer[i]
      /\ Tail(Left(k)) = Left(k + 1)
  <2>1. /\ SubSeq(buffer, i, length) \o wire \in Seq(U)
        /\ SubSeq(buffer, i, length) \o wire # <<>>
        /\ (SubSeq(buffer, i, length) \o wire)[1] = buffer[i]
        /\ Tail(SubSeq(buffer, i, length) \o wire) = SubSeq(buffer, i + 1, length) \o wire
    <3>1. PICK j \in 1 .. length : j = i
      BY <1>2
    <3>2. /\ SubSeq(buffer, j, length) \o wire \in Seq(U)
          /\ SubSeq(buffer, j, length) \o wire # <<>>
      BY <1>1, LeftFirst
    <3>3. (SubSeq(buffer, j, length) \o wire)[1] = buffer[j]
      BY <1>1, LeftFirst
    <3>4. Tail(SubSeq(buffer, j, length) \o wire) = SubSeq(buffer, j + 1, length) \o wire
      BY <1>1, LeftFirst
    <3> QED BY <3>1, <3>2, <3>3, <3>4
  <2> QED BY <1>3, <2>1, Zenon
<1>5. Reads(Decoded(d, Left(k)[1]), Tail(Left(k)), e)
  BY <1>4, ReadsFirst
<1> QED BY <1>4, <1>5 DEF i

\* The size of a message.
LEMMA MessageSize ==
    ASSUME NEW U, NEW A, Typed(U, A), Complete
    PROVE  /\ Size \in 1 .. 3 /\ offset + Size <= length
           /\ Plays \in Whats /\ (Unit \in {"start", "halt"} => Size = 2 /\ Plays = "none")
           /\ Plays = "sysex" => prefix
           /\ offset < length /\ At("parse")
BY DEF Complete, Size, Plays, Whats, Event

LEMMA OnePlayed == \A x : Append(<<>>, x) = <<x>>
OBVIOUS

\* A message of two or three units.
LEMMA Rest1 ==
    ASSUME NEW U, NEW A, Typed(U, A), NEW k \in 1 .. 2, offset + k < length,
           NEW run \in Statuses, NEW pre \in BOOLEAN, NEW x \in Whats,
           Reads(Within(run, pre, 1, x, <<>>), Left(k), decoder)
    PROVE  InStep(run, pre, <<x>>, Left(k + 1), decoder)
<1>1. Reads(Decoded(Within(run, pre, 1, x, <<>>), buffer[offset + k + 1]), Left(k + 1), decoder)
  BY LeftNext
<1>2. PICK q \in Seq(Whats \cup {"wrong"}) : q = <<>>
  BY EmptySeq
<1>3. Decoded(Within(run, pre, 1, x, q), buffer[offset + k + 1]) = Between(run, pre, x, Append(q, x))
  BY NextUnit
<1>4. Append(q, x) = <<x>>
  BY <1>2, OnePlayed
<1> QED BY <1>1, <1>2, <1>3, <1>4 DEF InStep

LEMMA Rest2 ==
    ASSUME NEW U, NEW A, Typed(U, A), offset + 2 < length,
           NEW run \in Statuses, NEW pre \in BOOLEAN, NEW x \in Whats,
           Reads(Within(run, pre, 2, x, <<>>), Left(1), decoder)
    PROVE  InStep(run, pre, <<x>>, Left(3), decoder)
<1>0. offset \in Int /\ length \in Int
  BY LenProperties DEF Typed
<1>1. Reads(Decoded(Within(run, pre, 2, x, <<>>), buffer[offset + 1 + 1]), Left(1 + 1), decoder)
  <2>1. PICK k \in 0 .. 2 : k = 1
    OBVIOUS
  <2>2. offset + k < length
    BY <1>0, <2>1
  <2>3. Reads(Decoded(Within(run, pre, 2, x, <<>>), buffer[offset + k + 1]), Left(k + 1), decoder)
    BY <2>1, <2>2, LeftNext
  <2> QED BY <2>1, <2>3
<1>2. PICK q \in Seq(Whats \cup {"wrong"}) : q = <<>>
  BY EmptySeq
<1>3. Decoded(Within(run, pre, 2, x, q), buffer[offset + 1 + 1]) = Within(run, pre, 1, x, q)
  BY NextUnit
<1>4. PICK k \in 1 .. 2 : k = 2
  OBVIOUS
<1>5. Reads(Within(run, pre, 1, x, <<>>), Left(k), decoder) /\ offset + k < length
  BY <1>1, <1>2, <1>3, <1>4
<1>6. InStep(run, pre, <<x>>, Left(k + 1), decoder)
  BY <1>5, Rest1
<1> QED BY <1>4, <1>6

\* The parser takes a message, and the decoder reads the stream from behind it.
LEMMA ReadMessage ==
    ASSUME NEW U, NEW A, Typed(U, A), Complete,
           InStep(rstatus, prefix, <<>>, Left(0), decoder)
    PROVE  /\ Plays # "none" =>
                  InStep(StatusAfter(Plays), prefix /\ Plays # "sysex", <<Plays>>, Left(Size), decoder)
           /\ Unit \in {"start", "halt"} => InStep(rstatus, prefix, <<Unit>>, Left(Size), decoder)
           /\ Unit = "stop" /\ ~prefix => InStep("none", prefix, <<>>, Left(1), decoder)
           /\ Plays = "none" /\ Unit \notin {"start", "halt", "bad"} /\ ~(Unit = "stop" /\ ~prefix) =>
                  InStep(IF prefix \/ Unit = "data" THEN rstatus ELSE "none",
                         prefix \/ Unit = "f0", <<>>, Left(1), decoder)
<1> DEFINE u == Unit
<1>0. offset \in Int /\ length \in Int /\ offset < length /\ Size \in 1 .. 3
        /\ offset + Size <= length
  <2>1. offset < length /\ Size \in 1 .. 3 /\ offset + Size <= length
    BY MessageSize
  <2>2. offset \in Int /\ length \in Int
    BY LenProperties DEF Typed
  <2> QED BY <2>1, <2>2
<1>1. PICK run \in Statuses, pre \in BOOLEAN : run = rstatus /\ pre = prefix
  BY DEF Typed
<1>2. PICK q \in Seq(Whats \cup {"wrong"}) : q = <<>>
  BY EmptySeq
<1>3. PICK w \in Whats : Reads(Between(run, pre, w, q), Left(0), decoder)
  BY <1>1, <1>2 DEF InStep
<1> DEFINE d == Decoded(Between(run, pre, w, q), u)
<1>4. Reads(d, Left(1), decoder)
  <2>1. PICK k \in 0 .. 2 : k = 0
    OBVIOUS
  <2>2. offset + k < length /\ offset + k + 1 = offset + 1 /\ k + 1 = 1
    BY <1>0, <2>1
  <2>3. Reads(Between(run, pre, w, q), Left(k), decoder)
    BY <1>3, <2>1
  <2>4. Reads(Decoded(Between(run, pre, w, q), buffer[offset + k + 1]), Left(k + 1), decoder)
    BY <2>2, <2>3, LeftNext
  <2> QED BY <2>2, <2>4 DEF Unit
<1> HIDE DEF u, d
<1>5. \A x : Append(q, x) = <<x>>
  BY <1>2, OnePlayed
<1>o. ~Event(u) => One(run, pre, w, q, u, d)
  BY OneUnit DEF d
<1>6. \A o : \A r \in Statuses, p \in BOOLEAN, x \in Whats : d = Between(r, p, x, o) => InStep(r, p, o, Left(1), decoder)
  BY <1>4 DEF InStep
<1>7. \A r \in Statuses, p \in BOOLEAN, x \in Whats :
        Size = 2 /\ d = Within(r, p, 1, x, q) => InStep(r, p, <<x>>, Left(Size), decoder)
  <2> SUFFICES ASSUME NEW r \in Statuses, NEW p \in BOOLEAN, NEW x \in Whats, Size = 2,
                      d = Within(r, p, 1, x, q)
               PROVE  InStep(r, p, <<x>>, Left(Size), decoder)
    OBVIOUS
  <2>1. PICK k \in 1 .. 2 : k = 1
    OBVIOUS
  <2>2. Reads(Within(r, p, 1, x, <<>>), Left(k), decoder) /\ offset + k < length /\ k + 1 = Size
    BY <1>0, <1>2, <1>4, <2>1
  <2>3. InStep(r, p, <<x>>, Left(k + 1), decoder)
    BY <2>2, Rest1
  <2> QED BY <2>2, <2>3
<1>8. \A r \in Statuses, p \in BOOLEAN, x \in Whats :
        Size = 3 /\ d = Within(r, p, 2, x, q) => InStep(r, p, <<x>>, Left(Size), decoder)
  <2> SUFFICES ASSUME NEW r \in Statuses, NEW p \in BOOLEAN, NEW x \in Whats, Size = 3,
                      d = Within(r, p, 2, x, q)
               PROVE  InStep(r, p, <<x>>, Left(Size), decoder)
    OBVIOUS
  <2>1. Reads(Within(r, p, 2, x, <<>>), Left(1), decoder) /\ offset + 2 < length
    BY <1>0, <1>2, <1>4
  <2>2. InStep(r, p, <<x>>, Left(3), decoder)
    BY <2>1, Rest2
  <2> QED BY <2>2
<1>t. /\ "on" \in Statuses /\ "prog" \in Statuses /\ "none" \in Statuses
      /\ "note" \in Whats /\ "program" \in Whats /\ "sysex" \in Whats /\ FALSE \in BOOLEAN
  BY DEF Statuses, Whats
<1>9. CASE Event(u)
  <2>1. Size = 2 /\ d = Within(run, pre, 1, u, q) /\ u \in Whats
    BY <1>9, FirstUnit DEF Size, Event, Whats, u, d
  <2>2. InStep(run, pre, <<u>>, Left(Size), decoder)
    BY <1>7, <2>1
  <2>3. CASE u = "voice"
    <3>1. Plays = "voice" /\ StatusAfter("voice") = run /\ (prefix /\ "voice" # "sysex") = pre
      BY <1>1, <2>3 DEF Plays, StatusAfter, u
    <3> QED BY <2>2, <2>3, <3>1 DEF u
  <2>4. CASE u \in {"start", "halt"}
    <3>1. Plays = "none"
      BY <2>4 DEF Plays, u
    <3> QED BY <1>1, <2>2, <2>4, <3>1 DEF u
  <2> QED BY <1>9, <2>3, <2>4 DEF Event
<1>10. CASE ~Event(u) /\ pre /\ u = "f7"
  <2>1. d = Between(run, FALSE, "sysex", Append(q, "sysex"))
    BY <1>10, <1>o DEF One
  <2>2. Plays = "sysex" /\ Size = 1 /\ StatusAfter("sysex") = run
    BY <1>1, <1>10 DEF Plays, Size, StatusAfter, u
  <2>3. InStep(run, FALSE, Append(q, "sysex"), Left(1), decoder)
    BY <1>6, <1>t, <2>1
  <2>4. (prefix /\ Plays # "sysex") = FALSE
    BY <2>2
  <2>5. Append(q, "sysex") = <<"sysex">>
    BY <1>5
  <2>6. InStep(StatusAfter(Plays), prefix /\ Plays # "sysex", <<Plays>>, Left(Size), decoder)
    BY <2>2, <2>3, <2>4, <2>5
  <2> QED BY <1>10, <2>2, <2>6 DEF u
<1>11. CASE ~Event(u) /\ pre /\ u # "f7"
  <2>1. d = Between(run, pre, w, q)
    BY <1>11, <1>o DEF One
  <2>2. InStep(run, pre, <<>>, Left(1), decoder)
    BY <1>2, <1>6, <2>1
  <2>3. Plays = "none"
    BY <1>1, <1>11 DEF Plays, u, Event
  <2>4. (IF prefix \/ Unit = "data" THEN rstatus ELSE "none") = run /\ (prefix \/ Unit = "f0") = pre
    BY <1>1, <1>11
  <2>5. Unit \notin {"start", "halt"} /\ prefix
    BY <1>1, <1>11 DEF Event, u
  <2> QED BY <2>2, <2>3, <2>4, <2>5
<1>12. CASE ~Event(u) /\ ~pre /\ u \in {"on", "prog"}
  <2>1. CASE u = "on"
    <3>1. d = Within("on", pre, 2, "note", q)
      BY <1>12, <2>1, FirstUnit DEF d
    <3>2. Plays = "note" /\ Size = 3 /\ StatusAfter("note") = "on"
      BY <1>1, <1>12, <2>1 DEF Plays, Size, StatusAfter, u, Event
    <3>3. InStep("on", pre, <<"note">>, Left(Size), decoder)
      BY <1>8, <1>t, <3>1, <3>2
    <3>4. (prefix /\ Plays # "sysex") = pre
      BY <1>1, <3>2
    <3> QED BY <2>1, <3>2, <3>3, <3>4 DEF u
  <2>2. CASE u = "prog"
    <3>1. d = Within("prog", pre, 1, "program", q)
      BY <1>12, <2>2, FirstUnit DEF d
    <3>2. Plays = "program" /\ Size = 2 /\ StatusAfter("program") = "prog"
      BY <1>1, <1>12, <2>2 DEF Plays, Size, StatusAfter, u, Event
    <3>3. InStep("prog", pre, <<"program">>, Left(Size), decoder)
      BY <1>7, <1>t, <3>1, <3>2
    <3>4. (prefix /\ Plays # "sysex") = pre
      BY <1>1, <3>2
    <3> QED BY <2>2, <3>2, <3>3, <3>4 DEF u
  <2> QED BY <1>12, <2>1, <2>2
<1>13. CASE ~Event(u) /\ ~pre /\ u = "data"
  <2>1. CASE run = "on"
    <3>1. d = Within("on", pre, 1, "note", q)
      BY <1>13, <2>1, FirstUnit DEF d
    <3>2. Plays = "note" /\ Size = 2 /\ StatusAfter("note") = "on"
      BY <1>1, <1>13, <2>1 DEF Plays, Size, StatusAfter, u, Event
    <3>3. InStep("on", pre, <<"note">>, Left(Size), decoder)
      BY <1>7, <1>t, <3>1, <3>2
    <3>4. (prefix /\ Plays # "sysex") = pre
      BY <1>1, <3>2
    <3> QED BY <1>13, <3>2, <3>3, <3>4 DEF u
  <2>2. CASE run = "prog"
    <3>1. d = Between("prog", pre, "program", Append(q, "program"))
      BY <1>13, <2>2, <1>o DEF One
    <3>2. Plays = "program" /\ Size = 1 /\ StatusAfter("program") = "prog"
      BY <1>1, <1>13, <2>2 DEF Plays, Size, StatusAfter, u, Event
    <3>3. InStep("prog", pre, Append(q, "program"), Left(1), decoder)
      BY <1>6, <1>t, <3>1
    <3>4. (prefix /\ Plays # "sysex") = pre
      BY <1>1, <3>2
    <3>5. Append(q, "program") = <<"program">>
      BY <1>5
    <3> QED BY <1>13, <3>2, <3>3, <3>4, <3>5 DEF u
  <2>3. CASE run \notin {"on", "prog"}
    <3>1. d = Between(run, pre, w, q)
      BY <1>13, <2>3, <1>o DEF One
    <3>2. InStep(run, pre, <<>>, Left(1), decoder)
      BY <1>2, <1>6, <3>1
    <3>3. Plays = "none"
      BY <1>1, <1>13, <2>3 DEF Plays, u, Event
    <3>4. (IF prefix \/ Unit = "data" THEN rstatus ELSE "none") = run /\ (prefix \/ Unit = "f0") = pre
      BY <1>1, <1>13 DEF u
    <3> QED BY <1>13, <3>2, <3>3, <3>4 DEF u
  <2> QED BY <2>1, <2>2, <2>3
<1>14. CASE ~Event(u) /\ ~pre /\ u \notin {"on", "prog", "data"}
  <2>1. PICK p \in BOOLEAN : p = (u = "f0")
    OBVIOUS
  <2>2. d = Between("none", p, w, q)
    BY <1>14, <2>1, <1>o DEF One
  <2>3. InStep("none", p, <<>>, Left(1), decoder)
    BY <1>2, <1>6, <1>t, <2>2
  <2>4. Plays = "none"
    BY <1>1, <1>14 DEF Plays, u, Event
  <2>5. (IF prefix \/ Unit = "data" THEN rstatus ELSE "none") = "none" /\ (prefix \/ Unit = "f0") = p
    BY <1>1, <1>14, <2>1 DEF u
  <2>6. Unit = "stop" => p = prefix
    BY <1>1, <1>14, <2>1 DEF u
  <2>7. Unit \notin {"start", "halt"}
    BY <1>14 DEF Event, u
  <2> QED BY <2>3, <2>4, <2>5, <2>6, <2>7
<1> QED BY <1>9, <1>10, <1>11, <1>12, <1>13, <1>14

-----------------------------------------------------------------------------
(* The steps of doit and of do_sequencer.                                     *)

LEMMA KeptSame ==
    ASSUME Kept, UNCHANGED <<control, data, ended>>, wire' = wire \/ wire' = <<>>
    PROVE  Kept' /\ Queue' = Queue /\ asked' = asked /\ owed' = owed
BY DEF Kept, control, Queue

LEMMA LeftMoved ==
    ASSUME NEW U, NEW A, Typed(U, A), NEW k \in 0 .. 3, offset' = offset + k,
           buffer' = buffer, length' = length, wire' = wire
    PROVE  Left(0)' = Left(k)
<1>1. offset \in Int
  BY LenProperties DEF Typed
<1>2. PICK o : o = offset'
  OBVIOUS
<1>3. o + 0 + 1 = offset + k + 1
  BY <1>1, <1>2
<1>4. offset' + 0 + 1 = offset + k + 1
  BY <1>2, <1>3
<1> QED BY <1>4, Zenon DEF Left

LEMMA HeardType ==
    ASSUME NEW d \in Decoders, decoder = d, NEW w \in Whats
    PROVE  /\ Heard(w) \in Decoders
           /\ d \in Owing(w) => Heard(w) = Heard1(d)
<1>1. d.due \in Seq(Whats \cup {"wrong"})
  BY DEF Decoders
<1>2. CASE d.due # <<>> /\ Head(d.due) = w
  <2>1. Heard(w) = [d EXCEPT !.due = Tail(d.due)]
    BY <1>2 DEF Heard
  <2>2. Tail(d.due) \in Seq(Whats \cup {"wrong"})
    BY <1>1, <1>2, HeadTailProperties
  <2> QED BY <2>1, <2>2 DEF Decoders, Heard1
<1>3. CASE ~(d.due # <<>> /\ Head(d.due) = w)
  <2>1. PICK o : o = <<"wrong">> \o d.due
    OBVIOUS
  <2>2. Heard(w) = [d EXCEPT !.due = o]
    BY <1>3, <2>1 DEF Heard
  <2>3. <<"wrong">> \in Seq(Whats \cup {"wrong"})
    OBVIOUS
  <2>4. o \in Seq(Whats \cup {"wrong"})
    BY <1>1, <2>1, <2>3, ConcatProperties
  <2>5. d \notin Owing(w)
    BY <1>3 DEF Owing
  <2> QED BY <2>2, <2>4, <2>5 DEF Decoders
<1> QED BY <1>2, <1>3

\* What is due is played.
LEMMA HeardOwed ==
    ASSUME NEW U, NEW A, Typed(U, A), NEW run \in Statuses, NEW pre \in BOOLEAN,
           NEW w \in Whats, NEW units \in Seq(U), InStep(run, pre, <<w>>, units, decoder)
    PROVE  InStep(run, pre, <<>>, units, Heard(w))
<1>1. PICK d \in Decoders : d = decoder
  BY DEF Typed
<1>2. PICK q \in Seq(Whats \cup {"wrong"}) : q = <<w>> /\ q # <<>> /\ Head(q) = w /\ Tail(q) = <<>>
  <2>1. <<w>> \in Seq(Whats \cup {"wrong"}) /\ <<w>> # <<>> /\ Head(<<w>>) = w /\ Tail(<<w>>) = <<>>
    OBVIOUS
  <2> QED BY <2>1
<1>3. PICK x \in Whats : Reads(Between(run, pre, x, q), units, d)
  BY <1>1, <1>2 DEF InStep
<1> DEFINE b == Between(run, pre, x, q)
<1>4. /\ b \in Decoders /\ b.run = run /\ b.prefix = pre /\ b.need = 0
      /\ b.what = x /\ b.due = q
  BY BetweenFields
<1>5. b \in Owing(w)
  BY <1>2, <1>4 DEF Owing
<1> HIDE DEF b
<1>6. d \in Owing(w) /\ Reads(Heard1(b), units, Heard1(d))
  BY <1>3, <1>5, ReadsHeard DEF b
<1>7. Heard1(b) = Between(run, pre, x, <<>>)
  <2> DEFINE h == Heard1(b)
  <2>0. PICK e \in Seq(Whats \cup {"wrong"}) : e = <<>>
    BY EmptySeq
  <2> DEFINE z == Between(run, pre, x, e)
  <2>1. h = [b EXCEPT !.due = e]
    BY <1>2, <1>4, <2>0 DEF Heard1
  <2>2. /\ h \in Decoders /\ h.run = run /\ h.prefix = pre /\ h.need = 0
        /\ h.what = x /\ h.due = e
    <3> HIDE DEF h
    <3> QED BY <1>4, <2>1 DEF Decoders
  <2>3. /\ z \in Decoders /\ z.run = run /\ z.prefix = pre /\ z.need = 0
        /\ z.what = x /\ z.due = e
    BY BetweenFields
  <2> HIDE DEF h, z
  <2>4. h = z
    BY <2>2, <2>3, Same
  <2> QED BY <2>0, <2>4 DEF h, z
<1>8. Heard(w) = Heard1(d)
  BY <1>1, <1>6, HeardType
<1>9. Reads(Between(run, pre, x, <<>>), units, Heard(w))
  BY <1>6, <1>7, <1>8
<1> QED BY <1>9 DEF InStep

LEMMA ReadStep ==
    ASSUME NEW U, NEW A \in Nat, Sane(U, A), Read
    PROVE  Sane(U, A)'
<1>1. Typed(U, A) /\ Kept /\ Waiting /\ stack = Bottom /\ offset = 0 /\ data = "open"
  BY AtPlace DEF Sane, Stage, Read, DataReady, Waiting
<1> DEFINE s == SubSeq(buffer, 1, length)
           b == s \o wire
           n == length + Len(wire)
<1>3. /\ buffer' = b /\ length' = n /\ offset' = 0 /\ wire' = <<>> /\ notmr' = ~tmr
      /\ torn' = torn /\ UNCHANGED <<control, data, ended, parser, tmr, decoder>>
  BY DEF Read
<1>4. stack' = Parses("none", 0)
  BY <1>1 DEF Read, Push, Parses, Above
<1>t. "none" \in Whats /\ 0 \in 0 .. 3
  BY DEF Whats
<1>5. buffer \in Seq(U) /\ wire \in Seq(U) /\ length \in 0 .. Len(buffer)
        /\ Len(buffer) \in Nat /\ Len(wire) \in Nat
  BY <1>1, LenProperties DEF Typed
<1>6. s \in Seq(U) /\ Len(s) = length
  <2>1. \A j \in 1 .. length : j \in 1 .. Len(buffer)
    BY <1>5
  <2>2. \A j \in 1 .. length : buffer[j] \in U
    BY <1>5, <2>1, ElementOfSeq
  <2>3. s \in Seq(U) /\ Len(s) = IF 1 <= length THEN length - 1 + 1 ELSE 0
    BY <1>5, <2>2, SubSeqProperties
  <2> HIDE DEF s
  <2> QED BY <1>5, <2>3
<1> HIDE DEF s
<1>7. b \in Seq(U) /\ Len(b) = n /\ n \in Nat
  <2>1. b \in Seq(U) /\ Len(b) = Len(s) + Len(wire)
    BY <1>5, <1>6, ConcatProperties
  <2> QED BY <1>5, <1>6, <2>1
<1>8. Left(0) = b
  BY <1>1 DEF Left, s
<1>9. Left(0)' = b
  <2>1. SubSeq(b, 1, Len(b)) = b /\ b \o <<>> = b
    BY <1>7, SubSeqFull, ConcatEmptySeq
  <2>2. offset' + 0 + 1 = 1
    BY <1>3
  <2> HIDE DEF b, n
  <2>3. Left(0)' = SubSeq(b, 1, n) \o <<>>
    BY <1>3, <2>2 DEF Left
  <2> QED BY <1>7, <2>1, <2>3
<1> HIDE DEF b
<1>10. Typed(U, A)'
  <2>1. length' \in 0 .. Len(buffer') /\ offset' \in 0 .. length'
    <3> HIDE DEF n
    <3>1. n \in 0 .. Len(b) /\ 0 \in 0 .. n
      BY <1>7
    <3> QED BY <1>3, <3>1
  <2>2. buffer' \in Seq(U) /\ wire' \in Seq(U) /\ stack' \in Seq(Frames)
    BY <1>3, <1>4, <1>7, <1>t, ParsesTop, EmptySeq
  <2>3. notmr' \in BOOLEAN
    BY <1>3
  <2> QED BY <1>1, <1>3, <2>1, <2>2, <2>3 DEF Typed, control, parser
<1>11. Kept' /\ asked' = asked
  BY <1>1, <1>3, KeptSame
<1>12. Synced'
  BY <1>1, <1>3, <1>8, <1>9, <1>11 DEF Synced, Streaming, Waiting, parser
<1>13. Reading'
  BY <1>4, <1>12, <1>t DEF Reading
<1> QED BY <1>10, <1>11, <1>13 DEF Sane, Stage

\* A step that goes from one plain stack to another.
LEMMA PlainStep ==
    ASSUME NEW U, NEW A \in Nat, Sane(U, A), Waiting, stack' \in Plain,
           UNCHANGED <<control, link, input, parser, tmr, decoder>>, notmr' \in BOOLEAN
    PROVE  Sane(U, A)'
<1>1. Typed(U, A) /\ Kept
  BY DEF Sane, Stage
<1>2. stack' \in Seq(Frames)
  BY PlainTop
<1>3. Typed(U, A)'
  BY <1>1, <1>2, TypedSame DEF Typed, control
<1>4. Kept' /\ UNCHANGED <<asked, lines, socket>>
  BY <1>1, KeptSame DEF link, control
<1>5. (Synced => Synced') /\ (Short' <=> Short)
  BY <1>4, Untouched
<1>6. Waiting'
  BY <1>4, <1>5 DEF Waiting, link, input
<1> QED BY <1>3, <1>4, <1>6 DEF Sane, Stage

LEMMA ReadEndStep ==
    ASSUME NEW U, NEW A \in Nat, Sane(U, A), ReadEnd
    PROVE  Sane(U, A)'
<1>1. Waiting /\ stack = Bottom
  BY AtPlace DEF Sane, Stage, ReadEnd, DataReady
<1>2. stack' \in Plain
  BY <1>1 DEF ReadEnd, Push, Plain, Bases, Above, Call
<1>3. UNCHANGED <<control, link, input, parser, tmr, decoder>> /\ notmr' \in BOOLEAN
  BY DEF ReadEnd
<1> QED BY <1>1, <1>2, <1>3, PlainStep

LEMMA TimeoutStep ==
    ASSUME NEW U, NEW A \in Nat, Sane(U, A), Timeout
    PROVE  Sane(U, A)'
<1>1. Waiting /\ stack = Bottom
  BY AtPlace DEF Sane, Stage, Timeout, DataReady
<1>2. stack' \in Plain
  BY <1>1 DEF Timeout, Push, Plain, Above, Call
<1>3. UNCHANGED <<control, link, input, parser, tmr, decoder>> /\ notmr' \in BOOLEAN
  BY DEF Timeout, timers, Sane, Typed
<1> QED BY <1>1, <1>2, <1>3, PlainStep

LEMMA ComeStep ==
    ASSUME NEW U, NEW A \in Nat, Sane(U, A), Come
    PROVE  Sane(U, A)'
<1>1. Waiting
  <2>1. Stage /\ stack = <<>>
    BY DEF Sane, Stage, Come
  <2>2. \A k \in 1 .. 3 : k \in 0 .. 3
    OBVIOUS
  <2>3. ~Accepting /\ ~Resetting /\ ~Stopping /\ ~Failing
    BY <2>1, AcceptsTop, ResetsTop, HaltsTop, FailsTop DEF Accepting, Resetting, Stopping, Failing
  <2>4. ~Reading
    BY <2>1, ParsesTop DEF Reading
  <2>5. ~Playing
    <3> SUFFICES ASSUME NEW w \in Whats, NEW k \in 0 .. 3
                 PROVE  Took(w, k) # <<>> /\ \A place \in {"compute", "asked"} : Played(place, w, k) # <<>>
      BY <2>1, <2>2 DEF Playing
    <3>1. \A place \in {"compute", "asked"} : place \in Places
      BY DEF Places
    <3>2. ASSUME NEW place \in {"compute", "asked"} PROVE Played(place, w, k) # <<>>
      <4>1. place \in Places
        BY <3>1
      <4> QED BY <4>1, PlayedTop
    <3> QED BY <3>2, TookTop
  <2> QED BY <2>1, <2>3, <2>4, <2>5 DEF Stage
<1>2. stack' \in Plain
  BY DEF Come, Plain, Bases, Bottom, Call
<1>3. UNCHANGED <<control, link, input, parser, tmr, decoder>> /\ notmr' \in BOOLEAN
  BY DEF Come, timers, Sane, Typed
<1> QED BY <1>1, <1>2, <1>3, PlainStep

LEMMA PlayStep ==
    ASSUME NEW U, NEW A \in Nat, Sane(U, A), Play
    PROVE  Sane(U, A)'
<1>1. Typed(U, A) /\ Kept /\ Stage
  BY DEF Sane, Stage
<1>2. /\ stack' = Tail(stack) /\ UNCHANGED <<control, link, input, parser, timers>>
      /\ decoder' = IF Head(stack).what = "none" THEN decoder ELSE Heard(Head(stack).what)
  BY DEF Play
<1>3. PICK place \in {"compute", "asked"} : At(place)
  BY DEF Play
<1>4. place \in Places
  BY <1>3 DEF Places
<1>5. CASE Waiting /\ stack = Above(Call(place), Bottom)
  <2>1. Head(stack) = Call(place) /\ Tail(stack) = Bottom
    BY <1>4, <1>5, Calls, BottomType
  <2>2. Head(stack).what = "none"
    BY <1>4, <2>1, CallType
  <2>3. decoder' = decoder /\ stack' \in Plain /\ UNCHANGED tmr /\ notmr' \in BOOLEAN
    BY <1>1, <1>2, <2>1, <2>2 DEF Plain, Bases, timers, Typed
  <2> QED BY <1>2, <1>5, <2>3, PlainStep
<1>6. CASE \E w \in Whats \ {"none"}, k \in 1 .. 3 :
              stack = Played(place, w, k) /\ Taking(w, k, <<w>>)
  <2>1. PICK w \in Whats \ {"none"}, k \in 1 .. 3 :
              stack = Played(place, w, k) /\ Taking(w, k, <<w>>)
    BY <1>6
  <2>2. k \in 0 .. 3
    OBVIOUS
  <2>3. Head(stack).what = w /\ Tail(stack) = Took(w, k) /\ Took(w, k) \in Seq(Frames)
    <3>1. Took(w, k) \in Seq(Frames)
      BY <2>2, TookTop
    <3>2. Head(Played(place, w, k)).what = w /\ Tail(Played(place, w, k)) = Took(w, k)
      BY <1>4, <2>2, PlayedTop
    <3> QED BY <2>1, <3>1, <3>2
  <2>4. decoder' = Heard(w) /\ stack' = Took(w, k)
    BY <1>2, <2>3
  <2>5. decoder' \in Decoders
    BY <1>1, <2>4, HeardType DEF Typed
  <2>6. Typed(U, A)'
    BY <1>1, <1>2, <2>3, <2>4, <2>5 DEF Typed, control, link, input, parser, timers
  <2>7. Kept' /\ asked' = asked
    BY <1>1, <1>2, KeptSame DEF link
  <2>8. Taking(w, k, <<>>)'
    <3>1. offset' + k <= length' /\ (Streaming' <=> Streaming)
      BY <1>2, <2>1, <2>7 DEF Taking, input, link, Streaming
    <3>2. StatusAfter(w)' = StatusAfter(w) /\ prefix' = prefix /\ Left(k)' = Left(k)
      BY <1>2 DEF StatusAfter, parser, Left, input, link
    <3>3. ASSUME Streaming
          PROVE  InStep(StatusAfter(w), prefix /\ w # "sysex", <<>>, Left(k), Heard(w))
      <4>1. PICK run \in Statuses : run = StatusAfter(w)
        BY <1>1 DEF Typed, StatusAfter, Statuses
      <4>2. PICK pre \in BOOLEAN : pre = (prefix /\ w # "sysex")
        OBVIOUS
      <4>3. InStep(run, pre, <<w>>, Left(k), decoder)
        BY <2>1, <3>3, <4>1, <4>2 DEF Taking
      <4>4. Left(k) \in Seq(U)
        BY <1>1, <2>2, LeftType
      <4>5. InStep(run, pre, <<>>, Left(k), Heard(w))
        BY <1>1, <4>3, <4>4, HeardOwed
      <4> QED BY <4>1, <4>2, <4>5
    <3> QED BY <2>4, <3>1, <3>2, <3>3 DEF Taking
  <2>9. Playing'
    BY <2>4, <2>8 DEF Playing
  <2> QED BY <2>6, <2>7, <2>9 DEF Sane, Stage
<1> QED BY <1>1, <1>3, <1>5, <1>6, AtPlace

LEMMA StoppedStep ==
    ASSUME NEW U, NEW A \in Nat, Sane(U, A), Stopped
    PROVE  Sane(U, A)'
<1>1. Typed(U, A) /\ Kept /\ Stage /\ At("stop")
  BY DEF Sane, Stage, Stopped
<1>2. /\ stack' = Tail(stack) /\ UNCHANGED <<control, link, input, parser, tmr, decoder>>
      /\ notmr' = FALSE
  BY DEF Stopped
<1>3. /\ UNCHANGED <<asked, owed, socket, lines, hungup, link, input, parser, decoder>>
      /\ tmr' = tmr /\ notmr' \in BOOLEAN
  BY <1>2 DEF control
<1>4. /\ Short' <=> Short
      /\ \A w, k, due : Taking(w, k, due) => Taking(w, k, due)'
  BY <1>3, Untouched
<1>5. Kept' /\ Queue' = Queue
  BY <1>1, <1>2, KeptSame DEF link
<1>6. stack' \in Seq(Frames) => Typed(U, A)'
  BY <1>1, <1>3, TypedSame DEF Typed
<1>7. CASE Waiting /\ stack = Above(Call("stop"), Bottom)
  <2>1. "stop" \in Places
    BY DEF Places
  <2>2. stack' \in Plain
    BY <1>2, <1>7, <2>1, Calls, BottomType DEF Plain, Bases
  <2> QED BY <1>2, <1>3, <1>7, <2>2, PlainStep
<1>8. CASE Resetting /\ Tail(stack) \in Discards
  <2>1. stack' \in Resets /\ stack' \in Seq(Frames)
    BY <1>2, <1>8, ResetsTop DEF Resets
  <2>2. Resetting'
    BY <1>3, <1>4, <1>5, <1>8, <2>1 DEF Resetting, link, input
  <2> QED BY <1>5, <1>6, <2>1, <2>2 DEF Sane, Stage
<1>9. CASE Stopping
  <2>1. PICK w \in Whats \ {"none"}, k \in 1 .. 3 : w = "stop" /\ k = 1
    BY DEF Whats
  <2>2. stack' = Took(w, k)
    BY <1>2, <1>9, <2>1, HaltsTop DEF Stopping
  <2>3. k \in 0 .. 3
    OBVIOUS
  <2>4. stack' \in Seq(Frames)
    BY <2>2, <2>3, TookTop
  <2>5. Taking(w, k, <<>>)'
    BY <1>4, <1>9, <2>1 DEF Stopping
  <2>6. Playing'
    BY <2>2, <2>5 DEF Playing
  <2> QED BY <1>5, <1>6, <2>4, <2>6 DEF Sane, Stage
<1>10. CASE Failing /\ Tail(stack) = Above(Call("fail"), Bottom)
  <2>1. stack' \in Fails
    BY <1>2, <1>10 DEF Fails
  <2>2. stack' \in Seq(Frames) /\ Failing'
    BY <1>3, <1>10, <2>1, FailsTop DEF Failing
  <2> QED BY <1>5, <1>6, <2>2 DEF Sane, Stage
<1> QED BY <1>1, <1>7, <1>8, <1>9, <1>10, AtPlace

\* Two calls are pushed by the parser.
LEMMA ParserPushes ==
    ASSUME NEW U, NEW A \in Nat, Sane(U, A), At("parse"),
           NEW f \in Frames, NEW g \in Frames, stack' = <<f, g>> \o Tail(stack),
           UNCHANGED <<control, link, input, parser, timers, decoder>>
    PROVE  /\ stack' = Above(f, Above(g, Bottom)) /\ stack' \in Seq(Frames)
           /\ Typed(U, A)' /\ Kept' /\ Synced
           /\ \A w, k, due : Taking(w, k, due) => Taking(w, k, due)'
<1>1. Typed(U, A) /\ Kept /\ Reading
  BY AtPlace DEF Sane, Stage
<1>2. Tail(stack) = Bottom /\ Bottom \in Seq(Frames)
  BY <1>1, ParsesTop, BottomType DEF Reading
<1>3. stack' = Above(f, Above(g, Bottom)) /\ stack' \in Seq(Frames)
  <2>1. Above(g, Bottom) \in Seq(Frames)
    BY <1>2, AboveFacts
  <2>2. Above(f, Above(g, Bottom)) \in Seq(Frames)
    BY <2>1, AboveFacts
  <2>3. <<f, g>> \o Bottom = Above(f, Above(g, Bottom))
    BY <1>2, PushTwo
  <2> QED BY <1>2, <2>2, <2>3
<1>4. UNCHANGED <<asked, owed, socket, lines, hungup, link, input, parser, decoder, tmr, notmr>>
  BY DEF control, timers
<1>5. Typed(U, A)'
  BY <1>1, <1>3, <1>4, TypedSame DEF Typed
<1>6. Kept'
  BY <1>1, KeptSame DEF link
<1>7. \A w, k, due : Taking(w, k, due) => Taking(w, k, due)'
  BY <1>4, Untouched
<1>8. Synced
  BY <1>1 DEF Reading
<1> QED BY <1>3, <1>5, <1>6, <1>7, <1>8

LEMMA ParseEventStep ==
    ASSUME NEW U, NEW A \in Nat, Sane(U, A), ParseEvent
    PROVE  Sane(U, A)'
<1>1. Typed(U, A) /\ Complete /\ Plays # "none"
  BY DEF Sane, ParseEvent
<1>2. Size \in 1 .. 3 /\ offset + Size <= length /\ Plays \in Whats \ {"none"} /\ At("parse")
  BY <1>1, MessageSize
<1>3. PICK w \in Whats \ {"none"}, k \in 1 .. 3 : w = Plays /\ k = Size
  BY <1>2
<1>4. PICK p \in Places, q \in Places, z \in 0 .. 3 : p = "compute" /\ q = "advance" /\ z = 0
  BY DEF Places
<1>5. Frame(p, w, z) \in Frames /\ Frame(q, w, k) \in Frames
  BY FrameType
<1>6. /\ stack' = <<Frame(p, w, z), Frame(q, w, k)>> \o Tail(stack)
      /\ UNCHANGED <<control, link, input, parser, timers, decoder>>
  BY <1>3, <1>4 DEF ParseEvent
<1>7. /\ stack' = Above(Frame(p, w, z), Above(Frame(q, w, k), Bottom))
      /\ Typed(U, A)' /\ Kept' /\ Synced
      /\ \A x, n, due : Taking(x, n, due) => Taking(x, n, due)'
  BY <1>2, <1>5, <1>6, ParserPushes
<1>8. stack' = Played("compute", w, k)
  BY <1>4, <1>7 DEF Played, Took
<1>9. Taking(w, k, <<w>>)
  <2>2. ASSUME Streaming
        PROVE  InStep(StatusAfter(w), prefix /\ w # "sysex", <<w>>, Left(k), decoder)
    <3>1. InStep(rstatus, prefix, <<>>, Left(0), decoder)
      BY <1>7, <2>2 DEF Synced
    <3> QED BY <1>1, <1>3, <3>1, ReadMessage
  <2> QED BY <1>2, <1>3, <2>2 DEF Taking
<1>10. Playing'
  BY <1>7, <1>8, <1>9 DEF Playing
<1> QED BY <1>7, <1>10 DEF Sane, Stage

LEMMA ParseStopStep ==
    ASSUME NEW U, NEW A \in Nat, Sane(U, A), ParseStop
    PROVE  Sane(U, A)'
<1>1. Typed(U, A) /\ Complete /\ Unit = "stop" /\ ~prefix
  BY DEF Sane, ParseStop
<1>2. Size \in 1 .. 3 /\ offset + Size <= length /\ At("parse")
  BY <1>1, MessageSize
<1>3. Frame("stop", "none", 0) \in Frames /\ Frame("advance", "stop", 1) \in Frames
  BY FrameType DEF Places, Whats
<1>4. /\ stack' = <<Frame("stop", "none", 0), Frame("advance", "stop", 1)>> \o Tail(stack)
      /\ UNCHANGED <<control, link, input, parser, timers, decoder>>
  BY DEF ParseStop
<1>5. /\ stack' = Above(Frame("stop", "none", 0), Above(Frame("advance", "stop", 1), Bottom))
      /\ Typed(U, A)' /\ Kept' /\ Synced
      /\ \A x, n, due : Taking(x, n, due) => Taking(x, n, due)'
  BY <1>2, <1>3, <1>4, ParserPushes
<1>6. stack' = Halts
  BY <1>5 DEF Halts, Took, Call
<1>7. Taking("stop", 1, <<>>)
  <2>2. ASSUME Streaming
        PROVE  InStep(StatusAfter("stop"), prefix /\ "stop" # "sysex", <<>>, Left(1), decoder)
    <3>1. InStep(rstatus, prefix, <<>>, Left(0), decoder)
      BY <1>5, <2>2 DEF Synced
    <3>2. InStep("none", prefix, <<>>, Left(1), decoder)
      BY <1>1, <3>1, ReadMessage
    <3>3. StatusAfter("stop") = "none"
      BY DEF StatusAfter
    <3>4. (prefix /\ "stop" # "sysex") = prefix
      BY <1>1 DEF Typed
    <3> QED BY <3>2, <3>3, <3>4
  <2>3. offset + 1 <= length
    BY <1>1, <1>2, LenProperties DEF Typed
  <2> QED BY <2>2, <2>3 DEF Taking
<1>8. Stopping'
  BY <1>5, <1>6, <1>7 DEF Stopping
<1> QED BY <1>5, <1>8 DEF Sane, Stage

LEMMA ParseBadStep ==
    ASSUME NEW U, NEW A \in Nat, Sane(U, A), ParseBad
    PROVE  Sane(U, A)'
<1>1. At("parse")
  BY DEF ParseBad, Complete
<1>2. Frame("stop", "none", 0) \in Frames /\ Frame("fail", "none", 0) \in Frames
  BY FrameType DEF Places, Whats
<1>3. /\ stack' = <<Frame("stop", "none", 0), Frame("fail", "none", 0)>> \o Tail(stack)
      /\ UNCHANGED <<control, link, input, parser, timers, decoder>>
  BY DEF ParseBad
<1>4. /\ stack' = Above(Frame("stop", "none", 0), Above(Frame("fail", "none", 0), Bottom))
      /\ Typed(U, A)' /\ Kept'
  BY <1>1, <1>2, <1>3, ParserPushes
<1>5. Failing'
  BY <1>4 DEF Failing, Fails, Call
<1> QED BY <1>4, <1>5 DEF Sane, Stage

LEMMA AdvanceStep ==
    ASSUME NEW U, NEW A \in Nat, Sane(U, A), Advance
    PROVE  Sane(U, A)'
<1>1. Typed(U, A) /\ Kept /\ Stage /\ At("advance")
  BY DEF Sane, Stage, Advance
<1>2. PICK w \in Whats \ {"none"}, k \in 1 .. 3 : stack = Took(w, k) /\ Taking(w, k, <<>>)
  BY <1>1, AtPlace
<1>3. k \in 0 .. 3
  OBVIOUS
<1>4. /\ Head(stack) = Frame("advance", w, k) /\ Head(stack).what = w /\ Head(stack).size = k
      /\ Tail(stack) = Bottom
  BY <1>2, <1>3, TookTop
<1>5. /\ offset' = offset + k /\ rstatus' = StatusAfter(w)
      /\ prefix' = (prefix /\ w # "sysex")
      /\ torn' = torn /\ UNCHANGED <<control, link, buffer, length, timers, decoder>>
  BY <1>4 DEF Advance
<1>6. stack' = Parses(w, k)
  <2>1. stack' = Moved("parse")
    BY DEF Advance
  <2>2. [Frame("advance", w, k) EXCEPT !.at = "parse"] = Frame("parse", w, k)
    BY DEF Frame
  <2> QED BY <1>4, <2>1, <2>2 DEF Moved, Parses, Above
<1>7. offset' \in 0 .. length'
  <2>1. PICK o : o = offset'
    OBVIOUS
  <2>2. offset + k <= length /\ offset \in Nat /\ length \in Nat
    BY <1>1, <1>2, LenProperties DEF Taking, Typed
  <2>3. o \in 0 .. length
    BY <1>5, <2>1, <2>2
  <2> QED BY <1>5, <2>1, <2>3, Zenon
<1>8. Typed(U, A)'
  <2>1. rstatus' \in Statuses /\ prefix' \in BOOLEAN
    BY <1>1, <1>5 DEF Typed, StatusAfter, Statuses
  <2>2. stack' \in Seq(Frames)
    BY <1>3, <1>6, ParsesTop
  <2> QED BY <1>1, <1>5, <1>7, <2>1, <2>2 DEF Typed, control, link, timers
<1>9. Kept' /\ asked' = asked /\ wire' = wire /\ data' = data
  BY <1>1, <1>5, KeptSame DEF link
<1>10. Synced'
  <2>1. Left(0)' = Left(k)
    BY <1>1, <1>3, <1>5, <1>9, LeftMoved
  <2>2. Streaming => InStep(StatusAfter(w), prefix /\ w # "sysex", <<>>, Left(k), decoder)
    BY <1>2 DEF Taking
  <2>3. Streaming' <=> Streaming
    BY <1>5, <1>9 DEF Streaming, link
  <2> QED BY <1>5, <2>1, <2>2, <2>3 DEF Synced
<1>11. Reading'
  BY <1>3, <1>6, <1>10 DEF Reading
<1> QED BY <1>8, <1>9, <1>11 DEF Sane, Stage

\* The parser takes k units without a call.
LEMMA ParserTakes ==
    ASSUME NEW U, NEW A \in Nat, Sane(U, A), Complete, NEW k \in 1 .. 2,
           offset + k <= length, offset' = offset + k,
           UNCHANGED <<control, link, buffer, length, torn, notmr, stack>>,
           rstatus' \in Statuses, prefix' \in BOOLEAN, tmr' \in BOOLEAN, decoder' \in Decoders,
           Streaming => InStep(rstatus', prefix', <<>>, Left(k), decoder')
    PROVE  Sane(U, A)'
<1>1. Typed(U, A) /\ Kept /\ Reading
  BY AtPlace DEF Sane, Stage, Complete
<1>2. offset' \in 0 .. length' /\ k \in 0 .. 3
  <2>1. PICK o : o = offset'
    OBVIOUS
  <2>2. offset + k <= length /\ offset \in Nat /\ length \in Nat
    BY <1>1, LenProperties DEF Typed
  <2>3. o \in 0 .. length
    BY <2>1, <2>2
  <2> QED BY <2>1, <2>3
<1>3. Typed(U, A)'
  BY <1>1, <1>2 DEF Typed, control, link
<1>4. Kept' /\ asked' = asked /\ wire' = wire /\ data' = data
  BY <1>1, KeptSame DEF link
<1>5. Left(0)' = Left(k)
  BY <1>1, <1>2, <1>4, LeftMoved
<1>6. Synced'
  BY <1>4, <1>5 DEF Synced, Streaming, link
<1>7. Reading'
  BY <1>1, <1>6 DEF Reading
<1> QED BY <1>3, <1>4, <1>7 DEF Sane, Stage

LEMMA ParseByteStep ==
    ASSUME NEW U, NEW A \in Nat, Sane(U, A), ParseByte
    PROVE  Sane(U, A)'
<1>1. Typed(U, A) /\ Complete /\ Reading
  BY AtPlace DEF Sane, Stage, ParseByte, Complete
<1>2. PICK k \in 1 .. 2 : k = 1
  OBVIOUS
<1>3. offset + k <= length
  <2>1. Size \in 1 .. 3 /\ offset + Size <= length
    BY <1>1, MessageSize
  <2>2. offset \in Int /\ length \in Int
    BY <1>1, LenProperties DEF Typed
  <2> QED BY <1>2, <2>1, <2>2
<1>4. /\ offset' = offset + k /\ prefix' = (prefix \/ Unit = "f0")
      /\ rstatus' = (IF prefix \/ Unit = "data" THEN rstatus ELSE "none")
      /\ UNCHANGED <<control, link, buffer, length, torn, notmr, stack, tmr, decoder>>
  BY <1>2 DEF ParseByte, timers
<1>5. rstatus' \in Statuses /\ prefix' \in BOOLEAN /\ tmr' \in BOOLEAN /\ decoder' \in Decoders
  BY <1>1, <1>4 DEF Typed, Statuses
<1>6. ASSUME Streaming
      PROVE  InStep(rstatus', prefix', <<>>, Left(k), decoder')
  <2>1. InStep(rstatus, prefix, <<>>, Left(0), decoder)
    BY <1>1, <1>6 DEF Reading, Synced
  <2>2. Plays = "none" /\ Unit \notin {"start", "halt", "bad"} /\ ~(Unit = "stop" /\ ~prefix)
    BY DEF ParseByte
  <2>3. InStep(IF prefix \/ Unit = "data" THEN rstatus ELSE "none",
               prefix \/ Unit = "f0", <<>>, Left(1), decoder)
    BY <1>1, <2>1, <2>2, ReadMessage
  <2> QED BY <1>2, <1>4, <2>3
<1> QED BY <1>1, <1>3, <1>4, <1>5, <1>6, ParserTakes

LEMMA ParseTimingStep ==
    ASSUME NEW U, NEW A \in Nat, Sane(U, A), ParseTiming
    PROVE  Sane(U, A)'
<1>1. Typed(U, A) /\ Complete /\ Reading
  BY AtPlace DEF Sane, Stage, ParseTiming, Complete
<1>2. PICK k \in 1 .. 2 : k = 2
  OBVIOUS
<1>3. PICK w \in Whats : w = Unit /\ w \in {"start", "halt"}
  BY DEF ParseTiming, Whats
<1>4. offset + k <= length /\ Size = k
  BY <1>1, <1>2, <1>3, MessageSize
<1>5. /\ offset' = offset + k /\ rstatus' = rstatus /\ prefix' = prefix
      /\ decoder' = Heard(w) /\ tmr' = (Unit = "start")
      /\ UNCHANGED <<control, link, buffer, length, torn, notmr, stack>>
  BY <1>3, <1>4 DEF ParseTiming, parser
<1>6. rstatus' \in Statuses /\ prefix' \in BOOLEAN /\ tmr' \in BOOLEAN /\ decoder' \in Decoders
  BY <1>1, <1>5, HeardType DEF Typed
<1>7. ASSUME Streaming
      PROVE  InStep(rstatus', prefix', <<>>, Left(k), decoder')
  <2>1. InStep(rstatus, prefix, <<>>, Left(0), decoder)
    BY <1>1, <1>7 DEF Reading, Synced
  <2>2. InStep(rstatus, prefix, <<w>>, Left(k), decoder)
    BY <1>1, <1>3, <1>4, <2>1, ReadMessage
  <2>3. rstatus \in Statuses /\ prefix \in BOOLEAN
    BY <1>1 DEF Typed
  <2>4. Left(k) \in Seq(U)
    <3>1. k \in 0 .. 3
      OBVIOUS
    <3> QED BY <1>1, <3>1, LeftType
  <2>5. InStep(rstatus, prefix, <<>>, Left(k), Heard(w))
    BY <1>1, <2>2, <2>3, <2>4, HeardOwed
  <2> QED BY <1>5, <2>5
<1> QED BY <1>1, <1>4, <1>5, <1>6, <1>7, ParserTakes

LEMMA FailStep ==
    ASSUME NEW U, NEW A \in Nat, Sane(U, A), Fail
    PROVE  Sane(U, A)'
<1>1. Typed(U, A) /\ Kept /\ Failing /\ Tail(stack) = Bottom
  BY AtPlace DEF Sane, Stage, Fail
<1>2. /\ data' = "closed" /\ wire' = <<>> /\ ended' = FALSE /\ offset' = 0 /\ stack' = Bottom
      /\ torn' = FALSE /\ UNCHANGED <<control, buffer, length, parser, timers, decoder>>
  BY <1>1 DEF Fail, Dropped
<1>3. <<>> \in Seq(U) /\ Bottom \in Seq(Frames)
  BY EmptySeq, BottomType
<1>4. 0 \in 0 .. length
  BY <1>1, LenProperties DEF Typed
<1>5. Typed(U, A)'
  BY <1>1, <1>2, <1>3, <1>4 DEF Typed, control, parser, timers
<1>6. Kept'
  BY <1>1, <1>2 DEF Kept, control, Queue
<1>7. Waiting'
  BY <1>2 DEF Waiting, Plain, Bases, Synced, Streaming
<1> QED BY <1>5, <1>6, <1>7 DEF Sane, Stage

LEMMA ParseDoneStep ==
    ASSUME NEW U, NEW A \in Nat, Sane(U, A), ParseDone
    PROVE  Sane(U, A)'
<1>1. Typed(U, A) /\ Kept /\ Reading /\ Tail(stack) = Bottom
  BY AtPlace, ParsesTop DEF Sane, Stage, ParseDone, Reading
<1> DEFINE b == SubSeq(buffer, offset + 1, length)
           n == length - offset
<1>2. /\ buffer' = b /\ length' = n /\ offset' = 0 /\ stack' = Bottom
      /\ torn' = torn /\ UNCHANGED <<control, link, parser, timers, decoder>>
  BY <1>1 DEF ParseDone
<1>3. buffer \in Seq(U) /\ length \in 0 .. Len(buffer) /\ offset \in 0 .. length
        /\ Len(buffer) \in Nat /\ wire \in Seq(U)
  BY <1>1, LenProperties DEF Typed
<1>4. /\ b \in Seq(U) /\ Len(b) = n /\ n \in Nat
      /\ n > 0 => b[1] = buffer[offset + 1]
  <2> DEFINE i == offset + 1
  <2>1. i \in Int /\ length \in Int /\ \A j \in i .. length : j \in 1 .. Len(buffer)
    BY <1>3
  <2>2. \A j \in i .. length : buffer[j] \in U
    BY <1>3, <2>1, ElementOfSeq
  <2> HIDE DEF i
  <2>3. /\ SubSeq(buffer, i, length) \in Seq(U)
        /\ Len(SubSeq(buffer, i, length)) = IF i <= length THEN length - i + 1 ELSE 0
        /\ \A j \in 1 .. length - i + 1 : SubSeq(buffer, i, length)[j] = buffer[i + j - 1]
    BY <2>1, <2>2, SubSeqProperties
  <2>4. b = SubSeq(buffer, i, length) /\ i = offset + 1
    BY DEF i
  <2> HIDE DEF b
  <2>5. n > 0 => 1 \in 1 .. length - i + 1 /\ i + 1 - 1 = i
    BY <1>3, <2>4
  <2>6. n > 0 => b[1] = buffer[i]
    BY <2>3, <2>4, <2>5
  <2>7. Len(b) = n /\ n \in Nat
    BY <1>3, <2>3, <2>4
  <2> QED BY <2>3, <2>4, <2>6, <2>7
<1>5. Left(0)' = Left(0)
  <2>1. SubSeq(b, 1, n) = b
    BY <1>4, SubSeqFull
  <2>2. offset' + 0 + 1 = 1
    BY <1>2
  <2>3. offset + 0 + 1 = offset + 1
    BY <1>3
  <2>4. Left(0) = b \o wire
    BY <2>3 DEF Left
  <2>5. wire' = wire
    BY <1>2 DEF link
  <2> HIDE DEF b, n
  <2>6. Left(0)' = SubSeq(b, 1, n) \o wire
    BY <1>2, <2>2, <2>5 DEF Left
  <2> QED BY <2>1, <2>4, <2>6
<1>6. Short'
  <2> HIDE DEF b, n
  <2>1. SUFFICES ASSUME n > 0 PROVE Size' > n
    BY <1>2 DEF Short
  <2>2. Unit' = Unit
    <3>1. offset' + 1 = 1
      BY <1>2
    <3>2. Unit' = b[1]
      BY <1>2, <3>1 DEF Unit
    <3> QED BY <1>4, <2>1, <3>2 DEF Unit
  <2>3. Size' = Size
    BY <1>2, <2>2 DEF Size, parser
  <2>4. offset < length
    BY <1>3, <2>1 DEF n
  <2>5. ~(offset + Size <= length)
    BY <2>4 DEF ParseDone, Complete
  <2>6. Size \in 1 .. 3
    BY DEF Size
  <2>7. Size > n
    BY <1>3, <2>5, <2>6 DEF n
  <2> QED BY <2>3, <2>7
<1> HIDE DEF b, n
<1>7. Typed(U, A)'
  <2>1. length' \in 0 .. Len(buffer') /\ offset' \in 0 .. length'
    BY <1>2, <1>4
  <2>2. buffer' \in Seq(U) /\ stack' \in Seq(Frames)
    BY <1>2, <1>4, BottomType
  <2> QED BY <1>1, <1>2, <2>1, <2>2 DEF Typed, control, link, parser, timers
<1>8. Kept' /\ asked' = asked
  BY <1>1, <1>2, KeptSame DEF link
<1>9. Synced'
  BY <1>1, <1>2, <1>5, <1>8 DEF Synced, Streaming, Reading, link, parser
<1>10. Waiting'
  BY <1>1, <1>2, <1>6, <1>8, <1>9 DEF Waiting, Plain, Bases, Reading
<1> QED BY <1>7, <1>8, <1>10 DEF Sane, Stage

-----------------------------------------------------------------------------
(* The client, of units U and A commands ahead.                               *)

SendAny(A, command) ==
    /\ Connected /\ owed < A
    /\ command = "RESET" => ~asked
    /\ socket' = Append(socket, command)
    /\ owed' = owed + 1
    /\ asked' = (asked \/ command = "RESET")
    /\ UNCHANGED <<lines, hungup, link, input, parser, timers, stack, decoder>>

SendUnit(unit) ==
    /\ Streams /\ ~asked
    /\ wire' = Append(wire, unit)
    /\ decoder' = Decoded(decoder, unit)
    /\ UNCHANGED <<control, data, ended, input, parser, timers, stack>>

LEMMA LineSent ==
    ASSUME NEW A \in Nat, socket \in Seq(Commands), lines \in Seq(Commands), owed \in 0 .. A,
           Kept, NEW command \in Commands, SendAny(A, command)
    PROVE  /\ socket' \in Seq(Commands) /\ owed' \in 0 .. A /\ Len(Queue') <= owed'
           /\ Len(Queue) + 1 <= owed => Len(Queue') + 1 <= owed'
           /\ NoReset(Queue) => OneReset(Queue')
           /\ command # "RESET" /\ NoReset(Queue) => NoReset(Queue')
           /\ command # "RESET" /\ OneReset(Queue) => OneReset(Queue')
<1>2. /\ socket' = Append(socket, command) /\ owed' = owed + 1 /\ owed < A
      /\ lines' = lines
  BY DEF SendAny
<1>4. Queue \in Seq(Commands) /\ Queue' = Append(Queue, command)
        /\ Len(Queue') = Len(Queue) + 1 /\ Len(Queue) \in Nat
  <2>1. Queue \in Seq(Commands) /\ Len(Queue) \in Nat
    BY JoinType, LenProperties DEF Queue
  <2>2. <<command>> \in Seq(Commands)
    OBVIOUS
  <2>3. lines \o (socket \o <<command>>) = (lines \o socket) \o <<command>>
    BY <2>2, ConcatAssociative
  <2>4. Queue' = Queue \o <<command>>
    BY <1>2, <2>3, AppendIsConcat DEF Queue
  <2>5. Queue' = Append(Queue, command)
    BY <2>1, <2>4, AppendIsConcat
  <2> QED BY <2>1, <2>5, AppendProperties
<1>5. owed' \in 0 .. A /\ Len(Queue') <= owed' /\ (Len(Queue) + 1 <= owed => Len(Queue') + 1 <= owed')
  <2> DEFINE m == Len(Queue)
  <2>1. PICK o : o = owed + 1
    OBVIOUS
  <2>2. PICK n : n = m + 1
    OBVIOUS
  <2>3. m \in Nat /\ m <= owed
    BY <1>4 DEF Kept
  <2> HIDE DEF m
  <2>4. o \in 0 .. A /\ n <= o /\ (m + 1 <= owed => n + 1 <= o)
    BY <1>2, <2>1, <2>2, <2>3
  <2>5. Len(Queue') = n /\ owed' = o
    BY <1>2, <1>4, <2>1, <2>2 DEF m
  <2> QED BY <2>4, <2>5, Zenon DEF m
<1>6. socket' \in Seq(Commands)
  BY <1>2
<1>8. /\ NoReset(Queue) => OneReset(Queue')
      /\ command # "RESET" /\ NoReset(Queue) => NoReset(Queue')
      /\ command # "RESET" /\ OneReset(Queue) => OneReset(Queue')
  BY <1>4, AppendResets
<1> QED BY <1>5, <1>6, <1>8

LEMMA SendStep ==
    ASSUME NEW U, NEW A \in Nat, Sane(U, A), NEW command \in Commands, SendAny(A, command)
    PROVE  Sane(U, A)'
<1>1. Typed(U, A) /\ Kept /\ Stage
  BY DEF Sane
<1>2. /\ asked' = (asked \/ command = "RESET")
      /\ command = "RESET" => ~asked
      /\ UNCHANGED <<lines, hungup, link, input, parser, tmr, notmr, stack, decoder>>
  BY DEF SendAny, timers
<1>3. /\ socket' \in Seq(Commands) /\ owed' \in 0 .. A /\ Len(Queue') <= owed'
      /\ Len(Queue) + 1 <= owed => Len(Queue') + 1 <= owed'
      /\ NoReset(Queue) => OneReset(Queue')
      /\ command # "RESET" /\ NoReset(Queue) => NoReset(Queue')
      /\ command # "RESET" /\ OneReset(Queue) => OneReset(Queue')
  BY <1>1, LineSent DEF Typed
<1>4. Typed(U, A)'
  BY <1>1, <1>2, <1>3, TypedSame DEF Typed
<1>5. Kept'
  <2>1. OneReset(Queue') /\ (~asked' => NoReset(Queue'))
    BY <1>1, <1>2, <1>3 DEF Kept
  <2> QED BY <1>1, <1>2, <1>3, <2>1 DEF Kept, link
<1>6. Stage'
  BY <1>1, <1>2, <1>3, Carried
<1> QED BY <1>4, <1>5, <1>6 DEF Sane

LEMMA LeftMore ==
    ASSUME NEW U, NEW A, Typed(U, A), NEW unit \in U, wire' = Append(wire, unit),
           decoder' = Decoded(decoder, unit), UNCHANGED input, NEW k \in 0 .. 3,
           NEW run, NEW pre, NEW due, InStep(run, pre, due, Left(k), decoder)
    PROVE  InStep(run, pre, due, Left(k)', decoder')
<1> DEFINE left == SubSeq(buffer, offset + k + 1, length)
<1>1. /\ wire \in Seq(U) /\ buffer \in Seq(U) /\ length \in 0 .. Len(buffer)
      /\ offset \in 0 .. length
  BY DEF Typed
<1>2. left \in Seq(U)
  <2>1. Len(buffer) \in Nat
    BY <1>1, LenProperties
  <2>2. \A i \in offset + k + 1 .. length : i \in 1 .. Len(buffer)
    BY <1>1, <2>1
  <2>3. \A i \in offset + k + 1 .. length : buffer[i] \in U
    BY <1>1, <2>2, ElementOfSeq
  <2>4. offset + k + 1 \in Int /\ length \in Int
    BY <1>1, <2>1
  <2> QED BY <2>3, <2>4, SubSeqProperties
<1>3. Left(k) = left \o wire
  BY DEF Left
<1>4. Left(k)' = left \o Append(wire, unit)
  BY DEF Left, input
<1> HIDE DEF left
<1>5. left \o Append(wire, unit) = Append(left \o wire, unit)
  <2>1. <<unit>> \in Seq(U) /\ left \o wire \in Seq(U)
    BY <1>1, <1>2, JoinType
  <2>2. left \o (wire \o <<unit>>) = (left \o wire) \o <<unit>>
    BY <1>1, <1>2, <2>1, ConcatAssociative
  <2> QED BY <1>1, <2>1, <2>2, AppendIsConcat
<1>6. PICK w \in Whats : Reads(Between(run, pre, w, due), Left(k), decoder)
  BY DEF InStep
<1>7. Left(k) \in Seq(U)
  BY LeftType
<1>8. Reads(Between(run, pre, w, due), Append(Left(k), unit), Decoded(decoder, unit))
  BY <1>6, <1>7, ReadsMore
<1>9. Left(k)' = Append(Left(k), unit)
  BY <1>3, <1>4, <1>5
<1> QED BY <1>8, <1>9 DEF InStep

LEMMA SendUnitStep ==
    ASSUME NEW U, NEW A \in Nat, Sane(U, A), NEW unit \in U, SendUnit(unit)
    PROVE  Sane(U, A)'
<1>1. Typed(U, A) /\ Kept /\ Stage
  BY DEF Sane, Stage
<1>2. /\ data = "open" /\ ~ended /\ ~asked
      /\ wire' = Append(wire, unit) /\ decoder' = Decoded(decoder, unit)
      /\ UNCHANGED <<control, data, ended, input, parser, timers, stack>>
  BY DEF SendUnit, Streams
<1>3. wire' \in Seq(U) /\ decoder' \in Decoders
  <2>1. wire \in Seq(U) /\ decoder \in Decoders
    BY <1>1 DEF Typed
  <2> QED BY <1>2, <2>1, DecodedType
<1>4. Typed(U, A)'
  BY <1>1, <1>2, <1>3 DEF Typed, control, input, parser, timers
<1>5. Queue' = Queue /\ Kept'
  BY <1>1, <1>2 DEF Kept, Queue, control
<1>6. /\ stack' = stack /\ asked' = asked /\ offset' = offset /\ length' = length
      /\ buffer' = buffer /\ data' = data /\ ended' = ended /\ rstatus' = rstatus
      /\ prefix' = prefix
  BY <1>2 DEF control, input, parser
<1>7. Synced => Synced'
  <2>1. 0 \in 0 .. 3
    OBVIOUS
  <2>2. Synced => InStep(rstatus, prefix, <<>>, Left(0), decoder)
    BY <1>2 DEF Synced, Streaming
  <2>3. InStep(rstatus, prefix, <<>>, Left(0), decoder)
          => InStep(rstatus, prefix, <<>>, Left(0)', decoder')
    BY <1>1, <1>2, <2>1, LeftMore
  <2> QED BY <1>6, <2>2, <2>3 DEF Synced
<1>8. ASSUME NEW w \in Whats, NEW k \in 1 .. 3, NEW due, Taking(w, k, due)
      PROVE  Taking(w, k, due)'
  <2> DEFINE run == StatusAfter(w)
             pre == prefix /\ w # "sysex"
  <2>1. k \in 0 .. 3
    OBVIOUS
  <2>2. offset + k <= length /\ InStep(run, pre, due, Left(k), decoder)
    BY <1>2, <1>8 DEF Taking, Streaming
  <2>3. run' = run /\ pre' = pre
    BY <1>6 DEF StatusAfter
  <2> HIDE DEF run, pre
  <2>4. InStep(run, pre, due, Left(k)', decoder')
    BY <1>1, <1>2, <2>1, <2>2, LeftMore
  <2>5. InStep(run', pre', due, Left(k)', decoder')
    BY <2>3, <2>4
  <2> QED BY <1>6, <2>2, <2>5 DEF Taking, run, pre
<1>9. Waiting => Waiting'
  <2>1. Short' <=> Short
    BY <1>6 DEF Short, Size, Unit
  <2> QED BY <1>2, <1>6, <1>7, <2>1 DEF Waiting
<1>10. ~Accepting /\ ~Resetting
  BY <1>2 DEF Accepting, Resetting
<1>11. Reading => Reading'
  BY <1>6, <1>7 DEF Reading
<1>12. Playing => Playing'
  BY <1>6, <1>8 DEF Playing
<1>13. Stopping => Stopping'
  <2>1. "stop" \in Whats /\ 1 \in 1 .. 3
    BY DEF Whats
  <2>2. ASSUME NEW w \in Whats, w = "stop", NEW k \in 1 .. 3, k = 1, Stopping PROVE Stopping'
    <3>1. Taking(w, k, <<>>)
      BY <2>2 DEF Stopping
    <3>2. Taking(w, k, <<>>)'
      BY <1>8, <3>1
    <3> QED BY <1>6, <2>2, <3>2 DEF Stopping
  <2> QED BY <2>1, <2>2
<1>14. Failing => Failing'
  BY <1>6 DEF Failing
<1> QED BY <1>1, <1>4, <1>5, <1>9, <1>10, <1>11, <1>12, <1>13, <1>14 DEF Sane, Stage

LEMMA HangupStep ==
    ASSUME NEW U, NEW A \in Nat, Sane(U, A), Hangup
    PROVE  Sane(U, A)'
<1>1. Typed(U, A) /\ Kept /\ Stage
  BY DEF Sane, Stage
<1>2. /\ hungup' = TRUE
      /\ UNCHANGED <<socket, lines, owed, asked, link, input, parser, timers, stack, decoder>>
  BY DEF Hangup
<1>3. Typed(U, A)'
  BY <1>1, <1>2 DEF Typed, link, input, parser, timers
<1>4. Queue' = Queue /\ Kept' 
  BY <1>1, <1>2 DEF Kept, Queue, link
<1>5. Stage'
  BY <1>1, <1>2, <1>4, Carried
<1> QED BY <1>3, <1>4, <1>5 DEF Sane, Stage

\* The data that is on its way when the connection ends is still read.
LEMMA EndDataStep ==
    ASSUME NEW U, NEW A \in Nat, Sane(U, A), EndData
    PROVE  Sane(U, A)'
<1>1. Typed(U, A) /\ Kept /\ Stage
  BY DEF Sane, Stage
<1>2. /\ data = "open" /\ ended' = TRUE
      /\ UNCHANGED <<control, data, wire, input, parser, timers, stack, decoder>>
  BY DEF EndData, Streams
<1>3. Typed(U, A)'
  BY <1>1, <1>2 DEF Typed, control, input, parser, timers
<1>4. Queue' = Queue /\ Kept'
  BY <1>1, <1>2 DEF Kept, Queue, control
<1>5. /\ stack' = stack /\ asked' = asked /\ offset' = offset /\ length' = length
      /\ buffer' = buffer /\ data' = data /\ wire' = wire /\ rstatus' = rstatus
      /\ prefix' = prefix /\ decoder' = decoder /\ owed' = owed /\ lines' = lines
      /\ socket' = socket
  BY <1>2 DEF control, input, parser
<1>6. ASSUME NEW k PROVE Left(k)' = Left(k)
  BY <1>5 DEF Left
<1>7. Synced => Synced'
  <2>1. Streaming' => Streaming
    BY <1>2, <1>5 DEF Streaming
  <2> QED BY <1>5, <1>6, <2>1 DEF Synced
<1>8. ASSUME NEW w, NEW k, NEW due, Taking(w, k, due)
      PROVE  Taking(w, k, due)'
  BY <1>2, <1>5, <1>6, <1>8 DEF Taking, StatusAfter, Streaming
<1>9. Waiting => Waiting'
  <2>1. Short' <=> Short
    BY <1>5 DEF Short, Size, Unit
  <2> QED BY <1>5, <1>7, <2>1 DEF Waiting
<1>10. ~Accepting
  BY <1>2 DEF Accepting
<1>11. Resetting => Resetting'
  <2>1. Short' <=> Short
    BY <1>5 DEF Short, Size, Unit
  <2> QED BY <1>4, <1>5, <2>1 DEF Resetting
<1>12. Reading => Reading'
  BY <1>5, <1>7 DEF Reading
<1>13. Playing => Playing'
  BY <1>5, <1>8 DEF Playing
<1>14. Stopping => Stopping'
  BY <1>5, <1>8 DEF Stopping
<1>15. Failing => Failing'
  BY <1>5 DEF Failing
<1> QED BY <1>1, <1>3, <1>4, <1>9, <1>10, <1>11, <1>12, <1>13, <1>14, <1>15 DEF Sane, Stage

-----------------------------------------------------------------------------
(* Every step, the initial state, and the theorems.                           *)

LEMMA Starts ==
    ASSUME NEW U, NEW A \in Nat, Init
    PROVE  Sane(U, A)
<1>1. /\ socket = <<>> /\ lines = <<>> /\ hungup = FALSE /\ owed = 0 /\ asked = FALSE
      /\ data = "closed" /\ wire = <<>> /\ ended = FALSE
      /\ buffer = <<>> /\ length = 0 /\ offset = 0 /\ torn = FALSE
      /\ rstatus = "none" /\ prefix = FALSE /\ tmr = FALSE /\ notmr = FALSE
      /\ stack = <<>> /\ decoder = Decoder("none")
  BY DEF Init
<1>2. decoder \in Decoders
  <2>1. PICK none \in Statuses, no \in BOOLEAN, nothing \in Whats :
            none = "none" /\ no = FALSE /\ nothing = "none"
    BY DEF Statuses, Whats
  <2>3. PICK q \in Seq(Whats \cup {"wrong"}) : q = <<>>
    BY EmptySeq
  <2>2. decoder = Between(none, no, nothing, q)
    BY <1>1, <2>1, <2>3 DEF Decoder, Between
  <2> QED BY <2>2, BetweenType
<1>3. Typed(U, A)
  <2>1. socket \in Seq(Commands) /\ lines \in Seq(Commands) /\ wire \in Seq(U)
        /\ buffer \in Seq(U) /\ stack \in Seq(Frames) /\ Len(buffer) = 0
    BY <1>1
  <2>2. owed \in 0 .. A /\ length \in 0 .. Len(buffer) /\ offset \in 0 .. length
    BY <1>1, <2>1
  <2>3. /\ hungup \in BOOLEAN /\ asked \in BOOLEAN /\ data \in {"closed", "open"}
        /\ ended \in BOOLEAN /\ rstatus \in Statuses /\ prefix \in BOOLEAN
        /\ tmr \in BOOLEAN /\ notmr \in BOOLEAN
    BY <1>1 DEF Statuses
  <2>4. torn = FALSE
    BY DEF Init
  <2> QED BY <1>2, <2>1, <2>2, <2>3, <2>4 DEF Typed
<1>4. Queue = <<>> /\ Len(Queue) = 0
  BY <1>1 DEF Queue
<1>5. Kept
  BY <1>1, <1>4 DEF Kept, OneReset, NoReset
<1>6. Waiting
  BY <1>1 DEF Waiting, Plain, Synced, Streaming
<1> QED BY <1>3, <1>5, <1>6 DEF Sane, Stage

-----------------------------------------------------------------------------
(* After a RESET inside an event.                                             *)

LEMMA AstrayAt ==
    ASSUME Held \/ Broken
    PROVE  /\ stack # <<>> /\ stack \in Seq(Frames)
           /\ Head(stack).at \in {"discard", "stop", "asked", "advance", "parse", "fail"}
           /\ ~At("select") /\ ~At("accept") /\ ~At("compute")
           /\ At("discard") => \E b \in Inners : Holding(b) /\ Tail(stack) = b
           /\ At("stop") => \/ \E b \in Inners : Holding(b) /\ Tail(stack) = Above(Call("discard"), b)
                            \/ Broken /\ stack \in Inners /\ stack = Halts
                            \/ /\ Broken /\ stack \in Inners
                               /\ stack = Above(Call("stop"), Above(Call("fail"), Bottom))
           /\ At("asked") => Broken /\ \E w \in Whats \ {"none"}, k \in 1 .. 3 :
                                           stack = Played("asked", w, k)
           /\ At("advance") => Broken /\ \E w \in Whats \ {"none"}, k \in 1 .. 3 : stack = Took(w, k)
           /\ At("parse") => Broken /\ offset > 0
           /\ At("fail") => Broken /\ stack = Above(Call("fail"), Bottom)
<1>1. "discard" \in Places /\ "stop" \in Places /\ "fail" \in Places /\ "parse" \in Places
  BY DEF Places
<1>2. ASSUME NEW b \in Inners, Holding(b), stack = Above(Call("discard"), b)
      PROVE  stack # <<>> /\ stack \in Seq(Frames) /\ Head(stack).at = "discard" /\ Tail(stack) = b
  <2>1. b \in Seq(Frames)
    BY InnersTop
  <2> QED BY <1>1, <1>2, <2>1, Calls
<1>3. ASSUME NEW b \in Inners, Holding(b), stack = Above(Call("stop"), Above(Call("discard"), b))
      PROVE  /\ stack # <<>> /\ stack \in Seq(Frames)
             /\ Head(stack).at = "stop" /\ Tail(stack) = Above(Call("discard"), b)
  <2>1. b \in Seq(Frames)
    BY InnersTop
  <2>2. Above(Call("discard"), b) \in Seq(Frames)
    BY <1>1, <2>1, Calls
  <2> QED BY <1>1, <1>3, <2>2, Calls
<1>4. CASE Held
  <2>1. PICK b \in Inners : Holding(b)
    BY <1>4 DEF Held
  <2> QED BY <1>2, <1>3, <2>1 DEF Holding, At
<1>5. CASE Broken /\ stack \in Inners
  BY <1>5, InnersTop DEF At
<1>6. CASE Broken /\ stack = Above(Call("fail"), Bottom)
  <2>1. stack # <<>> /\ stack \in Seq(Frames) /\ Head(stack).at = "fail"
    BY <1>1, <1>6, Calls, BottomType
  <2> QED BY <1>6, <2>1 DEF At
<1>7. CASE Broken /\ \E w \in Whats \ {"none"}, k \in 1 .. 3 : stack = Took(w, k)
  <2>1. PICK w \in Whats \ {"none"}, k \in 1 .. 3 : stack = Took(w, k)
    BY <1>7
  <2>2. k \in 0 .. 3
    OBVIOUS
  <2>3. stack # <<>> /\ stack \in Seq(Frames) /\ Head(stack).at = "advance"
    BY <2>1, <2>2, TookTop
  <2> QED BY <1>7, <2>3 DEF At
<1>8. CASE Broken /\ offset > 0 /\ \E w \in Whats, k \in 0 .. 3 : stack = Parses(w, k)
  <2>1. stack # <<>> /\ stack \in Seq(Frames) /\ Head(stack).at = "parse"
    BY <1>8, ParsesTop
  <2> QED BY <1>8, <2>1 DEF At
<1> QED BY <1>4, <1>5, <1>6, <1>7, <1>8 DEF Broken

\* A step that leaves the stack and the buffer alone.
LEMMA AstraySame ==
    ASSUME Held \/ Broken, UNCHANGED <<input, stack>>, asked => asked',
           asked /\ NoReset(Queue) => NoReset(Queue'),
           Len(Queue) + 1 <= owed => Len(Queue') + 1 <= owed'
    PROVE  (Held \/ Broken)'
<1>1. CASE Held
  <2>1. PICK b \in Inners : Holding(b)
    BY <1>1 DEF Held
  <2>2. Holding(b)'
    BY <2>1 DEF Holding, Room, Empty, input
  <2> QED BY <2>2 DEF Held
<1>2. CASE Broken
  BY <1>2 DEF Broken, Empty, input
<1> QED BY <1>1, <1>2

LEMMA AstrayAnswer ==
    ASSUME NEW U, NEW A \in Nat, Astray(U, A), NEW c, c # "RESET", Line(c), Answer,
           UNCHANGED <<asked, input, parser, timers, stack, decoder>>,
           UNCHANGED link \/ Dropped
    PROVE  Astray(U, A)'
<1>1. Loose(U, A) /\ Kept /\ (Held \/ Broken)
  BY DEF Astray
<1>2. /\ socket' \in Seq(Commands) /\ lines' \in Seq(Commands) /\ hungup' \in BOOLEAN
      /\ owed' \in 0 .. A /\ Len(Queue') <= owed'
      /\ Len(Queue) + 1 <= owed => Len(Queue') + 1 <= owed'
      /\ OneReset(Queue') /\ (~asked' => NoReset(Queue'))
  BY <1>1, AnswerGiven DEF Loose
<1>3. NoReset(Queue) => NoReset(Queue')
  BY <1>1, CommandTaken DEF Loose
<1>4. wire' \in Seq(U) /\ data' \in {"closed", "open"} /\ ended' \in BOOLEAN
  BY <1>1, EmptySeq DEF Loose, link, Dropped
<1>5. Loose(U, A)'
  BY <1>1, <1>2, <1>4 DEF Loose, input, parser, timers
<1>6. Kept'
  BY <1>1, <1>2 DEF Kept, link, Dropped
<1>7. (Held \/ Broken)'
  BY <1>1, <1>2, <1>3, AstraySame
<1> QED BY <1>5, <1>6, <1>7 DEF Astray

LEMMA AstrayAsk ==
    ASSUME NEW U, NEW A \in Nat, Astray(U, A), Ask
    PROVE  Astray(U, A)'
<1>1. Loose(U, A) /\ Kept /\ (Held \/ Broken) /\ data = "open"
  BY DEF Astray, Ask, Asks
<1>2. At("stop") /\ ~At("compute") /\ Returned = stack
  BY <1>1, AstrayAt DEF Ask, Asks, Returned
<1>3. CASE Nop(stack)
  <2>1. PICK c \in {"NOP", "OPEN"} : Line(c)
    BY <1>3 DEF Nop
  <2>2. c # "RESET" /\ Answer /\ UNCHANGED <<asked, link, input, parser, timers, stack, decoder>>
    BY <1>3 DEF Nop
  <2> QED BY <2>1, <2>2, AstrayAnswer
<1>4. CASE Close(stack)
  <2>1. PICK c : c = "CLOSE" /\ Line(c)
    BY <1>4 DEF Close
  <2>2. /\ c # "RESET" /\ Answer /\ Dropped
        /\ UNCHANGED <<asked, input, parser, timers, stack, decoder>>
    BY <1>4, <2>1 DEF Close
  <2> QED BY <2>1, <2>2, AstrayAnswer
<1>5. ~Open(stack)
  BY <1>1 DEF Open
<1>6. CASE Reset(stack)
  <2>1. /\ Line("RESET") /\ UNCHANGED <<owed, asked, link, input, parser, timers, decoder>>
        /\ stack' = <<Frame("stop", "none", 0), Frame("discard", "none", 0)>> \o stack
    BY <1>1, <1>6 DEF Reset
  <2>2. ~NoReset(Queue)
    BY <1>1, <2>1, CommandTaken DEF Loose
  <2>3. Broken /\ stack \in Inners
    BY <1>1, <1>2, <2>2, AstrayAt DEF Holding
  <2>4. IF torn THEN Empty ELSE Room(stack)
    BY <2>3 DEF Broken
  <2> QED BY <1>1, <2>1, <2>3, <2>4, ResetInside
<1> QED BY <1>2, <1>3, <1>4, <1>5, <1>6 DEF Ask, Command

LEMMA AstrayAskLeave ==
    ASSUME NEW U, NEW A \in Nat, Astray(U, A), AskLeave
    PROVE  Astray(U, A)'
<1>1. Loose(U, A) /\ Kept /\ (Held \/ Broken)
  BY DEF Astray
<1>2. UNCHANGED <<asked, link, input, parser, timers, stack, decoder>>
  BY <1>1, AstrayAt DEF AskLeave, Asks, Returned
<1>3. CASE HasLine
  <2>1. PICK c : c = "QUIT" /\ Line(c) /\ Answer
    BY <1>3 DEF AskLeave
  <2>2. c # "RESET"
    BY <2>1
  <2> QED BY <1>2, <2>1, <2>2, AstrayAnswer
<1>4. CASE ~HasLine
  <2>1. UNCHANGED <<socket, lines, hungup, owed>> /\ Queue' = Queue
    BY <1>4 DEF AskLeave, Queue
  <2>2. Loose(U, A)' /\ Kept'
    BY <1>1, <1>2, <2>1 DEF Loose, Kept, link, input, parser, timers
  <2>3. (Held \/ Broken)'
    BY <1>1, <1>2, <2>1, AstraySame
  <2> QED BY <2>2, <2>3 DEF Astray
<1> QED BY <1>3, <1>4

LEMMA AstrayDiscard ==
    ASSUME NEW U, NEW A \in Nat, Astray(U, A), Discard
    PROVE  Astray(U, A)'
<1>1. Loose(U, A) /\ Kept /\ (Held \/ Broken)
  BY DEF Astray
<1>2. wire' = <<>> /\ UNCHANGED <<control, data, ended, input, parser, timers, stack, decoder>>
  BY DEF Discard
<1>3. <<>> \in Seq(U)
  BY EmptySeq
<1>4. Queue' = Queue /\ owed' = owed /\ asked' = asked
  BY <1>2 DEF Queue, control
<1>5. Loose(U, A)'
  BY <1>1, <1>2, <1>3 DEF Loose, control, input, parser, timers
<1>6. Kept'
  BY <1>1, <1>2, <1>4 DEF Kept
<1>7. (Held \/ Broken)'
  BY <1>1, <1>2, <1>4, AstraySame
<1> QED BY <1>5, <1>6, <1>7 DEF Astray

LEMMA AstrayDiscarded ==
    ASSUME NEW U, NEW A \in Nat, Astray(U, A), Discarded
    PROVE  Astray(U, A)'
<1>1. Loose(U, A) /\ Kept /\ (Held \/ Broken)
  BY DEF Astray
<1>2. PICK b \in Inners : Holding(b) /\ Tail(stack) = b
  BY <1>1, AstrayAt DEF Discarded
<1>3. b \in Seq(Frames) /\ Inside(b)
  BY InnersTop
<1>4. /\ buffer' = <<>> /\ length' = 0 /\ rstatus' = "none" /\ prefix' = FALSE
      /\ tmr' = FALSE /\ notmr' = FALSE /\ decoder' = Decoder("none")
      /\ asked' = FALSE /\ owed' = owed - 1 /\ stack' = b /\ torn' = TRUE
      /\ UNCHANGED <<offset, link, socket, lines, hungup>>
  BY <1>2, <1>3 DEF Discarded, ServerReset, Initialize, Answer
<1>5. Decoder("none") \in Decoders /\ "none" \in Statuses
  BY DEF Decoder, Decoders, Statuses, Whats
<1>6. <<>> \in Seq(U) /\ Len(<<>>) = 0
  BY EmptySeq
<1>7. Queue' = Queue /\ NoReset(Queue)
  BY <1>2, <1>4 DEF Queue, Holding
<1>8. owed' \in 0 .. A /\ Len(Queue') <= owed'
  <2> DEFINE m == Len(Queue)
  <2>1. PICK o : o = owed - 1
    OBVIOUS
  <2>2. m \in Nat /\ m + 1 <= owed /\ owed \in 0 .. A
    BY <1>1, <1>2, JoinType DEF Loose, Holding, Queue
  <2> HIDE DEF m
  <2>3. o \in 0 .. A /\ m <= o
    BY <2>1, <2>2
  <2> QED BY <1>4, <1>7, <2>1, <2>3, Zenon DEF m
<1>9. Loose(U, A)'
  <2>1. length' \in 0 .. Len(buffer') /\ buffer' \in Seq(U)
    BY <1>4, <1>6
  <2>2. decoder' \in Decoders /\ rstatus' \in Statuses /\ stack' \in Seq(Frames)
    BY <1>3, <1>4, <1>5
  <2>3. /\ prefix' \in BOOLEAN /\ tmr' \in BOOLEAN /\ notmr' \in BOOLEAN
        /\ hungup' \in BOOLEAN /\ asked' \in BOOLEAN /\ ended' \in BOOLEAN /\ torn' \in BOOLEAN
    BY <1>1, <1>4 DEF Loose, link
  <2>4. /\ wire' \in Seq(U) /\ data' \in {"closed", "open"} /\ offset' \in Nat
        /\ socket' \in Seq(Commands) /\ lines' \in Seq(Commands)
    BY <1>1, <1>4 DEF Loose, link
  <2> QED BY <1>8, <2>1, <2>2, <2>3, <2>4 DEF Loose
<1>10. Kept'
  BY <1>1, <1>4, <1>7, <1>8 DEF Kept, link, OneReset, NoReset
<1>11. Broken'
  BY <1>4 DEF Broken, Empty
<1> QED BY <1>9, <1>10, <1>11 DEF Astray

\* A RESET that fails inside an event leaves the buffer as it was.
LEMMA AstrayResetFails ==
    ASSUME NEW U, NEW A \in Nat, Astray(U, A), ResetFails
    PROVE  IInv(U, A)'
<1>1. Loose(U, A) /\ Kept /\ (Held \/ Broken)
  BY DEF Astray
<1>2. PICK b \in Inners : Holding(b) /\ Tail(stack) = b
  BY <1>1, AstrayAt DEF ResetFails
<1>3. b \in Seq(Frames) /\ b[1].at # "select"
  <2>1. b \in Seq(Frames) /\ Head(b) = b[1] /\ Head(b).at \in {"asked", "stop"}
    BY InnersTop
  <2> QED BY <2>1
<1>4. stack' = b /\ UNCHANGED <<control, link, input, parser, timers, decoder>> /\ ended
  BY <1>2, <1>3 DEF ResetFails
<1>5. /\ socket' = socket /\ lines' = lines /\ hungup' = hungup /\ owed' = owed /\ asked' = asked
      /\ Queue' = Queue /\ asked
  BY <1>2, <1>4 DEF control, Queue, Holding
<1>6. Kept'
  BY <1>1, <1>4, <1>5 DEF Kept, link
<1>7. Loose(U, A)'
  BY <1>1, <1>3, <1>4, <1>5 DEF Loose, link, input, parser, timers
<1>8. CASE torn
  <2>1. Broken'
    BY <1>2, <1>4, <1>8 DEF Holding, Broken, Empty, input
  <2> QED BY <1>6, <1>7, <2>1 DEF Astray, IInv
<1>9. CASE ~torn
  <2>1. Room(b) /\ torn = FALSE
    BY <1>1, <1>2, <1>9 DEF Holding, Loose
  <2>2. offset \in 0 .. length
    <3>1. offset \in Nat /\ length \in 0 .. Len(buffer) /\ Len(buffer) \in Nat
      BY <1>1, LenProperties DEF Loose
    <3>2. offset <= length
      BY <2>1 DEF Room
    <3> QED BY <3>1, <3>2
  <2>3. Typed(U, A)'
    BY <1>7, <1>4, <2>1, <2>2 DEF Typed, Loose, input
  <2>4. ~Streaming' /\ offset' = offset /\ length' = length
    BY <1>4, <1>5 DEF Streaming, link, input
  <2>5. ASSUME NEW w \in Whats, NEW k \in 1 .. 3, NEW due, offset + k <= length
        PROVE  Taking(w, k, due)'
    BY <2>4, <2>5 DEF Taking
  <2>6. Stage'
    <3>1. CASE \E w \in Whats \ {"none"}, k \in 1 .. 3 : b = Played("asked", w, k)
      <4>1. PICK w \in Whats \ {"none"}, k \in 1 .. 3 : b = Played("asked", w, k)
        BY <3>1
      <4>2. Taking(w, k, <<w>>)'
        BY <2>1, <2>5, <4>1 DEF Room
      <4>3. Playing'
        BY <1>4, <4>1, <4>2 DEF Playing
      <4> QED BY <4>3 DEF Stage
    <3>2. CASE b = Halts
      <4>1. PICK w \in Whats, k \in 1 .. 3 : w = "stop" /\ k = 1
        BY DEF Whats
      <4>2. Taking(w, k, <<>>)'
        BY <2>1, <2>5, <3>2, <4>1 DEF Room
      <4>3. Stopping'
        BY <1>4, <3>2, <4>1, <4>2 DEF Stopping
      <4> QED BY <4>3 DEF Stage
    <3>3. CASE b = Above(Call("stop"), Above(Call("fail"), Bottom))
      <4>1. Failing'
        BY <1>4, <3>3 DEF Failing, Fails
      <4> QED BY <4>1 DEF Stage
    <3> QED BY <3>1, <3>2, <3>3 DEF Inners
  <2> QED BY <1>6, <2>3, <2>6 DEF Sane, IInv
<1> QED BY <1>8, <1>9

LEMMA AstrayPlay ==
    ASSUME NEW U, NEW A \in Nat, Astray(U, A), Play
    PROVE  Astray(U, A)'
<1>1. Loose(U, A) /\ Kept /\ (Held \/ Broken)
  BY DEF Astray
<1>2. At("asked") /\ Broken
  BY <1>1, AstrayAt DEF Play
<1>3. PICK w \in Whats \ {"none"}, k \in 1 .. 3 : stack = Played("asked", w, k)
  BY <1>1, <1>2, AstrayAt
<1>4. k \in 0 .. 3 /\ "asked" \in Places
  BY DEF Places
<1>5. Head(stack).what = w /\ Tail(stack) = Took(w, k) /\ Took(w, k) \in Seq(Frames)
  <2>1. Head(Played("asked", w, k)).what = w /\ Tail(Played("asked", w, k)) = Took(w, k)
    BY <1>4, AskedTop
  <2> QED BY <1>3, <1>4, <2>1, TookTop
<1>6. /\ stack' = Took(w, k) /\ decoder' = Heard(w)
      /\ UNCHANGED <<control, link, input, parser, timers>>
  BY <1>5 DEF Play
<1>7. decoder' \in Decoders
  BY <1>1, <1>6, HeardType DEF Loose
<1>8. Loose(U, A)'
  BY <1>1, <1>5, <1>6, <1>7 DEF Loose, control, link, input, parser, timers
<1>9. Kept'
  BY <1>1, <1>6, KeptSame DEF link
<1>10. Broken'
  BY <1>2, <1>6 DEF Broken, Empty, input
<1> QED BY <1>8, <1>9, <1>10 DEF Astray

LEMMA AstrayStopped ==
    ASSUME NEW U, NEW A \in Nat, Astray(U, A), Stopped
    PROVE  Astray(U, A)'
<1>1. Loose(U, A) /\ Kept /\ (Held \/ Broken) /\ At("stop")
  BY DEF Astray, Stopped
<1>2. /\ stack' = Tail(stack) /\ UNCHANGED <<control, link, input, parser, tmr, decoder>>
      /\ notmr' = FALSE
  BY DEF Stopped
<1>3. Kept' /\ Queue' = Queue /\ asked' = asked /\ owed' = owed
  BY <1>1, <1>2, KeptSame DEF link
<1>4. stack' \in Seq(Frames) => Loose(U, A)'
  BY <1>1, <1>2 DEF Loose, control, link, input, parser
<1>5. CASE \E b \in Inners : Holding(b) /\ Tail(stack) = Above(Call("discard"), b)
  <2>1. PICK b \in Inners : Holding(b) /\ Tail(stack) = Above(Call("discard"), b)
    BY <1>5
  <2>2. b \in Seq(Frames) /\ Call("discard") \in Frames
    BY InnersTop, CallType DEF Places
  <2>3. stack' \in Seq(Frames)
    BY <1>2, <2>1, <2>2, AboveFacts
  <2>4. Holding(b)'
    BY <1>2, <1>3, <2>1 DEF Holding, Room, Empty, input
  <2> QED BY <1>3, <1>4, <2>3, <2>4 DEF Astray, Held
<1>6. CASE Broken /\ stack = Halts
  <2>1. PICK w \in Whats \ {"none"}, k \in 1 .. 3 : w = "stop" /\ k = 1
    BY DEF Whats
  <2>2. stack' = Took(w, k) /\ k \in 0 .. 3
    BY <1>2, <1>6, <2>1, HaltsTop
  <2>3. stack' \in Seq(Frames)
    BY <2>2, TookTop
  <2>4. Broken'
    BY <1>2, <1>6, <2>2 DEF Broken, Empty, input
  <2> QED BY <1>3, <1>4, <2>3, <2>4 DEF Astray
<1>7. CASE Broken /\ stack = Above(Call("stop"), Above(Call("fail"), Bottom))
  <2>1. stack \in Fails
    BY <1>7 DEF Fails
  <2>2. stack' = Above(Call("fail"), Bottom)
    BY <1>1, <1>2, <2>1, FailsTop DEF At
  <2>3. stack' \in Seq(Frames)
    BY <2>2, Calls, BottomType DEF Places
  <2>4. Broken'
    BY <1>2, <1>7, <2>2 DEF Broken, Empty, input
  <2> QED BY <1>3, <1>4, <2>3, <2>4 DEF Astray
<1> QED BY <1>1, <1>5, <1>6, <1>7, AstrayAt

LEMMA AstrayAdvance ==
    ASSUME NEW U, NEW A \in Nat, Astray(U, A), Advance
    PROVE  Astray(U, A)'
<1>1. Loose(U, A) /\ Kept /\ (Held \/ Broken)
  BY DEF Astray
<1>2. Broken
  BY <1>1, AstrayAt DEF Advance
<1>3. PICK w \in Whats \ {"none"}, k \in 1 .. 3 : stack = Took(w, k)
  BY <1>1, AstrayAt DEF Advance
<1>4. k \in 0 .. 3
  OBVIOUS
<1>5. /\ Head(stack) = Frame("advance", w, k) /\ Head(stack).what = w /\ Head(stack).size = k
      /\ Tail(stack) = Bottom
  BY <1>3, <1>4, TookTop
<1>6. /\ offset' = offset + k /\ rstatus' = StatusAfter(w)
      /\ prefix' = (prefix /\ w # "sysex")
      /\ torn' = torn /\ UNCHANGED <<control, link, buffer, length, timers, decoder>>
  BY <1>5 DEF Advance
<1>7. stack' = Parses(w, k)
  <2>1. stack' = Moved("parse")
    BY DEF Advance
  <2>2. [Frame("advance", w, k) EXCEPT !.at = "parse"] = Frame("parse", w, k)
    BY DEF Frame
  <2> QED BY <1>5, <2>1, <2>2 DEF Moved, Parses, Above
<1>8. offset' \in Nat /\ offset' > 0
  <2>1. PICK o : o = offset'
    OBVIOUS
  <2>2. offset \in Nat
    BY <1>1 DEF Loose
  <2>3. o \in Nat /\ o > 0
    BY <1>6, <2>1, <2>2
  <2> QED BY <2>1, <2>3
<1>9. Loose(U, A)'
  <2>1. rstatus' \in Statuses /\ prefix' \in BOOLEAN
    BY <1>1, <1>6 DEF Loose, StatusAfter, Statuses
  <2>2. stack' \in Seq(Frames)
    BY <1>4, <1>7, ParsesTop
  <2> QED BY <1>1, <1>6, <1>8, <2>1, <2>2 DEF Loose, control, link, timers
<1>10. Kept'
  BY <1>1, <1>6, KeptSame DEF link
<1>11. Broken'
  BY <1>2, <1>4, <1>6, <1>7, <1>8 DEF Broken, Empty
<1> QED BY <1>9, <1>10, <1>11 DEF Astray

LEMMA AstrayFail ==
    ASSUME NEW U, NEW A \in Nat, Astray(U, A), Fail
    PROVE  Sane(U, A)'
<1>1. Loose(U, A) /\ Kept /\ (Held \/ Broken)
  BY DEF Astray
<1>2. Broken /\ stack = Above(Call("fail"), Bottom)
  BY <1>1, AstrayAt DEF Fail
<1>3. Tail(stack) = Bottom
  BY <1>2, Calls, BottomType DEF Places
<1>4. /\ data' = "closed" /\ wire' = <<>> /\ ended' = FALSE /\ offset' = 0 /\ stack' = Bottom
      /\ torn' = FALSE /\ UNCHANGED <<control, buffer, length, parser, timers, decoder>>
  BY <1>3 DEF Fail, Dropped
<1>5. <<>> \in Seq(U) /\ Bottom \in Seq(Frames)
  BY EmptySeq, BottomType
<1>6. 0 \in 0 .. length
  BY <1>1, LenProperties DEF Loose
<1>7. Typed(U, A)'
  BY <1>1, <1>4, <1>5, <1>6 DEF Typed, Loose, control, parser, timers
<1>8. Kept'
  BY <1>1, <1>4 DEF Kept, control, Queue
<1>9. Waiting'
  BY <1>4 DEF Waiting, Plain, Bases, Synced, Streaming
<1> QED BY <1>7, <1>8, <1>9 DEF Sane, Stage

LEMMA AstrayStep ==
    ASSUME NEW U, NEW A \in Nat, Astray(U, A), Server
    PROVE  IInv(U, A)'
<1>1. Held \/ Broken
  BY DEF Astray
<1>2. ~At("select") /\ ~At("accept")
  BY <1>1, AstrayAt
<1>3. ~Complete
  <2>1. At("parse") => length = 0 /\ offset > 0
    BY <1>1, AstrayAt DEF Broken, Empty
  <2>2. offset \in Nat
    BY DEF Astray, Loose
  <2> QED BY <2>1, <2>2 DEF Complete
<1>4. /\ ~Serve /\ ~Leave /\ ~Connect /\ ~NotConnected /\ ~Read /\ ~ReadEnd /\ ~Timeout
  BY <1>2 DEF Serve, Leave, Connect, NotConnected, Read, ReadEnd, Timeout, DataReady
<1>5. ~ParseEvent /\ ~ParseByte /\ ~ParseTiming /\ ~ParseStop /\ ~ParseBad
  BY <1>3 DEF ParseEvent, ParseByte, ParseTiming, ParseStop, ParseBad
<1>6. ~ParseDone
  <2>1. At("parse") => length = 0 /\ offset > 0 /\ offset \in Nat
    BY <1>1, AstrayAt DEF Broken, Empty, Astray, Loose
  <2> QED BY <2>1 DEF ParseDone
<1>7. CASE Discard
  BY <1>7, AstrayDiscard DEF IInv
<1>8. CASE Discarded
  BY <1>8, AstrayDiscarded DEF IInv
<1>9. CASE ResetFails
  BY <1>9, AstrayResetFails
<1>10. CASE Ask
  BY <1>10, AstrayAsk DEF IInv
<1>11. CASE AskLeave
  BY <1>11, AstrayAskLeave DEF IInv
<1>12. CASE Play
  BY <1>12, AstrayPlay DEF IInv
<1>13. CASE Stopped
  BY <1>13, AstrayStopped DEF IInv
<1>14. CASE Advance
  BY <1>14, AstrayAdvance DEF IInv
<1>15. CASE Fail
  BY <1>15, AstrayFail DEF IInv
<1>16. CASE Crash
  BY <1>16, OverStep DEF Crash, IInv
<1> QED BY <1>4, <1>5, <1>6, <1>7, <1>8, <1>9, <1>10, <1>11, <1>12, <1>13, <1>14, <1>15,
           <1>16 DEF Server

\* The client.
LEMMA AstrayClient ==
    ASSUME NEW U, NEW A \in Nat, Astray(U, A), Come \/ Hangup \/ EndData
    PROVE  Astray(U, A)'
<1>1. Loose(U, A) /\ Kept /\ (Held \/ Broken)
  BY DEF Astray
<1>2. Hangup \/ EndData
  BY <1>1, AstrayAt DEF Come
<1>3. /\ UNCHANGED <<socket, lines, owed, asked, data, wire, input, parser, timers, stack, decoder>>
      /\ hungup' \in BOOLEAN /\ ended' \in BOOLEAN /\ (data = "closed" => ended' = ended)
  BY <1>1, <1>2 DEF Hangup, EndData, Streams, control, link, Loose
<1>4. Queue' = Queue
  BY <1>3 DEF Queue
<1>5. Loose(U, A)'
  BY <1>1, <1>3 DEF Loose, input, parser, timers
<1>6. Kept'
  BY <1>1, <1>3, <1>4 DEF Kept
<1>7. (Held \/ Broken)'
  BY <1>1, <1>3, <1>4, AstraySame
<1> QED BY <1>5, <1>6, <1>7 DEF Astray

LEMMA AstraySend ==
    ASSUME NEW U, NEW A \in Nat, Astray(U, A), NEW command \in Commands, SendAny(A, command)
    PROVE  Astray(U, A)'
<1>1. Loose(U, A) /\ Kept /\ (Held \/ Broken)
  BY DEF Astray
<1>2. /\ asked' = (asked \/ command = "RESET")
      /\ command = "RESET" => ~asked
      /\ UNCHANGED <<lines, hungup, link, input, parser, tmr, notmr, stack, decoder>>
  BY DEF SendAny, timers
<1>3. /\ socket' \in Seq(Commands) /\ owed' \in 0 .. A /\ Len(Queue') <= owed'
      /\ Len(Queue) + 1 <= owed => Len(Queue') + 1 <= owed'
      /\ NoReset(Queue) => OneReset(Queue')
      /\ command # "RESET" /\ NoReset(Queue) => NoReset(Queue')
      /\ command # "RESET" /\ OneReset(Queue) => OneReset(Queue')
  BY <1>1, LineSent DEF Loose
<1>4. Loose(U, A)'
  BY <1>1, <1>2, <1>3 DEF Loose, link, input, parser
<1>5. Kept'
  BY <1>1, <1>2, <1>3 DEF Kept, link
<1>6. (Held \/ Broken)'
  BY <1>1, <1>2, <1>3, AstraySame
<1> QED BY <1>4, <1>5, <1>6 DEF Astray

LEMMA AstraySendUnit ==
    ASSUME NEW U, NEW A \in Nat, Astray(U, A), NEW unit \in U, SendUnit(unit)
    PROVE  Astray(U, A)'
<1>1. Loose(U, A) /\ Kept /\ (Held \/ Broken)
  BY DEF Astray
<1>2. /\ data = "open"
      /\ wire' = Append(wire, unit) /\ decoder' = Decoded(decoder, unit)
      /\ UNCHANGED <<control, data, ended, input, parser, timers, stack>>
  BY DEF SendUnit, Streams
<1>3. wire' \in Seq(U) /\ decoder' \in Decoders
  <2>1. wire \in Seq(U) /\ decoder \in Decoders
    BY <1>1 DEF Loose
  <2> QED BY <1>2, <2>1, DecodedType
<1>4. Loose(U, A)'
  BY <1>1, <1>2, <1>3 DEF Loose, control, input, parser, timers
<1>5. Queue' = Queue /\ asked' = asked /\ owed' = owed /\ Kept'
  BY <1>1, <1>2 DEF Kept, Queue, control
<1>6. (Held \/ Broken)'
  BY <1>1, <1>2, <1>5, AstraySame
<1> QED BY <1>4, <1>5, <1>6 DEF Astray

LEMMA ClientStep ==
    ASSUME NEW U, NEW A \in Nat, IInv(U, A), Come \/ Hangup \/ EndData
    PROVE  IInv(U, A)'
BY ComeStep, HangupStep, EndDataStep, AstrayClient DEF IInv

LEMMA ClientSends ==
    ASSUME NEW U, NEW A \in Nat, IInv(U, A), NEW command \in Commands, SendAny(A, command)
    PROVE  IInv(U, A)'
BY SendStep, AstraySend DEF IInv

LEMMA ClientStreams ==
    ASSUME NEW U, NEW A \in Nat, IInv(U, A), NEW unit \in U, SendUnit(unit)
    PROVE  IInv(U, A)'
BY SendUnitStep, AstraySendUnit DEF IInv

-----------------------------------------------------------------------------
(* Every step.                                                                *)

LEMMA SaneStep ==
    ASSUME NEW U, NEW A \in Nat, Sane(U, A), Server
    PROVE  IInv(U, A)'
<1>1. CASE Serve
  BY <1>1, ServeStep DEF IInv
<1>2. CASE Leave
  BY <1>2, LeaveStep DEF IInv
<1>3. CASE Discard
  BY <1>3, DiscardStep DEF IInv
<1>4. CASE Discarded
  BY <1>4, DiscardedStep DEF IInv
<1>5. CASE ResetFails
  BY <1>5, ResetFailsStep DEF IInv
<1>6. CASE Connect
  BY <1>6, ConnectStep DEF IInv
<1>7. CASE NotConnected
  BY <1>7, NotConnectedStep DEF IInv
<1>8. CASE Read
  BY <1>8, ReadStep DEF IInv
<1>9. CASE ReadEnd
  BY <1>9, ReadEndStep DEF IInv
<1>10. CASE Timeout
  BY <1>10, TimeoutStep DEF IInv
<1>11. CASE Ask
  BY <1>11, AskStep DEF IInv
<1>12. CASE AskLeave
  BY <1>12, AskLeaveStep DEF IInv
<1>13. CASE Play
  BY <1>13, PlayStep DEF IInv
<1>14. CASE Stopped
  BY <1>14, StoppedStep DEF IInv
<1>15. CASE ParseEvent
  BY <1>15, ParseEventStep DEF IInv
<1>16. CASE Advance
  BY <1>16, AdvanceStep DEF IInv
<1>17. CASE ParseByte
  BY <1>17, ParseByteStep DEF IInv
<1>18. CASE ParseTiming
  BY <1>18, ParseTimingStep DEF IInv
<1>19. CASE ParseStop
  BY <1>19, ParseStopStep DEF IInv
<1>20. CASE ParseBad
  BY <1>20, ParseBadStep DEF IInv
<1>21. CASE Fail
  BY <1>21, FailStep DEF IInv
<1>22. CASE ParseDone
  BY <1>22, ParseDoneStep DEF IInv
<1>23. CASE Crash
  BY <1>23, OverStep DEF Crash, IInv
<1> QED BY <1>1, <1>2, <1>3, <1>4, <1>5, <1>6, <1>7, <1>8, <1>9, <1>10, <1>11, <1>12,
           <1>13, <1>14, <1>15, <1>16, <1>17, <1>18, <1>19, <1>20, <1>21, <1>22, <1>23 DEF Server, IInv

LEMMA ServerStep ==
    ASSUME NEW U, NEW A \in Nat, IInv(U, A), Server
    PROVE  IInv(U, A)'
BY SaneStep, AstrayStep DEF IInv

LEMMA Stutters ==
    ASSUME NEW U, NEW A \in Nat, IInv(U, A), UNCHANGED vars
    PROVE  IInv(U, A)'
<1>1. /\ UNCHANGED <<asked, link, input, parser, timers, stack, decoder>>
      /\ socket' = socket /\ lines' = lines /\ owed' = owed /\ hungup' = hungup
  BY DEF vars, control
<1>2. Queue' = Queue
  BY <1>1 DEF Queue
<1>3. CASE Sane(U, A)
  <2>1. Typed(U, A) /\ Kept /\ Stage
    BY <1>3 DEF Sane
  <2>2. Typed(U, A)'
    BY <1>1, <2>1 DEF Typed, link, input, parser, timers
  <2>3. Kept'
    BY <1>1, <1>2, <2>1 DEF Kept, link
  <2>4. Stage'
    BY <1>1, <1>2, <2>1, Carried
  <2> QED BY <2>2, <2>3, <2>4 DEF IInv, Sane
<1>4. CASE Astray(U, A)
  <2>1. Loose(U, A)' /\ Kept'
    BY <1>1, <1>2, <1>4 DEF Astray, Loose, Kept, link, input, parser, timers
  <2> QED BY <1>1, <1>2, <1>4, <2>1, AstraySame DEF Astray, IInv, input
<1> QED BY <1>3, <1>4 DEF IInv

LEMMA PatientStep ==
    ASSUME IInv(Units, Ahead), Client
    PROVE  IInv(Units, Ahead)'
<1>0. Ahead \in Nat
  BY ServerAssumption
<1>1. CASE Come
  BY <1>0, <1>1, ClientStep
<1>2. CASE Hangup
  BY <1>0, <1>2, ClientStep
<1>3. CASE EndData
  BY <1>0, <1>3, ClientStep
<1>4. ASSUME NEW command \in Commands, Send(command)
      PROVE  IInv(Units, Ahead)'
  <2>1. SendAny(Ahead, command)
    BY <1>4 DEF Send, SendAny
  <2> QED BY <1>0, <2>1, ClientSends
<1>5. ASSUME NEW unit \in Units, SendData(unit)
      PROVE  IInv(Units, Ahead)'
  <2>1. SendUnit(unit)
    BY <1>5 DEF SendData, SendUnit
  <2> QED BY <1>0, <2>1, ClientStreams
<1> QED BY <1>1, <1>2, <1>3, <1>4, <1>5 DEF Client

LEMMA InvTypes ==
    ASSUME NEW U, NEW A, IInv(U, A)
    PROVE  /\ socket \in Seq(Commands) /\ lines \in Seq(Commands) /\ hungup \in BOOLEAN
           /\ owed \in 0..A /\ asked \in BOOLEAN
           /\ data \in {"closed", "open"} /\ wire \in Seq(U) /\ ended \in BOOLEAN
           /\ buffer \in Seq(U) /\ length \in 0..Len(buffer)
           /\ offset \in Nat /\ torn \in BOOLEAN /\ (offset <= length \/ torn)
           /\ rstatus \in {"none", "on", "prog"} /\ prefix \in BOOLEAN
           /\ tmr \in BOOLEAN /\ notmr \in BOOLEAN
           /\ \A i \in DOMAIN stack : stack[i].at \in Places
           /\ decoder.need \in 0..2
<1>1. Loose(U, A) /\ (offset <= length \/ torn)
  <2>1. CASE Sane(U, A)
    <3>1. Typed(U, A)
      BY <2>1 DEF Sane
    <3> QED BY <3>1, SaneLoose DEF Typed
  <2>2. CASE Astray(U, A)
    BY <2>2 DEF Astray, Held, Holding, Room, Broken
  <2> QED BY <2>1, <2>2 DEF IInv
<1>2. \A i \in DOMAIN stack : stack[i].at \in Places
  <2>1. stack \in Seq(Frames)
    BY <1>1 DEF Loose
  <2>2. \A i \in DOMAIN stack : stack[i] \in Frames
    BY <2>1
  <2> QED BY <2>2 DEF Frames
<1>3. decoder.need \in 0 .. 2
  BY <1>1 DEF Loose, Decoders
<1> QED BY <1>1, <1>2, <1>3 DEF Loose, Statuses

\* Where the parser stands beyond what was read, and only there, the buffer was reset.
LEMMA InvKills ==
    ASSUME NEW U, NEW A, IInv(U, A)
    PROVE  ResetKills
<1> SUFFICES ASSUME At("parse") PROVE torn <=> length < offset
  BY DEF ResetKills
<1>1. CASE Sane(U, A)
  <2>1. Typed(U, A)
    BY <1>1 DEF Sane
  <2>2. torn = FALSE /\ offset <= length /\ offset \in Int /\ length \in Int
    BY <2>1, LenProperties DEF Typed
  <2> QED BY <2>2
<1>2. CASE Astray(U, A)
  <2>1. Broken /\ offset > 0
    BY <1>2, AstrayAt DEF Astray
  <2> QED BY <2>1 DEF Broken, Empty
<1> QED BY <1>1, <1>2 DEF IInv

LEMMA InvJoins ==
    ASSUME NEW U, NEW A, IInv(U, A)
    PROVE  FragmentsJoin
<1> SUFFICES ASSUME At("select"), data = "open", wire = <<>>, ~(asked /\ ended)
             PROVE  /\ decoder.due = <<>>
                    /\ prefix = decoder.prefix
                    /\ (length = 0) = (decoder.need = 0)
                    /\ decoder.need = 0 => rstatus = decoder.run
  BY DEF FragmentsJoin
<1>1. Typed(U, A) /\ Waiting
  <2>1. ~Astray(U, A)
    BY AstrayAt DEF Astray
  <2> QED BY <2>1, AtPlace DEF IInv, Sane
<1>2. offset = 0 /\ (length > 0 => Size > length) /\ Synced
  BY <1>1 DEF Waiting, Short
<1>3. /\ rstatus \in Statuses /\ prefix \in BOOLEAN /\ decoder \in Decoders
      /\ buffer \in Seq(U) /\ length \in 0 .. Len(buffer) /\ Len(buffer) \in Nat
      /\ wire \in Seq(U) /\ length \in Nat
  <2>1. buffer \in Seq(U) /\ length \in 0 .. Len(buffer) /\ Len(buffer) \in Nat
    BY <1>1, LenProperties DEF Typed
  <2> QED BY <1>1, <2>1 DEF Typed
<1>5. PICK q \in Seq(Whats \cup {"wrong"}) : q = <<>>
  BY EmptySeq
<1>4. PICK w \in Whats : Reads(Between(rstatus, prefix, w, q), Left(0), decoder)
  BY <1>2, <1>5 DEF Synced, Streaming, InStep
<1> DEFINE b == Between(rstatus, prefix, w, q)
<1>6. /\ b \in Decoders /\ b.run = rstatus /\ b.prefix = prefix /\ b.need = 0 /\ b.due = q
  BY <1>3, BetweenFields
<1> DEFINE rest(i) == SubSeq(buffer, i, length)
<1>7. Left(0) = rest(1) \o wire
  BY <1>2, <1>3 DEF Left
<1> HIDE DEF b
<1>17. ASSUME NEW i \in 1 .. 3, i = length + 1
       PROVE  rest(i) \o wire = <<>>
  <2>1. rest(i) = <<>>
    BY <1>3, <1>17, SubSeqProperties
  <2>2. wire \in Seq(U) /\ wire = <<>>
    BY <1>3
  <2>3. wire \o wire = wire
    BY <2>2, JoinType
  <2> QED BY <2>1, <2>2, <2>3
<1>8. CASE length = 0
  <2>2. Left(0) = <<>>
    BY <1>7, <1>8, <1>17
  <2>3. decoder = b
    BY <1>4, <2>2, ReadsNothing DEF b
  <2> QED BY <1>5, <1>6, <1>8, <2>3
<1>9. ASSUME length > 0
      PROVE  /\ Size > length /\ Size \in 2 .. 3
             /\ \/ Event(Unit) /\ Size = 2
                \/ ~Event(Unit) /\ ~prefix /\ Unit = "on" /\ Size = 3
                \/ ~Event(Unit) /\ ~prefix /\ Unit = "prog" /\ Size = 2
                \/ ~Event(Unit) /\ ~prefix /\ Unit = "data" /\ rstatus = "on" /\ Size = 2
  <2>1. Size > length
    BY <1>2, <1>9
  <2>2. Size # 1
    BY <1>3, <1>9, <2>1
  <2> QED BY <2>1, <2>2, <1>3 DEF Size
<1> DEFINE d == Decoded(b, Unit)
<1>10. ASSUME length > 0
       PROVE  Reads(d, Left(1), decoder)
  <2>1. 0 \in 0 .. 2 /\ offset + 0 < length
    BY <1>2, <1>3, <1>10
  <2>2. Reads(Decoded(b, buffer[offset + 0 + 1]), Left(0 + 1), decoder)
    BY <1>1, <1>4, <2>1, LeftNext DEF b
  <2>3. buffer[offset + 0 + 1] = Unit /\ Left(0 + 1) = Left(1)
    BY <1>2 DEF Unit
  <2> QED BY <2>2, <2>3
<1>11. /\ Event(Unit) => d = Within(rstatus, prefix, 1, Unit, q)
       /\ ~Event(Unit) /\ ~prefix /\ Unit = "on" => d = Within("on", prefix, 2, "note", q)
       /\ ~Event(Unit) /\ ~prefix /\ Unit = "prog" => d = Within("prog", prefix, 1, "program", q)
       /\ ~Event(Unit) /\ ~prefix /\ Unit = "data" /\ rstatus = "on" =>
              d = Within("on", prefix, 1, "note", q)
  BY <1>3, FirstUnit DEF b
<1> HIDE DEF d
<1>12. ASSUME NEW run \in Statuses, NEW n \in 1 .. 2, NEW what \in Whats,
              decoder = Within(run, prefix, n, what, q)
       PROVE  decoder.due = <<>> /\ prefix = decoder.prefix /\ decoder.need # 0
  <2>1. n \in 0 .. 2 /\ n # 0
    OBVIOUS
  <2>2. /\ Within(run, prefix, n, what, q).prefix = prefix
        /\ Within(run, prefix, n, what, q).need = n
        /\ Within(run, prefix, n, what, q).due = q
    BY <1>3, <2>1, WithinFields
  <2> QED BY <1>5, <1>12, <2>1, <2>2
<1>13. PICK one \in 1 .. 2, two \in 1 .. 2, on \in Statuses, prog \in Statuses,
            note \in Whats, program \in Whats :
            /\ one = 1 /\ two = 2 /\ on = "on" /\ prog = "prog" /\ note = "note"
            /\ program = "program"
  BY DEF Statuses, Whats
<1>14. CASE length = 1
  <2>1. Left(1) = <<>>
    <3>1. rest(2) \o wire = <<>>
      BY <1>14, <1>17
    <3>2. Left(1) = rest(2) \o wire
      BY <1>2 DEF Left
    <3> QED BY <3>1, <3>2
  <2>2. decoder = d
    BY <1>3, <1>10, <1>14, <2>1, ReadsNothing
  <2>3. decoder.due = <<>> /\ prefix = decoder.prefix /\ decoder.need # 0
    <3>1. CASE Event(Unit)
      <4>1. Unit \in Whats
        BY <3>1 DEF Event, Whats
      <4>2. decoder = Within(rstatus, prefix, one, Unit, q)
        BY <1>11, <1>13, <2>2, <3>1
      <4> QED BY <1>3, <1>12, <4>1, <4>2
    <3>2. CASE ~Event(Unit) /\ ~prefix /\ Unit = "on"
      <4>1. decoder = Within(on, prefix, two, note, q)
        BY <1>11, <1>13, <2>2, <3>2
      <4> QED BY <1>12, <4>1
    <3>3. CASE ~Event(Unit) /\ ~prefix /\ Unit = "prog"
      <4>1. decoder = Within(prog, prefix, one, program, q)
        BY <1>11, <1>13, <2>2, <3>3
      <4> QED BY <1>12, <4>1
    <3>4. CASE ~Event(Unit) /\ ~prefix /\ Unit = "data" /\ rstatus = "on"
      <4>1. decoder = Within(on, prefix, one, note, q)
        BY <1>11, <1>13, <2>2, <3>4
      <4> QED BY <1>12, <4>1
    <3> QED BY <1>3, <1>9, <1>14, <3>1, <3>2, <3>3, <3>4
  <2> QED BY <1>14, <2>3
<1>15. CASE length = 2
  <2>1. ~Event(Unit) /\ ~prefix /\ Unit = "on"
    BY <1>3, <1>9, <1>15
  <2>2. d = Within(on, prefix, two, note, q)
    BY <1>11, <1>13, <2>1
  <2>3. Reads(Decoded(d, buffer[offset + 1 + 1]), Left(1 + 1), decoder)
    <3>1. 1 \in 0 .. 2 /\ offset + 1 < length
      BY <1>2, <1>15
    <3>2. Reads(d, Left(1), decoder)
      BY <1>10, <1>15
    <3> QED BY <1>1, <3>1, <3>2, LeftNext
  <2>4. Left(1 + 1) = <<>>
    <3>1. rest(3) \o wire = <<>>
      BY <1>15, <1>17
    <3>2. Left(1 + 1) = rest(3) \o wire
      BY <1>2 DEF Left
    <3> QED BY <3>1, <3>2
  <2>5. decoder = Decoded(d, buffer[offset + 1 + 1])
    BY <2>3, <2>4, ReadsNothing
  <2>6. \A u : Decoded(Within(on, prefix, 2, note, q), u) = Within(on, prefix, 1, note, q)
    BY <1>3, NextUnit
  <2>7. decoder = Within(on, prefix, one, note, q)
    BY <1>13, <2>2, <2>5, <2>6
  <2>8. decoder.due = <<>> /\ prefix = decoder.prefix /\ decoder.need # 0
    BY <1>12, <2>7
  <2> QED BY <1>15, <2>8
<1>16. CASE length > 2
  BY <1>3, <1>9, <1>16
<1> QED BY <1>3, <1>8, <1>14, <1>15, <1>16

\* Neither the units nor the number of commands matter to the server.
LEMMA HastyServer == Hasty!Server => Server
<1> USE DEF At, Hasty!At, Ready, Hasty!Ready, Readable, Hasty!Readable, HasLine,
           Hasty!HasLine, Command, Hasty!Command, Nop, Hasty!Nop, Line, Hasty!Line,
           NextLine, Hasty!NextLine, TakeLine, Hasty!TakeLine, Answer, Hasty!Answer, link,
           Hasty!link, input, Hasty!input, parser, Hasty!parser, timers, Hasty!timers,
           Close, Hasty!Close, Dropped, Hasty!Dropped, Open, Hasty!Open, Frame,
           Hasty!Frame, Reset, Hasty!Reset, ServerReset, Hasty!ServerReset,
           Initialize, Hasty!Initialize, Decoder, Hasty!Decoder, Over, Hasty!Over, control,
           Hasty!control, DataReady, Hasty!DataReady, Push, Hasty!Push, Asks, Hasty!Asks,
           Returned, Hasty!Returned, Moved, Hasty!Moved, Heard, Hasty!Heard, Complete,
           Hasty!Complete, Size, Hasty!Size, Event, Hasty!Event, Unit, Hasty!Unit, Plays,
           Hasty!Plays, StatusAfter, Hasty!StatusAfter
<1>0. \A rest : Hasty!Inside(rest) <=> Inside(rest)
  BY DEF Inside, Hasty!Inside
<1>1. Hasty!Serve <=> Serve
  BY <1>0 DEF Serve, Hasty!Serve
<1>2. Hasty!Leave <=> Leave
  BY DEF Leave, Hasty!Leave
<1>3. Hasty!Discard <=> Discard
  BY DEF Discard, Hasty!Discard
<1>4. Hasty!Discarded <=> Discarded
  BY <1>0 DEF Discarded, Hasty!Discarded
<1>5. Hasty!ResetFails <=> ResetFails
  BY DEF ResetFails, Hasty!ResetFails
<1>6. Hasty!Connect <=> Connect
  BY DEF Connect, Hasty!Connect
<1>7. Hasty!NotConnected <=> NotConnected
  BY DEF NotConnected, Hasty!NotConnected
<1>8. Hasty!Read <=> Read
  BY DEF Read, Hasty!Read
<1>9. Hasty!ReadEnd <=> ReadEnd
  BY DEF ReadEnd, Hasty!ReadEnd
<1>10. Hasty!Timeout <=> Timeout
  BY DEF Timeout, Hasty!Timeout
<1>11. Hasty!Ask <=> Ask
  BY <1>0 DEF Ask, Hasty!Ask
<1>12. Hasty!AskLeave <=> AskLeave
  BY DEF AskLeave, Hasty!AskLeave
<1>13. Hasty!Play <=> Play
  BY DEF Play, Hasty!Play
<1>14. Hasty!Stopped <=> Stopped
  BY DEF Stopped, Hasty!Stopped
<1>15. Hasty!ParseEvent <=> ParseEvent
  BY DEF ParseEvent, Hasty!ParseEvent
<1>16. Hasty!Advance <=> Advance
  BY DEF Advance, Hasty!Advance
<1>17. Hasty!ParseByte <=> ParseByte
  BY DEF ParseByte, Hasty!ParseByte
<1>18. Hasty!ParseTiming <=> ParseTiming
  BY DEF ParseTiming, Hasty!ParseTiming
<1>19. Hasty!ParseStop <=> ParseStop
  BY DEF ParseStop, Hasty!ParseStop
<1>20. Hasty!ParseBad <=> ParseBad
  BY DEF ParseBad, Hasty!ParseBad
<1>21. Hasty!Fail <=> Fail
  BY DEF Fail, Hasty!Fail
<1>22. Hasty!ParseDone <=> ParseDone
  BY DEF ParseDone, Hasty!ParseDone
<1>23. Hasty!Crash <=> Crash
  BY DEF Crash, Hasty!Crash
<1> QED BY <1>1, <1>2, <1>3, <1>4, <1>5, <1>6, <1>7, <1>8, <1>9, <1>10, <1>11, <1>12,
           <1>13, <1>14, <1>15, <1>16, <1>17, <1>18, <1>19, <1>20, <1>21, <1>22, <1>23 DEF Server, Hasty!Server

HastyUnits == {"data", "voice", "start", "halt", "bad"}

LEMMA HastyStep ==
    ASSUME IInv(HastyUnits, 2), Hasty!Client
    PROVE  IInv(HastyUnits, 2)'
<1>0. 2 \in Nat
  OBVIOUS
<1>1. CASE Hasty!Come
  <2>1. Come
    BY <1>1 DEF Come, Hasty!Come, Frame, Hasty!Frame, control, Hasty!control, link,
           Hasty!link, input, Hasty!input, parser, Hasty!parser, timers, Hasty!timers
  <2> QED BY <1>0, <2>1, ClientStep
<1>2. CASE Hasty!Hangup
  <2>1. Hangup
    BY <1>2 DEF Hangup, Hasty!Hangup, Connected, Hasty!Connected, link, Hasty!link, input,
           Hasty!input, parser, Hasty!parser, timers, Hasty!timers
  <2> QED BY <1>0, <2>1, ClientStep
<1>3. CASE Hasty!EndData
  <2>1. EndData
    BY <1>3 DEF EndData, Hasty!EndData, Streams, Hasty!Streams, control, Hasty!control,
           input, Hasty!input, parser, Hasty!parser, timers, Hasty!timers
  <2> QED BY <1>0, <2>1, ClientStep
<1>4. ASSUME NEW command \in Commands, Hasty!Send(command)
      PROVE  IInv(HastyUnits, 2)'
  <2>1. SendAny(2, command)
    BY <1>4 DEF SendAny, Hasty!Send, Connected, Hasty!Connected, link,
           Hasty!link, input, Hasty!input, parser, Hasty!parser, timers, Hasty!timers
  <2> QED BY <1>0, <2>1, ClientSends
<1>5. ASSUME NEW unit \in HastyUnits, Hasty!SendData(unit)
      PROVE  IInv(HastyUnits, 2)'
  <2>1. Hasty!Decoded(decoder, unit) = Decoded(decoder, unit)
    BY DEF Decoded, Hasty!Decoded, Begun, Hasty!Begun, Event, Hasty!Event
  <2>2. SendUnit(unit)
    BY <1>5, <2>1 DEF SendUnit, Hasty!SendData, Streams, Hasty!Streams, control,
           Hasty!control, input, Hasty!input, parser, Hasty!parser, timers, Hasty!timers
  <2> QED BY <1>0, <2>2, ClientStreams
<1> QED BY <1>1, <1>2, <1>3, <1>4, <1>5 DEF Hasty!Client, HastyUnits

MCInv ==
    /\ client \in {"patient", "hasty"}
    /\ client = "patient" => IInv(Units, Ahead)
    /\ client = "hasty" => IInv(HastyUnits, 2)

LEMMA MCNextStep ==
    ASSUME MCInv, [MCNext]_allVars
    PROVE  MCInv'
<1>0. Ahead \in Nat /\ 2 \in Nat
  BY ServerAssumption
<1>1. ASSUME MCServe PROVE MCInv'
  <2>1. client' = client /\ Server
    BY <1>1, HastyServer DEF MCServe
  <2>2. IInv(Units, Ahead) => IInv(Units, Ahead)'
    BY <1>0, <2>1, ServerStep
  <2>3. IInv(HastyUnits, 2) => IInv(HastyUnits, 2)'
    BY <1>0, <2>1, ServerStep
  <2> QED BY <2>1, <2>2, <2>3 DEF MCInv
<1>2. ASSUME client = "patient", Client, UNCHANGED client PROVE MCInv'
  <2>1. IInv(Units, Ahead)'
    BY <1>2, PatientStep DEF MCInv
  <2> QED BY <1>2, <2>1 DEF MCInv
<1>3. ASSUME client = "hasty", Hasty!Client, UNCHANGED client PROVE MCInv'
  <2>1. IInv(HastyUnits, 2)'
    BY <1>3, HastyStep DEF MCInv
  <2> QED BY <1>3, <2>1 DEF MCInv
<1>4. ASSUME UNCHANGED allVars PROVE MCInv'
  <2>1. client' = client /\ UNCHANGED vars
    BY <1>4 DEF allVars
  <2>2. IInv(Units, Ahead) => IInv(Units, Ahead)'
    BY <1>0, <2>1, Stutters
  <2>3. IInv(HastyUnits, 2) => IInv(HastyUnits, 2)'
    BY <1>0, <2>1, Stutters
  <2> QED BY <2>1, <2>2, <2>3 DEF MCInv
<1> QED BY <1>1, <1>2, <1>3, <1>4 DEF MCNext

LEMMA Inductive ==
    ASSUME IInv(Units, Ahead), [Next]_vars
    PROVE  IInv(Units, Ahead)'
<1>0. Ahead \in Nat
  BY ServerAssumption
<1>1. CASE Server
  BY <1>0, <1>1, ServerStep
<1>2. CASE Client
  BY <1>2, PatientStep
<1>3. CASE UNCHANGED vars
  BY <1>0, <1>3, Stutters
<1> QED BY <1>1, <1>2, <1>3 DEF Next

LEMMA Invariant == Spec => []IInv(Units, Ahead)
<1>1. Init => IInv(Units, Ahead)
  BY Starts, ServerAssumption DEF IInv
<1>2. IInv(Units, Ahead) /\ [Next]_vars => IInv(Units, Ahead)'
  BY Inductive
<1> QED BY <1>1, <1>2, PTL DEF Spec

LEMMA InvTypeOK ==
    ASSUME IInv(Units, Ahead)
    PROVE  TypeOK
BY InvTypes DEF TypeOK

\* server_c.c reads and parses within data_buffer, whatever fragments the data comes
\* in: the position in the buffer passes data_buffer_len only after a RESET inside an
\* event, and each command read is one that was sent and not answered.
THEOREM Types == Spec => []TypeOK
<1>1. IInv(Units, Ahead) => TypeOK
  BY InvTypeOK
<1> QED BY <1>1, Invariant, PTL

\* What do_sequencer plays is the stream of units as it was sent, for any units, any
\* commands and any number of them ahead: however the stream is cut into fragments,
\* and whatever commands are carried out between two of them or inside an event.
THEOREM Joins == Spec => []FragmentsJoin
<1>1. IInv(Units, Ahead) => FragmentsJoin
  BY InvJoins
<1> QED BY <1>1, Invariant, PTL

\* The crash of the server at the end of do_sequencer (memmove of a negative length)
\* is characterised: data_buffer_len becomes negative after every RESET that was carried
\* out inside an event of the data, and after nothing else.
THEOREM Kills == Spec => []ResetKills
<1>1. IInv(Units, Ahead) => ResetKills
  BY InvKills
<1> QED BY <1>1, Invariant, PTL

\* The same of the two clients of MCServer: one that waits for its answers, with any
\* units of data, and one that speaks the sequencer protocol and sends a command
\* before the answer to the last.
THEOREM Sound == MCSpec => []StreamSound
<1>1. MCInit => MCInv
  <2>1. ASSUME Init PROVE IInv(Units, Ahead) /\ IInv(HastyUnits, 2)
    BY <2>1, Starts, ServerAssumption DEF IInv
  <2> QED BY <2>1 DEF MCInit, MCInv
<1>2. MCInv /\ [MCNext]_allVars => MCInv'
  BY MCNextStep
<1>3. ASSUME MCInv PROVE StreamSound
  <2>1. FragmentsJoin /\ ResetKills
    BY <1>3, InvJoins, InvKills DEF MCInv
  <2>2. client = "patient" => TypeOK
    BY <1>3, InvTypeOK DEF MCInv
  <2>3. ASSUME IInv(HastyUnits, 2) PROVE Hasty!TypeOK
    BY <2>3, InvTypes DEF Hasty!TypeOK, HastyUnits, Places, Hasty!Places
  <2> QED BY <1>3, <2>1, <2>2, <2>3 DEF StreamSound, MCInv
<1> QED BY <1>1, <1>2, <1>3, PTL DEF MCSpec
=============================================================================
