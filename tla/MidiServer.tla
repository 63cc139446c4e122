------------------------------ MODULE MidiServer -----------------------------
(* The TiMidity server, server_c.c: a client sends commands over a control    *)
(* connection and MIDI over a data connection, and doit serves both in one    *)
(* thread.  Playing an event may read the control connection (ctl_read, which *)
(* the player calls while it computes), so a command may be carried out in    *)
(* the middle of an event, of a flush or of another command: stack holds what *)
(* the thread is in, the innermost first.                                     *)
(*                                                                           *)
(* The protocol is the sequencer protocol, which server_reset sets, and       *)
(* PROTOCOL is not modelled.  A unit of data is a frame of four bytes, a byte *)
(* of MIDI (SEQ_MIDIPUTC) or half of an event; fragments are of whole units,  *)
(* and commands of whole lines.  The time of an event is not modelled.  The   *)
(* client may send RESET at any time, but no data and no other RESET until it *)
(* is answered.                                                               *)
EXTENDS Integers, Sequences

CONSTANTS
    Units,      \* what may come over the data connection: "on" and "prog" (the
                \* status of a note and of a program change), "data", "f0", "f7",
                \* "stop" (0xFC); "voice", "start", "halt" (events of two units)
                \* and "bad"
    Commands,   \* what the client may send
    Ahead,      \* commands that the client sends before it is answered
    MaxUnits    \* a bound on the data on its way or in the buffer

ASSUME ServerAssumption == Ahead \in Nat

VARIABLES
    socket,     \* control connection: the lines on their way
    lines,      \* the lines read and not yet carried out (control_fd_buffer)
    hungup,     \* the client has closed the control connection
    owed,       \* the commands sent and not answered
    asked,      \* the client waits for the answer to RESET
    data,       \* data_fd: "closed" or "open"
    wire,       \* data connection: the units on their way
    ended,      \* the client has closed the data connection
    buffer,     \* data_buffer
    length,     \* data_buffer_len
    offset,     \* of do_sequencer
    torn,       \* history: server_reset was called inside do_sequencer
    rstatus,    \* the running status
    prefix,     \* is_system_prefix, and fillflag of do_sysex
    tmr, notmr, \* tmr_running, notmr_running
    stack,      \* the calls of the thread; empty while it waits for a client
    decoder     \* history: the units sent so far, taken one by one

control == <<socket, lines, hungup, owed, asked>>
link == <<data, wire, ended>>
input == <<buffer, length, offset, torn>>
parser == <<rstatus, prefix>>
timers == <<tmr, notmr>>
vars == <<control, link, input, parser, timers, stack, decoder>>

\* A call: where it is, the event it plays, and the units it takes.
Frame(at, what, size) == [at |-> at, what |-> what, size |-> size]

At(place) == stack # <<>> /\ Head(stack).at = place
Push(frame) == <<frame>> \o stack
Moved(place) == <<[Head(stack) EXCEPT !.at = place]>> \o Tail(stack)

-----------------------------------------------------------------------------
(* History: the stream taken unit by unit, without a buffer.  due is what it   *)
(* says and the server has not played.                                        *)

Decoder(status) ==
    [run |-> status, prefix |-> FALSE, need |-> 0, what |-> "none", due |-> <<>>]

Event(unit) == unit \in {"voice", "start", "halt"}

\* A message of n units more, played as what, after which the status is run.
Begun(d, n, what, run) ==
    [d EXCEPT !.need = n, !.what = what, !.run = run,
              !.due = IF n = 0 THEN Append(@, what) ELSE @]

\* A unit within a message, at the end of a system exclusive message or within it,
\* with a status, with the running status, or one that clears it.
Decoded(d, unit) ==
    IF d.need > 0 THEN Begun(d, d.need - 1, d.what, d.run)
    ELSE IF Event(unit) THEN Begun(d, 1, unit, d.run)
    ELSE IF d.prefix /\ unit = "f7"
    THEN [Begun(d, 0, "sysex", d.run) EXCEPT !.prefix = FALSE]
    ELSE IF d.prefix THEN d
    ELSE IF unit = "on" THEN Begun(d, 2, "note", "on")
    ELSE IF unit = "prog" THEN Begun(d, 1, "program", "prog")
    ELSE IF unit = "data" /\ d.run = "on" THEN Begun(d, 1, "note", "on")
    ELSE IF unit = "data" /\ d.run = "prog" THEN Begun(d, 0, "program", "prog")
    ELSE IF unit = "data" THEN d
    ELSE [d EXCEPT !.run = "none", !.prefix = unit = "f0"]

\* What is played is the next that is due, or it is wrong for good.
Heard(what) ==
    [decoder EXCEPT !.due =
        IF @ # <<>> /\ Head(@) = what THEN Tail(@) ELSE <<"wrong">> \o @]

-----------------------------------------------------------------------------
Init ==
    /\ socket = <<>> /\ lines = <<>> /\ hungup = FALSE /\ owed = 0 /\ asked = FALSE
    /\ data = "closed" /\ wire = <<>> /\ ended = FALSE
    /\ buffer = <<>> /\ length = 0 /\ offset = 0 /\ torn = FALSE
    /\ rstatus = "none" /\ prefix = FALSE
    /\ tmr = FALSE /\ notmr = FALSE
    /\ stack = <<>>
    /\ decoder = Decoder("none")

-----------------------------------------------------------------------------
(* Control commands.  rest is the stack they return to.                       *)

\* select finds the control connection readable.
Readable == socket # <<>> \/ hungup

\* fdgets: a line that was read with an earlier one, or else all that has come.
NextLine == Head(lines \o socket)
TakeLine ==
    IF lines # <<>> THEN lines' = Tail(lines) /\ UNCHANGED socket
    ELSE lines' = Tail(socket) /\ socket' = <<>>

HasLine == lines # <<>> \/ socket # <<>>
Line(command) == HasLine /\ NextLine = command /\ TakeLine /\ UNCHANGED hungup

\* send_status.
Answer == owed' = owed - 1

Dropped == data' = "closed" /\ wire' = <<>> /\ ended' = FALSE

\* The commands that only answer: NOP, TIME, QUEUE, ...; OPEN when it is open.
Nop(rest) ==
    /\ Line("NOP") \/ (data = "open" /\ Line("OPEN"))
    /\ Answer
    /\ stack' = rest
    /\ UNCHANGED <<asked, link, input, parser, timers, decoder>>

\* cmd_close.
Close(rest) ==
    /\ Line("CLOSE") /\ Answer
    /\ Dropped
    /\ stack' = rest
    /\ UNCHANGED <<asked, input, parser, timers, decoder>>

\* cmd_open waits for the client to connect.
Open(rest) ==
    /\ data = "closed" /\ Line("OPEN")
    /\ stack' = <<Frame("accept", "none", 0)>> \o rest
    /\ UNCHANGED <<owed, asked, link, input, parser, timers, decoder>>

\* server_reset.  What data_buffer holds beyond data_buffer_len is left out.
Initialize ==
    /\ buffer' = <<>> /\ length' = 0
    /\ rstatus' = "none" /\ prefix' = FALSE
    /\ tmr' = FALSE /\ notmr' = FALSE
    /\ decoder' = Decoder("none")

\* The calls that a command returns to are of do_sequencer.
Inside(rest) == \E i \in DOMAIN rest : rest[i].at \in {"parse", "advance", "fail"}

\* Mutant: the input that is left survives.
ServerResetKeeping(rest) ==
    /\ rstatus' = "none" /\ prefix' = FALSE
    /\ tmr' = FALSE /\ notmr' = FALSE
    /\ decoder' = Decoder("none")
    /\ asked' = FALSE /\ Answer
    /\ stack' = rest
    /\ UNCHANGED <<input, link>>

ServerReset(rest) ==
    /\ Initialize
    /\ asked' = FALSE /\ Answer
    /\ stack' = rest
    /\ torn' = (torn \/ Inside(rest))
    /\ UNCHANGED <<offset, link>>

\* cmd_reset: what is played stops, then what comes over the data connection is
\* thrown away.
Reset(rest) ==
    /\ Line("RESET")
    /\ IF data = "open"
       THEN /\ stack' = <<Frame("stop", "none", 0), Frame("discard", "none", 0)>> \o rest
            /\ UNCHANGED <<owed, asked, link, input, parser, timers, decoder>>
       ELSE ServerReset(rest)

Command(rest) == Nop(rest) \/ Close(rest) \/ Open(rest) \/ Reset(rest)

\* data_flush(1) reads until nothing came for a tenth of a second.
Discard ==
    /\ At("discard") /\ wire # <<>>
    /\ wire' = <<>>
    /\ UNCHANGED <<control, data, ended, input, parser, timers, stack, decoder>>

Discarded ==
    /\ At("discard") /\ wire = <<>> /\ ~ended
    /\ ServerReset(Tail(stack))
    /\ UNCHANGED <<socket, lines, hungup>>

\* The connection is accepted.
Connect ==
    /\ At("accept")
    /\ data' = "open" /\ wire' = <<>> /\ ended' = FALSE
    /\ buffer' = <<>> /\ length' = 0 /\ prefix' = FALSE
    /\ decoder' = Decoder(rstatus)
    /\ Answer
    /\ stack' = Tail(stack)
    /\ UNCHANGED <<socket, lines, hungup, asked, offset, torn, rstatus, timers>>

\* The alarm ends the wait, or the connection comes from elsewhere.
NotConnected ==
    /\ At("accept")
    /\ Answer
    /\ stack' = Tail(stack)
    /\ UNCHANGED <<socket, lines, hungup, asked, link, input, parser, timers, decoder>>

-----------------------------------------------------------------------------
(* doit.                                                                     *)

\* Mutant: the data connection is served first.
ReadyLast ==
    IF data = "open" THEN Readable /\ wire = <<>> /\ ~ended ELSE HasLine \/ hungup

\* The control connection is served first; without a data connection doit waits
\* for a line.
Ready == IF data = "open" THEN Readable ELSE HasLine \/ hungup

Serve == At("select") /\ Ready /\ Command(stack)

\* The session is over; server_reset comes before the next.
Over ==
    /\ socket' = <<>> /\ lines' = <<>> /\ hungup' = FALSE /\ owed' = 0 /\ asked' = FALSE
    /\ Dropped
    /\ Initialize
    /\ offset' = 0 /\ torn' = FALSE
    /\ stack' = <<>>

\* QUIT, or the client has closed the connection.
Leave ==
    /\ At("select") /\ Ready
    /\ HasLine => NextLine = "QUIT"
    /\ Over

\* data_flush finds the data connection ended: cmd_reset returns as if the
\* control connection were, without an answer.
ResetFails ==
    /\ At("discard") /\ wire = <<>> /\ ended
    /\ IF Tail(stack)[1].at = "select" THEN Over
       ELSE stack' = Tail(stack) /\ UNCHANGED <<control, link, input, parser, timers, decoder>>

\* select finds the data connection readable.
DataReady == At("select") /\ data = "open" /\ ~Ready

\* do_sequencer reads what has come.
Read ==
    /\ DataReady /\ wire # <<>>
    /\ buffer' = SubSeq(buffer, 1, length) \o wire
    /\ length' = length + Len(wire)
    /\ offset' = 0
    /\ wire' = <<>>
    /\ notmr' = ~tmr
    /\ stack' = Push(Frame("parse", "none", 0))
    /\ UNCHANGED <<control, data, ended, torn, parser, tmr, decoder>>

\* At the end of the data, do_sequencer stops the playing and returns 0, as when
\* it has played something.
ReadEnd ==
    /\ DataReady /\ wire = <<>> /\ ended
    /\ notmr' = ~tmr
    /\ stack' = Push(Frame("stop", "none", 0))
    /\ UNCHANGED <<control, link, input, parser, tmr, decoder>>

\* do_timeout: an event without effect, for the time that has passed.
Timeout ==
    /\ DataReady /\ wire = <<>> /\ ~ended
    /\ tmr \/ notmr
    /\ stack' = Push(Frame("compute", "none", 0))
    /\ UNCHANGED <<control, link, input, parser, timers, decoder>>

-----------------------------------------------------------------------------
(* Playing, and the commands carried out meanwhile.                           *)

\* ctl_read, called by play_event and by the flush in stop_playing.
Asks == (At("compute") \/ At("stop")) /\ data = "open" /\ Readable

Returned == IF At("compute") THEN Moved("asked") ELSE stack

Ask == Asks /\ Command(Returned)

\* QUIT is answered with "Bye", and what do_control_command returns is lost; so
\* is the end of the connection.
AskLeave ==
    /\ Asks
    /\ stack' = Returned
    /\ IF HasLine THEN Line("QUIT") /\ Answer
       ELSE UNCHANGED <<socket, lines, hungup, owed>>
    /\ UNCHANGED <<asked, link, input, parser, timers, decoder>>

\* The event takes effect.
Play ==
    /\ At("compute") \/ At("asked")
    /\ decoder' = IF Head(stack).what = "none" THEN decoder ELSE Heard(Head(stack).what)
    /\ stack' = Tail(stack)
    /\ UNCHANGED <<control, link, input, parser, timers>>

\* stop_playing ends.
Stopped ==
    /\ At("stop")
    /\ notmr' = FALSE
    /\ stack' = Tail(stack)
    /\ UNCHANGED <<control, link, input, parser, tmr, decoder>>

-----------------------------------------------------------------------------
(* do_sequencer.                                                             *)

Unit == buffer[offset + 1]
\* The units of the message that begins at offset (READ_NEEDBUF).
Size ==
    IF Event(Unit) THEN 2
    ELSE IF prefix THEN 1
    ELSE IF Unit = "on" THEN 3
    ELSE IF Unit = "prog" \/ (Unit = "data" /\ rstatus = "on") THEN 2
    ELSE 1

\* What the message plays.
Plays ==
    IF Unit = "voice" THEN "voice"
    ELSE IF Unit \in {"start", "halt", "bad"} THEN "none"
    ELSE IF prefix THEN IF Unit = "f7" THEN "sysex" ELSE "none"
    ELSE IF Unit = "on" \/ (Unit = "data" /\ rstatus = "on") THEN "note"
    ELSE IF Unit = "prog" \/ (Unit = "data" /\ rstatus = "prog") THEN "program"
    ELSE "none"

Complete == At("parse") /\ offset < length /\ offset + Size <= length

\* The message is handled and the parser advances when it was.
ParseEvent ==
    /\ Complete /\ Plays # "none"
    /\ stack' = <<Frame("compute", Plays, 0), Frame("advance", Plays, Size)>> \o Tail(stack)
    /\ UNCHANGED <<control, link, input, parser, timers, decoder>>

\* The running status after a message.
StatusAfter(what) ==
    CASE what = "note" -> "on"
      [] what = "program" -> "prog"
      [] what = "stop" -> "none"
      [] OTHER -> rstatus

Advance ==
    /\ At("advance")
    /\ offset' = offset + Head(stack).size
    /\ rstatus' = StatusAfter(Head(stack).what)
    /\ prefix' = (prefix /\ Head(stack).what # "sysex")
    /\ stack' = Moved("parse")
    /\ UNCHANGED <<control, link, buffer, length, torn, timers, decoder>>

\* A message that plays nothing: a byte of a system exclusive message, a byte
\* without a status, or one of the system messages, which clear the status.
ParseByte ==
    /\ Complete /\ Plays = "none" /\ Unit \notin {"start", "halt", "bad"}
    /\ ~(Unit = "stop" /\ ~prefix)
    /\ offset' = offset + 1
    /\ prefix' = (prefix \/ Unit = "f0")
    /\ rstatus' = IF prefix \/ Unit = "data" THEN rstatus ELSE "none"
    /\ UNCHANGED <<control, link, buffer, length, torn, timers, stack, decoder>>

\* TMR_START and TMR_STOP.
ParseTiming ==
    /\ Complete /\ Unit \in {"start", "halt"}
    /\ offset' = offset + Size
    /\ tmr' = (Unit = "start")
    /\ decoder' = Heard(Unit)
    /\ UNCHANGED <<control, link, buffer, length, torn, parser, notmr, stack>>

\* MIDI Stop.
ParseStop ==
    /\ Complete /\ Unit = "stop" /\ ~prefix
    /\ stack' = <<Frame("stop", "none", 0), Frame("advance", "stop", 1)>> \o Tail(stack)
    /\ UNCHANGED <<control, link, input, parser, timers, decoder>>

\* Undefined data: the playing stops and doit closes the connection.
ParseBad ==
    /\ Complete /\ Unit = "bad"
    /\ stack' = <<Frame("stop", "none", 0), Frame("fail", "none", 0)>> \o Tail(stack)
    /\ UNCHANGED <<control, link, input, parser, timers, decoder>>

Fail ==
    /\ At("fail")
    /\ Dropped
    /\ offset' = 0 /\ torn' = FALSE
    /\ stack' = Tail(stack)
    /\ UNCHANGED <<control, buffer, length, parser, timers, decoder>>

\* What is left is kept for the next read.
ParseDone ==
    /\ At("parse") /\ ~Complete
    /\ length >= offset
    /\ buffer' = SubSeq(buffer, offset + 1, length)
    /\ length' = length - offset
    /\ offset' = 0
    /\ stack' = Tail(stack)
    /\ UNCHANGED <<control, link, torn, parser, timers, decoder>>

\* data_buffer_len becomes negative, and memmove runs away; or FD_SET is given the
\* data connection that is closed, which may end the process.  The server is started
\* again.
Crash ==
    /\ \/ At("parse") /\ ~Complete /\ length < offset
       \/ At("discard") /\ data = "closed"
    /\ Over

-----------------------------------------------------------------------------
Server ==
    \/ Serve \/ Leave \/ Discard \/ Discarded \/ ResetFails \/ Connect \/ NotConnected
    \/ Read \/ ReadEnd \/ Timeout \/ Ask \/ AskLeave \/ Play \/ Stopped
    \/ ParseEvent \/ Advance \/ ParseByte \/ ParseTiming \/ ParseStop \/ ParseBad
    \/ Fail \/ ParseDone \/ Crash

(* The client.                                                               *)

\* A client comes: ctl_pass_playing_list accepts it.
Come ==
    /\ stack = <<>>
    /\ stack' = <<Frame("select", "none", 0)>>
    /\ UNCHANGED <<control, link, input, parser, timers, decoder>>

Connected == stack # <<>> /\ ~hungup

Send(command) ==
    /\ Connected /\ owed < Ahead
    /\ command = "RESET" => ~asked
    /\ socket' = Append(socket, command)
    /\ owed' = owed + 1
    /\ asked' = (asked \/ command = "RESET")
    /\ UNCHANGED <<lines, hungup, link, input, parser, timers, stack, decoder>>

Hangup ==
    /\ Connected
    /\ hungup' = TRUE
    /\ UNCHANGED <<socket, lines, owed, asked, link, input, parser, timers, stack, decoder>>

Streams == data = "open" /\ ~ended

\* A message that is begun is completed, by data.
Fits(unit) ==
    /\ decoder.need > 0 => unit = "data"
    /\ decoder.prefix => unit \in {"data", "f7"}

SendData(unit) ==
    /\ Streams /\ ~asked /\ Fits(unit)
    /\ Len(wire) + length < MaxUnits
    /\ wire' = Append(wire, unit)
    /\ decoder' = Decoded(decoder, unit)
    /\ UNCHANGED <<control, data, ended, input, parser, timers, stack>>

EndData ==
    /\ Streams
    /\ ended' = TRUE
    /\ UNCHANGED <<control, data, wire, input, parser, timers, stack, decoder>>

Client ==
    \/ Come \/ Hangup \/ EndData
    \/ \E command \in Commands : Send(command)
    \/ \E unit \in Units : SendData(unit)

Next == Server \/ Client

\* The server runs; a client may do nothing for ever.
Spec == Init /\ [][Next]_vars /\ WF_vars(Server)

-----------------------------------------------------------------------------
Places == {"select", "accept", "discard", "stop", "compute", "asked", "parse",
           "advance", "fail"}

\* A message is never taken beyond what was read, and nothing but a RESET that is
\* carried out inside an event leaves data_buffer_len behind.
TypeOK ==
    /\ socket \in Seq(Commands) /\ lines \in Seq(Commands) /\ hungup \in BOOLEAN
    /\ owed \in 0..Ahead /\ asked \in BOOLEAN
    /\ data \in {"closed", "open"} /\ wire \in Seq(Units) /\ ended \in BOOLEAN
    /\ buffer \in Seq(Units) /\ length \in 0..Len(buffer)
    /\ offset \in Nat /\ torn \in BOOLEAN /\ (offset <= length \/ torn)
    /\ rstatus \in {"none", "on", "prog"} /\ prefix \in BOOLEAN
    /\ tmr \in BOOLEAN /\ notmr \in BOOLEAN
    /\ \A i \in DOMAIN stack : stack[i].at \in Places
    /\ decoder.need \in 0..2

\* However the stream was cut into fragments, and whatever commands came between
\* them or were carried out inside an event, when all that was sent is read, what was
\* played is the stream taken unit by unit, and what is left in data_buffer is one
\* incomplete message.  Known exception: a RESET that found the data connection ended
\* threw away what came and kept what was left.
FragmentsJoin ==
    At("select") /\ data = "open" /\ wire = <<>> /\ ~(asked /\ ended) =>
        /\ decoder.due = <<>>
        /\ prefix = decoder.prefix
        /\ (length = 0) = (decoder.need = 0)
        /\ decoder.need = 0 => rstatus = decoder.run

\* Every RESET that is carried out inside an event, and nothing else, leaves
\* do_sequencer with a negative data_buffer_len, on which the server dies: it takes
\* no further message, and the buffer is empty however much was left in it.
ResetKills == At("parse") => (torn <=> length < offset)

\* A client that waits for an answer gets it or the session ends, whatever is
\* being played (do_control_command, do_control_command_nonblock).  The exception
\* is RESET on a data connection that has ended.
Waits == owed > 0 /\ ~(asked /\ ended)
Answered == Waits ~> ~Waits

\* A data connection that the client has closed is closed.
EndIsSeen == (data = "open" /\ ended) ~> (data = "closed")
=============================================================================
