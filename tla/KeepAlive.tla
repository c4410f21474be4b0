----------------------------- MODULE KeepAlive -----------------------------
(***************************************************************************)
(* The deadlines of one websocket connection (webrtc/ws/client.go with the *)
(* constants of webrtc/ws/hub.go): WriteLoop pings every pingPeriod unless *)
(* it is writing, ReadLoop gives up when no pong has come for pongWait,    *)
(* and every write has writeWait.                                          *)
(*                                                                         *)
(* Timers count down; Tick is the only step that takes time, and is not    *)
(* taken while something is due.  What the hub has to do with the          *)
(* connection is Hub's subject: here it may send or close at any time.     *)
(***************************************************************************)
EXTENDS Naturals

CONSTANTS
  pongWait, pingPeriod, writeWait,  \* of the code, in any unit of time
  AnswerTime,  \* the longest a viewer that is there takes to answer a ping
  PingDelay    \* the longest select takes messages while a tick waits

ASSUME TimingAssumption ==
  /\ pongWait \in Nat /\ pingPeriod \in Nat /\ writeWait \in Nat
  /\ AnswerTime \in Nat /\ PingDelay \in Nat
  /\ writeWait <= PingDelay
  /\ PingDelay + writeWait + AnswerTime < pingPeriod
  /\ 2 * pingPeriod <= pongWait

VARIABLES
  reader,     \* where ReadLoop is
  readLeft,   \* time to its read deadline
  writer,     \* where WriteLoop is
  writeLeft,  \* time to its write deadline
  toTick,     \* time to the next tick of the ticker
  tick,       \* whether ticker.C holds a tick
  tickLeft,   \* time in which select will take that tick
  pong,       \* whether an answer to a ping is under way
  pongLeft,   \* time in which it arrives
  there,      \* whether the viewer is there: it reads, and answers pings
  closed,     \* whether the connection is closed on this side
  silent,     \* history: how long ReadLoop has read without a viewer
  useless     \* history: how long WriteLoop has run on a closed connection

readVars  == <<reader, readLeft>>
writeVars == <<writer, writeLeft>>
tickVars  == <<toTick, tick, tickLeft>>
pongVars  == <<pong, pongLeft>>
history   == <<silent, useless>>
vars == <<readVars, writeVars, tickVars, pongVars, there, closed, history>>

ReaderLocation == {"handler", "reading", "done"}
WriterLocation == {"select", "message", "ping", "exited"}

\* WriteLoop has just been started; websocketHandler is on its way to ReadLoop.
Init ==
  /\ reader = "handler" /\ readLeft = 0
  /\ writer = "select" /\ writeLeft = 0
  /\ toTick = pingPeriod /\ tick = FALSE /\ tickLeft = 0
  /\ pong = FALSE /\ pongLeft = 0
  /\ there = TRUE /\ closed = FALSE /\ silent = 0 /\ useless = 0

-----------------------------------------------------------------------------
(* ReadLoop *)

\* SetReadDeadline before the first ReadMessage.
StartReading ==
  /\ reader = "handler"
  /\ reader' = "reading" /\ readLeft' = pongWait
  /\ UNCHANGED <<writeVars, tickVars, pongVars, there, closed, history>>

\* The pong handler does not move the deadline.
BrokenExtended == readLeft

\* The deadline the pong handler sets.
Extended == pongWait

\* A pong arrives; nobody sees it before ReadLoop reads.
PongArrives ==
  /\ pong /\ pong' = FALSE
  /\ readLeft' = IF reader = "reading" THEN Extended ELSE readLeft
  /\ UNCHANGED <<reader, writeVars, tickVars, pongLeft, there, closed, history>>

\* ReadMessage fails: the deadline has passed, the connection was closed on
\* this side, or the viewer has closed it.
ReadFails ==
  /\ reader = "reading" /\ reader' = "done"
  /\ readLeft = 0 \/ closed \/ ~there
  /\ UNCHANGED <<readLeft, writeVars, tickVars, pongVars, there, closed,
                 history>>

-----------------------------------------------------------------------------
(* WriteLoop *)

StartWrite(what) ==
  /\ writer = "select" /\ writer' = what
  /\ writeLeft' = writeWait

\* case message := <-c.Send; select takes it although a tick waits, too, but
\* not for longer than PingDelay.
WriteMessage ==
  /\ tick => writeWait <= tickLeft
  /\ StartWrite("message")
  /\ UNCHANGED <<readVars, tickVars, pongVars, there, closed, history>>

\* The read deadline is moved when a ping is sent.
BrokenWritePing ==
  /\ tick /\ tick' = FALSE
  /\ StartWrite("ping")
  /\ readLeft' = pongWait
  /\ UNCHANGED <<reader, toTick, tickLeft, pongVars, there, closed, history>>

\* case <-ticker.C
WritePing ==
  /\ tick /\ tick' = FALSE
  /\ StartWrite("ping")
  /\ UNCHANGED <<readVars, toTick, tickLeft, pongVars, there, closed, history>>

\* The write succeeds; a viewer that is there answers a ping.
WriteDone ==
  /\ writer \in {"message", "ping"} /\ ~closed
  /\ writer' = "select"
  /\ IF writer = "ping" /\ there THEN pong' = TRUE /\ pongLeft' = AnswerTime
                                 ELSE UNCHANGED pongVars
  /\ UNCHANGED <<readVars, writeLeft, tickVars, there, closed, history>>

\* The loop goes on after an error.
BrokenWriteFails ==
  /\ writer \in {"message", "ping"} /\ (closed \/ ~there)
  /\ writer' = "select" /\ closed' = TRUE
  /\ UNCHANGED <<readVars, writeLeft, tickVars, pongVars, there, history>>

\* The connection is closed, or a viewer that is gone does not read.
WriteFails ==
  /\ writer \in {"message", "ping"} /\ (closed \/ ~there)
  /\ writer' = "exited" /\ closed' = TRUE
  /\ UNCHANGED <<readVars, writeLeft, tickVars, pongVars, there, history>>

\* The hub has closed the connection, and then the Send channel: the loop
\* returns.
SeesClose ==
  /\ writer = "select" /\ closed
  /\ writer' = "exited"
  /\ UNCHANGED <<readVars, writeLeft, tickVars, pongVars, there, closed,
                 history>>

-----------------------------------------------------------------------------
(* The rest *)

\* ReadLoop's deferred function closes the connection, once the hub has room
\* for its Unregister, or the hub does, which may serve one from a callback.
Close ==
  /\ ~closed /\ closed' = TRUE
  /\ UNCHANGED <<readVars, writeVars, tickVars, pongVars, there, history>>

\* The viewer goes, or its network does.  A pong under way may be lost.
Vanish ==
  /\ there /\ there' = FALSE
  /\ pong' = FALSE \/ UNCHANGED pong
  /\ UNCHANGED <<readVars, writeVars, tickVars, pongLeft, closed, history>>

\* What is due is done before time goes on.
NothingDue ==
  /\ reader = "reading" => readLeft > 0 /\ ~closed
  /\ writer \in {"message", "ping"} => writeLeft > 0 /\ ~closed
  /\ tick /\ writer # "exited" => tickLeft > 0 /\ writer # "select"
  /\ pong => pongLeft > 0

Less(on, left) == IF on THEN left - 1 ELSE left
More(on, time) == IF on THEN time + 1 ELSE time

\* The ticker's channel holds one tick; a tick that finds it full is dropped.
TickerRuns ==
  IF toTick > 1 \/ writer = "exited"
  THEN /\ toTick' = Less(writer # "exited", toTick)
       /\ tickLeft' = Less(tick /\ writer # "exited", tickLeft)
       /\ UNCHANGED tick
  ELSE /\ toTick' = pingPeriod /\ tick' = TRUE
       /\ tickLeft' = IF tick THEN tickLeft - 1 ELSE PingDelay

Tick ==
  /\ NothingDue
  /\ readLeft' = Less(reader = "reading", readLeft)
  /\ writeLeft' = Less(writer \in {"message", "ping"}, writeLeft)
  /\ TickerRuns
  /\ pongLeft' = Less(pong, pongLeft)
  /\ silent' = More(reader = "reading" /\ ~there, silent)
  /\ useless' = More(writer # "exited" /\ closed, useless)
  /\ UNCHANGED <<reader, writer, pong, there, closed>>

Next == \/ StartReading \/ PongArrives \/ ReadFails
        \/ WriteMessage \/ WritePing \/ WriteDone \/ WriteFails \/ SeesClose
        \/ Close \/ Vanish \/ Tick

Spec == Init /\ [][Next]_vars

-----------------------------------------------------------------------------
(* Properties *)

FlagsOK == /\ tick \in BOOLEAN /\ pong \in BOOLEAN
           /\ there \in BOOLEAN /\ closed \in BOOLEAN

\* Every variable has its type.
TypeOK ==
  /\ reader \in ReaderLocation /\ readLeft \in 0..pongWait
  /\ writer \in WriterLocation /\ writeLeft \in 0..writeWait
  /\ toTick \in 1..pingPeriod /\ tickLeft \in 0..PingDelay
  /\ pongLeft \in 0..AnswerTime
  /\ silent \in Nat /\ useless \in Nat
  /\ FlagsOK

\* A viewer that answers its pings is never dropped for silence, though pings
\* wait behind messages and only pongs move the deadline.
LiveViewerIsKept ==
  (reader = "reading" /\ readLeft = 0) => (~there \/ closed)

\* ReadLoop notices that the viewer is gone within pongWait, or pongWait after
\* the last pong that was under way.
VanishedIsNoticed == silent <= pongWait + AnswerTime

\* WriteLoop, which nobody tells, notices that the connection was closed
\* within pingPeriod.
WriterNoticesClose == useless <= pingPeriod

-----------------------------------------------------------------------------
(* The inductive invariant: why the properties above hold *)

\* The time in which the answer to the ping under way, if there is one, comes.
PongDue ==
  IF pong THEN pongLeft
  ELSE IF writer = "ping" THEN writeLeft + AnswerTime
  ELSE tickLeft + writeWait + AnswerTime

Pinging == pong \/ writer = "ping" \/ tick

\* Each ping is answered before the next tick, so that there is one at a time,
\* and a message that delays it is written in time.
OneAtATime ==
  writer # "exited" =>
    /\ Pinging => PongDue < toTick
    /\ ~(pong /\ writer = "ping") /\ ~(pong /\ tick)
    /\ ~(tick /\ writer = "ping")
    /\ (tick /\ writer = "message") => writeLeft <= tickLeft

\* The deadline comes after the next pong.
DeadlineIsLater ==
  (reader = "reading" /\ there /\ ~closed) =>
    IF Pinging THEN PongDue < readLeft
    ELSE toTick + PingDelay + writeWait + AnswerTime < readLeft

\* The deadline and the last pong under way bound the silence.
SilenceIsBounded ==
  /\ there => silent = 0
  /\ reader = "handler" => silent = 0
  /\ reader = "reading" => /\ silent + readLeft <= pongWait + AnswerTime
                           /\ pong => silent + pongLeft <= AnswerTime
  /\ reader = "done" => silent <= pongWait + AnswerTime

\* A ping that finds the connection closed is the last one.
UselessIsBounded ==
  /\ useless <= pingPeriod
  /\ ~closed => useless = 0
  /\ (writer = "select" /\ ~tick) => useless + toTick <= pingPeriod

OpenWhileWriting == writer = "exited" => closed

KeepAliveInvariant ==
  /\ TypeOK /\ OneAtATime /\ DeadlineIsLater /\ SilenceIsBounded
  /\ UselessIsBounded /\ OpenWhileWriting
=============================================================================
