--------------------------- MODULE KeepAliveProofs ---------------------------
(* The deadlines of a connection, for any durations that fit each other.    *)
EXTENDS KeepAlive, TLAPS

LEMMA InitKeepsAlive == Init => KeepAliveInvariant
<1> SUFFICES ASSUME Init PROVE KeepAliveInvariant
  OBVIOUS
<1> USE TimingAssumption DEF Init
<1>1. TypeOK
  <2>1. FlagsOK
    BY Zenon DEF FlagsOK
  <2> QED BY <2>1 DEF TypeOK, ReaderLocation, WriterLocation
<1>2. OneAtATime /\ DeadlineIsLater
  BY DEF OneAtATime, DeadlineIsLater, Pinging, PongDue
<1>3. SilenceIsBounded /\ UselessIsBounded /\ OpenWhileWriting
  BY DEF SilenceIsBounded, UselessIsBounded, OpenWhileWriting
<1> QED BY <1>1, <1>2, <1>3 DEF KeepAliveInvariant

\* The steps of ReadLoop, the viewer and the hub, which take no time.
LEMMA ReadStepKeepsAlive ==
  ASSUME KeepAliveInvariant,
         StartReading \/ PongArrives \/ ReadFails \/ Close \/ Vanish
  PROVE  KeepAliveInvariant'
<1> USE TimingAssumption DEF KeepAliveInvariant, readVars, writeVars,
        tickVars, pongVars, history
<1>1. CASE StartReading
  <2>1. TypeOK'
    <3>1. FlagsOK'
      BY <1>1, Zenon DEF StartReading, FlagsOK, TypeOK
    <3> QED BY <1>1, <3>1 DEF StartReading, TypeOK, ReaderLocation
  <2>2. OneAtATime' /\ DeadlineIsLater'
    BY <1>1 DEF StartReading, TypeOK, OneAtATime, DeadlineIsLater, Pinging,
                PongDue, OpenWhileWriting
  <2>3. SilenceIsBounded' /\ UselessIsBounded' /\ OpenWhileWriting'
    BY <1>1 DEF StartReading, TypeOK, SilenceIsBounded, UselessIsBounded,
                OpenWhileWriting
  <2> QED BY <2>1, <2>2, <2>3
<1>2. CASE PongArrives
  <2>1. TypeOK'
    <3>1. FlagsOK'
      BY <1>2, Zenon DEF PongArrives, FlagsOK, TypeOK
    <3> QED BY <1>2, <3>1 DEF PongArrives, Extended, TypeOK
  <2>2. OneAtATime' /\ DeadlineIsLater'
    BY <1>2 DEF PongArrives, Extended, TypeOK, OneAtATime, DeadlineIsLater,
                Pinging, PongDue, OpenWhileWriting
  <2>3. SilenceIsBounded' /\ UselessIsBounded' /\ OpenWhileWriting'
    BY <1>2 DEF PongArrives, Extended, TypeOK, SilenceIsBounded,
                UselessIsBounded, OpenWhileWriting
  <2> QED BY <2>1, <2>2, <2>3
<1>3. CASE ReadFails
  <2>1. TypeOK'
    <3>1. FlagsOK'
      BY <1>3, Zenon DEF ReadFails, FlagsOK, TypeOK
    <3> QED BY <1>3, <3>1 DEF ReadFails, TypeOK, ReaderLocation
  <2>2. OneAtATime' /\ DeadlineIsLater'
    BY <1>3 DEF ReadFails, OneAtATime, DeadlineIsLater, Pinging, PongDue
  <2>3. SilenceIsBounded' /\ UselessIsBounded' /\ OpenWhileWriting'
    BY <1>3 DEF ReadFails, TypeOK, SilenceIsBounded, UselessIsBounded,
                OpenWhileWriting
  <2> QED BY <2>1, <2>2, <2>3
<1>4. CASE Close
  <2>1. TypeOK'
    <3>1. FlagsOK'
      BY <1>4, Zenon DEF Close, FlagsOK, TypeOK
    <3> QED BY <1>4, <3>1 DEF Close, TypeOK
  <2>2. OneAtATime' /\ DeadlineIsLater'
    BY <1>4 DEF Close, OneAtATime, DeadlineIsLater, Pinging, PongDue
  <2>3. SilenceIsBounded' /\ UselessIsBounded' /\ OpenWhileWriting'
    BY <1>4 DEF Close, SilenceIsBounded, UselessIsBounded, OpenWhileWriting
  <2> QED BY <2>1, <2>2, <2>3
<1>5. CASE Vanish
  <2>1. TypeOK'
    <3>1. FlagsOK'
      BY <1>5, Zenon DEF Vanish, FlagsOK, TypeOK
    <3> QED BY <1>5, <3>1 DEF Vanish, TypeOK
  <2>2. OneAtATime' /\ DeadlineIsLater'
    BY <1>5 DEF Vanish, TypeOK, OneAtATime, DeadlineIsLater, Pinging, PongDue
  <2>3. SilenceIsBounded' /\ UselessIsBounded' /\ OpenWhileWriting'
    BY <1>5 DEF Vanish, SilenceIsBounded, UselessIsBounded, OpenWhileWriting
  <2> QED BY <2>1, <2>2, <2>3
<1> QED BY <1>1, <1>2, <1>3, <1>4, <1>5

\* The steps of WriteLoop, which take no time either.
LEMMA WriteStepKeepsAlive ==
  ASSUME KeepAliveInvariant,
         WriteMessage \/ WritePing \/ WriteDone \/ WriteFails \/ SeesClose
  PROVE  KeepAliveInvariant'
<1> USE TimingAssumption DEF KeepAliveInvariant, readVars, writeVars,
        tickVars, pongVars, history, StartWrite
<1>1. CASE WriteMessage
  <2>1. TypeOK'
    <3>1. FlagsOK'
      BY <1>1, Zenon DEF WriteMessage, FlagsOK, TypeOK
    <3> QED BY <1>1, <3>1 DEF WriteMessage, TypeOK, WriterLocation
  <2>2. OneAtATime' /\ DeadlineIsLater'
    BY <1>1 DEF WriteMessage, TypeOK, OneAtATime, DeadlineIsLater, Pinging,
                PongDue
  <2>3. SilenceIsBounded' /\ UselessIsBounded' /\ OpenWhileWriting'
    BY <1>1 DEF WriteMessage, SilenceIsBounded, UselessIsBounded,
                OpenWhileWriting
  <2> QED BY <2>1, <2>2, <2>3
<1>2. CASE WritePing
  <2>1. TypeOK'
    <3>1. FlagsOK'
      BY <1>2, Zenon DEF WritePing, FlagsOK, TypeOK
    <3> QED BY <1>2, <3>1 DEF WritePing, TypeOK, WriterLocation
  <2>2. OneAtATime' /\ DeadlineIsLater'
    BY <1>2 DEF WritePing, TypeOK, OneAtATime, DeadlineIsLater, Pinging,
                PongDue
  <2>3. SilenceIsBounded' /\ UselessIsBounded' /\ OpenWhileWriting'
    BY <1>2 DEF WritePing, SilenceIsBounded, UselessIsBounded,
                OpenWhileWriting
  <2> QED BY <2>1, <2>2, <2>3
<1>3. CASE WriteDone
  <2>1. TypeOK'
    <3>1. FlagsOK'
      BY <1>3, Zenon DEF WriteDone, FlagsOK, TypeOK
    <3> QED BY <1>3, <3>1 DEF WriteDone, TypeOK, WriterLocation
  <2>2. OneAtATime' /\ DeadlineIsLater'
    BY <1>3 DEF WriteDone, TypeOK, OneAtATime, DeadlineIsLater, Pinging,
                PongDue
  <2>3. SilenceIsBounded' /\ UselessIsBounded' /\ OpenWhileWriting'
    BY <1>3 DEF WriteDone, TypeOK, SilenceIsBounded, UselessIsBounded,
                OpenWhileWriting
  <2> QED BY <2>1, <2>2, <2>3
<1>4. CASE WriteFails \/ SeesClose
  <2>1. TypeOK'
    <3>1. FlagsOK'
      BY <1>4, Zenon DEF WriteFails, SeesClose, FlagsOK, TypeOK
    <3> QED BY <1>4, <3>1 DEF WriteFails, SeesClose, TypeOK, WriterLocation
  <2>2. OneAtATime' /\ DeadlineIsLater'
    BY <1>4 DEF WriteFails, SeesClose, OneAtATime, DeadlineIsLater
  <2>3. SilenceIsBounded' /\ UselessIsBounded' /\ OpenWhileWriting'
    BY <1>4 DEF WriteFails, SeesClose, TypeOK, SilenceIsBounded,
                UselessIsBounded, OpenWhileWriting
  <2> QED BY <2>1, <2>2, <2>3
<1> QED BY <1>1, <1>2, <1>3, <1>4

\* Time goes on only when nothing is due.
LEMMA TickKeepsAlive ==
  ASSUME KeepAliveInvariant, Tick
  PROVE  KeepAliveInvariant'
<1> USE TimingAssumption
<1>0. /\ TypeOK /\ OneAtATime /\ DeadlineIsLater /\ SilenceIsBounded
      /\ UselessIsBounded /\ OpenWhileWriting
  BY DEF KeepAliveInvariant
<1>1. /\ reader' = reader /\ writer' = writer /\ pong' = pong
      /\ there' = there /\ closed' = closed
      /\ readLeft' = IF reader = "reading" THEN readLeft - 1 ELSE readLeft
      /\ writeLeft' = IF writer \in {"message", "ping"} THEN writeLeft - 1
                      ELSE writeLeft
      /\ pongLeft' = IF pong THEN pongLeft - 1 ELSE pongLeft
      /\ silent' = IF reader = "reading" /\ ~there THEN silent + 1 ELSE silent
      /\ useless' = IF writer # "exited" /\ closed THEN useless + 1
                    ELSE useless
  BY DEF Tick, Less, More
<1>2. /\ reader = "reading" => readLeft > 0 /\ ~closed
      /\ writer \in {"message", "ping"} => writeLeft > 0 /\ ~closed
      /\ tick /\ writer # "exited" => tickLeft > 0 /\ writer = "message"
      /\ pong => pongLeft > 0
  BY <1>0 DEF Tick, NothingDue, TypeOK, WriterLocation, OneAtATime
<1>3. CASE writer = "exited"
  <2>1. toTick' = toTick /\ tick' = tick /\ tickLeft' = tickLeft
    BY <1>0, <1>3 DEF Tick, TickerRuns, Less, TypeOK
  <2>2. TypeOK'
    <3>1. FlagsOK'
      BY <1>0, <1>1, <2>1, Zenon DEF FlagsOK, TypeOK
    <3> QED BY <1>0, <1>1, <1>2, <1>3, <2>1, <3>1 DEF TypeOK
  <2>3. OneAtATime' /\ DeadlineIsLater'
    BY <1>0, <1>1, <1>3 DEF OneAtATime, DeadlineIsLater, OpenWhileWriting
  <2>4. SilenceIsBounded'
    BY <1>0, <1>1, <1>2 DEF SilenceIsBounded, TypeOK
  <2>5. UselessIsBounded' /\ OpenWhileWriting'
    BY <1>0, <1>1, <1>3, <2>1 DEF UselessIsBounded, OpenWhileWriting, TypeOK
  <2> QED BY <2>2, <2>3, <2>4, <2>5 DEF KeepAliveInvariant
<1>4. CASE writer # "exited" /\ toTick > 1
  <2>1. /\ toTick' = toTick - 1 /\ tick' = tick
        /\ tickLeft' = IF tick THEN tickLeft - 1 ELSE tickLeft
    BY <1>0, <1>4 DEF Tick, TickerRuns, Less, TypeOK
  <2>2. TypeOK'
    <3>1. FlagsOK'
      BY <1>0, <1>1, <2>1, Zenon DEF FlagsOK, TypeOK
    <3> QED BY <1>0, <1>1, <1>2, <1>4, <2>1, <3>1 DEF TypeOK
  <2>3. OneAtATime' /\ DeadlineIsLater'
    BY <1>0, <1>1, <1>2, <1>4, <2>1
       DEF OneAtATime, DeadlineIsLater, Pinging, PongDue, TypeOK,
           WriterLocation
  <2>4. SilenceIsBounded'
    BY <1>0, <1>1, <1>2 DEF SilenceIsBounded, TypeOK
  <2>5. UselessIsBounded' /\ OpenWhileWriting'
    BY <1>0, <1>1, <1>2, <1>4, <2>1
       DEF UselessIsBounded, OpenWhileWriting, TypeOK, WriterLocation
  <2> QED BY <2>2, <2>3, <2>4, <2>5 DEF KeepAliveInvariant
<1>5. CASE writer # "exited" /\ ~(toTick > 1)
  <2>1. toTick = 1 /\ ~pong /\ writer # "ping" /\ ~tick
    BY <1>0, <1>2, <1>5 DEF OneAtATime, Pinging, PongDue, TypeOK
  <2>2. toTick' = pingPeriod /\ tick' = TRUE /\ tickLeft' = PingDelay
    BY <2>1, <1>5 DEF Tick, TickerRuns
  <2>3. TypeOK'
    <3>1. FlagsOK'
      BY <1>0, <1>1, <2>2, Zenon DEF FlagsOK, TypeOK
    <3> QED BY <1>0, <1>1, <1>2, <1>5, <2>2, <3>1 DEF TypeOK
  <2>4. OneAtATime' /\ DeadlineIsLater'
    BY <1>0, <1>1, <1>2, <2>1, <2>2
       DEF OneAtATime, DeadlineIsLater, Pinging, PongDue, TypeOK,
           WriterLocation
  <2>5. SilenceIsBounded'
    BY <1>0, <1>1, <1>2 DEF SilenceIsBounded, TypeOK
  <2>6. UselessIsBounded' /\ OpenWhileWriting'
    BY <1>0, <1>1, <1>2, <1>5, <2>1, <2>2
       DEF UselessIsBounded, OpenWhileWriting, TypeOK, WriterLocation
  <2> QED BY <2>3, <2>4, <2>5, <2>6 DEF KeepAliveInvariant
<1> QED BY <1>3, <1>4, <1>5

LEMMA StepKeepsAlive ==
  KeepAliveInvariant /\ [Next]_vars => KeepAliveInvariant'
<1> SUFFICES ASSUME KeepAliveInvariant, [Next]_vars
             PROVE  KeepAliveInvariant'
  OBVIOUS
<1>1. CASE UNCHANGED vars
  <2>1. UNCHANGED <<reader, readLeft, writer, writeLeft, toTick, tick,
                    tickLeft, pong, pongLeft, there, closed, silent, useless>>
    BY <1>1 DEF vars, readVars, writeVars, tickVars, pongVars, history
  <2>2. FlagsOK'
    BY <2>1, Zenon DEF KeepAliveInvariant, TypeOK, FlagsOK
  <2> QED BY <2>1, <2>2
          DEF KeepAliveInvariant, TypeOK, OneAtATime, DeadlineIsLater,
              SilenceIsBounded, UselessIsBounded, OpenWhileWriting, Pinging,
              PongDue
<1> QED BY <1>1, ReadStepKeepsAlive, WriteStepKeepsAlive, TickKeepsAlive
        DEF Next

\* The timers keep their order: every pong comes before the read deadline and
\* before the next tick, and the histories are bounded by what is left.
THEOREM KeepAliveInvariantHolds == Spec => []KeepAliveInvariant
BY InitKeepsAlive, StepKeepsAlive, PTL DEF Spec

\* A viewer that answers its pings is never dropped, for any durations in
\* which a delayed ping and its answer fit into pingPeriod, and two of those
\* into pongWait.
THEOREM AnsweringViewerIsKept == Spec => []LiveViewerIsKept
<1>1. KeepAliveInvariant => LiveViewerIsKept
  <2> SUFFICES ASSUME KeepAliveInvariant, reader = "reading", readLeft = 0,
                      there, ~closed
               PROVE  FALSE
    BY DEF LiveViewerIsKept
  <2>1. TypeOK /\ DeadlineIsLater
    BY DEF KeepAliveInvariant
  <2>2. PongDue \in Nat
    BY <2>1, TimingAssumption DEF PongDue, TypeOK
  <2>3. toTick + PingDelay + writeWait + AnswerTime \in Nat
    BY <2>1, TimingAssumption DEF TypeOK
  <2> QED BY <2>1, <2>2, <2>3 DEF DeadlineIsLater
<1> QED BY <1>1, KeepAliveInvariantHolds, PTL

\* A viewer that is gone is noticed within pongWait of its last pong.
THEOREM VanishedViewerIsNoticed == Spec => []VanishedIsNoticed
<1>1. KeepAliveInvariant => VanishedIsNoticed
  BY TimingAssumption DEF KeepAliveInvariant, SilenceIsBounded, TypeOK,
     ReaderLocation, VanishedIsNoticed
<1> QED BY <1>1, KeepAliveInvariantHolds, PTL

\* WriteLoop outlives its connection by pingPeriod at most.
THEOREM CloseIsNoticed == Spec => []WriterNoticesClose
<1>1. KeepAliveInvariant => WriterNoticesClose
  BY DEF KeepAliveInvariant, UselessIsBounded, WriterNoticesClose
<1> QED BY <1>1, KeepAliveInvariantHolds, PTL
=============================================================================
