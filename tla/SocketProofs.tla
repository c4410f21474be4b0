---------------------------- MODULE SocketProofs ----------------------------
(* Proofs about the page's websocket, for any number of sockets.           *)
EXTENDS SocketProperties, TLAPS

\* A longer delay is one the page may wait, and not a shorter one.
LEMMA LongerIsDelay ==
  ASSUME NEW d \in Delay
  PROVE  Longer(d) \in Delay /\ Longer(d) >= d
BY DEF Delay, Longer, InitialDelay, LongestDelay

\* The page starts in the invariant.
LEMMA InitEstablishes == Init => SocketInvariant
BY MaxSocketsAssumption
   DEF Init, SocketInvariant, SocketTypeOK, OneAttempt, Doubles,
       RetriesAreHandled, DelayFollows, DelayAfter, Delay, InitialDelay,
       LongestDelay, Socket, ReadyState

\* Every task of the event loop keeps it.
LEMMA StepPreserves ==
  SocketInvariant /\ [Next]_socketVars => SocketInvariant'
<1> SUFFICES ASSUME SocketInvariant, [Next]_socketVars
             PROVE  SocketInvariant'
  OBVIOUS
<1> USE MaxSocketsAssumption DEF Socket, SocketInvariant
<1>1. CASE Configured
  <2>1. socket = 0 /\ socket' = 1 /\ listening = {} /\ greeted = {}
    BY <1>1 DEF Configured, MakeSocket, OneAttempt, SocketTypeOK
  <2>2. SocketTypeOK'
    BY <1>1, <2>1 DEF Configured, MakeSocket, SocketTypeOK, ReadyState
  <2>3. OneAttempt'
    BY <1>1, <2>1 DEF Configured, MakeSocket, SocketTypeOK, OneAttempt
  <2>4. Doubles' /\ RetriesAreHandled' /\ DelayFollows'
    BY <1>1, <2>1 DEF Configured, MakeSocket, SocketTypeOK, OneAttempt,
                      Doubles, RetriesAreHandled, DelayFollows
  <2> QED BY <2>2, <2>3, <2>4
<1>2. CASE NotConfigured
  BY <1>2 DEF NotConfigured, SocketTypeOK, OneAttempt, Doubles,
              RetriesAreHandled, DelayFollows, DelayAfter
<1>3. CASE SetHandlers
  <2>1. socket \in Socket /\ socket \notin greeted
    BY <1>3 DEF SetHandlers, SocketTypeOK
  <2>2. SocketTypeOK'
    BY <1>3, <2>1 DEF SetHandlers, SocketTypeOK
  <2>3. OneAttempt' /\ RetriesAreHandled' /\ DelayFollows'
    BY <1>3, <2>1 DEF SetHandlers, SocketTypeOK, OneAttempt, RetriesAreHandled,
                      DelayFollows, DelayAfter
  <2>4. Doubles'
    <3> SUFFICES ASSUME NEW s \in Socket, s + 1 \in listening'
                 PROVE  captured'[s + 1] = Longer(DelayAfter(s)')
      BY DEF Doubles
    <3>1. s # socket /\ DelayAfter(s)' = DelayAfter(s)
      BY <1>3, <2>1 DEF SetHandlers, SocketTypeOK, DelayAfter
    <3>2. CASE s + 1 = socket
      BY <1>3, <2>1, <3>1, <3>2 DEF SetHandlers, SocketTypeOK, DelayFollows
    <3>3. CASE s + 1 # socket
      BY <1>3, <2>1, <3>1, <3>3 DEF SetHandlers, SocketTypeOK, Doubles
    <3> QED BY <3>2, <3>3
  <2> QED BY <2>2, <2>3, <2>4
<1>4. ASSUME NEW s \in Socket, Opens(s) PROVE SocketInvariant'
  <2>1. s = socket
    BY <1>4 DEF Opens, OneAttempt, SocketTypeOK
  <2>2. SocketTypeOK'
    <3>1. InitialDelay \in Delay
      BY DEF InitialDelay, LongestDelay, Delay
    <3>2. ready' \in [Socket -> ReadyState]
      BY <1>4 DEF Opens, SocketTypeOK, ReadyState
    <3>3. delay' \in Delay /\ greeted' \subseteq listening
      BY <1>4, <3>1 DEF Opens, SocketTypeOK
    <3> QED BY <1>4, <3>2, <3>3 DEF Opens, SocketTypeOK
  <2>3. OneAttempt' /\ RetriesAreHandled'
    BY <1>4, <2>1 DEF Opens, SocketTypeOK, OneAttempt, RetriesAreHandled
  <2>4. Doubles' /\ DelayFollows'
    BY <1>4, <2>1 DEF Opens, SocketTypeOK, Doubles, DelayFollows,
                      DelayAfter
  <2> QED BY <2>2, <2>3, <2>4
<1>5. ASSUME NEW s \in Socket, Closes(s) PROVE SocketInvariant'
  <2>1. s = socket /\ timers[s] = 0
    BY <1>5 DEF Closes, OneAttempt, SocketTypeOK
  <2>2. SocketTypeOK'
    BY <1>5, <2>1 DEF Closes, SocketTypeOK, ReadyState
  <2>3. OneAttempt' /\ RetriesAreHandled'
    BY <1>5, <2>1 DEF Closes, SocketTypeOK, OneAttempt, RetriesAreHandled
  <2>4. Doubles' /\ DelayFollows'
    BY <1>5 DEF Closes, Doubles, DelayFollows, DelayAfter
  <2> QED BY <2>2, <2>3, <2>4
<1>6. ASSUME NEW s \in Socket, TimerFires(s) PROVE SocketInvariant'
  <2>1. s = socket /\ ready[s] = "closed" /\ timers[s] = 1 /\ s \in listening
    BY <1>6 DEF TimerFires, OneAttempt, SocketTypeOK, RetriesAreHandled
  <2>2. /\ socket' = socket + 1 /\ socket' \in Socket
        /\ ready' = [ready EXCEPT ![socket + 1] = "connecting"]
        /\ timers' = [timers EXCEPT ![socket] = @ - 1]
        /\ delay' = Longer(delay)
        /\ UNCHANGED <<config, listening, captured, greeted>>
    BY <1>6, <2>1 DEF TimerFires, MakeSocket, SocketTypeOK
  <2>3. SocketTypeOK'
    BY <2>1, <2>2, LongerIsDelay DEF SocketTypeOK, ReadyState
  <2>4. OneAttempt' /\ RetriesAreHandled'
    BY <2>1, <2>2 DEF SocketTypeOK, OneAttempt, RetriesAreHandled
  <2>5. Doubles' /\ DelayFollows'
    BY <2>1, <2>2 DEF SocketTypeOK, Doubles, DelayFollows, DelayAfter
  <2> QED BY <2>3, <2>4, <2>5
<1>7. CASE UNCHANGED socketVars
  BY <1>7 DEF socketVars, SocketTypeOK, OneAttempt, Doubles,
              RetriesAreHandled, DelayFollows, DelayAfter
<1> QED BY <1>1, <1>2, <1>3, <1>4, <1>5, <1>6, <1>7 DEF Next

-----------------------------------------------------------------------------

\* The inductive invariant of the page's websocket holds for any number of
\* sockets.
THEOREM SocketInvariantHolds == Spec => []SocketInvariant
BY InitEstablishes, StepPreserves, PTL DEF Spec

\* Every variable keeps its type, the delay its limits of 250 ms and 10 s.
THEOREM SocketTypeCorrect == Spec => []SocketTypeOK
<1>1. SocketInvariant => SocketTypeOK
  BY DEF SocketInvariant
<1> QED BY <1>1, SocketInvariantHolds, PTL

\* There is at most one live socket, and never a timer beside it.
THEOREM OneAttemptAtATime == Spec => []OneAttempt
<1>1. SocketInvariant => OneAttempt
  BY DEF SocketInvariant
<1> QED BY <1>1, SocketInvariantHolds, PTL

\* The delays double from one failed attempt to the next, up to 10 s.
THEOREM DelaysGrow == Spec => []AttemptsSlowDown
<1>1. SocketInvariant => AttemptsSlowDown
  BY DEF SocketInvariant, SocketTypeOK, AttemptsSlowDown, Delay, LongestDelay
<1> QED BY <1>1, SocketInvariantHolds, PTL

\* A page whose socket has closed unheard never makes another: no handler of an
\* earlier socket and no timer is left, and setting the handlers comes too late.
THEOREM DeafForGood == Spec => DeafIsForGood
<1>1. ASSUME SocketInvariant, [Next]_socketVars, Deaf
      PROVE  UNCHANGED <<socket, ready, timers>>
  <2> USE <1>1 DEF SocketInvariant, SocketTypeOK, OneAttempt, Deaf
  <2>1. ASSUME NEW s \in Socket PROVE ready[s] \in {"closed", "none"}
    BY DEF Socket
  <2>2. ASSUME NEW s \in Socket PROVE timers[s] = 0
    BY DEF Socket
  <2>3. CASE Configured \/ NotConfigured \/ SetHandlers
    BY <2>3 DEF Configured, NotConfigured, SetHandlers
  <2>4. ASSUME NEW s \in Socket PROVE ~Opens(s) /\ ~Closes(s) /\ ~TimerFires(s)
    BY <2>1, <2>2 DEF Opens, Closes, TimerFires
  <2> QED BY <2>3, <2>4 DEF Next, socketVars
<1> QED BY <1>1, SocketInvariantHolds, PTL DEF Spec, DeafIsForGood
=============================================================================
