--------------------------- MODULE SocketContext ---------------------------
(***************************************************************************)
(* The page's websocket (frontend/src/context/SocketContext.jsx): one      *)
(* socket after the other, each made when a timer set by the close of the  *)
(* one before fires, with a delay that grows.                              *)
(*                                                                         *)
(* A step is one task of the browser's event loop: the reply to the fetch, *)
(* an event of a socket, a timer, or the effect React runs some time after *)
(* it has rendered a new socket.  dispatch renders before it returns, so   *)
(* the reducer's result is the state of the next step.                     *)
(***************************************************************************)
EXTENDS Naturals, FiniteSets

CONSTANT MaxSockets  \* bound: sockets made over the run

ASSUME MaxSocketsAssumption == MaxSockets \in Nat \ {0}

VARIABLES
  config,     \* what is known of config.json
  socket,     \* state.socket: the sockets made so far are 1..socket
  delay,      \* state.wsTimeoutDuration, in milliseconds
  ready,      \* the readyState of each socket
  listening,  \* the sockets whose handlers are set
  captured,   \* the wsTimeoutDuration the handlers of a socket have captured
  timers,     \* timers set and not fired, per socket whose close set them
  greeted     \* history: the sockets whose open event was handled

socketVars == <<config, socket, delay, ready, listening, captured, timers,
                greeted>>

Socket       == 1..MaxSockets
ReadyState   == {"none", "connecting", "open", "closed"}
InitialDelay == 250
LongestDelay == 10000

\* What renewSocket makes of the delay.
Longer(d) == IF 2 * d > LongestDelay THEN LongestDelay ELSE 2 * d

Init ==
  /\ config = "awaited" /\ socket = 0 /\ delay = InitialDelay
  /\ ready = [s \in Socket |-> "none"]
  /\ listening = {} /\ greeted = {}
  /\ captured = [s \in Socket |-> 0]
  /\ timers = [s \in Socket |-> 0]

-----------------------------------------------------------------------------

\* new WebSocket(url)
MakeSocket ==
  /\ socket < MaxSockets
  /\ socket' = socket + 1
  /\ ready' = [ready EXCEPT ![socket + 1] = "connecting"]

\* config.json names the URL: initSocket.
Configured ==
  /\ config = "awaited" /\ config' = "known"
  /\ MakeSocket
  /\ UNCHANGED <<delay, listening, captured, timers, greeted>>

\* config.json cannot be had, or names no URL: there will be no socket.
NotConfigured ==
  /\ config = "awaited" /\ config' = "useless"
  /\ UNCHANGED <<socket, delay, ready, listening, captured, timers, greeted>>

\* The effect of a render with a new socket: its handlers capture the socket
\* and the delay of that render.
SetHandlers ==
  /\ socket > 0 /\ socket \notin listening
  /\ listening' = listening \cup {socket}
  /\ captured' = [captured EXCEPT ![socket] = delay]
  /\ UNCHANGED <<config, socket, delay, ready, timers, greeted>>

\* The delay is not reset.
BrokenOpens(s) ==
  /\ ready[s] = "connecting"
  /\ ready' = [ready EXCEPT ![s] = "open"]
  /\ greeted' = IF s \in listening THEN greeted \cup {s} ELSE greeted
  /\ UNCHANGED <<config, socket, delay, listening, captured, timers>>

\* The open event: resetTimeoutDuration, if onopen is set by then.  The delay
\* the socket's own handlers have captured stays.  (The action dispatched
\* before it, resetTimeout, is none the reducer knows, and changes nothing.)
Opens(s) ==
  /\ ready[s] = "connecting"
  /\ ready' = [ready EXCEPT ![s] = "open"]
  /\ IF s \in listening
     THEN delay' = InitialDelay /\ greeted' = greeted \cup {s}
     ELSE UNCHANGED <<delay, greeted>>
  /\ UNCHANGED <<config, socket, listening, captured, timers>>

\* The error event sets a timer, too.
BrokenCloses(s) ==
  /\ ready[s] \in {"connecting", "open"}
  /\ timers' = IF s \notin listening THEN timers
               ELSE [timers EXCEPT ![s] =
                       @ + (IF ready[s] = "connecting" THEN 2 ELSE 1)]
  /\ ready' = [ready EXCEPT ![s] = "closed"]
  /\ UNCHANGED <<config, socket, delay, listening, captured, greeted>>

\* The close event, with the error event before it if the connection failed
\* (the socket is closed by then, and socket.close() does nothing).  onclose,
\* if set, starts the timer.
Closes(s) ==
  /\ ready[s] \in {"connecting", "open"}
  /\ ready' = [ready EXCEPT ![s] = "closed"]
  /\ timers' = IF s \in listening THEN [timers EXCEPT ![s] = @ + 1] ELSE timers
  /\ UNCHANGED <<config, socket, delay, listening, captured, greeted>>

\* The condition is the wrong way round.
BrokenTimerFires(s) ==
  /\ timers[s] > 0
  /\ timers' = [timers EXCEPT ![s] = @ - 1]
  /\ IF ready[s] # "closed"
     THEN MakeSocket /\ delay' = Longer(delay)
     ELSE UNCHANGED <<socket, ready, delay>>
  /\ UNCHANGED <<config, listening, captured, greeted>>

\* The timer set by the close of s fires after captured[s]: renewSocket, if
\* the socket it has captured is closed.
TimerFires(s) ==
  /\ timers[s] > 0
  /\ timers' = [timers EXCEPT ![s] = @ - 1]
  /\ IF ready[s] = "closed"
     THEN MakeSocket /\ delay' = Longer(delay)
     ELSE UNCHANGED <<socket, ready, delay>>
  /\ UNCHANGED <<config, listening, captured, greeted>>

Next == \/ Configured \/ NotConfigured \/ SetHandlers
        \/ \E s \in Socket : Opens(s) \/ Closes(s) \/ TimerFires(s)

Spec == Init /\ [][Next]_socketVars

(***************************************************************************)
(* Fairness.  Effects run and timers fire.  Nothing makes a server answer, *)
(* or a connection close.                                                  *)
(***************************************************************************)
Fairness ==
  /\ WF_socketVars(SetHandlers)
  /\ \A s \in Socket : WF_socketVars(TimerFires(s))

FairSpec == Spec /\ Fairness
=============================================================================
