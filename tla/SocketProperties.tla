-------------------------- MODULE SocketProperties --------------------------
(* What is checked and proved of the page's websocket.                     *)
EXTENDS SocketContext

Delay == InitialDelay..LongestDelay

\* Every variable has its type; the delay stays between 250 ms and 10 s.
SocketTypeOK ==
  /\ config \in {"awaited", "known", "useless"}
  /\ socket \in 0..MaxSockets /\ delay \in Delay
  /\ ready \in [Socket -> ReadyState]
  /\ listening \subseteq 1..socket /\ greeted \subseteq listening
  /\ captured \in [Socket -> Delay \cup {0}]
  /\ timers \in [Socket -> Nat]

\* There is one connection or one timer that will make one, never both, and
\* only the newest socket has either: whatever the order of close events,
\* timers and renders, no live socket is dropped and no two retries race.
OneAttempt ==
  /\ \A s \in Socket : s > socket => ready[s] = "none" /\ timers[s] = 0
  /\ \A s \in Socket : s < socket => ready[s] = "closed" /\ timers[s] = 0
  /\ socket > 0 => IF ready[socket] = "closed" THEN timers[socket] <= 1
                   ELSE ready[socket] # "none" /\ timers[socket] = 0
  /\ config = "known" <=> socket > 0

\* The delay after the close of s, were it not for what s has captured.
DelayAfter(s) == IF s \in greeted THEN InitialDelay ELSE captured[s]

Doubles == \A s \in Socket :
  s + 1 \in listening => captured[s + 1] = Longer(DelayAfter(s))

\* Attempts slow down: a socket made after one that was never open waits
\* twice as long to be replaced, up to 10 s; after one that was open, 500 ms.
AttemptsSlowDown ==
  Doubles /\ \A s \in Socket : captured[s] <= LongestDelay

\* The newest socket has closed and there is no timer, as it happens when it
\* closes before React runs the effect that sets its handlers.
Deaf == socket > 0 /\ ready[socket] = "closed" /\ timers[socket] = 0

\* The page then stays without a socket for good, also when the effect runs.
DeafIsForGood == [][Deaf => UNCHANGED <<socket, ready, timers>>]_socketVars

\* A socket whose handlers were set while it was alive is replaced some time
\* after it closes, if it does.
KeepsTrying == \A s \in 1..(MaxSockets - 1) :
  (s \in listening /\ ready[s] # "closed")
    ~> (socket > s \/ [](ready[s] # "closed"))

-----------------------------------------------------------------------------
(* The inductive invariant: why the properties above hold *)

\* Only handlers set timers, so every socket but the newest had them.
RetriesAreHandled == \A s \in Socket :
  (timers[s] > 0 \/ s < socket) => s \in listening

\* The state's delay follows from the newest socket that has handlers.
DelayFollows ==
  /\ socket \in listening => delay = DelayAfter(socket)
  /\ (socket > 1 /\ socket \notin listening)
       => delay = Longer(DelayAfter(socket - 1))

SocketInvariant == /\ SocketTypeOK /\ OneAttempt /\ Doubles
                   /\ RetriesAreHandled /\ DelayFollows
=============================================================================
