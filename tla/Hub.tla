-------------------------------- MODULE Hub --------------------------------
(***************************************************************************)
(* The websocket hub of Lightspeed WebRTC (webrtc/ws/hub.go,               *)
(* webrtc/ws/client.go) with the goroutines that call it from              *)
(* websocketHandler (webrtc/main.go).                                      *)
(*                                                                         *)
(* One element of Client stands for one websocket connection, with its     *)
(* ws.Client and its PeerConnection.  The goroutines are                   *)
(*                                                                         *)
(*   hub          Hub.Run, the only one that writes hub.Clients            *)
(*   infos        those started by "go h.SendInfo(h.GetInfo())"            *)
(*   handler[c]   websocketHandler, which ends in Client.ReadLoop          *)
(*   writer[c]    Client.WriteLoop                                         *)
(*   ice[c]       the OnICECandidate callback                              *)
(*   callbacks[c] runs of the OnConnectionStateChange callback             *)
(*                                                                         *)
(* A step is one synchronisation operation (a channel operation, a Lock or *)
(* an RLock) with the sequential code up to the next one.  Send and        *)
(* Broadcast are unbuffered channels: sending is a step of the two         *)
(* goroutines together.  Register and Unregister hold one element.         *)
(*                                                                         *)
(* An operator whose name starts with Broken is the operator after it with *)
(* a plausible bug put in.  No specification uses it; substituted for the  *)
(* original, it shows that a property can fail.                            *)
(***************************************************************************)
EXTENDS Naturals, Sequences

CONSTANTS Client,        \* websocket connections accepted over the run
          NoClient,      \* "no client": the hub holds none
          Failing,       \* bound: clients that may leave or fail by themselves
          MaxCandidates  \* bound: ICE candidates gathered over the run

ASSUME ClientAssumption == NoClient \notin Client
ASSUME BoundsAssumption == Failing \subseteq Client /\ MaxCandidates \in Nat

VARIABLES
  clients,      \* hub.Clients
  closed,       \* clients whose Send channel is closed
  infos,        \* SendInfo goroutines that wait to broadcast
  hub,          \* where Hub.Run is
  cur,          \* the client Hub.Run is working on
  todo,         \* clients the range loop of a broadcast has not reached
  registerQ,    \* hub.Register, a channel with room for one client
  unregisterQ,  \* hub.Unregister, the same
  handler,      \* where websocketHandler / ReadLoop is, per client
  writer,       \* where WriteLoop is, per client
  connClosed,   \* clients whose websocket connection is closed
  ice,          \* where the OnICECandidate callback is, per client
  candidates,   \* candidates handed to the callbacks so far
  pcClosed,     \* clients whose PeerConnection is closed
  callbacks     \* OnConnectionStateChange runs still to send Unregister

hubVars    == <<clients, closed, infos, hub, cur, todo>>
queueVars  == <<registerQ, unregisterQ>>
writerVars == <<writer, connClosed>>
pcVars     == <<pcClosed, callbacks>>
iceVars    == <<ice, candidates>>
viewerVars == <<handler, writerVars, iceVars, pcVars>>
vars       == <<hubVars, queueVars, viewerVars>>

HubLocation     == {"select", "add", "addLock", "delete", "deleteLock",
                    "close", "range", "send"}
HandlerLocation == {"idle", "register", "negotiate", "offer", "sendOffer",
                    "read", "unregister", "teardown", "done"}
WriterLocation  == {"none", "select", "writing", "exited"}
IceLocation     == {"off", "idle", "send"}

Init ==
  /\ clients = {} /\ closed = {} /\ connClosed = {} /\ pcClosed = {}
  /\ registerQ = <<>> /\ unregisterQ = <<>>
  /\ infos = 0
  /\ hub = "select" /\ cur = NoClient /\ todo = {}
  /\ handler = [c \in Client |-> "idle"]
  /\ writer = [c \in Client |-> "none"]
  /\ ice = [c \in Client |-> "off"]
  /\ candidates = 0
  /\ callbacks = [c \in Client |-> 0]

-----------------------------------------------------------------------------
(* The RWMutex embedded in Hub.  A goroutine holds the read lock exactly   *)
(* while it is at one of these places, and only the hub ever calls Lock,   *)
(* so the state of the mutex is a function of the places.  A writer that   *)
(* waits keeps new readers out, as sync.RWMutex does.                      *)

\* The ICE callback looks the client up and sends without the lock.
BrokenReadLockedIce ==
  hub \in {"range", "send"} \/ \E c \in Client : handler[c] = "sendOffer"

\* websocketHandler releases the lock only when it returns ("defer").
BrokenReadLockedDefer ==
  \/ hub \in {"range", "send"}
  \/ \E c \in Client : \/ handler[c] \in {"sendOffer", "read", "unregister"}
                       \/ ice[c] = "send"

ReadLocked ==
  \/ hub \in {"range", "send"}
  \/ \E c \in Client : handler[c] = "sendOffer" \/ ice[c] = "send"

WriterWaiting == hub \in {"addLock", "deleteLock"}

\* The lookup is left out.
BrokenKnown(c) == TRUE

\* "_, ok := hub.Clients[c]", always under the read lock.
Known(c) == c \in clients

\* The channels are one too large.
BrokenHasRoom(q) == Len(q) <= 1

\* make(chan *Client, 1): a send proceeds while the buffer is empty.
HasRoom(q) == Len(q) < 1

-----------------------------------------------------------------------------
(* Client.WriteLoop *)

\* "c.Send <- message" meets "message, ok := <-c.Send".
Receive(c) ==
  /\ writer[c] = "select"
  /\ writer' = [writer EXCEPT ![c] = "writing"]
  /\ UNCHANGED connClosed

\* WriteLoop returns: its deferred function closes the connection.
WriterExits(c) ==
  /\ writer' = [writer EXCEPT ![c] = "exited"]
  /\ connClosed' = connClosed \cup {c}
  /\ UNCHANGED <<hubVars, queueVars, handler, iceVars, pcVars>>

WriteDone(c) ==
  /\ writer[c] = "writing"
  /\ c \notin connClosed
  /\ writer' = [writer EXCEPT ![c] = "select"]
  /\ UNCHANGED <<hubVars, queueVars, connClosed, handler, iceVars, pcVars>>

\* A message or a ping cannot be written: connection closed, peer gone, or
\* not reading for writeWait.
WriteFails(c) ==
  /\ c \in Failing \cup connClosed
  /\ writer[c] \in {"select", "writing"}
  /\ WriterExits(c)

\* "message, ok := <-c.Send" with ok false: the hub closed the channel.
WriterSeesClose(c) ==
  /\ writer[c] = "select"
  /\ c \in closed
  /\ WriterExits(c)

-----------------------------------------------------------------------------
(* websocketHandler and Client.ReadLoop *)

HandlerMoves(c, from, to) ==
  handler[c] = from /\ handler' = [handler EXCEPT ![c] = to]

\* Upgrade, NewPeerConnection or AddTransceiverFromTrack fails.
SetupFails(c) ==
  /\ HandlerMoves(c, "idle", "done")
  /\ UNCHANGED <<hubVars, queueVars, writerVars, iceVars, pcVars>>

\* WriteLoop is not started.
BrokenStartClient(c) ==
  /\ HandlerMoves(c, "idle", "register")
  /\ UNCHANGED <<hubVars, queueVars, writerVars, iceVars, pcVars>>

\* ws.NewClient and "go c.WriteLoop()".
StartClient(c) ==
  /\ HandlerMoves(c, "idle", "register")
  /\ writer' = [writer EXCEPT ![c] = "select"]
  /\ UNCHANGED <<hubVars, queueVars, connClosed, iceVars, pcVars>>

\* hub.Register <- c
SendRegister(c) ==
  /\ HandlerMoves(c, "register", "negotiate")
  /\ HasRoom(registerQ)
  /\ registerQ' = Append(registerQ, c)
  /\ UNCHANGED <<hubVars, unregisterQ, writerVars, iceVars, pcVars>>

\* The two callbacks are set, then CreateOffer and SetLocalDescription: the
\* latter starts gathering, unless it fails, which is only logged.
Negotiate(c) ==
  /\ HandlerMoves(c, "negotiate", "offer")
  /\ ice' \in {ice, [ice EXCEPT ![c] = "idle"]}
  /\ UNCHANGED <<hubVars, queueVars, writerVars, candidates, pcVars>>

\* hub.RLock() and the lookup: a client the hub does not know gets no offer.
CheckOffer(c) ==
  /\ HandlerMoves(c, "offer", IF Known(c) THEN "sendOffer" ELSE "read")
  /\ ~WriterWaiting
  /\ UNCHANGED <<hubVars, queueVars, writerVars, iceVars, pcVars>>

\* c.Send <- msg; hub.RUnlock()
SendOffer(c) ==
  /\ HandlerMoves(c, "sendOffer", "read")
  /\ Receive(c)
  /\ UNCHANGED <<hubVars, queueVars, iceVars, pcVars>>

\* ReadLoop leaves its loop: the connection is closed, the browser is gone or
\* silent for pongWait, or a message is not acceptable.
ReadStops(c) ==
  /\ c \in Failing \cup connClosed
  /\ HandlerMoves(c, "read", "unregister")
  /\ UNCHANGED <<hubVars, queueVars, writerVars, iceVars, pcVars>>

\* hub.Unregister <- c in the deferred function of ReadLoop.
SendUnregister(c) ==
  /\ HandlerMoves(c, "unregister", "teardown")
  /\ HasRoom(unregisterQ)
  /\ unregisterQ' = Append(unregisterQ, c)
  /\ UNCHANGED <<hubVars, registerQ, writerVars, iceVars, pcVars>>

\* The connection is closed, then the deferred peerConnection.Close(), which
\* reports PeerConnectionStateClosed unless it was closed before.
Teardown(c) ==
  /\ HandlerMoves(c, "teardown", "done")
  /\ connClosed' = connClosed \cup {c}
  /\ pcClosed' = pcClosed \cup {c}
  /\ callbacks' = IF c \in pcClosed THEN callbacks
                  ELSE [callbacks EXCEPT ![c] = @ + 1]
  /\ UNCHANGED <<hubVars, queueVars, writer, iceVars>>

-----------------------------------------------------------------------------
(* The PeerConnection's callbacks *)

\* OnICECandidate takes the read lock and looks the client up; it drops the
\* candidate of a client the hub does not know.
CheckCandidate(c) ==
  /\ ice[c] = "idle"
  /\ candidates < MaxCandidates
  /\ ~WriterWaiting
  /\ candidates' = candidates + 1
  /\ ice' = [ice EXCEPT ![c] = IF Known(c) THEN "send" ELSE "idle"]
  /\ UNCHANGED <<hubVars, queueVars, handler, writerVars, pcVars>>

\* c.Send <- msg; hub.RUnlock()
SendCandidate(c) ==
  /\ ice[c] = "send"
  /\ Receive(c)
  /\ ice' = [ice EXCEPT ![c] = "idle"]
  /\ UNCHANGED <<hubVars, queueVars, handler, candidates, pcVars>>

\* PeerConnectionStateFailed: the callback closes the PeerConnection, which
\* runs it once more with PeerConnectionStateClosed.  ICE can only fail once
\* ReadLoop runs, which is what applies the answer.
PeerFails(c) ==
  /\ c \in Failing \ pcClosed
  /\ handler[c] \in {"read", "unregister", "teardown"}
  /\ pcClosed' = pcClosed \cup {c}
  /\ callbacks' = [callbacks EXCEPT ![c] = 2]
  /\ UNCHANGED <<hubVars, queueVars, handler, writerVars, iceVars>>

\* hub.Unregister <- c in the OnConnectionStateChange callback.
CallbackUnregister(c) ==
  /\ callbacks[c] > 0
  /\ HasRoom(unregisterQ)
  /\ callbacks' = [callbacks EXCEPT ![c] = @ - 1]
  /\ unregisterQ' = Append(unregisterQ, c)
  /\ UNCHANGED <<hubVars, registerQ, handler, writerVars, iceVars, pcClosed>>

-----------------------------------------------------------------------------
(* Hub.Run *)

\* go h.SendInfo(h.GetInfo()); the number of viewers it carries is left out.
StartSendInfo == infos' = infos + 1

\* case client := <-h.Register
HubRecvRegister ==
  /\ hub = "select" /\ hub' = "add"
  /\ registerQ # <<>>
  /\ cur' = Head(registerQ)
  /\ registerQ' = Tail(registerQ)
  /\ UNCHANGED <<clients, closed, infos, todo, unregisterQ, viewerVars>>

\* h.Lock() is called: from here on no goroutine gets the read lock.
HubLock ==
  /\ \/ hub = "add" /\ hub' = "addLock"
     \/ hub = "delete" /\ hub' = "deleteLock"
  /\ UNCHANGED <<clients, closed, infos, cur, todo, queueVars,
                 viewerVars>>

\* A new client is not announced.
BrokenHubAdd ==
  /\ hub = "addLock" /\ hub' = "select"
  /\ ~ReadLocked
  /\ clients' = clients \cup {cur}
  /\ cur' = NoClient
  /\ UNCHANGED <<closed, infos, todo, queueVars, viewerVars>>

\* Lock is granted once the readers have left; Clients[client] = struct{}{};
\* Unlock; go h.SendInfo(h.GetInfo())
HubAdd ==
  /\ hub = "addLock" /\ hub' = "select"
  /\ ~ReadLocked
  /\ clients' = clients \cup {cur}
  /\ StartSendInfo
  /\ cur' = NoClient
  /\ UNCHANGED <<closed, todo, queueVars, viewerVars>>

\* case client := <-h.Unregister, with the lookup under RLock: nothing more
\* happens for a client the hub does not know.
HubRecvUnregister ==
  /\ hub = "select"
  /\ unregisterQ # <<>>
  /\ unregisterQ' = Tail(unregisterQ)
  /\ IF Known(Head(unregisterQ))
     THEN hub' = "delete" /\ cur' = Head(unregisterQ)
     ELSE UNCHANGED <<hub, cur>>
  /\ UNCHANGED <<clients, closed, infos, todo, registerQ, viewerVars>>

\* The client stays in the map.
BrokenHubDelete ==
  /\ hub = "deleteLock" /\ hub' = "close"
  /\ ~ReadLocked
  /\ UNCHANGED <<clients, closed, infos, cur, todo, queueVars,
                 viewerVars>>

\* Lock is granted; delete(h.Clients, client); Unlock.
HubDelete ==
  /\ hub = "deleteLock" /\ hub' = "close"
  /\ ~ReadLocked
  /\ clients' = clients \ {cur}
  /\ UNCHANGED <<closed, infos, cur, todo, queueVars, viewerVars>>

\* client.conn.Close(); close(client.Send); go h.SendInfo(h.GetInfo())
HubClose ==
  /\ hub = "close" /\ hub' = "select"
  /\ connClosed' = connClosed \cup {cur}
  /\ closed' = closed \cup {cur}
  /\ StartSendInfo
  /\ cur' = NoClient
  /\ UNCHANGED <<clients, todo, queueVars, handler, writer, iceVars, pcVars>>

\* case message := <-h.Broadcast meets one of the SendInfo goroutines; RLock.
HubRecvBroadcast ==
  /\ hub = "select" /\ hub' = "range"
  /\ infos > 0
  /\ infos' = infos - 1
  /\ todo' = clients
  /\ UNCHANGED <<clients, closed, cur, queueVars, viewerVars>>

\* "for client := range h.Clients": any order, and the loop then waits for
\* the client it has picked; RUnlock after the last one.
HubRange ==
  /\ hub = "range"
  /\ \/ todo = {} /\ hub' = "select" /\ UNCHANGED <<cur, todo>>
     \/ \E c \in todo : hub' = "send" /\ cur' = c /\ todo' = todo \ {c}
  /\ UNCHANGED <<clients, closed, infos, queueVars, viewerVars>>

\* client.Send <- message
HubSend ==
  /\ hub = "send" /\ hub' = "range"
  /\ Receive(cur)
  /\ cur' = NoClient
  /\ UNCHANGED <<clients, closed, infos, todo, queueVars, handler,
                 iceVars, pcVars>>

-----------------------------------------------------------------------------

HubStep == \/ HubRecvRegister \/ HubRecvUnregister \/ HubRecvBroadcast
           \/ HubLock \/ HubAdd \/ HubDelete \/ HubClose
           \/ HubRange \/ HubSend

Handler(c) == \/ SetupFails(c) \/ StartClient(c) \/ SendRegister(c)
              \/ Negotiate(c) \/ CheckOffer(c) \/ SendOffer(c)
              \/ ReadStops(c) \/ SendUnregister(c) \/ Teardown(c)

WriteLoop(c) == WriteDone(c) \/ WriteFails(c) \/ WriterSeesClose(c)

Peer(c) == \/ CheckCandidate(c) \/ SendCandidate(c)
           \/ PeerFails(c) \/ CallbackUnregister(c)

Next == HubStep \/ \E c \in Client : Handler(c) \/ WriteLoop(c) \/ Peer(c)

Spec == Init /\ [][Next]_vars

(***************************************************************************)
(* Fairness.  The Go scheduler runs every goroutine that stays able to     *)
(* run: weak fairness per goroutine.  Nothing makes a viewer come or go, a *)
(* candidate appear or a PeerConnection fail.                              *)
(***************************************************************************)
HandlerProceeds(c) == \/ SendRegister(c) \/ Negotiate(c) \/ CheckOffer(c)
                      \/ SendOffer(c) \/ SendUnregister(c) \/ Teardown(c)
                      \/ c \in connClosed /\ ReadStops(c)

\* A write ends within writeWait; a closed connection fails the next ping.
WriterProceeds(c) == (writer[c] = "writing" \/ c \in connClosed) /\ WriteLoop(c)

Fairness ==
  /\ WF_vars(HubStep)
  /\ \A c \in Client :
       /\ WF_vars(HandlerProceeds(c)) /\ WF_vars(WriterProceeds(c))
       /\ WF_vars(SendCandidate(c)) /\ WF_vars(CallbackUnregister(c))

FairSpec == Spec /\ Fairness
=============================================================================
