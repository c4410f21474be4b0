----------------------------- MODULE Signaling -----------------------------
(***************************************************************************)
(* Offer, answer and ICE candidates between websocketHandler with ReadLoop *)
(* (webrtc/main.go, webrtc/ws/client.go) and the page                      *)
(* (frontend/src/App.js), over the sockets of SocketContext.               *)
(*                                                                         *)
(* Each socket has a PeerConnection of its own at the server; the page has *)
(* one RTCPeerConnection for all of them.  A negotiation is named by its   *)
(* socket.  The page's RTCPeerConnection puts its operations in a chain    *)
(* and runs one after the other; the handlers of App.js do not wait for    *)
(* them, except for createAnswer.                                          *)
(*                                                                         *)
(* What the hub does with the client is Hub's subject.  Here it adds the   *)
(* client at some time, and no message is sent before.                     *)
(***************************************************************************)
EXTENDS SocketContext, Sequences

CONSTANTS MaxServerCandidates,  \* bound: candidates per server negotiation
          MaxPageCandidates     \* bound: candidates of the page over the run

ASSUME CandidatesAssumption ==
  MaxServerCandidates \in Nat /\ MaxPageCandidates \in Nat

VARIABLES
  handler,     \* where websocketHandler / ReadLoop is, per socket
  known,       \* the sockets whose clients are in hub.Clients
  dropped,     \* those whose offer was not sent, as they were not known
  described,   \* those whose server PeerConnection has the page's answer
  gathered,    \* candidates found by the server, per socket
  down,        \* messages under way to the page, per socket
  up,          \* messages under way to the server, per socket
  chain,       \* operations of the page's RTCPeerConnection not yet run
  signaling,   \* its signalingState
  remote,      \* the negotiation its remote description belongs to, or 0
  created,     \* the negotiation of the last answer it created, or 0
  local,       \* the negotiation its local description belongs to, or 0
  found,       \* candidates found by the page
  offered,     \* history: sockets whose offer has reached the page
  lost,        \* history: server candidates the page could not use
  failed       \* history: what AddICECandidate failed on at the server

serverVars == <<handler, known, dropped, described, gathered>>
pcVars     == <<chain, signaling, remote, created, local>>
vars == <<socketVars, serverVars, down, up, pcVars, found, offered, lost,
          failed>>

HandlerLocation == {"none", "negotiate", "offer", "read", "done"}
Operation == {"setRemoteDescription", "createAnswer", "setLocalDescription",
              "addIceCandidate"}

\* A message to the server, and the negotiation it belongs to.
Message(event, s) == [event |-> event, of |-> s]

\* An operation of the chain, and the negotiation it belongs to.
Do(op, s) == [op |-> op, of |-> s, early |-> FALSE]

SignalingInit ==
  /\ Init
  /\ handler = [s \in Socket |-> "none"]
  /\ known = {} /\ dropped = {} /\ described = {}
  /\ gathered = [s \in Socket |-> 0]
  /\ down = [s \in Socket |-> <<>>]
  /\ up = [s \in Socket |-> <<>>]
  /\ chain = <<>> /\ signaling = "stable"
  /\ remote = 0 /\ created = 0 /\ local = 0
  /\ found = 0 /\ offered = {} /\ lost = {}
  /\ failed = [s \in Socket |-> {}]

-----------------------------------------------------------------------------
(* The server *)

\* Upgrade, NewPeerConnection, hub.Register <- c.
Accept(s) ==
  /\ ready[s] = "connecting"
  /\ handler[s] = "none"
  /\ handler' = [handler EXCEPT ![s] = "negotiate"]
  /\ UNCHANGED <<socketVars, known, dropped, described, gathered, down, up,
                 pcVars, found, offered, lost, failed>>

\* Hub.Run serves the Register.
HubAdds(s) ==
  /\ handler[s] # "none"
  /\ known' = known \cup {s}
  /\ s \notin known
  /\ UNCHANGED <<socketVars, handler, dropped, described, gathered, down, up,
                 pcVars, found, offered, lost, failed>>

\* CreateOffer and SetLocalDescription, which starts gathering.
Negotiate(s) ==
  /\ handler[s] = "negotiate"
  /\ handler' = [handler EXCEPT ![s] = "offer"]
  /\ UNCHANGED <<socketVars, known, dropped, described, gathered, down, up,
                 pcVars, found, offered, lost, failed>>

\* c.Send <- msg, if the hub knows the client.
Emit(s, message) ==
  down' = IF s \in known THEN [down EXCEPT ![s] = Append(@, message)] ELSE down

SendOffer(s) ==
  /\ handler[s] = "offer"
  /\ handler' = [handler EXCEPT ![s] = "read"]
  /\ Emit(s, "offer")
  /\ dropped' = IF s \in known THEN dropped ELSE dropped \cup {s}
  /\ UNCHANGED <<socketVars, known, described, gathered, up, pcVars, found,
                 offered, lost, failed>>

\* The OnICECandidate callback, from SetLocalDescription on.
SendCandidate(s) ==
  /\ handler[s] \in {"offer", "read"}
  /\ gathered[s] < MaxServerCandidates
  /\ gathered' = [gathered EXCEPT ![s] = @ + 1]
  /\ Emit(s, "candidate")
  /\ UNCHANGED <<socketVars, handler, known, dropped, described, up, pcVars,
                 found, offered, lost, failed>>

\* ReadLoop: SetRemoteDescription of an answer; AddICECandidate, which fails
\* as long as there is no remote description, and ReadLoop then returns.
ReadMessage(s) ==
  /\ handler[s] = "read"
  /\ up[s] # <<>>
  /\ up' = [up EXCEPT ![s] = Tail(@)]
  /\ LET message == Head(up[s])
     IN  \/ /\ message.event = "answer"
            /\ described' = described \cup {s}
            /\ UNCHANGED <<handler, failed>>
         \/ /\ message.event = "candidate"
            /\ s \in described
            /\ UNCHANGED <<handler, described, failed>>
         \/ /\ message.event = "candidate"
            /\ s \notin described
            /\ handler' = [handler EXCEPT ![s] = "done"]
            /\ failed' = [failed EXCEPT ![s] = @ \cup {message.of}]
            /\ UNCHANGED described
  /\ UNCHANGED <<socketVars, known, dropped, gathered, down, pcVars, found,
                 offered, lost>>

\* ReadLoop sees that the connection is closed.
ReadFails(s) ==
  /\ handler[s] = "read"
  /\ ready[s] = "closed" /\ up[s] = <<>>
  /\ handler' = [handler EXCEPT ![s] = "done"]
  /\ UNCHANGED <<socketVars, known, dropped, described, gathered, down, up,
                 pcVars, found, offered, lost, failed>>

-----------------------------------------------------------------------------
(* The page *)

\* socket.send: nothing is sent on a closed socket.
SendUp(s, message) ==
  up' = IF ready[s] = "open" THEN [up EXCEPT ![s] = Append(@, message)] ELSE up

\* The answer is created first.
BrokenReceiveOffer(s) ==
  /\ ready[s] = "open"
  /\ down[s] # <<>> /\ Head(down[s]) = "offer"
  /\ down' = [down EXCEPT ![s] = Tail(@)]
  /\ offered' = offered \cup {s}
  /\ chain' = chain \o <<Do("createAnswer", s), Do("setRemoteDescription", s)>>
  /\ UNCHANGED <<socketVars, serverVars, up, signaling, remote, created, local,
                 found, lost, failed>>

\* onmessage with an offer: two operations are put in the chain at once.
ReceiveOffer(s) ==
  /\ ready[s] = "open"
  /\ down[s] # <<>> /\ Head(down[s]) = "offer"
  /\ down' = [down EXCEPT ![s] = Tail(@)]
  /\ offered' = offered \cup {s}
  /\ chain' = chain \o <<Do("setRemoteDescription", s), Do("createAnswer", s)>>
  /\ UNCHANGED <<socketVars, serverVars, up, signaling, remote, created, local,
                 found, lost, failed>>

\* onmessage with a candidate, which is early if the offer was not here yet.
ReceiveCandidate(s) ==
  /\ ready[s] = "open"
  /\ down[s] # <<>> /\ Head(down[s]) = "candidate"
  /\ down' = [down EXCEPT ![s] = Tail(@)]
  /\ chain' = Append(chain, [Do("addIceCandidate", s)
                               EXCEPT !.early = s \notin offered])
  /\ UNCHANGED <<socketVars, serverVars, up, signaling, remote, created, local,
                 found, offered, lost, failed>>

\* The chain runs its first operation, and next the operations more.
RunFirst(op, next) ==
  /\ chain # <<>> /\ Head(chain).op = op
  /\ chain' = Tail(chain) \o next
  /\ UNCHANGED <<socketVars, serverVars, down, found, offered, failed>>

SetRemoteDescription ==
  /\ RunFirst("setRemoteDescription", <<>>)
  /\ remote' = Head(chain).of /\ signaling' = "have-remote-offer"
  /\ UNCHANGED <<up, created, local, lost>>

\* The answer goes to the socket made last.
BrokenAnswerSocket(s) == socket

\* The handler of an offer has captured the socket the offer came from.
AnswerSocket(s) == s

\* The answer is sent only when setLocalDescription is through.
BrokenCreateAnswer ==
  LET s == Head(chain).of
  IN  IF chain # <<>> /\ local = s
      THEN /\ RunFirst("createAnswer", <<>>)
           /\ SendUp(AnswerSocket(s), Message("answer", s))
           /\ UNCHANGED <<signaling, remote, created, local, lost>>
      ELSE /\ RunFirst("createAnswer", <<Do("setLocalDescription", s),
                                         Do("createAnswer", s)>>)
           /\ created' = s
           /\ UNCHANGED <<up, signaling, remote, local, lost>>

\* createAnswer resolves, setLocalDescription goes to the end of the chain
\* and the answer to the server; without an offer it rejects.
CreateAnswer ==
  LET s == Head(chain).of
  IN  IF signaling = "have-remote-offer"
      THEN /\ RunFirst("createAnswer", <<Do("setLocalDescription", s)>>)
           /\ created' = s
           /\ SendUp(AnswerSocket(s), Message("answer", s))
           /\ UNCHANGED <<signaling, remote, local, lost>>
      ELSE /\ RunFirst("createAnswer", <<>>)
           /\ UNCHANGED <<up, signaling, remote, created, local, lost>>

\* An answer that is not the one created last is refused.
SetLocalDescription ==
  /\ RunFirst("setLocalDescription", <<>>)
  /\ IF signaling = "have-remote-offer" /\ created = Head(chain).of
     THEN local' = Head(chain).of /\ signaling' = "stable"
     ELSE UNCHANGED <<local, signaling>>
  /\ UNCHANGED <<up, remote, created, lost>>

\* Candidates are added only while no offer waits for its answer.
BrokenAddIceCandidate ==
  /\ RunFirst("addIceCandidate", <<>>)
  /\ lost' = IF remote = Head(chain).of /\ signaling = "stable" THEN lost
             ELSE lost \cup {Head(chain)}
  /\ UNCHANGED <<up, signaling, remote, created, local>>

\* A candidate is refused without a remote description, and of no use to
\* that of another negotiation.
AddIceCandidate ==
  /\ RunFirst("addIceCandidate", <<>>)
  /\ lost' = IF remote = Head(chain).of THEN lost ELSE lost \cup {Head(chain)}
  /\ UNCHANGED <<up, signaling, remote, created, local>>

\* Candidates are sent before there is a local description.
BrokenFindCandidate ==
  /\ socket # 0
  /\ found < MaxPageCandidates
  /\ found' = found + 1
  /\ SendUp(socket, Message("candidate", local))
  /\ UNCHANGED <<socketVars, serverVars, down, pcVars, offered, lost, failed>>

\* onicecandidate: the candidate belongs to the local description, and goes
\* to the socket made last; send throws while that is connecting.
FindCandidate ==
  /\ local # 0
  /\ found < MaxPageCandidates
  /\ found' = found + 1
  /\ SendUp(socket, Message("candidate", local))
  /\ UNCHANGED <<socketVars, serverVars, down, pcVars, offered, lost, failed>>

-----------------------------------------------------------------------------
(* The sockets *)

SocketStep(step) ==
  /\ step
  /\ UNCHANGED <<serverVars, up, pcVars, found, offered, lost, failed>>

\* Everything SocketContext does, with open only after the server accepted;
\* what is under way to the page when the connection closes is dropped.
PageStep ==
  \/ SocketStep(Configured) /\ UNCHANGED down
  \/ SocketStep(NotConfigured) /\ UNCHANGED down
  \/ SocketStep(SetHandlers) /\ UNCHANGED down
  \/ \E s \in Socket :
       \/ handler[s] # "none" /\ SocketStep(Opens(s)) /\ UNCHANGED down
       \/ SocketStep(Closes(s)) /\ down' = [down EXCEPT ![s] = <<>>]
       \/ SocketStep(TimerFires(s)) /\ UNCHANGED down

-----------------------------------------------------------------------------

ServerStep == \E s \in Socket : \/ Accept(s) \/ HubAdds(s) \/ Negotiate(s)
                                \/ SendOffer(s) \/ SendCandidate(s)
                                \/ ReadMessage(s) \/ ReadFails(s)

ChainStep == \/ SetRemoteDescription \/ CreateAnswer \/ SetLocalDescription
             \/ AddIceCandidate

MessageStep(s) == ReceiveOffer(s) \/ ReceiveCandidate(s)

SignalingNext == \/ ServerStep \/ ChainStep \/ FindCandidate \/ PageStep
                 \/ \E s \in Socket : MessageStep(s)

SignalingSpec == SignalingInit /\ [][SignalingNext]_vars

(***************************************************************************)
(* Fairness.  Messages arrive and are handled, operations of the chain     *)
(* run, goroutines run.  Nothing makes a socket open or close, the hub add *)
(* a client, or a candidate be found.                                      *)
(***************************************************************************)
SignalingFairness ==
  /\ WF_vars(ChainStep)
  /\ \A s \in Socket :
       /\ WF_vars(MessageStep(s))
       /\ WF_vars(Negotiate(s) \/ SendOffer(s))
       /\ WF_vars(ReadMessage(s) \/ ReadFails(s))

FairSignalingSpec == SignalingSpec /\ SignalingFairness
=============================================================================
