----------------------------- MODULE HubProofs -----------------------------
(* The hub's invariant for any number of clients, and what follows from it. *)
EXTENDS HubProperties, SequenceTheorems, TLAPS

LEMMA EmptyQueue ==
  ASSUME NEW q \in Seq(Client)
  PROVE  Len(q) \in Nat /\ (q = <<>> <=> Len(q) = 0)
<1>1. Len(q) \in Nat
  BY LenProperties
<1>2. CASE q = <<>>
  BY <1>2
<1>3. CASE q # <<>>
  <2>1. Len(q) \in Nat \ {0}
    BY <1>3, EmptySeq, Zenon
  <2> QED
    BY <2>1, <1>3
<1> QED
  BY <1>1, <1>2, <1>3

\* A send on Register or Unregister puts the client into the empty buffer.
LEMMA SendToQueue ==
  ASSUME NEW q \in Seq(Client), NEW c \in Client, HasRoom(q)
  PROVE  /\ q = <<>>
         /\ Append(q, c) \in Seq(Client)
         /\ Len(Append(q, c)) = 1 /\ Append(q, c) # <<>>
         /\ Head(Append(q, c)) = c
<1>1. q = <<>>
  BY EmptyQueue DEF HasRoom
<1>2. Append(q, c) = <<c>>
  BY <1>1
<1> QED
  BY <1>1, <1>2

\* A receive empties the buffer.
LEMMA ReceiveFromQueue ==
  ASSUME NEW q \in Seq(Client), Len(q) <= 1, q # <<>>
  PROVE  /\ Head(q) \in Client
         /\ Tail(q) = <<>>
<1>1. /\ Head(q) \in Client /\ Tail(q) \in Seq(Client)
      /\ Len(Tail(q)) = Len(q) - 1
  BY HeadTailProperties
<1>2. Len(q) \in Nat /\ Len(q) # 0
  BY EmptyQueue, Zenon
<1>3. Len(Tail(q)) = 0
  BY <1>1, <1>2
<1> QED
  BY <1>1, <1>3, EmptyQueue

LEMMA InitHubInvariant == Init => HubInvariant
<1> SUFFICES ASSUME Init PROVE HubInvariant
  OBVIOUS
<1>1. /\ infos \in Nat
      /\ callbacks \in [Client -> 0..2]
      /\ candidates \in 0..MaxCandidates
  BY BoundsAssumption DEF Init
<1>2. /\ registerQ \in Seq(Client) /\ Len(registerQ) <= 1
      /\ unregisterQ \in Seq(Client) /\ Len(unregisterQ) <= 1
  BY DEF Init
<1>3. TypeOK
  BY <1>1, <1>2
     DEF Init, TypeOK, HubLocation, HandlerLocation, WriterLocation,
         IceLocation
<1>4. ClosedIsForgotten /\ QueuedIsNew /\ HubWorksOnOpen
  BY DEF Init, ClosedIsForgotten, QueuedIsNew, HubWorksOnOpen
<1>5. UnregisteredIsUnseen /\ SendersAreMembers /\ CallbacksAreOfClosed
  BY ClientAssumption
     DEF Init, UnregisteredIsUnseen, SendersAreMembers, CallbacksAreOfClosed
<1>6. GatheringIsLater
  BY DEF Init, GatheringIsLater
<1> QED
  BY <1>3, <1>4, <1>5, <1>6 DEF HubInvariant

-----------------------------------------------------------------------------
(* One lemma per goroutine: each of its actions keeps the invariant.       *)

LEMMA WriteLoopInvariant ==
  ASSUME HubInvariant, NEW c \in Client, WriteLoop(c)
  PROVE  HubInvariant'
<1> USE DEF TypeOK, HubInvariant, hubVars, queueVars, iceVars, pcVars
<1>1. CASE WriteDone(c)
  <2>1. TypeOK'
    BY <1>1 DEF WriteDone, WriterLocation
  <2> QED
    BY <2>1, <1>1
       DEF WriteDone, ClosedIsForgotten, QueuedIsNew, UnregisteredIsUnseen,
           HubWorksOnOpen, SendersAreMembers, CallbacksAreOfClosed,
           GatheringIsLater
<1>2. CASE WriteFails(c) \/ WriterSeesClose(c)
  <2>1. WriterExits(c)
    BY <1>2 DEF WriteFails, WriterSeesClose
  <2>2. TypeOK'
    BY <2>1 DEF WriterExits, WriterLocation
  <2> QED
    BY <2>1, <2>2
       DEF WriterExits, ClosedIsForgotten, QueuedIsNew, UnregisteredIsUnseen,
           HubWorksOnOpen, SendersAreMembers, CallbacksAreOfClosed,
           GatheringIsLater
<1> QED
  BY <1>1, <1>2 DEF WriteLoop

LEMMA PeerInvariant ==
  ASSUME HubInvariant, NEW c \in Client, Peer(c)
  PROVE  HubInvariant'
<1> USE DEF TypeOK, HubInvariant, hubVars, queueVars, writerVars, pcVars
<1>1. CASE CheckCandidate(c)
  <2>1. TypeOK'
    BY <1>1, BoundsAssumption DEF CheckCandidate, IceLocation
  <2>2. SendersAreMembers'
    BY <1>1 DEF CheckCandidate, Known, SendersAreMembers
  <2> QED
    BY <2>1, <2>2, <1>1
       DEF CheckCandidate, ClosedIsForgotten, QueuedIsNew,
           UnregisteredIsUnseen, HubWorksOnOpen, CallbacksAreOfClosed,
           GatheringIsLater
<1>2. CASE SendCandidate(c)
  <2>1. TypeOK'
    BY <1>2 DEF SendCandidate, Receive, IceLocation, WriterLocation
  <2>2. SendersAreMembers'
    BY <1>2 DEF SendCandidate, SendersAreMembers
  <2> QED
    BY <2>1, <2>2, <1>2
       DEF SendCandidate, ClosedIsForgotten, QueuedIsNew,
           UnregisteredIsUnseen, HubWorksOnOpen, CallbacksAreOfClosed,
           GatheringIsLater
<1>3. CASE PeerFails(c)
  <2>1. TypeOK'
    BY <1>3 DEF PeerFails, iceVars
  <2>2. CallbacksAreOfClosed'
    BY <1>3 DEF PeerFails, CallbacksAreOfClosed
  <2> QED
    BY <2>1, <2>2, <1>3
       DEF PeerFails, iceVars, ClosedIsForgotten, QueuedIsNew,
           UnregisteredIsUnseen, HubWorksOnOpen, SendersAreMembers,
           GatheringIsLater
<1>4. CASE CallbackUnregister(c)
  <2>1. /\ unregisterQ' \in Seq(Client) /\ Len(unregisterQ') <= 1
    BY <1>4, SendToQueue DEF CallbackUnregister
  <2>2. TypeOK'
    BY <2>1, <1>4 DEF CallbackUnregister, iceVars
  <2>3. CallbacksAreOfClosed'
    BY <1>4 DEF CallbackUnregister, CallbacksAreOfClosed
  <2> QED
    BY <2>2, <2>3, <1>4
       DEF CallbackUnregister, iceVars, ClosedIsForgotten, QueuedIsNew,
           UnregisteredIsUnseen, HubWorksOnOpen, SendersAreMembers,
           GatheringIsLater
<1> QED
  BY <1>1, <1>2, <1>3, <1>4 DEF Peer

LEMMA HandlerInvariant ==
  ASSUME HubInvariant, NEW c \in Client, Handler(c)
  PROVE  HubInvariant'
<1> USE DEF TypeOK, HubInvariant, HandlerMoves, HandlerLocation,
            hubVars, queueVars, writerVars, iceVars, pcVars
<1>1. CASE \/ SetupFails(c) \/ StartClient(c) \/ Negotiate(c)
           \/ SendOffer(c) \/ ReadStops(c)
  <2>1. TypeOK'
    BY <1>1 DEF SetupFails, StartClient, Negotiate, SendOffer, ReadStops,
                Receive, WriterLocation, IceLocation
  <2>2. UnregisteredIsUnseen'
    BY <1>1 DEF SetupFails, StartClient, Negotiate, SendOffer, ReadStops,
                UnregisteredIsUnseen
  <2>3. SendersAreMembers'
    BY <1>1 DEF SetupFails, StartClient, Negotiate, SendOffer, ReadStops,
                SendersAreMembers
  <2> QED
    BY <2>1, <2>2, <2>3, <1>1
       DEF SetupFails, StartClient, Negotiate, SendOffer, ReadStops,
           ClosedIsForgotten, QueuedIsNew, HubWorksOnOpen,
           CallbacksAreOfClosed, GatheringIsLater
<1>2. CASE SendRegister(c)
  <2>1. /\ registerQ' \in Seq(Client) /\ Len(registerQ') <= 1
        /\ registerQ' # <<>> /\ Head(registerQ') = c
    BY <1>2, SendToQueue DEF SendRegister
  <2>2. TypeOK'
    BY <2>1, <1>2 DEF SendRegister
  <2>3. QueuedIsNew'
    BY <2>1, <1>2 DEF SendRegister, QueuedIsNew, UnregisteredIsUnseen
  <2>4. UnregisteredIsUnseen'
    BY <2>1, <1>2 DEF SendRegister, UnregisteredIsUnseen
  <2> QED
    BY <2>2, <2>3, <2>4, <1>2
       DEF SendRegister, ClosedIsForgotten, HubWorksOnOpen, SendersAreMembers,
           CallbacksAreOfClosed, GatheringIsLater
<1>3. CASE CheckOffer(c)
  <2>1. TypeOK'
    BY <1>3 DEF CheckOffer
  <2>2. SendersAreMembers' /\ UnregisteredIsUnseen'
    BY <1>3 DEF CheckOffer, Known, SendersAreMembers, UnregisteredIsUnseen
  <2> QED
    BY <2>1, <2>2, <1>3
       DEF CheckOffer, ClosedIsForgotten, QueuedIsNew, HubWorksOnOpen,
           CallbacksAreOfClosed, GatheringIsLater
<1>4. CASE SendUnregister(c)
  <2>1. /\ unregisterQ' \in Seq(Client) /\ Len(unregisterQ') <= 1
    BY <1>4, SendToQueue DEF SendUnregister
  <2>2. TypeOK'
    BY <2>1, <1>4 DEF SendUnregister
  <2>3. UnregisteredIsUnseen' /\ SendersAreMembers'
    BY <1>4 DEF SendUnregister, UnregisteredIsUnseen, SendersAreMembers
  <2> QED
    BY <2>2, <2>3, <1>4
       DEF SendUnregister, ClosedIsForgotten, QueuedIsNew, HubWorksOnOpen,
           CallbacksAreOfClosed, GatheringIsLater
<1>5. CASE Teardown(c)
  <2>1. callbacks' \in [Client -> 0..2]
    BY <1>5 DEF Teardown, CallbacksAreOfClosed
  <2>2. TypeOK'
    BY <2>1, <1>5 DEF Teardown
  <2>3. UnregisteredIsUnseen' /\ SendersAreMembers'
    BY <1>5 DEF Teardown, UnregisteredIsUnseen, SendersAreMembers
  <2>4. CallbacksAreOfClosed'
    BY <1>5 DEF Teardown, CallbacksAreOfClosed
  <2> QED
    BY <2>2, <2>3, <2>4, <1>5
       DEF Teardown, ClosedIsForgotten, QueuedIsNew, HubWorksOnOpen,
           GatheringIsLater
<1> QED
  BY <1>1, <1>2, <1>3, <1>4, <1>5 DEF Handler

LEMMA HubStepInvariant ==
  ASSUME HubInvariant, HubStep
  PROVE  HubInvariant'
<1> USE DEF TypeOK, HubInvariant, HubLocation,
            hubVars, queueVars, viewerVars, writerVars, iceVars, pcVars
<1>1. CASE HubRecvRegister
  <2>1. /\ cur' \in Client /\ cur' = Head(registerQ)
        /\ registerQ' = <<>> /\ registerQ' \in Seq(Client)
    BY <1>1, ReceiveFromQueue DEF HubRecvRegister
  <2>2. TypeOK'
    BY <2>1, <1>1, ClientAssumption DEF HubRecvRegister
  <2>3. UnregisteredIsUnseen'
    BY <2>1, <1>1 DEF HubRecvRegister, UnregisteredIsUnseen
  <2>4. QueuedIsNew' /\ HubWorksOnOpen'
    BY <2>1, <1>1 DEF HubRecvRegister, QueuedIsNew, HubWorksOnOpen
  <2> QED
    BY <2>2, <2>3, <2>4, <1>1
       DEF HubRecvRegister, ClosedIsForgotten, SendersAreMembers,
           CallbacksAreOfClosed, GatheringIsLater
<1>2. CASE HubLock
  <2>1. TypeOK'
    BY <1>2 DEF HubLock
  <2> QED
    BY <2>1, <1>2
       DEF HubLock, ClosedIsForgotten, QueuedIsNew, UnregisteredIsUnseen,
           HubWorksOnOpen, SendersAreMembers, CallbacksAreOfClosed,
           GatheringIsLater
<1>3. CASE HubAdd
  <2>1. cur \in Client /\ cur \notin clients \cup closed
    BY <1>3 DEF HubAdd, HubWorksOnOpen
  <2>2. infos' \in Nat
    BY <1>3 DEF HubAdd, StartSendInfo
  <2>3. TypeOK'
    BY <2>1, <2>2, <1>3 DEF HubAdd
  <2>4. QueuedIsNew' /\ UnregisteredIsUnseen'
    BY <2>1, <1>3, ClientAssumption, ReceiveFromQueue
       DEF HubAdd, QueuedIsNew, UnregisteredIsUnseen
  <2> QED
    BY <2>1, <2>3, <2>4, <1>3
       DEF HubAdd, ClosedIsForgotten, HubWorksOnOpen, SendersAreMembers,
           CallbacksAreOfClosed, GatheringIsLater
<1>4. CASE HubRecvUnregister
  <2>1. /\ Head(unregisterQ) \in Client
        /\ unregisterQ' = <<>> /\ unregisterQ' \in Seq(Client)
    BY <1>4, ReceiveFromQueue DEF HubRecvUnregister
  <2>2. TypeOK'
    BY <2>1, <1>4, ClientAssumption DEF HubRecvUnregister
  <2>3. QueuedIsNew' /\ UnregisteredIsUnseen' /\ HubWorksOnOpen'
    BY <2>1, <1>4
       DEF HubRecvUnregister, Known, QueuedIsNew, UnregisteredIsUnseen,
           HubWorksOnOpen
  <2> QED
    BY <2>2, <2>3, <1>4
       DEF HubRecvUnregister, ClosedIsForgotten, SendersAreMembers,
           CallbacksAreOfClosed, GatheringIsLater
<1>5. CASE HubDelete
  <2>1. TypeOK'
    BY <1>5 DEF HubDelete
  <2>2. SendersAreMembers'
    BY <1>5 DEF HubDelete, ReadLocked, SendersAreMembers
  <2>3. HubWorksOnOpen'
    BY <1>5 DEF HubDelete, HubWorksOnOpen, ClosedIsForgotten
  <2> QED
    BY <2>1, <2>2, <2>3, <1>5
       DEF HubDelete, ClosedIsForgotten, QueuedIsNew, UnregisteredIsUnseen,
           CallbacksAreOfClosed, GatheringIsLater
<1>6. CASE HubClose
  <2>1. infos' \in Nat
    BY <1>6 DEF HubClose, StartSendInfo
  <2>2. TypeOK'
    BY <2>1, <1>6 DEF HubClose
  <2>3. QueuedIsNew' /\ UnregisteredIsUnseen'
    BY <1>6, ClientAssumption, ReceiveFromQueue
       DEF HubClose, QueuedIsNew, UnregisteredIsUnseen
  <2>4. ClosedIsForgotten'
    BY <1>6 DEF HubClose, ClosedIsForgotten, HubWorksOnOpen
  <2> QED
    BY <2>2, <2>3, <2>4, <1>6
       DEF HubClose, HubWorksOnOpen, SendersAreMembers, CallbacksAreOfClosed,
           GatheringIsLater
<1>7. CASE HubRecvBroadcast
  <2>1. TypeOK'
    BY <1>7 DEF HubRecvBroadcast
  <2> QED
    BY <2>1, <1>7
       DEF HubRecvBroadcast, ClosedIsForgotten, QueuedIsNew,
           UnregisteredIsUnseen, HubWorksOnOpen, SendersAreMembers,
           CallbacksAreOfClosed, GatheringIsLater
<1>8. CASE HubRange
  <2>1. TypeOK'
    BY <1>8, ClientAssumption DEF HubRange
  <2>2. HubWorksOnOpen'
    BY <1>8 DEF HubRange, HubWorksOnOpen
  <2>3. todo \subseteq clients
    BY <1>8 DEF HubRange, HubWorksOnOpen
  <2>4. QueuedIsNew' /\ UnregisteredIsUnseen'
    BY <2>3, <1>8 DEF HubRange, QueuedIsNew, UnregisteredIsUnseen
  <2> QED
    BY <2>1, <2>2, <2>4, <1>8
       DEF HubRange, ClosedIsForgotten, SendersAreMembers,
           CallbacksAreOfClosed, GatheringIsLater
<1>9. CASE HubSend
  <2>1. TypeOK'
    BY <1>9 DEF HubSend, Receive, WriterLocation
  <2>2. QueuedIsNew' /\ UnregisteredIsUnseen'
    BY <1>9, ClientAssumption, ReceiveFromQueue
       DEF HubSend, QueuedIsNew, UnregisteredIsUnseen
  <2> QED
    BY <2>1, <2>2, <1>9
       DEF HubSend, ClosedIsForgotten, HubWorksOnOpen, SendersAreMembers,
           CallbacksAreOfClosed, GatheringIsLater
<1> QED
  BY <1>1, <1>2, <1>3, <1>4, <1>5, <1>6, <1>7, <1>8, <1>9 DEF HubStep

-----------------------------------------------------------------------------

\* The invariant holds in every reachable state.
THEOREM HubInvariantHolds == Spec => []HubInvariant
<1>1. HubInvariant /\ [Next]_vars => HubInvariant'
  <2> SUFFICES ASSUME HubInvariant, [Next]_vars PROVE HubInvariant'
    OBVIOUS
  <2>1. CASE HubStep
    BY <2>1, HubStepInvariant
  <2>2. CASE \E c \in Client : Handler(c) \/ WriteLoop(c) \/ Peer(c)
    BY <2>2, HandlerInvariant, WriteLoopInvariant, PeerInvariant
  <2>3. CASE UNCHANGED vars
    BY <2>3
       DEF vars, hubVars, queueVars, viewerVars, writerVars, iceVars, pcVars,
           HubInvariant, TypeOK, ClosedIsForgotten, QueuedIsNew,
           UnregisteredIsUnseen, HubWorksOnOpen, SendersAreMembers,
           CallbacksAreOfClosed, GatheringIsLater
  <2> QED
    BY <2>1, <2>2, <2>3 DEF Next
<1> QED
  BY <1>1, InitHubInvariant, PTL DEF Spec

\* Every variable keeps its type, and the two channels their capacity.
THEOREM TypeCorrect == Spec => []TypeOK
<1>1. HubInvariant => TypeOK
  BY DEF HubInvariant
<1> QED
  BY <1>1, HubInvariantHolds, PTL

\* A client whose channel was closed never comes back into the map.
THEOREM ClosedClientIsForgotten == Spec => []ClosedIsForgotten
<1>1. HubInvariant => ClosedIsForgotten
  BY DEF HubInvariant
<1> QED
  BY <1>1, HubInvariantHolds, PTL

\* No goroutine ever sends on a closed channel.
THEOREM NeverSendsOnClosed == Spec => []SendsOnOpenChannel
<1>1. HubInvariant => SendsOnOpenChannel
  <2> SUFFICES ASSUME HubInvariant, NEW c \in Client, SendersTo(c) # {}
               PROVE  c \notin closed
    BY DEF SendsOnOpenChannel
  <2>1. c \in clients
    BY DEF SendersTo, HubInvariant, SendersAreMembers, HubWorksOnOpen
  <2> QED
    BY <2>1 DEF HubInvariant, ClosedIsForgotten
<1> QED
  BY <1>1, HubInvariantHolds, PTL

\* No channel is closed twice.
THEOREM NeverClosesTwice == Spec => []ClosesOnce
<1>1. HubInvariant => ClosesOnce
  BY DEF HubInvariant, HubWorksOnOpen, ClosesOnce
<1> QED
  BY <1>1, HubInvariantHolds, PTL

\* No goroutine panics on a Send channel, which would end the server.
THEOREM ChannelsNeverPanic == Spec => []NoChannelPanics
BY NeverSendsOnClosed, NeverClosesTwice, PTL DEF NoChannelPanics

-----------------------------------------------------------------------------
(* A send to a client whose WriteLoop has returned *)

\* The send is not received, and WriteLoop is not started again.
LEMMA SenderStays ==
  ASSUME HubInvariant, Next, NEW c \in Client, writer[c] = "exited",
         NEW s \in SendersTo(c)
  PROVE  writer'[c] = "exited" /\ s \in SendersTo(c)'
<1> USE DEF TypeOK, HubInvariant, SendersTo, Sender, hubVars, queueVars,
            iceVars, pcVars, viewerVars, writerVars
<1>1. CASE HubStep
  BY <1>1
     DEF HubStep, HubRecvRegister, HubRecvUnregister, HubRecvBroadcast,
         HubLock, HubAdd, HubDelete, HubClose, HubRange, HubSend, Receive
<1>2. ASSUME NEW d \in Client, Handler(d)
      PROVE  writer'[c] = "exited" /\ s \in SendersTo(c)'
  <2>1. CASE StartClient(d)
    <3>1. d # c
      BY <1>2, <2>1
         DEF StartClient, HandlerMoves, UnregisteredIsUnseen, HubWorksOnOpen,
             SendersAreMembers
    <3> QED
      BY <2>1, <3>1 DEF StartClient, HandlerMoves
  <2>2. CASE SendOffer(d)
    BY <2>2 DEF SendOffer, HandlerMoves, Receive
  <2>3. CASE ~StartClient(d) /\ ~SendOffer(d)
    <3>1. UNCHANGED <<hub, cur, writer>>
      BY <1>2, <2>3
         DEF Handler, HandlerMoves, SetupFails, SendRegister, Negotiate,
             CheckOffer, ReadStops, SendUnregister, Teardown
    <3>2. handler[c] = "sendOffer" => handler'[c] = "sendOffer"
      BY <1>2, <2>3
         DEF Handler, HandlerMoves, SetupFails, SendRegister, Negotiate,
             CheckOffer, ReadStops, SendUnregister, Teardown
    <3>3. ice[c] = "send" => ice'[c] = "send"
      BY <1>2, <2>3
         DEF Handler, HandlerMoves, SetupFails, SendRegister, Negotiate,
             CheckOffer, ReadStops, SendUnregister, Teardown, GatheringIsLater
    <3> QED
      BY <3>1, <3>2, <3>3
  <2> QED
    BY <2>1, <2>2, <2>3
<1>3. ASSUME NEW d \in Client, WriteLoop(d)
      PROVE  writer'[c] = "exited" /\ s \in SendersTo(c)'
  BY <1>3 DEF WriteLoop, WriteDone, WriteFails, WriterSeesClose, WriterExits
<1>4. ASSUME NEW d \in Client, Peer(d)
      PROVE  writer'[c] = "exited" /\ s \in SendersTo(c)'
  BY <1>4
     DEF Peer, CheckCandidate, SendCandidate, PeerFails, CallbackUnregister,
         Receive
<1> QED
  BY <1>1, <1>2, <1>3, <1>4 DEF Next

\* The hub takes clients into the map and out of it when nobody sends.
LEMMA SendersKeepTheMap ==
  ASSUME HubInvariant, Next, NEW c \in Client, SendersTo(c) # {}
  PROVE  UNCHANGED clients
<1>1. CASE hub = "send" \/ ReadLocked
  <2>1. CASE HubStep
    BY <1>1, <2>1
       DEF HubStep, HubRecvRegister, HubRecvUnregister, HubRecvBroadcast,
           HubLock, HubAdd, HubDelete, HubClose, HubRange, HubSend,
           ReadLocked
  <2>2. CASE \E d \in Client : Handler(d) \/ WriteLoop(d) \/ Peer(d)
    BY <2>2
       DEF hubVars, Handler, SetupFails, StartClient, SendRegister,
           Negotiate, CheckOffer, SendOffer, ReadStops, SendUnregister,
           Teardown, WriteLoop, WriteDone, WriteFails, WriterSeesClose,
           WriterExits, Peer, CheckCandidate, SendCandidate, PeerFails,
           CallbackUnregister
  <2> QED
    BY <2>1, <2>2 DEF Next
<1> QED
  BY <1>1 DEF SendersTo, ReadLocked

\* Once a send waits for a WriteLoop that has returned, it waits for good,
\* and Run never adds or removes a viewer again.
THEOREM WedgedForGood == Spec => WedgeIsForGood
<1>1. ASSUME HubInvariant, [Next]_vars, Wedged
      PROVE  Wedged' /\ UNCHANGED clients
  <2>1. PICK c \in Client : writer[c] = "exited" /\ SendersTo(c) # {}
    BY <1>1 DEF Wedged
  <2>2. CASE Next
    <3>1. PICK s \in SendersTo(c) : TRUE
      BY <2>1
    <3>2. writer'[c] = "exited" /\ s \in SendersTo(c)'
      BY <1>1, <2>1, <2>2, SenderStays
    <3> QED
      BY <1>1, <2>1, <2>2, <3>2, SendersKeepTheMap DEF Wedged
  <2>3. CASE UNCHANGED vars
    BY <2>1, <2>3
       DEF Wedged, SendersTo, vars, hubVars, queueVars, viewerVars,
           writerVars, iceVars
  <2> QED
    BY <1>1, <2>2, <2>3
<1> QED
  BY <1>1, HubInvariantHolds, PTL DEF Spec, WedgeIsForGood

-----------------------------------------------------------------------------
(***************************************************************************)
(* The hub implements the contract of Client.Send (ClientChannel.tla).     *)
(* CheckOffer, CheckCandidate and HubRange begin a send; SendOffer,        *)
(* SendCandidate and HubSend end it; HubAdd, HubDelete and HubClose move   *)
(* the channel to its next stage.  Every other step is a stutter.          *)
(***************************************************************************)

\* What the contract sees depends on these parts of the state only.
LEMMA StageFrame ==
  ASSUME UNCHANGED <<clients, closed>>,
         \A c \in Client :
           (hub = "close" /\ cur = c)' <=> (hub = "close" /\ cur = c)
  PROVE  ChannelStage' = ChannelStage
BY DEF ChannelStage

LEMMA SendsFrame ==
  ASSUME \A c \in Client :
           /\ (handler[c] = "sendOffer")' <=> (handler[c] = "sendOffer")
           /\ (ice[c] = "send")' <=> (ice[c] = "send")
           /\ (hub = "send" /\ cur = c)' <=> (hub = "send" /\ cur = c)
  PROVE  SendsUnderWay' = SendsUnderWay
<1>1. \A c \in Client : SendersTo(c)' = SendersTo(c)
  BY DEF SendersTo
<1> QED
  BY <1>1 DEF SendsUnderWay

\* A client somebody sends to has its channel in service.
LEMMA MembersAreInService ==
  ASSUME HubInvariant, NEW c \in clients
  PROVE  ChannelStage[c] = "inService"
BY DEF HubInvariant, TypeOK, ClosedIsForgotten, HubWorksOnOpen, ChannelStage

\* A party that starts to send to a client in the map begins a send ...
LEMMA BeginsSend ==
  ASSUME HubInvariant, NEW c \in clients, NEW s \in Sender,
         ChannelStage' = ChannelStage,
         \A d \in Client \ {c} : SendersTo(d)' = SendersTo(d),
         SendersTo(c)' = SendersTo(c) \cup {s}, s \notin SendersTo(c)
  PROVE  Contract!Next
<1>1. c \in Client
  BY DEF HubInvariant, TypeOK
<1>2. SendsUnderWay' = [SendsUnderWay EXCEPT ![c] = @ \cup {s}]
  BY <1>1 DEF SendsUnderWay
<1>3. Contract!BeginSend(c, s)
  BY <1>1, <1>2, MembersAreInService DEF Contract!BeginSend, SendsUnderWay
<1> QED
  BY <1>1, <1>3 DEF Contract!Next

\* ... and one whose send was received ends it.
LEMMA EndsSend ==
  ASSUME NEW c \in Client, NEW s \in Sender,
         ChannelStage' = ChannelStage,
         \A d \in Client \ {c} : SendersTo(d)' = SendersTo(d),
         SendersTo(c)' = SendersTo(c) \ {s}, s \in SendersTo(c)
  PROVE  Contract!Next
<1>1. SendsUnderWay' = [SendsUnderWay EXCEPT ![c] = @ \ {s}]
  BY DEF SendsUnderWay
<1>2. Contract!EndSend(c, s)
  BY <1>1 DEF Contract!EndSend, SendsUnderWay
<1> QED
  BY <1>2 DEF Contract!Next

LEMMA HandlerImplements ==
  ASSUME HubInvariant, NEW c \in Client, Handler(c)
  PROVE  [Contract!Next]_(Contract!vars)
<1> USE DEF TypeOK, HubInvariant, HandlerMoves,
            hubVars, queueVars, writerVars, iceVars, pcVars
<1>1. ChannelStage' = ChannelStage
  <2>1. UNCHANGED <<clients, closed, hub, cur>>
    BY DEF Handler, SetupFails, StartClient, SendRegister, Negotiate,
           CheckOffer, SendOffer, ReadStops, SendUnregister, Teardown
  <2> QED
    BY <2>1, StageFrame
<1>2. CASE CheckOffer(c) /\ Known(c)
  <2>1. /\ \A d \in Client \ {c} : SendersTo(d)' = SendersTo(d)
        /\ SendersTo(c)' = SendersTo(c) \cup {"handler"}
        /\ "handler" \notin SendersTo(c)
    BY <1>2 DEF CheckOffer, SendersTo, Sender
  <2> QED
    BY <2>1, <1>1, <1>2, BeginsSend DEF Known, Sender
<1>3. CASE SendOffer(c)
  <2>1. /\ \A d \in Client \ {c} : SendersTo(d)' = SendersTo(d)
        /\ SendersTo(c)' = SendersTo(c) \ {"handler"}
        /\ "handler" \in SendersTo(c)
    BY <1>3 DEF SendOffer, SendersTo, Sender
  <2> QED
    BY <2>1, <1>1, EndsSend DEF Sender
<1>4. CASE ~SendOffer(c) /\ ~(CheckOffer(c) /\ Known(c))
  <2>1. /\ UNCHANGED <<hub, cur>>
        /\ \A d \in Client :
             /\ (handler[d] = "sendOffer")' <=> (handler[d] = "sendOffer")
             /\ (ice[d] = "send")' <=> (ice[d] = "send")
    BY <1>4 DEF GatheringIsLater, IceLocation, Handler, SetupFails,
                StartClient, SendRegister, Negotiate, CheckOffer, SendOffer,
                ReadStops, SendUnregister, Teardown
  <2>2. SendsUnderWay' = SendsUnderWay
    BY <2>1, SendsFrame
  <2> QED
    BY <1>1, <2>2 DEF Contract!vars
<1> QED
  BY <1>2, <1>3, <1>4

LEMMA WriteLoopImplements ==
  ASSUME HubInvariant, NEW c \in Client, WriteLoop(c)
  PROVE  UNCHANGED Contract!vars
<1>1. UNCHANGED <<clients, closed, hub, cur, handler, ice>>
  BY DEF WriteLoop, WriteDone, WriteFails, WriterSeesClose, WriterExits,
         hubVars, iceVars
<1> QED
  BY <1>1, StageFrame, SendsFrame DEF Contract!vars

LEMMA PeerImplements ==
  ASSUME HubInvariant, NEW c \in Client, Peer(c)
  PROVE  [Contract!Next]_(Contract!vars)
<1> USE DEF TypeOK, HubInvariant,
            hubVars, queueVars, writerVars, iceVars, pcVars
<1>1. ChannelStage' = ChannelStage
  <2>1. UNCHANGED <<clients, closed, hub, cur>>
    BY DEF Peer, CheckCandidate, SendCandidate, PeerFails, CallbackUnregister
  <2> QED
    BY <2>1, StageFrame
<1>2. CASE CheckCandidate(c) /\ Known(c)
  <2>1. /\ \A d \in Client \ {c} : SendersTo(d)' = SendersTo(d)
        /\ SendersTo(c)' = SendersTo(c) \cup {"ice"}
        /\ "ice" \notin SendersTo(c)
    BY <1>2 DEF CheckCandidate, SendersTo, Sender
  <2> QED
    BY <2>1, <1>1, <1>2, BeginsSend DEF Known, Sender
<1>3. CASE SendCandidate(c)
  <2>1. /\ \A d \in Client \ {c} : SendersTo(d)' = SendersTo(d)
        /\ SendersTo(c)' = SendersTo(c) \ {"ice"}
        /\ "ice" \in SendersTo(c)
    BY <1>3 DEF SendCandidate, SendersTo, Sender
  <2> QED
    BY <2>1, <1>1, EndsSend DEF Sender
<1>4. CASE ~SendCandidate(c) /\ ~(CheckCandidate(c) /\ Known(c))
  <2>1. /\ UNCHANGED <<hub, cur, handler>>
        /\ \A d \in Client : (ice[d] = "send")' <=> (ice[d] = "send")
    BY <1>4 DEF Peer, CheckCandidate, SendCandidate, PeerFails,
                CallbackUnregister
  <2>2. SendsUnderWay' = SendsUnderWay
    BY <2>1, SendsFrame
  <2> QED
    BY <1>1, <2>2 DEF Contract!vars
<1> QED
  BY <1>2, <1>3, <1>4

LEMMA HubImplements ==
  ASSUME HubInvariant, HubStep
  PROVE  [Contract!Next]_(Contract!vars)
<1> USE DEF TypeOK, HubInvariant,
            hubVars, queueVars, viewerVars, writerVars, iceVars, pcVars
<1>1. CASE \/ HubRecvRegister \/ HubLock \/ HubRecvUnregister
           \/ HubRecvBroadcast \/ (HubRange /\ todo = {} /\ hub' = "select")
  <2>1. /\ UNCHANGED <<clients, closed, handler, ice>>
        /\ \A c \in Client : hub # "close" /\ hub' # "close"
        /\ \A c \in Client : hub # "send" /\ hub' # "send"
    BY <1>1 DEF HubRecvRegister, HubLock, HubRecvUnregister,
                HubRecvBroadcast, HubRange
  <2> QED
    BY <2>1, StageFrame, SendsFrame DEF Contract!vars
<1>2. CASE HubAdd
  <2>1. cur \in Client /\ cur \notin clients \cup closed
    BY <1>2 DEF HubAdd, HubWorksOnOpen
  <2>2. ChannelStage' = [ChannelStage EXCEPT ![cur] = "inService"]
    BY <2>1, <1>2 DEF HubAdd, ChannelStage
  <2>3. SendsUnderWay' = SendsUnderWay
    BY <1>2, SendsFrame DEF HubAdd
  <2>4. ChannelStage[cur] = "new"
    BY <2>1, <1>2 DEF HubAdd, ChannelStage
  <2>5. Contract!Enlist(cur)
    BY <2>2, <2>3, <2>4 DEF Contract!Enlist
  <2> QED
    BY <2>1, <2>5 DEF Contract!Next
<1>3. CASE HubDelete
  <2>1. cur \in Client /\ cur \in clients
    BY <1>3 DEF HubDelete, HubWorksOnOpen
  <2>2. ChannelStage' = [ChannelStage EXCEPT ![cur] = "withdrawn"]
    BY <2>1, <1>3 DEF HubDelete, ChannelStage, ClosedIsForgotten
  <2>3. SendsUnderWay' = SendsUnderWay
    BY <1>3, SendsFrame DEF HubDelete
  <2>4. SendersTo(cur) = {}
    BY <2>1, <1>3 DEF HubDelete, ReadLocked, SendersTo
  <2>5. Contract!Withdraw(cur)
    BY <2>1, <2>2, <2>3, <2>4, MembersAreInService
       DEF Contract!Withdraw, SendsUnderWay
  <2> QED
    BY <2>1, <2>5 DEF Contract!Next
<1>4. CASE HubClose
  <2>1. cur \in Client /\ cur \notin clients \cup closed
    BY <1>4 DEF HubClose, HubWorksOnOpen
  <2>2. ChannelStage' = [ChannelStage EXCEPT ![cur] = "closed"]
    BY <2>1, <1>4, ClientAssumption DEF HubClose, ChannelStage
  <2>3. SendsUnderWay' = SendsUnderWay
    BY <1>4, SendsFrame DEF HubClose
  <2>4. ChannelStage[cur] = "withdrawn"
    BY <2>1, <1>4 DEF HubClose, ChannelStage
  <2>5. Contract!Close(cur)
    BY <2>2, <2>3, <2>4 DEF Contract!Close
  <2> QED
    BY <2>1, <2>5 DEF Contract!Next
<1>5. CASE HubRange /\ hub' = "send"
  <2>1. PICK c \in clients : c \in Client /\ c = cur'
    BY <1>5 DEF HubRange, HubWorksOnOpen
  <2>2. ChannelStage' = ChannelStage
    BY <1>5, StageFrame DEF HubRange
  <2>3. /\ \A d \in Client \ {c} : SendersTo(d)' = SendersTo(d)
        /\ SendersTo(c)' = SendersTo(c) \cup {"hub"}
        /\ "hub" \notin SendersTo(c)
    BY <2>1, <1>5 DEF HubRange, SendersTo, Sender
  <2> QED
    BY <2>1, <2>2, <2>3, BeginsSend DEF Sender
<1>6. CASE HubSend
  <2>1. PICK c \in Client : c = cur
    BY <1>6 DEF HubSend, HubWorksOnOpen
  <2>2. ChannelStage' = ChannelStage
    BY <1>6, StageFrame DEF HubSend
  <2>3. /\ \A d \in Client \ {c} : SendersTo(d)' = SendersTo(d)
        /\ SendersTo(c)' = SendersTo(c) \ {"hub"}
        /\ "hub" \in SendersTo(c)
    BY <2>1, <1>6, ClientAssumption DEF HubSend, SendersTo, Sender
  <2> QED
    BY <2>1, <2>2, <2>3, EndsSend DEF Sender
<1>7. HubRange => (todo = {} /\ hub' = "select") \/ hub' = "send"
  BY DEF HubRange
<1> QED
  BY <1>1, <1>2, <1>3, <1>4, <1>5, <1>6, <1>7 DEF HubStep

\* The hub, its lock and its callers implement the contract of Client.Send:
\* a channel carries messages only between its one registration and its
\* removal from the map, and is closed once, with no send under way.
THEOREM HubImplementsContract == Spec => ImplementsContract
<1>1. Init => Contract!Init
  BY DEF Init, Contract!Init, ChannelStage, SendsUnderWay, SendersTo
<1>2. HubInvariant /\ [Next]_vars => [Contract!Next]_(Contract!vars)
  <2> SUFFICES ASSUME HubInvariant, [Next]_vars
               PROVE  [Contract!Next]_(Contract!vars)
    OBVIOUS
  <2>1. CASE HubStep
    BY <2>1, HubImplements
  <2>2. CASE \E c \in Client : Handler(c) \/ WriteLoop(c) \/ Peer(c)
    BY <2>2, HandlerImplements, WriteLoopImplements, PeerImplements
  <2>3. CASE UNCHANGED vars
    BY <2>3, StageFrame, SendsFrame
       DEF vars, hubVars, viewerVars, iceVars, Contract!vars
  <2> QED
    BY <2>1, <2>2, <2>3 DEF Next
<1> QED
  BY <1>1, <1>2, HubInvariantHolds, PTL
     DEF Spec, ImplementsContract, Contract!Spec
=============================================================================
