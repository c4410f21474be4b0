--------------------------- MODULE HubProperties ---------------------------
(* What is checked and proved of the hub, and what its comments claim.     *)
EXTENDS Hub

\* Every variable has its type; the two channels never hold more than one
\* client, and the hub holds a client exactly while it works on one.
TypeOK ==
  /\ clients \subseteq Client /\ closed \subseteq Client
  /\ connClosed \subseteq Client /\ pcClosed \subseteq Client
  /\ registerQ \in Seq(Client) /\ Len(registerQ) <= 1
  /\ unregisterQ \in Seq(Client) /\ Len(unregisterQ) <= 1
  /\ infos \in Nat
  /\ hub \in HubLocation /\ todo \subseteq Client
  /\ cur \in Client \cup {NoClient}
  /\ cur = NoClient <=> hub \in {"select", "range"}
  /\ handler \in [Client -> HandlerLocation]
  /\ writer \in [Client -> WriterLocation]
  /\ ice \in [Client -> IceLocation]
  /\ candidates \in 0..MaxCandidates
  /\ callbacks \in [Client -> 0..2]

\* The goroutines that are in "c.Send <- ..." now.
Sender == {"hub", "handler", "ice"}
SendersTo(c) ==
  {s \in Sender : \/ s = "hub" /\ hub = "send" /\ cur = c
                  \/ s = "handler" /\ handler[c] = "sendOffer"
                  \/ s = "ice" /\ ice[c] = "send"}

\* No goroutine is ever sending on a closed channel, which would panic: the
\* purpose of the lock in Hub ("lock to prevent write to closed channel").
SendsOnOpenChannel == \A c \in Client : SendersTo(c) # {} => c \notin closed

\* close(client.Send) is never reached twice for one client (it would
\* panic), although up to three Unregisters are sent for it.
ClosesOnce == hub = "close" => cur \notin closed

\* Nothing the goroutines do with Send channels panics.
NoChannelPanics == SendsOnOpenChannel /\ ClosesOnce

\* A client whose channel the hub has closed is never in the map again, in
\* whatever order its Register and its Unregisters are served: the next
\* broadcast would send on a closed channel.
ClosedIsForgotten == clients \cap closed = {}

\* Where each client's Send channel is in its life.
ChannelStage ==
  [c \in Client |->
     IF c \in closed THEN "closed"
     ELSE IF hub = "close" /\ cur = c THEN "withdrawn"
     ELSE IF c \in clients THEN "inService" ELSE "new"]

SendsUnderWay == [c \in Client |-> SendersTo(c)]

Contract == INSTANCE ClientChannel
              WITH channel <- ChannelStage, sending <- SendsUnderWay

\* The hub, its lock and its callers implement the channel's contract: sends
\* only while in service, withdrawal only between sends, one close.
ImplementsContract == Contract!Spec

-----------------------------------------------------------------------------
(* The inductive invariant: why the properties above hold *)

\* A client waiting to be registered was never in the map, and is not what
\* the hub works on.
QueuedIsNew ==
  registerQ # <<>> => Head(registerQ) \notin clients \cup closed \cup {cur}

\* A client is sent to Register once: nothing has seen it before.
UnregisteredIsUnseen == \A c \in Client :
  handler[c] \in {"idle", "register"} =>
    /\ c \notin clients \cup closed \cup {cur}
    /\ registerQ # <<>> => Head(registerQ) # c

\* The client the hub works on is in the map until it is deleted, and its
\* channel open until it is closed.
HubWorksOnOpen ==
  /\ hub \in {"add", "addLock", "close"} => cur \notin clients \cup closed
  /\ hub \in {"delete", "deleteLock", "send"} => cur \in clients
  /\ hub \in {"range", "send"} => todo \subseteq clients

\* Who sends outside the hub holds the lock and looked the client up.
SendersAreMembers == \A c \in Client :
  handler[c] = "sendOffer" \/ ice[c] = "send" => c \in clients

\* Only a closed PeerConnection has callbacks to run.
CallbacksAreOfClosed == \A c \in Client : callbacks[c] > 0 => c \in pcClosed

\* The ICE callback is not called before websocketHandler negotiates.
GatheringIsLater == \A c \in Client :
  handler[c] \in {"idle", "register", "negotiate"} => ice[c] = "off"

HubInvariant ==
  /\ TypeOK /\ ClosedIsForgotten
  /\ QueuedIsNew /\ UnregisteredIsUnseen /\ HubWorksOnOpen
  /\ SendersAreMembers /\ CallbacksAreOfClosed /\ GatheringIsLater

-----------------------------------------------------------------------------
(* What a WriteLoop that returns too early leaves behind *)

\* A goroutine is sending to a client whose WriteLoop has returned, and keeps
\* the read lock, or the hub itself.
Wedged == \E c \in Client : writer[c] = "exited" /\ SendersTo(c) # {}

\* That is for good: nobody ever receives, and whatever the other goroutines
\* do, no viewer is added to the map or removed from it any more.
WedgeIsForGood == [][Wedged => Wedged' /\ UNCHANGED clients]_vars

-----------------------------------------------------------------------------
(* Liveness *)

\* The hub always returns to its select, unless the system is wedged: a slow
\* browser, the lock and the order of the callbacks cannot stop it.
HubReturnsUnlessWedged == []<>(hub = "select" \/ Wedged)

\* A client that was handed to Register is in the map some time after.
RegisterTakesEffect == \A c \in Client :
  handler[c] = "negotiate" ~> (c \in clients \/ Wedged)

\* A registered client whose ReadLoop has ended is removed.
UnregisterTakesEffect == \A c \in Client :
  (c \in clients /\ handler[c] = "unregister") ~> (c \notin clients \/ Wedged)

\* After a client is added its turn in a broadcast of the statistics comes,
\* unless it leaves first.
ViewerIsToldTheCount == \A c \in Client :
  (hub = "addLock" /\ cur = c)
    ~> ((hub = "send" /\ cur = c) \/ c \in closed \/ Wedged)

-----------------------------------------------------------------------------
(* What the repository says and the code does not keep *)

\* "Run is the main hub event loop handling register, unregister and
\* broadcast events" (hub.go): it always comes back for the next event.
HubKeepsServing == []<>(hub = "select")

\* "If PeerConnection is closed remove it from global list" (main.go): once
\* everything the client sends to Unregister was served, it is not in the map.
ClosedPeerIsRemoved == \A c \in Client :
  (/\ handler[c] = "done" /\ c \in pcClosed /\ callbacks[c] = 0
   /\ unregisterQ # <<c>> /\ cur # c)
    => c \notin clients
=============================================================================
