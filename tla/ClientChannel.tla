--------------------------- MODULE ClientChannel ---------------------------
(***************************************************************************)
(* What the hub promises about Client.Send, the channel WriteLoop reads    *)
(* (webrtc/ws/hub.go: "lock to prevent write to closed channel").          *)
(*                                                                         *)
(* A channel is put in service once, carries messages while it is in       *)
(* service, is withdrawn when no send is under way, and is closed only     *)
(* after that, once.  How senders and the hub agree on this - a global     *)
(* lock and a map, in the code - is left open.                             *)
(***************************************************************************)
CONSTANTS Client,  \* one channel per client
          Sender   \* the parties that send on a channel

VARIABLES
  channel,  \* the stage of life of each client's channel
  sending   \* the parties with a send under way, per client

vars == <<channel, sending>>

Stage == {"new", "inService", "withdrawn", "closed"}

TypeOK ==
  /\ channel \in [Client -> Stage]
  /\ sending \in [Client -> SUBSET Sender]

Init ==
  /\ channel = [c \in Client |-> "new"]
  /\ sending = [c \in Client |-> {}]

Enlist(c) ==
  /\ channel[c] = "new"
  /\ channel' = [channel EXCEPT ![c] = "inService"]
  /\ UNCHANGED sending

BeginSend(c, s) ==
  /\ channel[c] = "inService"
  /\ s \notin sending[c]
  /\ sending' = [sending EXCEPT ![c] = @ \cup {s}]
  /\ UNCHANGED channel

EndSend(c, s) ==
  /\ s \in sending[c]
  /\ sending' = [sending EXCEPT ![c] = @ \ {s}]
  /\ UNCHANGED channel

Withdraw(c) ==
  /\ channel[c] = "inService"
  /\ sending[c] = {}
  /\ channel' = [channel EXCEPT ![c] = "withdrawn"]
  /\ UNCHANGED sending

Close(c) ==
  /\ channel[c] = "withdrawn"
  /\ channel' = [channel EXCEPT ![c] = "closed"]
  /\ UNCHANGED sending

Next == \E c \in Client :
          \/ Enlist(c) \/ Withdraw(c) \/ Close(c)
          \/ \E s \in Sender : BeginSend(c, s) \/ EndSend(c, s)

Spec == Init /\ [][Next]_vars
=============================================================================
