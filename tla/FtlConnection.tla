--------------------------- MODULE FtlConnection ---------------------------
(***************************************************************************)
(* One connection of Lightspeed ingest (ingest/src/connection.rs): the     *)
(* frame task, which owns the socket, and the command task, which owns the *)
(* connection's state, joined by two tokio mpsc channels.                  *)
(*                                                                         *)
(* A step is one await (a channel operation, a read or a write of the      *)
(* socket) with the code up to the next one.  A task that returns or       *)
(* panics drops its ends of both channels: from then on a send to it       *)
(* fails, and a receive from it yields None once the channel is empty.     *)
(***************************************************************************)
EXTENDS FtlCommands

VARIABLES
  frame,    \* where the frame task is
  held,     \* the command it is sending to the command task
  writing,  \* the reply it is writing
  left,     \* strings of that reply still to be written
  conn,     \* where the command task is
  reply,    \* the reply it is sending
  toConn,   \* frame_send / conn_receive
  toFrame,  \* conn_send / frame_receive
  payload,  \* state.hmac_payload
  video,    \* state.video, and state.audio
  text,     \* state.vendor_name and the ten other optional strings
  asked,    \* history: the commands decoded
  answers   \* history: the replies written completely

channelVars == <<toConn, toFrame>>
stateVars   == <<payload, video, text>>
frameVars   == <<frame, held, writing, left, asked, answers>>
connVars    == <<conn, reply, stateVars>>
vars        == <<channelVars, frameVars, connVars>>

FrameLocation == {"next", "send", "recv", "write", "done"}
ConnLocation  == {"recv", "send", "done"}

\* mpsc::channel(2)
ChannelSize == 2
HasRoom(q)  == Len(q) < ChannelSize

None      == "None"
NoCommand == [kind |-> "none"]

Init ==
  /\ frame = "next" /\ held = NoCommand /\ writing = None /\ left = 0
  /\ conn = "recv" /\ reply = None
  /\ toConn = <<>> /\ toFrame = <<>>
  /\ payload = 0 /\ video = "false" /\ text = None
  /\ asked = <<>> /\ answers = <<>>

-----------------------------------------------------------------------------
(* The frame task *)

\* What the client can send next: it knows the digest of a payload only
\* after that payload was written to it.
CanSend(c) ==
  c.kind = "Connect" =>
    \/ c.digest \in {0, WrongKey, NotHex}
    \/ c.digest \in DOMAIN answers /\ answers[c.digest] = "payload"

\* Some(Ok(command)) = frame.next().await
FrameNext ==
  /\ frame = "next" /\ frame' = "send"
  /\ Len(asked) < MaxCommands
  /\ \E c \in FtlCommand :
       CanSend(c) /\ held' = c /\ asked' = Append(asked, c)
  /\ UNCHANGED <<writing, left, answers, channelVars, connVars>>

\* frame.next() ends with None or an error, or the decoder panics.
FrameEnds ==
  /\ frame = "next" /\ frame' = "done"
  /\ UNCHANGED <<held, writing, left, asked, answers, channelVars, connVars>>

\* The frame task goes on reading once the command is sent.
BrokenFrameSend ==
  /\ frame = "send"
  /\ IF conn = "done"
     THEN frame' = "done" /\ UNCHANGED <<held, toConn>>
     ELSE /\ HasRoom(toConn)
          /\ toConn' = Append(toConn, held)
          /\ frame' = IF toFrame = <<>> THEN "next" ELSE "recv"
          /\ held' = NoCommand
  /\ UNCHANGED <<writing, left, asked, answers, toFrame, connVars>>

\* frame_send.send(command).await fails when conn_receive was dropped.
FrameSend ==
  /\ frame = "send"
  /\ IF conn = "done"
     THEN frame' = "done" /\ UNCHANGED <<held, toConn>>
     ELSE /\ HasRoom(toConn)
          /\ toConn' = Append(toConn, held)
          /\ frame' = "recv" /\ held' = NoCommand
  /\ UNCHANGED <<writing, left, asked, answers, toFrame, connVars>>

\* frame_receive.recv().await: the strings of the reply come to be written.
FrameRecv ==
  /\ frame = "recv" /\ frame' = "write"
  /\ toFrame # <<>>
  /\ writing' = Head(toFrame) /\ left' = Items(Head(toFrame))
  /\ toFrame' = Tail(toFrame)
  /\ UNCHANGED <<held, asked, answers, toConn, connVars>>

\* frame_receive.recv() yields None: conn_send was dropped.
FrameRecvNone ==
  /\ frame = "recv" /\ frame' = "done"
  /\ toFrame = <<>> /\ conn = "done"
  /\ UNCHANGED <<held, writing, left, asked, answers, channelVars, connVars>>

\* frame.send(item).await, once for each string.
FrameWrite ==
  /\ frame = "write"
  /\ IF left > 1
     THEN left' = left - 1 /\ UNCHANGED <<frame, writing, answers>>
     ELSE /\ frame' = "next" /\ writing' = None /\ left' = 0
          /\ answers' = Append(answers, writing)
  /\ UNCHANGED <<held, asked, channelVars, connVars>>

\* frame.send(item) fails, for the first string of a reply or a later one.
FrameWriteFails ==
  /\ frame = "write" /\ frame' = "done"
  /\ UNCHANGED <<held, writing, left, asked, answers, channelVars, connVars>>

-----------------------------------------------------------------------------
(* The command task *)

\* A flag is stored as it comes.
BrokenStoreAttribute(c) ==
  /\ video' = IF c.key = "flag" THEN c.value ELSE video
  /\ text'  = IF c.key = "text" THEN c.value ELSE text

\* The assignments of FtlCommand::Attribute.
StoreAttribute(c) ==
  /\ video' = IF c.key = "flag" /\ Valid(c) THEN c.value ELSE video
  /\ text'  = IF c.key = "text" THEN c.value ELSE text

\* A payload is generated once per connection.
BrokenUpdateState(c, n) ==
  /\ payload' = IF c.kind = "HMAC" /\ payload = 0 THEN n ELSE payload
  /\ IF c.kind = "Attribute" THEN StoreAttribute(c)
     ELSE UNCHANGED <<video, text>>

\* What handling the n-th command changes: HMAC replaces the payload.
UpdateState(c, n) ==
  /\ payload' = IF c.kind = "HMAC" THEN n ELSE payload
  /\ IF c.kind = "Attribute" THEN StoreAttribute(c)
     ELSE UNCHANGED <<video, text>>

\* Attributes get no reply.
BrokenConnRecv ==
  /\ conn = "recv"
  /\ toConn # <<>> /\ toConn' = Tail(toConn)
  /\ UpdateState(Head(toConn), Len(asked))
  /\ IF Head(toConn).kind \in {"HMAC", "Ping", "Dot"}
     THEN conn' = "send" /\ reply' \in Replies(Head(toConn), payload')
     ELSE UNCHANGED <<conn, reply>>
  /\ UNCHANGED <<toFrame, frameVars>>

\* conn_receive.recv().await, then the command's handler up to its send.
\* Without a reply (DISCONNECT, a digest that does not match, a bad flag)
\* the task is back at recv.
ConnRecv ==
  /\ conn = "recv"
  /\ toConn # <<>> /\ toConn' = Tail(toConn)
  /\ UpdateState(Head(toConn), Len(asked))
  /\ LET responses == Replies(Head(toConn), payload')
     IN  \/ /\ responses # {}
            /\ conn' = "send" /\ reply' \in responses
         \/ responses = {} /\ UNCHANGED <<conn, reply>>
  /\ UNCHANGED <<toFrame, frameVars>>

\* The handler of CONNECT panics: the digest is not hex, or the hash file
\* cannot be read any more.
ConnPanics ==
  /\ conn = "recv" /\ conn' = "done"
  /\ toConn # <<>> /\ toConn' = Tail(toConn)
  /\ Head(toConn).kind = "Connect"
  /\ UNCHANGED <<toFrame, reply, stateVars, frameVars>>

\* The command task outlives the frame task.
BrokenConnRecvNone ==
  /\ conn = "recv" /\ frame = "done" /\ toConn = <<>>
  /\ UNCHANGED conn
  /\ UNCHANGED <<channelVars, reply, stateVars, frameVars>>

\* conn_receive.recv() yields None: frame_send was dropped.
ConnRecvNone ==
  /\ conn = "recv" /\ conn' = "done"
  /\ toConn = <<>> /\ frame = "done"
  /\ UNCHANGED <<channelVars, reply, stateVars, frameVars>>

\* conn_send.send(..).await.  Failing, because the frame task dropped
\* frame_receive, ends the task for Dot; handle_command goes on to recv.
ConnSend ==
  /\ conn = "send"
  /\ reply' = None
  /\ IF frame = "done"
     THEN /\ conn' = IF reply = "port" THEN "done" ELSE "recv"
          /\ UNCHANGED toFrame
     ELSE /\ HasRoom(toFrame)
          /\ toFrame' = Append(toFrame, reply)
          /\ conn' = "recv"
  /\ UNCHANGED <<toConn, stateVars, frameVars>>

-----------------------------------------------------------------------------

FrameTask == \/ FrameNext \/ FrameEnds \/ FrameSend \/ FrameRecv
             \/ FrameRecvNone \/ FrameWrite \/ FrameWriteFails

ConnTask == ConnRecv \/ ConnPanics \/ ConnRecvNone \/ ConnSend

Next == FrameTask \/ ConnTask

Spec == Init /\ [][Next]_vars

(***************************************************************************)
(* Fairness.  The tokio runtime runs every task that is woken.  The client *)
(* need never send another command nor close the connection, so FrameNext  *)
(* and FrameEnds get none; a write ends, if only by the socket's timeout.  *)
(***************************************************************************)
Fairness ==
  /\ WF_vars(FrameSend \/ FrameRecv \/ FrameRecvNone
             \/ FrameWrite \/ FrameWriteFails)
  /\ WF_vars(ConnTask)

FairSpec == Spec /\ Fairness
=============================================================================
