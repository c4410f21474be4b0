--------------------------- MODULE FtlProperties ---------------------------
(* What is checked and proved of one FTL connection.                       *)
EXTENDS FtlConnection

\* Every variable has its type.
TypeOK ==
  /\ frame \in FrameLocation /\ conn \in ConnLocation
  /\ held \in FtlCommand \cup {NoCommand}
  /\ writing \in Response \cup {None} /\ left \in 0..3
  /\ reply \in Response \cup {None}
  /\ toConn \in Seq(FtlCommand) /\ toFrame \in Seq(Response)
  /\ payload \in Payload
  /\ video \in {"true", "false"} /\ text \in Value \cup {None}
  /\ asked \in Seq(FtlCommand) /\ Len(asked) <= MaxCommands
  /\ answers \in Seq(Response)

\* Where the one command under way is: the two tasks alternate, so that
\* neither channel ever holds two entries, no send ever waits for room or
\* fails, and no command is read ahead of the reply to the one before.
LockStep ==
  /\ frame = "next" => conn = "recv" /\ toConn = <<>> /\ toFrame = <<>>
  /\ frame = "send" => conn = "recv" /\ toConn = <<>> /\ toFrame = <<>>
  /\ frame = "recv" => Len(toConn) + Len(toFrame)
                         + (IF conn = "send" THEN 1 ELSE 0) <= 1
  /\ frame \in {"write", "done"} => toConn = <<>> /\ toFrame = <<>>
                                    /\ conn # "send"

\* What an FTL client may expect, the connection being open while the frame
\* task owns the socket.
Session == INSTANCE FtlSession WITH open <- frame # "done"

\* Commands are answered one by one and in order, CONNECT with success only
\* for the last payload, whatever is pipelined and however the tasks end.
ImplementsSession == Session!Spec

\* Commands that reached the command task: it has the last one asked unless
\* the frame task or the channel still holds it.
Handled ==
  IF frame = "send" \/ toConn # <<>> THEN Len(asked) - 1 ELSE Len(asked)

\* Whether the n-th command gives key a value.
Sets(n, key) ==
  asked[n].kind = "Attribute" /\ asked[n].key = key /\ Valid(asked[n])

\* v is the last value the first n commands give to key, or the default.
IsLastValue(v, n, key, default) ==
  IF \A i \in 1..n : ~Sets(i, key) THEN v = default
  ELSE \E i \in 1..n : /\ Sets(i, key) /\ v = asked[i].value
                       /\ \A j \in 1..n : Sets(j, key) => j <= i

\* The state the task reports on Dot is what the commands so far say: the
\* last payload, and for each attribute its last acceptable value.
StateFollowsCommands ==
  conn # "done" =>
    /\ Session!IsCurrent(payload, Handled)
    /\ IsLastValue(video, Handled, "flag", "false")
    /\ IsLastValue(text, Handled, "text", None)

\* The command under way.
Last == asked[Len(asked)]

\* Both tasks wait for the other for good, the socket still open.
Stuck == frame = "recv" /\ conn = "recv" /\ toConn = <<>> /\ toFrame = <<>>

\* The only way to get stuck is a command that has no reply.
StuckOnlyOnSilence ==
  Stuck => Replies(Last, payload) = {}

-----------------------------------------------------------------------------
(* The inductive invariant: why the properties above hold *)

\* There is one command under way at most, and it is the last one asked.
OneUnderWay ==
  /\ frame = "next" => Len(asked) = Len(answers)
  /\ frame \in {"send", "recv", "write"} => Len(asked) = Len(answers) + 1
  /\ frame = "done" => Len(asked) \in {Len(answers), Len(answers) + 1}
  /\ frame = "send" => held = Last
  /\ frame = "recv" => \/ toConn = <<>> /\ toFrame = <<>>
                       \/ toConn = <<Last>> /\ toFrame = <<>> /\ conn = "recv"
                       \/ toConn = <<>> /\ toFrame # <<>> /\ conn = "recv"
  /\ frame # "recv" => toConn = <<>> /\ toFrame = <<>>
  /\ frame \in {"next", "send", "write"} => conn = "recv"
  /\ conn = "send" => frame = "recv" /\ toConn = <<>> /\ toFrame = <<>>

\* The reply to it, wherever it is, is the right one.
ReplyIsRight ==
  /\ conn = "send" => reply \in Replies(Last, payload)
  /\ toFrame # <<>> => \E r \in Replies(Last, payload) : toFrame = <<r>>
  /\ frame = "write" => writing \in Replies(Last, payload)

FtlInvariant ==
  /\ TypeOK /\ OneUnderWay /\ ReplyIsRight /\ StuckOnlyOnSilence
  /\ Session!IsCurrent(payload, Handled)

-----------------------------------------------------------------------------
(* Liveness *)

\* A command that has a reply is answered, or the connection ends.
AnsweredOrEnds == (frame = "send" /\ Replies(held, payload) # {})
                    ~> frame \in {"next", "done"}

\* Neither task outlives the other: no connection is left half dead.
TasksEndTogether == (frame = "done" \/ conn = "done")
                      ~> (frame = "done" /\ conn = "done")

-----------------------------------------------------------------------------
(* What the repository says and the code does not keep *)

\* "if we do not respond at all the client stops sending for some reason"
\* (connection.rs): every attribute that was read is answered, unless the
\* connection ends.
EveryAttributeIsAnswered ==
  (frame = "send" /\ held.kind = "Attribute") ~> frame \in {"next", "done"}
=============================================================================
