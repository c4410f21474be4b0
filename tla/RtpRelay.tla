------------------------------ MODULE RtpRelay ------------------------------
(***************************************************************************)
(* The loop of webrtc/main.go that reads RTP packets from a UDP socket and *)
(* writes them to the two tracks all viewers share.  Any error of a read   *)
(* or a write is a panic, and the end of the process.                      *)
(*                                                                         *)
(* The socket and the tracks are not part of the repository.  A track      *)
(* writes a packet to each sender bound to it, one after the other, and    *)
(* then reports the errors there were.  Each PeerConnection binds its two  *)
(* senders when it is connected and unbinds them when it is closed; its    *)
(* transport may fail before that.                                         *)
(***************************************************************************)
EXTENDS Naturals, Sequences, Functions

CONSTANTS
  Viewer,      \* PeerConnections
  Sent,        \* the kinds of datagrams that are sent to it
  Buffer,      \* datagrams the UDP socket holds
  MaxPackets   \* bound: datagrams the socket takes over the run

VARIABLES
  loop,      \* where the loop is: "read", "write", or "panic" once it is over
  packet,    \* the number of the datagram in inboundRTPPacket
  writing,   \* senders the track's Write has still to serve
  errors,    \* whether one of those it has served failed
  socket,    \* numbers of the datagrams that wait to be read
  sender,    \* the sender of each viewer on each track
  broken,    \* viewers whose transport has failed
  arrived,   \* the datagrams the socket has taken; a number is an index here
  received   \* history: the numbers each viewer has received on each track

vars == <<loop, packet, writing, errors, socket, sender, broken, arrived,
          received>>

Track == {"video", "audio"}

\* What Unmarshal finds: the payload type, 96, 97 or another one, or "none" if
\* it fails before it gets there; and whether it gets to the end.
Datagram == [type : Track \cup {"other"}, whole : BOOLEAN]
              \cup [type : {"none"}, whole : {FALSE}]

ASSUME SentAssumption == Sent \subseteq Datagram

ASSUME BoundsAssumption == Buffer \in Nat /\ MaxPackets \in Nat

Bound(t) == {v \in Viewer : sender[t][v] = "bound"}

Init ==
  /\ loop = "read" /\ packet = 0 /\ writing = {} /\ errors = FALSE
  /\ socket = <<>> /\ arrived = <<>>
  /\ sender = [t \in Track |-> [v \in Viewer |-> "new"]] /\ broken = {}
  /\ received = [t \in Track |-> [v \in Viewer |-> <<>>]]

-----------------------------------------------------------------------------
(* The loop *)

\* One rtp.Packet is used for all datagrams, and keeps the payload type of the
\* last one that had any.
BrokenPayloadType(n) ==
  IF n > 1 /\ arrived[n].type = "none" THEN arrived[n - 1].type
                                       ELSE arrived[n].type

\* What is not video is audio.
BrokenElse(n) == IF arrived[n].type = "video" THEN "video" ELSE "audio"

\* The payload type in a fresh rtp.Packet after Unmarshal, whose error is
\* ignored.
PayloadType(n) == arrived[n].type

\* ReadFrom, Unmarshal and the choice of the track; its Write unmarshals again,
\* and fails at once on a packet that is not whole.
Read ==
  /\ loop = "read" /\ socket # <<>>
  /\ socket' = Tail(socket) /\ packet' = Head(socket)
  /\ LET type == PayloadType(packet')
     IN  IF type \in Track
         THEN IF arrived[packet'].whole
              THEN loop' = "write" /\ writing' = Bound(type)
              ELSE loop' = "panic" /\ UNCHANGED writing
         ELSE UNCHANGED <<loop, writing>>
  /\ UNCHANGED <<errors, sender, broken, arrived, received>>

ReadFails ==
  /\ loop = "read"
  /\ loop' = "panic" /\ packet' = 0
  /\ UNCHANGED <<writing, errors, socket, sender, broken, arrived, received>>

\* Write goes to the next sender.  A broken transport may report an error.
WriteTo(v) ==
  /\ loop = "write" /\ v \in writing
  /\ writing' = writing \ {v}
  /\ IF v \in broken
     THEN errors' \in {errors, TRUE} /\ UNCHANGED received
     ELSE /\ received' = [received EXCEPT
                            ![PayloadType(packet)][v] = Append(@, packet)]
          /\ UNCHANGED errors
  /\ UNCHANGED <<loop, packet, socket, sender, broken, arrived>>

\* On an error the loop ends, and the process goes on.
BrokenWriteReturns ==
  /\ loop = "write" /\ writing = {}
  /\ loop' = IF errors THEN "stopped" ELSE "read"
  /\ UNCHANGED <<packet, writing, errors, socket, sender, broken, arrived,
                 received>>

\* Write returns; an error is a panic.
WriteReturns ==
  /\ loop = "write" /\ writing = {}
  /\ loop' = IF errors THEN "panic" ELSE "read"
  /\ UNCHANGED <<packet, writing, errors, socket, sender, broken, arrived,
                 received>>

-----------------------------------------------------------------------------
(* The socket and the viewers, until the process ends *)

\* The socket takes a datagram; one that finds it full is gone.
Arrive(d) ==
  /\ loop # "panic"
  /\ Len(socket) < Buffer /\ Len(arrived) < MaxPackets
  /\ arrived' = Append(arrived, d)
  /\ socket' = Append(socket, Len(arrived'))
  /\ UNCHANGED <<loop, packet, writing, errors, sender, broken, received>>

\* Binding and unbinding wait for a Write of the track.
SetSender(t, v, state) ==
  /\ loop # "panic" /\ ~(loop = "write" /\ PayloadType(packet) = t)
  /\ sender' = [sender EXCEPT ![t][v] = state]
  /\ UNCHANGED <<loop, packet, writing, errors, socket, broken, arrived,
                 received>>

Bind(t, v) == sender[t][v] = "new" /\ SetSender(t, v, "bound")

Unbind(t, v) == sender[t][v] = "bound" /\ SetSender(t, v, "unbound")

\* The transport fails, or the viewer closes it.
Break(v) ==
  /\ loop # "panic" /\ v \notin broken
  /\ broken' = broken \cup {v}
  /\ UNCHANGED <<loop, packet, writing, errors, socket, sender, arrived,
                 received>>

-----------------------------------------------------------------------------

WriteStep == (\E v \in Viewer : WriteTo(v)) \/ WriteReturns

Next == \/ Read \/ ReadFails \/ WriteStep
        \/ \E d \in Sent : Arrive(d)
        \/ \E v \in Viewer : \/ Break(v)
                             \/ \E t \in Track : Bind(t, v) \/ Unbind(t, v)

\* The loop is main itself, and a track's Write does not block.
Spec == Init /\ [][Next]_vars /\ WF_vars(Read) /\ WF_vars(WriteStep)

-----------------------------------------------------------------------------
(* Properties *)

\* Every variable has its type, and the socket holds what arrived last.
TypeOK ==
  /\ loop \in {"read", "write", "panic"}
  /\ packet \in 0..MaxPackets
  /\ writing \subseteq Viewer /\ broken \subseteq Viewer /\ errors \in BOOLEAN
  /\ arrived \in Seq(Datagram) /\ Len(arrived) <= MaxPackets
  /\ socket \in Seq(DOMAIN arrived) /\ Len(socket) <= Buffer
  /\ \A i \in DOMAIN socket : socket[i] = Len(arrived) - Len(socket) + i
  /\ sender \in [Track -> [Viewer -> {"new", "bound", "unbound"}]]
  /\ received \in [Track -> [Viewer -> Seq(DOMAIN arrived)]]

\* The packets of track t that can be relayed.
Good(t) == {n \in DOMAIN arrived : arrived[n].whole /\ arrived[n].type = t}

\* What a viewer receives on a track is a run of that track's packets, in the
\* order in which they arrived, without a gap and without any other datagram;
\* viewers that come, go or fail in the middle of a Write change nothing in it.
ViewersSeeOneRun ==
  \A t \in Track, v \in Viewer :
    LET got == received[t][v]
    IN  got # <<>> =>
          /\ Range(got) = {n \in Good(t) : got[1] <= n /\ n <= got[Len(got)]}
          /\ \A i \in 1..Len(got) - 1 : got[i] < got[i + 1]

\* The process ends only if a read fails, if a packet of one of the tracks is
\* damaged behind its payload type, or if it is written to a viewer whose
\* transport has failed and that is still bound; other malformed datagrams,
\* and viewers that have unbound, end nobody's session.
EndsOnlyOnErrors ==
  (loop = "panic" /\ packet # 0) =>
    /\ arrived[packet].type \in Track
    /\ arrived[packet].whole => Bound(arrived[packet].type) \cap broken # {}

\* The datagrams are read one after the other in the order of their arrival;
\* a Write is under way only for a whole packet, and goes to bound senders; an
\* error it has met is that of a broken transport, and is not forgotten.
LoopIsInOrder ==
  /\ loop # "panic" => packet = Len(arrived) - Len(socket)
  /\ loop = "read" => writing = {} /\ ~errors
  /\ loop = "write" =>
       /\ packet \in Good(PayloadType(packet))
       /\ PayloadType(packet) \in Track
       /\ writing \subseteq Bound(PayloadType(packet))
       /\ errors => Bound(PayloadType(packet)) \cap broken # {}

\* Viewer v has still to be served the packet that is being written to track t.
Pending(t, v) ==
  loop = "write" /\ PayloadType(packet) = t /\ v \in writing

\* A viewer has nothing before it is bound and nothing that was not read; and
\* as long as it is there, it has everything since the first it received but
\* the packet that is about to be written to it.
NothingIsSkipped ==
  \A t \in Track, v \in Viewer :
    LET got  == received[t][v]
        last == got[Len(got)]
    IN  /\ sender[t][v] = "new" => got = <<>>
        /\ (loop # "panic" /\ got # <<>>) =>
             /\ last <= packet
             /\ Pending(t, v) => last < packet
             /\ v \in Bound(t) \ broken =>
                  \A n \in Good(t) :
                    (last < n /\ n <= packet) => n = packet /\ Pending(t, v)

\* What the steps of the loop and of the viewers keep.
RelayInvariant ==
  TypeOK /\ LoopIsInOrder /\ NothingIsSkipped
    /\ ViewersSeeOneRun /\ EndsOnlyOnErrors

\* A packet the socket has taken reaches every viewer bound to its track,
\* unless that viewer goes or the process ends.
PacketsAreRelayed ==
  \A v \in Viewer, n \in 1..MaxPackets :
    (n \in Range(socket) /\ \E t \in Track : n \in Good(t) /\ v \in Bound(t))
      ~> \/ \E t \in Track : n \in Range(received[t][v])
         \/ \E t \in Track : n \in Good(t) /\ v \notin Bound(t)
         \/ v \in broken \/ loop = "panic"
=============================================================================
