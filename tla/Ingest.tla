------------------------------- MODULE Ingest -------------------------------
(***************************************************************************)
(* The ingest process (ingest/src/main.rs): it chooses its stream key,     *)
(* binds the port, and accepts clients, each of which gets tasks of its    *)
(* own.  The key is StreamKey's, and every step of StreamKey is one of the *)
(* process.  A client is what FtlConnection has as a whole; here it counts *)
(* when it is accepted and which key its CONNECT is admitted with.         *)
(***************************************************************************)
EXTENDS StreamKey

CONSTANT Conn  \* clients connected at the same time

VARIABLES
  listening,  \* whether the port is bound
  conn,       \* where each client is
  admitted    \* clients whose CONNECT was accepted, with the key that did it

connVars   == <<listening, conn, admitted>>
ingestVars == <<vars, connVars>>

ConnLocation == {"none", "waiting", "live"}

Quiet == [c \in Conn |-> "none"]

IngestInit == Init /\ listening = FALSE /\ conn = Quiet /\ admitted = {}

-----------------------------------------------------------------------------

\* Every task and every socket ends with the process.
EndConnections == listening' = FALSE /\ conn' = Quiet /\ admitted' = {}

\* read_stream_key(true, ...), a crash, the operator: whatever StreamKey does.
KeyStep ==
  /\ Next
  /\ IF process' = "down" THEN EndConnections ELSE UNCHANGED connVars

\* The port is bound at once, before there is a key.
BrokenBind ==
  /\ process # "down" /\ ~listening
  /\ listening' = TRUE
  /\ UNCHANGED <<vars, conn, admitted>>

\* TcpListener::bind(...).await, after the key was chosen.
Bind ==
  /\ process = "up" /\ ~listening
  /\ listening' = TRUE
  /\ UNCHANGED <<vars, conn, admitted>>

\* The address is in use: "?" ends the process, whose key is out by then.
BindFails == ~listening /\ Stop /\ EndConnections

\* A client connects: the kernel keeps it until it is accepted.
Arrive(c) ==
  /\ listening /\ conn[c] = "none"
  /\ conn' = [conn EXCEPT ![c] = "waiting"]
  /\ UNCHANGED <<vars, listening, admitted>>

\* The loop waits for the connection it has accepted.
BrokenAccept(c) ==
  /\ listening /\ conn[c] = "waiting"
  /\ \A d \in Conn : conn[d] # "live"
  /\ conn' = [conn EXCEPT ![c] = "live"]
  /\ UNCHANGED <<vars, listening, admitted>>

\* listener.accept().await and tokio::spawn: the loop goes on at once.
Accept(c) ==
  /\ listening /\ conn[c] = "waiting"
  /\ conn' = [conn EXCEPT ![c] = "live"]
  /\ UNCHANGED <<vars, listening, admitted>>

\* accept fails: "?" ends the process and with it every client.
AcceptFails == listening /\ Stop /\ EndConnections

Ends(c) ==
  /\ conn' = [conn EXCEPT ![c] = "none"]
  /\ admitted' = {a \in admitted : a.conn # c}
  /\ UNCHANGED <<vars, listening>>

\* CONNECT reads the key from the file again; without the file the unwrap
\* panics, which ends the tasks of this client only.
Connect(c) ==
  /\ conn[c] = "live"
  /\ IF Readable(hash)
     THEN /\ admitted' = admitted \cup {[conn |-> c, key |-> Decode(hash)]}
          /\ UNCHANGED <<vars, listening, conn>>
     ELSE Ends(c)

\* The client hangs up.
Leave(c) == conn[c] # "none" /\ Ends(c)

Client(c) == Arrive(c) \/ Accept(c) \/ Connect(c) \/ Leave(c)

IngestNext == \/ KeyStep \/ Bind \/ BindFails \/ AcceptFails
              \/ \E c \in Conn : Client(c)

IngestSpec == IngestInit /\ [][IngestNext]_ingestVars

\* accept takes the clients in the order in which they came.
FairIngestSpec == IngestSpec /\ \A c \in Conn : WF_ingestVars(Accept(c))

-----------------------------------------------------------------------------
(* Properties *)

\* Every variable has its type, those of StreamKey included.
IngestTypeOK ==
  /\ TypeOK
  /\ listening \in BOOLEAN /\ conn \in [Conn -> ConnLocation]
  /\ admitted \subseteq [conn : Conn, key : Keys]

\* Whoever streams was admitted with the key that the running process has
\* printed: not with that of the process before it, with one that is being
\* replaced, or with a file that is half written.
OnlyPrintedKeyAdmits == \A a \in admitted : a.key = printed

\* A client is accepted whatever the others do, unless it or the process ends.
ClientsAreAccepted == \A c \in Conn : conn[c] = "waiting" ~> conn[c] # "waiting"

\* Why OnlyPrintedKeyAdmits holds: there are clients only once the process
\* listens, and it listens only after everything was written and printed.
ClientsAfterKey ==
  /\ listening => process = "up"
  /\ \A c \in Conn : conn[c] # "none" => listening
  /\ admitted # {} => listening

IngestInvariant ==
  KeyInvariant /\ IngestTypeOK /\ ClientsAfterKey /\ OnlyPrintedKeyAdmits
=============================================================================
