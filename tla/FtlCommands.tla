---------------------------- MODULE FtlCommands ----------------------------
(***************************************************************************)
(* The FTL commands as the decoder of Lightspeed ingest hands them on      *)
(* (ingest/src/ftl_codec.rs) and the replies connection.rs has for them.   *)
(*                                                                         *)
(* A payload - the random string of an HMAC reply - is named by the        *)
(* position of its HMAC command on the connection; 0 names the empty       *)
(* payload of a connection that has not asked for one.  A CONNECT carries  *)
(* the payload whose digest under the stream key it sends, or WrongKey, or *)
(* NotHex.  "flag" stands for the attributes Video and Audio, "text" for   *)
(* the eleven that are stored as they come, "unknown" for all others.      *)
(***************************************************************************)
EXTENDS Naturals, Sequences

CONSTANT MaxCommands  \* bound: commands read from one connection

ASSUME MaxCommandsAssumption == MaxCommands \in Nat

Payload  == 0..MaxCommands
WrongKey == MaxCommands + 1
NotHex   == MaxCommands + 2

Key   == {"flag", "text", "unknown"}
Value == {"true", "false", "other"}

FtlCommand ==
       [kind : {"HMAC", "Ping", "Dot", "Disconnect"}]
  \cup [kind : {"Connect"}, digest : Payload \cup {WrongKey, NotHex}]
  \cup [kind : {"Attribute"}, key : Key, value : Value]

\* What is written back: "200 <payload>\n", "200\n", "", "201\n" and
\* "200 hi. Use UDP port 65535\n".
Response == {"payload", "ok", "empty", "pong", "port"}

\* The strings the reply is made of, each of which is one write.
Items(response) == IF response = "payload" THEN 3 ELSE 1

\* A flag takes only "true" and "false".
Valid(c) == c.key = "flag" => c.value # "other"

\* The replies the handler may have for c when the current payload is p;
\* none is sent for the other commands.
Replies(c, p) ==
  CASE c.kind = "HMAC"      -> {"payload"}
    [] c.kind = "Ping"      -> {"pong"}
    [] c.kind = "Dot"       -> {"port"}
    [] c.kind = "Connect"   -> IF c.digest = p THEN {"ok"} ELSE {}
    [] c.kind = "Attribute" -> IF Valid(c) THEN {"empty"} ELSE {}
    [] OTHER                -> {}
=============================================================================
