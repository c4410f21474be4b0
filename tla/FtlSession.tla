----------------------------- MODULE FtlSession -----------------------------
(***************************************************************************)
(* What an FTL client may expect of a connection to Lightspeed ingest: its *)
(* commands are taken one at a time, the next one only when the last was   *)
(* answered, and answered in the order they were sent, CONNECT with        *)
(* success only for the digest of the payload asked for last.  A command   *)
(* may stay unanswered, and the connection may close at any time.          *)
(***************************************************************************)
EXTENDS FtlCommands

VARIABLES
  asked,    \* the commands taken from the client
  answers,  \* the replies written back completely
  open      \* whether the connection is open

vars == <<asked, answers, open>>

\* The payload p is that of the last HMAC among the first n commands, or 0.
IsCurrent(p, n) ==
  /\ p \in 0..n
  /\ p > 0 => asked[p].kind = "HMAC"
  /\ \A i \in 1..n : asked[i].kind = "HMAC" => i <= p

TypeOK ==
  /\ asked \in Seq(FtlCommand) /\ answers \in Seq(Response)
  /\ Len(asked) \in {Len(answers), Len(answers) + 1}
  /\ open \in BOOLEAN

Init == asked = <<>> /\ answers = <<>> /\ open = TRUE

Ask(c) ==
  /\ open
  /\ Len(asked) = Len(answers)
  /\ asked' = Append(asked, c)
  /\ UNCHANGED <<answers, open>>

Answer(p) ==
  /\ open
  /\ Len(asked) = Len(answers) + 1
  /\ IsCurrent(p, Len(asked))
  /\ \E r \in Replies(asked[Len(asked)], p) : answers' = Append(answers, r)
  /\ UNCHANGED <<asked, open>>

Close ==
  /\ open
  /\ open' = FALSE
  /\ UNCHANGED <<asked, answers>>

Next == \/ \E c \in FtlCommand : Ask(c)
        \/ \E p \in Payload : Answer(p)
        \/ Close

Spec == Init /\ [][Next]_vars
=============================================================================
