----------------------------- MODULE Negotiation -----------------------------
(***************************************************************************)
(* What the exchange of offers and answers promises (webrtc/main.go,       *)
(* webrtc/ws/client.go, frontend/src/App.js), without sockets, messages or *)
(* the page's chain of operations: each session is negotiated once, and    *)
(* the page, which has one RTCPeerConnection, moves on from session to     *)
(* session and never back.                                                 *)
(***************************************************************************)
EXTENDS Naturals

CONSTANT Session  \* sessions of the page with the server: 1, 2, ...

VARIABLES
  offers,   \* sessions the server has made an offer for
  remote,   \* the session whose offer the page has taken last, or 0
  created,  \* the session it has answered last, or 0
  local,    \* the session it is ready to receive, or 0
  answers,  \* answers under way to the server
  agreed    \* sessions whose answer the server has applied

vars == <<offers, remote, created, local, answers, agreed>>

Init ==
  /\ offers = {} /\ answers = {} /\ agreed = {}
  /\ remote = 0 /\ created = 0 /\ local = 0

Offer(s) ==
  /\ s \notin offers
  /\ offers' = offers \cup {s}
  /\ UNCHANGED <<remote, created, local, answers, agreed>>

\* The page takes the offer of a later session.
Take(s) ==
  /\ s \in offers /\ s > remote
  /\ remote' = s
  /\ UNCHANGED <<offers, created, local, answers, agreed>>

\* It answers the offer it has, once; the answer may get lost.
Answer(s) ==
  /\ s = remote /\ s > created
  /\ created' = s
  /\ answers' \in {answers, answers \cup {s}}
  /\ UNCHANGED <<offers, remote, local, agreed>>

\* It applies the answer it has created, if no other offer came in between.
Settle(s) ==
  /\ s = remote /\ s = created /\ s > local
  /\ local' = s
  /\ UNCHANGED <<offers, remote, created, answers, agreed>>

\* The server applies the answer to its own offer.
Agree(s) ==
  /\ s \in answers
  /\ answers' = answers \ {s}
  /\ agreed' = agreed \cup {s}
  /\ UNCHANGED <<offers, remote, created, local>>

Next == \E s \in Session :
          Offer(s) \/ Take(s) \/ Answer(s) \/ Settle(s) \/ Agree(s)

Spec == Init /\ [][Next]_vars
=============================================================================
