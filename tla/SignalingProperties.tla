------------------------- MODULE SignalingProperties -------------------------
(* What is checked of offer, answer and candidates.                         *)
EXTENDS Signaling, SocketProperties

\* Every variable has its type.
TypeOK ==
  /\ SocketTypeOK
  /\ handler \in [Socket -> HandlerLocation]
  /\ known \cup dropped \cup described \subseteq Socket
  /\ gathered \in [Socket -> 0..MaxServerCandidates]
  /\ down \in [Socket -> Seq({"offer", "candidate"})]
  /\ up \in [Socket -> Seq([event : {"answer", "candidate"}, of : Socket])]
  /\ chain \in Seq([op : Operation, of : Socket, early : BOOLEAN])
  /\ signaling \in {"stable", "have-remote-offer"}
  /\ {remote, created, local} \subseteq 0..MaxSockets
  /\ found \in 0..MaxPageCandidates
  /\ offered \subseteq Socket
  /\ \A o \in lost : o.op = "addIceCandidate"
  /\ failed \in [Socket -> SUBSET Socket]

\* The answers under way to the server on s.
Answers(s) == {i \in DOMAIN up[s] : up[s][i].event = "answer"}

\* A server PeerConnection only ever sees the answer to its own offer, and
\* sees it once: an answer that is created while the socket is replaced does
\* not go to the new one.
AnswersMatchOffers == \A s \in Socket :
  \A i, j \in Answers(s) : up[s][i].of = s /\ s \notin described /\ i = j

\* ReadLoop never fails on a candidate of the negotiation it serves: only on
\* one of an earlier negotiation, which the page still sent after it had
\* replaced the socket.
OnlyOldCandidatesFail == \A s \in Socket : \A n \in failed[s] : n < s

\* A server candidate that comes after its offer is never lost, however
\* slowly the page works off its operations.
OnlyEarlyCandidatesAreLost == \A o \in lost : o.early

\* The page has nothing left to do, and its socket is open.
Settled == /\ socket > 0 /\ chain = <<>> /\ ready[socket] = "open"
           /\ down[socket] = <<>> /\ up[socket] = <<>>

\* Then both sides agree: the server has an answer just when the page has the
\* offer, and the page's two descriptions are those of this negotiation.
PeersAgree == (Settled /\ handler[socket] = "read") =>
  /\ socket \in described <=> socket \in offered
  /\ socket \in offered => /\ remote = socket /\ local = socket
                           /\ signaling = "stable"

\* Whatever the sockets, the messages under way and the page's chain do, each
\* session is offered, taken, answered, settled and agreed on in this order and
\* once, and the page never goes back to an earlier session.
Exchange == INSTANCE Negotiation
              WITH Session <- Socket,
                   offers <- {s \in Socket : handler[s] \in {"read", "done"}}
                               \ dropped,
                   answers <- {s \in Socket : Answers(s) # {}},
                   agreed <- described

ImplementsNegotiation == Exchange!Spec

\* The server gets and applies the page's answer as long as the connection is
\* open, with two exceptions only: websocketHandler looked its client up before
\* the hub had added it, and sent no offer; or it gave up on an old candidate.
ViewersAreAnswered == \A s \in Socket :
  (handler[s] # "none" /\ ready[s] = "open")
    ~> (s \in described \cup dropped \/ ready[s] = "closed" \/ failed[s] # {})

-----------------------------------------------------------------------------
(* The inductive invariant: why the properties above hold *)

\* The negotiations of which the page has still to run an operation.
Pending(op) == {chain[i].of : i \in {j \in DOMAIN chain : chain[j].op = op}}

\* The places of the chain that hold operations of a negotiation's first part:
\* all but setLocalDescription, which is put at the end of the chain later.
FirstPart(i) == chain[i].op # "setLocalDescription"

\* What has reached the page came from a handler that has sent its offer, over
\* a socket that was open.
OfferIsSent(s) ==
  /\ \A i, j \in DOMAIN down[s] :
       (down[s][i] = "offer" /\ down[s][j] = "offer") =>
         /\ i = j /\ handler[s] \in {"read", "done"}
         /\ s \notin offered \cup dropped
  /\ s \in offered => /\ handler[s] \in {"read", "done"} /\ s \notin dropped
                      /\ ready[s] \in {"open", "closed"}
  /\ s \in dropped => handler[s] \in {"read", "done"}

OffersAreSent == \A s \in Socket : OfferIsSent(s)

\* Each operation of a negotiation is in the chain once.
OperationsAreOnce ==
  /\ \A i \in DOMAIN chain :
       /\ 1 <= chain[i].of /\ chain[i].of <= socket
       /\ chain[i].op # "addIceCandidate" => chain[i].of \in offered
  /\ \A i, j \in DOMAIN chain :
       (chain[i].op = chain[j].op /\ chain[i].of = chain[j].of)
         => i = j \/ chain[i].op = "addIceCandidate"

\* The chain is worked off in the order of the negotiations, their last parts
\* in the same order, and the page's three marks follow it.
ChainIsInOrder ==
  /\ \A i, j \in DOMAIN chain :
       (i < j /\ (FirstPart(i) <=> FirstPart(j))) => chain[i].of <= chain[j].of
  /\ local <= created /\ created <= remote /\ remote <= socket
  /\ \A i \in DOMAIN chain :
       IF FirstPart(i) THEN remote <= chain[i].of
                       ELSE local < chain[i].of /\ chain[i].of <= created
  /\ remote \notin Pending("setRemoteDescription")
  /\ created \notin Pending("createAnswer")

\* createAnswer runs right after the setRemoteDescription it belongs to.
AnswersFollowOffers ==
  /\ \A i \in DOMAIN chain :
       /\ chain[i].op = "createAnswer" =>
            IF i = 1 THEN remote = chain[i].of
            ELSE chain[i - 1] = Do("setRemoteDescription", chain[i].of)
       /\ chain[i].op = "setRemoteDescription" =>
            i < Len(chain) /\ chain[i + 1] = Do("createAnswer", chain[i].of)
  /\ created < remote => chain # <<>> /\ chain[1] = Do("createAnswer", remote)
  /\ local < created => created \in Pending("setLocalDescription")
  /\ signaling = "stable" <=> remote = local

\* An offer the page has received was taken, or will be; so the candidates
\* that came after it find it.
OffersAreTaken ==
  /\ \A s \in offered : s <= remote \/ s \in Pending("setRemoteDescription")
  /\ {remote, created, local} \subseteq offered \cup {0}
  /\ \A i \in DOMAIN chain :
       (chain[i].op = "addIceCandidate" /\ ~chain[i].early)
         => \/ chain[i].of <= remote
            \/ \E j \in 1..i - 1 :
                 chain[j] = Do("setRemoteDescription", chain[i].of)

\* There is no answer before createAnswer has run, and one afterwards, unless
\* the socket was closed.
AnswersAreCreated ==
  /\ \A s \in Socket :
       (s > created \/ s \notin offered \/ s \in Pending("createAnswer"))
         => Answers(s) = {} /\ s \notin described
  /\ (created > 0 /\ ready[created] = "open")
       => created \in described \/ Answers(created) # {}

\* A candidate of the page goes to a socket of its own negotiation after the
\* answer, and to no earlier one.
CandidatesFollowAnswers == \A s \in Socket : \A i \in DOMAIN up[s] :
  up[s][i].event = "candidate" =>
    /\ up[s][i].of <= s
    /\ up[s][i].of = s => \/ s \in described
                          \/ \E j \in 1..i - 1 : up[s][j].event = "answer"

SignalingInvariant ==
  /\ SocketInvariant /\ TypeOK
  /\ OffersAreSent /\ OperationsAreOnce /\ ChainIsInOrder /\ AnswersFollowOffers
  /\ OffersAreTaken /\ AnswersAreCreated /\ CandidatesFollowAnswers
  /\ AnswersMatchOffers /\ OnlyOldCandidatesFail /\ OnlyEarlyCandidatesAreLost
=============================================================================
