-------------------------- MODULE SignalingProofs --------------------------
(* Proofs about offer, answer and candidates, for any number of sockets    *)
(* and candidates.                                                         *)
EXTENDS SignalingProperties, SocketProofs, SequenceTheorems

\* What remains of a queue whose first element is taken.
LEMMA TakenProperties ==
  ASSUME NEW S, NEW q \in Seq(S), q # <<>>
  PROVE  /\ Tail(q) \in Seq(S)
         /\ Len(q) \in Nat /\ Len(q) >= 1 /\ Len(Tail(q)) = Len(q) - 1
         /\ DOMAIN q = 1..Len(q) /\ DOMAIN Tail(q) = 1..(Len(q) - 1)
         /\ \A i \in 1..(Len(q) - 1) : Tail(q)[i] = q[i + 1]
         /\ Head(q) = q[1] /\ q[1] \in S
  BY HeadTailProperties, LenProperties, EmptySeq

\* A queue one element is put in.
LEMMA PutProperties ==
  ASSUME NEW S, NEW q \in Seq(S), NEW e \in S
  PROVE  /\ Append(q, e) \in Seq(S)
         /\ Len(q) \in Nat /\ Len(Append(q, e)) = Len(q) + 1
         /\ DOMAIN q = 1..Len(q) /\ DOMAIN Append(q, e) = 1..(Len(q) + 1)
         /\ \A i \in 1..Len(q) : Append(q, e)[i] = q[i]
         /\ Append(q, e)[Len(q) + 1] = e
  BY AppendProperties, LenProperties

\* A queue two elements are put in.
LEMMA PutTwoProperties ==
  ASSUME NEW S, NEW q \in Seq(S), NEW d \in S, NEW e \in S
  PROVE  /\ q \o <<d, e>> \in Seq(S)
         /\ Len(q) \in Nat /\ Len(q \o <<d, e>>) = Len(q) + 2
         /\ DOMAIN q = 1..Len(q) /\ DOMAIN (q \o <<d, e>>) = 1..(Len(q) + 2)
         /\ \A i \in 1..Len(q) : (q \o <<d, e>>)[i] = q[i]
         /\ (q \o <<d, e>>)[Len(q) + 1] = d
         /\ (q \o <<d, e>>)[Len(q) + 2] = e
<1>1. <<d, e>> \in Seq(S) /\ Len(<<d, e>>) = 2
  OBVIOUS
<1> QED BY <1>1, ConcatProperties, LenProperties

\* A queue whose first element is taken and another is put in.
LEMMA TakenAndPutProperties ==
  ASSUME NEW S, NEW q \in Seq(S), q # <<>>, NEW e \in S
  PROVE  /\ Tail(q) \o <<e>> \in Seq(S)
         /\ Len(q) \in Nat /\ Len(q) >= 1 /\ Len(Tail(q) \o <<e>>) = Len(q)
         /\ DOMAIN q = 1..Len(q) /\ DOMAIN (Tail(q) \o <<e>>) = 1..Len(q)
         /\ \A i \in 1..(Len(q) - 1) : (Tail(q) \o <<e>>)[i] = q[i + 1]
         /\ (Tail(q) \o <<e>>)[Len(q)] = e
         /\ Head(q) = q[1] /\ q[1] \in S
<1>1. <<e>> \in Seq(S) /\ Len(<<e>>) = 1 /\ <<e>>[1] = e
  OBVIOUS
<1> DEFINE t == Tail(q)
           r == t \o <<e>>
<1>2. /\ t \in Seq(S) /\ Len(q) \in Nat /\ Len(q) >= 1 /\ Len(t) = Len(q) - 1
      /\ \A i \in 1..(Len(q) - 1) : t[i] = q[i + 1]
      /\ DOMAIN q = 1..Len(q) /\ Head(q) = q[1] /\ q[1] \in S
  BY TakenProperties
<1> HIDE DEF t
<1>3. /\ r \in Seq(S) /\ Len(r) = Len(q) /\ DOMAIN r = 1..Len(q)
      /\ \A i \in 1..(Len(q) - 1) : r[i] = t[i]
      /\ r[Len(q)] = e
  BY <1>1, <1>2, ConcatProperties, LenProperties
<1> HIDE DEF r
<1>4. /\ r \in Seq(S) /\ Len(r) = Len(q) /\ DOMAIN r = 1..Len(q)
      /\ \A i \in 1..(Len(q) - 1) : r[i] = q[i + 1]
      /\ r[Len(q)] = e
  BY <1>2, <1>3
<1> QED BY <1>2, <1>4 DEF r, t

\* A place is the last one, or one of those before it.
LEMMA LastPlace ==
  ASSUME NEW n \in Nat, NEW i \in 1..n
  PROVE  IF i = n THEN i \notin 1..(n - 1) ELSE i \in 1..(n - 1)
OBVIOUS

-----------------------------------------------------------------------------
(* What the chain looks like after each of its steps *)

\* What a place of the chain holds.
ChainItem == [op : Operation, of : Socket, early : BOOLEAN]

\* What the invariant says about the chain and the page's descriptions.
ChainIsSound == /\ OperationsAreOnce /\ ChainIsInOrder
                /\ AnswersFollowOffers /\ OffersAreTaken

\* The types the lemmas on the chain need.
ChainTyped ==
  /\ chain \in Seq(ChainItem) /\ offered \subseteq Socket /\ socket \in Nat
  /\ remote \in Nat /\ created \in Nat /\ local \in Nat
  /\ signaling \in {"stable", "have-remote-offer"}

\* TypeOK says so.
LEMMA TypesOfChain == TypeOK => ChainTyped
BY MaxSocketsAssumption DEF TypeOK, SocketTypeOK, ChainTyped, ChainItem

\* What is pending, now and in the next state.
LEMMA PendingIs ==
  \A op, s : /\ s \in Pending(op) <=>
                  \E i \in DOMAIN chain : chain[i].op = op /\ chain[i].of = s
             /\ s \in Pending(op)' <=>
                  \E i \in DOMAIN chain' : chain'[i].op = op /\ chain'[i].of = s
BY DEF Pending

\* An operation that is put in the chain is typed.
LEMMA DoIsItem ==
  ASSUME NEW op \in Operation, NEW s \in Socket
  PROVE  /\ Do(op, s) \in ChainItem /\ Do(op, s).op = op /\ Do(op, s).of = s
         /\ Do(op, s).early = FALSE
BY DEF Do, ChainItem

\* Two equal operations belong to the same negotiation.
LEMMA DoOf ==
  \A op, s : Do(op, s).op = op /\ Do(op, s).of = s /\ ~Do(op, s).early
BY DEF Do

\* Every place of the chain holds an item.
LEMMA ItemsOfChain ==
  ASSUME ChainTyped
  PROVE  /\ Len(chain) \in Nat /\ DOMAIN chain = 1..Len(chain)
         /\ \A i \in 1..Len(chain) : /\ chain[i] \in ChainItem
                                     /\ chain[i].op \in Operation
                                     /\ chain[i].of \in Nat
                                     /\ chain[i].of \in Socket
<1>1. /\ Len(chain) \in Nat /\ DOMAIN chain = 1..Len(chain)
      /\ \A i \in 1..Len(chain) : chain[i] \in ChainItem
  BY LenProperties, ElementOfSeq DEF ChainTyped
<1>2. \A x \in ChainItem : x.op \in Operation /\ x.of \in Socket /\ x.of \in Nat
  BY MaxSocketsAssumption DEF ChainItem, Socket
<1> QED BY <1>1, <1>2

\* The first operation belongs to a negotiation.
LEMMA HeadOfChain ==
  ASSUME ChainTyped, chain # <<>>
  PROVE  Head(chain).of \in Socket
<1>1. Head(chain) \in ChainItem
  BY TakenProperties DEF ChainTyped
<1> QED BY <1>1 DEF ChainItem

\* The first operation is run.
LEMMA ChainRun ==
  ASSUME ChainTyped, NEW op, RunFirst(op, <<>>)
  PROVE  /\ chain' \in Seq(ChainItem)
         /\ Len(chain) \in Nat /\ Len(chain) >= 1
         /\ Len(chain') = Len(chain) - 1
         /\ DOMAIN chain' = 1..(Len(chain) - 1)
         /\ \A i \in 1..(Len(chain) - 1) : chain'[i] = chain[i + 1]
         /\ Head(chain) = chain[1] /\ chain[1].op = op
<1>1. Tail(chain) \in Seq(ChainItem)
  BY TakenProperties DEF RunFirst, ChainTyped
<1>2. chain' = Tail(chain)
  BY <1>1, ConcatEmptySeq DEF RunFirst
<1> QED BY <1>2, TakenProperties DEF RunFirst, ChainTyped

\* The first operation is run, and has another one put in the chain.
LEMMA ChainRunAndGrown ==
  ASSUME ChainTyped, NEW op, NEW o \in ChainItem, RunFirst(op, <<o>>)
  PROVE  /\ chain' \in Seq(ChainItem)
         /\ Len(chain) \in Nat /\ Len(chain) >= 1 /\ Len(chain') = Len(chain)
         /\ DOMAIN chain' = 1..Len(chain)
         /\ \A i \in 1..(Len(chain) - 1) : chain'[i] = chain[i + 1]
         /\ chain'[Len(chain)] = o
         /\ Head(chain) = chain[1] /\ chain[1].op = op
BY TakenAndPutProperties DEF RunFirst, ChainTyped

-----------------------------------------------------------------------------
(* The chain stays sound *)

\* Steps that leave the chain alone, and may make a socket.
LEMMA ChainUntouched ==
  ASSUME ChainTyped, ChainIsSound, socket' \in Nat, socket' >= socket,
         UNCHANGED <<pcVars, offered>>
  PROVE  ChainIsSound'
<1> USE ItemsOfChain DEF pcVars
<1>1. OperationsAreOnce'
  BY DEF ChainIsSound, OperationsAreOnce, ChainTyped
<1>2. ChainIsInOrder'
  BY DEF ChainIsSound, ChainIsInOrder, FirstPart, Pending, ChainTyped
<1>3. AnswersFollowOffers' /\ OffersAreTaken'
  BY DEF ChainIsSound, AnswersFollowOffers, OffersAreTaken, Pending
<1> QED BY <1>1, <1>2, <1>3 DEF ChainIsSound

\* What every step of the chain keeps of the operations after the first.
LEMMA ChainShifts ==
  ASSUME ChainTyped, ChainIsSound, Len(chain) >= 1,
         \A i \in 1..(Len(chain) - 1) : chain'[i] = chain[i + 1]
  PROVE  \A i \in 1..(Len(chain) - 1) :
           /\ chain'[i].of \in Nat /\ chain'[i].op \in Operation
           /\ 1 <= chain'[i].of /\ chain'[i].of <= socket
           /\ chain'[i].op # "addIceCandidate" => chain'[i].of \in offered
           /\ \A j \in 1..(Len(chain) - 1) :
                /\ (chain'[i].op = chain'[j].op /\ chain'[i].of = chain'[j].of)
                     => i = j \/ chain'[i].op = "addIceCandidate"
                /\ (i < j /\ (FirstPart(i)' <=> FirstPart(j)'))
                     => chain'[i].of <= chain'[j].of
           /\ (FirstPart(1) <=> FirstPart(i)') => chain[1].of <= chain'[i].of
           /\ (chain[1].op = chain'[i].op /\ chain[1].of = chain'[i].of)
                => chain[1].op = "addIceCandidate"
           /\ IF FirstPart(i)'
              THEN remote <= chain'[i].of
              ELSE local < chain'[i].of /\ chain'[i].of <= created
           /\ chain'[i].op = "createAnswer" =>
                IF i = 1
                THEN chain[1] = Do("setRemoteDescription", chain'[i].of)
                ELSE chain'[i - 1] = Do("setRemoteDescription", chain'[i].of)
           /\ chain'[i].op = "setRemoteDescription" =>
                /\ i < Len(chain) - 1
                /\ chain'[i + 1] = Do("createAnswer", chain'[i].of)
           /\ (chain'[i].op = "addIceCandidate" /\ ~chain'[i].early) =>
                \/ chain'[i].of <= remote
                \/ chain[1] = Do("setRemoteDescription", chain'[i].of)
                \/ \E j \in 1..i - 1 :
                     chain'[j] = Do("setRemoteDescription", chain'[i].of)
<1> DEFINE n == Len(chain)
<1>1. n \in Nat /\ DOMAIN chain = 1..n
  BY ItemsOfChain
<1> HIDE DEF n
<1>2. \A i \in 1..(n - 1) : i + 1 \in 1..n /\ chain'[i] = chain[i + 1]
  BY <1>1 DEF n
<1>3. 1 \in 1..n
  BY <1>1 DEF n
<1>4. ASSUME NEW i \in 1..(n - 1)
      PROVE  /\ chain'[i].of \in Nat /\ chain'[i].op \in Operation
             /\ 1 <= chain'[i].of /\ chain'[i].of <= socket
             /\ chain'[i].op # "addIceCandidate" => chain'[i].of \in offered
  <2>1. i + 1 \in 1..n /\ chain'[i] = chain[i + 1]
    BY <1>2
  <2>2. chain[i + 1].of \in Nat /\ chain[i + 1].op \in Operation
    BY <2>1, ItemsOfChain DEF n
  <2>3. /\ 1 <= chain[i + 1].of /\ chain[i + 1].of <= socket
        /\ chain[i + 1].op # "addIceCandidate" => chain[i + 1].of \in offered
    BY <1>1, <2>1 DEF ChainIsSound, OperationsAreOnce
  <2> QED BY <2>1, <2>2, <2>3
<1>5. ASSUME NEW i \in 1..(n - 1), NEW j \in 1..(n - 1)
      PROVE  /\ (chain'[i].op = chain'[j].op /\ chain'[i].of = chain'[j].of)
                  => i = j \/ chain'[i].op = "addIceCandidate"
             /\ (i < j /\ (FirstPart(i)' <=> FirstPart(j)'))
                  => chain'[i].of <= chain'[j].of
  <2>1. /\ i + 1 \in 1..n /\ chain'[i] = chain[i + 1]
        /\ j + 1 \in 1..n /\ chain'[j] = chain[j + 1]
    BY <1>2
  <2>2. (chain[i + 1].op = chain[j + 1].op /\ chain[i + 1].of = chain[j + 1].of)
          => i + 1 = j + 1 \/ chain[i + 1].op = "addIceCandidate"
    BY <1>1, <2>1 DEF ChainIsSound, OperationsAreOnce
  <2>3. (i + 1 < j + 1 /\ (FirstPart(i + 1) <=> FirstPart(j + 1)))
          => chain[i + 1].of <= chain[j + 1].of
    BY <1>1, <2>1 DEF ChainIsSound, ChainIsInOrder
  <2> QED BY <1>1, <2>1, <2>2, <2>3 DEF FirstPart
<1>6. ASSUME NEW i \in 1..(n - 1)
      PROVE  /\ (FirstPart(1) <=> FirstPart(i)') => chain[1].of <= chain'[i].of
             /\ (chain[1].op = chain'[i].op /\ chain[1].of = chain'[i].of)
                  => chain[1].op = "addIceCandidate"
  <2>1. i + 1 \in 1..n /\ chain'[i] = chain[i + 1] /\ 1 < i + 1 /\ i + 1 # 1
    BY <1>2
  <2>2. (FirstPart(1) <=> FirstPart(i + 1)) => chain[1].of <= chain[i + 1].of
    BY <1>1, <1>3, <2>1 DEF ChainIsSound, ChainIsInOrder
  <2>3. (chain[1].op = chain[i + 1].op /\ chain[1].of = chain[i + 1].of)
          => chain[1].op = "addIceCandidate"
    BY <1>1, <1>3, <2>1 DEF ChainIsSound, OperationsAreOnce
  <2> QED BY <2>1, <2>2, <2>3 DEF FirstPart
<1>7. ASSUME NEW i \in 1..(n - 1)
      PROVE  IF FirstPart(i)'
             THEN remote <= chain'[i].of
             ELSE local < chain'[i].of /\ chain'[i].of <= created
  BY <1>1, <1>2 DEF ChainIsSound, ChainIsInOrder, FirstPart
<1>8. ASSUME NEW i \in 1..(n - 1)
      PROVE  /\ chain'[i].op = "createAnswer" =>
                  IF i = 1
                  THEN chain[1] = Do("setRemoteDescription", chain'[i].of)
                  ELSE chain'[i - 1] = Do("setRemoteDescription", chain'[i].of)
             /\ chain'[i].op = "setRemoteDescription" =>
                  /\ i < n - 1
                  /\ chain'[i + 1] = Do("createAnswer", chain'[i].of)
  <2>1. i + 1 \in 1..n /\ chain'[i] = chain[i + 1] /\ (i + 1) - 1 = i
        /\ i + 1 # 1
    BY <1>1, <1>2
  <2>2. /\ chain[i + 1].op = "createAnswer" =>
             chain[i] = Do("setRemoteDescription", chain[i + 1].of)
        /\ chain[i + 1].op = "setRemoteDescription" =>
             i + 1 < n /\ chain[i + 2] = Do("createAnswer", chain[i + 1].of)
    BY <1>1, <2>1 DEF ChainIsSound, AnswersFollowOffers, n
  <2>3. i # 1 => i - 1 \in 1..(n - 1) /\ chain'[i - 1] = chain[i]
    BY <1>1, <1>2
  <2>4. i + 1 < n => i + 1 \in 1..(n - 1) /\ chain'[i + 1] = chain[i + 2]
    BY <1>1, <1>2
  <2> QED BY <1>1, <2>1, <2>2, <2>3, <2>4
<1>9. ASSUME NEW i \in 1..(n - 1),
             chain'[i].op = "addIceCandidate", ~chain'[i].early,
             ~(chain'[i].of <= remote),
             chain[1] # Do("setRemoteDescription", chain'[i].of)
      PROVE  \E j \in 1..i - 1 :
               chain'[j] = Do("setRemoteDescription", chain'[i].of)
  <2>1. i + 1 \in 1..n /\ chain'[i] = chain[i + 1] /\ (i + 1) - 1 = i
    BY <1>1, <1>2
  <2>2. PICK j \in 1..i : chain[j] = Do("setRemoteDescription", chain[i + 1].of)
    BY <1>1, <1>9, <2>1 DEF ChainIsSound, OffersAreTaken
  <2>3. j - 1 \in 1..(i - 1) /\ j - 1 \in 1..(n - 1) /\ (j - 1) + 1 = j
    BY <1>1, <1>9, <2>1, <2>2
  <2> QED BY <1>2, <2>1, <2>2, <2>3
<1> QED BY <1>4, <1>5, <1>6, <1>7, <1>8, <1>9 DEF n

\* What is pending after a step of the chain is what was, but for the operation
\* that is run.
LEMMA PendingShifts ==
  ASSUME ChainTyped, ChainIsSound, Len(chain) >= 1,
         1..(Len(chain) - 1) \subseteq DOMAIN chain',
         \A i \in 1..(Len(chain) - 1) : chain'[i] = chain[i + 1],
         NEW op, NEW s
  PROVE  /\ s \in Pending(op) /\ (chain[1].op # op \/ chain[1].of # s)
              => s \in Pending(op)'
         /\ DOMAIN chain' = 1..(Len(chain) - 1) =>
              /\ s \in Pending(op)' => s \in Pending(op)
              /\ chain[1].op = op /\ chain[1].of = s /\ op # "addIceCandidate"
                   => s \notin Pending(op)'
<1> DEFINE n == Len(chain)
<1>1. n \in Nat /\ DOMAIN chain = 1..n
  BY ItemsOfChain
<1>2. \A i \in 1..(n - 1) : i + 1 \in 1..n /\ chain'[i] = chain[i + 1]
  BY <1>1
<1>3. ASSUME s \in Pending(op), chain[1].op # op \/ chain[1].of # s
      PROVE  s \in Pending(op)'
  <2>1. PICK i \in 1..n : chain[i].op = op /\ chain[i].of = s
    BY <1>1, <1>3, PendingIs
  <2>2. i - 1 \in 1..(n - 1) /\ (i - 1) + 1 = i
    BY <1>1, <1>3, <2>1
  <2>3. i - 1 \in DOMAIN chain' /\ chain'[i - 1] = chain[i]
    BY <1>2, <2>2
  <2> QED BY <2>1, <2>3, PendingIs
<1>4. ASSUME DOMAIN chain' = 1..(n - 1), s \in Pending(op)'
      PROVE  /\ s \in Pending(op)
             /\ chain[1].op # op \/ chain[1].of # s \/ op = "addIceCandidate"
  <2>1. PICK i \in 1..(n - 1) : chain'[i].op = op /\ chain'[i].of = s
    BY <1>4, PendingIs
  <2>2. i + 1 \in 1..n /\ chain[i + 1].op = op /\ chain[i + 1].of = s
    BY <1>2, <2>1
  <2>3. s \in Pending(op)
    BY <1>1, <2>2, PendingIs
  <2>4. chain[1].op = op /\ chain[1].of = s => op = "addIceCandidate"
    BY <2>1, ChainShifts
  <2> QED BY <2>3, <2>4
<1> QED BY <1>3, <1>4

\* The four conditions on the page's descriptions that do not speak of single
\* operations.
LEMMA MarksFollow ==
  ASSUME ChainIsSound
  PROVE  /\ local <= created /\ created <= remote /\ remote <= socket
         /\ remote \notin Pending("setRemoteDescription")
         /\ created \notin Pending("createAnswer")
         /\ created < remote =>
              chain # <<>> /\ chain[1] = Do("createAnswer", remote)
         /\ local < created => created \in Pending("setLocalDescription")
         /\ signaling = "stable" <=> remote = local
         /\ {remote, created, local} \subseteq offered \cup {0}
         /\ \A s \in offered :
              s <= remote \/ s \in Pending("setRemoteDescription")
BY DEF ChainIsSound, ChainIsInOrder, AnswersFollowOffers, OffersAreTaken

\* setRemoteDescription takes the offer of a later negotiation, and createAnswer
\* comes next.
LEMMA OfferIsTaken ==
  ASSUME ChainTyped, ChainIsSound, SetRemoteDescription
  PROVE  ChainIsSound' /\ remote' \in offered /\ remote < remote'
<1> DEFINE n == Len(chain)
           s == chain[1].of
<1>1. /\ n \in Nat /\ n >= 1 /\ DOMAIN chain = 1..n
      /\ DOMAIN chain' = 1..(n - 1) /\ Len(chain') = n - 1
      /\ \A i \in 1..(n - 1) : chain'[i] = chain[i + 1]
      /\ chain[1].op = "setRemoteDescription" /\ remote' = s
      /\ signaling' = "have-remote-offer"
      /\ UNCHANGED <<created, local, offered, socket>>
  BY ChainRun, ItemsOfChain DEF SetRemoteDescription, RunFirst, socketVars
<1>2. \A op, x : /\ x \in Pending(op) /\ (op # "setRemoteDescription" \/ x # s)
                      => x \in Pending(op)'
                 /\ x \in Pending(op)' => x \in Pending(op)
                 /\ s \notin Pending("setRemoteDescription")'
  BY <1>1, PendingShifts
<1>3. /\ s \in Nat /\ remote \in Nat /\ created \in Nat /\ local \in Nat
      /\ socket \in Nat
  BY <1>1, ItemsOfChain DEF ChainTyped
<1>4. /\ remote < s /\ s \in offered /\ s <= socket /\ n > 1
      /\ chain'[1] = Do("createAnswer", s)
  <2>1. s \in Pending("setRemoteDescription") /\ 1 \in 1..n
    BY <1>1, PendingIs
  <2>2. remote <= s /\ s \in offered /\ s <= socket
    BY <1>1, <2>1
       DEF ChainIsSound, OperationsAreOnce, ChainIsInOrder, FirstPart
  <2>3. n > 1 /\ chain[2] = Do("createAnswer", s)
    BY <1>1, <2>1 DEF ChainIsSound, AnswersFollowOffers
  <2> QED BY <1>1, <1>3, <2>1, <2>2, <2>3, MarksFollow
<1>5. \A i \in 1..(n - 1) : FirstPart(i)' => s <= chain'[i].of
  BY <1>1, ChainShifts DEF FirstPart
<1>6. OperationsAreOnce'
  BY <1>1, ChainShifts DEF OperationsAreOnce
<1>7. ChainIsInOrder'
  <2>1. \A i \in 1..(n - 1) :
          IF FirstPart(i)' THEN remote' <= chain'[i].of
          ELSE local' < chain'[i].of /\ chain'[i].of <= created'
    BY <1>1, <1>5, ChainShifts
  <2>2. local' <= created' /\ created' <= remote' /\ remote' <= socket'
    BY <1>1, <1>3, <1>4, MarksFollow
  <2>3. /\ remote' \notin Pending("setRemoteDescription")'
        /\ created' \notin Pending("createAnswer")'
    BY <1>1, <1>2, MarksFollow
  <2>4. \A i, j \in 1..(n - 1) :
          (i < j /\ (FirstPart(i)' <=> FirstPart(j)'))
            => chain'[i].of <= chain'[j].of
    BY <1>1, ChainShifts
  <2> QED BY <1>1, <2>1, <2>2, <2>3, <2>4 DEF ChainIsInOrder
<1>8. AnswersFollowOffers'
  <2>1. \A i \in 1..(n - 1) :
          /\ chain'[i].op = "createAnswer" =>
               IF i = 1 THEN remote' = chain'[i].of
               ELSE chain'[i - 1] = Do("setRemoteDescription", chain'[i].of)
          /\ chain'[i].op = "setRemoteDescription" =>
               /\ i < Len(chain')
               /\ chain'[i + 1] = Do("createAnswer", chain'[i].of)
    BY <1>1, DoOf, ChainShifts
  <2>2. chain' # <<>> /\ chain'[1] = Do("createAnswer", remote')
    <3>1. 1 \in DOMAIN chain'
      BY <1>1, <1>4
    <3> QED BY <1>1, <1>4, <3>1
  <2>3. local' < created' => created' \in Pending("setLocalDescription")'
    BY <1>1, <1>2, MarksFollow
  <2>4. signaling' # "stable" /\ remote' # local'
    BY <1>1, <1>3, <1>4, MarksFollow
  <2> QED BY <1>1, <2>1, <2>2, <2>3, <2>4 DEF AnswersFollowOffers
<1>9. OffersAreTaken'
  <2>1. \A x \in offered' :
          x <= remote' \/ x \in Pending("setRemoteDescription")'
    <3> SUFFICES ASSUME NEW x \in offered, ~(x <= s)
                 PROVE  x \in Pending("setRemoteDescription")'
      BY <1>1
    <3>1. x \in Nat
      BY MaxSocketsAssumption DEF ChainTyped, Socket
    <3>2. x \in Pending("setRemoteDescription") /\ x # s
      BY <1>3, <1>4, <3>1, MarksFollow
    <3> QED BY <1>2, <3>2
  <2>2. {remote', created', local'} \subseteq offered' \cup {0}
    BY <1>1, <1>4, MarksFollow
  <2>3. \A i \in 1..(n - 1) :
          (chain'[i].op = "addIceCandidate" /\ ~chain'[i].early)
            => \/ chain'[i].of <= remote'
               \/ \E j \in 1..i - 1 :
                    chain'[j] = Do("setRemoteDescription", chain'[i].of)
    <3> SUFFICES ASSUME NEW i \in 1..(n - 1),
                        chain'[i].op = "addIceCandidate", ~chain'[i].early,
                        ~(chain'[i].of <= s)
                 PROVE  \E j \in 1..i - 1 :
                          chain'[j] = Do("setRemoteDescription", chain'[i].of)
      BY <1>1
    <3>1. chain'[i].of \in Nat
      BY <1>1, ChainShifts
    <3>2. ~(chain'[i].of <= remote) /\ chain'[i].of # s
      BY <1>3, <1>4, <3>1
    <3>3. chain[1] # Do("setRemoteDescription", chain'[i].of)
      BY <3>2, DoOf
    <3> QED BY <1>1, <3>2, <3>3, ChainShifts
  <2> QED BY <1>1, <2>1, <2>2, <2>3 DEF OffersAreTaken
<1> QED BY <1>1, <1>4, <1>6, <1>7, <1>8, <1>9 DEF ChainIsSound

\* addIceCandidate finds the offer it came after.
LEMMA CandidateIsAdded ==
  ASSUME ChainTyped, ChainIsSound, AddIceCandidate
  PROVE  /\ ChainIsSound'
         /\ lost' # lost => /\ lost' = lost \cup {chain[1]} /\ chain[1].early
                            /\ chain[1].op = "addIceCandidate"
<1> DEFINE n == Len(chain)
           s == chain[1].of
<1>1. /\ n \in Nat /\ n >= 1 /\ DOMAIN chain = 1..n
      /\ DOMAIN chain' = 1..(n - 1) /\ Len(chain') = n - 1
      /\ \A i \in 1..(n - 1) : chain'[i] = chain[i + 1]
      /\ chain[1].op = "addIceCandidate" /\ Head(chain) = chain[1]
      /\ UNCHANGED <<remote, created, local, signaling, offered, socket>>
  BY ChainRun, ItemsOfChain DEF AddIceCandidate, RunFirst, socketVars
<1>2. \A op, x : /\ x \in Pending(op) /\ op # "addIceCandidate"
                      => x \in Pending(op)'
                 /\ x \in Pending(op)' => x \in Pending(op)
  BY <1>1, PendingShifts
<1>3. /\ s \in Nat /\ remote \in Nat /\ created \in Nat /\ local \in Nat
  BY <1>1, ItemsOfChain DEF ChainTyped
<1>4. remote <= s /\ (s <= remote \/ chain[1].early)
  <2>1. 1 \in 1..n /\ ~\E j \in 1..(1 - 1) : TRUE
    BY <1>1
  <2>2. remote <= s
    BY <1>1, <2>1 DEF ChainIsSound, ChainIsInOrder, FirstPart
  <2>3. ~chain[1].early => s <= remote
    BY <1>1, <2>1 DEF ChainIsSound, OffersAreTaken
  <2> QED BY <2>2, <2>3
<1>5. created = remote
  <2>1. chain[1] # Do("createAnswer", remote)
    BY <1>1, DoOf
  <2> QED BY <1>3, <2>1, MarksFollow
<1>6. OperationsAreOnce'
  BY <1>1, ChainShifts DEF OperationsAreOnce
<1>7. ChainIsInOrder'
  BY <1>1, <1>2, ChainShifts, MarksFollow DEF ChainIsInOrder
<1>8. AnswersFollowOffers'
  <2>1. \A i \in 1..(n - 1) :
          /\ chain'[i].op = "createAnswer" =>
               IF i = 1 THEN remote' = chain'[i].of
               ELSE chain'[i - 1] = Do("setRemoteDescription", chain'[i].of)
          /\ chain'[i].op = "setRemoteDescription" =>
               /\ i < Len(chain')
               /\ chain'[i + 1] = Do("createAnswer", chain'[i].of)
    BY <1>1, DoOf, ChainShifts
  <2>2. local' < created' => created' \in Pending("setLocalDescription")'
    BY <1>1, <1>2, MarksFollow
  <2>3. ~(created' < remote')
    BY <1>1, <1>3, <1>5
  <2> QED BY <1>1, <2>1, <2>2, <2>3, MarksFollow DEF AnswersFollowOffers
<1>9. OffersAreTaken'
  <2>1. \A i \in 1..(n - 1) :
          (chain'[i].op = "addIceCandidate" /\ ~chain'[i].early)
            => \/ chain'[i].of <= remote'
               \/ \E j \in 1..i - 1 :
                    chain'[j] = Do("setRemoteDescription", chain'[i].of)
    BY <1>1, DoOf, ChainShifts
  <2> QED BY <1>1, <1>2, <2>1, MarksFollow DEF OffersAreTaken
<1> QED
  BY <1>1, <1>3, <1>4, <1>6, <1>7, <1>8, <1>9
     DEF ChainIsSound, AddIceCandidate

\* setLocalDescription makes the page's descriptions those of one negotiation,
\* or refuses an answer that is not the one created last.
LEMMA AnswerIsSettled ==
  ASSUME ChainTyped, ChainIsSound, SetLocalDescription
  PROVE  /\ ChainIsSound'
         /\ local' # local => /\ local < local' /\ local' = remote
                              /\ local' = created /\ local' \in offered
<1> DEFINE n == Len(chain)
           s == chain[1].of
<1>1. /\ n \in Nat /\ n >= 1 /\ DOMAIN chain = 1..n
      /\ DOMAIN chain' = 1..(n - 1) /\ Len(chain') = n - 1
      /\ \A i \in 1..(n - 1) : chain'[i] = chain[i + 1]
      /\ chain[1].op = "setLocalDescription" /\ Head(chain) = chain[1]
      /\ UNCHANGED <<remote, created, offered, socket>>
  BY ChainRun, ItemsOfChain DEF SetLocalDescription, RunFirst, socketVars
<1>2. \A op, x : /\ x \in Pending(op)
                      /\ (op # "setLocalDescription" \/ x # s)
                      => x \in Pending(op)'
                 /\ x \in Pending(op)' => x \in Pending(op)
  BY <1>1, PendingShifts
<1>3. /\ s \in Nat /\ remote \in Nat /\ created \in Nat /\ local \in Nat
  BY <1>1, ItemsOfChain DEF ChainTyped
<1>4. local < s /\ s <= created /\ s \in offered
  <2>1. 1 \in 1..n
    BY <1>1
  <2> QED BY <1>1, <2>1
          DEF ChainIsSound, OperationsAreOnce, ChainIsInOrder, FirstPart
<1>5. created = remote
  <2>1. chain[1] # Do("createAnswer", remote)
    BY <1>1, DoOf
  <2> QED BY <1>3, <2>1, MarksFollow
<1>6. signaling = "have-remote-offer"
  <2>1. remote # local
    BY <1>3, <1>4, <1>5
  <2> QED BY <2>1, MarksFollow DEF ChainTyped
<1>7. IF created = s THEN local' = s /\ signaling' = "stable"
                     ELSE local' = local /\ signaling' = signaling
  BY <1>1, <1>6 DEF SetLocalDescription
<1>8. /\ local' <= created' /\ local' \in Nat /\ local <= local'
      /\ local' \in offered' \cup {0}
      /\ signaling' = "stable" <=> remote' = local'
      /\ local' < created' => created # s
  BY <1>1, <1>3, <1>4, <1>5, <1>7, MarksFollow
<1>9. OperationsAreOnce'
  BY <1>1, ChainShifts DEF OperationsAreOnce
<1>10. ChainIsInOrder'
  <2>1. \A i \in 1..(n - 1) :
          IF FirstPart(i)' THEN remote' <= chain'[i].of
          ELSE local' < chain'[i].of /\ chain'[i].of <= created'
    <3> SUFFICES ASSUME NEW i \in 1..(n - 1), ~FirstPart(i)'
                 PROVE  local' < chain'[i].of
      BY <1>1, ChainShifts
    <3>1. chain'[i].op = "setLocalDescription" /\ chain'[i].of \in Nat
      BY <1>1, ChainShifts DEF FirstPart
    <3>2. s <= chain'[i].of /\ chain'[i].of # s /\ local < chain'[i].of
      BY <1>1, <3>1, ChainShifts DEF FirstPart
    <3> QED BY <1>3, <1>7, <3>1, <3>2
  <2>2. /\ remote' \notin Pending("setRemoteDescription")'
        /\ created' \notin Pending("createAnswer")'
    BY <1>1, <1>2, MarksFollow
  <2>3. \A i, j \in 1..(n - 1) :
          (i < j /\ (FirstPart(i)' <=> FirstPart(j)'))
            => chain'[i].of <= chain'[j].of
    BY <1>1, ChainShifts
  <2>4. created' <= remote' /\ remote' <= socket'
    BY <1>1, MarksFollow
  <2> QED BY <1>1, <1>8, <2>1, <2>2, <2>3, <2>4 DEF ChainIsInOrder
<1>11. AnswersFollowOffers'
  <2>1. \A i \in 1..(n - 1) :
          /\ chain'[i].op = "createAnswer" =>
               IF i = 1 THEN remote' = chain'[i].of
               ELSE chain'[i - 1] = Do("setRemoteDescription", chain'[i].of)
          /\ chain'[i].op = "setRemoteDescription" =>
               /\ i < Len(chain')
               /\ chain'[i + 1] = Do("createAnswer", chain'[i].of)
    BY <1>1, DoOf, ChainShifts
  <2>2. local' < created' => created' \in Pending("setLocalDescription")'
    BY <1>1, <1>2, <1>7, <1>8, MarksFollow
  <2>3. ~(created' < remote')
    BY <1>1, <1>3, <1>5
  <2> QED BY <1>1, <1>8, <2>1, <2>2, <2>3 DEF AnswersFollowOffers
<1>12. OffersAreTaken'
  <2>1. \A i \in 1..(n - 1) :
          (chain'[i].op = "addIceCandidate" /\ ~chain'[i].early)
            => \/ chain'[i].of <= remote'
               \/ \E j \in 1..i - 1 :
                    chain'[j] = Do("setRemoteDescription", chain'[i].of)
    BY <1>1, DoOf, ChainShifts
  <2> QED BY <1>1, <1>2, <1>8, <2>1, MarksFollow DEF OffersAreTaken
<1> QED
  BY <1>4, <1>5, <1>7, <1>9, <1>10, <1>11, <1>12 DEF ChainIsSound

\* createAnswer never rejects: it answers the offer taken last, and for the
\* first time.
LEMMA AnswerIsCreated ==
  ASSUME ChainTyped, ChainIsSound, CreateAnswer
  PROVE  /\ ChainIsSound'
         /\ created' = remote /\ created < created' /\ created' \in offered
         /\ created' \in Pending("createAnswer")
         /\ created' \notin Pending("createAnswer")'
         /\ \A x : x \in Pending("createAnswer")'
                     => x \in Pending("createAnswer")
         /\ SendUp(remote, Message("answer", remote))
<1> DEFINE n == Len(chain)
           s == chain[1].of
           o == Do("setLocalDescription", s)
<1>1. /\ n \in Nat /\ n >= 1 /\ DOMAIN chain = 1..n /\ Head(chain) = chain[1]
      /\ chain[1].op = "createAnswer" /\ s \in Socket /\ s \in Nat
      /\ UNCHANGED <<remote, local, signaling, offered, socket>>
  <2>1. chain # <<>> /\ Head(chain).op = "createAnswer"
        /\ UNCHANGED <<remote, local, signaling, offered, socket>>
    BY DEF CreateAnswer, RunFirst, socketVars
  <2> QED BY <2>1, TakenProperties, ItemsOfChain DEF ChainTyped
<1>2. /\ remote \in Nat /\ created \in Nat /\ local \in Nat
  BY DEF ChainTyped
<1>3. /\ remote = s /\ created < s /\ local <= created
      /\ signaling = "have-remote-offer" /\ s \in offered /\ s <= socket
      /\ s \in Pending("createAnswer")
  <2>1. 1 \in 1..n /\ s \in Pending("createAnswer")
    BY <1>1, PendingIs
  <2>2. remote = s /\ s \in offered /\ s <= socket
    BY <1>1, <2>1 DEF ChainIsSound, OperationsAreOnce, AnswersFollowOffers
  <2>3. created # s /\ created <= s
    BY <2>1, <2>2, MarksFollow
  <2> QED BY <1>2, <2>1, <2>2, <2>3, MarksFollow DEF ChainTyped
<1>4. /\ RunFirst("createAnswer", <<o>>) /\ created' = s
      /\ SendUp(s, Message("answer", s))
  BY <1>1, <1>3 DEF CreateAnswer, AnswerSocket
<1>5. o \in ChainItem /\ o.op = "setLocalDescription" /\ o.of = s /\ ~o.early
  BY <1>1, DoIsItem DEF Operation
<1>6. /\ DOMAIN chain' = 1..n /\ Len(chain') = n
      /\ \A i \in 1..(n - 1) : chain'[i] = chain[i + 1]
      /\ chain'[n] = o
  BY <1>4, <1>5, ChainRunAndGrown
<1> HIDE DEF o
<1>7. \A i \in 1..n : IF i = n THEN i \notin 1..(n - 1) ELSE i \in 1..(n - 1)
  BY <1>1, LastPlace
<1>8. \A op, x : /\ x \in Pending(op) /\ (op # "createAnswer" \/ x # s)
                      => x \in Pending(op)'
                 /\ x \in Pending(op)' /\ op # "setLocalDescription"
                      => x \in Pending(op) /\ (op # "createAnswer" \/ x # s)
                 /\ s \in Pending("setLocalDescription")'
  <2>1. ASSUME NEW op, NEW x, x \in Pending(op), op # "createAnswer" \/ x # s
        PROVE  x \in Pending(op)'
    <3>1. 1..(n - 1) \subseteq DOMAIN chain'
      BY <1>1, <1>6
    <3> QED BY <1>1, <1>6, <2>1, <3>1, PendingShifts
  <2>2. ASSUME NEW op, NEW x, x \in Pending(op)', op # "setLocalDescription"
        PROVE  x \in Pending(op) /\ (op # "createAnswer" \/ x # s)
    <3>3. PICK i \in 1..n : chain'[i].op = op /\ chain'[i].of = x
      BY <1>6, <2>2, PendingIs
    <3>1. i \in 1..(n - 1) /\ chain'[i].op = op /\ chain'[i].of = x
      BY <1>5, <1>6, <1>7, <2>2, <3>3
    <3>2. i + 1 \in 1..n /\ chain'[i] = chain[i + 1]
      BY <1>1, <1>6, <3>1
    <3> QED BY <1>1, <1>6, <3>1, <3>2, PendingIs, ChainShifts
  <2>3. s \in Pending("setLocalDescription")'
    <3>1. n \in DOMAIN chain'
      BY <1>1, <1>6
    <3> QED BY <1>5, <1>6, <3>1, PendingIs
  <2> QED BY <2>1, <2>2, <2>3
<1>9. OperationsAreOnce'
  <2>1. \A i \in 1..n : /\ 1 <= chain'[i].of /\ chain'[i].of <= socket
                        /\ chain'[i].op # "addIceCandidate"
                             => chain'[i].of \in offered
    <3>1. 1 <= s
      BY <1>1, <1>2, <1>3
    <3> QED BY <1>1, <1>3, <1>5, <1>6, <1>7, <3>1, ChainShifts
  <2>2. \A i \in 1..(n - 1) :
          chain'[i].op = "setLocalDescription" => chain'[i].of # s
    BY <1>1, <1>2, <1>3, <1>6, ChainShifts DEF FirstPart
  <2>3. \A i, j \in 1..n :
          (chain'[i].op = chain'[j].op /\ chain'[i].of = chain'[j].of)
            => i = j \/ chain'[i].op = "addIceCandidate"
    <3>1. \A i, j \in 1..(n - 1) :
            (chain'[i].op = chain'[j].op /\ chain'[i].of = chain'[j].of)
              => i = j \/ chain'[i].op = "addIceCandidate"
      BY <1>1, <1>6, ChainShifts
    <3> QED BY <1>5, <1>6, <1>7, <2>2, <3>1
  <2> QED BY <1>1, <1>6, <2>1, <2>3 DEF OperationsAreOnce
<1>10. ChainIsInOrder'
  <2>1. ~FirstPart(n)'
    BY <1>5, <1>6 DEF FirstPart
  <2>2. \A i \in 1..n :
          IF FirstPart(i)' THEN remote' <= chain'[i].of
          ELSE local' < chain'[i].of /\ chain'[i].of <= created'
    <3>1. ASSUME NEW i \in 1..(n - 1)
          PROVE  IF FirstPart(i)' THEN remote' <= chain'[i].of
                 ELSE local' < chain'[i].of /\ chain'[i].of <= created'
      <4>1. chain'[i].of \in Nat
        BY <1>1, <1>6, ChainShifts
      <4> QED BY <1>1, <1>2, <1>3, <1>4, <1>6, <4>1, ChainShifts
    <3>2. local' < s /\ s <= created'
      BY <1>1, <1>2, <1>3, <1>4
    <3> QED BY <1>5, <1>6, <1>7, <2>1, <3>1, <3>2
  <2>3. \A i, j \in 1..n :
          (i < j /\ (FirstPart(i)' <=> FirstPart(j)'))
            => chain'[i].of <= chain'[j].of
    <3>1. \A i, j \in 1..n : i < j => i \in 1..(n - 1)
      BY <1>1
    <3>2. ASSUME NEW i \in 1..(n - 1), ~FirstPart(i)'
          PROVE  chain'[i].of <= s
      <4>1. chain'[i].of \in Nat /\ chain'[i].of <= created
        BY <1>1, <1>6, <3>2, ChainShifts
      <4> QED BY <1>1, <1>2, <1>3, <4>1
    <3> QED BY <1>1, <1>5, <1>6, <1>7, <2>1, <3>1, <3>2, ChainShifts
  <2>4. /\ remote' \notin Pending("setRemoteDescription")'
        /\ created' \notin Pending("createAnswer")'
    BY <1>1, <1>4, <1>8, MarksFollow
  <2>5. local' <= created' /\ created' <= remote' /\ remote' <= socket'
    BY <1>1, <1>2, <1>3, <1>4
  <2> QED BY <1>6, <2>2, <2>3, <2>4, <2>5 DEF ChainIsInOrder
<1>11. AnswersFollowOffers'
  <2>1. \A i \in 1..n :
          /\ chain'[i].op = "createAnswer" =>
               IF i = 1 THEN remote' = chain'[i].of
               ELSE chain'[i - 1] = Do("setRemoteDescription", chain'[i].of)
          /\ chain'[i].op = "setRemoteDescription" =>
               /\ i < Len(chain')
               /\ chain'[i + 1] = Do("createAnswer", chain'[i].of)
    <3>1. ASSUME NEW i \in 1..(n - 1)
          PROVE  /\ chain'[i].op = "createAnswer" =>
                      IF i = 1 THEN remote' = chain'[i].of
                      ELSE chain'[i - 1] =
                             Do("setRemoteDescription", chain'[i].of)
                 /\ chain'[i].op = "setRemoteDescription" =>
                      /\ i < n - 1
                      /\ chain'[i + 1] = Do("createAnswer", chain'[i].of)
      BY <1>1, <1>6, DoOf, ChainShifts
    <3>2. \A i \in 1..(n - 1) : i < n
      BY <1>1
    <3> QED BY <1>5, <1>6, <1>7, <3>1, <3>2
  <2>2. /\ created' \in Pending("setLocalDescription")'
        /\ ~(created' < remote')
    BY <1>1, <1>3, <1>4, <1>8
  <2> QED BY <1>1, <1>6, <2>1, <2>2, MarksFollow DEF AnswersFollowOffers
<1>12. OffersAreTaken'
  <2>1. \A i \in 1..n :
          (chain'[i].op = "addIceCandidate" /\ ~chain'[i].early)
            => \/ chain'[i].of <= remote'
               \/ \E j \in 1..i - 1 :
                    chain'[j] = Do("setRemoteDescription", chain'[i].of)
    <3>1. ASSUME NEW i \in 1..(n - 1),
                 chain'[i].op = "addIceCandidate", ~chain'[i].early
          PROVE  \/ chain'[i].of <= remote'
                 \/ \E j \in 1..i - 1 :
                      chain'[j] = Do("setRemoteDescription", chain'[i].of)
      BY <1>1, <1>6, <3>1, DoOf, ChainShifts
    <3> QED BY <1>5, <1>6, <1>7, <3>1
  <2>2. {remote', created', local'} \subseteq offered' \cup {0}
    BY <1>1, <1>3, <1>4, MarksFollow
  <2>3. \A x \in offered' :
          x <= remote' \/ x \in Pending("setRemoteDescription")'
    BY <1>1, <1>8, MarksFollow
  <2> QED BY <1>6, <2>1, <2>2, <2>3 DEF OffersAreTaken
<1> QED
  BY <1>3, <1>4, <1>8, <1>9, <1>10, <1>11, <1>12 DEF ChainIsSound

\* A candidate is put in the chain with the mark whether it is early.
LEMMA CandidateIsItem ==
  ASSUME NEW s \in Socket, NEW b \in BOOLEAN
  PROVE  LET o == [Do("addIceCandidate", s) EXCEPT !.early = b]
         IN  o \in ChainItem /\ o.op = "addIceCandidate" /\ o.of = s
             /\ o.early = b
<1> DEFINE d == Do("addIceCandidate", s)
<1>1. d = [op |-> "addIceCandidate", of |-> s, early |-> FALSE]
  BY DEF Do
<1>2. [d EXCEPT !.early = b] = [op |-> "addIceCandidate", of |-> s, early |-> b]
  BY <1>1
<1>3. "addIceCandidate" \in Operation
  BY DEF Operation
<1> HIDE DEF d
<1> QED BY <1>2, <1>3 DEF ChainItem, d

\* A candidate that comes after its offer finds it, wherever the offer is.
LEMMA CandidateIsReceived ==
  ASSUME ChainTyped, ChainIsSound, NEW s \in Socket, s = socket,
         ReceiveCandidate(s)
  PROVE  /\ ChainIsSound'
         /\ \A x : x \in Pending("createAnswer")'
                     => x \in Pending("createAnswer")
<1> DEFINE n == Len(chain)
           o == [Do("addIceCandidate", s) EXCEPT !.early = s \notin offered]
<1>1. /\ o \in ChainItem /\ o.op = "addIceCandidate" /\ o.of = s
      /\ o.early = (s \notin offered) /\ s \in Nat /\ s >= 1
  <2>1. (s \notin offered) \in BOOLEAN
    OBVIOUS
  <2>2. /\ o \in ChainItem /\ o.op = "addIceCandidate" /\ o.of = s
        /\ o.early = (s \notin offered)
    BY <2>1, CandidateIsItem, Zenon
  <2>3. s \in Nat /\ s >= 1
    BY MaxSocketsAssumption DEF Socket
  <2> QED BY <2>2, <2>3
<1>2. chain' = Append(chain, o)
      /\ UNCHANGED <<remote, created, local, signaling, offered, socket>>
  BY DEF ReceiveCandidate, socketVars
<1> HIDE DEF o
<1>3. /\ n \in Nat /\ DOMAIN chain = 1..n /\ Len(chain') = n + 1
      /\ DOMAIN chain' = 1..(n + 1) /\ chain'[n + 1] = o
      /\ \A i \in 1..n : chain'[i] = chain[i]
  BY <1>1, <1>2, PutProperties DEF ChainTyped
<1>4. /\ \A i \in 1..n : chain[i].of \in Nat /\ chain[i].op \in Operation
      /\ remote \in Nat
  BY ItemsOfChain DEF ChainTyped
<1> HIDE DEF n
<1>5. \A i \in 1..(n + 1) : IF i = n + 1 THEN i \notin 1..n ELSE i \in 1..n
  BY <1>3
<1>6. \A op, x : /\ x \in Pending(op) => x \in Pending(op)'
                 /\ x \in Pending(op)' /\ op # "addIceCandidate"
                      => x \in Pending(op)
  BY <1>1, <1>3, <1>5, PendingIs
<1>7. \A i \in 1..n : chain[i].of <= s
  BY <1>3 DEF ChainIsSound, OperationsAreOnce
<1>8. OperationsAreOnce'
  <2>1. \A i \in 1..(n + 1) : /\ 1 <= chain'[i].of /\ chain'[i].of <= socket
                              /\ chain'[i].op # "addIceCandidate"
                                   => chain'[i].of \in offered
    BY <1>1, <1>3, <1>5 DEF ChainIsSound, OperationsAreOnce
  <2>2. \A i, j \in 1..(n + 1) :
          (chain'[i].op = chain'[j].op /\ chain'[i].of = chain'[j].of)
            => i = j \/ chain'[i].op = "addIceCandidate"
    BY <1>1, <1>3, <1>5 DEF ChainIsSound, OperationsAreOnce
  <2> QED BY <1>2, <1>3, <2>1, <2>2 DEF OperationsAreOnce
<1>9. ChainIsInOrder'
  <2>1. \A i, j \in 1..(n + 1) :
          (i < j /\ (FirstPart(i)' <=> FirstPart(j)'))
            => chain'[i].of <= chain'[j].of
    <3>1. \A i, j \in 1..(n + 1) : i < j => i \in 1..n
      BY <1>3
    <3> QED BY <1>1, <1>3, <1>5, <1>7, <3>1
            DEF ChainIsSound, ChainIsInOrder, FirstPart
  <2>2. \A i \in 1..(n + 1) :
          IF FirstPart(i)' THEN remote' <= chain'[i].of
          ELSE local' < chain'[i].of /\ chain'[i].of <= created'
    BY <1>1, <1>2, <1>3, <1>5, MarksFollow
       DEF ChainIsSound, ChainIsInOrder, FirstPart
  <2> QED BY <1>2, <1>3, <1>6, <2>1, <2>2, MarksFollow DEF ChainIsInOrder
<1>10. AnswersFollowOffers'
  <2>1. \A i \in 1..n :
          /\ chain[i].op = "createAnswer" =>
               IF i = 1 THEN remote = chain[i].of
               ELSE /\ chain[i - 1] = Do("setRemoteDescription", chain[i].of)
                    /\ i - 1 \in 1..n
          /\ chain[i].op = "setRemoteDescription" =>
               /\ i < n + 1 /\ i + 1 \in 1..n
               /\ chain[i + 1] = Do("createAnswer", chain[i].of)
    BY <1>3 DEF ChainIsSound, AnswersFollowOffers, n
  <2>2. \A i \in 1..(n + 1) :
          /\ chain'[i].op = "createAnswer" =>
               IF i = 1 THEN remote' = chain'[i].of
               ELSE chain'[i - 1] = Do("setRemoteDescription", chain'[i].of)
          /\ chain'[i].op = "setRemoteDescription" =>
               /\ i < Len(chain')
               /\ chain'[i + 1] = Do("createAnswer", chain'[i].of)
    BY <1>1, <1>2, <1>3, <1>5, <2>1
  <2>3. created' < remote' =>
          chain' # <<>> /\ chain'[1] = Do("createAnswer", remote')
    <3> SUFFICES ASSUME created < remote
                 PROVE  chain' # <<>> /\ chain'[1] = Do("createAnswer", remote)
      BY <1>2
    <3>1. chain # <<>> /\ chain[1] = Do("createAnswer", remote)
      BY MarksFollow
    <3>2. 1 \in 1..n
      BY <1>3, <3>1, EmptySeq DEF ChainTyped, n
    <3>3. 1 \in DOMAIN chain'
      BY <1>3, <3>2
    <3> QED BY <1>3, <3>1, <3>2, <3>3
  <2> QED BY <1>2, <1>3, <1>6, <2>2, <2>3, MarksFollow DEF AnswersFollowOffers
<1>11. OffersAreTaken'
  <2>1. ASSUME s \in offered, ~(s <= remote)
        PROVE  \E j \in 1..n : chain[j] = Do("setRemoteDescription", s)
    <3>1. PICK j \in 1..n : chain[j].op = "setRemoteDescription"
                            /\ chain[j].of = s
      BY <1>3, <2>1, MarksFollow, PendingIs
    <3>2. j + 1 \in 1..n /\ chain[j + 1] = Do("createAnswer", s)
      BY <1>3, <3>1 DEF ChainIsSound, AnswersFollowOffers, n
    <3>3. chain[j] = Do("setRemoteDescription", s)
      <4>1. j + 1 # 1 /\ (j + 1) - 1 = j
        BY <3>1, <3>2
      <4>2. chain[j + 1].op = "createAnswer" /\ chain[j + 1].of = s
        BY <3>2, DoOf
      <4> QED BY <1>3, <3>2, <4>1, <4>2 DEF ChainIsSound, AnswersFollowOffers
    <3> QED BY <3>3
  <2>2. \A i \in 1..(n + 1) :
          (chain'[i].op = "addIceCandidate" /\ ~chain'[i].early)
            => \/ chain'[i].of <= remote'
               \/ \E j \in 1..i - 1 :
                    chain'[j] = Do("setRemoteDescription", chain'[i].of)
    <3>1. ASSUME NEW i \in 1..n,
                 chain'[i].op = "addIceCandidate", ~chain'[i].early,
                 ~(chain'[i].of <= remote)
          PROVE  \E j \in 1..i - 1 :
                   chain'[j] = Do("setRemoteDescription", chain'[i].of)
      <4>1. PICK j \in 1..i - 1 :
                   chain[j] = Do("setRemoteDescription", chain[i].of)
        BY <1>3, <3>1 DEF ChainIsSound, OffersAreTaken
      <4>2. j \in 1..n
        BY <1>3, <4>1
      <4> QED BY <1>3, <4>1, <4>2
    <3>2. (n + 1) - 1 = n
      BY <1>3
    <3> QED BY <1>1, <1>2, <1>3, <1>5, <2>1, <3>1, <3>2
  <2> QED BY <1>2, <1>3, <1>6, <2>2, MarksFollow DEF OffersAreTaken
<1> QED BY <1>6, <1>8, <1>9, <1>10, <1>11 DEF ChainIsSound

\* An offer is the page's first for its negotiation, and later than all others.
LEMMA OfferIsReceived ==
  ASSUME ChainTyped, ChainIsSound, NEW s \in Socket, s = socket,
         s \notin offered, ReceiveOffer(s)
  PROVE  /\ ChainIsSound'
         /\ \A x : x \in Pending("createAnswer")'
                     => x \in Pending("createAnswer") \/ x = s
<1> DEFINE n == Len(chain)
           d == Do("setRemoteDescription", s)
           e == Do("createAnswer", s)
<1>1. /\ d \in ChainItem /\ d.op = "setRemoteDescription" /\ d.of = s
      /\ e \in ChainItem /\ e.op = "createAnswer" /\ e.of = s
      /\ s \in Nat /\ s >= 1
  <2>1. "setRemoteDescription" \in Operation /\ "createAnswer" \in Operation
    BY DEF Operation
  <2>2. s \in Nat /\ s >= 1
    BY MaxSocketsAssumption DEF Socket
  <2> QED BY <2>1, <2>2, DoIsItem, Zenon
<1>2. chain' = chain \o <<d, e>> /\ offered' = offered \cup {s}
      /\ UNCHANGED <<remote, created, local, signaling, socket>>
  BY DEF ReceiveOffer, socketVars
<1> HIDE DEF d, e
<1>3. /\ n \in Nat /\ DOMAIN chain = 1..n /\ Len(chain') = n + 2
      /\ DOMAIN chain' = 1..(n + 2)
      /\ chain'[n + 1] = d /\ chain'[n + 2] = e
      /\ \A i \in 1..n : chain'[i] = chain[i]
  BY <1>1, <1>2, PutTwoProperties DEF ChainTyped
<1>4. /\ \A i \in 1..n : chain[i].of \in Nat /\ chain[i].op \in Operation
      /\ remote \in Nat /\ created \in Nat
  BY ItemsOfChain DEF ChainTyped
<1> HIDE DEF n
<1>5. /\ \A i \in 1..(n + 2) : i \in 1..n \/ i = n + 1 \/ i = n + 2
      /\ \A i \in 1..n : i # n + 1 /\ i # n + 2
      /\ n + 1 # n + 2
  BY <1>3
<1>6. \A op, x : /\ x \in Pending(op) => x \in Pending(op)'
                 /\ x \in Pending(op)' => x \in Pending(op) \/ x = s
                 /\ s \in Pending("setRemoteDescription")'
  <2>1. \A i \in 1..n : i \in 1..(n + 2)
    BY <1>3
  <2>2. n + 1 \in 1..(n + 2)
    BY <1>3
  <2> QED BY <1>1, <1>3, <1>5, <2>1, <2>2, PendingIs
<1>7. \A i \in 1..n : /\ 1 <= chain[i].of /\ chain[i].of <= s
                      /\ chain[i].op # "addIceCandidate"
                           => chain[i].of \in offered /\ chain[i].of # s
  BY <1>3 DEF ChainIsSound, OperationsAreOnce
<1>8. remote # s /\ created # s /\ remote <= s
  BY <1>1, MarksFollow
<1>9. OperationsAreOnce'
  <2>1. \A i \in 1..(n + 2) : /\ 1 <= chain'[i].of /\ chain'[i].of <= socket
                              /\ chain'[i].op # "addIceCandidate"
                                   => chain'[i].of \in offered'
    BY <1>1, <1>2, <1>3, <1>5, <1>7
  <2>2. \A i, j \in 1..(n + 2) :
          (chain'[i].op = chain'[j].op /\ chain'[i].of = chain'[j].of)
            => i = j \/ chain'[i].op = "addIceCandidate"
    <3>1. \A i, j \in 1..n :
            (chain'[i].op = chain'[j].op /\ chain'[i].of = chain'[j].of)
              => i = j \/ chain'[i].op = "addIceCandidate"
      BY <1>3 DEF ChainIsSound, OperationsAreOnce
    <3>2. \A i \in 1..n :
            chain'[i].op = "addIceCandidate" \/ chain'[i].of # s
      BY <1>3, <1>7
    <3>3. /\ chain'[n + 1].of = s /\ chain'[n + 1].op = "setRemoteDescription"
          /\ chain'[n + 2].of = s /\ chain'[n + 2].op = "createAnswer"
      BY <1>1, <1>3
    <3>4. \A i \in 1..(n + 2) : i \in 1..n \/ i = n + 1 \/ i = n + 2
      BY <1>5
    <3> TAKE i, j \in 1..(n + 2)
    <3>5. CASE i \in 1..n /\ j \in 1..n
      BY <3>1, <3>5
    <3>6. CASE ~(i \in 1..n) \/ ~(j \in 1..n)
      <4>1. "setRemoteDescription" # "createAnswer"
        OBVIOUS
      <4> QED BY <3>2, <3>3, <3>4, <3>6, <4>1
    <3> QED BY <3>5, <3>6
  <2>3. DOMAIN chain' = 1..(n + 2) /\ socket' = socket
    BY <1>2, <1>3
  <2> QED BY <2>1, <2>2, <2>3 DEF OperationsAreOnce
<1>10. ChainIsInOrder'
  <2>1. \A i, j \in 1..(n + 2) :
          (i < j /\ (FirstPart(i)' <=> FirstPart(j)'))
            => chain'[i].of <= chain'[j].of
    <3> SUFFICES ASSUME NEW i \in 1..(n + 2), NEW j \in 1..(n + 2), i < j,
                        FirstPart(i)' <=> FirstPart(j)'
                 PROVE  chain'[i].of <= chain'[j].of
      OBVIOUS
    <3>1. CASE j \in 1..n
      <4>1. i \in 1..n
        BY <1>3, <3>1
      <4> QED BY <1>3, <3>1, <4>1 DEF ChainIsSound, ChainIsInOrder, FirstPart
    <3>2. CASE j \notin 1..n
      BY <1>1, <1>3, <1>5, <1>7, <3>2
    <3> QED BY <3>1, <3>2
  <2>2. \A i \in 1..(n + 2) :
          IF FirstPart(i)' THEN remote' <= chain'[i].of
          ELSE local' < chain'[i].of /\ chain'[i].of <= created'
    BY <1>1, <1>2, <1>3, <1>5, <1>8
       DEF ChainIsSound, ChainIsInOrder, FirstPart
  <2> QED BY <1>2, <1>3, <1>6, <1>8, <2>1, <2>2, MarksFollow
          DEF ChainIsInOrder
<1>11. AnswersFollowOffers'
  <2>1. \A i \in 1..n :
          /\ chain[i].op = "createAnswer" =>
               IF i = 1 THEN remote = chain[i].of
               ELSE /\ chain[i - 1] = Do("setRemoteDescription", chain[i].of)
                    /\ i - 1 \in 1..n
          /\ chain[i].op = "setRemoteDescription" =>
               /\ i < n + 2 /\ i + 1 \in 1..n
               /\ chain[i + 1] = Do("createAnswer", chain[i].of)
    BY <1>3 DEF ChainIsSound, AnswersFollowOffers, n
  <2>2. n + 2 # 1 /\ (n + 2) - 1 = n + 1 /\ (n + 1) + 1 = n + 2 /\ n + 1 < n + 2
    BY <1>3
  <2>3. \A i \in 1..(n + 2) :
          /\ chain'[i].op = "createAnswer" =>
               IF i = 1 THEN remote' = chain'[i].of
               ELSE chain'[i - 1] = Do("setRemoteDescription", chain'[i].of)
          /\ chain'[i].op = "setRemoteDescription" =>
               /\ i < Len(chain')
               /\ chain'[i + 1] = Do("createAnswer", chain'[i].of)
    BY <1>1, <1>2, <1>3, <1>5, <2>1, <2>2 DEF d, e
  <2>4. created' < remote' =>
          chain' # <<>> /\ chain'[1] = Do("createAnswer", remote')
    <3> SUFFICES ASSUME created < remote
                 PROVE  chain' # <<>> /\ chain'[1] = Do("createAnswer", remote)
      BY <1>2
    <3>1. chain # <<>> /\ chain[1] = Do("createAnswer", remote)
      BY MarksFollow
    <3>2. 1 \in 1..n
      BY <1>3, <3>1, EmptySeq DEF ChainTyped, n
    <3>3. 1 \in DOMAIN chain'
      BY <1>3, <3>2
    <3> QED BY <1>3, <3>1, <3>2, <3>3
  <2> QED BY <1>2, <1>3, <1>6, <2>3, <2>4, MarksFollow DEF AnswersFollowOffers
<1>12. OffersAreTaken'
  <2>1. \A i \in 1..(n + 2) :
          (chain'[i].op = "addIceCandidate" /\ ~chain'[i].early)
            => \/ chain'[i].of <= remote'
               \/ \E j \in 1..i - 1 :
                    chain'[j] = Do("setRemoteDescription", chain'[i].of)
    <3>1. ASSUME NEW i \in 1..n,
                 chain'[i].op = "addIceCandidate", ~chain'[i].early,
                 ~(chain'[i].of <= remote)
          PROVE  \E j \in 1..i - 1 :
                   chain'[j] = Do("setRemoteDescription", chain'[i].of)
      <4>1. PICK j \in 1..i - 1 :
                   chain[j] = Do("setRemoteDescription", chain[i].of)
        BY <1>3, <3>1 DEF ChainIsSound, OffersAreTaken
      <4>2. j \in 1..n
        BY <1>3, <4>1
      <4> QED BY <1>3, <4>1, <4>2
    <3> QED BY <1>1, <1>2, <1>3, <1>5, <3>1
  <2> QED BY <1>2, <1>3, <1>6, <2>1, MarksFollow DEF OffersAreTaken
<1> QED BY <1>6, <1>9, <1>10, <1>11, <1>12 DEF ChainIsSound

-----------------------------------------------------------------------------
(* What is under way to the server stays sound *)

\* What is under way to the server on a socket.
UpItem == [event : {"answer", "candidate"}, of : Socket]

\* What the invariant says about it.
UpIsSound == /\ AnswersAreCreated /\ CandidatesFollowAnswers
             /\ AnswersMatchOffers /\ OnlyOldCandidatesFail

\* The types the lemmas on it need.
UpTyped == /\ up \in [Socket -> Seq(UpItem)] /\ described \subseteq Socket
           /\ socket \in 0..MaxSockets /\ failed \in [Socket -> SUBSET Socket]
           /\ ready \in [Socket -> ReadyState] /\ created \in 0..MaxSockets

\* TypeOK says so.
LEMMA TypesOfUp == TypeOK => UpTyped
BY DEF TypeOK, SocketTypeOK, UpTyped, UpItem

\* The places of what is under way on one socket.
LEMMA ItemsOfUp ==
  ASSUME UpTyped, NEW s \in Socket
  PROVE  /\ up[s] \in Seq(UpItem) /\ Len(up[s]) \in Nat
         /\ DOMAIN up[s] = 1..Len(up[s])
         /\ \A i \in 1..Len(up[s]) : /\ up[s][i] \in UpItem
                                     /\ up[s][i].of \in Socket
<1>1. up[s] \in Seq(UpItem)
  BY DEF UpTyped
<1>2. /\ Len(up[s]) \in Nat /\ DOMAIN up[s] = 1..Len(up[s])
      /\ \A i \in 1..Len(up[s]) : up[s][i] \in UpItem
  BY <1>1, LenProperties, ElementOfSeq
<1> QED BY <1>1, <1>2 DEF UpItem

\* A message that is sent is typed.
LEMMA MessageIsItem ==
  ASSUME NEW event \in {"answer", "candidate"}, NEW s \in Socket
  PROVE  /\ Message(event, s) \in UpItem /\ Message(event, s).event = event
         /\ Message(event, s).of = s
BY DEF Message, UpItem

\* Steps that leave alone what is under way, and the server's part in it.
LEMMA UpUntouched ==
  ASSUME UpTyped, UpIsSound, UNCHANGED <<up, described, created, failed>>,
         offered \subseteq offered',
         \A s \in Socket : s \in Pending("createAnswer")'
           => s \in Pending("createAnswer") \/ s \notin offered,
         (created > 0 /\ ready'[created] = "open") => ready[created] = "open"
  PROVE  UpIsSound'
<1>1. AnswersAreCreated'
  BY DEF UpIsSound, AnswersAreCreated, Answers
<1>2. CandidatesFollowAnswers' /\ AnswersMatchOffers' /\ OnlyOldCandidatesFail'
  BY DEF UpIsSound, CandidatesFollowAnswers, AnswersMatchOffers, Answers,
         OnlyOldCandidatesFail
<1> QED BY <1>1, <1>2 DEF UpIsSound

\* What a message the page sends does to what is under way.
LEMMA SentUp ==
  ASSUME UpTyped, NEW s \in Socket, NEW m \in UpItem, SendUp(s, m)
  PROVE  /\ up' \in [Socket -> Seq(UpItem)]
         /\ \A x \in Socket : x # s => up'[x] = up[x]
         /\ IF ready[s] = "open"
            THEN /\ DOMAIN up'[s] = 1..(Len(up[s]) + 1)
                 /\ \A i \in 1..Len(up[s]) : up'[s][i] = up[s][i]
                 /\ up'[s][Len(up[s]) + 1] = m
            ELSE up'[s] = up[s]
<1>1. CASE ready[s] = "open"
  <2>1. /\ up' = [up EXCEPT ![s] = Append(@, m)] /\ up[s] \in Seq(UpItem)
        /\ up \in [Socket -> Seq(UpItem)]
    BY <1>1 DEF SendUp, UpTyped
  <2>2. /\ Append(up[s], m) \in Seq(UpItem)
        /\ DOMAIN Append(up[s], m) = 1..(Len(up[s]) + 1)
        /\ \A i \in 1..Len(up[s]) : Append(up[s], m)[i] = up[s][i]
        /\ Append(up[s], m)[Len(up[s]) + 1] = m
    BY <2>1, PutProperties
  <2> DEFINE q == Append(up[s], m)
  <2>3. up' = [up EXCEPT ![s] = q]
    BY <2>1
  <2> HIDE DEF q
  <2>4. /\ up' \in [Socket -> Seq(UpItem)] /\ up'[s] = q
        /\ \A x \in Socket : x # s => up'[x] = up[x]
    BY <2>1, <2>2, <2>3 DEF q
  <2> QED BY <1>1, <2>2, <2>4 DEF q
<1>2. CASE ready[s] # "open"
  BY <1>2 DEF SendUp, UpTyped
<1> QED BY <1>1, <1>2

\* A candidate of the page follows the answer, or belongs to an earlier
\* negotiation.
LEMMA CandidateIsFound ==
  ASSUME UpTyped, UpIsSound, ChainTyped, ChainIsSound, FindCandidate
  PROVE  /\ UpIsSound' /\ up' \in [Socket -> Seq(UpItem)]
         /\ \A x \in Socket : Answers(x)' = Answers(x)
<1> DEFINE m == Message("candidate", local)
           n == Len(up[socket])
<1>1. /\ SendUp(socket, m) /\ local # 0
      /\ UNCHANGED <<described, created, failed, offered, ready, pcVars>>
  BY DEF FindCandidate, socketVars, serverVars, pcVars
<1>2. /\ local \in Socket /\ socket \in Socket /\ local <= socket
      /\ local = socket => created = socket
  BY <1>1, MarksFollow, MaxSocketsAssumption DEF ChainTyped, UpTyped, Socket
<1>3. m \in UpItem /\ m.event = "candidate" /\ m.of = local
  BY <1>2, MessageIsItem
<1> HIDE DEF m
<1>4. /\ up' \in [Socket -> Seq(UpItem)]
      /\ \A x \in Socket : x # socket => up'[x] = up[x]
      /\ IF ready[socket] = "open"
         THEN /\ DOMAIN up'[socket] = 1..(n + 1)
              /\ \A i \in 1..n : up'[socket][i] = up[socket][i]
              /\ up'[socket][n + 1] = m
         ELSE up'[socket] = up[socket]
  BY <1>1, <1>2, <1>3, SentUp
<1>5. n \in Nat /\ DOMAIN up[socket] = 1..n
  BY <1>2, ItemsOfUp
<1> HIDE DEF n
<1>6. \A x \in Socket : /\ Answers(x)' = Answers(x)
                        /\ \A i \in Answers(x) : up'[x][i] = up[x][i]
  <2> SUFFICES ASSUME NEW x \in Socket
               PROVE  /\ Answers(x)' = Answers(x)
                      /\ \A i \in Answers(x) : up'[x][i] = up[x][i]
    OBVIOUS
  <2>1. CASE x = socket /\ ready[socket] = "open"
    <3>1. \A i \in 1..(n + 1) : i \in 1..n \/ i = n + 1
      BY <1>5
    <3>2. \A i \in 1..n : i \in 1..(n + 1)
      BY <1>5
    <3> QED BY <1>3, <1>4, <1>5, <2>1, <3>1, <3>2 DEF Answers
  <2>2. CASE x # socket \/ ready[socket] # "open"
    BY <1>4, <2>2 DEF Answers
  <2> QED BY <2>1, <2>2
<1>7. AnswersAreCreated'
  <2>1. created > 0 => created \in Socket
    BY <1>1, <1>2, MarksFollow, MaxSocketsAssumption
       DEF ChainTyped, UpTyped, Socket
  <2>2. /\ created' = created /\ described' = described /\ offered' = offered
        /\ ready' = ready
        /\ Pending("createAnswer")' = Pending("createAnswer")
    BY <1>1 DEF Pending, pcVars
  <2> QED BY <1>6, <2>1, <2>2 DEF UpIsSound, AnswersAreCreated
<1>8. AnswersMatchOffers' /\ OnlyOldCandidatesFail'
  BY <1>1, <1>6 DEF UpIsSound, AnswersMatchOffers, OnlyOldCandidatesFail
<1>9. CandidatesFollowAnswers'
  <2> SUFFICES ASSUME NEW x \in Socket, NEW i \in DOMAIN up'[x],
                      up'[x][i].event = "candidate"
               PROVE  /\ up'[x][i].of <= x
                      /\ up'[x][i].of = x =>
                           \/ x \in described
                           \/ \E j \in 1..i - 1 : up'[x][j].event = "answer"
    BY <1>1 DEF CandidatesFollowAnswers
  <2>1. CASE up'[x] = up[x]
    BY <2>1 DEF UpIsSound, CandidatesFollowAnswers
  <2>2. CASE up'[x] # up[x]
    <3>1. x = socket /\ ready[socket] = "open" /\ i \in 1..(n + 1)
      BY <1>4, <2>2
    <3>2. CASE i \in 1..n
      <4>1. \A j \in 1..i - 1 : j \in 1..n
        BY <1>5, <3>2
      <4> QED BY <1>4, <1>5, <3>1, <3>2, <4>1
              DEF UpIsSound, CandidatesFollowAnswers
    <3>3. CASE i = n + 1
      <4>1. up'[x][i] = m /\ i - 1 = n
        BY <1>4, <1>5, <3>1, <3>3
      <4>2. local = socket => x \in described \/ Answers(x) # {}
        BY <1>2, <3>1, MaxSocketsAssumption
           DEF UpIsSound, AnswersAreCreated, Socket
      <4>3. Answers(x) # {} => \E j \in 1..n : up'[x][j].event = "answer"
        BY <1>4, <1>5, <3>1 DEF Answers
      <4> QED BY <1>2, <1>3, <3>1, <4>1, <4>2, <4>3
    <3> QED BY <1>5, <3>1, <3>2, <3>3
  <2> QED BY <2>1, <2>2
<1> QED BY <1>4, <1>6, <1>7, <1>8, <1>9 DEF UpIsSound

\* The answer that is created is the first for its negotiation.
LEMMA AnswerIsSent ==
  ASSUME UpTyped, UpIsSound, ChainTyped, ChainIsSound, CreateAnswer,
         NEW s \in Socket, s = remote
  PROVE  /\ UpIsSound' /\ up' \in [Socket -> Seq(UpItem)]
         /\ \A x \in Socket : x # s => Answers(x)' = Answers(x)
         /\ Answers(s) = {}
<1> DEFINE m == Message("answer", s)
           n == Len(up[s])
<1>1. /\ SendUp(s, m) /\ created' = s /\ s \in offered
      /\ created < s /\ s \in Pending("createAnswer")
      /\ s \notin Pending("createAnswer")'
      /\ \A x : x \in Pending("createAnswer")' => x \in Pending("createAnswer")
      /\ UNCHANGED <<described, failed, offered, ready>>
  BY AnswerIsCreated
     DEF CreateAnswer, RunFirst, socketVars, serverVars, ChainTyped
<1>2. m \in UpItem /\ m.event = "answer" /\ m.of = s
  BY <1>1, MessageIsItem
<1> HIDE DEF m
<1>3. /\ up' \in [Socket -> Seq(UpItem)]
      /\ \A x \in Socket : x # s => up'[x] = up[x]
      /\ IF ready[s] = "open"
         THEN /\ DOMAIN up'[s] = 1..(n + 1)
              /\ \A i \in 1..n : up'[s][i] = up[s][i]
              /\ up'[s][n + 1] = m
         ELSE up'[s] = up[s]
  BY <1>1, <1>2, SentUp
<1>4. n \in Nat /\ DOMAIN up[s] = 1..n
  BY <1>1, ItemsOfUp
<1>5. Answers(s) = {} /\ s \notin described
  BY <1>1 DEF UpIsSound, AnswersAreCreated
<1> HIDE DEF n
<1>6. \A x \in Socket : x # s => Answers(x)' = Answers(x)
  BY <1>3 DEF Answers
<1>7. IF ready[s] = "open" THEN Answers(s)' = {n + 1} ELSE Answers(s)' = {}
  <2>1. CASE ready[s] = "open"
    <3>1. \A i \in 1..(n + 1) : i \in 1..n \/ i = n + 1
      BY <1>4
    <3>2. n + 1 \in 1..(n + 1) /\ \A i \in 1..n : up[s][i].event # "answer"
      BY <1>4, <1>5 DEF Answers
    <3> QED BY <1>2, <1>3, <2>1, <3>1, <3>2 DEF Answers
  <2>2. CASE ready[s] # "open"
    BY <1>3, <1>5, <2>2 DEF Answers
  <2> QED BY <2>1, <2>2
<1>8. AnswersAreCreated'
  <2>1. \A x \in Socket : x > s => x > created
    BY <1>1, MaxSocketsAssumption DEF ChainTyped, Socket
  <2>2. ~(s > s)
    BY DEF ChainTyped
  <2> QED BY <1>1, <1>6, <1>7, <2>1, <2>2 DEF UpIsSound, AnswersAreCreated
<1>9. AnswersMatchOffers'
  <2> SUFFICES ASSUME NEW x \in Socket,
                      NEW i \in Answers(x)', NEW j \in Answers(x)'
               PROVE  up'[x][i].of = x /\ x \notin described /\ i = j
    BY <1>1 DEF AnswersMatchOffers
  <2>1. CASE x # s
    BY <1>3, <1>6, <2>1 DEF UpIsSound, AnswersMatchOffers
  <2>2. CASE x = s
    BY <1>2, <1>3, <1>5, <1>7, <2>2
  <2> QED BY <2>1, <2>2
<1>10. CandidatesFollowAnswers'
  <2> SUFFICES ASSUME NEW x \in Socket, NEW i \in DOMAIN up'[x],
                      up'[x][i].event = "candidate"
               PROVE  /\ up'[x][i].of <= x
                      /\ up'[x][i].of = x =>
                           \/ x \in described
                           \/ \E j \in 1..i - 1 : up'[x][j].event = "answer"
    BY <1>1 DEF CandidatesFollowAnswers
  <2>1. CASE up'[x] = up[x]
    BY <2>1 DEF UpIsSound, CandidatesFollowAnswers
  <2>2. CASE up'[x] # up[x]
    <3>1. x = s /\ ready[s] = "open" /\ i \in 1..(n + 1) /\ i # n + 1
      BY <1>2, <1>3, <2>2
    <3>2. i \in 1..n /\ \A j \in 1..i - 1 : j \in 1..n
      BY <1>4, <3>1
    <3> QED BY <1>3, <1>4, <3>1, <3>2 DEF UpIsSound, CandidatesFollowAnswers
  <2> QED BY <2>1, <2>2
<1>11. OnlyOldCandidatesFail'
  BY <1>1 DEF UpIsSound, OnlyOldCandidatesFail
<1> QED BY <1>3, <1>5, <1>6, <1>8, <1>9, <1>10, <1>11 DEF UpIsSound

\* ReadLoop applies the one answer to its offer, and the candidates after it;
\* it fails only on a candidate of an earlier negotiation.
LEMMA MessageIsRead ==
  ASSUME UpTyped, UpIsSound, NEW s \in Socket, ReadMessage(s),
         UNCHANGED Pending("createAnswer")
  PROVE  /\ UpIsSound' /\ up' \in [Socket -> Seq(UpItem)]
         /\ described' \subseteq Socket /\ failed' \in [Socket -> SUBSET Socket]
         /\ \A x \in Socket : x # s => Answers(x)' = Answers(x)
         /\ IF up[s][1].event = "answer"
            THEN /\ Answers(s) # {} /\ Answers(s)' = {}
                 /\ described' = described \cup {s}
            ELSE /\ Answers(s)' = {} <=> Answers(s) = {}
                 /\ described' = described
<1> DEFINE n == Len(up[s])
           m == up[s][1]
<1>1. /\ up[s] \in Seq(UpItem) /\ up[s] # <<>>
      /\ up' = [up EXCEPT ![s] = Tail(up[s])]
      /\ UNCHANGED <<created, offered, ready>>
  BY DEF ReadMessage, UpTyped, pcVars, socketVars
<1>2. /\ Tail(up[s]) \in Seq(UpItem) /\ n \in Nat /\ n >= 1
      /\ DOMAIN up[s] = 1..n /\ DOMAIN Tail(up[s]) = 1..(n - 1)
      /\ \A i \in 1..(n - 1) : Tail(up[s])[i] = up[s][i + 1]
      /\ Head(up[s]) = m
  BY <1>1, TakenProperties
<1> DEFINE q == Tail(up[s])
<1> HIDE DEF q
<1>3. /\ up' \in [Socket -> Seq(UpItem)] /\ up'[s] = q
      /\ \A x \in Socket : x # s => up'[x] = up[x]
  <2>1. up' = [up EXCEPT ![s] = q] /\ q \in Seq(UpItem)
    BY <1>1, <1>2 DEF q
  <2> QED BY <2>1 DEF UpTyped
<1>4. /\ DOMAIN up'[s] = 1..(n - 1)
      /\ \A i \in 1..(n - 1) : up'[s][i] = up[s][i + 1]
  BY <1>2, <1>3 DEF q
<1>5. \/ /\ m.event = "answer" /\ described' = described \cup {s}
         /\ failed' = failed
      \/ /\ m.event = "candidate" /\ s \in described
         /\ described' = described /\ failed' = failed
      \/ /\ m.event = "candidate" /\ s \notin described
         /\ described' = described
         /\ failed' = [failed EXCEPT ![s] = @ \cup {m.of}]
  BY <1>2 DEF ReadMessage
<1>6. 1 \in 1..n /\ m.of \in Socket
  BY <1>2, ItemsOfUp
<1> HIDE DEF n, m
<1>7. \A x \in Socket : x # s => Answers(x)' = Answers(x)
  BY <1>3 DEF Answers
<1>8. \A i : i \in Answers(s)' <=> i \in 1..(n - 1) /\ i + 1 \in Answers(s)
  <2>1. \A i \in 1..(n - 1) : i + 1 \in 1..n
    BY <1>2
  <2> QED BY <1>2, <1>4, <2>1 DEF Answers
<1>9. m.event = "answer" =>
        /\ 1 \in Answers(s) /\ Answers(s)' = {} /\ s \notin described
        /\ m.of = s
  <2> SUFFICES ASSUME m.event = "answer"
               PROVE  /\ 1 \in Answers(s) /\ Answers(s)' = {}
                      /\ s \notin described /\ m.of = s
    OBVIOUS
  <2>1. 1 \in Answers(s)
    BY <1>2, <1>6 DEF Answers, m
  <2>2. \A i \in Answers(s) : i = 1
    BY <2>1 DEF UpIsSound, AnswersMatchOffers
  <2>3. \A i \in 1..(n - 1) : i + 1 # 1
    BY <1>2
  <2>4. Answers(s)' = {}
    BY <1>8, <2>2, <2>3
  <2> QED BY <2>1, <2>4 DEF UpIsSound, AnswersMatchOffers, m
<1>10. m.event = "candidate" => (Answers(s)' = {} <=> Answers(s) = {})
  <2>1. ASSUME m.event = "candidate", NEW i \in Answers(s)
        PROVE  i - 1 \in Answers(s)'
    <3>1. i \in 1..n /\ i # 1
      BY <1>2, <2>1 DEF Answers, m
    <3>2. i - 1 \in 1..(n - 1) /\ (i - 1) + 1 = i
      BY <1>2, <3>1
    <3> QED BY <1>8, <2>1, <3>2
  <2> QED BY <1>8, <2>1
<1>11. AnswersAreCreated'
  <2>1. created' = created /\ offered' = offered /\ ready' = ready
        /\ Pending("createAnswer")' = Pending("createAnswer")
    BY <1>1
  <2>2. ASSUME NEW x \in Socket,
               x > created \/ x \notin offered \/ x \in Pending("createAnswer")
        PROVE  Answers(x)' = {} /\ x \notin described'
    <3>1. Answers(x) = {} /\ x \notin described
      BY <2>2 DEF UpIsSound, AnswersAreCreated
    <3> QED BY <1>5, <1>7, <1>9, <1>10, <3>1
  <2>3. ASSUME created > 0, ready[created] = "open"
        PROVE  created \in described' \/ Answers(created)' # {}
    <3> PICK c \in Socket : c = created
      BY <2>3, MaxSocketsAssumption DEF UpTyped, Socket
    <3>1. c \in described \/ Answers(c) # {}
      BY <2>3 DEF UpIsSound, AnswersAreCreated
    <3>2. c \in described' \/ Answers(c)' # {}
      BY <1>5, <1>7, <1>9, <1>10, <3>1
    <3> QED BY <2>1, <3>2
  <2> QED BY <2>1, <2>2, <2>3 DEF AnswersAreCreated
<1>12. AnswersMatchOffers'
  <2> SUFFICES ASSUME NEW x \in Socket,
                      NEW i \in Answers(x)', NEW j \in Answers(x)'
               PROVE  up'[x][i].of = x /\ x \notin described' /\ i = j
    BY DEF AnswersMatchOffers
  <2>1. CASE x # s
    BY <1>3, <1>5, <1>7, <2>1 DEF UpIsSound, AnswersMatchOffers
  <2>2. CASE x = s
    <3>1. /\ i \in 1..(n - 1) /\ i + 1 \in Answers(s)
          /\ j \in 1..(n - 1) /\ j + 1 \in Answers(s)
      BY <1>8, <2>2
    <3>2. described' = described
      BY <1>5, <1>9, <2>2
    <3>3. up[s][i + 1].of = s /\ s \notin described /\ i + 1 = j + 1
      BY <3>1 DEF UpIsSound, AnswersMatchOffers
    <3> QED BY <1>2, <1>4, <2>2, <3>1, <3>2, <3>3
  <2> QED BY <2>1, <2>2
<1>13. CandidatesFollowAnswers'
  <2> SUFFICES ASSUME NEW x \in Socket, NEW i \in DOMAIN up'[x],
                      up'[x][i].event = "candidate"
               PROVE  /\ up'[x][i].of <= x
                      /\ up'[x][i].of = x =>
                           \/ x \in described'
                           \/ \E j \in 1..i - 1 : up'[x][j].event = "answer"
    BY DEF CandidatesFollowAnswers
  <2>1. CASE x # s
    BY <1>3, <1>5, <2>1 DEF UpIsSound, CandidatesFollowAnswers
  <2>2. CASE x = s
    <3>1. /\ i \in 1..(n - 1) /\ i + 1 \in 1..n /\ (i + 1) - 1 = i
          /\ up'[s][i] = up[s][i + 1]
      BY <1>2, <1>4, <2>2
    <3>2. /\ up[s][i + 1].of <= s
          /\ up[s][i + 1].of = s =>
               \/ s \in described
               \/ \E j \in 1..i : up[s][j].event = "answer"
      BY <1>2, <2>2, <3>1 DEF UpIsSound, CandidatesFollowAnswers
    <3>3. ASSUME s \notin described', NEW j \in 1..i,
                 up[s][j].event = "answer"
          PROVE  \E k \in 1..i - 1 : up'[s][k].event = "answer"
      <4>1. j # 1
        BY <1>5, <3>3 DEF m
      <4>2. j - 1 \in 1..i - 1 /\ j - 1 \in 1..(n - 1) /\ (j - 1) + 1 = j
        BY <1>2, <3>1, <4>1
      <4> QED BY <1>4, <3>3, <4>2
    <3> QED BY <1>5, <2>2, <3>1, <3>2, <3>3
  <2> QED BY <2>1, <2>2
<1>14. failed' \in [Socket -> SUBSET Socket] /\ OnlyOldCandidatesFail'
  <2>1. CASE failed' = failed
    BY <2>1 DEF UpIsSound, UpTyped, OnlyOldCandidatesFail
  <2>2. CASE failed' # failed
    <3>1. /\ m.event = "candidate" /\ s \notin described
          /\ failed' = [failed EXCEPT ![s] = @ \cup {m.of}]
      BY <1>5, <2>2
    <3>2. ~\E j \in 1..1 - 1 : up[s][j].event = "answer"
      OBVIOUS
    <3>3. m.of <= s /\ m.of # s
      BY <1>2, <1>6, <3>1, <3>2 DEF UpIsSound, CandidatesFollowAnswers, m
    <3>4. m.of < s
      BY <1>6, <3>3, MaxSocketsAssumption DEF Socket
    <3> QED BY <1>6, <3>1, <3>4 DEF UpIsSound, UpTyped, OnlyOldCandidatesFail
  <2> QED BY <2>1, <2>2
<1>15. described' \subseteq Socket
  BY <1>5 DEF UpTyped
<1> QED
  BY <1>3, <1>5, <1>7, <1>9, <1>10, <1>11, <1>12, <1>13, <1>14, <1>15
     DEF UpIsSound, m

-----------------------------------------------------------------------------
(* The steps, one conjunct of the invariant after the other *)

\* Every step is one of the page's socket, or leaves it alone.
LEMMA SocketStays ==
  SocketInvariant /\ [SignalingNext]_vars => SocketInvariant'
<1> SUFFICES ASSUME [SignalingNext]_vars
             PROVE  [Next]_socketVars
  BY StepPreserves
<1>1. CASE ServerStep
  BY <1>1 DEF ServerStep, Accept, HubAdds, Negotiate, SendOffer, SendCandidate,
              ReadMessage, ReadFails
<1>2. CASE ChainStep
  BY <1>2 DEF ChainStep, SetRemoteDescription, CreateAnswer,
              SetLocalDescription, AddIceCandidate, RunFirst
<1>3. CASE FindCandidate
  BY <1>3 DEF FindCandidate
<1>4. CASE PageStep
  BY <1>4 DEF PageStep, SocketStep, Next
<1>5. CASE \E s \in Socket : MessageStep(s)
  BY <1>5 DEF MessageStep, ReceiveOffer, ReceiveCandidate
<1>6. CASE UNCHANGED vars
  BY <1>6 DEF vars
<1> QED BY <1>1, <1>2, <1>3, <1>4, <1>5, <1>6 DEF SignalingNext

\* What a step of the page's socket may do to a connection.
LEMMA ConnectionsChange ==
  ASSUME SocketInvariant, PageStep,
         down \in [Socket -> Seq({"offer", "candidate"})]
  PROVE  /\ UNCHANGED <<serverVars, up, pcVars, found, offered, lost, failed>>
         /\ down' \in [Socket -> Seq({"offer", "candidate"})]
         /\ socket \in Nat /\ socket' \in Nat /\ socket' >= socket
         /\ \A s \in Socket :
              /\ ready'[s] = ready[s]
                   \/ (ready[s] = "none" /\ ready'[s] = "connecting")
                   \/ (ready[s] = "connecting" /\ ready'[s] = "open")
                   \/ ready'[s] = "closed"
              /\ down'[s] = down[s] \/ down'[s] = <<>>
<1> USE MaxSocketsAssumption DEF Socket, SocketInvariant, SocketTypeOK
<1>1. UNCHANGED <<serverVars, up, pcVars, found, offered, lost, failed>>
  BY DEF PageStep, SocketStep
<1>2. socket \in Nat
  OBVIOUS
<1>3. ASSUME MakeSocket
      PROVE  /\ socket' \in Nat /\ socket' >= socket
             /\ \A s \in Socket : ready'[s] = ready[s]
                  \/ (ready[s] = "none" /\ ready'[s] = "connecting")
  BY <1>3 DEF MakeSocket, OneAttempt
<1>4. ASSUME Configured \/ NotConfigured \/ SetHandlers
      PROVE  /\ socket' \in Nat /\ socket' >= socket
             /\ \A s \in Socket : ready'[s] = ready[s]
                  \/ (ready[s] = "none" /\ ready'[s] = "connecting")
  BY <1>3, <1>4 DEF Configured, NotConfigured, SetHandlers
<1>5. ASSUME NEW s \in Socket, Opens(s)
      PROVE  socket' = socket /\ \A x \in Socket : ready'[x] = ready[x]
               \/ (ready[x] = "connecting" /\ ready'[x] = "open")
  BY <1>5 DEF Opens
<1>6. ASSUME NEW s \in Socket, Closes(s)
      PROVE  /\ socket' = socket
             /\ \A x \in Socket : ready'[x] = ready[x] \/ ready'[x] = "closed"
  BY <1>6 DEF Closes
<1>7. ASSUME NEW s \in Socket, TimerFires(s)
      PROVE  /\ socket' \in Nat /\ socket' >= socket
             /\ \A x \in Socket : ready'[x] = ready[x]
                  \/ (ready[x] = "none" /\ ready'[x] = "connecting")
  BY <1>3, <1>7 DEF TimerFires
<1>8. /\ down' \in [Socket -> Seq({"offer", "candidate"})]
      /\ \A x \in Socket : down'[x] = down[x] \/ down'[x] = <<>>
  <2>1. CASE down' = down
    BY <2>1
  <2>2. CASE \E s \in Socket : down' = [down EXCEPT ![s] = <<>>]
    <3>1. <<>> \in Seq({"offer", "candidate"})
      BY EmptySeq
    <3> QED BY <2>2, <3>1
  <2> QED BY <2>1, <2>2 DEF PageStep
<1> HIDE MaxSocketsAssumption DEF Socket, SocketInvariant, SocketTypeOK
<1>9. CASE Configured \/ NotConfigured \/ SetHandlers
  BY <1>1, <1>2, <1>4, <1>8, <1>9
<1>10. CASE \E s \in Socket : Opens(s) \/ Closes(s) \/ TimerFires(s)
  <2>1. socket' = socket => socket' >= socket /\ socket' \in Nat
    BY <1>2
  <2> QED BY <1>1, <1>2, <1>5, <1>6, <1>7, <1>8, <1>10, <2>1
<1> QED BY <1>9, <1>10 DEF PageStep, SocketStep

\* A message comes over the newest socket, an offer for the first time.
LEMMA MessageIsNewest ==
  ASSUME SignalingInvariant, NEW s \in Socket
  PROVE  /\ ready[s] = "open" => s = socket
         /\ ReceiveOffer(s) => /\ s \notin offered \cup dropped
                               /\ handler[s] \in {"read", "done"}
<1>1. ready[s] = "open" => s = socket
  BY MaxSocketsAssumption
     DEF SignalingInvariant, SocketInvariant, SocketTypeOK, OneAttempt, Socket
<1>2. ASSUME ReceiveOffer(s)
      PROVE  /\ s \notin offered \cup dropped
             /\ handler[s] \in {"read", "done"}
  <2>1. down[s] \in Seq({"offer", "candidate"}) /\ down[s] # <<>>
        /\ Head(down[s]) = "offer"
    BY <1>2 DEF ReceiveOffer, SignalingInvariant, TypeOK
  <2>2. 1 \in DOMAIN down[s] /\ down[s][1] = "offer"
    BY <2>1, TakenProperties
  <2> QED BY <2>2 DEF SignalingInvariant, OffersAreSent, OfferIsSent
<1> QED BY <1>1, <1>2

\* Running an operation leaves nothing pending that was not.
LEMMA RunLeavesPending ==
  ASSUME ChainTyped, ChainIsSound, NEW op, RunFirst(op, <<>>), NEW p, NEW s,
         s \in Pending(p)'
  PROVE  s \in Pending(p)
<1>1. /\ Len(chain) \in Nat /\ Len(chain) >= 1
      /\ DOMAIN chain' = 1..(Len(chain) - 1)
      /\ \A i \in 1..(Len(chain) - 1) : chain'[i] = chain[i + 1]
  BY ChainRun
<1> QED BY <1>1, PendingShifts

\* The chain stays sound in every step.
LEMMA ChainStaysSound ==
  ASSUME SignalingInvariant, [SignalingNext]_vars
  PROVE  /\ ChainIsSound'
         /\ \A s \in Socket : s \in Pending("createAnswer")'
              => s \in Pending("createAnswer") \/ s \notin offered
<1>1. ChainTyped /\ ChainIsSound /\ socket \in Nat
  BY TypesOfChain DEF SignalingInvariant, ChainIsSound, ChainTyped
<1>2. ASSUME UNCHANGED <<pcVars, offered>>, socket' \in Nat, socket' >= socket
      PROVE  ChainIsSound' /\ Pending("createAnswer")' = Pending("createAnswer")
  BY <1>1, <1>2, ChainUntouched DEF Pending, pcVars
<1>3. socket' = socket => socket' \in Nat /\ socket' >= socket
  BY <1>1
<1>4. CASE ServerStep
  BY <1>2, <1>3, <1>4
     DEF ServerStep, Accept, HubAdds, Negotiate, SendOffer, SendCandidate,
         ReadMessage, ReadFails, socketVars
<1>5. CASE SetRemoteDescription
  BY <1>1, <1>5, OfferIsTaken, RunLeavesPending DEF SetRemoteDescription
<1>6. CASE CreateAnswer
  BY <1>1, <1>6, AnswerIsCreated
<1>7. CASE SetLocalDescription
  BY <1>1, <1>7, AnswerIsSettled, RunLeavesPending DEF SetLocalDescription
<1>8. CASE AddIceCandidate
  BY <1>1, <1>8, CandidateIsAdded, RunLeavesPending DEF AddIceCandidate
<1>9. CASE FindCandidate
  BY <1>2, <1>3, <1>9 DEF FindCandidate, socketVars
<1>10. CASE PageStep
  BY <1>2, <1>10, ConnectionsChange DEF SignalingInvariant, TypeOK
<1>11. ASSUME NEW s \in Socket, MessageStep(s)
       PROVE  /\ ChainIsSound'
              /\ \A x \in Socket : x \in Pending("createAnswer")'
                   => x \in Pending("createAnswer") \/ x \notin offered
  <2>1. s = socket
    BY <1>11, MessageIsNewest DEF MessageStep, ReceiveOffer, ReceiveCandidate
  <2>2. CASE ReceiveOffer(s)
    BY <1>1, <2>1, <2>2, MessageIsNewest, OfferIsReceived
  <2>3. CASE ReceiveCandidate(s)
    BY <1>1, <2>1, <2>3, CandidateIsReceived
  <2> QED BY <1>11, <2>2, <2>3 DEF MessageStep
<1>12. CASE UNCHANGED vars
  BY <1>2, <1>3, <1>12 DEF vars, socketVars
<1> QED
  BY <1>4, <1>5, <1>6, <1>7, <1>8, <1>9, <1>10, <1>11, <1>12
     DEF SignalingNext, ChainStep

\* What is under way to the server stays sound in every step.
LEMMA UpStaysSound ==
  ASSUME SignalingInvariant, [SignalingNext]_vars
  PROVE  /\ UpIsSound' /\ up' \in [Socket -> Seq(UpItem)]
         /\ described' \subseteq Socket
         /\ failed' \in [Socket -> SUBSET Socket]
<1>1. /\ ChainTyped /\ ChainIsSound /\ UpTyped /\ UpIsSound
  BY TypesOfChain, TypesOfUp
     DEF SignalingInvariant, ChainIsSound, UpIsSound
<1>2. ASSUME UNCHANGED <<up, described, created, failed>>,
             offered \subseteq offered',
             (created > 0 /\ ready'[created] = "open")
               => ready[created] = "open"
      PROVE  /\ UpIsSound' /\ up' \in [Socket -> Seq(UpItem)]
             /\ described' \subseteq Socket
             /\ failed' \in [Socket -> SUBSET Socket]
  <2>1. UpIsSound'
    BY <1>1, <1>2, ChainStaysSound, UpUntouched
  <2> QED BY <1>1, <1>2, <2>1 DEF UpTyped
<1>3. ASSUME NEW s \in Socket, ReadMessage(s)
      PROVE  /\ UpIsSound' /\ up' \in [Socket -> Seq(UpItem)]
             /\ described' \subseteq Socket
             /\ failed' \in [Socket -> SUBSET Socket]
  <2>1. UNCHANGED Pending("createAnswer")
    BY <1>3 DEF ReadMessage, Pending, pcVars
  <2> QED BY <1>1, <1>3, <2>1, MessageIsRead
<1>4. ASSUME NEW s \in Socket,
             \/ Accept(s) \/ HubAdds(s) \/ Negotiate(s)
             \/ SendOffer(s) \/ SendCandidate(s) \/ ReadFails(s)
      PROVE  UNCHANGED <<up, described, created, failed, offered, ready>>
  BY <1>4 DEF Accept, HubAdds, Negotiate, SendOffer, SendCandidate, ReadFails,
              pcVars, socketVars
<1>5. CASE SetRemoteDescription \/ SetLocalDescription \/ AddIceCandidate
  BY <1>2, <1>5 DEF SetRemoteDescription, SetLocalDescription,
                    AddIceCandidate, RunFirst, serverVars, socketVars
<1>6. CASE CreateAnswer
  <2>1. PICK s \in Socket : s = remote
    BY <1>1, <1>6, AnswerIsCreated DEF ChainTyped, CreateAnswer
  <2>2. UNCHANGED <<described, failed>>
    BY <1>6 DEF CreateAnswer, RunFirst, serverVars
  <2> QED BY <1>1, <1>6, <2>1, <2>2, AnswerIsSent DEF UpTyped
<1>7. CASE FindCandidate
  <2>1. UNCHANGED <<described, failed>>
    BY <1>7 DEF FindCandidate, serverVars
  <2> QED BY <1>1, <1>7, <2>1, CandidateIsFound DEF UpTyped
<1>8. CASE PageStep
  <2>1. created > 0 => created \in Socket /\ ready[created] # "connecting"
    <3>1. created > 0 => created \in offered
      BY <1>1, MarksFollow DEF ChainTyped
    <3> QED BY <1>1, <3>1
            DEF ChainTyped, SignalingInvariant, OffersAreSent, OfferIsSent
  <2>2. UNCHANGED <<up, described, created, failed, offered>>
    BY <1>8, ConnectionsChange
       DEF SignalingInvariant, TypeOK, serverVars, pcVars
  <2>3. \A s \in Socket : ready'[s] = "open" =>
          ready[s] = "open" \/ ready[s] = "connecting"
    BY <1>8, ConnectionsChange DEF SignalingInvariant, TypeOK
  <2> QED BY <1>2, <2>1, <2>2, <2>3
<1>9. ASSUME NEW s \in Socket, MessageStep(s)
      PROVE  /\ UNCHANGED <<up, described, created, failed, ready>>
             /\ offered \subseteq offered'
  BY <1>9 DEF MessageStep, ReceiveOffer, ReceiveCandidate, serverVars,
              socketVars
<1>10. CASE UNCHANGED vars
  BY <1>2, <1>10 DEF vars, serverVars, pcVars, socketVars
<1>11. CASE ServerStep
  BY <1>2, <1>3, <1>4, <1>11 DEF ServerStep
<1>12. CASE \E s \in Socket : MessageStep(s)
  BY <1>2, <1>9, <1>12
<1> QED
  BY <1>5, <1>6, <1>7, <1>8, <1>10, <1>11, <1>12 DEF SignalingNext, ChainStep

\* What is under way to the page on a socket.
Downward == {"offer", "candidate"}

\* What the handler's send does to what is under way to the page.
LEMMA SentDown ==
  ASSUME down \in [Socket -> Seq(Downward)], NEW s \in Socket,
         NEW m \in Downward, Emit(s, m)
  PROVE  /\ down' \in [Socket -> Seq(Downward)]
         /\ \A x \in Socket : x # s => down'[x] = down[x]
         /\ IF s \in known
            THEN /\ Len(down[s]) \in Nat /\ DOMAIN down[s] = 1..Len(down[s])
                 /\ DOMAIN down'[s] = 1..(Len(down[s]) + 1)
                 /\ \A i \in 1..Len(down[s]) : down'[s][i] = down[s][i]
                 /\ down'[s][Len(down[s]) + 1] = m
            ELSE down'[s] = down[s]
<1>1. CASE s \in known
  <2> DEFINE q == Append(down[s], m)
  <2>1. down' = [down EXCEPT ![s] = q] /\ down[s] \in Seq(Downward)
    BY <1>1 DEF Emit
  <2>2. /\ q \in Seq(Downward) /\ Len(down[s]) \in Nat
        /\ DOMAIN down[s] = 1..Len(down[s])
        /\ DOMAIN q = 1..(Len(down[s]) + 1)
        /\ \A i \in 1..Len(down[s]) : q[i] = down[s][i]
        /\ q[Len(down[s]) + 1] = m
    BY <2>1, PutProperties
  <2> HIDE DEF q
  <2>3. /\ down' \in [Socket -> Seq(Downward)] /\ down'[s] = q
        /\ \A x \in Socket : x # s => down'[x] = down[x]
    BY <2>1, <2>2
  <2> QED BY <1>1, <2>2, <2>3
<1>2. CASE s \notin known
  BY <1>2 DEF Emit
<1> QED BY <1>1, <1>2

\* What taking a message does to what is under way to the page.
LEMMA TakenDown ==
  ASSUME down \in [Socket -> Seq(Downward)], NEW s \in Socket,
         down[s] # <<>>, down' = [down EXCEPT ![s] = Tail(@)]
  PROVE  /\ down' \in [Socket -> Seq(Downward)]
         /\ \A x \in Socket : x # s => down'[x] = down[x]
         /\ Len(down[s]) \in Nat /\ Len(down[s]) >= 1
         /\ DOMAIN down[s] = 1..Len(down[s]) /\ Head(down[s]) = down[s][1]
         /\ DOMAIN down'[s] = 1..(Len(down[s]) - 1)
         /\ \A i \in 1..(Len(down[s]) - 1) : down'[s][i] = down[s][i + 1]
<1> DEFINE q == Tail(down[s])
<1>1. down' = [down EXCEPT ![s] = q] /\ down[s] \in Seq(Downward)
  OBVIOUS
<1>2. /\ q \in Seq(Downward) /\ Len(down[s]) \in Nat /\ Len(down[s]) >= 1
      /\ DOMAIN down[s] = 1..Len(down[s]) /\ Head(down[s]) = down[s][1]
      /\ DOMAIN q = 1..(Len(down[s]) - 1)
      /\ \A i \in 1..(Len(down[s]) - 1) : q[i] = down[s][i + 1]
  BY <1>1, TakenProperties
<1> HIDE DEF q
<1>3. /\ down' \in [Socket -> Seq(Downward)] /\ down'[s] = q
      /\ \A x \in Socket : x # s => down'[x] = down[x]
  BY <1>1, <1>2
<1> QED BY <1>2, <1>3

\* A socket nothing happens to, or that is opened or closed.
LEMMA OfferStaysSent ==
  ASSUME NEW s \in Socket, OfferIsSent(s),
         down'[s] = down[s] \/ down'[s] = <<>>,
         handler[s] \in {"read", "done"} => handler'[s] \in {"read", "done"},
         s \in offered' <=> s \in offered, s \in dropped' <=> s \in dropped,
         ready[s] \in {"open", "closed"} => ready'[s] \in {"open", "closed"}
  PROVE  OfferIsSent(s)'
<1>1. CASE down'[s] = down[s]
  BY <1>1 DEF OfferIsSent
<1>2. CASE down'[s] = <<>>
  <2>1. DOMAIN down'[s] = {}
    BY <1>2
  <2> QED BY <2>1 DEF OfferIsSent
<1> QED BY <1>1, <1>2

\* An offer is sent once, and reaches the page once, in every step.
LEMMA OffersStaySent ==
  ASSUME SignalingInvariant, [SignalingNext]_vars
  PROVE  OffersAreSent' /\ down' \in [Socket -> Seq(Downward)]
<1>1. /\ OffersAreSent /\ down \in [Socket -> Seq(Downward)]
      /\ handler \in [Socket -> HandlerLocation]
  BY DEF SignalingInvariant, TypeOK, Downward
<1>2. ASSUME UNCHANGED <<down, handler, dropped, offered, ready>>
      PROVE  OffersAreSent' /\ down' \in [Socket -> Seq(Downward)]
  BY <1>1, <1>2, OfferStaysSent DEF OffersAreSent
<1>3. ASSUME NEW s \in Socket, Accept(s) \/ Negotiate(s) \/ ReadFails(s)
      PROVE  OffersAreSent' /\ down' \in [Socket -> Seq(Downward)]
  <2>1. /\ UNCHANGED <<down, dropped, offered, ready>>
        /\ \A x \in Socket : handler[x] \in {"read", "done"}
                               => handler'[x] \in {"read", "done"}
    BY <1>1, <1>3 DEF Accept, Negotiate, ReadFails, socketVars
  <2> QED BY <1>1, <2>1, OfferStaysSent DEF OffersAreSent
<1>4. ASSUME NEW s \in Socket, SendOffer(s)
      PROVE  OffersAreSent' /\ down' \in [Socket -> Seq(Downward)]
  <2>1. /\ handler[s] = "offer" /\ handler' = [handler EXCEPT ![s] = "read"]
        /\ Emit(s, "offer") /\ UNCHANGED <<offered, ready>>
        /\ dropped' = IF s \in known THEN dropped ELSE dropped \cup {s}
    BY <1>4 DEF SendOffer, socketVars
  <2>2. s \notin offered \cup dropped
        /\ \A i \in DOMAIN down[s] : down[s][i] # "offer"
    BY <1>1, <2>1 DEF OffersAreSent, OfferIsSent
  <2> DEFINE n == Len(down[s])
  <2>3. /\ down' \in [Socket -> Seq(Downward)]
        /\ \A x \in Socket : x # s => down'[x] = down[x]
        /\ IF s \in known
           THEN /\ n \in Nat /\ DOMAIN down[s] = 1..n
                /\ DOMAIN down'[s] = 1..(n + 1)
                /\ \A i \in 1..n : down'[s][i] = down[s][i]
                /\ down'[s][n + 1] = "offer"
           ELSE down'[s] = down[s]
    BY <1>1, <2>1, SentDown DEF Downward
  <2> HIDE DEF n
  <2>4. ASSUME NEW x \in Socket, x # s
        PROVE  OfferIsSent(x)'
    BY <1>1, <2>1, <2>3, <2>4, OfferStaysSent DEF OffersAreSent
  <2>5. OfferIsSent(s)'
    <3>1. handler'[s] = "read"
      BY <1>1, <2>1
    <3>2. CASE s \in known
      <4>1. \A i \in 1..(n + 1) : i \in 1..n \/ i = n + 1
        BY <2>3, <3>2
      <4> QED BY <2>1, <2>2, <2>3, <3>1, <3>2, <4>1 DEF OfferIsSent
    <3>3. CASE s \notin known
      BY <2>1, <2>2, <2>3, <3>1, <3>3 DEF OfferIsSent
    <3> QED BY <3>2, <3>3
  <2> QED BY <2>3, <2>4, <2>5 DEF OffersAreSent
<1>5. ASSUME NEW s \in Socket, SendCandidate(s)
      PROVE  OffersAreSent' /\ down' \in [Socket -> Seq(Downward)]
  <2>1. Emit(s, "candidate") /\ UNCHANGED <<handler, dropped, offered, ready>>
    BY <1>5 DEF SendCandidate, socketVars
  <2> DEFINE n == Len(down[s])
  <2>2. /\ down' \in [Socket -> Seq(Downward)]
        /\ \A x \in Socket : x # s => down'[x] = down[x]
        /\ IF s \in known
           THEN /\ n \in Nat /\ DOMAIN down[s] = 1..n
                /\ DOMAIN down'[s] = 1..(n + 1)
                /\ \A i \in 1..n : down'[s][i] = down[s][i]
                /\ down'[s][n + 1] = "candidate"
           ELSE down'[s] = down[s]
    BY <1>1, <2>1, SentDown DEF Downward
  <2> HIDE DEF n
  <2>3. ASSUME NEW x \in Socket, down'[x] = down[x]
        PROVE  OfferIsSent(x)'
    BY <1>1, <2>1, <2>3, OfferStaysSent DEF OffersAreSent
  <2>4. CASE s \in known
    <3>1. \A i \in 1..(n + 1) : i \in 1..n \/ i = n + 1
      BY <2>2, <2>4
    <3>2. OfferIsSent(s)'
      BY <1>1, <2>1, <2>2, <2>4, <3>1 DEF OffersAreSent, OfferIsSent
    <3> QED BY <2>2, <2>3, <3>2 DEF OffersAreSent
  <2> QED BY <2>2, <2>3, <2>4 DEF OffersAreSent
<1>6. ASSUME NEW s \in Socket, MessageStep(s)
      PROVE  OffersAreSent' /\ down' \in [Socket -> Seq(Downward)]
  <2>1. /\ ready[s] = "open" /\ down[s] # <<>>
        /\ down' = [down EXCEPT ![s] = Tail(@)]
        /\ UNCHANGED <<handler, dropped, ready>>
        /\ \/ offered' = offered
           \/ ReceiveOffer(s) /\ offered' = offered \cup {s}
                /\ Head(down[s]) = "offer"
    BY <1>6 DEF MessageStep, ReceiveOffer, ReceiveCandidate, serverVars,
                socketVars
  <2> DEFINE n == Len(down[s])
  <2>2. /\ down' \in [Socket -> Seq(Downward)]
        /\ \A x \in Socket : x # s => down'[x] = down[x]
        /\ n \in Nat /\ n >= 1 /\ DOMAIN down[s] = 1..n
        /\ Head(down[s]) = down[s][1] /\ DOMAIN down'[s] = 1..(n - 1)
        /\ \A i \in 1..(n - 1) : down'[s][i] = down[s][i + 1]
    BY <1>1, <2>1, TakenDown
  <2> HIDE DEF n
  <2>3. \A i \in 1..(n - 1) : i + 1 \in 1..n /\ i + 1 # 1
    BY <2>2
  <2>4. 1 \in 1..n
    BY <2>2
  <2>5. ASSUME NEW x \in Socket, x # s
        PROVE  OfferIsSent(x)'
    BY <1>1, <2>1, <2>2, <2>5, OfferStaysSent DEF OffersAreSent
  <2>6. OfferIsSent(s)'
    <3>1. CASE offered' = offered
      <4>1. \A i, j \in 1..(n - 1) : i + 1 = j + 1 => i = j
        BY <2>2
      <4> QED BY <1>1, <2>1, <2>2, <2>3, <3>1, <4>1
              DEF OffersAreSent, OfferIsSent
    <3>2. CASE ReceiveOffer(s) /\ offered' = offered \cup {s}
                 /\ Head(down[s]) = "offer"
      <4>1. \A i \in 1..(n - 1) : down'[s][i] # "offer"
        <5>1. down[s][1] = "offer" /\ 1 \in DOMAIN down[s]
          BY <2>2, <2>4, <3>2
        <5>3. OfferIsSent(s)
          BY <1>1 DEF OffersAreSent
        <5>2. ASSUME NEW i \in DOMAIN down[s], down[s][i] = "offer"
              PROVE  i = 1
          BY <5>1, <5>2, <5>3 DEF OfferIsSent
        <5> QED BY <2>2, <2>3, <5>2
      <4>2. s \notin dropped /\ handler[s] \in {"read", "done"}
        BY <3>2, MessageIsNewest
      <4> QED BY <2>1, <2>2, <4>1, <4>2 DEF OfferIsSent
    <3> QED BY <2>1, <3>1, <3>2
  <2> QED BY <2>2, <2>5, <2>6 DEF OffersAreSent
<1>7. CASE PageStep
  <2>1. /\ UNCHANGED <<handler, dropped, offered>>
        /\ down' \in [Socket -> Seq(Downward)]
        /\ \A s \in Socket :
             /\ down'[s] = down[s] \/ down'[s] = <<>>
             /\ ready[s] \in {"open", "closed"}
                  => ready'[s] \in {"open", "closed"}
    BY <1>1, <1>7, ConnectionsChange
       DEF SignalingInvariant, Downward, serverVars
  <2> QED BY <1>1, <2>1, OfferStaysSent DEF OffersAreSent
<1>8. ASSUME NEW s \in Socket, ReadMessage(s)
      PROVE  OffersAreSent' /\ down' \in [Socket -> Seq(Downward)]
  <2>1. /\ UNCHANGED <<down, dropped, offered, ready>>
        /\ \A x \in Socket : handler[x] \in {"read", "done"}
                               => handler'[x] \in {"read", "done"}
    BY <1>1, <1>8 DEF ReadMessage, socketVars
  <2> QED BY <1>1, <2>1, OfferStaysSent DEF OffersAreSent
<1>9. ASSUME \/ \E s \in Socket : HubAdds(s)
             \/ ChainStep \/ FindCandidate \/ UNCHANGED vars
      PROVE  UNCHANGED <<down, handler, dropped, offered, ready>>
  BY <1>9 DEF HubAdds, ChainStep, SetRemoteDescription, CreateAnswer,
              SetLocalDescription, AddIceCandidate, RunFirst, FindCandidate,
              vars, serverVars, socketVars
<1> QED
  BY <1>2, <1>3, <1>4, <1>5, <1>6, <1>7, <1>8, <1>9
     DEF SignalingNext, ServerStep

\* Only early candidates get lost, in every step.
LEMMA LostStaysEarly ==
  ASSUME SignalingInvariant, [SignalingNext]_vars
  PROVE  /\ OnlyEarlyCandidatesAreLost'
         /\ \A o \in lost' : o.op = "addIceCandidate"
<1>1. /\ ChainTyped /\ ChainIsSound /\ \A o \in lost : o.early
      /\ \A o \in lost : o.op = "addIceCandidate"
  BY TypesOfChain DEF SignalingInvariant, TypeOK, ChainIsSound,
                      OnlyEarlyCandidatesAreLost
<1>2. ~AddIceCandidate => lost' = lost
  BY ConnectionsChange
     DEF SignalingInvariant, TypeOK, SignalingNext, ServerStep, Accept, HubAdds,
         Negotiate, SendOffer, SendCandidate, ReadMessage, ReadFails, ChainStep,
         SetRemoteDescription, CreateAnswer, SetLocalDescription, FindCandidate,
         MessageStep, ReceiveOffer, ReceiveCandidate, vars
<1>3. CASE AddIceCandidate
  <2>1. lost' = lost \/
          (lost' = lost \cup {chain[1]} /\ chain[1].early
             /\ chain[1].op = "addIceCandidate")
    BY <1>1, <1>3, CandidateIsAdded
  <2> QED BY <1>1, <2>1 DEF OnlyEarlyCandidatesAreLost
<1> QED BY <1>1, <1>2, <1>3 DEF OnlyEarlyCandidatesAreLost

\* Every variable keeps its type.
LEMMA TypeStays ==
  ASSUME SignalingInvariant, [SignalingNext]_vars
  PROVE  TypeOK'
<1>1. TypeOK
  BY DEF SignalingInvariant
<1>2. SocketTypeOK'
  BY SocketStays DEF SignalingInvariant, SocketInvariant
<1>3. down' \in [Socket -> Seq({"offer", "candidate"})]
  BY OffersStaySent DEF Downward
<1>4. /\ up' \in [Socket -> Seq(UpItem)] /\ described' \subseteq Socket
      /\ failed' \in [Socket -> SUBSET Socket]
  BY UpStaysSound
<1>5. \A o \in lost' : o.op = "addIceCandidate"
  BY LostStaysEarly
<1>6. /\ handler' \in [Socket -> HandlerLocation]
      /\ known' \cup dropped' \subseteq Socket
      /\ gathered' \in [Socket -> 0..MaxServerCandidates]
      /\ offered' \subseteq Socket
  <2>1. CASE ServerStep
    <3>1. UNCHANGED offered
      BY <2>1
         DEF ServerStep, Accept, HubAdds, Negotiate, SendOffer, SendCandidate,
             ReadMessage, ReadFails
    <3>2. handler' \in [Socket -> HandlerLocation]
      BY <1>1, <2>1
         DEF TypeOK, ServerStep, Accept, HubAdds, Negotiate, SendOffer,
             SendCandidate, ReadMessage, ReadFails, HandlerLocation
    <3>3. known' \cup dropped' \subseteq Socket
      BY <1>1, <2>1
         DEF TypeOK, ServerStep, Accept, HubAdds, Negotiate, SendOffer,
             SendCandidate, ReadMessage, ReadFails
    <3>4. gathered' \in [Socket -> 0..MaxServerCandidates]
      <4>1. ASSUME NEW s \in Socket, SendCandidate(s)
            PROVE  gathered' \in [Socket -> 0..MaxServerCandidates]
        <5>1. /\ gathered \in [Socket -> 0..MaxServerCandidates]
              /\ gathered[s] < MaxServerCandidates
              /\ gathered' = [gathered EXCEPT ![s] = gathered[s] + 1]
          BY <1>1, <4>1 DEF TypeOK, SendCandidate
        <5>2. gathered[s] + 1 \in 0..MaxServerCandidates
          BY <5>1, CandidatesAssumption
        <5> QED BY <5>1, <5>2
      <4>2. (\A s \in Socket : ~SendCandidate(s)) => gathered' = gathered
        BY <2>1 DEF ServerStep, Accept, HubAdds, Negotiate, SendOffer,
                    ReadMessage, ReadFails
      <4> QED BY <1>1, <4>1, <4>2 DEF TypeOK
    <3> QED BY <1>1, <3>1, <3>2, <3>3, <3>4 DEF TypeOK
  <2>2. CASE ChainStep \/ FindCandidate \/ PageStep \/ UNCHANGED vars
    <3>1. UNCHANGED <<handler, known, dropped, gathered, offered>>
      BY <2>2 DEF ChainStep, SetRemoteDescription, CreateAnswer,
                  SetLocalDescription, AddIceCandidate, RunFirst,
                  FindCandidate, PageStep, SocketStep, vars, serverVars
    <3> QED BY <1>1, <3>1 DEF TypeOK
  <2>3. CASE \E s \in Socket : MessageStep(s)
    BY <1>1, <2>3 DEF TypeOK, MessageStep, ReceiveOffer, ReceiveCandidate,
                      serverVars
  <2> QED BY <2>1, <2>2, <2>3 DEF SignalingNext
<1>7. chain' \in Seq(ChainItem)
  <2>1. ChainTyped
    BY <1>1, TypesOfChain
  <2>2. CASE UNCHANGED chain
    BY <2>1, <2>2 DEF ChainTyped
  <2>3. ASSUME NEW op, RunFirst(op, <<>>)
        PROVE  chain' \in Seq(ChainItem)
    BY <2>1, <2>3, ChainRun
  <2>4. CASE SetRemoteDescription \/ SetLocalDescription \/ AddIceCandidate
    BY <2>3, <2>4
       DEF SetRemoteDescription, SetLocalDescription, AddIceCandidate
  <2>5. CASE CreateAnswer
    <3>1. ASSUME RunFirst("createAnswer",
                          <<Do("setLocalDescription", Head(chain).of)>>)
          PROVE  chain' \in Seq(ChainItem)
      <4>1. Head(chain).of \in Socket
        BY <2>1, <3>1, HeadOfChain DEF RunFirst
      <4>2. Do("setLocalDescription", Head(chain).of) \in ChainItem
        BY <4>1, DoIsItem DEF Operation
      <4> QED BY <2>1, <3>1, <4>2, ChainRunAndGrown
    <3> QED BY <2>3, <2>5, <3>1 DEF CreateAnswer
  <2>6. ASSUME NEW s \in Socket, ReceiveOffer(s)
        PROVE  chain' \in Seq(ChainItem)
    <3>1. /\ Do("setRemoteDescription", s) \in ChainItem
          /\ Do("createAnswer", s) \in ChainItem
      BY DoIsItem DEF Operation
    <3> QED BY <2>1, <2>6, <3>1, PutTwoProperties DEF ReceiveOffer, ChainTyped
  <2>7. ASSUME NEW s \in Socket, ReceiveCandidate(s)
        PROVE  chain' \in Seq(ChainItem)
    <3>1. (s \notin offered) \in BOOLEAN
      OBVIOUS
    <3>2. [Do("addIceCandidate", s) EXCEPT !.early = s \notin offered]
            \in ChainItem
      BY <3>1, CandidateIsItem, Zenon
    <3> QED BY <2>1, <2>7, <3>2, PutProperties DEF ReceiveCandidate, ChainTyped
  <2>8. ASSUME ServerStep \/ FindCandidate \/ PageStep \/ UNCHANGED vars
        PROVE  UNCHANGED chain
    BY <2>8 DEF ServerStep, Accept, HubAdds, Negotiate, SendOffer,
                SendCandidate, ReadMessage, ReadFails, FindCandidate, PageStep,
                SocketStep, vars, pcVars
  <2> QED
    BY <2>2, <2>4, <2>5, <2>6, <2>7, <2>8
       DEF SignalingNext, ChainStep, MessageStep
<1>8. /\ signaling' \in {"stable", "have-remote-offer"}
      /\ {remote', created', local'} \subseteq 0..MaxSockets
      /\ found' \in 0..MaxPageCandidates
  <2>1. CASE UNCHANGED pcVars
    <3>1. ~FindCandidate => found' = found
      BY DEF SignalingNext, ServerStep, Accept, HubAdds, Negotiate, SendOffer,
             SendCandidate, ReadMessage, ReadFails, ChainStep,
             SetRemoteDescription, CreateAnswer, SetLocalDescription,
             AddIceCandidate, RunFirst, PageStep, SocketStep, MessageStep,
             ReceiveOffer, ReceiveCandidate, vars
    <3>2. FindCandidate => found < MaxPageCandidates /\ found' = found + 1
      BY DEF FindCandidate
    <3>3. found \in 0..MaxPageCandidates
      BY <1>1 DEF TypeOK
    <3>4. found' \in 0..MaxPageCandidates
      BY <3>1, <3>2, <3>3, CandidatesAssumption
    <3> QED BY <1>1, <2>1, <3>4 DEF TypeOK, pcVars
  <2>2. ASSUME ~ChainStep, \A s \in Socket : ~MessageStep(s)
        PROVE  UNCHANGED pcVars
    BY <2>2 DEF SignalingNext, ServerStep, Accept, HubAdds, Negotiate,
                SendOffer, SendCandidate, ReadMessage, ReadFails, FindCandidate,
                PageStep, SocketStep, vars
  <2>3. ASSUME NEW s \in Socket, MessageStep(s)
        PROVE  UNCHANGED <<signaling, remote, created, local, found>>
    BY <2>3 DEF MessageStep, ReceiveOffer, ReceiveCandidate
  <2>4. CASE ChainStep
    <3>1. /\ found' = found /\ Head(chain).of \in Socket
      <4>1. chain # <<>> /\ found' = found
        BY <2>4 DEF ChainStep, SetRemoteDescription, CreateAnswer,
                    SetLocalDescription, AddIceCandidate, RunFirst
      <4>2. ChainTyped
        BY <1>1, TypesOfChain
      <4> QED BY <4>1, <4>2, HeadOfChain
    <3>2. Head(chain).of \in 0..MaxSockets
      BY <3>1, MaxSocketsAssumption DEF Socket
    <3> QED BY <1>1, <2>4, <3>1, <3>2
            DEF TypeOK, ChainStep, SetRemoteDescription, CreateAnswer,
                SetLocalDescription, AddIceCandidate
  <2> QED BY <1>1, <2>1, <2>2, <2>3, <2>4 DEF TypeOK
<1> QED
  BY <1>2, <1>3, <1>4, <1>5, <1>6, <1>7, <1>8 DEF TypeOK, UpItem, ChainItem

-----------------------------------------------------------------------------

\* The page and the server start in the invariant.
LEMMA SignalingInitEstablishes == SignalingInit => SignalingInvariant
<1> SUFFICES ASSUME SignalingInit
             PROVE  SignalingInvariant
  OBVIOUS
<1>1. SocketInvariant
  BY InitEstablishes DEF SignalingInit
<1>2. /\ socket = 0 /\ chain = <<>> /\ DOMAIN chain = {} /\ offered = {}
      /\ \A s \in Socket : down[s] = <<>> /\ up[s] = <<>>
      /\ \A s \in Socket : DOMAIN down[s] = {} /\ DOMAIN up[s] = {}
      /\ remote = 0 /\ created = 0 /\ local = 0 /\ signaling = "stable"
      /\ dropped = {} /\ described = {} /\ lost = {}
      /\ \A s \in Socket : failed[s] = {}
  BY DEF SignalingInit, Init
<1>3. TypeOK
  BY <1>1, CandidatesAssumption, MaxSocketsAssumption
     DEF SocketInvariant, SignalingInit, TypeOK, HandlerLocation
<1>4. OffersAreSent
  BY <1>2 DEF OffersAreSent, OfferIsSent
<1>5. OperationsAreOnce /\ ChainIsInOrder /\ AnswersFollowOffers
  BY <1>2
     DEF OperationsAreOnce, ChainIsInOrder, AnswersFollowOffers, Pending
<1>6. OffersAreTaken /\ AnswersAreCreated
  BY <1>2 DEF OffersAreTaken, AnswersAreCreated, Answers, Pending
<1>7. /\ CandidatesFollowAnswers /\ AnswersMatchOffers
      /\ OnlyOldCandidatesFail /\ OnlyEarlyCandidatesAreLost
  BY <1>2 DEF CandidatesFollowAnswers, AnswersMatchOffers, Answers,
              OnlyOldCandidatesFail, OnlyEarlyCandidatesAreLost
<1> QED BY <1>1, <1>3, <1>4, <1>5, <1>6, <1>7 DEF SignalingInvariant

\* Every step keeps it.
LEMMA SignalingStepPreserves ==
  SignalingInvariant /\ [SignalingNext]_vars => SignalingInvariant'
<1> SUFFICES ASSUME SignalingInvariant, [SignalingNext]_vars
             PROVE  SignalingInvariant'
  OBVIOUS
<1>1. SocketInvariant'
  BY SocketStays DEF SignalingInvariant
<1>2. TypeOK' /\ OffersAreSent' /\ OnlyEarlyCandidatesAreLost'
  BY TypeStays, OffersStaySent, LostStaysEarly
<1>3. ChainIsSound' /\ UpIsSound'
  BY ChainStaysSound, UpStaysSound
<1> QED BY <1>1, <1>2, <1>3 DEF SignalingInvariant, ChainIsSound, UpIsSound

\* The inductive invariant of signalling holds for any number of sockets,
\* messages under way and operations in the page's chain.
THEOREM SignalingInvariantHolds == SignalingSpec => []SignalingInvariant
BY SignalingInitEstablishes, SignalingStepPreserves, PTL DEF SignalingSpec

\* The server gets the answer to its own offer only, and once.
THEOREM AnswersBelongToOffers == SignalingSpec => []AnswersMatchOffers
<1>1. SignalingInvariant => AnswersMatchOffers
  BY DEF SignalingInvariant
<1> QED BY <1>1, SignalingInvariantHolds, PTL

\* ReadLoop fails only on a candidate of an earlier negotiation.
THEOREM FailuresAreOld == SignalingSpec => []OnlyOldCandidatesFail
<1>1. SignalingInvariant => OnlyOldCandidatesFail
  BY DEF SignalingInvariant
<1> QED BY <1>1, SignalingInvariantHolds, PTL

\* A server candidate that comes after its offer is never lost.
THEOREM LossesAreEarly == SignalingSpec => []OnlyEarlyCandidatesAreLost
<1>1. SignalingInvariant => OnlyEarlyCandidatesAreLost
  BY DEF SignalingInvariant
<1> QED BY <1>1, SignalingInvariantHolds, PTL

\* When all is done, the server's and the page's descriptions are those of the
\* same negotiation.
THEOREM PeersEndUpAgreeing == SignalingSpec => []PeersAgree
<1>1. SignalingInvariant => PeersAgree
  <2> SUFFICES ASSUME SignalingInvariant, Settled
               PROVE  /\ socket \in described <=> socket \in offered
                      /\ socket \in offered =>
                           /\ remote = socket /\ local = socket
                           /\ signaling = "stable"
    BY DEF PeersAgree
  <2>1. /\ ChainIsSound /\ ChainTyped /\ socket \in Socket
        /\ ready[socket] = "open" /\ Answers(socket) = {}
        /\ \A op : Pending(op) = {}
    <3>1. /\ ChainIsSound /\ ChainTyped
      BY TypesOfChain DEF SignalingInvariant, ChainIsSound
    <3>2. socket \in Socket /\ ready[socket] = "open"
      BY MaxSocketsAssumption
         DEF SignalingInvariant, Settled, TypeOK, SocketTypeOK, Socket
    <3>3. DOMAIN up[socket] = {} /\ DOMAIN chain = {}
      BY DEF Settled
    <3> QED BY <3>1, <3>2, <3>3 DEF Pending, Answers
  <2>2. socket \in described => socket \in offered
    BY <2>1 DEF SignalingInvariant, AnswersAreCreated
  <2>3. ASSUME socket \in offered
        PROVE  /\ remote = socket /\ created = socket /\ local = socket
               /\ signaling = "stable"
    <3>1. socket <= remote /\ remote <= socket /\ ~(created < remote)
          /\ ~(local < created) /\ created <= remote /\ local <= created
          /\ (signaling = "stable" <=> remote = local)
      BY <2>1, <2>3, MarksFollow DEF Settled
    <3> QED BY <2>1, <3>1 DEF ChainTyped
  <2>4. socket \in offered => socket \in described
    BY <2>1, <2>3 DEF SignalingInvariant, AnswersAreCreated, Settled
  <2> QED BY <2>2, <2>3, <2>4
<1> QED BY <1>1, SignalingInvariantHolds, PTL

\* Every step is one of Negotiation's, or changes nothing it speaks of.
LEMMA StepNegotiates ==
  SignalingInvariant /\ [SignalingNext]_vars
    => [Exchange!Next]_(Exchange!vars)
<1> SUFFICES ASSUME SignalingInvariant, [SignalingNext]_vars
             PROVE  [Exchange!Next]_(Exchange!vars)
  OBVIOUS
<1> DEFINE offers == {s \in Socket : handler[s] \in {"read", "done"}} \ dropped
           answers == {s \in Socket : Answers(s) # {}}
           Idle == /\ offers' = offers /\ answers' = answers
                   /\ UNCHANGED <<remote, created, local, described>>
<1>1. /\ ChainTyped /\ ChainIsSound /\ UpTyped /\ UpIsSound
      /\ handler \in [Socket -> HandlerLocation] /\ dropped \subseteq Socket
      /\ offered \subseteq offers
  BY TypesOfChain, TypesOfUp
     DEF SignalingInvariant, ChainIsSound, UpIsSound, TypeOK, OffersAreSent,
         OfferIsSent
<1>2. Idle => UNCHANGED Exchange!vars
  BY DEF Exchange!vars
<1>3. ASSUME UNCHANGED <<handler, dropped>>
      PROVE  offers' = offers
  BY <1>3
<1>4. ASSUME UNCHANGED up
      PROVE  answers' = answers
  BY <1>4 DEF Answers
<1>5. ASSUME NEW s \in Socket, SendOffer(s)
      PROVE  Exchange!Offer(s) \/ Idle
  <2>1. /\ handler[s] = "offer" /\ handler' = [handler EXCEPT ![s] = "read"]
        /\ dropped' = IF s \in known THEN dropped ELSE dropped \cup {s}
        /\ UNCHANGED <<remote, created, local, described, up>>
    BY <1>5 DEF SendOffer, pcVars
  <2>2. s \notin offers /\ s \notin dropped
    BY <2>1 DEF SignalingInvariant, OffersAreSent, OfferIsSent
  <2>3. CASE s \in known
    <3>1. offers' = offers \cup {s}
      BY <1>1, <2>1, <2>2, <2>3
    <3> QED BY <1>4, <2>1, <2>2, <3>1 DEF Exchange!Offer
  <2>4. CASE s \notin known
    <3>1. offers' = offers
      BY <1>1, <2>1, <2>2, <2>4
    <3> QED BY <1>4, <2>1, <3>1
  <2> QED BY <2>3, <2>4
<1>6. ASSUME NEW s \in Socket, ReadMessage(s)
      PROVE  Exchange!Agree(s) \/ Idle
  <2>1. UNCHANGED Pending("createAnswer")
        /\ UNCHANGED <<remote, created, local, dropped>>
    BY <1>6 DEF ReadMessage, Pending, pcVars
  <2>2. /\ \A x \in Socket : x # s => Answers(x)' = Answers(x)
        /\ IF up[s][1].event = "answer"
           THEN /\ Answers(s) # {} /\ Answers(s)' = {}
                /\ described' = described \cup {s}
           ELSE /\ Answers(s)' = {} <=> Answers(s) = {}
                /\ described' = described
    BY <1>1, <1>6, <2>1, MessageIsRead
  <2>3. offers' = offers
    <3>1. handler[s] = "read" /\
            (handler' = handler \/ handler' = [handler EXCEPT ![s] = "done"])
      BY <1>6 DEF ReadMessage
    <3> QED BY <1>1, <2>1, <3>1
  <2>4. CASE up[s][1].event = "answer"
    <3>1. s \in answers /\ answers' = answers \ {s}
      BY <2>2, <2>4
    <3> QED BY <2>1, <2>2, <2>3, <2>4, <3>1 DEF Exchange!Agree
  <2>5. CASE up[s][1].event # "answer"
    <3>1. answers' = answers
      BY <2>2, <2>5
    <3> QED BY <2>1, <2>2, <2>3, <2>5, <3>1
  <2> QED BY <2>4, <2>5
<1>7. ASSUME NEW s \in Socket,
             Accept(s) \/ HubAdds(s) \/ Negotiate(s) \/ SendCandidate(s)
               \/ ReadFails(s)
      PROVE  Idle
  <2>1. UNCHANGED <<remote, created, local, described, up, dropped>>
    BY <1>7
       DEF Accept, HubAdds, Negotiate, SendCandidate, ReadFails, pcVars
  <2>2. \A x \in Socket : handler[x] \in {"read", "done"}
                            <=> handler'[x] \in {"read", "done"}
    BY <1>1, <1>7 DEF Accept, HubAdds, Negotiate, SendCandidate, ReadFails
  <2>3. offers' = offers
    BY <2>1, <2>2
  <2> QED BY <1>4, <2>1, <2>3
<1>8. CASE SetRemoteDescription
  <2>1. /\ UNCHANGED <<handler, dropped, up, described, created, local>>
    BY <1>8 DEF SetRemoteDescription, RunFirst, serverVars
  <2>2. remote' \in offered /\ remote < remote'
    BY <1>1, <1>8, OfferIsTaken
  <2>3. PICK s \in Socket : s = remote' /\ s \in offers /\ s > remote
    BY <1>1, <2>2, MaxSocketsAssumption DEF ChainTyped, Socket
  <2>4. Exchange!Take(s)
    BY <1>3, <1>4, <2>1, <2>3 DEF Exchange!Take
  <2> QED BY <2>4 DEF Exchange!Next
<1>9. CASE CreateAnswer
  <2>1. UNCHANGED <<handler, dropped, described, remote, local>>
    BY <1>9 DEF CreateAnswer, RunFirst, serverVars
  <2>2. created' = remote /\ created < created' /\ created' \in offered
    BY <1>1, <1>9, AnswerIsCreated
  <2>3. PICK s \in Socket : s = remote /\ s > created /\ created' = s
    BY <1>1, <2>2, MaxSocketsAssumption DEF ChainTyped, Socket
  <2>4. \A x \in Socket : x # s => Answers(x)' = Answers(x)
    BY <1>1, <1>9, <2>3, AnswerIsSent
  <2>5. Answers(s) = {}
    BY <1>1, <1>9, <2>3, AnswerIsSent
  <2>6. answers' \in {answers, answers \cup {s}}
    BY <2>4, <2>5
  <2>7. Exchange!Answer(s)
    BY <1>3, <2>1, <2>3, <2>6 DEF Exchange!Answer
  <2> QED BY <2>7 DEF Exchange!Next
<1>10. CASE SetLocalDescription
  <2>1. UNCHANGED <<handler, dropped, up, described, remote, created>>
    BY <1>10 DEF SetLocalDescription, RunFirst, serverVars
  <2>2. CASE local' = local
    BY <1>2, <1>3, <1>4, <2>1, <2>2
  <2>3. CASE local' # local
    <3>1. /\ local < local' /\ local' = remote /\ local' = created
          /\ local' \in offered
      BY <1>1, <1>10, <2>3, AnswerIsSettled
    <3>2. PICK s \in Socket : /\ s = local' /\ s = remote /\ s = created
                              /\ s > local
      BY <1>1, <3>1, MaxSocketsAssumption DEF ChainTyped, Socket
    <3>3. Exchange!Settle(s)
      BY <1>3, <1>4, <2>1, <3>2 DEF Exchange!Settle
    <3> QED BY <3>3 DEF Exchange!Next
  <2> QED BY <2>2, <2>3
<1>11. ASSUME \/ AddIceCandidate \/ FindCandidate \/ PageStep \/ UNCHANGED vars
              \/ \E s \in Socket : MessageStep(s)
       PROVE  Idle
  <2>1. UNCHANGED <<handler, dropped, described, remote, created, local>>
    BY <1>11
       DEF AddIceCandidate, RunFirst, FindCandidate, PageStep, SocketStep,
           MessageStep, ReceiveOffer, ReceiveCandidate, vars, serverVars, pcVars
  <2>2. ~FindCandidate => up' = up
    BY <1>11
       DEF AddIceCandidate, PageStep, SocketStep, MessageStep, ReceiveOffer,
           ReceiveCandidate, vars
  <2>3. answers' = answers
    BY <1>1, <1>4, <2>2, CandidateIsFound
  <2> QED BY <1>3, <2>1, <2>3
<1> QED
  BY <1>2, <1>5, <1>6, <1>7, <1>8, <1>9, <1>10, <1>11
     DEF SignalingNext, ServerStep, ChainStep, Exchange!Next

\* Signalling negotiates as Negotiation says: every session once, and never an
\* earlier one again.
THEOREM SignalingNegotiates == SignalingSpec => ImplementsNegotiation
<1>1. SignalingInit => Exchange!Init
  BY DEF SignalingInit, Exchange!Init, Answers
<1> QED
  BY <1>1, StepNegotiates, SignalingInvariantHolds, PTL
     DEF SignalingSpec, ImplementsNegotiation, Exchange!Spec
=============================================================================
