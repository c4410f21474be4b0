---------------------------- MODULE RelayProofs ----------------------------
(* The relay's invariant for any viewers and datagrams, and what follows.   *)
EXTENDS RtpRelay, SequenceTheorems, TLAPS

-----------------------------------------------------------------------------
(* Sequences of packet numbers that grow at the end *)

LEMMA LastOfSeq ==
  ASSUME NEW S, NEW s \in Seq(S), s # <<>>
  PROVE  /\ Len(s) \in Nat \ {0} /\ DOMAIN s = 1..Len(s)
         /\ s[1] \in S /\ s[Len(s)] \in S
         /\ s[1] \in Range(s) /\ s[Len(s)] \in Range(s)
<1>1. Len(s) \in Nat \ {0} /\ DOMAIN s = 1..Len(s)
  BY EmptySeq, LenProperties
<1>2. s[1] \in S /\ s[Len(s)] \in S
  BY <1>1, ElementOfSeq
<1> QED
  BY <1>1, <1>2, RangeEquality

LEMMA AppendRange ==
  ASSUME NEW S, NEW s \in Seq(S), NEW e \in S
  PROVE  Range(Append(s, e)) = Range(s) \cup {e}
<1>1. /\ Append(s, e) \in Seq(S) /\ Len(Append(s, e)) = Len(s) + 1
      /\ \A i \in 1..Len(s) : Append(s, e)[i] = s[i]
      /\ Append(s, e)[Len(s) + 1] = e
  BY AppendProperties
<1>2. Len(s) \in Nat
  BY LenProperties
<1>3. Range(Append(s, e)) = {Append(s, e)[i] : i \in 1..Len(s) + 1}
  BY <1>1, RangeEquality
<1>4. Range(s) = {s[i] : i \in 1..Len(s)}
  BY RangeEquality
<1>5. 1..Len(s) + 1 = 1..Len(s) \cup {Len(s) + 1}
  BY <1>2
<1> QED
  BY <1>1, <1>3, <1>4, <1>5

-----------------------------------------------------------------------------
(* What the parts of the invariant say in a form the steps use *)

\* The numbers a viewer has received are those of datagrams that arrived.
LEMMA Received ==
  ASSUME TypeOK, NEW t \in Track, NEW v \in Viewer
  PROVE  /\ received[t][v] \in Seq(DOMAIN arrived)
         /\ Len(arrived) \in Nat /\ DOMAIN arrived = 1..Len(arrived)
<1>1. received[t][v] \in Seq(DOMAIN arrived)
  BY DEF TypeOK
<1>2. arrived \in Seq(Datagram)
  BY DEF TypeOK
<1> QED
  BY <1>1, <1>2, LenProperties

\* What a viewer has received depends on the history only.
LEMMA RunFrame ==
  ASSUME ViewersSeeOneRun, UNCHANGED <<arrived, received>>
  PROVE  ViewersSeeOneRun'
BY DEF ViewersSeeOneRun, Good

LEMMA InitRelayInvariant == Init => RelayInvariant
<1> SUFFICES ASSUME Init PROVE RelayInvariant
  OBVIOUS
<1> USE DEF Init
<1>1. TypeOK
  <2>1. arrived \in Seq(Datagram) /\ socket \in Seq(DOMAIN arrived)
        /\ Len(arrived) = 0 /\ Len(socket) = 0 /\ DOMAIN socket = 1..0
    BY EmptySeq, LenProperties
  <2>2. received \in [Track -> [Viewer -> Seq(DOMAIN arrived)]]
    BY EmptySeq
  <2>3. /\ Len(arrived) <= MaxPackets /\ Len(socket) <= Buffer
        /\ packet \in 0..MaxPackets
    BY <2>1, BoundsAssumption
  <2>4. /\ loop \in {"read", "write", "panic"}
        /\ writing \subseteq Viewer /\ broken \subseteq Viewer
        /\ errors \in BOOLEAN
        /\ sender \in [Track -> [Viewer -> {"new", "bound", "unbound"}]]
    OBVIOUS
  <2> QED
    BY <2>1, <2>2, <2>3, <2>4 DEF TypeOK
<1>2. LoopIsInOrder
  BY EmptySeq DEF LoopIsInOrder
<1>3. NothingIsSkipped
  BY DEF NothingIsSkipped
<1>4. ViewersSeeOneRun
  BY DEF ViewersSeeOneRun
<1>5. EndsOnlyOnErrors
  BY DEF EndsOnlyOnErrors
<1> QED
  BY <1>1, <1>2, <1>3, <1>4, <1>5 DEF RelayInvariant

-----------------------------------------------------------------------------
(* The steps of the loop *)

\* The datagram at the head of the socket is the next one.
LEMMA NextDatagram ==
  ASSUME TypeOK, socket # <<>>
  PROVE  /\ Len(socket) \in Nat \ {0} /\ Len(arrived) \in Nat
         /\ Tail(socket) \in Seq(DOMAIN arrived)
         /\ Head(socket) = Len(arrived) - Len(socket) + 1
         /\ Len(Tail(socket)) = Len(socket) - 1
         /\ DOMAIN Tail(socket) = 1..Len(Tail(socket))
         /\ \A i \in DOMAIN Tail(socket) : Tail(socket)[i] = socket[i + 1]
<1>1. socket \in Seq(DOMAIN arrived) /\ arrived \in Seq(Datagram)
  BY DEF TypeOK
<1>2. /\ Len(socket) \in Nat \ {0} /\ Len(arrived) \in Nat
      /\ DOMAIN arrived = 1..Len(arrived) /\ DOMAIN socket = 1..Len(socket)
  BY <1>1, EmptySeq, LenProperties
<1>3. Head(socket) = socket[1]
  BY <1>1
<1>4. /\ Tail(socket) \in Seq(DOMAIN arrived)
      /\ Len(Tail(socket)) = Len(socket) - 1
      /\ \A i \in 1..Len(Tail(socket)) : Tail(socket)[i] = socket[i + 1]
  BY <1>1, HeadTailProperties
<1>5. DOMAIN Tail(socket) = 1..Len(Tail(socket))
  BY <1>4, LenProperties
<1>6. socket[1] = Len(arrived) - Len(socket) + 1
  <2>1. \A i \in DOMAIN socket : socket[i] = Len(arrived) - Len(socket) + i
    BY DEF TypeOK
  <2> QED
    BY <1>2, <2>1
<1> QED
  BY <1>2, <1>3, <1>4, <1>5, <1>6

LEMMA ReadKeeps ==
  ASSUME RelayInvariant, Read
  PROVE  RelayInvariant'
<1> USE DEF RelayInvariant
<1>1. /\ packet' = packet + 1 /\ packet' = Len(arrived) - Len(socket')
      /\ packet \in Nat /\ packet' \in 1..Len(arrived)
  BY NextDatagram DEF Read, LoopIsInOrder, TypeOK
<1>2. TypeOK'
  <2>1. /\ loop' \in {"read", "write", "panic"} /\ packet' \in 0..MaxPackets
        /\ writing' \subseteq Viewer
    <3>1. packet' \in 0..MaxPackets
      BY <1>1, NextDatagram, BoundsAssumption DEF TypeOK
    <3> QED
      BY <3>1 DEF TypeOK, Read, Bound
  <2>2. /\ socket' \in Seq(DOMAIN arrived) /\ Len(socket') <= Buffer
        /\ \A i \in DOMAIN socket' :
             socket'[i] = Len(arrived) - Len(socket') + i
    <3>1. socket' = Tail(socket) /\ socket # <<>>
      BY DEF Read
    <3>2. /\ \A i \in DOMAIN socket : socket[i] = Len(arrived) - Len(socket) + i
          /\ Len(socket) <= Buffer /\ DOMAIN socket = 1..Len(socket)
      BY LenProperties DEF TypeOK
    <3> QED
      BY <3>1, <3>2, NextDatagram, BoundsAssumption
  <2> QED
    BY <2>1, <2>2 DEF TypeOK, Read
<1>3. LoopIsInOrder'
  BY <1>1, <1>2 DEF LoopIsInOrder, Read, PayloadType, Good, Bound, TypeOK
<1>4. NothingIsSkipped'
  <2> SUFFICES ASSUME NEW t \in Track, NEW v \in Viewer,
                      received[t][v] # <<>>, loop' # "panic"
               PROVE  LET last == received[t][v][Len(received[t][v])]
                      IN  /\ last <= packet'
                          /\ Pending(t, v)' => last < packet'
                          /\ v \in Bound(t) \ broken =>
                               \A n \in Good(t) :
                                 (last < n /\ n <= packet')
                                    => n = packet' /\ Pending(t, v)'
    BY DEF NothingIsSkipped, Read, Good, Bound
  <2> DEFINE last == received[t][v][Len(received[t][v])]
  <2>1. last \in Nat
    BY Received, LastOfSeq
  <2>2. last <= packet /\ ~Pending(t, v)
    BY DEF NothingIsSkipped, Pending, Read
  <2>3. ASSUME v \in Bound(t) \ broken, NEW n \in Good(t),
               last < n, n <= packet'
        PROVE  n = packet' /\ Pending(t, v)'
    <3>1. n = packet'
      BY <1>1, <2>2, <2>3, Received DEF NothingIsSkipped, Read, Good
    <3>2. arrived[packet'].whole /\ arrived[packet'].type = t
      BY <2>3, <3>1 DEF Good
    <3> QED
      BY <2>3, <3>1, <3>2 DEF Read, Pending, PayloadType, Bound
  <2> QED
    BY <1>1, <2>1, <2>2, <2>3
<1>5. ViewersSeeOneRun'
  BY RunFrame DEF Read
<1>6. EndsOnlyOnErrors'
  BY DEF EndsOnlyOnErrors, Read, PayloadType
<1> QED
  BY <1>2, <1>3, <1>4, <1>5, <1>6

LEMMA ReadFailsKeeps ==
  ASSUME RelayInvariant, ReadFails
  PROVE  RelayInvariant'
<1> USE DEF RelayInvariant, ReadFails
<1>1. TypeOK'
  BY BoundsAssumption DEF TypeOK
<1>2. LoopIsInOrder' /\ NothingIsSkipped' /\ EndsOnlyOnErrors'
  BY DEF LoopIsInOrder, NothingIsSkipped, EndsOnlyOnErrors
<1>3. ViewersSeeOneRun'
  BY RunFrame
<1> QED
  BY <1>1, <1>2, <1>3

LEMMA WriteReturnsKeeps ==
  ASSUME RelayInvariant, WriteReturns
  PROVE  RelayInvariant'
<1> USE DEF RelayInvariant, WriteReturns
<1>1. TypeOK'
  BY DEF TypeOK
<1>2. LoopIsInOrder'
  BY DEF LoopIsInOrder, TypeOK
<1>3. NothingIsSkipped'
  BY DEF NothingIsSkipped, Pending, Good, Bound
<1>4. ViewersSeeOneRun'
  BY RunFrame
<1>5. EndsOnlyOnErrors'
  BY DEF EndsOnlyOnErrors, LoopIsInOrder, PayloadType, Good, Bound
<1> QED
  BY <1>1, <1>2, <1>3, <1>4, <1>5

\* The new end of a run: a packet of the track behind all that was received,
\* with none of the track's between.
LEMMA RunGrows ==
  ASSUME TypeOK, ViewersSeeOneRun, NEW t \in Track, NEW v \in Viewer,
         NEW n \in Good(t),
         received[t][v] # <<>> =>
           /\ received[t][v][Len(received[t][v])] < n
           /\ \A m \in Good(t) :
                received[t][v][Len(received[t][v])] < m /\ m <= n => m = n
  PROVE  LET got == Append(received[t][v], n)
         IN  /\ Range(got) = {m \in Good(t) : got[1] <= m /\ m <= got[Len(got)]}
             /\ \A i \in 1..Len(got) - 1 : got[i] < got[i + 1]
<1> DEFINE got == received[t][v]
           new == Append(got, n)
<1>1. /\ got \in Seq(DOMAIN arrived) /\ n \in DOMAIN arrived
      /\ DOMAIN arrived \subseteq Nat
  BY Received DEF Good
<1>2. /\ Len(got) \in Nat /\ Len(new) = Len(got) + 1 /\ new[Len(got) + 1] = n
      /\ \A i \in 1..Len(got) : new[i] = got[i]
      /\ Range(new) = Range(got) \cup {n}
  BY <1>1, LenProperties, AppendProperties, AppendRange
<1>3. CASE got = <<>>
  <2>1. Len(got) = 0 /\ Range(got) = {}
    BY <1>3 DEF Range
  <2>2. Len(new) = 1 /\ new[1] = n /\ Range(new) = {n}
    BY <1>2, <2>1
  <2>3. {m \in Good(t) : n <= m /\ m <= n} = {n}
    BY <1>1 DEF Good
  <2> QED
    BY <2>2, <2>3
<1>4. CASE got # <<>>
  <2>1. /\ Len(got) \in Nat \ {0} /\ got[1] \in Range(got)
        /\ got[1] \in DOMAIN arrived /\ got[Len(got)] \in DOMAIN arrived
        /\ new[1] = got[1]
    BY <1>1, <1>2, <1>4, LastOfSeq
  <2>2. /\ Range(got) = {m \in Good(t) : got[1] <= m /\ m <= got[Len(got)]}
        /\ \A i \in 1..Len(got) - 1 : got[i] < got[i + 1]
    BY <1>4 DEF ViewersSeeOneRun
  <2>3. Range(new) = {m \in Good(t) : new[1] <= m /\ m <= new[Len(new)]}
    <3>1. got[Len(got)] < n /\ got[1] <= got[Len(got)]
      BY <1>4, <2>1, <2>2
    <3>2. \A m \in Good(t) : m <= n <=> m <= got[Len(got)] \/ m = n
      BY <1>1, <1>4, <2>1, <3>1 DEF Good
    <3> QED
      BY <1>1, <1>2, <2>1, <2>2, <3>1, <3>2
  <2>4. ASSUME NEW i \in 1..Len(new) - 1 PROVE new[i] < new[i + 1]
    BY <1>2, <1>4, <2>2
  <2> QED
    BY <2>3, <2>4
<1> QED
  BY <1>3, <1>4

LEMMA WriteToKeeps ==
  ASSUME RelayInvariant, NEW v \in Viewer, WriteTo(v)
  PROVE  RelayInvariant'
<1> DEFINE t == PayloadType(packet)
<1> USE DEF RelayInvariant
<1>1. /\ t \in Track /\ packet \in Good(t) /\ v \in Bound(t)
      /\ packet \in DOMAIN arrived /\ packet \in Nat
      /\ Pending(t, v) /\ UNCHANGED <<arrived, sender, packet, broken, loop>>
      /\ loop = "write"
  BY DEF WriteTo, LoopIsInOrder, Pending, Good, TypeOK
<1>2. CASE v \in broken
  <2>1. UNCHANGED received /\ writing' \subseteq writing
    BY <1>2 DEF WriteTo
  <2>2. TypeOK'
    BY <1>2, <2>1 DEF TypeOK, WriteTo
  <2>3. LoopIsInOrder'
    BY <1>1, <1>2 DEF LoopIsInOrder, WriteTo, PayloadType, Good, Bound
  <2>4. NothingIsSkipped'
    <3>1. ASSUME NEW u \in Track, NEW w \in Viewer
          PROVE  /\ Pending(u, w)' => Pending(u, w)
                 /\ w # v => (Pending(u, w)' <=> Pending(u, w))
      BY <1>1 DEF Pending, WriteTo, PayloadType
    <3> QED
      BY <1>1, <1>2, <2>1, <3>1 DEF NothingIsSkipped, Good, Bound
  <2>5. ViewersSeeOneRun'
    BY <1>1, <2>1, RunFrame
  <2>6. EndsOnlyOnErrors'
    BY <1>1 DEF EndsOnlyOnErrors
  <2> QED
    BY <2>2, <2>3, <2>4, <2>5, <2>6
<1>3. CASE v \notin broken
  <2> DEFINE got == received[t][v]
  <2>1. /\ received' = [received EXCEPT ![t][v] = Append(got, packet)]
        /\ writing' = writing \ {v} /\ UNCHANGED errors
    BY <1>3 DEF WriteTo
  <2>2. /\ Append(got, packet) \in Seq(DOMAIN arrived)
        /\ Append(got, packet) # <<>>
        /\ Append(got, packet)[Len(Append(got, packet))] = packet
    BY <1>1, Received, AppendProperties
  <2>3. /\ received'[t][v] = Append(got, packet)
        /\ \A u \in Track, w \in Viewer :
             (u # t \/ w # v) => received'[u][w] = received[u][w]
    BY <1>1, <2>1 DEF TypeOK
  <2>4. TypeOK'
    <3>1. received' \in [Track -> [Viewer -> Seq(DOMAIN arrived)]]
      BY <1>1, <2>1, <2>2 DEF TypeOK
    <3>2. socket' = socket
      BY DEF WriteTo
    <3> QED
      BY <1>1, <2>1, <3>1, <3>2 DEF TypeOK
  <2>5. LoopIsInOrder'
    BY <1>1, <2>1 DEF LoopIsInOrder, WriteTo, PayloadType, Good, Bound
  <2>6. NothingIsSkipped'
    <3>1. ASSUME NEW u \in Track PROVE ~Pending(u, v)'
      BY <2>1 DEF Pending
    <3>2. ASSUME NEW u \in Track, NEW w \in Viewer, u # t \/ w # v
          PROVE  Pending(u, w)' <=> Pending(u, w)
      BY <1>1, <2>1, <3>2 DEF Pending, PayloadType
    <3>3. sender[t][v] # "new" /\ DOMAIN arrived \subseteq Nat
      BY <1>1, Received DEF Bound
    <3>4. /\ packet <= packet
          /\ \A n \in Good(t) : ~(packet < n /\ n <= packet)
      BY <1>1, <3>3 DEF Good
    <3> SUFFICES ASSUME NEW u \in Track, NEW w \in Viewer
                 PROVE  LET new  == received'[u][w]
                            last == new[Len(new)]
                        IN  /\ sender[u][w] = "new" => new = <<>>
                            /\ new # <<>> =>
                                 /\ last <= packet
                                 /\ Pending(u, w)' => last < packet
                                 /\ w \in Bound(u) \ broken =>
                                      \A n \in Good(u) :
                                        last < n /\ n <= packet
                                          => n = packet /\ Pending(u, w)'
      BY <1>1 DEF NothingIsSkipped, Good, Bound
    <3>5. CASE u = t /\ w = v
      <4>1. /\ received'[u][w] # <<>> /\ sender[u][w] # "new"
            /\ received'[u][w][Len(received'[u][w])] = packet
        BY <2>2, <2>3, <3>3, <3>5
      <4>2. ~Pending(u, w)'
        BY <3>1, <3>5
      <4>3. \A n \in Good(u) : ~(packet < n /\ n <= packet)
        BY <3>4, <3>5
      <4> QED
        BY <3>4, <4>1, <4>2, <4>3
    <3>6. CASE u # t \/ w # v
      BY <1>1, <2>3, <3>2, <3>6 DEF NothingIsSkipped
    <3> QED
      BY <3>5, <3>6
  <2>7. ViewersSeeOneRun'
    <3>1. got # <<>> =>
            /\ got[Len(got)] < packet
            /\ \A m \in Good(t) :
                 got[Len(got)] < m /\ m <= packet => m = packet
      BY <1>1, <1>3 DEF NothingIsSkipped
    <3>2. LET new == Append(got, packet)
          IN  /\ Range(new)
                   = {m \in Good(t) : new[1] <= m /\ m <= new[Len(new)]}
              /\ \A i \in 1..Len(new) - 1 : new[i] < new[i + 1]
      BY <1>1, <3>1, RunGrows
    <3> SUFFICES ASSUME NEW u \in Track, NEW w \in Viewer,
                        received'[u][w] # <<>>
                 PROVE  LET new == received'[u][w]
                        IN  /\ Range(new) = {m \in Good(u) :
                                              new[1] <= m /\ m <= new[Len(new)]}
                            /\ \A i \in 1..Len(new) - 1 : new[i] < new[i + 1]
      BY <1>1 DEF ViewersSeeOneRun, Good
    <3>3. CASE u = t /\ w = v
      BY <2>3, <3>2, <3>3
    <3>4. CASE u # t \/ w # v
      BY <2>3, <3>4 DEF ViewersSeeOneRun
    <3> QED
      BY <3>3, <3>4
  <2>8. EndsOnlyOnErrors'
    BY <1>1 DEF EndsOnlyOnErrors
  <2> QED
    BY <2>4, <2>5, <2>6, <2>7, <2>8
<1> QED
  BY <1>2, <1>3

-----------------------------------------------------------------------------
(* The steps of the socket and the viewers *)

LEMMA ArriveKeeps ==
  ASSUME RelayInvariant, NEW d \in Sent, Arrive(d)
  PROVE  RelayInvariant'
<1> USE DEF RelayInvariant
<1>1. /\ UNCHANGED <<loop, packet, writing, errors, sender, broken, received>>
      /\ loop # "panic" /\ arrived' = Append(arrived, d)
      /\ socket' = Append(socket, Len(arrived'))
      /\ Len(socket) < Buffer /\ Len(arrived) < MaxPackets
  BY DEF Arrive
<1>2. /\ arrived \in Seq(Datagram) /\ d \in Datagram
      /\ socket \in Seq(DOMAIN arrived)
  BY SentAssumption DEF TypeOK
<1>3. /\ arrived' \in Seq(Datagram) /\ Len(arrived') = Len(arrived) + 1
      /\ Len(arrived) \in Nat /\ DOMAIN arrived = 1..Len(arrived)
      /\ DOMAIN arrived' = 1..Len(arrived')
      /\ \A n \in DOMAIN arrived : arrived'[n] = arrived[n]
  BY <1>1, <1>2, AppendProperties, LenProperties
<1>4. /\ DOMAIN arrived \subseteq DOMAIN arrived'
      /\ Len(arrived') \in DOMAIN arrived' /\ Len(arrived') \in Nat
  BY <1>3
<1>5. /\ socket' \in Seq(DOMAIN arrived') /\ Len(socket') = Len(socket) + 1
      /\ Len(socket) \in Nat /\ DOMAIN socket = 1..Len(socket)
      /\ DOMAIN socket' = 1..Len(socket')
      /\ \A i \in DOMAIN socket : socket'[i] = socket[i]
      /\ socket'[Len(socket')] = Len(arrived')
  <2>1. socket \in Seq(DOMAIN arrived')
    BY <1>2, <1>4, SeqMonotonic
  <2> QED
    BY <1>1, <1>4, <2>1, AppendProperties, LenProperties
<1>6. \A t \in Track :
        /\ Good(t) = {n \in Good(t)' : n # Len(arrived')}
        /\ \A n \in DOMAIN arrived : n \in Good(t)' <=> n \in Good(t)
  BY <1>3 DEF Good
<1>7. packet \in Nat /\ packet = Len(arrived) - Len(socket)
      /\ packet <= Len(arrived)
  BY <1>1, <1>3, <1>5 DEF LoopIsInOrder, TypeOK
<1>8. TypeOK'
  <2>1. \A i \in DOMAIN socket' :
          socket'[i] = Len(arrived') - Len(socket') + i
    <3>1. \A i \in DOMAIN socket : socket[i] = Len(arrived) - Len(socket) + i
      BY DEF TypeOK
    <3>2. ASSUME NEW i \in DOMAIN socket'
          PROVE  socket'[i] = Len(arrived') - Len(socket') + i
      <4>1. CASE i = Len(socket')
        BY <1>3, <1>5, <4>1
      <4>2. CASE i # Len(socket')
        BY <1>3, <1>5, <3>1, <4>2
      <4> QED
        BY <4>1, <4>2
    <3> QED
      BY <3>2
  <2>2. received' \in [Track -> [Viewer -> Seq(DOMAIN arrived')]]
    <3>1. \A q \in Seq(DOMAIN arrived) : q \in Seq(DOMAIN arrived')
      BY <1>4, SeqMonotonic
    <3> QED
      BY <1>1, <3>1 DEF TypeOK
  <2>3. Len(arrived') <= MaxPackets /\ Len(socket') <= Buffer
    BY <1>1, <1>3, <1>5, BoundsAssumption
  <2> QED
    BY <1>1, <1>3, <1>5, <2>1, <2>2, <2>3 DEF TypeOK
<1>9. loop = "write" =>
        /\ packet \in DOMAIN arrived /\ PayloadType(packet) \in Track
        /\ PayloadType(packet)' = PayloadType(packet)
        /\ packet \in Good(PayloadType(packet))'
  BY <1>1, <1>3, <1>6 DEF LoopIsInOrder, Good, PayloadType
<1>10. LoopIsInOrder'
  BY <1>1, <1>3, <1>5, <1>7, <1>9 DEF LoopIsInOrder, Bound
<1>11. NothingIsSkipped'
  <2> SUFFICES ASSUME NEW t \in Track, NEW v \in Viewer
               PROVE  LET got  == received[t][v]
                          last == got[Len(got)]
                      IN  /\ sender[t][v] = "new" => got = <<>>
                          /\ got # <<>> =>
                               /\ last <= packet
                               /\ Pending(t, v)' => last < packet
                               /\ v \in Bound(t) \ broken =>
                                    \A n \in Good(t)' :
                                      (last < n /\ n <= packet)
                                         => n = packet /\ Pending(t, v)'
    BY <1>1 DEF NothingIsSkipped, Bound
  <2>1. Pending(t, v)' <=> Pending(t, v)
    BY <1>1, <1>9 DEF Pending
  <2>2. \A n \in Good(t)' : n <= packet => n \in Good(t)
    BY <1>3, <1>6, <1>7
  <2> QED
    BY <1>1, <2>1, <2>2 DEF NothingIsSkipped
<1>12. ViewersSeeOneRun'
  <2> SUFFICES ASSUME NEW t \in Track, NEW v \in Viewer,
                      received[t][v] # <<>>
               PROVE  LET got == received[t][v]
                      IN  /\ Range(got) = {n \in Good(t)' :
                                            got[1] <= n /\ n <= got[Len(got)]}
                          /\ \A i \in 1..Len(got) - 1 : got[i] < got[i + 1]
    BY <1>1 DEF ViewersSeeOneRun
  <2>1. received[t][v][Len(received[t][v])] \in DOMAIN arrived
    BY Received, LastOfSeq
  <2>2. \A n \in Good(t)' : n <= received[t][v][Len(received[t][v])]
                             => n \in Good(t)
    BY <1>3, <1>6, <2>1
  <2> QED
    BY <1>6, <2>2 DEF ViewersSeeOneRun
<1>13. EndsOnlyOnErrors'
  BY <1>1 DEF EndsOnlyOnErrors
<1> QED
  BY <1>8, <1>10, <1>11, <1>12, <1>13

LEMMA SetSenderKeeps ==
  ASSUME RelayInvariant, NEW t \in Track, NEW v \in Viewer,
         Bind(t, v) \/ Unbind(t, v)
  PROVE  RelayInvariant'
<1> USE DEF RelayInvariant
<1>1. PICK state \in {"bound", "unbound"} :
        /\ SetSender(t, v, state)
        /\ state = "bound" => sender[t][v] = "new"
  BY DEF Bind, Unbind
<1>2. /\ UNCHANGED <<loop, packet, writing, errors, socket, broken, arrived,
                     received>>
      /\ sender' = [sender EXCEPT ![t][v] = state]
      /\ loop # "panic" /\ ~(loop = "write" /\ PayloadType(packet) = t)
  BY <1>1 DEF SetSender
<1>3. /\ sender' \in [Track -> [Viewer -> {"new", "bound", "unbound"}]]
      /\ sender'[t][v] = state
      /\ \A u \in Track, w \in Viewer :
           u # t \/ w # v => sender'[u][w] = sender[u][w]
  BY <1>2 DEF TypeOK
<1>4. TypeOK'
  BY <1>2, <1>3 DEF TypeOK
<1>5. LoopIsInOrder'
  <2>1. \A u \in Track : u # t => Bound(u)' = Bound(u)
    BY <1>3 DEF Bound
  <2> QED
    BY <1>2, <2>1 DEF LoopIsInOrder, PayloadType, Good
<1>6. NothingIsSkipped'
  BY <1>1, <1>2, <1>3 DEF NothingIsSkipped, Bound, Good, Pending, PayloadType
<1>7. ViewersSeeOneRun'
  BY <1>2, RunFrame
<1>8. EndsOnlyOnErrors'
  BY <1>2 DEF EndsOnlyOnErrors
<1> QED
  BY <1>4, <1>5, <1>6, <1>7, <1>8

LEMMA BreakKeeps ==
  ASSUME RelayInvariant, NEW v \in Viewer, Break(v)
  PROVE  RelayInvariant'
<1> USE DEF RelayInvariant, Break
<1>1. TypeOK'
  BY DEF TypeOK
<1>2. LoopIsInOrder'
  BY DEF LoopIsInOrder, PayloadType, Good, Bound
<1>3. NothingIsSkipped'
  BY DEF NothingIsSkipped, Bound, Good, Pending, PayloadType
<1>4. ViewersSeeOneRun'
  BY RunFrame
<1>5. EndsOnlyOnErrors'
  BY DEF EndsOnlyOnErrors
<1> QED
  BY <1>1, <1>2, <1>3, <1>4, <1>5

LEMMA StutterKeepsRelayInvariant ==
  ASSUME RelayInvariant, UNCHANGED vars
  PROVE  RelayInvariant'
<1> USE DEF RelayInvariant, vars
<1>1. TypeOK' /\ LoopIsInOrder' /\ EndsOnlyOnErrors'
  BY DEF TypeOK, LoopIsInOrder, EndsOnlyOnErrors, PayloadType, Good, Bound
<1>2. NothingIsSkipped'
  BY DEF NothingIsSkipped, Bound, Good, Pending, PayloadType
<1>3. ViewersSeeOneRun'
  BY RunFrame
<1> QED
  BY <1>1, <1>2, <1>3

-----------------------------------------------------------------------------
(* Theorems *)

\* The relay reads the datagrams in the order of their arrival and writes only
\* whole packets to bound senders, and no viewer misses one between two it has
\* received, whoever comes, goes or fails meanwhile.
THEOREM RelayInvariantHolds == Spec => []RelayInvariant
<1>1. Init => RelayInvariant
  BY InitRelayInvariant
<1>2. RelayInvariant /\ [Next]_vars => RelayInvariant'
  BY ReadKeeps, ReadFailsKeeps, WriteToKeeps, WriteReturnsKeeps, ArriveKeeps,
     SetSenderKeeps, BreakKeeps, StutterKeepsRelayInvariant
     DEF Next, WriteStep
<1> QED
  BY <1>1, <1>2, PTL DEF Spec

\* What a viewer receives on a track is a run of that track's packets, in order
\* and without a gap: the Write of the track it is bound to serves it each time.
THEOREM ViewersReceiveRuns == Spec => []ViewersSeeOneRun
<1>1. RelayInvariant => ViewersSeeOneRun
  BY DEF RelayInvariant
<1> QED
  BY <1>1, RelayInvariantHolds, PTL

\* The loop panics only on an error of ReadFrom, on a damaged packet of a track,
\* and on a viewer that is still bound to it and whose transport has failed.
THEOREM OnlyErrorsEndIt == Spec => []EndsOnlyOnErrors
<1>1. RelayInvariant => EndsOnlyOnErrors
  BY DEF RelayInvariant
<1> QED
  BY <1>1, RelayInvariantHolds, PTL

=============================================================================
