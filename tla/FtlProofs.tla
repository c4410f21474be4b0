----------------------------- MODULE FtlProofs -----------------------------
(* The invariant of an FTL connection for any number of commands, and that *)
(* the two tasks implement the session an FTL client may expect.           *)
EXTENDS FtlProperties, SequenceTheorems, TLAPS

\* A reply is one of the five responses.
LEMMA RepliesAreResponses ==
  ASSUME NEW c \in FtlCommand, NEW p
  PROVE  Replies(c, p) \subseteq Response
BY DEF Replies, Response

\* What the kinds of commands have in common.
LEMMA CommandKind ==
  ASSUME NEW c \in FtlCommand
  PROVE  /\ c # NoCommand
         /\ c.kind = "Attribute" => c.key \in Key /\ c.value \in Value
BY DEF FtlCommand, NoCommand

\* Decoding a command adds it to those asked and changes none of the others.
LEMMA AskedGrows ==
  ASSUME NEW S, NEW s \in Seq(S), NEW c \in S
  PROVE  /\ Append(s, c) \in Seq(S)
         /\ Len(Append(s, c)) = Len(s) + 1
         /\ \A i \in 1..Len(s) : Append(s, c)[i] = s[i]
         /\ Append(s, c)[Len(s) + 1] = c
BY AppendProperties

\* The last command of a sequence that has one.
LEMMA LastIsCommand ==
  ASSUME asked \in Seq(FtlCommand), Len(asked) > 0
  PROVE  Last \in FtlCommand /\ Len(asked) \in Nat
<1>1. Len(asked) \in Nat
  BY LenProperties
<1>2. Len(asked) \in 1..Len(asked)
  BY <1>1
<1> QED
  BY <1>1, <1>2, ElementOfSeq DEF Last

\* A channel that holds one entry is empty after a receive.
LEMMA OneEntry ==
  ASSUME NEW S, NEW x \in S
  PROVE  /\ <<x>> \in Seq(S) /\ <<>> \in Seq(S)
         /\ Head(<<x>>) = x /\ Tail(<<x>>) = <<>>
         /\ Append(<<>>, x) = <<x>> /\ <<x>> # <<>>
         /\ Len(<<>>) = 0 /\ Len(<<x>>) = 1
OBVIOUS

LEMMA InitFtlInvariant == Init => FtlInvariant
<1> SUFFICES ASSUME Init PROVE FtlInvariant
  OBVIOUS
<1> USE DEF Init
<1>1. TypeOK
  BY MaxCommandsAssumption
     DEF TypeOK, FrameLocation, ConnLocation, Payload
<1>2. OneUnderWay /\ ReplyIsRight
  BY DEF OneUnderWay, ReplyIsRight
<1>3. StuckOnlyOnSilence
  BY DEF StuckOnlyOnSilence, Stuck
<1>4. Session!IsCurrent(payload, Handled)
  BY DEF Session!IsCurrent, Handled
<1> QED
  BY <1>1, <1>2, <1>3, <1>4 DEF FtlInvariant

-----------------------------------------------------------------------------

LEMMA FrameTaskInvariant ==
  ASSUME FtlInvariant, FrameTask
  PROVE  FtlInvariant'
<1> USE DEF FtlInvariant, TypeOK, OneUnderWay, ReplyIsRight, Stuck,
            StuckOnlyOnSilence, FrameLocation,
            ConnLocation, channelVars, frameVars, connVars, stateVars
<1>0. Len(asked) \in Nat /\ Len(answers) \in Nat
  BY LenProperties
<1>1. CASE FrameNext
  <2>1. PICK c \in FtlCommand : held' = c /\ asked' = Append(asked, c)
    BY <1>1 DEF FrameNext
  <2>2. /\ asked' \in Seq(FtlCommand) /\ Len(asked') = Len(asked) + 1
        /\ \A i \in 1..Len(asked) : asked'[i] = asked[i]
        /\ Last' = c
    BY <2>1, <1>0, AskedGrows DEF Last
  <2>3. TypeOK'
    BY <2>1, <2>2, <1>1, MaxCommandsAssumption, <1>0 DEF FrameNext
  <2>4. OneUnderWay' /\ ReplyIsRight' /\ StuckOnlyOnSilence'
    BY <2>1, <2>2, <1>1, <1>0 DEF FrameNext
  <2>5. Session!IsCurrent(payload, Handled)'
    <3>1. Handled' = Len(asked) /\ Handled = Len(asked)
      BY <2>2, <1>1, <1>0 DEF FrameNext, Handled
    <3> QED
      BY <3>1, <2>2, <1>1, <1>0 DEF FrameNext, Session!IsCurrent
  <2> QED
    BY <2>3, <2>4, <2>5
<1>2. CASE FrameEnds \/ FrameRecvNone \/ FrameWriteFails
  <2>1. TypeOK' /\ OneUnderWay'
    BY <1>2, <1>0 DEF FrameEnds, FrameRecvNone, FrameWriteFails, Last
  <2>2. ReplyIsRight' /\ StuckOnlyOnSilence'
    BY <1>2 DEF FrameEnds, FrameRecvNone, FrameWriteFails, Last
  <2>3. Session!IsCurrent(payload, Handled)'
    BY <1>2
       DEF FrameEnds, FrameRecvNone, FrameWriteFails, Handled,
           Session!IsCurrent
  <2> QED
    BY <2>1, <2>2, <2>3
<1>3. CASE FrameSend
  <2>1. /\ held = Last /\ Last \in FtlCommand /\ conn = "recv"
        /\ toConn = <<>> /\ toFrame = <<>>
    BY <1>3, <1>0, LastIsCommand DEF FrameSend
  <2>2. toConn' = <<Last>> /\ frame' = "recv" /\ held' = NoCommand
    BY <2>1, <1>3, OneEntry DEF FrameSend
  <2>3. TypeOK'
    BY <2>1, <2>2, <1>3, OneEntry DEF FrameSend
  <2>4. OneUnderWay' /\ ReplyIsRight' /\ StuckOnlyOnSilence'
    BY <2>1, <2>2, <1>3, OneEntry DEF FrameSend, Last
  <2>5. Session!IsCurrent(payload, Handled)'
    BY <2>1, <2>2, <1>3, OneEntry DEF FrameSend, Handled, Session!IsCurrent
  <2> QED
    BY <2>3, <2>4, <2>5
<1>4. CASE FrameRecv
  <2>1. PICK r \in Replies(Last, payload) : toFrame = <<r>>
    BY <1>4 DEF FrameRecv
  <2>2. Last \in FtlCommand /\ r \in Response
    BY <2>1, <1>4, <1>0, LastIsCommand, RepliesAreResponses DEF FrameRecv
  <2>3. writing' = r /\ left' \in 0..3 /\ toFrame' = <<>>
    BY <2>1, <2>2, <1>4, OneEntry DEF FrameRecv, Items
  <2>4. TypeOK'
    BY <2>2, <2>3, <1>4, OneEntry DEF FrameRecv
  <2>5. OneUnderWay' /\ ReplyIsRight' /\ StuckOnlyOnSilence'
    BY <2>1, <2>3, <1>4 DEF FrameRecv, Last
  <2>6. Session!IsCurrent(payload, Handled)'
    BY <1>4 DEF FrameRecv, Handled, Session!IsCurrent
  <2> QED
    BY <2>4, <2>5, <2>6
<1>5. CASE FrameWrite
  <2>1. Last \in FtlCommand /\ writing \in Response
    BY <1>5, <1>0, LastIsCommand, RepliesAreResponses DEF FrameWrite
  <2>2. Append(answers, writing) \in Seq(Response)
        /\ Len(Append(answers, writing)) = Len(answers) + 1
    BY <2>1, AskedGrows
  <2>3. TypeOK'
    <3>1. answers' \in Seq(Response)
      BY <2>2, <1>5 DEF FrameWrite
    <3>2. left' \in 0..3 /\ frame' \in FrameLocation
      BY <1>5 DEF FrameWrite
    <3>3. writing' \in Response \cup {None}
      BY <2>1, <1>5 DEF FrameWrite
    <3> QED
      BY <3>1, <3>2, <3>3, <1>5 DEF FrameWrite
  <2>4. OneUnderWay' /\ ReplyIsRight' /\ StuckOnlyOnSilence'
    <3>1. CASE left > 1
      BY <3>1, <1>5 DEF FrameWrite, Last
    <3>2. CASE ~(left > 1)
      <4>1. Len(answers') = Len(asked) /\ frame' = "next"
        BY <3>2, <2>2, <1>5, <1>0 DEF FrameWrite
      <4>2. /\ conn' = "recv" /\ asked' = asked
            /\ toConn' = <<>> /\ toFrame' = <<>>
        BY <1>5 DEF FrameWrite
      <4> QED
        BY <4>1, <4>2
    <3> QED
      BY <3>1, <3>2
  <2>5. Session!IsCurrent(payload, Handled)'
    BY <1>5 DEF FrameWrite, Handled, Session!IsCurrent
  <2> QED
    BY <2>3, <2>4, <2>5
<1> QED
  BY <1>1, <1>2, <1>3, <1>4, <1>5 DEF FrameTask

LEMMA ConnTaskInvariant ==
  ASSUME FtlInvariant, ConnTask
  PROVE  FtlInvariant'
<1> USE DEF FtlInvariant, TypeOK, OneUnderWay, ReplyIsRight, Stuck,
            StuckOnlyOnSilence, FrameLocation,
            ConnLocation, channelVars, frameVars, connVars, stateVars
<1>0. Len(asked) \in Nat /\ Len(answers) \in Nat
  BY LenProperties
<1>1. CASE ConnRecv
  <2>1. /\ frame = "recv" /\ toConn = <<Last>> /\ toFrame = <<>>
        /\ Len(asked) = Len(answers) + 1
    BY <1>1 DEF ConnRecv
  <2>2. /\ Last \in FtlCommand /\ Head(toConn) = Last /\ toConn' = <<>>
    BY <2>1, <1>1, <1>0, LastIsCommand, OneEntry DEF ConnRecv
  <2>3. /\ payload' = IF Last.kind = "HMAC" THEN Len(asked) ELSE payload
        /\ video' \in {"true", "false"} /\ text' \in Value \cup {None}
    BY <2>2, <1>1, CommandKind
       DEF ConnRecv, UpdateState, StoreAttribute, Valid, Value, Key
  <2>4. payload' \in Payload
    BY <2>3, <1>0, MaxCommandsAssumption DEF Payload
  <2>5. \/ conn' = "send" /\ reply' \in Replies(Last, payload')
        \/ /\ conn' = "recv" /\ reply' = reply
           /\ Replies(Last, payload') = {}
    BY <2>2, <1>1 DEF ConnRecv
  <2>6. reply' \in Response \cup {None}
    BY <2>5, <2>2, RepliesAreResponses
  <2>7. UNCHANGED <<toFrame, frame, held, writing, left, asked, answers>>
    BY <1>1 DEF ConnRecv
  <2>8. TypeOK'
    BY <2>2, <2>3, <2>4, <2>5, <2>6, <2>7, OneEntry
  <2>9. OneUnderWay' /\ ReplyIsRight' /\ StuckOnlyOnSilence'
    BY <2>1, <2>2, <2>5, <2>7 DEF Last
  <2>10. Session!IsCurrent(payload, Handled)'
    <3>1. Handled = Len(asked) - 1 /\ Handled' = Len(asked)
      BY <2>1, <2>2, <2>7, OneEntry DEF Handled
    <3> QED
      BY <3>1, <2>1, <2>3, <2>7, <1>0 DEF Session!IsCurrent, Last
  <2> QED
    BY <2>8, <2>9, <2>10
<1>2. CASE ConnPanics
  <2>1. /\ frame = "recv" /\ toConn = <<Last>> /\ toFrame = <<>>
        /\ Len(asked) = Len(answers) + 1
    BY <1>2 DEF ConnPanics
  <2>2. /\ Last \in FtlCommand /\ Head(toConn) = Last /\ toConn' = <<>>
    BY <2>1, <1>2, <1>0, LastIsCommand, OneEntry DEF ConnPanics
  <2>3. TypeOK'
    BY <2>2, <1>2, OneEntry DEF ConnPanics
  <2>4. OneUnderWay' /\ ReplyIsRight' /\ StuckOnlyOnSilence'
    BY <2>1, <2>2, <1>2 DEF ConnPanics, Last
  <2>5. Session!IsCurrent(payload, Handled)'
    <3>1. Handled = Len(asked) - 1 /\ Handled' = Len(asked)
      BY <2>1, <2>2, <1>2, OneEntry DEF ConnPanics, Handled
    <3>2. Last.kind = "Connect"
      BY <2>2, <1>2 DEF ConnPanics
    <3> QED
      BY <3>1, <3>2, <2>1, <1>2, <1>0 DEF ConnPanics, Session!IsCurrent, Last
  <2> QED
    BY <2>3, <2>4, <2>5
<1>3. CASE ConnRecvNone
  <2>1. TypeOK' /\ OneUnderWay' /\ ReplyIsRight' /\ StuckOnlyOnSilence'
    BY <1>3 DEF ConnRecvNone, Last
  <2>2. Session!IsCurrent(payload, Handled)'
    BY <1>3 DEF ConnRecvNone, Handled, Session!IsCurrent
  <2> QED
    BY <2>1, <2>2
<1>4. CASE ConnSend
  <2>1. /\ frame = "recv" /\ toConn = <<>> /\ toFrame = <<>>
        /\ reply \in Replies(Last, payload) /\ Len(asked) = Len(answers) + 1
    BY <1>4 DEF ConnSend
  <2>2. Last \in FtlCommand /\ reply \in Response
    BY <2>1, <1>0, LastIsCommand, RepliesAreResponses
  <2>3. toFrame' = <<reply>> /\ conn' = "recv" /\ reply' = None
    BY <2>1, <2>2, <1>4, OneEntry DEF ConnSend
  <2>4. TypeOK'
    BY <2>2, <2>3, <1>4, OneEntry DEF ConnSend
  <2>5. OneUnderWay' /\ ReplyIsRight' /\ StuckOnlyOnSilence'
    BY <2>1, <2>2, <2>3, <1>4, OneEntry DEF ConnSend, Last
  <2>6. Session!IsCurrent(payload, Handled)'
    BY <1>4 DEF ConnSend, Handled, Session!IsCurrent
  <2> QED
    BY <2>4, <2>5, <2>6
<1> QED
  BY <1>1, <1>2, <1>3, <1>4 DEF ConnTask

-----------------------------------------------------------------------------

\* The invariant holds in every reachable state.
THEOREM FtlInvariantHolds == Spec => []FtlInvariant
<1>1. FtlInvariant /\ [Next]_vars => FtlInvariant'
  <2> SUFFICES ASSUME FtlInvariant, [Next]_vars PROVE FtlInvariant'
    OBVIOUS
  <2>1. CASE Next
    BY <2>1, FrameTaskInvariant, ConnTaskInvariant DEF Next
  <2>2. CASE UNCHANGED vars
    BY <2>2
       DEF vars, channelVars, frameVars, connVars, stateVars, FtlInvariant,
           TypeOK, OneUnderWay, ReplyIsRight, StuckOnlyOnSilence, Stuck,
           Last, Handled, Session!IsCurrent
  <2> QED
    BY <2>1, <2>2
<1> QED
  BY <1>1, InitFtlInvariant, PTL DEF Spec

\* Every variable keeps its type.
THEOREM FtlTypeCorrect == Spec => []TypeOK
<1>1. FtlInvariant => TypeOK
  BY DEF FtlInvariant
<1> QED
  BY <1>1, FtlInvariantHolds, PTL

\* The two tasks alternate: neither channel holds two entries, no send waits
\* or fails, no command is read before the last one was answered.
THEOREM TasksAlternate == Spec => []LockStep
<1>1. FtlInvariant => LockStep
  <2> SUFFICES ASSUME FtlInvariant PROVE LockStep
    OBVIOUS
  <2>1. CASE frame = "recv"
    <3>1. CASE toConn = <<>> /\ toFrame = <<>>
      BY <3>1, <2>1, OneEntry DEF LockStep
    <3>2. CASE toConn = <<Last>> /\ toFrame = <<>> /\ conn = "recv"
      BY <3>2, <2>1 DEF LockStep
    <3>3. CASE toConn = <<>> /\ toFrame # <<>> /\ conn = "recv"
      <4>1. Len(toFrame) = 1
        BY <3>3, OneEntry DEF FtlInvariant, ReplyIsRight
      <4> QED
        BY <4>1, <3>3, <2>1, OneEntry DEF LockStep
    <3> QED
      BY <2>1, <3>1, <3>2, <3>3 DEF FtlInvariant, OneUnderWay
  <2>2. CASE frame # "recv"
    BY <2>2 DEF LockStep, FtlInvariant, OneUnderWay
  <2> QED
    BY <2>1, <2>2
<1> QED
  BY <1>1, FtlInvariantHolds, PTL

\* Both tasks wait for each other only after a command that has no reply.
THEOREM SilenceIsTheOnlyHang == Spec => []StuckOnlyOnSilence
<1>1. FtlInvariant => StuckOnlyOnSilence
  BY DEF FtlInvariant
<1> QED
  BY <1>1, FtlInvariantHolds, PTL

\* Handling one command more changes the last value of what it sets only.
LEMMA LastValueStep ==
  ASSUME NEW n \in Nat, NEW key, NEW default, NEW v, NEW w,
         IsLastValue(v, n, key, default),
         w = IF Sets(n + 1, key) THEN asked[n + 1].value ELSE v
  PROVE  IsLastValue(w, n + 1, key, default)
<1>1. \A i \in 1..n + 1 : i \in 1..n \/ i = n + 1
  OBVIOUS
<1>2. n + 1 \in 1..n + 1 /\ \A i \in 1..n : i \in 1..n + 1 /\ i <= n + 1
  OBVIOUS
<1>3. CASE Sets(n + 1, key)
  BY <1>1, <1>2, <1>3 DEF IsLastValue
<1>4. CASE ~Sets(n + 1, key) /\ \A i \in 1..n : ~Sets(i, key)
  BY <1>1, <1>4 DEF IsLastValue
<1>5. CASE ~Sets(n + 1, key) /\ ~\A i \in 1..n : ~Sets(i, key)
  <2>1. PICK i \in 1..n : /\ Sets(i, key) /\ v = asked[i].value
                          /\ \A j \in 1..n : Sets(j, key) => j <= i
    BY <1>5 DEF IsLastValue
  <2>2. \A j \in 1..n + 1 : Sets(j, key) => j <= i
    BY <2>1, <1>1, <1>5
  <2> QED
    BY <2>1, <2>2, <1>2, <1>5 DEF IsLastValue
<1> QED
  BY <1>3, <1>4, <1>5

\* Nor does decoding one more.
LEMMA LastValueKept ==
  ASSUME NEW n \in Nat, NEW key, NEW default, NEW v,
         IsLastValue(v, n, key, default),
         \A i \in 1..n : asked'[i] = asked[i]
  PROVE  IsLastValue(v, n, key, default)'
BY DEF IsLastValue, Sets

\* The connection's state is always what the commands handled so far say.
THEOREM StateIsThatOfCommands == Spec => []StateFollowsCommands
<1>1. Init => StateFollowsCommands
  BY DEF Init, StateFollowsCommands, Handled, IsLastValue, Session!IsCurrent
<1>2. FtlInvariant /\ StateFollowsCommands /\ FtlInvariant' /\ [Next]_vars
        => StateFollowsCommands'
  <2> SUFFICES ASSUME FtlInvariant, StateFollowsCommands, FtlInvariant',
                      [Next]_vars, conn' # "done"
               PROVE  /\ IsLastValue(video, Handled, "flag", "false")'
                      /\ IsLastValue(text, Handled, "text", None)'
    BY DEF StateFollowsCommands, FtlInvariant
  <2> USE DEF channelVars, frameVars, connVars, stateVars
  <2>1. Len(asked) \in Nat
    BY LenProperties DEF FtlInvariant, TypeOK
  <2>2. CASE FrameNext
    <3>1. PICK c \in FtlCommand : asked' = Append(asked, c)
      BY <2>2 DEF FrameNext
    <3>2. /\ Len(asked') = Len(asked) + 1
          /\ \A i \in 1..Len(asked) : asked'[i] = asked[i]
      BY <3>1, AskedGrows DEF FtlInvariant, TypeOK
    <3>3. Handled = Len(asked) /\ Handled' = Len(asked)
      BY <3>2, <2>1, <2>2 DEF FrameNext, Handled, FtlInvariant, OneUnderWay
    <3> QED
      BY <3>2, <3>3, <2>1, <2>2, LastValueKept
         DEF FrameNext, StateFollowsCommands
  <2>3. CASE ConnRecv
    <3>1. /\ frame = "recv" /\ toConn = <<Last>> /\ Last \in FtlCommand
          /\ toConn' = <<>> /\ Head(toConn) = Last /\ Len(asked) > 0
      BY <2>3, <2>1, LastIsCommand, OneEntry
         DEF ConnRecv, FtlInvariant, TypeOK, OneUnderWay
    <3>2. Handled = Len(asked) - 1 /\ Handled' = Len(asked)
      BY <3>1, <2>1, <2>3 DEF ConnRecv, Handled
    <3>3. /\ video' = IF Sets(Len(asked), "flag") THEN Last.value ELSE video
          /\ text' = IF Sets(Len(asked), "text") THEN Last.value ELSE text
      BY <3>1, <2>3
         DEF ConnRecv, UpdateState, StoreAttribute, Sets, Last, Valid
    <3>4. /\ IsLastValue(video', Len(asked), "flag", "false")
          /\ IsLastValue(text', Len(asked), "text", None)
      <4>1. /\ IsLastValue(video, Len(asked) - 1, "flag", "false")
            /\ IsLastValue(text, Len(asked) - 1, "text", None)
            /\ Len(asked) - 1 \in Nat /\ Len(asked) = (Len(asked) - 1) + 1
        BY <3>1, <3>2, <2>1, <2>3 DEF ConnRecv, StateFollowsCommands
      <4> QED
        BY <4>1, <3>3, LastValueStep DEF Last
    <3>5. asked' = asked
      BY <2>3 DEF ConnRecv
    <3> QED
      BY <3>2, <3>4, <3>5 DEF IsLastValue, Sets
  <2>4. CASE \/ FrameEnds \/ FrameSend \/ FrameRecv \/ FrameRecvNone
             \/ FrameWrite \/ FrameWriteFails \/ ConnPanics \/ ConnRecvNone
             \/ ConnSend \/ UNCHANGED vars
    <3>1. UNCHANGED <<asked, video, text>> /\ Handled' = Handled
      BY <2>4, OneEntry
         DEF FrameEnds, FrameSend, FrameRecv, FrameRecvNone, FrameWrite,
             FrameWriteFails, ConnPanics, ConnRecvNone, ConnSend, vars,
             Handled, FtlInvariant, OneUnderWay
    <3>2. conn # "done"
      BY <2>4
         DEF FrameEnds, FrameSend, FrameRecv, FrameRecvNone, FrameWrite,
             FrameWriteFails, ConnPanics, ConnRecvNone, ConnSend, vars
    <3> QED
      BY <3>1, <3>2 DEF StateFollowsCommands, IsLastValue, Sets
  <2> QED
    BY <2>2, <2>3, <2>4 DEF Next, FrameTask, ConnTask
<1> QED
  BY <1>1, <1>2, FtlInvariantHolds, PTL DEF Spec

\* The session's commands and replies are the connection's.
LEMMA SameCommands ==
  /\ Session!FtlCommand = FtlCommand /\ Session!Payload = Payload
  /\ \A c, p : Session!Replies(c, p) = Replies(c, p)
BY DEF Session!FtlCommand, FtlCommand, Session!Payload, Payload,
       Session!Replies, Replies, Session!Valid, Valid, Session!WrongKey,
       WrongKey, Session!NotHex, NotHex, Session!Key, Key, Session!Value, Value

\* A connection is a session: commands are answered one by one and in order,
\* CONNECT with success only for the digest of the last payload.
THEOREM ConnectionImplementsSession == Spec => ImplementsSession
<1>1. Init => Session!Init
  BY DEF Init, Session!Init
<1>2. FtlInvariant /\ [Next]_vars => [Session!Next]_(Session!vars)
  <2> SUFFICES ASSUME FtlInvariant, [Next]_vars
               PROVE  [Session!Next]_(Session!vars)
    OBVIOUS
  <2> USE DEF FtlInvariant, TypeOK, OneUnderWay, ReplyIsRight,
              channelVars, frameVars, connVars, stateVars
  <2>1. CASE FrameNext
    <3>1. PICK c \in FtlCommand : asked' = Append(asked, c)
      BY <2>1 DEF FrameNext
    <3>2. Session!Ask(c)
      BY <3>1, <2>1 DEF FrameNext, Session!Ask
    <3> QED
      BY <3>2, SameCommands DEF Session!Next
  <2>2. CASE FrameEnds \/ FrameRecvNone \/ FrameWriteFails
    <3>1. Session!Close
      BY <2>2 DEF FrameEnds, FrameRecvNone, FrameWriteFails, Session!Close
    <3> QED
      BY <3>1 DEF Session!Next
  <2>3. CASE FrameSend \/ FrameRecv
    BY <2>3 DEF FrameSend, FrameRecv, Session!vars
  <2>4. CASE FrameWrite /\ left > 1
    BY <2>4 DEF FrameWrite, Session!vars
  <2>5. CASE FrameWrite /\ ~(left > 1)
    <3>1. /\ answers' = Append(answers, writing)
          /\ writing \in Replies(asked[Len(asked)], payload)
      BY <2>5 DEF FrameWrite, Last
    <3>2. Session!IsCurrent(payload, Len(asked))
      BY <2>5, OneEntry DEF FrameWrite, Handled
    <3>3. Session!Answer(payload)
      BY <3>1, <3>2, <2>5, SameCommands DEF FrameWrite, Session!Answer
    <3> QED
      BY <3>3, SameCommands DEF Session!Next
  <2>6. CASE ConnTask \/ UNCHANGED vars
    BY <2>6 DEF ConnTask, ConnRecv, ConnPanics, ConnRecvNone, ConnSend, vars,
                Session!vars
  <2> QED
    BY <2>1, <2>2, <2>3, <2>4, <2>5, <2>6 DEF Next, FrameTask
<1> QED
  BY <1>1, <1>2, FtlInvariantHolds, PTL
     DEF Spec, ImplementsSession, Session!Spec
=============================================================================
