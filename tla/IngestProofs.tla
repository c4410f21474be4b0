---------------------------- MODULE IngestProofs ----------------------------
(***************************************************************************)
(* The stream key and the ingest process that chooses it, for any keys,    *)
(* clients and number of faults: first the key by itself, then the         *)
(* process, which keeps what is proved of the key and admits nobody with   *)
(* another.                                                                *)
(***************************************************************************)
EXTENDS Ingest, TLAPS

-----------------------------------------------------------------------------
(* The stream key *)

\* A key that was written whole is read back as it was.
LEMMA ReadBack ==
  ASSUME NEW k \in AllKeys
  PROVE  /\ File(k, 4) # NoFile /\ Readable(File(k, 4))
         /\ Decode(File(k, 4)) = Whole(k) /\ File(k, 4).key = k
BY DEF File, NoFile, EmptyFile, Readable, Decode, Whole

\* Whatever hex::decode accepts is a key, if only one of no bytes.
LEMMA ReadableIsKey ==
  ASSUME NEW f \in Files, Readable(f)
  PROVE  Decode(f) \in Keys
<1>1. PICK k \in AllKeys, n \in 0..4 : f = File(k, n)
  BY DEF Files, Readable
<1>2. CASE n = 0
  BY <1>1, <1>2 DEF File, EmptyFile, Decode, Keys, NoKey
<1>3. CASE n \in 1..4
  <2>1. f = [key |-> k, digits |-> n]
    BY <1>1, <1>3 DEF File
  <2>2. n = 2 \/ n = 4
    BY <1>3, <2>1 DEF Readable
  <2>3. n \div 2 \in 1..2
    BY <2>2
  <2> QED BY <2>1, <2>3 DEF Decode, Keys
<1> QED BY <1>2, <1>3

\* No file, and no key, is of its type; so is every piece of a file.
LEMMA InitIsTyped == NoFile \in Files /\ NoKey \in Keys
BY DEF Files, Keys

LEMMA PieceIsFile ==
  ASSUME NEW k \in AllKeys, NEW n \in 0..4
  PROVE  File(k, n) \in Files
BY DEF Files

\* Nothing is written, printed or asked for before the first start.
LEMMA InitEstablishes == Init => KeyInvariant
<1> SUFFICES ASSUME Init PROVE KeyInvariant
  OBVIOUS
<1>1. TypeOK
  <2>1. hash \in Files /\ key \in Keys /\ printed \in Keys
    BY InitIsTyped DEF Init
  <2>2. requested \in BOOLEAN /\ torn \in BOOLEAN /\ used \subseteq Generated
    BY DEF Init
  <2>3. process \in Location /\ faults \in 0..MaxFaults
    BY FaultAssumption DEF Init, Location
  <2> QED BY <2>1, <2>2, <2>3 DEF TypeOK
<1>2. VerifiesPrintedKey /\ WritesWholeKey
  BY DEF Init, VerifiesPrintedKey, WritesWholeKey
<1>3. FileIsWhole
  BY DEF Init, FileIsWhole
<1>4. PrintedIsKept
  BY DEF Init, PrintedIsKept
<1> QED BY <1>1, <1>2, <1>3, <1>4 DEF KeyInvariant

\* Every step of the process, every fault and the operator keep it.
LEMMA StepPreserves == KeyInvariant /\ [Next]_vars => KeyInvariant'
<1> SUFFICES ASSUME KeyInvariant, [Next]_vars
             PROVE  KeyInvariant'
  OBVIOUS
<1> USE FaultAssumption DEF KeyInvariant
<1> DEFINE Rest == VerifiesPrintedKey /\ WritesWholeKey /\ FileIsWhole
                   /\ PrintedIsKept
<1>0. /\ hash \in Files /\ key \in Keys /\ printed \in Keys
      /\ process \in Location
  BY DEF TypeOK
<1>1. CASE StartStatic
  <2>1. PICK k \in Static : key' = Whole(k) /\ printed' = Whole(k)
    BY <1>1 DEF StartStatic
  <2>2. k \in AllKeys /\ Whole(k) \in Keys
    BY DEF AllKeys, Whole, Keys
  <2>3. TypeOK'
    BY <1>1, <2>1, <2>2 DEF StartStatic, TypeOK, Location
  <2>4. Rest'
    BY <1>1, <2>1, <2>2 DEF StartStatic, VerifiesPrintedKey, WritesWholeKey,
                            FileIsWhole, PrintedIsKept
  <2> QED BY <2>3, <2>4
<1>2. CASE StartFromFile
  <2>1. Decode(hash) \in Keys
    BY <1>0, <1>2, ReadableIsKey DEF StartFromFile
  <2>2. TypeOK'
    BY <1>2, <2>1 DEF StartFromFile, TypeOK, Location
  <2>3. Rest'
    BY <1>2 DEF StartFromFile, VerifiesPrintedKey, WritesWholeKey,
                FileIsWhole, PrintedIsKept, Readable
  <2> QED BY <2>2, <2>3
<1>3. CASE StartGenerate
  <2>1. PICK k \in Generated : key' = Whole(k) /\ used' = used \cup {k}
    BY <1>3 DEF StartGenerate
  <2>2. k \in AllKeys /\ Whole(k) \in Keys
    BY DEF AllKeys, Whole, Keys
  <2>3. TypeOK'
    BY <1>3, <2>1, <2>2 DEF StartGenerate, TypeOK, Location
  <2>4. torn \/ hash = NoFile
    BY <1>3, ReadBack DEF StartGenerate, FileIsWhole
  <2>5. torn \/ requested
    BY <1>3, <2>4 DEF StartGenerate, PrintedIsKept, TypeOK
  <2>6. Rest'
    BY <1>3, <2>1, <2>2, <2>5 DEF StartGenerate, VerifiesPrintedKey,
       WritesWholeKey, FileIsWhole, PrintedIsKept
  <2> QED BY <2>3, <2>6
<1>4. CASE Truncate
  <2>1. PICK k \in AllKeys : key = Whole(k)
    BY <1>4 DEF Truncate, WritesWholeKey
  <2>2. EmptyFile \in Files
    <3>1. File(k, 0) \in Files
      BY PieceIsFile
    <3> QED BY <3>1 DEF File
  <2>3. TypeOK'
    BY <1>4, <2>2 DEF Truncate, TypeOK, Location
  <2>4. Rest'
    BY <1>4, <2>1 DEF Truncate, VerifiesPrintedKey, WritesWholeKey,
                      FileIsWhole, PrintedIsKept
  <2> QED BY <2>3, <2>4
<1>5. CASE Write
  <2>1. PICK k \in AllKeys : key = Whole(k)
    BY <1>5 DEF Write, WritesWholeKey
  <2>2. key.key = k /\ File(k, 4) \in Files
    BY <2>1, PieceIsFile DEF Whole
  <2>3. TypeOK'
    BY <1>5, <2>2 DEF Write, TypeOK, Location
  <2>4. Rest'
    BY <1>5, <2>1, <2>2 DEF Write, VerifiesPrintedKey, WritesWholeKey,
                            FileIsWhole, PrintedIsKept
  <2> QED BY <2>3, <2>4
<1>6. CASE WriteFails
  <2>1. PICK k \in AllKeys : key = Whole(k)
    BY <1>6 DEF WriteFails, WritesWholeKey
  <2>2. hash' \in Files
    <3>1. CASE process = "truncate"
      BY <1>0, <1>6, <3>1 DEF WriteFails
    <3>2. CASE process = "write"
      <4>1. PICK n \in 0..3 : hash' = File(k, n)
        BY <1>6, <2>1, <3>2 DEF WriteFails, Whole
      <4> QED BY <4>1, PieceIsFile
    <3> QED BY <1>6, <3>1, <3>2 DEF WriteFails
  <2>3. TypeOK'
    BY <1>6, <2>2 DEF WriteFails, Fault, TypeOK, Location
  <2>4. torn' /\ process' = "down"
    BY <1>6 DEF WriteFails, Fault
  <2>5. Rest'
    BY <2>4 DEF VerifiesPrintedKey, WritesWholeKey, FileIsWhole, PrintedIsKept
  <2> QED BY <2>3, <2>5
<1>7. CASE PrintKey
  <2>1. PICK k \in AllKeys : key = Whole(k) /\ hash = File(k, 4)
    BY <1>7 DEF PrintKey, WritesWholeKey
  <2>2. hash # NoFile /\ Readable(hash) /\ Decode(hash) = key
    BY <2>1, ReadBack
  <2>3. TypeOK'
    BY <1>7 DEF PrintKey, TypeOK, Location
  <2>4. Rest'
    BY <1>7, <2>1, <2>2 DEF PrintKey, VerifiesPrintedKey, WritesWholeKey,
                            FileIsWhole, PrintedIsKept
  <2> QED BY <2>3, <2>4
<1>8. CASE Crash
  <2>1. TypeOK'
    BY <1>8 DEF Crash, Fault, TypeOK, Location
  <2>2. process' = "down" /\ UNCHANGED <<hash, key, printed, requested>>
    BY <1>8 DEF Crash, Fault
  <2>3. CASE process \in {"truncate", "write"}
    <3>1. torn'
      BY <1>8, <2>3 DEF Crash, Fault
    <3> QED BY <2>1, <2>2, <3>1 DEF VerifiesPrintedKey, WritesWholeKey,
                                    FileIsWhole, PrintedIsKept
  <2>4. CASE process = "print"
    <3>1. PICK k \in AllKeys : key = Whole(k) /\ hash = File(k, 4)
      BY <2>4 DEF WritesWholeKey
    <3>2. hash # NoFile /\ Decode(hash) = key
      BY <3>1, ReadBack
    <3>3. torn' = torn
      BY <1>8, <2>4 DEF Crash, Fault, TypeOK
    <3> QED BY <2>1, <2>2, <2>4, <3>1, <3>2, <3>3
            DEF VerifiesPrintedKey, WritesWholeKey, FileIsWhole, PrintedIsKept
  <2>5. CASE process = "up"
    <3>1. torn' = torn
      BY <1>8, <2>5 DEF Crash, Fault, TypeOK
    <3> QED BY <2>1, <2>2, <2>5, <3>1
            DEF VerifiesPrintedKey, WritesWholeKey, FileIsWhole, PrintedIsKept
  <2> QED BY <1>0, <1>8, <2>3, <2>4, <2>5 DEF Crash, Location
<1>9. CASE Stop
  BY <1>9 DEF Stop, TypeOK, Location, VerifiesPrintedKey, WritesWholeKey,
              FileIsWhole, PrintedIsKept
<1>10. CASE DeleteHash
  <2>1. TypeOK'
    BY <1>10, InitIsTyped DEF DeleteHash, TypeOK
  <2>2. hash' = NoFile /\ process \in {"down", "up"} /\ requested'
        /\ UNCHANGED <<process, key, printed, torn>>
    BY <1>10 DEF DeleteHash
  <2>3. Rest'
    BY <2>2 DEF VerifiesPrintedKey, WritesWholeKey, FileIsWhole, PrintedIsKept
  <2> QED BY <2>1, <2>3
<1>11. CASE UNCHANGED vars
  BY <1>11 DEF vars, TypeOK, VerifiesPrintedKey, WritesWholeKey, FileIsWhole,
               PrintedIsKept
<1> QED
  BY <1>1, <1>2, <1>3, <1>4, <1>5, <1>6, <1>7, <1>8, <1>9, <1>10, <1>11
     DEF Next

\* The file, the key and what was printed fit each other wherever the process
\* is, whatever faults there were.
THEOREM KeyInvariantHolds == Spec => []KeyInvariant
BY InitEstablishes, StepPreserves, PTL DEF Spec

\* Every variable keeps its type.
THEOREM KeyTypeCorrect == Spec => []TypeOK
<1>1. KeyInvariant => TypeOK
  BY DEF KeyInvariant
<1> QED BY <1>1, KeyInvariantHolds, PTL

\* A process that listens verifies every CONNECT against the key it has
\* printed, however many writes were torn before.
THEOREM PrintedKeyIsVerified == Spec => []VerifiesPrintedKey
<1>1. KeyInvariant => VerifiesPrintedKey
  BY DEF KeyInvariant
<1> QED BY <1>1, KeyInvariantHolds, PTL

\* No restart and no fault changes the key that is printed, unless one came
\* while a key was written: a start finds the printed key in the file.
THEOREM KeyIsKept == Spec => KeySurvivesRestart
<1>1. KeyInvariant /\ [Next]_vars
        => [~torn /\ printed' # printed => OnRequest]_vars
  <2> SUFFICES ASSUME KeyInvariant, Next, ~torn, printed' # printed
               PROVE  OnRequest
    OBVIOUS
  <2>1. CASE StartStatic
    BY <2>1 DEF StartStatic, OnRequest
  <2>2. CASE StartFromFile
    BY <2>2 DEF StartFromFile, KeyInvariant, PrintedIsKept, OnRequest
  <2>3. CASE PrintKey
    BY <2>3 DEF PrintKey, KeyInvariant, PrintedIsKept, OnRequest
  <2> QED
    BY <2>1, <2>2, <2>3 DEF Next, StartGenerate, Truncate, Write, WriteFails,
                            Crash, Stop, DeleteHash
<1> QED BY <1>1, KeyInvariantHolds, PTL DEF Spec, KeySurvivesRestart

-----------------------------------------------------------------------------
(* The process *)

\* A step of the process is one of the stream key or leaves it alone.
LEMMA StepIsKeyStep == [IngestNext]_ingestVars => [Next]_vars
<1> SUFFICES ASSUME [IngestNext]_ingestVars PROVE [Next]_vars
  OBVIOUS
<1>1. CASE KeyStep
  BY <1>1 DEF KeyStep
<1>2. CASE Bind
  BY <1>2 DEF Bind
<1>3. CASE BindFails \/ AcceptFails
  BY <1>3 DEF BindFails, AcceptFails, Next
<1>4. ASSUME NEW c \in Conn, Client(c) PROVE UNCHANGED vars
  BY <1>4 DEF Client, Arrive, Accept, Connect, Leave, Ends
<1>5. CASE UNCHANGED ingestVars
  BY <1>5 DEF ingestVars
<1> QED BY <1>1, <1>2, <1>3, <1>4, <1>5 DEF IngestNext

\* Once the process is up, what it has printed and the file stay, unless it
\* goes down or the file is deleted.
LEMMA PrintedStays ==
  ASSUME Next, process = "up", process' # "down"
  PROVE  printed' = printed /\ process' = "up"
BY DEF Next, StartStatic, StartFromFile, StartGenerate, Truncate, Write,
       WriteFails, PrintKey, Crash, Stop, DeleteHash, Fault

LEMMA InitIsIngestInvariant == IngestInit => IngestInvariant
<1> SUFFICES ASSUME IngestInit PROVE IngestInvariant
  OBVIOUS
<1>1. KeyInvariant
  BY InitEstablishes DEF IngestInit
<1>2. IngestTypeOK
  BY <1>1 DEF IngestInit, Quiet, ConnLocation, IngestTypeOK, KeyInvariant
<1>3. ClientsAfterKey /\ OnlyPrintedKeyAdmits
  BY DEF IngestInit, Quiet, ClientsAfterKey, OnlyPrintedKeyAdmits
<1> QED BY <1>1, <1>2, <1>3 DEF IngestInvariant

\* With every connection the clients and what they were admitted with go.
LEMMA EndKeepsInvariant ==
  ASSUME KeyInvariant', EndConnections
  PROVE  IngestInvariant'
<1>1. IngestTypeOK'
  BY DEF EndConnections, Quiet, ConnLocation, IngestTypeOK, KeyInvariant
<1>2. ClientsAfterKey' /\ OnlyPrintedKeyAdmits'
  BY DEF EndConnections, Quiet, ClientsAfterKey, OnlyPrintedKeyAdmits
<1> QED BY <1>1, <1>2 DEF IngestInvariant

\* A client's steps keep the invariant: it is admitted only with the key in
\* the file, which is the one that was printed.
LEMMA ClientKeepsInvariant ==
  ASSUME IngestInvariant, KeyInvariant', NEW c \in Conn, Client(c)
  PROVE  IngestInvariant'
<1> USE DEF IngestInvariant, IngestTypeOK
<1>0. TypeOK'
  BY DEF KeyInvariant
<1>1. CASE Arrive(c)
  BY <1>0, <1>1 DEF Arrive, ConnLocation, ClientsAfterKey,
                    OnlyPrintedKeyAdmits, vars
<1>2. CASE Accept(c)
  BY <1>0, <1>2 DEF Accept, ConnLocation, ClientsAfterKey,
                    OnlyPrintedKeyAdmits, vars
<1>3. CASE Ends(c)
  BY <1>0, <1>3 DEF Ends, ConnLocation, ClientsAfterKey,
                    OnlyPrintedKeyAdmits, vars
<1>4. CASE Connect(c) /\ Readable(hash)
  <2>1. listening /\ process = "up"
    BY <1>4 DEF Connect, ClientsAfterKey
  <2>2. Decode(hash) = printed /\ printed \in Keys
    BY <1>4, <2>1 DEF KeyInvariant, VerifiesPrintedKey, TypeOK, Readable
  <2>3. admitted' = admitted \cup {[conn |-> c, key |-> printed]}
        /\ UNCHANGED <<vars, listening, conn>>
    BY <1>4, <2>2 DEF Connect
  <2>4. IngestTypeOK'
    BY <1>0, <2>2, <2>3
  <2>5. ClientsAfterKey' /\ OnlyPrintedKeyAdmits'
    BY <2>1, <2>3 DEF ClientsAfterKey, OnlyPrintedKeyAdmits, vars
  <2> QED BY <2>4, <2>5
<1> QED BY <1>1, <1>2, <1>3, <1>4 DEF Client, Connect, Leave

LEMMA StepKeepsInvariant ==
  IngestInvariant /\ [IngestNext]_ingestVars => IngestInvariant'
<1> SUFFICES ASSUME IngestInvariant, [IngestNext]_ingestVars
             PROVE  IngestInvariant'
  OBVIOUS
<1>0. KeyInvariant'
  BY StepIsKeyStep, StepPreserves DEF IngestInvariant
<1>1. CASE KeyStep /\ process' = "down"
  BY <1>0, <1>1, EndKeepsInvariant DEF KeyStep
<1>2. CASE KeyStep /\ process' # "down"
  <2>1. UNCHANGED connVars /\ Next
    BY <1>2 DEF KeyStep
  <2>2. TypeOK' /\ TypeOK
    BY <1>0 DEF KeyInvariant, IngestInvariant
  <2>3. IngestTypeOK'
    BY <2>1, <2>2 DEF connVars, IngestInvariant, IngestTypeOK
  <2>4. CASE process = "up"
    <3>1. printed' = printed /\ process' = "up"
      BY <1>2, <2>1, <2>4, PrintedStays
    <3> QED BY <1>0, <2>1, <2>3, <3>1
            DEF connVars, IngestInvariant, ClientsAfterKey,
                OnlyPrintedKeyAdmits
  <2>5. CASE process # "up"
    <3>1. ~listening' /\ admitted' = {} /\ conn' = conn
          /\ \A c \in Conn : conn[c] = "none"
      BY <2>1, <2>5 DEF connVars, IngestInvariant, IngestTypeOK,
                        ClientsAfterKey
    <3> QED BY <1>0, <2>3, <3>1
            DEF IngestInvariant, ClientsAfterKey, OnlyPrintedKeyAdmits
  <2> QED BY <2>4, <2>5
<1>3. CASE Bind
  <2>1. TypeOK'
    BY <1>0 DEF KeyInvariant
  <2> QED BY <1>0, <1>3, <2>1 DEF Bind, IngestInvariant, IngestTypeOK,
                             ClientsAfterKey, OnlyPrintedKeyAdmits, vars
<1>4. CASE BindFails \/ AcceptFails
  BY <1>0, <1>4, EndKeepsInvariant DEF BindFails, AcceptFails
<1>5. ASSUME NEW c \in Conn, Client(c) PROVE IngestInvariant'
  BY <1>0, <1>5, ClientKeepsInvariant
<1>6. CASE UNCHANGED ingestVars
  <2>1. TypeOK'
    BY <1>0 DEF KeyInvariant
  <2> QED BY <1>0, <1>6, <2>1
          DEF ingestVars, connVars, IngestInvariant, IngestTypeOK,
              ClientsAfterKey, OnlyPrintedKeyAdmits, vars
<1> QED BY <1>1, <1>2, <1>3, <1>4, <1>5, <1>6 DEF IngestNext

\* Clients are only served after the key was written and printed, and are
\* admitted with no other key.
THEOREM IngestInvariantHolds == IngestSpec => []IngestInvariant
BY InitIsIngestInvariant, StepKeepsInvariant, PTL DEF IngestSpec

\* Whoever streams was admitted with the key that the running process has
\* printed, whatever crashed, was torn or deleted before.
THEOREM AdmittedWithPrintedKey == IngestSpec => []OnlyPrintedKeyAdmits
<1>1. IngestInvariant => OnlyPrintedKeyAdmits
  BY DEF IngestInvariant
<1> QED BY <1>1, IngestInvariantHolds, PTL

\* The listening process, its clients and its failures are a behaviour of the
\* stream key: what is proved of the key holds of the process.
THEOREM IngestImplementsStreamKey == IngestSpec => Spec
<1>1. IngestInit => Init
  BY DEF IngestInit
<1> QED BY <1>1, StepIsKeyStep, PTL DEF IngestSpec, Spec
=============================================================================
