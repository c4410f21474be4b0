----------------------------- MODULE StreamKey -----------------------------
(***************************************************************************)
(* The stream key of Lightspeed ingest (read_stream_key and                *)
(* generate_stream_key in ingest/src/connection.rs): chosen at startup,    *)
(* printed for the streamer, and kept in the file "hash", from which every *)
(* CONNECT reads it again.                                                 *)
(*                                                                         *)
(* A key is two bytes here, so the file holds four hex digits.  The first  *)
(* n digits of key k are [key |-> k, digits |-> n]; a file that was        *)
(* truncated and not written is EmptyFile.  fs::write is two steps, open   *)
(* (which truncates) and write, between which the process can be killed.   *)
(***************************************************************************)
EXTENDS Naturals

CONSTANTS Static,     \* keys the operator may pass with --stream-key
          Generated,  \* keys the generator may come up with
          MaxFaults   \* bound: crashes and failed writes

ASSUME KeyAssumption == Static \cap Generated = {}
ASSUME FaultAssumption == MaxFaults \in Nat

VARIABLES
  process,   \* where the process is
  hash,      \* the file "hash"
  key,       \* the key this process has chosen at startup
  printed,   \* the key printed last, by this process or an earlier one
  requested, \* whether the operator asked for another key since
  used,      \* generated keys so far: a random key does not come twice
  faults,    \* crashes and failed writes so far
  torn       \* whether one of them came between choosing and writing a key

vars == <<process, hash, key, printed, requested, used, faults, torn>>

Location == {"down", "truncate", "write", "print", "up"}

AllKeys   == Static \cup Generated
NoKey     == [key |-> "none", bytes |-> 0]
NoFile    == [key |-> "none", digits |-> 5]
EmptyFile == [key |-> "none", digits |-> 0]
File(k, n)  == IF n = 0 THEN EmptyFile ELSE [key |-> k, digits |-> n]
Whole(k)    == [key |-> k, bytes |-> 2]

Init ==
  /\ process = "down" /\ hash = NoFile
  /\ key = NoKey /\ printed = NoKey
  /\ requested = TRUE /\ used = {} /\ faults = 0 /\ torn = FALSE

-----------------------------------------------------------------------------

\* fs::read_to_string succeeds and hex::decode finds pairs of digits.
Readable(f) == f # NoFile /\ f.digits % 2 = 0

\* Every digit is taken for a byte.
BrokenDecode(f) == [key |-> f.key, bytes |-> f.digits]

\* The key hex::decode makes of a readable file; an empty file is a key of
\* no bytes.
Decode(f) == [key |-> f.key, bytes |-> f.digits \div 2]

\* --stream-key, or STREAM_KEY, is given: it is printed, then written.
StartStatic ==
  /\ process = "down" /\ process' = "truncate"
  /\ \E k \in Static : key' = Whole(k) /\ printed' = Whole(k)
  /\ requested' = FALSE
  /\ UNCHANGED <<hash, used, faults, torn>>

\* The file holds a key: it is printed and stays.
StartFromFile ==
  /\ process = "down" /\ process' = "up"
  /\ Readable(hash)
  /\ key' = Decode(hash) /\ printed' = Decode(hash)
  /\ requested' = FALSE
  /\ UNCHANGED <<hash, used, faults, torn>>

\* There is no file, or it cannot be decoded: a key is generated.
StartGenerate ==
  /\ process = "down" /\ process' = "truncate"
  /\ ~Readable(hash)
  /\ \E k \in Generated \ used : key' = Whole(k) /\ used' = used \cup {k}
  /\ UNCHANGED <<hash, printed, requested, faults, torn>>

\* The new key is printed without having been written.
BrokenTruncate ==
  /\ process = "truncate" /\ process' = "print"
  /\ UNCHANGED <<hash, key, printed, requested, used, faults, torn>>

\* fs::write opens the file, which empties it ...
Truncate ==
  /\ process = "truncate" /\ process' = "write"
  /\ hash' = EmptyFile
  /\ UNCHANGED <<key, printed, requested, used, faults, torn>>

\* ... and writes the digits.
Write ==
  /\ process = "write" /\ process' = "print"
  /\ hash' = File(key.key, 4)
  /\ UNCHANGED <<key, printed, requested, used, faults, torn>>

Fault ==
  /\ faults < MaxFaults /\ faults' = faults + 1
  /\ process' = "down"
  /\ torn' = (torn \/ process \in {"truncate", "write"})

\* The file cannot be opened, or not all digits can be written: expect
\* panics and the process ends.
WriteFails ==
  /\ process \in {"truncate", "write"}
  /\ Fault
  /\ hash' \in IF process = "truncate" THEN {hash}
               ELSE {File(key.key, n) : n \in 0..3}
  /\ UNCHANGED <<key, printed, requested, used>>

\* A generated key is printed after it was written; a static one was before.
PrintKey ==
  /\ process = "print" /\ process' = "up"
  /\ printed' = key
  /\ requested' = FALSE
  /\ UNCHANGED <<hash, key, used, faults, torn>>

\* The process is killed.
Crash ==
  /\ process # "down"
  /\ Fault
  /\ UNCHANGED <<hash, key, printed, requested, used>>

\* The operator stops the process.
Stop ==
  /\ process = "up" /\ process' = "down"
  /\ UNCHANGED <<hash, key, printed, requested, used, faults, torn>>

\* The operator deletes the file to get another key.
DeleteHash ==
  /\ hash # NoFile /\ hash' = NoFile
  /\ process \in {"down", "up"}
  /\ requested' = TRUE
  /\ UNCHANGED <<process, key, printed, used, faults, torn>>

Next == \/ StartStatic \/ StartFromFile \/ StartGenerate
        \/ Truncate \/ Write \/ WriteFails \/ PrintKey
        \/ Crash \/ Stop \/ DeleteHash

Spec == Init /\ [][Next]_vars

-----------------------------------------------------------------------------
(* Properties *)

\* What can be in the file, and what a key can be that was read from it.
Files == {NoFile} \cup {File(k, n) : k \in AllKeys, n \in 0..4}
Keys  == [key : AllKeys, bytes : 1..2] \cup {NoKey}

\* Every variable has its type.
TypeOK ==
  /\ process \in Location
  /\ hash \in Files /\ key \in Keys /\ printed \in Keys
  /\ requested \in BOOLEAN /\ used \subseteq Generated
  /\ faults \in 0..MaxFaults /\ torn \in BOOLEAN

\* Once the process listens, a CONNECT is verified against the key that was
\* printed, after whatever crashes, or panics because the file was deleted.
VerifiesPrintedKey ==
  process = "up" =>
    printed = key /\ (hash = NoFile \/ (Readable(hash) /\ Decode(hash) = key))

\* The operator deleted the file, or gave a static key.
OnRequest == requested \/ \E k \in Static : printed' = Whole(k)

\* "This key WILL NOT change unless the hash file is deleted" (README.md): the
\* key survives restarts and crashes, those that interrupt the writing of a
\* key excepted; what is printed changes only on request.
KeySurvivesRestart == [][~torn /\ printed' # printed => OnRequest]_vars

-----------------------------------------------------------------------------
(* The inductive invariant: why the properties above hold *)

\* While a chosen key is being written it is whole, and the file is what the
\* steps of fs::write have made of it; nobody deletes the file meanwhile.
WritesWholeKey ==
  process \in {"truncate", "write", "print"} =>
    \E k \in AllKeys : /\ key = Whole(k)
                       /\ process = "write" => hash = EmptyFile
                       /\ process = "print" => hash = File(k, 4)

\* Unless a fault interrupted a write, the file holds a whole key or is not
\* there.
FileIsWhole ==
  (~torn /\ process \in {"down", "up"}) =>
    hash = NoFile \/ \E k \in AllKeys : hash = File(k, 4)

\* Unless a fault interrupted a write or another key was asked for, the key
\* that was printed is the one in the file, or on its way into it.
PrintedIsKept ==
  (~torn /\ ~requested) =>
    IF process \in {"down", "up"} THEN hash # NoFile /\ Decode(hash) = printed
                                  ELSE key = printed

KeyInvariant ==
  TypeOK /\ VerifiesPrintedKey /\ WritesWholeKey /\ FileIsWhole /\ PrintedIsKept
=============================================================================
