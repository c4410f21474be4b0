------------------------------ MODULE FtlCodec ------------------------------
(***************************************************************************)
(* The decoder of Lightspeed ingest (ingest/src/ftl_codec.rs) under        *)
(* tokio's Framed, which reads what the network has and calls decode again *)
(* and again until it wants more.                                          *)
(*                                                                         *)
(* The client writes commands; the bytes reach the decoder in pieces cut   *)
(* anywhere.  A byte string is a sequence of symbols, one for each word    *)
(* the decoder looks for, one for each delimiter, and some for other text. *)
(***************************************************************************)
EXTENDS SequencesExt, Naturals

CONSTANTS Letter,    \* text that decode does not look for
          Command,   \* commands the client may send
          MaxSent    \* bound: commands sent on one connection

ASSUME MaxSentAssumption == MaxSent \in Nat

VARIABLES
  sent,     \* history: the commands the client has sent
  network,  \* symbols under way
  open,     \* whether the client has not closed its side
  buffer,   \* the buffer of Framed
  decoded,  \* history: the commands decode has returned
  reader    \* what frame.next() does: "decode", "read", or it has ended

vars == <<sent, network, open, buffer, decoded, reader>>

Reader == {"decode", "read", "end", "error", "panic"}

\* What decode looks for in a command.
Looked == {"HMAC", "DISCONNECT", "CONNECT", "colon", "PING"}

Symbol ==
  Looked \cup {"space", "dollar", "dot", "number", "cr", "lf"} \cup Letter

Delimiter == <<"cr", "lf", "cr", "lf">>

Join(word, separator, rest) == word \o <<separator>> \o rest

\* What the client writes for a command: the FTL protocol.
Text(c) ==
  CASE c.kind = "HMAC"       -> <<"HMAC">>
    [] c.kind = "Connect"    -> Join(<<"CONNECT">>, "space",
                                  Join(c.channel, "space",
                                    <<"dollar">> \o c.key))
    [] c.kind = "Attribute"  -> Join(c.key, "colon", <<"space">> \o c.value)
    [] c.kind = "Dot"        -> <<"dot">>
    [] c.kind = "Ping"       -> Join(<<"PING">>, "space", <<"number">>)
    [] c.kind = "Disconnect" -> <<"DISCONNECT">>
    [] c.kind = "Other"      -> c.text

Written(c) == Text(c) \o Delimiter

\* Text without line ends, and without what decode looks for in a command.
Line == {text \in Seq(Symbol) : {"cr", "lf"} \cap Range(text) = {}}

Plain == {text \in Line : Looked \cap Range(text) = {}}

\* A channel or a key is one word; a value has no space at its ends.
Word == {text \in Plain : "space" \notin Range(text)}

Trimmed ==
  {text \in Plain :
     text # <<>> => text[1] # "space" /\ text[Len(text)] # "space"}

\* What decode does not take: a line with nothing in it that it looks for, or
\* a CONNECT with less than two spaces.
Refusable ==
  {text \in Plain : text # <<"dot">>}
    \cup {text \in Line :
            /\ Looked \cap Range(text) = {"CONNECT"}
            /\ \A i, j \in DOMAIN text :
                 text[i] = "space" /\ text[j] = "space" => i = j}

FtlCommand ==
  [kind : {"HMAC", "Dot", "Ping", "Disconnect"}]
    \cup [kind : {"Connect"}, channel : Word, key : Word]
    \cup [kind : {"Attribute"}, key : Plain, value : Trimmed]
    \cup [kind : {"Other"}, text : Refusable]

ASSUME CommandAssumption == Command \subseteq FtlCommand

Init ==
  /\ sent = <<>> /\ network = <<>> /\ open = TRUE
  /\ buffer = <<>> /\ decoded = <<>> /\ reader = "decode"

-----------------------------------------------------------------------------
(* decode *)

\* str::split: the words up to the first separator and behind it.
Cut(text, separator) ==
  Min({i \in DOMAIN text : text[i] = separator} \cup {Len(text) + 1})

First(text, separator) == SubSeq(text, 1, Cut(text, separator) - 1)

Rest(text, separator) == SubSeq(text, Cut(text, separator) + 1, Len(text))

\* str::trim
Trim(text) ==
  LET inner == {i \in DOMAIN text : text[i] # "space"}
  IN  IF inner = {} THEN <<>> ELSE SubSeq(text, Min(inner), Max(inner))

\* str::contains; DISCONNECT contains CONNECT.
Has(text, word) ==
  Contains(text, word) \/ (word = "CONNECT" /\ Contains(text, "DISCONNECT"))

Failure(kind) == [kind |-> kind]

\* A missing word or an empty key is indexed all the same.
ParseConnect(text) ==
  LET channel == Rest(text, "space")
      key     == First(Rest(channel, "space"), "space")
  IN  IF ~Contains(channel, "space") \/ key = <<>> THEN Failure("panic")
      ELSE [kind    |-> "Connect",
            channel |-> First(channel, "space"), key |-> Tail(key)]

ParseAttribute(text) ==
  [kind  |-> "Attribute", key |-> First(text, "colon"),
   value |-> Trim(First(Rest(text, "colon"), "colon"))]

\* CONNECT is looked for before DISCONNECT, which contains it.
BrokenParse(text) ==
  CASE Has(text, "HMAC")       -> [kind |-> "HMAC"]
    [] ~Has(text, "HMAC") /\ Has(text, "CONNECT") -> ParseConnect(text)
    [] ~Has(text, "HMAC") /\ ~Has(text, "CONNECT")
       /\ Contains(text, "colon") -> ParseAttribute(text)
    [] text = <<"dot">>        -> [kind |-> "Dot"]
    [] Contains(text, "PING")  -> [kind |-> "Ping"]
    [] OTHER                   -> Failure("error")

\* The first test that the text passes, in the order of the code.
Parse(text) ==
  IF      Has(text, "HMAC")       THEN [kind |-> "HMAC"]
  ELSE IF Has(text, "DISCONNECT") THEN [kind |-> "Disconnect"]
  ELSE IF Has(text, "CONNECT")    THEN ParseConnect(text)
  ELSE IF Has(text, "colon")      THEN ParseAttribute(text)
  ELSE IF text = <<"dot">>        THEN [kind |-> "Dot"]
  ELSE IF Has(text, "PING")       THEN [kind |-> "Ping"]
  ELSE Failure("error")

\* A delimiter is looked for only at the end of what has been read.
BrokenDelimiters(bytes) ==
  {i \in DOMAIN bytes :
     i + 3 = Len(bytes) /\ SubSeq(bytes, i, i + 3) = Delimiter}

\* buf.windows(4)
Delimiters(bytes) ==
  {i \in 1..(Len(bytes) - 3) : SubSeq(bytes, i, i + 3) = Delimiter}

\* Only one line end is skipped.
BrokenAfter(bytes, index) == SubSeq(bytes, index + 2, Len(bytes))

\* buf.advance(index + 4)
After(bytes, index) == SubSeq(bytes, index + 4, Len(bytes))

\* decode takes what is before the first delimiter, and returns a command.
DecodeCommand ==
  /\ reader = "decode"
  /\ \E index \in Delimiters(buffer) :
       /\ \A i \in Delimiters(buffer) : index <= i
       /\ buffer' = After(buffer, index)
       /\ LET command == Parse(SubSeq(buffer, 1, index - 1))
          IN  IF command.kind \in Reader
              THEN reader' = command.kind /\ UNCHANGED decoded
              ELSE decoded' = Append(decoded, command) /\ UNCHANGED reader
  /\ UNCHANGED <<sent, network, open>>

\* decode returns None: Framed reads.
DecodeNone ==
  /\ reader = "decode"
  /\ Delimiters(buffer) = {}
  /\ reader' = "read"
  /\ UNCHANGED <<sent, network, open, buffer, decoded>>

\* The first n symbols that are under way arrive.
Read(n) ==
  /\ reader = "read" /\ reader' = "decode"
  /\ n \in 1..Len(network)
  /\ buffer' = buffer \o SubSeq(network, 1, n)
  /\ network' = SubSeq(network, n + 1, Len(network))
  /\ UNCHANGED <<sent, open, decoded>>

\* The end of the stream: an error if a command is incomplete.
ReadEnd ==
  /\ reader = "read"
  /\ network = <<>> /\ ~open
  /\ reader' = IF buffer = <<>> THEN "end" ELSE "error"
  /\ UNCHANGED <<sent, network, open, buffer, decoded>>

-----------------------------------------------------------------------------
(* The client *)

Send(c) ==
  /\ open /\ Len(sent) < MaxSent
  /\ sent' = Append(sent, c)
  /\ network' = network \o Written(c)
  /\ UNCHANGED <<open, buffer, decoded, reader>>

\* The client closes, or dies while it writes: the tail is never sent.
Hangup(n) ==
  /\ open /\ open' = FALSE
  /\ n \in 0..Len(network)
  /\ network' = SubSeq(network, 1, n)
  /\ UNCHANGED <<sent, buffer, decoded, reader>>

-----------------------------------------------------------------------------

DecoderStep == \/ DecodeCommand \/ DecodeNone \/ ReadEnd
               \/ \E n \in 1..Len(network) : Read(n)

ClientStep == \/ \E c \in Command : Send(c)
              \/ \E n \in 0..Len(network) : Hangup(n)

Next == DecoderStep \/ ClientStep

Spec == Init /\ [][Next]_vars

(***************************************************************************)
(* Fairness.  What is under way arrives and is decoded, given that the     *)
(* frame task asks for the next command.  The client may stop any time.    *)
(***************************************************************************)
FairSpec == Spec /\ WF_vars(DecoderStep)

-----------------------------------------------------------------------------
(* Properties *)

\* Every variable has its type, and the buffer never holds a command that
\* could be decoded while Framed waits for more.
TypeOK ==
  /\ sent \in Seq(Command) /\ Len(sent) <= MaxSent
  /\ network \in Seq(Symbol) /\ buffer \in Seq(Symbol)
  /\ open \in BOOLEAN /\ reader \in Reader
  /\ decoded \in Seq(Command)
  /\ reader = "read" => Delimiters(buffer) = {}

\* A command decode does not take.
Refused(c) == c.kind = "Other"

\* What comes out is what was sent, in order, wherever the network cuts the
\* stream and however much arrives at once; and it stops only at a command
\* that is refused, or because the client has gone.
DecodesWhatWasSent ==
  /\ IsPrefix(decoded, sent)
  /\ (reader = "read" /\ network = <<>> /\ open) => decoded = sent
  /\ reader \in {"error", "panic"} =>
       \/ ~open
       \/ Len(decoded) < Len(sent) /\ Refused(sent[Len(decoded) + 1])

\* The bytes of some commands, one after the other.
Stream(commands) ==
  FlattenSeq([k \in DOMAIN commands |-> Written(commands[k])])

\* What decode has still to return of what was sent.
Owed == Stream(SubSeq(sent, Len(decoded) + 1, Len(sent)))

\* What is in the buffer and under way are the bytes of the commands that are
\* owed, from the first byte of the first of them on; all of them as long as
\* the client is there.
StreamIsOwed ==
  reader \notin {"error", "panic"} =>
    /\ IsPrefix(buffer \o network, Owed)
    /\ open => buffer \o network = Owed

\* What the steps of the decoder and of the client keep.
CodecInvariant == TypeOK /\ StreamIsOwed /\ DecodesWhatWasSent

\* Everything the client sent is decoded, unless the connection ends.
EverythingIsDecoded ==
  \A n \in 1..MaxSent :
    Len(sent) >= n
      ~> (Len(decoded) >= n \/ reader \in {"end", "error", "panic"})
=============================================================================
