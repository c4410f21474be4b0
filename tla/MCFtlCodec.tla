----------------------------- MODULE MCFtlCodec -----------------------------
(* The decoder for TLC: every kind of command, an attribute whose value has *)
(* two words and a dot, one without a value, a CONNECT without a key and a  *)
(* word that is no command.                                                 *)
EXTENDS FtlCodec

Commands ==
  {[kind |-> k] : k \in {"HMAC", "Dot", "Ping", "Disconnect"}}
    \cup {[kind |-> "Connect", channel |-> <<"a">>, key |-> <<"b", "a">>],
          [kind |-> "Attribute", key |-> <<"a">>,
           value |-> <<"b", "space", "dot">>],
          [kind |-> "Attribute", key |-> <<"b">>, value |-> <<>>],
          [kind |-> "Other", text |-> <<"a">>],
          [kind |-> "Other", text |-> <<"CONNECT", "space", "a">>]}
=============================================================================
