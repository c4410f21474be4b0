----------------------------- MODULE MCRtpRelay -----------------------------
(* The relay for TLC: two viewers, of whom one may fail while the other is   *)
(* served, and packets enough for one to wait behind a Write.  There is one  *)
(* kind of datagram for each way through Read.                               *)
EXTENDS RtpRelay

MCSent == {[type |-> "video", whole |-> TRUE],
           [type |-> "audio", whole |-> TRUE],
           [type |-> "audio", whole |-> FALSE],
           [type |-> "other", whole |-> TRUE],
           [type |-> "none", whole |-> FALSE]}

=============================================================================
