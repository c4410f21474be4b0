----------------------------- MODULE MCSignaling -----------------------------
(* Signalling for TLC.  Two sockets are enough for everything that belongs  *)
(* to an earlier negotiation to meet a later one.                           *)
EXTENDS SignalingProperties

=============================================================================
