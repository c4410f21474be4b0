----------------------------- MODULE MCKeepAlive -----------------------------
(* The deadlines for TLC, in units of ten seconds as in the code: pongWait   *)
(* is two minutes, pingPeriod one, writeWait ten seconds.                    *)
EXTENDS KeepAlive

=============================================================================
