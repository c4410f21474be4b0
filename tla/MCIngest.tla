------------------------------ MODULE MCIngest ------------------------------
(* The ingest process for TLC: two static and three generated keys, which   *)
(* are strings like the "none" of a file without a key, and two clients.    *)
EXTENDS Ingest, TLC

CONSTANTS d1, d2

StaticKeys    == {"s1", "s2"}
GeneratedKeys == {"g1", "g2", "g3"}
TwoClients    == {d1, d2}
=============================================================================
