------------------------------ MODULE MCSocket ------------------------------
(* The page's websocket for TLC.  Eight sockets are enough for the delay to *)
(* grow from 250 ms to 10 s without an open connection, and to stay there.  *)
EXTENDS SocketProperties

=============================================================================
