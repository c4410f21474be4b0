------------------------------- MODULE MCFtl -------------------------------
(* One FTL connection for TLC.  Four commands are enough for a payload to  *)
(* be replaced before it is used, and for an attribute to be set twice and *)
(* then reported.                                                          *)
EXTENDS FtlProperties

=============================================================================
