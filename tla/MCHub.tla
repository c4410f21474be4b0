------------------------------- MODULE MCHub -------------------------------
(* Instances of the hub for TLC: clients are interchangeable model values. *)
EXTENDS HubProperties, TLC

CONSTANTS c1, c2

TwoClients == {c1, c2}
OneClient  == {c1}

Symmetry == Permutations(TwoClients)
=============================================================================
