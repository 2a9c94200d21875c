------------------------------- MODULE MCWake -------------------------------
(* Instances of Wake for TLC. *)
EXTENDS Wake

CONSTANTS p1, p2
TwoProducers == {p1, p2}
=============================================================================
