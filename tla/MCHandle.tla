------------------------------ MODULE MCHandle ------------------------------
(* Instances of Handle for TLC. *)
EXTENDS Handle

CONSTANTS c1, c2

TwoCallers == {c1, c2}
=============================================================================
