------------------------------- MODULE MCStall -------------------------------
(* Instances of Stall for TLC. *)
EXTENDS Stall
=============================================================================
