------------------------------- MODULE MCHold -------------------------------
(* Hold on a small instance. *)
EXTENDS Hold, TLC
=============================================================================
