------------------------------- MODULE MCPump -------------------------------
(* Instances of Pump for TLC. *)
EXTENDS Pump
=============================================================================
