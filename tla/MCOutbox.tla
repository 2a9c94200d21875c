------------------------------ MODULE MCOutbox ------------------------------
(* Instances of Outbox for TLC.  No symmetry: the runs check liveness. *)
EXTENDS Outbox

CONSTANTS c1, c2, writer, nobody

TwoCallers == {c1, c2}
=============================================================================
