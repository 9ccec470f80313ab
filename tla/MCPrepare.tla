------------------------------ MODULE MCPrepare ------------------------------
(* Model checking instances of Prepare. *)
EXTENDS Prepare

CONSTANTS m1, m2, c1, boot, tr, d1

=============================================================================
