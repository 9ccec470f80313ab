----------------------------- MODULE MCDrandHalt -----------------------------
(* Model checking instances of DrandHalt. *)
EXTENDS DrandHalt

CONSTANTS d1, d2, d3

=============================================================================
