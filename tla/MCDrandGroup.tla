----------------------------- MODULE MCDrandGroup -----------------------------
(* Model checking instances of DrandGroup. *)
EXTENDS DrandGroup

CONSTANTS boot, d1, d2, d3

=============================================================================
