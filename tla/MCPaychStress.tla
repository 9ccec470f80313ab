---------------------------- MODULE MCPaychStress ----------------------------
(* Model checking instances of PaychStress. *)
EXTENDS PaychStress

CONSTANTS s1, s2, recv

=============================================================================
