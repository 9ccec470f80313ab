------------------------------ MODULE MCDealsRun ------------------------------
(* Model checking instances of DealsRun. *)
EXTENDS DealsRun

CONSTANTS m1, c1, c2

=============================================================================
