-------------------------- MODULE MCGraphsyncStress --------------------------
(* Model checking instances of GraphsyncStress. *)
EXTENDS GraphsyncStress

CONSTANTS p1, r1, r2, r3, none

\* With the zero values put before them: four rounds.
OneBandwidth == <<8>>
OneLatency == <<5>>

=============================================================================
