---------------------------- MODULE MCRecoveryRun ----------------------------
(* Model checking instances of RecoveryRun. *)
EXTENDS RecoveryRun

CONSTANTS m1, s1, s2, c1

\* One miner is to be restored, or none.
OneOrBoth == {{s1}, {s1, s2}}

=============================================================================
