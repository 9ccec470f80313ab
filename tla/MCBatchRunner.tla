---------------------------- MODULE MCBatchRunner ----------------------------
(* Instance of BatchRunner for TLC: the bounds are numbers, given in the cfg. *)
EXTENDS BatchRunner

=============================================================================
