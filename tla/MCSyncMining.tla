---------------------------- MODULE MCSyncMining ----------------------------
(* Model checking instances of SyncMining. *)
EXTENDS SyncMining

CONSTANTS m1, m2, c1, c2, boot

=============================================================================
