----------------------------- MODULE MCChainDiffs -----------------------------
(* Instance of ChainDiffs for TLC. *)
EXTENDS ChainDiffs

\* Locked funds on both sides of a multiple of the unit, with two different losses in
\* three values; faults that change with them and against them.
ThreeStates ==
    {[LockedFunds |-> 1, Faults |-> 1],
     [LockedFunds |-> 5, Faults |-> 0],
     [LockedFunds |-> 6, Faults |-> 1]}

=============================================================================
