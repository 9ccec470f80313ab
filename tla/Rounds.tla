------------------------------- MODULE Rounds -------------------------------
(***************************************************************************)
(* What a sequence of calls of MustSignalAndWait, one state per round,     *)
(* promises to a fixed set of parties: nobody gets through a round before  *)
(* all have entered it.  The tests that work in rounds implement this,     *)
(* whatever else their instances do; a party may stop in any place.        *)
(*                                                                         *)
(* The sync service of Testground is not in the repository; this is what   *)
(* the code that uses it relies on.                                        *)
(***************************************************************************)
EXTENDS Naturals

CONSTANT Party

VARIABLES
    entered,    \* entered[p]: how many rounds p has entered
    passed      \* passed[p]: how many rounds p has got through

vars == <<entered, passed>>

Init ==
    /\ entered = [p \in Party |-> 0]
    /\ passed = [p \in Party |-> 0]

Enter(p) ==
    /\ entered[p] = passed[p]
    /\ entered' = [entered EXCEPT ![p] = @ + 1]
    /\ UNCHANGED passed

Pass(p) ==
    /\ passed[p] < entered[p]
    /\ \A q \in Party : entered[q] >= entered[p]
    /\ passed' = [passed EXCEPT ![p] = @ + 1]
    /\ UNCHANGED entered

Next == \E p \in Party : Enter(p) \/ Pass(p)

Spec == Init /\ [][Next]_vars

=============================================================================
