----------------------------- MODULE SyncMining -----------------------------
(***************************************************************************)
(* The mining loop of LotusMiner.RunDefault and the end of a test.         *)
(*                                                                         *)
(* Every miner instance runs two goroutines.  The mining goroutine works   *)
(* in rounds: it enters the sync state "mine-block-i", waits until all     *)
(* miners have entered it, mines one block and goes on to round i + 1, as  *)
(* long as the flag `mine' is set.  The main goroutine waits until every   *)
(* client has entered "stop-mining", clears the flag, waits for the mining *)
(* goroutine and enters "done".  Nothing synchronises the flag: a miner    *)
(* reads it at the top of a round, whenever that is.                       *)
(*                                                                         *)
(* The sync service keeps a counter per state: entering a state adds one,  *)
(* a barrier opens when the counter has reached its target.                *)
(***************************************************************************)
EXTENDS Naturals, FiniteSets

CONSTANTS
    Miner,          \* the instances with role "miner"
    Client,         \* the instances with role "client"
    Waiter,         \* the instances that only wait for "done": bootstrapper, drand, tracer
    Synchronized,   \* mining_mode = "synchronized"; FALSE stands for "natural"
    MaxRetries,     \* maxRetries of the loop (100 in the code)
    MaxRound        \* bound on the number of rounds (none in the code)

ASSUME NodesAssumption ==
    /\ IsFiniteSet(Miner) /\ IsFiniteSet(Client) /\ IsFiniteSet(Waiter)
    /\ Miner \cap Client = {}
    /\ Miner \cap Waiter = {}
    /\ Client \cap Waiter = {}

ASSUME BoundsAssumption ==
    /\ Synchronized \in BOOLEAN
    /\ MaxRetries \in Nat \ {0}
    /\ MaxRound \in Nat

VARIABLES
    pc,         \* pc[m]: where m's mining goroutine is
    round,      \* round[m]: the loop variable i of that goroutine
    retries,    \* retries[m]: failed attempts at the current block
    mine,       \* mine[m]: the flag the two goroutines share
    main,       \* main[n]: where the main goroutine of instance n is
    entered,    \* entered[i]: the counter of state "mine-block-i"
    stopCount,  \* the counter of state "stop-mining"
    doneCount   \* the counter of state "done"

mining == <<pc, round, retries, entered>>
vars == <<pc, round, retries, mine, main, entered, stopCount, doneCount>>

Node == Miner \cup Client \cup Waiter

\* t.TestInstanceCount: every instance of the test, whatever its role.
TestInstanceCount == Cardinality(Node)

TypeOK ==
    /\ pc \in [Miner -> {"check", "signal", "wait", "mine", "last", "exited", "panicked"}]
    /\ round \in [Miner -> 0 .. MaxRound]
    /\ retries \in [Miner -> 0 .. MaxRetries]
    /\ mine \in [Miner -> BOOLEAN]
    /\ main \in [Node -> {"run", "join", "stopped", "done", "returned", "failed", "dead"}]
    /\ entered \in [0 .. MaxRound -> Nat]
    /\ stopCount \in Nat
    /\ doneCount \in Nat

\* Every instance is past the "ready" barrier, and a miner has looked up its address.
\* In natural mode MineOne is nil: the mining goroutine is never started and `done' is
\* closed at once.
Init ==
    /\ pc = [m \in Miner |-> IF Synchronized THEN "check" ELSE "exited"]
    /\ round = [m \in Miner |-> 0]
    /\ retries = [m \in Miner |-> 0]
    /\ mine = [m \in Miner |-> TRUE]
    /\ main = [n \in Node |-> "run"]
    /\ entered = [i \in 0 .. MaxRound |-> 0]
    /\ stopCount = 0
    /\ doneCount = 0

-----------------------------------------------------------------------------
(* The mining goroutine of m. *)

Goto(m, from, to) ==
    /\ pc[m] = from
    /\ pc' = [pc EXCEPT ![m] = to]

\* The loop condition.  MaxRound bounds how often it holds.
CheckFlag(m) ==
    /\ \/ mine[m] /\ round[m] < MaxRound /\ Goto(m, "check", "signal")
       \/ ~mine[m] /\ Goto(m, "check", "last")
    /\ UNCHANGED <<round, retries, mine, main, entered, stopCount, doneCount>>

\* MustSignalAndWait, first half: enter "mine-block-i".
SignalRound(m) ==
    /\ Goto(m, "signal", "wait")
    /\ entered' = [entered EXCEPT ![round[m]] = @ + 1]
    /\ UNCHANGED <<round, retries, mine, main, stopCount, doneCount>>

\* Faulty variant: the barrier opens when one miner is still missing.
PassRound_OneShort(m) ==
    /\ entered[round[m]] >= Cardinality(Miner) - 1
    /\ Goto(m, "wait", "mine")
    /\ retries' = [retries EXCEPT ![m] = 0]
    /\ UNCHANGED <<round, mine, main, entered, stopCount, doneCount>>

\* MustSignalAndWait, second half: all miners are in "mine-block-i".
PassRound(m) ==
    /\ entered[round[m]] >= Cardinality(Miner)
    /\ Goto(m, "wait", "mine")
    /\ retries' = [retries EXCEPT ![m] = 0]
    /\ UNCHANGED <<round, mine, main, entered, stopCount, doneCount>>

\* The callback reports no error: the block is mined, i++.
MineBlock(m) ==
    /\ Goto(m, "mine", "check")
    /\ round' = [round EXCEPT ![m] = @ + 1]
    /\ UNCHANGED <<retries, mine, main, entered, stopCount, doneCount>>

\* Faulty variant: the loop does not give up after maxRetries.
MineError_Forever(m) ==
    /\ pc[m] = "mine"
    /\ retries' = [retries EXCEPT ![m] = @ + 1]
    /\ UNCHANGED <<pc, main, round, mine, entered, stopCount, doneCount>>

\* The callback reports an error: try again, and panic when there is no try left.
\* A panic takes the whole instance down, its main goroutine included.
MineError(m) ==
    /\ pc[m] = "mine"
    /\ retries' = [retries EXCEPT ![m] = @ + 1]
    /\ \/ /\ retries[m] + 1 < MaxRetries
          /\ UNCHANGED <<pc, main>>
       \/ /\ retries[m] + 1 = MaxRetries
          /\ pc' = [pc EXCEPT ![m] = "panicked"]
          /\ main' = [main EXCEPT ![m] = "dead"]
    /\ UNCHANGED <<round, mine, entered, stopCount, doneCount>>

\* MineOne itself reports an error: panic at once.
MineFails(m) ==
    /\ Goto(m, "mine", "panicked")
    /\ main' = [main EXCEPT ![m] = "dead"]
    /\ UNCHANGED <<round, retries, mine, entered, stopCount, doneCount>>

\* Faulty variant: leave the loop without the last signal.
SignalLast_Silent(m) ==
    /\ Goto(m, "last", "exited")
    /\ UNCHANGED <<round, retries, mine, main, entered, stopCount, doneCount>>

\* After the loop: enter the state of the round that is not mined, close(done).
SignalLast(m) ==
    /\ Goto(m, "last", "exited")
    /\ entered' = [entered EXCEPT ![round[m]] = @ + 1]
    /\ UNCHANGED <<round, retries, mine, main, stopCount, doneCount>>

-----------------------------------------------------------------------------
(* The main goroutines. *)

MainGoto(n, from, to) ==
    /\ main[n] = from
    /\ main' = [main EXCEPT ![n] = to]

\* Faulty variant: the first client stops the mining.
StopMining_FirstClient(m) ==
    /\ stopCount >= 1
    /\ MainGoto(m, "run", "join")
    /\ mine' = [mine EXCEPT ![m] = FALSE]
    /\ UNCHANGED <<mining, stopCount, doneCount>>

\* Faulty variant: the flag stays set.
StopMining_KeepFlag(m) ==
    /\ stopCount >= Cardinality(Client)
    /\ MainGoto(m, "run", "join")
    /\ UNCHANGED <<mining, mine, stopCount, doneCount>>

\* The barrier on "stop-mining" opens: mine = false.
StopMining(m) ==
    /\ stopCount >= Cardinality(Client)
    /\ MainGoto(m, "run", "join")
    /\ mine' = [mine EXCEPT ![m] = FALSE]
    /\ UNCHANGED <<mining, stopCount, doneCount>>

\* Faulty variant: no <-done.
MinerDone_NoJoin(m) ==
    /\ MainGoto(m, "join", "done")
    /\ doneCount' = doneCount + 1
    /\ UNCHANGED <<mining, mine, stopCount>>

\* <-done, then MustSignalAndWait(StateDone), first half.
MinerDone(m) ==
    /\ pc[m] = "exited"
    /\ MainGoto(m, "join", "done")
    /\ doneCount' = doneCount + 1
    /\ UNCHANGED <<mining, mine, stopCount>>

\* A client has finished its deals: MustSignalEntry(StateStopMining).
ClientStops(c) ==
    /\ MainGoto(c, "run", "stopped")
    /\ stopCount' = stopCount + 1
    /\ UNCHANGED <<mining, mine, doneCount>>

\* A client returns an error, or panics, before it has stopped the miners.
ClientFails(c) ==
    /\ MainGoto(c, "run", "failed")
    /\ UNCHANGED <<mining, mine, stopCount, doneCount>>

ClientDone(c) ==
    /\ MainGoto(c, "stopped", "done")
    /\ doneCount' = doneCount + 1
    /\ UNCHANGED <<mining, mine, stopCount>>

WaiterDone(w) ==
    /\ MainGoto(w, "run", "done")
    /\ doneCount' = doneCount + 1
    /\ UNCHANGED <<mining, mine, stopCount>>

\* MustSignalAndWait(StateDone), second half.
Return(n) ==
    /\ doneCount >= TestInstanceCount
    /\ MainGoto(n, "done", "returned")
    /\ UNCHANGED <<mining, mine, stopCount, doneCount>>

-----------------------------------------------------------------------------

MiningStep(m) ==
    \/ CheckFlag(m) \/ SignalRound(m) \/ PassRound(m)
    \/ MineBlock(m) \/ MineError(m) \/ MineFails(m) \/ SignalLast(m)

MainStep(n) ==
    \/ n \in Miner /\ (StopMining(n) \/ MinerDone(n))
    \/ n \in Client /\ (ClientStops(n) \/ ClientDone(n))
    \/ n \in Waiter /\ WaiterDone(n)
    \/ Return(n)

Next ==
    \/ \E m \in Miner : MiningStep(m)
    \/ \E n \in Node : MainStep(n)
    \/ \E c \in Client : ClientFails(c)

Spec == Init /\ [][Next]_vars

\* Each goroutine goes on as long as it can, and a client that does not fail
\* finishes its deals.  Nothing makes a client fail.
Fairness ==
    /\ \A m \in Miner : WF_vars(MiningStep(m))
    /\ \A n \in Node : WF_vars(MainStep(n))

FairSpec == Spec /\ Fairness

-----------------------------------------------------------------------------
(* Properties. *)

\* The barrier of each round keeps the miners together: no miner is ever more
\* than one block ahead of another, however the rounds, the stop signal and the
\* unsynchronised reads of the flag interleave.
Lockstep ==
    \A m, n \in Miner : round[m] <= round[n] + 1

\* A block is attempted only when every miner has committed to that round: it is
\* in the round, or has left the loop or died in it, or is already beyond it.
RoundTogether ==
    \A m, n \in Miner :
        pc[m] = "mine" =>
            \/ round[n] > round[m]
            \/ round[n] = round[m] /\ pc[n] \notin {"check", "signal", "last"}

\* Mining goes on for as long as any client may still need blocks: a miner leaves
\* the loop only after all clients have asked for it, and never when one failed.
MiningOutlivesClients ==
    Synchronized =>
        ((\E m \in Miner : pc[m] \in {"last", "exited"})
            => \A c \in Client : main[c] \notin {"run", "failed"})

\* When one instance returns from the test, no miner is mining any more and no
\* instance has failed or is still at work: a success is everybody's success.
DoneMeansAllDone ==
    (\E n \in Node : main[n] = "returned") =>
        /\ \A n \in Node : main[n] \in {"done", "returned"}
        /\ \A m \in Miner : pc[m] = "exited"

\* The rounds m has entered and got through.  A miner's last signal enters a round it
\* never gets through.
roundsEntered ==
    [m \in Miner |-> IF Synchronized /\ pc[m] \in {"wait", "mine", "panicked", "exited"}
                     THEN round[m] + 1 ELSE round[m]]

roundsPassed ==
    [m \in Miner |-> IF pc[m] \in {"mine", "panicked"} THEN round[m] + 1 ELSE round[m]]

\* The barriers "mine-block-i", for all i.
Barriers == INSTANCE Rounds WITH
    Party <- Miner, entered <- roundsEntered, passed <- roundsPassed

\* The miners implement the abstract rounds (runs check it, SyncMining_proofs proves it):
\* each enters a round once, and gets through only after all have entered it, also when the
\* flag is read late and when others leave the loop or die.
ImplementsRounds == Barriers!Spec

-----------------------------------------------------------------------------

Broken == \E n \in Node : main[n] \in {"failed", "dead"}

\* m waits for a round that another miner left the loop before.
LeftBehind(m) ==
    /\ pc[m] = "wait"
    /\ \E n \in Miner : pc[n] = "exited" /\ round[n] < round[m]

\* A miner that waits for a round gets through, unless some miner left the loop
\* in an earlier round (or died): leaving the loop releases the peers that are
\* waiting in the round that is not mined.
WaitEndsUnlessPeerLeft ==
    \A m \in Miner : (pc[m] = "wait") ~> (pc[m] # "wait" \/ Broken \/ LeftBehind(m))

\* What the comment before the last signal promises: no miner is left waiting for
\* the next block when others have stopped.
NoMinerLeftStuck ==
    \A m \in Miner : (pc[m] = "wait") ~> (pc[m] # "wait" \/ Broken)

\* The test comes to its end, in all instances, when no instance fails and no miner
\* is left behind in its loop.
Termination ==
    <>((\A n \in Node : main[n] = "returned") \/ Broken \/ \E m \in Miner : LeftBehind(m))

=============================================================================
