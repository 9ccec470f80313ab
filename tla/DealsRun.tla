------------------------------- MODULE DealsRun -------------------------------
(***************************************************************************)
(* The clients of the deals tests (deals_e2e.go, deals_stress.go) together *)
(* with the miners they make deals with.  A client starts its deals, waits *)
(* until each is sealed, retrieves the data of each, and only then asks    *)
(* the miners to stop: sealing and retrieving both take blocks.            *)
(*                                                                         *)
(* This is SyncMining with the step ClientStops taken apart.  main[c] goes *)
(* through the phases below instead of "run"; miners and waiters are as    *)
(* they are in SyncMining.  The markets and the chain, which seal a deal,  *)
(* are external.                                                           *)
(***************************************************************************)
EXTENDS SyncMining

CONSTANTS
    Tests,      \* of "e2e", "fast" (with fast_retrieval), "concurrent", "serial" (deal_mode)
    NDeals      \* parameter "deals" of the stress test; the other has one deal per client

ASSUME TestsAssumption ==
    /\ Tests \subseteq {"e2e", "fast", "concurrent", "serial"}
    /\ NDeals \in Nat \ {0}

VARIABLES
    test,       \* which test is run
    deal,       \* deal[c][d]: how far c's deal d is, see DealState
    doneSealing \* the counter of "done-sealing"

dealVars == <<vars, test, deal, doneSealing>>
miningRest == <<mining, mine>>

EndToEnd == test \in {"e2e", "fast"}
Deal == 1 .. (IF EndToEnd THEN 1 ELSE NDeals)

\* "sealing": proposed, c watches the tipsets.  "active", "broken": what the chain says and
\* c has not seen yet.  "sealed": c has seen it.  "blind": c stopped watching.
\* "retrieved", "lost": what RetrieveData returned.
DealState == {"none", "sealing", "active", "broken", "sealed", "blind", "retrieved", "lost"}

ClientPhase == {"channel", "import", "deals", "sealed", "sealedWait", "retrieve", "stop"}

\* Some miner is still in its loop; in natural mode a miner mines as long as it is up.
BlocksAreMade ==
    \E m \in Miner : IF Synchronized THEN pc[m] \notin {"last", "exited", "panicked"}
                                     ELSE main[m] \notin {"returned", "dead"}

DealsInit ==
    /\ test \in Tests
    /\ pc = [m \in Miner |-> IF Synchronized THEN "check" ELSE "exited"]
    /\ round = [m \in Miner |-> 0] /\ retries = [m \in Miner |-> 0]
    /\ mine = [m \in Miner |-> TRUE]
    /\ main = [n \in Node |-> IF n \notin Client THEN "run"
                              ELSE IF test = "fast" THEN "channel" ELSE "import"]
    /\ entered = [i \in 0 .. MaxRound |-> 0]
    /\ stopCount = 0 /\ doneCount = 0 /\ doneSealing = 0
    /\ deal = [c \in Client |-> [d \in 1 .. NDeals |-> "none"]]

DealGoto(c, d, from, to) ==
    /\ deal[c][d] = from
    /\ deal' = [deal EXCEPT ![c][d] = to]

-----------------------------------------------------------------------------
(* Until the deals are sealed. *)

\* initPaymentChannel waits for a message to appear on chain.
InitPaymentChannel(c) ==
    /\ BlocksAreMade
    /\ MainGoto(c, "channel", "import")
    /\ UNCHANGED <<miningRest, stopCount, doneCount, deal, doneSealing>>

ImportData(c) ==
    /\ MainGoto(c, "import", "deals")
    /\ UNCHANGED <<miningRest, stopCount, doneCount, deal, doneSealing>>

\* With deal_mode "serial" each deal is made when the one before it is sealed.
Turn(c, d, before) == test = "serial" => \A e \in 1 .. d - 1 : deal[c][e] \notin before

StartDeal(c, d) ==
    /\ main[c] = "deals"
    /\ Turn(c, d, {"none", "sealing", "active", "broken"})
    /\ DealGoto(c, d, "none", "sealing")
    /\ UNCHANGED <<miningRest, main, stopCount, doneCount, doneSealing>>

\* The miner seals the deal, which takes blocks, ...
DealActive(c, d) ==
    /\ BlocksAreMade
    /\ DealGoto(c, d, "sealing", "active")
    /\ UNCHANGED <<miningRest, main, stopCount, doneCount, doneSealing>>

\* ... or the deal is rejected, failing or in error.
DealBreaks(c, d) ==
    /\ DealGoto(c, d, "sealing", "broken")
    /\ UNCHANGED <<miningRest, main, stopCount, doneCount, doneSealing>>

\* WaitDealSealed asks for the state of the deal whenever there is a tipset.  A broken deal
\* makes it panic, which takes the instance down whatever its other goroutines do.
SeeDeal(c, d) ==
    /\ BlocksAreMade /\ main[c] = "deals"
    /\ \/ DealGoto(c, d, "active", "sealed") /\ UNCHANGED main
       \/ deal[c][d] = "broken" /\ MainGoto(c, "deals", "failed") /\ UNCHANGED deal
    /\ UNCHANGED <<miningRest, stopCount, doneCount, doneSealing>>

\* The channel of tipsets is closed: WaitDealSealed returns just as well.
TipsetsEnd(c, d) ==
    /\ main[c] = "deals" /\ deal[c][d] \in {"sealing", "active", "broken"}
    /\ deal' = [deal EXCEPT ![c][d] = "blind"]
    /\ UNCHANGED <<miningRest, main, stopCount, doneCount, doneSealing>>

\* Faulty variant: only goroutines that have been scheduled already are waited for.
AllSealed_Started(c) ==
    /\ \A d \in Deal : deal[c][d] \in {"none", "sealed", "blind"}
    /\ MainGoto(c, "deals", IF EndToEnd THEN "sealed" ELSE "retrieve")
    /\ UNCHANGED <<miningRest, stopCount, doneCount, deal, doneSealing>>

\* wg1.Wait, or the end of the loop.
AllSealed(c) ==
    /\ \A d \in Deal : deal[c][d] \in {"sealed", "blind"}
    /\ MainGoto(c, "deals", IF EndToEnd THEN "sealed" ELSE "retrieve")
    /\ UNCHANGED <<miningRest, stopCount, doneCount, deal, doneSealing>>

\* The end-to-end test also waits for the deals of the other clients.
SignalSealed(c) ==
    /\ MainGoto(c, "sealed", "sealedWait")
    /\ doneSealing' = doneSealing + 1
    /\ UNCHANGED <<miningRest, stopCount, doneCount, deal>>

\* Faulty variant: the barrier counts all instances of the test.
PassSealed_AllInstances(c) ==
    /\ doneSealing >= TestInstanceCount
    /\ MainGoto(c, "sealedWait", "retrieve")
    /\ UNCHANGED <<miningRest, stopCount, doneCount, deal, doneSealing>>

PassSealed(c) ==
    /\ doneSealing >= Cardinality(Client)
    /\ MainGoto(c, "sealedWait", "retrieve")
    /\ UNCHANGED <<miningRest, stopCount, doneCount, deal, doneSealing>>

-----------------------------------------------------------------------------
(* From there to the end. *)

\* Paying for a retrieval takes blocks.  An error that RetrieveData returns is dropped; where
\* it panics instead, see ClientBreaks.
RetrieveData(c, d) ==
    /\ main[c] = "retrieve"
    /\ Turn(c, d, {"sealed", "blind"})
    /\ deal[c][d] \in {"sealed", "blind"}
    /\ \/ BlocksAreMade /\ deal' = [deal EXCEPT ![c][d] = "retrieved"]
       \/ deal' = [deal EXCEPT ![c][d] = "lost"]
    /\ UNCHANGED <<miningRest, main, stopCount, doneCount, doneSealing>>

\* wg2.Wait, or the end of the loop.
AllRetrieved(c) ==
    /\ \A d \in Deal : deal[c][d] \in {"retrieved", "lost"}
    /\ MainGoto(c, "retrieve", "stop")
    /\ UNCHANGED <<miningRest, stopCount, doneCount, deal, doneSealing>>

\* Faulty variant: each deal stops the miners.
SignalStop_PerDeal(c) ==
    /\ MainGoto(c, "stop", "stopped")
    /\ stopCount' = stopCount + Cardinality(Deal)
    /\ UNCHANGED <<miningRest, doneCount, deal, doneSealing>>

\* MustSignalEntry(StateStopMining)
SignalStop(c) ==
    /\ MainGoto(c, "stop", "stopped")
    /\ stopCount' = stopCount + 1
    /\ UNCHANGED <<miningRest, doneCount, deal, doneSealing>>

\* An error is returned, or a panic takes the instance down: the miner cannot be reached,
\* the channel or the deal is refused, nobody offers the data.
ClientBreaks(c) ==
    /\ main[c] \in {"channel", "import", "deals", "retrieve"}
    /\ main' = [main EXCEPT ![c] = "failed"]
    /\ UNCHANGED <<miningRest, stopCount, doneCount, deal, doneSealing>>

-----------------------------------------------------------------------------

ClientStep(c) ==
    \/ InitPaymentChannel(c) \/ ImportData(c)
    \/ AllSealed(c) \/ SignalSealed(c) \/ PassSealed(c)
    \/ AllRetrieved(c) \/ SignalStop(c)

\* d's goroutine in c, or its turn in the loop.
DealStep(c, d) == StartDeal(c, d) \/ SeeDeal(c, d) \/ RetrieveData(c, d)

\* What is as in SyncMining: the miners, the waiters, and the barrier "done" for everybody.
CommonStep(n) ==
    /\ \/ n \in Miner /\ (MiningStep(n) \/ StopMining(n) \/ MinerDone(n))
       \/ n \in Waiter /\ WaiterDone(n)
       \/ n \in Client /\ ClientDone(n)
       \/ Return(n)
    /\ UNCHANGED <<deal, doneSealing>>

DealsNext ==
    /\ \/ \E n \in Node : CommonStep(n)
       \/ \E c \in Client : ClientStep(c) \/ ClientBreaks(c)
       \/ \E c \in Client, d \in Deal :
            DealStep(c, d) \/ DealActive(c, d) \/ DealBreaks(c, d) \/ TipsetsEnd(c, d)
    /\ UNCHANGED test

DealsSpec == DealsInit /\ [][DealsNext]_dealVars

\* Every goroutine goes on as long as it can, and a deal that does not break is sealed while
\* there are blocks.
moving == <<vars, deal, doneSealing>>
FairDealsSpec ==
    /\ DealsSpec
    /\ \A n \in Node : WF_moving(CommonStep(n))
    /\ \A m \in Miner : WF_moving(MiningStep(m) /\ UNCHANGED <<deal, doneSealing>>)
    /\ \A c \in Client : WF_moving(ClientStep(c))
    /\ \A c \in Client, d \in 1 .. NDeals :
        WF_moving(d \in Deal /\ DealStep(c, d)) /\ WF_moving(d \in Deal /\ DealActive(c, d))

-----------------------------------------------------------------------------
(* Properties. *)

\* All variables keep their types; no state is entered more often than there are clients.
DealsTypeOK ==
    /\ main \in [Node -> ClientPhase \cup {"run", "join", "stopped", "done", "returned",
                                           "failed", "dead"}]
    /\ test \in Tests
    /\ deal \in [Client -> [1 .. NDeals -> DealState]]
    /\ doneSealing \in 0 .. Cardinality(Client)
    /\ stopCount \in 0 .. Cardinality(Client)

\* Nobody retrieves while a deal that counts is not sealed: the client's own deals, and in
\* the end-to-end test those of all clients ("wait for all client deals to be sealed before
\* trying to retrieve").  The exception is a deal that nobody watches any more.
\* (The variables have their types.)
RetrieveAfterSealed ==
    /\ DealsTypeOK
    /\ \A c, e \in Client, d \in Deal :
           (main[c] = "retrieve" /\ (EndToEnd \/ e = c)) =>
               deal[e][d] \notin {"none", "sealing", "active", "broken"}

\* All deals of all clients come to their end, and with them the test, unless an instance
\* fails or a miner is left behind in its loop.
DealsEnd == <>((\A n \in Node : main[n] = "returned") \/ Broken \/ \E m \in Miner : LeftBehind(m))

\* The phases of a client are one step for the miners.
coarseMain ==
    [n \in Node |-> IF n \in Client /\ main[n] \in ClientPhase THEN "run" ELSE main[n]]

OneStep == INSTANCE SyncMining WITH main <- coarseMain

\* A client with its deals does to the miners what SyncMining says: it asks once for the end
\* of mining, after its work, or fails before it has.
ImplementsMining == OneStep!Spec

=============================================================================
