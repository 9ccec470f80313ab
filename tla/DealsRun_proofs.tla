--------------------------- MODULE DealsRun_proofs ---------------------------
(***************************************************************************)
(* A client with its deals is the client of SyncMining, for any number of  *)
(* clients, miners and deals: all its phases are one step there, until it  *)
(* asks for the end of mining or fails.                                    *)
(***************************************************************************)
EXTENDS DealsRun, Counting

MainState == ClientPhase \cup {"run", "join", "stopped", "done", "returned", "failed", "dead"}

MainOK == main \in [Node -> MainState]

\* A step between places that SyncMining knows too is that step there.
LEMMA CoarseGoto ==
    ASSUME MainOK, NEW n \in Node, NEW from, NEW to, MainGoto(n, from, to),
           from \notin ClientPhase, to \notin ClientPhase
    PROVE  OneStep!MainGoto(n, from, to)
BY DEF MainOK, MainGoto, OneStep!MainGoto, coarseMain

\* A panic takes a miner down in both.
LEMMA CoarseDead ==
    ASSUME MainOK, NEW m \in Miner, main' = [main EXCEPT ![m] = "dead"]
    PROVE  coarseMain' = [coarseMain EXCEPT ![m] = "dead"]
BY NodesAssumption DEF MainOK, coarseMain, ClientPhase, Node

\* A client leaves its phases in one step.
LEMMA CoarseLeave ==
    ASSUME MainOK, NEW c \in Client, main[c] \in ClientPhase,
           NEW to, to \notin ClientPhase, main' = [main EXCEPT ![c] = to]
    PROVE  OneStep!MainGoto(c, "run", to)
BY DEF MainOK, OneStep!MainGoto, coarseMain, Node

\* What a client does within its phases is not seen.
LEMMA CoarseStutter ==
    ASSUME MainOK, NEW c \in Client, main[c] \in ClientPhase,
           NEW to \in ClientPhase, main' = [main EXCEPT ![c] = to]
    PROVE  UNCHANGED coarseMain
BY DEF MainOK, coarseMain, Node

LEMMA CoarseSame == ASSUME UNCHANGED main PROVE UNCHANGED coarseMain
BY DEF coarseMain

\* The instances begin where SyncMining begins.
LEMMA CoarseInit == ASSUME DealsInit PROVE OneStep!Init /\ MainOK
<1>1. coarseMain = [n \in Node |-> "run"]
  BY DEF DealsInit, coarseMain, ClientPhase
<1>2. MainOK
  BY DEF DealsInit, MainOK, MainState, ClientPhase
<1>. QED  BY <1>1, <1>2 DEF DealsInit, OneStep!Init, OneStep!Node, Node

LEMMA SameCardinality == ASSUME NEW S PROVE OneStep!Cardinality(S) = Cardinality(S)
BY DEF Cardinality, OneStep!Cardinality, IsFiniteSet, OneStep!IsFiniteSet

\* The mining goroutine and its panics are as in SyncMining.
LEMMA MiningMaps ==
    ASSUME MainOK, NEW m \in Miner, MiningStep(m)
    PROVE  OneStep!MiningStep(m) /\ MainOK'
<1>1. ASSUME UNCHANGED main PROVE UNCHANGED coarseMain /\ MainOK'
  BY <1>1, CoarseSame DEF MainOK, Node
<1>2. ASSUME main' = [main EXCEPT ![m] = "dead"]
      PROVE  coarseMain' = [coarseMain EXCEPT ![m] = "dead"] /\ MainOK'
  <2>1. MainOK'
    BY <1>2 DEF MainOK, MainState, Node
  <2>. QED  BY <1>2, <2>1, CoarseDead
<1>3. CASE CheckFlag(m)
  BY <1>1, <1>3 DEF CheckFlag, Goto, OneStep!CheckFlag, OneStep!Goto, OneStep!MiningStep
<1>4. CASE SignalRound(m)
  BY <1>1, <1>4 DEF SignalRound, Goto, OneStep!SignalRound, OneStep!Goto, OneStep!MiningStep
<1>5. CASE PassRound(m)
  BY <1>1, <1>5, SameCardinality DEF PassRound, Goto, OneStep!PassRound, OneStep!Goto, OneStep!MiningStep
<1>6. CASE MineBlock(m)
  BY <1>1, <1>6 DEF MineBlock, Goto, OneStep!MineBlock, OneStep!Goto, OneStep!MiningStep
<1>7. CASE MineError(m)
  <2>1. \/ UNCHANGED <<pc, main>> /\ retries[m] + 1 < MaxRetries
        \/ /\ retries[m] + 1 = MaxRetries /\ pc' = [pc EXCEPT ![m] = "panicked"]
           /\ main' = [main EXCEPT ![m] = "dead"]
    BY <1>7 DEF MineError
  <2>2. OneStep!MineError(m) /\ MainOK'
    BY <1>1, <1>2, <1>7, <2>1 DEF MineError, OneStep!MineError
  <2>. QED  BY <2>2 DEF OneStep!MiningStep
<1>8. CASE MineFails(m)
  BY <1>2, <1>8 DEF MineFails, Goto, OneStep!MineFails, OneStep!Goto, OneStep!MiningStep
<1>9. CASE SignalLast(m)
  BY <1>1, <1>9 DEF SignalLast, Goto, OneStep!SignalLast, OneStep!Goto, OneStep!MiningStep
<1>. QED  BY <1>3, <1>4, <1>5, <1>6, <1>7, <1>8, <1>9 DEF MiningStep

\* What the modules have in common is the same step in both.
LEMMA CommonMaps ==
    ASSUME MainOK, NEW n \in Node, CommonStep(n)
    PROVE  OneStep!Next /\ MainOK'
<1>1. CASE n \in Miner /\ MiningStep(n)
  BY <1>1, MiningMaps DEF OneStep!Next
<1>2. n \in OneStep!Node
  BY DEF Node, OneStep!Node
<1>. DEFINE Places == {"run", "join", "stopped", "done", "returned"}
<1>3. ASSUME NEW from \in Places, NEW to \in Places, MainGoto(n, from, to)
      PROVE  OneStep!MainGoto(n, from, to) /\ MainOK'
  <2>1. from \notin ClientPhase /\ to \notin ClientPhase
    BY DEF ClientPhase
  <2>2. MainOK'
    BY <1>3 DEF MainOK, MainState, MainGoto, Node
  <2>. QED  BY <1>3, <2>1, <2>2, CoarseGoto
<1>4. CASE n \in Miner /\ StopMining(n)
  <2>1. MainGoto(n, "run", "join")
    BY <1>4 DEF StopMining
  <2>2. OneStep!StopMining(n) /\ MainOK'
    BY <1>3, <1>4, <2>1, SameCardinality DEF StopMining, OneStep!StopMining, mining, OneStep!mining
  <2>. QED  BY <1>2, <1>4, <2>2 DEF OneStep!MainStep, OneStep!Next
<1>5. CASE n \in Miner /\ MinerDone(n)
  <2>1. MainGoto(n, "join", "done")
    BY <1>5 DEF MinerDone
  <2>2. OneStep!MinerDone(n) /\ MainOK'
    BY <1>3, <1>5, <2>1 DEF MinerDone, OneStep!MinerDone, mining, OneStep!mining
  <2>. QED  BY <1>2, <1>5, <2>2 DEF OneStep!MainStep, OneStep!Next
<1>6. CASE n \in Waiter /\ WaiterDone(n)
  <2>1. MainGoto(n, "run", "done")
    BY <1>6 DEF WaiterDone
  <2>2. OneStep!WaiterDone(n) /\ MainOK'
    BY <1>3, <1>6, <2>1 DEF WaiterDone, OneStep!WaiterDone, mining, OneStep!mining
  <2>. QED  BY <1>2, <1>6, <2>2 DEF OneStep!MainStep, OneStep!Next
<1>7. CASE n \in Client /\ ClientDone(n)
  <2>1. MainGoto(n, "stopped", "done")
    BY <1>7 DEF ClientDone
  <2>2. OneStep!ClientDone(n) /\ MainOK'
    BY <1>3, <1>7, <2>1 DEF ClientDone, OneStep!ClientDone, mining, OneStep!mining
  <2>. QED  BY <1>2, <1>7, <2>2 DEF OneStep!MainStep, OneStep!Next
<1>8. CASE Return(n)
  <2>1. MainGoto(n, "done", "returned")
    BY <1>8 DEF Return
  <2>2. OneStep!Return(n) /\ MainOK'
    BY <1>3, <1>8, <2>1, SameCardinality
    DEF Return, OneStep!Return, mining, OneStep!mining, Node, OneStep!Node,
        TestInstanceCount, OneStep!TestInstanceCount
  <2>. QED  BY <1>2, <2>2 DEF OneStep!MainStep, OneStep!Next
<1>. QED  BY <1>1, <1>4, <1>5, <1>6, <1>7, <1>8 DEF CommonStep

\* A client stays in its phases unseen, or leaves them: it stops the miners, or fails.
LEMMA ClientMaps ==
    ASSUME MainOK, NEW c \in Client, ClientStep(c) \/ ClientBreaks(c)
    PROVE  [OneStep!Next]_(OneStep!vars) /\ MainOK'
<1>1. ASSUME NEW from \in ClientPhase, NEW to \in ClientPhase, MainGoto(c, from, to),
             UNCHANGED <<miningRest, stopCount, doneCount>>
      PROVE  [OneStep!Next]_(OneStep!vars) /\ MainOK'
  <2>1. main[c] = from /\ main' = [main EXCEPT ![c] = to]
    BY <1>1 DEF MainGoto
  <2>2. UNCHANGED coarseMain
    BY <2>1, CoarseStutter
  <2>3. MainOK'
    BY <2>1 DEF MainOK, MainState, Node
  <2>. QED  BY <1>1, <2>2, <2>3 DEF OneStep!vars, miningRest, mining
<1>2. CASE SignalStop(c)
  <2>1. main[c] \in ClientPhase /\ main' = [main EXCEPT ![c] = "stopped"]
    BY <1>2 DEF SignalStop, MainGoto, ClientPhase
  <2>2. "stopped" \notin ClientPhase
    BY DEF ClientPhase
  <2>3. OneStep!MainGoto(c, "run", "stopped")
    BY <2>1, <2>2, CoarseLeave
  <2>4. OneStep!ClientStops(c)
    BY <1>2, <2>3 DEF SignalStop, OneStep!ClientStops, miningRest, mining, OneStep!mining
  <2>5. MainOK'
    BY <2>1 DEF MainOK, MainState, Node
  <2>. QED  BY <2>4, <2>5 DEF OneStep!MainStep, OneStep!Next, OneStep!Node
<1>3. CASE ClientBreaks(c)
  <2>1. main[c] \in ClientPhase /\ main' = [main EXCEPT ![c] = "failed"]
    BY <1>3 DEF ClientBreaks, ClientPhase
  <2>2. "failed" \notin ClientPhase
    BY DEF ClientPhase
  <2>3. OneStep!MainGoto(c, "run", "failed")
    BY <2>1, <2>2, CoarseLeave
  <2>4. OneStep!ClientFails(c)
    BY <1>3, <2>3 DEF ClientBreaks, OneStep!ClientFails, miningRest, mining, OneStep!mining
  <2>5. MainOK'
    BY <2>1 DEF MainOK, MainState, Node
  <2>. QED  BY <2>4, <2>5 DEF OneStep!Next
<1>4. CASE InitPaymentChannel(c) \/ ImportData(c)
  BY <1>1, <1>4 DEF InitPaymentChannel, ImportData, ClientPhase
<1>5. CASE AllSealed(c)
  BY <1>1, <1>5 DEF AllSealed, ClientPhase
<1>6. CASE SignalSealed(c) \/ PassSealed(c)
  BY <1>1, <1>6 DEF SignalSealed, PassSealed, ClientPhase
<1>7. CASE AllRetrieved(c)
  BY <1>1, <1>7 DEF AllRetrieved, ClientPhase
<1>. QED  BY <1>2, <1>3, <1>4, <1>5, <1>6, <1>7 DEF ClientStep

\* The deals go on unseen; a broken one makes its client fail.
LEMMA DealMaps ==
    ASSUME MainOK, NEW c \in Client, NEW d \in Deal,
           DealStep(c, d) \/ DealActive(c, d) \/ DealBreaks(c, d) \/ TipsetsEnd(c, d)
    PROVE  [OneStep!Next]_(OneStep!vars) /\ MainOK'
<1>1. ASSUME UNCHANGED <<miningRest, main, stopCount, doneCount>>
      PROVE  [OneStep!Next]_(OneStep!vars) /\ MainOK'
  <2>1. UNCHANGED coarseMain
    BY <1>1, CoarseSame
  <2>2. MainOK'
    BY <1>1 DEF MainOK, Node
  <2>. QED  BY <1>1, <2>1, <2>2 DEF OneStep!vars, miningRest, mining
<1>2. ASSUME MainGoto(c, "deals", "failed"), UNCHANGED <<miningRest, stopCount, doneCount>>
      PROVE  [OneStep!Next]_(OneStep!vars) /\ MainOK'
  <2>1. main[c] \in ClientPhase /\ main' = [main EXCEPT ![c] = "failed"]
    BY <1>2 DEF MainGoto, ClientPhase
  <2>2. "failed" \notin ClientPhase
    BY DEF ClientPhase
  <2>3. OneStep!MainGoto(c, "run", "failed")
    BY <2>1, <2>2, CoarseLeave
  <2>4. OneStep!ClientFails(c)
    BY <1>2, <2>3 DEF OneStep!ClientFails, miningRest, mining, OneStep!mining
  <2>5. MainOK'
    BY <2>1 DEF MainOK, MainState, Node
  <2>. QED  BY <2>4, <2>5 DEF OneStep!Next
<1>3. CASE SeeDeal(c, d)
  BY <1>1, <1>2, <1>3 DEF SeeDeal
<1>4. CASE StartDeal(c, d) \/ RetrieveData(c, d)
  BY <1>1, <1>4 DEF StartDeal, RetrieveData
<1>5. CASE DealActive(c, d) \/ DealBreaks(c, d) \/ TipsetsEnd(c, d)
  BY <1>1, <1>5 DEF DealActive, DealBreaks, TipsetsEnd
<1>. QED  BY <1>3, <1>4, <1>5 DEF DealStep

\* A client with its deals does to the miners what SyncMining says, in any of the tests:
\* however its deals interleave, break or get lost, it asks once for the end of mining,
\* after its work, or fails before it has.
THEOREM DealsRefineMining == DealsSpec => ImplementsMining
<1>1. DealsInit => OneStep!Init /\ MainOK
  BY CoarseInit
<1>2. MainOK /\ [DealsNext]_dealVars => [OneStep!Next]_(OneStep!vars) /\ MainOK'
  <2>. SUFFICES ASSUME MainOK, [DealsNext]_dealVars
                PROVE  [OneStep!Next]_(OneStep!vars) /\ MainOK'
    OBVIOUS
  <2>1. ASSUME NEW n \in Node, CommonStep(n) PROVE [OneStep!Next]_(OneStep!vars) /\ MainOK'
    BY <2>1, CommonMaps
  <2>2. CASE UNCHANGED dealVars
    <3>1. UNCHANGED vars
      BY <2>2 DEF dealVars
    <3>2. UNCHANGED coarseMain
      BY <3>1, CoarseSame DEF vars
    <3>3. MainOK'
      BY <3>1 DEF MainOK, Node, vars
    <3>. QED  BY <3>1, <3>2, <3>3 DEF vars, OneStep!vars
  <2>. QED  BY <2>1, <2>2, ClientMaps, DealMaps DEF DealsNext
<1>. QED  BY <1>1, <1>2, PTL DEF DealsSpec, ImplementsMining, OneStep!Spec

Mining == INSTANCE SyncMining_proofs WITH main <- coarseMain

\* While any client may still seal or retrieve, no miner leaves its loop: no client can
\* take the blocks that another one's deals need.
MinersServeDeals ==
    (Synchronized /\ \E m \in Miner : pc[m] \in {"last", "exited"}) =>
        \A c \in Client : main[c] \notin ClientPhase \cup {"failed"}

\* The theorem about SyncMining carries over.
THEOREM MinersServeDealsHolds == DealsSpec => []MinersServeDeals
<1>1. OneStep!Init => Mining!Init
  BY DEF OneStep!Init, Mining!Init, OneStep!Node, Mining!Node
<1>2. OneStep!Next => Mining!Next  \* the same formula, in two instances of SyncMining
  BY DEF OneStep!CheckFlag, Mining!CheckFlag, OneStep!SignalRound, Mining!SignalRound,
         OneStep!PassRound, Mining!PassRound, OneStep!MineBlock, Mining!MineBlock,
         OneStep!MineError, Mining!MineError, OneStep!MineFails, Mining!MineFails,
         OneStep!SignalLast, Mining!SignalLast, OneStep!StopMining, Mining!StopMining,
         OneStep!MinerDone, Mining!MinerDone, OneStep!ClientStops, Mining!ClientStops,
         OneStep!ClientFails, Mining!ClientFails, OneStep!ClientDone, Mining!ClientDone,
         OneStep!WaiterDone, Mining!WaiterDone, OneStep!Return, Mining!Return, OneStep!Goto,
         Mining!Goto, OneStep!MainGoto, Mining!MainGoto, OneStep!MiningStep, Mining!MiningStep,
         OneStep!MainStep, Mining!MainStep, OneStep!Node, Mining!Node, OneStep!TestInstanceCount,
         Mining!TestInstanceCount, OneStep!mining, Mining!mining, OneStep!vars, Mining!vars,
         OneStep!Next, Mining!Next, OneStep!Cardinality, Mining!Cardinality, OneStep!IsFiniteSet,
         Mining!IsFiniteSet
<1>3. OneStep!vars = Mining!vars /\ OneStep!vars' = Mining!vars'
  BY DEF OneStep!vars, Mining!vars
<1>4. Mining!Spec => []Mining!MiningOutlivesClients
  BY Mining!MiningOutlivesClientsHolds, NodesAssumption, BoundsAssumption
  DEF NodesAssumption, BoundsAssumption, IsFiniteSet,
      Mining!NodesAssumption, Mining!BoundsAssumption, Mining!IsFiniteSet
<1>5. Mining!MiningOutlivesClients => MinersServeDeals
  BY NodesAssumption DEF Mining!MiningOutlivesClients, MinersServeDeals, coarseMain, Node
<1>6. [OneStep!Next]_(OneStep!vars) => [Mining!Next]_(Mining!vars)
  BY <1>2, <1>3
<1>. QED
  BY <1>1, <1>6, <1>4, <1>5, DealsRefineMining, PTL DEF ImplementsMining, OneStep!Spec, Mining!Spec

-----------------------------------------------------------------------------
(* Retrieving after sealing. *)

\* Nothing of c's deals is left to seal, or nobody watches it any more.
Settled(c) == \A d \in Deal : deal[c][d] \in {"sealed", "blind", "retrieved", "lost"}

Early == {"channel", "import", "deals", "sealed"}

\* The clients that the counter of "done-sealing" may stand for.  A client that fails
\* leaves no trace of whether it has signalled: what stays is that its deals are settled.
MayHaveSignalled == {c \in Client : main[c] \notin Early /\ Settled(c)}

Stopped == {c \in Client : main[c] \in {"stopped", "done", "returned"}}

DealTypes ==
    /\ MainOK /\ test \in Tests
    /\ deal \in [Client -> [1 .. NDeals -> DealState]]
    /\ doneSealing \in Nat /\ stopCount = Cardinality(Stopped)

\* The barrier "done-sealing" is open for a client of the end-to-end test that retrieves,
\* and it opens only when the deals of all clients are settled.
SealedInv ==
    /\ \A c \in Client :
           main[c] \in {"sealed", "sealedWait", "retrieve", "stop"} => Settled(c)
    /\ doneSealing <= Cardinality(MayHaveSignalled)
    /\ \A c \in Client : main[c] = "retrieve" /\ EndToEnd => doneSealing >= Cardinality(Client)

RInv == DealTypes /\ SealedInv

\* A step of the deals never takes back what is settled, so that the count of those who may
\* have signalled never shrinks.
LEMMA NoOneForgotten ==
    ASSUME \A c \in Client : Settled(c) => Settled(c)',
           \A c \in Client : main[c] \notin Early => main'[c] \notin Early
    PROVE  /\ MayHaveSignalled \subseteq MayHaveSignalled'
           /\ IsFiniteSet(MayHaveSignalled')
           /\ Cardinality(MayHaveSignalled) <= Cardinality(MayHaveSignalled')
           /\ Cardinality(MayHaveSignalled) \in Nat /\ Cardinality(MayHaveSignalled') \in Nat
<1>1. MayHaveSignalled \subseteq MayHaveSignalled'
  BY DEF MayHaveSignalled
<1>2. MayHaveSignalled' \subseteq Client
  BY DEF MayHaveSignalled
<1>3. IsFiniteSet(MayHaveSignalled')
  BY <1>2, NodesAssumption, FS_Subset DEF NodesAssumption
<1>. QED  BY <1>1, <1>3, FS_Subset, FS_CardinalityType

\* As long as main stays where it is, or keeps away from the places of Stopped, nobody else
\* is counted in "stop-mining".
LEMMA SameStopped ==
    ASSUME \A c \in Client : main'[c] \in {"stopped", "done", "returned"} <=>
                                 main[c] \in {"stopped", "done", "returned"}
    PROVE  Stopped' = Stopped
BY DEF Stopped

LEMMA InitRetrieve == ASSUME DealsInit PROVE RInv
<1>1. MainOK
  BY CoarseInit
<1>2. Stopped = {} /\ \A c \in Client : main[c] \in {"channel", "import"}
  BY DEF DealsInit, Stopped, Node
<1>3. MayHaveSignalled = {}
  BY <1>2 DEF MayHaveSignalled, Early
<1>4. Cardinality({}) = 0
  BY FS_EmptySet
<1>5. /\ test \in Tests /\ doneSealing = 0 /\ stopCount = 0
      /\ deal \in [Client -> [1 .. NDeals -> DealState]]
  BY DEF DealsInit, DealState
<1>. QED  BY <1>1, <1>2, <1>3, <1>4, <1>5 DEF RInv, DealTypes, SealedInv

\* The miners, the waiters, and the clients that are done.
LEMMA CommonRetrieve ==
    ASSUME RInv, NEW n \in Node, CommonStep(n), UNCHANGED test
    PROVE  RInv'
<1>1. MainOK' /\ UNCHANGED <<deal, doneSealing, stopCount, test>>
  <2>1. UNCHANGED stopCount
    BY DEF CommonStep, MiningStep, CheckFlag, SignalRound, PassRound, MineBlock, MineError,
           MineFails, SignalLast, StopMining, MinerDone, WaiterDone, ClientDone, Return
  <2>. QED  BY <2>1, CommonMaps DEF RInv, DealTypes, CommonStep
<1>2. ASSUME NEW c \in Client
      PROVE  \/ main'[c] = main[c]
             \/ main[c] \in {"stopped", "done"} /\ main'[c] \in {"done", "returned"}
  <2>0. main \in [Node -> MainState] /\ c \in Node /\ c \notin Miner /\ c \notin Waiter
    BY NodesAssumption DEF RInv, DealTypes, MainOK, NodesAssumption, Node
  <2>1. CASE UNCHANGED main
    BY <2>1
  <2>2. ASSUME NEW x, main' = [main EXCEPT ![n] = x], n \in Miner \/ n \in Waiter
        PROVE  main'[c] = main[c]
    BY <2>0, <2>2
  <2>3. CASE n \in Miner /\ MiningStep(n)
    BY <2>1, <2>2, <2>3 DEF MiningStep, CheckFlag, SignalRound, PassRound, MineBlock,
                            MineError, MineFails, SignalLast
  <2>4. CASE n \in Miner /\ (StopMining(n) \/ MinerDone(n))
    BY <2>2, <2>4 DEF StopMining, MinerDone, MainGoto
  <2>5. CASE n \in Waiter /\ WaiterDone(n)
    BY <2>2, <2>5 DEF WaiterDone, MainGoto
  <2>6. CASE (n \in Client /\ ClientDone(n)) \/ Return(n)
    BY <2>0, <2>6 DEF ClientDone, Return, MainGoto
  <2>. QED  BY <2>3, <2>4, <2>5, <2>6 DEF CommonStep
<1>3. Stopped' = Stopped
  BY <1>2, SameStopped
<1>4. \A c \in Client : Settled(c)' <=> Settled(c)
  BY <1>1 DEF Settled, Deal, EndToEnd
<1>5. EndToEnd' = EndToEnd
  BY <1>1 DEF EndToEnd
<1>6. MayHaveSignalled' = MayHaveSignalled
  BY <1>2, <1>4 DEF MayHaveSignalled, Early
<1>7. DealTypes'
  BY <1>1, <1>3 DEF RInv, DealTypes
<1>8. SealedInv'
  BY <1>1, <1>2, <1>4, <1>5, <1>6 DEF RInv, SealedInv
<1>. QED  BY <1>7, <1>8 DEF RInv

\* A client goes on, or fails.
LEMMA ClientRetrieve ==
    ASSUME RInv, NEW c \in Client, ClientStep(c) \/ ClientBreaks(c), UNCHANGED test
    PROVE  RInv'
<1>0. /\ main \in [Node -> MainState] /\ c \in Node /\ Client \subseteq Node
      /\ MainOK' /\ UNCHANGED <<test, deal>> /\ IsFiniteSet(Client)
  <2>1. UNCHANGED deal
    BY DEF ClientStep, ClientBreaks, InitPaymentChannel, ImportData, AllSealed, SignalSealed,
           PassSealed, AllRetrieved, SignalStop
  <2>. QED  BY <2>1, ClientMaps, NodesAssumption DEF RInv, DealTypes, MainOK, Node, NodesAssumption
<1>1. \A e \in Client : Settled(e)' <=> Settled(e)
  BY <1>0 DEF Settled, Deal, EndToEnd
<1>2. EndToEnd' = EndToEnd
  BY <1>0 DEF EndToEnd
<1>3. ASSUME NEW to \in MainState, main' = [main EXCEPT ![c] = to]
      PROVE  main'[c] = to /\ \A e \in Client \ {c} : main'[e] = main[e]
  BY <1>0, <1>3
<1>. DEFINE Places == {"sealed", "sealedWait", "retrieve", "stop"}
\* Steps at which no counter changes.
<1>4. ASSUME NEW to \in MainState, main' = [main EXCEPT ![c] = to],
             UNCHANGED <<stopCount, doneSealing>>,
             main[c] \notin Early => to \notin Early,
             main[c] \notin {"stopped", "done", "returned"},
             to \notin {"stopped", "done", "returned"},
             to \in Places => Settled(c),
             to = "retrieve" /\ EndToEnd => doneSealing >= Cardinality(Client)
      PROVE  RInv'
  <2>1. main'[c] = to /\ \A e \in Client \ {c} : main'[e] = main[e]
    BY <1>3, <1>4
  <2>2. Stopped' = Stopped
    BY <1>4, <2>1, SameStopped
  <2>3. DealTypes'
    BY <1>0, <1>4, <2>2 DEF RInv, DealTypes
  <2>4. \A e \in Client : main[e] \notin Early => main'[e] \notin Early
    BY <1>4, <2>1
  <2>5. doneSealing' <= Cardinality(MayHaveSignalled')
    <3>1. /\ Cardinality(MayHaveSignalled) <= Cardinality(MayHaveSignalled')
          /\ Cardinality(MayHaveSignalled) \in Nat /\ Cardinality(MayHaveSignalled') \in Nat
      BY <1>1, <2>4, NoOneForgotten
    <3>2. doneSealing <= Cardinality(MayHaveSignalled) /\ doneSealing \in Nat /\ doneSealing' = doneSealing
      BY <1>4 DEF RInv, SealedInv, DealTypes
    <3>. QED  BY <3>1, <3>2
  <2>6. SealedInv'
    BY <1>1, <1>2, <1>4, <2>1, <2>5 DEF RInv, SealedInv
  <2>. QED  BY <2>3, <2>6 DEF RInv
<1>5. CASE InitPaymentChannel(c) \/ ImportData(c)
  BY <1>4, <1>5 DEF InitPaymentChannel, ImportData, MainGoto, Early, MainState, ClientPhase
<1>6. CASE AllSealed(c)
  <2>1. Settled(c)
    BY <1>6 DEF AllSealed, Settled
  <2>. DEFINE to == IF EndToEnd THEN "sealed" ELSE "retrieve"
  <2>2. /\ main[c] = "deals" /\ main' = [main EXCEPT ![c] = to]
        /\ UNCHANGED <<stopCount, doneSealing>>
    BY <1>6 DEF AllSealed, MainGoto
  <2>3. /\ to \in MainState /\ main[c] \in Early /\ to \notin {"stopped", "done", "returned"}
        /\ ~(to = "retrieve" /\ EndToEnd)
    BY <2>2 DEF Early, MainState, ClientPhase
  <2>. QED  BY <1>4, <2>1, <2>2, <2>3
<1>7. CASE PassSealed(c)
  <2>1. /\ main[c] = "sealedWait" /\ main' = [main EXCEPT ![c] = "retrieve"]
        /\ UNCHANGED <<stopCount, doneSealing>> /\ doneSealing >= Cardinality(Client)
    BY <1>7 DEF PassSealed, MainGoto
  <2>2. Settled(c)
    BY <2>1 DEF RInv, SealedInv
  <2>. QED  BY <1>4, <2>1, <2>2 DEF Early, MainState, ClientPhase
<1>8. CASE AllRetrieved(c)
  <2>1. /\ main[c] = "retrieve" /\ main' = [main EXCEPT ![c] = "stop"]
        /\ UNCHANGED <<stopCount, doneSealing>>
    BY <1>8 DEF AllRetrieved, MainGoto
  <2>2. Settled(c)
    BY <2>1 DEF RInv, SealedInv
  <2>. QED  BY <1>4, <2>1, <2>2 DEF Early, MainState, ClientPhase
<1>9. CASE ClientBreaks(c)
  <2>1. main[c] \in {"channel", "import", "deals", "retrieve"} /\ main' = [main EXCEPT ![c] = "failed"]
        /\ UNCHANGED <<stopCount, doneSealing>>
    BY <1>9 DEF ClientBreaks
  <2>. QED  BY <1>4, <2>1 DEF Early, MainState
\* The client is counted.
<1>10. CASE SignalSealed(c)
  <2>1. /\ main[c] = "sealed" /\ main' = [main EXCEPT ![c] = "sealedWait"]
        /\ doneSealing' = doneSealing + 1 /\ UNCHANGED stopCount
    BY <1>10 DEF SignalSealed, MainGoto
  <2>2. main'[c] = "sealedWait" /\ \A e \in Client \ {c} : main'[e] = main[e]
    BY <1>3, <2>1 DEF MainState, ClientPhase
  <2>3. DealTypes'
    <3>1. Stopped' = Stopped
      BY <2>1, <2>2, SameStopped
    <3>. QED  BY <1>0, <2>1, <3>1 DEF RInv, DealTypes
  <2>4. Settled(c)
    BY <2>1 DEF RInv, SealedInv
  <2>5. MayHaveSignalled' = MayHaveSignalled \cup {c} /\ c \notin MayHaveSignalled
    BY <1>1, <2>1, <2>2, <2>4 DEF MayHaveSignalled, Early
  <2>6. MayHaveSignalled \in SUBSET Client
    BY DEF MayHaveSignalled
  <2>7. /\ Cardinality(MayHaveSignalled') = Cardinality(MayHaveSignalled) + 1
        /\ Cardinality(MayHaveSignalled) \in Nat
    BY <1>0, <2>5, <2>6, OneMore, FS_Subset, FS_CardinalityType
  <2>8. Cardinality(Client) \in Nat /\ doneSealing \in Nat
    BY <1>0, FS_CardinalityType DEF RInv, DealTypes
  <2>9. SealedInv'
    BY <1>1, <1>2, <2>1, <2>2, <2>4, <2>7, <2>8 DEF RInv, SealedInv
  <2>. QED  BY <2>3, <2>9 DEF RInv
<1>11. CASE SignalStop(c)
  <2>1. /\ main[c] = "stop" /\ main' = [main EXCEPT ![c] = "stopped"]
        /\ stopCount' = stopCount + 1 /\ UNCHANGED doneSealing
    BY <1>11 DEF SignalStop, MainGoto
  <2>2. main'[c] = "stopped" /\ \A e \in Client \ {c} : main'[e] = main[e]
    BY <1>3, <2>1 DEF MainState
  <2>3. DealTypes'
    <3>1. Stopped' = Stopped \cup {c} /\ c \notin Stopped /\ Stopped \in SUBSET Client
      BY <2>1, <2>2 DEF Stopped
    <3>2. Cardinality(Stopped') = Cardinality(Stopped) + 1
      BY <1>0, <3>1, OneMore
    <3>. QED  BY <1>0, <2>1, <3>2 DEF RInv, DealTypes
  <2>4. MayHaveSignalled' = MayHaveSignalled
    BY <1>1, <2>1, <2>2 DEF MayHaveSignalled, Early
  <2>5. SealedInv'
    BY <1>1, <1>2, <2>1, <2>2, <2>4 DEF RInv, SealedInv
  <2>. QED  BY <2>3, <2>5 DEF RInv
<1>. QED  BY <1>5, <1>6, <1>7, <1>8, <1>9, <1>10, <1>11 DEF ClientStep

\* A deal goes on; a broken one makes its client fail.
LEMMA DealRetrieve ==
    ASSUME RInv, NEW c \in Client, NEW d \in Deal, UNCHANGED test,
           DealStep(c, d) \/ DealActive(c, d) \/ DealBreaks(c, d) \/ TipsetsEnd(c, d)
    PROVE  RInv'
<1>0. /\ main \in [Node -> MainState] /\ Client \subseteq Node /\ MainOK' /\ d \in 1 .. NDeals
      /\ deal \in [Client -> [1 .. NDeals -> DealState]]
  BY DealMaps, TestsAssumption DEF RInv, DealTypes, MainOK, Node, TestsAssumption, Deal
<1>1. Deal' = Deal /\ EndToEnd' = EndToEnd /\ Deal \subseteq 1 .. NDeals
  BY TestsAssumption DEF Deal, EndToEnd, TestsAssumption
<1>2. UNCHANGED <<stopCount, doneSealing>>
  BY DEF DealStep, StartDeal, SeeDeal, RetrieveData, DealActive, DealBreaks, TipsetsEnd
<1>3. \/ UNCHANGED deal
      \/ \E to \in DealState :
            /\ deal' = [deal EXCEPT ![c][d] = to]
            /\ deal[c][d] \in {"sealed", "blind"} => to \in {"retrieved", "lost"}
            /\ deal[c][d] \notin {"retrieved", "lost"}
  <2>1. ASSUME NEW from, NEW to \in DealState, DealGoto(c, d, from, to),
               from \in {"none", "sealing", "active", "broken"}
        PROVE  <1>3
    BY <2>1 DEF DealGoto
  <2>2. CASE StartDeal(c, d) \/ DealActive(c, d) \/ DealBreaks(c, d)
    BY <2>1, <2>2 DEF StartDeal, DealActive, DealBreaks, DealState
  <2>3. CASE SeeDeal(c, d)
    BY <2>1, <2>3 DEF SeeDeal, DealState
  <2>4. CASE TipsetsEnd(c, d)
    BY <2>4 DEF TipsetsEnd, DealState
  <2>5. CASE RetrieveData(c, d)
    BY <2>5 DEF RetrieveData, DealState
  <2>. QED  BY <2>2, <2>3, <2>4, <2>5 DEF DealStep
<1>4. \/ UNCHANGED main
      \/ main[c] = "deals" /\ main' = [main EXCEPT ![c] = "failed"]
  BY DEF DealStep, StartDeal, SeeDeal, RetrieveData, DealActive, DealBreaks, TipsetsEnd, MainGoto
<1>5. \A e \in Client : main'[e] = main[e] \/ (main[e] = "deals" /\ main'[e] = "failed")
  BY <1>0, <1>4
<1>6. ASSUME NEW e \in Client, Settled(e) PROVE Settled(e)'
  <2>1. CASE UNCHANGED deal
    BY <1>1, <1>6, <2>1 DEF Settled
  <2>2. ASSUME NEW to \in DealState, deal' = [deal EXCEPT ![c][d] = to],
               deal[c][d] \in {"sealed", "blind"} => to \in {"retrieved", "lost"},
               deal[c][d] \notin {"retrieved", "lost"}
        PROVE  Settled(e)'
    <3>1. ASSUME NEW f \in Deal PROVE deal'[e][f] \in {"sealed", "blind", "retrieved", "lost"}
      <4>1. deal[e][f] \in {"sealed", "blind", "retrieved", "lost"}
        BY <1>6, <3>1 DEF Settled
      <4>2. CASE e = c /\ f = d
        BY <1>0, <2>2, <4>1, <4>2
      <4>3. CASE ~(e = c /\ f = d)
        <5>1. deal'[e][f] = deal[e][f]
          BY <1>0, <1>1, <2>2, <4>3
        <5>. QED  BY <4>1, <5>1
      <4>. QED  BY <4>2, <4>3
    <3>. QED  BY <1>1, <3>1 DEF Settled
  <2>. QED  BY <1>3, <2>1, <2>2
<1>7. DealTypes'
  <2>1. Stopped' = Stopped
    BY <1>5, SameStopped
  <2>2. deal' \in [Client -> [1 .. NDeals -> DealState]]
    <3>1. ASSUME NEW to \in DealState, deal' = [deal EXCEPT ![c][d] = to]
          PROVE  deal' \in [Client -> [1 .. NDeals -> DealState]]
      BY <1>0, <3>1
    <3>. QED  BY <1>0, <1>3, <3>1
  <2>. QED  BY <1>0, <1>2, <2>1, <2>2 DEF RInv, DealTypes
<1>8. doneSealing' <= Cardinality(MayHaveSignalled')
  <2>1. \A e \in Client : main[e] \notin Early => main'[e] \notin Early
    BY <1>5 DEF Early
  <2>2. /\ Cardinality(MayHaveSignalled) <= Cardinality(MayHaveSignalled')
        /\ Cardinality(MayHaveSignalled) \in Nat /\ Cardinality(MayHaveSignalled') \in Nat
    BY <1>6, <2>1, NoOneForgotten
  <2>3. doneSealing <= Cardinality(MayHaveSignalled) /\ doneSealing \in Nat /\ doneSealing' = doneSealing
    BY <1>2 DEF RInv, SealedInv, DealTypes
  <2>. QED  BY <2>2, <2>3
<1>9. SealedInv'
  BY <1>1, <1>2, <1>5, <1>6, <1>8 DEF RInv, SealedInv
<1>. QED  BY <1>7, <1>9 DEF RInv

\* In every test, with any number of clients and of deals, and however clients fail: nobody
\* retrieves while a deal that counts is not sealed.
THEOREM RetrieveAfterSealedHolds == DealsSpec => []RetrieveAfterSealed
<1>1. DealsInit => RInv
  BY InitRetrieve
<1>2. RInv /\ [DealsNext]_dealVars => RInv'
  <2>. SUFFICES ASSUME RInv, [DealsNext]_dealVars PROVE RInv'
    OBVIOUS
  <2>1. CASE UNCHANGED dealVars
    <3>1. UNCHANGED <<main, test, deal, doneSealing, stopCount>>
      BY <2>1 DEF dealVars, vars
    <3>2. Stopped' = Stopped /\ EndToEnd' = EndToEnd /\ MainOK'
      BY <3>1 DEF Stopped, EndToEnd, MainOK, RInv, DealTypes, Node
    <3>3. \A c \in Client : Settled(c)' <=> Settled(c)
      BY <3>1 DEF Settled, Deal, EndToEnd
    <3>4. MayHaveSignalled' = MayHaveSignalled
      BY <3>1, <3>3 DEF MayHaveSignalled
    <3>5. DealTypes'
      BY <3>1, <3>2 DEF RInv, DealTypes
    <3>6. SealedInv'
      BY <3>1, <3>2, <3>3, <3>4 DEF RInv, SealedInv
    <3>. QED  BY <3>5, <3>6 DEF RInv
  <2>. QED  BY <2>1, CommonRetrieve, ClientRetrieve, DealRetrieve DEF DealsNext
<1>3. RInv => RetrieveAfterSealed
  <2>. SUFFICES ASSUME RInv PROVE RetrieveAfterSealed
    OBVIOUS
  <2>1. IsFiniteSet(Client) /\ MayHaveSignalled \in SUBSET Client /\ Stopped \in SUBSET Client
    BY NodesAssumption DEF NodesAssumption, MayHaveSignalled, Stopped
  <2>2. /\ Cardinality(MayHaveSignalled) \in 0 .. Cardinality(Client)
        /\ Cardinality(Stopped) \in 0 .. Cardinality(Client) /\ Cardinality(Client) \in Nat
    BY <2>1, CountBound, FS_CardinalityType
  <2>3. DealsTypeOK
    BY <2>2 DEF RInv, DealTypes, SealedInv, DealsTypeOK, MainOK, MainState
  <2>4. ASSUME NEW c \in Client, NEW e \in Client, main[c] = "retrieve", EndToEnd \/ e = c
        PROVE  Settled(e)
    <3>1. CASE e = c
      BY <2>4, <3>1 DEF RInv, SealedInv
    <3>2. CASE EndToEnd
      <4>1. Cardinality(MayHaveSignalled) >= Cardinality(Client)
        BY <2>2, <2>4, <3>2 DEF RInv, SealedInv, DealTypes
      <4>2. MayHaveSignalled = Client
        BY <2>1, <4>1, FullCount
      <4>. QED  BY <4>2 DEF MayHaveSignalled
    <3>. QED  BY <2>4, <3>1, <3>2
  <2>. QED  BY <2>3, <2>4 DEF RetrieveAfterSealed, Settled
<1>. QED  BY <1>1, <1>2, <1>3, PTL DEF DealsSpec

=============================================================================
