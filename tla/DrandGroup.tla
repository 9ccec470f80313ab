------------------------------ MODULE DrandGroup ------------------------------
(***************************************************************************)
(* How the drand group comes up (PrepareDrandInstance), together with the  *)
(* instances that wait for it.  The nodes exchange their addresses, start  *)
(* their daemons, run a distributed key generation (DKG) with the node of  *)
(* GroupSeq 1 as leader, wait for the first round of the beacon, exchange  *)
(* the addresses of their gossip relays if there are any, and the leader   *)
(* publishes the configuration the other roles wait for.                   *)
(*                                                                         *)
(* This is Prepare with its step RunDrand taken apart.  pc[d] goes through *)
(* the phases below instead of "dkg"; the other instances are as they are  *)
(* in Prepare.  A node that fails takes its daemon with it.                *)
(***************************************************************************)
EXTENDS Prepare

CONSTANTS
    Threshold,      \* drand_threshold
    TestSidecar     \* the run has a sidecar, which shapes the network

ASSUME GroupAssumption ==
    /\ Threshold \in 1 .. Cardinality(Drand)
    /\ TestSidecar \in BOOLEAN

VARIABLES
    gossipRelay,    \* drand_gossip_relay
    shaped,         \* the counter of "latency-configured-<group>"
    addrs,          \* topic "drand-addrs"
    publicAddrs,    \* publicAddrs[d]: the addresses d has collected
    started,        \* the counter of "drand-start"
    dkgStarted,     \* the counter of "drand-dkg-start"
    joined,         \* the nodes whose keys the leader has got
    firstRound,     \* the group has made round 1
    relays,         \* topic "drand-gossip-addrs"
    relayAddrs,     \* relayAddrs[d]: the relays d has collected
    runtimeInfo     \* topic "drand_config", with its contents

exchange == <<shaped, addrs, publicAddrs, started, dkgStarted, joined, firstRound,
              relays, relayAddrs>>
group == <<gossipRelay, exchange, runtimeInfo>>
prepareRest == <<seq, next, topics, picked, ready, template, conns>>
groupVars == <<vars, group>>

nNodes == Cardinality(Drand)

\* Where a node with the daemon up is, before and after it has its share of the key.
Sharing == {"dkgStart", "dkgStartWait", "runDkg", "inDkg"}
Beacon == {"fetchRound", "publishRelay", "collectRelays", "publishConfig",
           "ready", "readyWait", "prepared"}
Phase == {"shape", "shapeWait", "publishAddr", "collectAddrs", "start", "startWait", "startDaemon"}
             \cup Sharing \cup (Beacon \ {"ready", "readyWait", "prepared"})

Up == {d \in Drand : pc[d] \in Sharing \cup Beacon}
HasShare == {d \in Drand : pc[d] \in Beacon}

GroupInit ==
    /\ pc = [n \in Node |->
                IF n \notin Drand THEN FirstStep(n)
                ELSE IF TestSidecar THEN "shape" ELSE "publishAddr"]
    /\ seq = [m \in Miner |-> 0] /\ next = [m \in Miner |-> 0]
    /\ balances = <<>> /\ preseals = <<>> /\ genesis = <<>>
    /\ minerAddrs = <<>> /\ tracers = <<>> /\ drandConfig = <<>>
    /\ picked = 0 /\ ready = 0 /\ template = NoTemplate /\ conns = {}
    /\ gossipRelay \in BOOLEAN
    /\ shaped = 0 /\ addrs = <<>> /\ started = 0 /\ dkgStarted = 0
    /\ publicAddrs = [d \in Drand |-> <<>>] /\ relayAddrs = [d \in Drand |-> <<>>]
    /\ joined = {} /\ firstRound = FALSE /\ relays = <<>> /\ runtimeInfo = <<>>

-----------------------------------------------------------------------------
(* ApplyNetworkParameters: d's sidecar enters the callback state, d waits for those of   *)
(* the whole group.                                                                      *)

ShapeNetwork(d) ==
    /\ Goto(d, "shape", "shapeWait")
    /\ shaped' = shaped + 1
    /\ UNCHANGED <<addrs, publicAddrs, started, dkgStarted, joined, firstRound, relays,
                   relayAddrs, runtimeInfo, prepareRest>>

PassShape(d) ==
    /\ shaped >= nNodes
    /\ Goto(d, "shapeWait", "publishAddr")
    /\ UNCHANGED <<exchange, runtimeInfo, prepareRest>>

-----------------------------------------------------------------------------
(* The addresses of the group. *)

PublishAddr(d) ==
    /\ Goto(d, "publishAddr", "collectAddrs")
    /\ addrs' = Append(addrs, d)
    /\ UNCHANGED <<shaped, publicAddrs, started, dkgStarted, joined, firstRound, relays,
                   relayAddrs, runtimeInfo, prepareRest>>

\* Faulty variant: whoever is there when d looks.
CollectAddrs_Present(d) ==
    /\ DrandLeader \in Range(addrs)
    /\ Goto(d, "collectAddrs", "start")
    /\ publicAddrs' = [publicAddrs EXCEPT ![d] = addrs]
    /\ UNCHANGED <<shaped, addrs, started, dkgStarted, joined, firstRound, relays,
                   relayAddrs, runtimeInfo, prepareRest>>

\* The first nNodes messages; the leader has to be among them.
CollectAddrs(d) ==
    /\ Len(addrs) >= nNodes
    /\ DrandLeader \in Range(SubSeq(addrs, 1, nNodes))
    /\ Goto(d, "collectAddrs", "start")
    /\ publicAddrs' = [publicAddrs EXCEPT ![d] = SubSeq(addrs, 1, nNodes)]
    /\ UNCHANGED <<shaped, addrs, started, dkgStarted, joined, firstRound, relays,
                   relayAddrs, runtimeInfo, prepareRest>>

-----------------------------------------------------------------------------
(* The two barriers, with the start of the daemon in between. *)

SignalStart(d) ==
    /\ Goto(d, "start", "startWait")
    /\ started' = started + 1
    /\ UNCHANGED <<shaped, addrs, publicAddrs, dkgStarted, joined, firstRound, relays,
                   relayAddrs, runtimeInfo, prepareRest>>

\* Faulty variant: the barrier counts all instances of the test.
PassStart_AllInstances(d) ==
    /\ started >= TestInstanceCount
    /\ Goto(d, "startWait", "startDaemon")
    /\ UNCHANGED <<exchange, runtimeInfo, prepareRest>>

PassStart(d) ==
    /\ started >= nNodes
    /\ Goto(d, "startWait", "startDaemon")
    /\ UNCHANGED <<exchange, runtimeInfo, prepareRest>>

\* Start, and Ping until the daemon answers.
StartDaemon(d) ==
    /\ Goto(d, "startDaemon", "dkgStart")
    /\ UNCHANGED <<exchange, runtimeInfo, prepareRest>>

SignalDkgStart(d) ==
    /\ Goto(d, "dkgStart", "dkgStartWait")
    /\ dkgStarted' = dkgStarted + 1
    /\ UNCHANGED <<shaped, addrs, publicAddrs, started, joined, firstRound, relays,
                   relayAddrs, runtimeInfo, prepareRest>>

\* Faulty variant: the state of the first barrier is used again.
PassDkgStart_SameState(d) ==
    /\ started >= nNodes
    /\ Goto(d, "dkgStartWait", "runDkg")
    /\ UNCHANGED <<exchange, runtimeInfo, prepareRest>>

PassDkgStart(d) ==
    /\ dkgStarted >= nNodes
    /\ Goto(d, "dkgStartWait", "runDkg")
    /\ UNCHANGED <<exchange, runtimeInfo, prepareRest>>

-----------------------------------------------------------------------------
(* RunDKG, and the first round. *)

\* The leader collects keys as soon as it has called InitDKGLeader.  The others sleep for
\* three seconds first; nothing but this sleep sees to it that they come later, and one
\* that does not fails (Fail).
RunDKG(d) ==
    /\ d = DrandLeader \/ DrandLeader \in joined
    /\ Goto(d, "runDkg", "inDkg")
    /\ joined' = joined \cup {d}
    /\ UNCHANGED <<shaped, addrs, publicAddrs, started, dkgStarted, firstRound, relays,
                   relayAddrs, runtimeInfo, prepareRest>>

\* All nodes have sent their keys, and enough of them are still there.
FinishDKG(d) ==
    /\ Cardinality(joined) >= nNodes
    /\ Cardinality(Up) >= Threshold
    /\ Goto(d, "inDkg", "fetchRound")
    /\ UNCHANGED <<exchange, runtimeInfo, prepareRest>>

\* Faulty variant: the threshold is the size of the group.
MakeFirstRound_All ==
    /\ ~firstRound
    /\ Cardinality(HasShare) >= nNodes
    /\ firstRound' = TRUE
    /\ UNCHANGED <<pc, shaped, addrs, publicAddrs, started, dkgStarted, joined, relays,
                   relayAddrs, runtimeInfo, prepareRest>>

\* The beacon makes its first round; that takes Threshold nodes with a share.
MakeFirstRound ==
    /\ ~firstRound
    /\ Cardinality(HasShare) >= Threshold
    /\ firstRound' = TRUE
    /\ UNCHANGED <<pc, shaped, addrs, publicAddrs, started, dkgStarted, joined, relays,
                   relayAddrs, runtimeInfo, prepareRest>>

\* Where a node goes on when it has what it needs for the configuration.
Rest(d) == IF d = DrandLeader THEN "publishConfig" ELSE "ready"

\* d gets round 1 from its own daemon.
FetchRound(d) ==
    /\ firstRound
    /\ Goto(d, "fetchRound", IF gossipRelay THEN "publishRelay" ELSE Rest(d))
    /\ UNCHANGED <<exchange, runtimeInfo, prepareRest>>

-----------------------------------------------------------------------------
(* The relays and the configuration. *)

PublishRelay(d) ==
    /\ Goto(d, "publishRelay", "collectRelays")
    /\ relays' = Append(relays, d)
    /\ UNCHANGED <<shaped, addrs, publicAddrs, started, dkgStarted, joined, firstRound,
                   relayAddrs, runtimeInfo, prepareRest>>

CollectRelays(d) ==
    /\ Len(relays) >= nNodes
    /\ Goto(d, "collectRelays", Rest(d))
    /\ relayAddrs' = [relayAddrs EXCEPT ![d] = SubSeq(relays, 1, nNodes)]
    /\ UNCHANGED <<shaped, addrs, publicAddrs, started, dkgStarted, joined, firstRound, relays,
                   runtimeInfo, prepareRest>>

\* Faulty variant: the leader forgets that it has published, and does it again.
PublishConfig_Again(d) ==
    /\ pc[d] = "publishConfig" /\ Len(runtimeInfo) < 2
    /\ pc' \in {pc, [pc EXCEPT ![d] = "ready"]}
    /\ runtimeInfo' = Append(runtimeInfo, [servers |-> publicAddrs[d], gossip |-> relayAddrs[d]])
    /\ drandConfig' = Append(drandConfig, d)
    /\ UNCHANGED <<exchange, seq, next, balances, preseals, genesis, minerAddrs, tracers,
                   picked, ready, template, conns>>

\* The leader publishes what Lotus nodes need to know.
PublishConfig(d) ==
    /\ Goto(d, "publishConfig", "ready")
    /\ runtimeInfo' = Append(runtimeInfo, [servers |-> publicAddrs[d], gossip |-> relayAddrs[d]])
    /\ drandConfig' = Append(drandConfig, d)
    /\ UNCHANGED <<exchange, seq, next, balances, preseals, genesis, minerAddrs, tracers,
                   picked, ready, template, conns>>

-----------------------------------------------------------------------------

PhaseStep(d) ==
    \/ ShapeNetwork(d) \/ PassShape(d)
    \/ PublishAddr(d) \/ CollectAddrs(d)
    \/ SignalStart(d) \/ PassStart(d) \/ StartDaemon(d)
    \/ SignalDkgStart(d) \/ PassDkgStart(d)
    \/ RunDKG(d) \/ FinishDKG(d) \/ FetchRound(d)
    \/ PublishRelay(d) \/ CollectRelays(d) \/ PublishConfig(d)

\* In and behind "ready" a drand node does what all instances do, and any may fail.
CommonStep(n) == (IF n \in Drand THEN SignalReady(n) \/ PassReady(n) ELSE Step(n))
                 /\ UNCHANGED <<exchange, runtimeInfo>>

GroupNext ==
    /\ \/ \E d \in Drand : PhaseStep(d)
       \/ MakeFirstRound
       \/ \E n \in Node : CommonStep(n) \/ (Fail(n) /\ UNCHANGED <<exchange, runtimeInfo>>)
    /\ UNCHANGED gossipRelay

GroupSpec == GroupInit /\ [][GroupNext]_groupVars

\* Each instance goes on as long as it can, the beacon as long as enough nodes are up.
moving == <<vars, exchange, runtimeInfo>>
FairGroupSpec ==
    /\ GroupSpec
    /\ \A d \in Drand : WF_moving(PhaseStep(d))
    /\ \A n \in Node : WF_moving(CommonStep(n))
    /\ WF_moving(MakeFirstRound)

-----------------------------------------------------------------------------
(* Properties. *)

\* All variables of the group keep their types; no state is entered more often than there
\* are nodes.
GroupTypeOK ==
    /\ pc \in [Node -> Phase \cup {"publishTracer", "tracer", "beacon", "balances", "preseals",
                        "publish", "balance", "pick", "pickWait", "preseal", "genesis", "node",
                        "mesh", "ready", "readyWait", "collect", "prepared", "failed"}]
    /\ gossipRelay \in BOOLEAN /\ firstRound \in BOOLEAN
    /\ {shaped, started, dkgStarted} \subseteq 0 .. nNodes
    /\ addrs \in Seq(Drand) /\ relays \in Seq(Drand)
    /\ publicAddrs \in [Drand -> Seq(Drand)] /\ relayAddrs \in [Drand -> Seq(Drand)]
    /\ joined \subseteq Drand
    /\ runtimeInfo \in Seq([servers : Seq(Drand), gossip : Seq(Drand)])

\* A configuration that other roles start with names each server once, and each relay once
\* if there are relays; every node it names has sent its key, and the beacon has made its
\* first round.
\* (The variables have their types.)
ConfigUsable ==
    /\ GroupTypeOK
    /\ \A info \in Range(runtimeInfo) :
           /\ Range(info.servers) = Drand /\ IsInjective(info.servers)
           /\ IsInjective(info.gossip)
           /\ Range(info.gossip) = IF gossipRelay THEN Drand ELSE {}
           /\ joined = Drand /\ firstRound

\* The DKG is run among daemons that are all up: a node that has called it finds no other
\* node still before the start of its daemon.
DkgAmongDaemons ==
    \A d, e \in Drand :
        pc[d] \in {"runDkg", "inDkg"} => pc[e] \notin Phase \ (Sharing \cup Beacon)

Failures == {d \in Drand : pc[d] = "failed"}

\* A group without relays survives the loss of nodes down to the threshold: once all keys
\* are with the leader, the configuration gets published although followers die.
SurvivesLosses ==
    (joined = Drand /\ ~gossipRelay) ~>
        \/ runtimeInfo # <<>>
        \/ DrandLeader \in Failures
        \/ Cardinality(Failures) > nNodes - Threshold

\* The phases of a node are one step for the other roles.
coarse == [n \in Node |-> IF pc[n] \in Phase THEN "dkg" ELSE pc[n]]

OneStep == INSTANCE Prepare WITH pc <- coarse

\* The group does what Prepare says it does: each node gets ready once, the configuration
\* appears with the leader and only then, and the other instances see no other effect.
ImplementsPrepare == OneStep!Spec

=============================================================================
