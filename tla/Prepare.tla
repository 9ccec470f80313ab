------------------------------- MODULE Prepare -------------------------------
(***************************************************************************)
(* How the instances of a test come up (the Prepare* functions of          *)
(* lotus-soup/testkit): from separate processes to one Filecoin network    *)
(* in which everybody has passed the barrier "ready".                      *)
(*                                                                         *)
(* Instances share nothing but the sync service: topics, which are         *)
(* sequences of messages that every subscriber reads from the start, and   *)
(* states, which are counters with barriers.  The bootstrapper waits for   *)
(* the balances of all miners and clients and for the preseals of all      *)
(* miners, builds the genesis block and publishes it; everybody else waits *)
(* for it.  The miners connect to each other in the order of their         *)
(* addresses in the topic; the clients connect to the miners after the     *)
(* barrier.                                                                *)
(*                                                                         *)
(* An address, wallet or peer is the instance it belongs to.  How the      *)
(* drand group gets to its configuration is one step here.                 *)
(***************************************************************************)
EXTENDS Naturals, FiniteSets, Sequences, SequencesExt

CONSTANTS
    Miner, Client,      \* instances by role
    Bootstrapper,       \* the one bootstrapper
    Tracer,             \* the pubsub tracer: {} or one instance
    Drand, DrandLeader, \* the drand nodes, and the one with GroupSeq 1
    TracerEnabled,      \* enable_pubsub_tracer
    LocalDrand          \* random_beacon_type = "local-drand"

ASSUME RolesAssumption ==
    /\ IsFiniteSet(Miner) /\ IsFiniteSet(Client)
    /\ IsFiniteSet(Tracer) /\ IsFiniteSet(Drand)
    /\ Miner \cap Client = {} /\ Miner \cap Tracer = {} /\ Miner \cap Drand = {}
    /\ Client \cap Tracer = {} /\ Client \cap Drand = {} /\ Tracer \cap Drand = {}
    /\ Bootstrapper \notin Miner \cup Client \cup Tracer \cup Drand
    /\ Drand # {} => DrandLeader \in Drand

ASSUME ParamsAssumption ==
    /\ TracerEnabled \in BOOLEAN /\ LocalDrand \in BOOLEAN
    /\ TracerEnabled => Tracer # {}
    /\ LocalDrand => Drand # {}

VARIABLES
    pc,         \* pc[n]: where instance n is in its Prepare function
    seq,        \* seq[m]: miner m's entry number in "miner-pick-seq-num"
    next,       \* next[m]: messages miner m has read from miners_addrs
    balances,   \* topic "balance"
    preseals,   \* topic "preseal": who, with its sequence number
    genesis,    \* topic "genesis"
    minerAddrs, \* topic "miners_addrs"
    tracers,    \* topic "pubsub_tracer"
    drandConfig,\* topic "drand_config"
    picked,     \* the counter of "miner-pick-seq-num"
    ready,      \* the counter of "ready"
    template,   \* what the bootstrapper has collected: [accounts, miners]
    conns       \* <<a, b>>: a has called NetConnect on b

topics == <<balances, preseals, genesis, minerAddrs, tracers, drandConfig>>
vars == <<pc, seq, next, topics, picked, ready, template, conns>>

Node == Miner \cup Client \cup Tracer \cup Drand \cup {Bootstrapper}
Funded == Miner \cup Client
TestInstanceCount == Cardinality(Node)

NoTemplate == [accounts |-> <<>>, miners |-> <<>>]

FirstStep(n) ==
    IF n \in Tracer THEN "publishTracer"
    ELSE IF n \in Drand THEN "dkg"
    ELSE "tracer"

Init ==
    /\ pc = [n \in Node |-> FirstStep(n)]
    /\ seq = [m \in Miner |-> 0]
    /\ next = [m \in Miner |-> 0]
    /\ balances = <<>> /\ preseals = <<>> /\ genesis = <<>>
    /\ minerAddrs = <<>> /\ tracers = <<>> /\ drandConfig = <<>>
    /\ picked = 0 /\ ready = 0
    /\ template = NoTemplate
    /\ conns = {}

Goto(n, from, to) ==
    /\ pc[n] = from
    /\ pc' = [pc EXCEPT ![n] = to]

-----------------------------------------------------------------------------
(* Steps that several roles share. *)

\* GetPubsubTracerMaddr
GetTracer(n) ==
    /\ ~TracerEnabled \/ tracers # <<>>
    /\ Goto(n, "tracer", "beacon")
    /\ UNCHANGED <<seq, next, topics, picked, ready, template, conns>>

\* GetRandomBeaconOpts: only a local beacon has to be waited for.
GetBeacon(n) ==
    /\ ~LocalDrand \/ drandConfig # <<>>
    /\ Goto(n, "beacon", IF n = Bootstrapper THEN "balances" ELSE "balance")
    /\ UNCHANGED <<seq, next, topics, picked, ready, template, conns>>

\* Faulty variant: a miner waits for the genesis block before its preseal.
AfterBalance_GenesisFirst(n) == "genesis"

AfterBalance(n) == IF n \in Miner THEN "pick" ELSE "genesis"

\* A miner or a client publishes its account.  The error of Publish is dropped,
\* so the instance goes on as well when the message is lost.
PublishBalance(n) ==
    /\ Goto(n, "balance", AfterBalance(n))
    /\ \/ balances' = Append(balances, n)
       \/ UNCHANGED balances
    /\ UNCHANGED <<seq, next, preseals, genesis, minerAddrs, tracers, drandConfig,
                   picked, ready, template, conns>>

\* WaitForGenesis
GetGenesis(n) ==
    /\ genesis # <<>>
    /\ Goto(n, "genesis", "node")
    /\ UNCHANGED <<seq, next, topics, picked, ready, template, conns>>

\* MustSignalAndWait(StateReady), first half.
SignalReady(n) ==
    /\ Goto(n, "ready", "readyWait")
    /\ ready' = ready + 1
    /\ UNCHANGED <<seq, next, topics, picked, template, conns>>

\* Faulty variant: the barrier counts the miners only.
PassReady_MinersOnly(n) ==
    /\ ready >= Cardinality(Miner)
    /\ Goto(n, "readyWait", IF n \in Client THEN "collect" ELSE "prepared")
    /\ UNCHANGED <<seq, next, topics, picked, ready, template, conns>>

\* MustSignalAndWait(StateReady), second half: a client has still to connect.
PassReady(n) ==
    /\ ready >= TestInstanceCount
    /\ Goto(n, "readyWait", IF n \in Client THEN "collect" ELSE "prepared")
    /\ UNCHANGED <<seq, next, topics, picked, ready, template, conns>>

\* Before it is prepared an instance may fail: the node cannot be built, an error
\* is returned, PrepareNodeTimeout expires in a wait.  The tracer has no timeout.
Fail(n) ==
    /\ pc[n] \notin {"prepared", "failed"}
    /\ n \in Tracer => pc[n] = "publishTracer"
    /\ pc' = [pc EXCEPT ![n] = "failed"]
    /\ UNCHANGED <<seq, next, topics, picked, ready, template, conns>>

-----------------------------------------------------------------------------
(* The bootstrapper. *)

\* WaitForBalances: the first `nodes' messages.
CollectBalances ==
    LET nodes == Cardinality(Funded) IN
    /\ Len(balances) >= nodes
    /\ Goto(Bootstrapper, "balances", "preseals")
    /\ template' = [template EXCEPT !.accounts = SubSeq(balances, 1, nodes)]
    /\ UNCHANGED <<seq, next, topics, picked, ready, conns>>

\* The orders of s by Seqno: the sort is not stable.
SortedBySeqno(s) ==
    {t \in {[i \in DOMAIN s |-> s[p[i]]] : p \in Bijection(DOMAIN s, DOMAIN s)} :
        \A i, j \in DOMAIN t : i < j => t[i].seqno <= t[j].seqno}

\* Faulty variant: no sort.
CollectPreseals_Unsorted ==
    LET miners == Cardinality(Miner) IN
    /\ Len(preseals) >= miners
    /\ Goto(Bootstrapper, "preseals", "publish")
    /\ template' = [template EXCEPT !.miners = SubSeq(preseals, 1, miners)]
    /\ UNCHANGED <<seq, next, topics, picked, ready, conns>>

\* CollectPreseals: the first `miners' messages, sorted by Seqno.
CollectPreseals ==
    LET miners == Cardinality(Miner) IN
    /\ Len(preseals) >= miners
    /\ Goto(Bootstrapper, "preseals", "publish")
    /\ \E sorted \in SortedBySeqno(SubSeq(preseals, 1, miners)) :
            template' = [template EXCEPT !.miners = sorted]
    /\ UNCHANGED <<seq, next, topics, picked, ready, conns>>

\* The node makes the genesis block from the template as a side effect.
PublishGenesis ==
    /\ Goto(Bootstrapper, "publish", "ready")
    /\ genesis' = Append(genesis, template)
    /\ UNCHANGED <<seq, next, balances, preseals, minerAddrs, tracers, drandConfig,
                   picked, ready, template, conns>>

-----------------------------------------------------------------------------
(* A miner. *)

\* MustSignalAndWait(StateMinerPickSeqNum), first half: the entry number is seq.
PickSeqNum(m) ==
    /\ Goto(m, "pick", "pickWait")
    /\ picked' = picked + 1
    /\ seq' = [seq EXCEPT ![m] = picked + 1]
    /\ UNCHANGED <<next, topics, ready, template, conns>>

\* MustSignalAndWait(StateMinerPickSeqNum), second half.
PassPick(m) ==
    /\ picked >= Cardinality(Miner)
    /\ Goto(m, "pickWait", "preseal")
    /\ UNCHANGED <<seq, next, topics, picked, ready, template, conns>>

\* PreSeal for the address MinerStart + seq - 1; again the error of Publish is dropped.
PublishPreseal(m) ==
    /\ Goto(m, "preseal", "genesis")
    /\ \/ preseals' = Append(preseals, [miner |-> m, seqno |-> seq[m]])
       \/ UNCHANGED preseals
    /\ UNCHANGED <<seq, next, balances, genesis, minerAddrs, tracers, drandConfig,
                   picked, ready, template, conns>>

\* Full node and miner node are up: publish the addresses.
PublishMinerAddr(m) ==
    /\ Goto(m, "node", "mesh")
    /\ minerAddrs' = Append(minerAddrs, m)
    /\ UNCHANGED <<seq, next, balances, preseals, genesis, tracers, drandConfig,
                   picked, ready, template, conns>>

\* Faulty variant: skip myself and go on with those behind me.
ConnectMiner_SkipMyself(m) ==
    /\ pc[m] = "mesh" /\ next[m] < Len(minerAddrs)
    /\ LET other == minerAddrs[next[m] + 1] IN
       /\ conns' = IF other = m THEN conns ELSE conns \cup {<<m, other>>}
       /\ next' = [next EXCEPT ![m] = @ + 1]
       /\ pc' = [pc EXCEPT ![m] = IF next[m] + 1 < Cardinality(Miner) THEN "mesh" ELSE "ready"]
    /\ UNCHANGED <<seq, topics, picked, ready, template>>

\* One turn of the loop over miners_addrs: connect to whoever comes before me.
ConnectMiner(m) ==
    /\ pc[m] = "mesh" /\ next[m] < Len(minerAddrs)
    /\ LET other == minerAddrs[next[m] + 1] IN
       \/ /\ other = m
          /\ pc' = [pc EXCEPT ![m] = "ready"]
          /\ UNCHANGED <<next, conns>>
       \/ /\ other # m
          /\ conns' = conns \cup {<<m, other>>}
          /\ next' = [next EXCEPT ![m] = @ + 1]
          /\ pc' = [pc EXCEPT ![m] = IF next[m] + 1 < Cardinality(Miner) THEN "mesh" ELSE "ready"]
    /\ UNCHANGED <<seq, topics, picked, ready, template>>

-----------------------------------------------------------------------------
(* A client, the tracer, the drand nodes. *)

\* The client's node is up; its own address (clients_addrs) is read by no Prepare function.
StartClientNode(c) ==
    /\ Goto(c, "node", "ready")
    /\ UNCHANGED <<seq, next, topics, picked, ready, template, conns>>

\* CollectMinerAddrs, then connect to both nodes of each miner.
ConnectClient(c) ==
    LET miners == Cardinality(Miner) IN
    /\ Len(minerAddrs) >= miners
    /\ Goto(c, "collect", "prepared")
    /\ conns' = conns \cup {<<c, minerAddrs[i]>> : i \in 1 .. miners}
    /\ UNCHANGED <<seq, next, topics, picked, ready, template>>

PublishTracer(t) ==
    /\ Goto(t, "publishTracer", "ready")
    /\ tracers' = Append(tracers, t)
    /\ UNCHANGED <<seq, next, balances, preseals, genesis, minerAddrs, drandConfig,
                   picked, ready, template, conns>>

\* The group has run its DKG; the leader publishes the configuration.
RunDrand(d) ==
    /\ Goto(d, "dkg", "ready")
    /\ drandConfig' = IF d = DrandLeader THEN Append(drandConfig, d) ELSE drandConfig
    /\ UNCHANGED <<seq, next, balances, preseals, genesis, minerAddrs, tracers,
                   picked, ready, template, conns>>

-----------------------------------------------------------------------------

BootstrapperStep == CollectBalances \/ CollectPreseals \/ PublishGenesis

MinerStep(m) ==
    PickSeqNum(m) \/ PassPick(m) \/ PublishPreseal(m) \/ PublishMinerAddr(m) \/ ConnectMiner(m)

ClientStep(c) == StartClientNode(c) \/ ConnectClient(c)

Step(n) ==
    \/ GetTracer(n) \/ GetBeacon(n) \/ PublishBalance(n) \/ GetGenesis(n)
    \/ SignalReady(n) \/ PassReady(n)
    \/ n = Bootstrapper /\ BootstrapperStep
    \/ n \in Miner /\ MinerStep(n)
    \/ n \in Client /\ ClientStep(n)
    \/ n \in Tracer /\ PublishTracer(n)
    \/ n \in Drand /\ RunDrand(n)

Next == \E n \in Node : Step(n) \/ Fail(n)

Spec == Init /\ [][Next]_vars

\* Each instance goes on as long as it can; nothing makes one fail.
FairSpec == Spec /\ \A n \in Node : WF_vars(Step(n))

-----------------------------------------------------------------------------
(* Properties. *)

TypeOK ==
    /\ pc \in [Node -> {"publishTracer", "dkg", "tracer", "beacon", "balances", "preseals",
                        "publish", "balance", "pick", "pickWait", "preseal", "genesis", "node",
                        "mesh", "ready", "readyWait", "collect", "prepared", "failed"}]
    /\ seq \in [Miner -> 0 .. Cardinality(Miner)]
    /\ next \in [Miner -> 0 .. Cardinality(Miner)]
    /\ balances \in Seq(Funded)
    /\ preseals \in Seq([miner : Miner, seqno : Nat])
    /\ minerAddrs \in Seq(Miner)
    /\ tracers \in Seq(Tracer)
    /\ drandConfig \in Seq(Drand)
    /\ genesis \in Seq([accounts : Seq(Funded), miners : Seq([miner : Miner, seqno : Nat])])
    /\ template \in [accounts : Seq(Funded), miners : Seq([miner : Miner, seqno : Nat])]
    /\ picked \in 0 .. Cardinality(Miner)
    /\ ready \in 0 .. TestInstanceCount
    /\ conns \in SUBSET (Funded \X Miner)

\* A genesis block funds every miner and every client exactly once, and gives the i-th
\* place to the miner that presealed for the i-th miner address, leaving nobody out,
\* whatever the order balances and preseals came in: the chain assigns the addresses
\* by place.  (The variables have their types.)
GenesisComplete ==
    /\ TypeOK
    /\ \A g \in Range(genesis) :
        /\ Range(g.accounts) = Funded /\ IsInjective(g.accounts)
        /\ {g.miners[i].miner : i \in DOMAIN g.miners} = Miner
        /\ \A i \in DOMAIN g.miners : seq[g.miners[i].miner] = i

\* Two miners never dial each other both (the simultaneous open the comment in the loop
\* avoids); and yet, once anybody is past "ready", the miners are densely connected, and
\* a client that is prepared is connected to all of them.
DenselyConnected ==
    /\ \A m, n \in Miner : m # n => ~(<<m, n>> \in conns /\ <<n, m>> \in conns)
    /\ (\E n \in Node : pc[n] \in {"collect", "prepared"}) =>
           \A m, n \in Miner : m # n => <<m, n>> \in conns \/ <<n, m>> \in conns
    /\ \A c \in Client : pc[c] = "prepared" => \A m \in Miner : <<c, m>> \in conns

\* After the barrier a client finds the addresses of all miners in the topic: it
\* cannot get stuck collecting them.
AddrsThereAfterReady ==
    \A c \in Client : pc[c] = "collect" => Range(minerAddrs) = Miner

\* n's account or preseal was lost on its way to the topic.
Lost(n) ==
    \/ /\ n \in Funded /\ pc[n] \notin {"tracer", "beacon", "balance", "failed"}
       /\ n \notin Range(balances)
    \/ /\ n \in Miner
       /\ pc[n] \notin {"tracer", "beacon", "balance", "pick", "pickWait", "preseal", "failed"}
       /\ seq[n] # 0 /\ \A p \in Range(preseals) : p.miner # n

\* Everybody gets prepared, unless an instance fails or a message is lost: the waits
\* of the roles on each other never form a circle.
EventuallyPrepared ==
    <>(\/ \A n \in Node : pc[n] = "prepared"
       \/ \E n \in Node : pc[n] = "failed" \/ Lost(n))

=============================================================================
