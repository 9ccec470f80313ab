---------------------------- MODULE Prepare_proofs ----------------------------
(***************************************************************************)
(* Proofs about Prepare for any number of instances: the genesis block is  *)
(* complete, the miners are densely connected after the barrier "ready",   *)
(* and a client cannot get stuck behind it.                                *)
(*                                                                         *)
(* An instance that fails leaves no trace of how far it was, so that the   *)
(* counter of "ready" is not the number of instances in some place.  It is *)
(* at most the number of those that are past "ready" or have failed and,   *)
(* if they are miners, have done their part of the mesh: when the counter  *)
(* is full, all miners have.                                               *)
(***************************************************************************)
EXTENDS Prepare, Counting

Place == {"publishTracer", "dkg", "tracer", "beacon", "balances", "preseals",
          "publish", "balance", "pick", "pickWait", "preseal", "genesis", "node",
          "mesh", "ready", "readyWait", "collect", "prepared", "failed"}

Preseal == [miner : Miner, seqno : Nat]
Template == [accounts : Seq(Funded), miners : Seq(Preseal)]

Types ==
    /\ pc \in [Node -> Place]
    /\ seq \in [Miner -> Nat] /\ next \in [Miner -> Nat]
    /\ balances \in Seq(Funded) /\ preseals \in Seq(Preseal) /\ minerAddrs \in Seq(Miner)
    /\ tracers \in Seq(Tracer) /\ drandConfig \in Seq(Drand)
    /\ genesis \in Seq(Template) /\ template \in Template
    /\ picked \in Nat /\ ready \in Nat
    /\ conns \in SUBSET (Funded \X Miner)

\* What an instance has still before it, by what it publishes.
BeforeBalance == {"tracer", "beacon", "balance"}
BeforePick == BeforeBalance \cup {"pick"}
BeforePreseal == BeforePick \cup {"pickWait", "preseal"}
BeforeMesh == BeforePreseal \cup {"genesis", "node"}

\* Only miners and clients have a balance to publish.
Roles ==
    /\ \A n \in Node : pc[n] \in {"tracer", "beacon"} => n \in Funded \cup {Bootstrapper}
    /\ \A n \in Node : pc[n] = "balance" => n \in Funded
    /\ \A n \in Node : pc[n] = "collect" => n \in Client

TypeInv == Types /\ Roles

\* Nobody publishes its balance twice.
BalancesInv ==
    /\ NoRepeats(balances)
    /\ \A n \in Elements(balances) : pc[n] \notin BeforeBalance

\* The miners that have a number; no two have the same.
Numbered == {m \in Miner : seq[m] # 0}

PicksInv ==
    /\ picked = Cardinality(Numbered)
    /\ \A m \in Miner : seq[m] <= picked
    /\ \A m, n \in Miner : seq[m] = seq[n] /\ seq[m] # 0 => m = n
    /\ \A m \in Miner : pc[m] \in BeforePick => seq[m] = 0
    /\ \A m \in Miner : pc[m] \in {"pickWait", "preseal"} => seq[m] # 0

\* A miner preseals once, under its number.
PresealsInv ==
    /\ \A i \in DOMAIN preseals :
           /\ preseals[i].seqno = seq[preseals[i].miner] /\ preseals[i].seqno # 0
           /\ pc[preseals[i].miner] \notin BeforePreseal
    /\ \A i, j \in DOMAIN preseals : preseals[i].miner = preseals[j].miner => i = j

AccountsComplete(accounts) == Range(accounts) = Funded /\ IsInjective(accounts)

MinersComplete(miners) ==
    /\ {miners[i].miner : i \in DOMAIN miners} = Miner
    /\ \A i \in DOMAIN miners : seq[miners[i].miner] = i

GenesisInv ==
    /\ pc[Bootstrapper] \in {"preseals", "publish"} => AccountsComplete(template.accounts)
    /\ pc[Bootstrapper] = "publish" => MinersComplete(template.miners)
    /\ \A g \in Range(genesis) : AccountsComplete(g.accounts) /\ MinersComplete(g.miners)

\* m has dialled all miners whose addresses are before its own.
Meshed(m) ==
    \E k \in DOMAIN minerAddrs :
        minerAddrs[k] = m /\ \A i \in 1 .. k - 1 : <<m, minerAddrs[i]>> \in conns

MeshInv ==
    /\ NoRepeats(minerAddrs)
    /\ \A m \in Elements(minerAddrs) : pc[m] \notin BeforeMesh
    /\ \A m \in Miner : pc[m] \in BeforeMesh => next[m] = 0
    /\ \A m \in Miner : next[m] <= Len(minerAddrs)
    /\ \A m \in Miner : pc[m] = "mesh" =>
           /\ m \in Elements(minerAddrs)
           /\ \A i \in 1 .. next[m] : minerAddrs[i] # m /\ <<m, minerAddrs[i]>> \in conns
    /\ \A m \in Miner : pc[m] \in {"ready", "readyWait", "prepared"} => Meshed(m)
    /\ \A m, n \in Miner : <<m, n>> \in conns =>
           \E i, j \in DOMAIN minerAddrs : i < j /\ minerAddrs[i] = n /\ minerAddrs[j] = m

\* The instances that the counter of "ready" may stand for.
MayBeReady ==
    {n \in Node : /\ pc[n] \in {"readyWait", "collect", "prepared", "failed"}
                  /\ n \in Miner => Meshed(n)}

ReadyInv ==
    /\ ready <= Cardinality(MayBeReady)
    /\ \A n \in Node : pc[n] \in {"collect", "prepared"} => ready >= TestInstanceCount
    /\ \A c \in Client : pc[c] = "prepared" => \A m \in Miner : <<c, m>> \in conns

IInv == TypeInv /\ BalancesInv /\ PicksInv /\ PresealsInv /\ GenesisInv /\ MeshInv /\ ReadyInv

-----------------------------------------------------------------------------
(* Types and roles. *)

LEMMA Instances ==
    /\ IsFiniteSet(Node) /\ IsFiniteSet(Miner) /\ IsFiniteSet(Funded)
    /\ Miner \subseteq Funded /\ Client \subseteq Funded /\ Funded \subseteq Node
    /\ Bootstrapper \in Node /\ Bootstrapper \notin Funded
    /\ Cardinality(Node) \in Nat /\ Cardinality(Miner) \in Nat /\ Cardinality(Funded) \in Nat
<1>1. IsFiniteSet(Funded) /\ IsFiniteSet(Miner)
  BY RolesAssumption, FS_Union DEF RolesAssumption, Funded
<1>2. IsFiniteSet((Funded \cup Tracer) \cup Drand)
  BY <1>1, RolesAssumption, FS_Union DEF RolesAssumption
<1>3. Node = ((Funded \cup Tracer) \cup Drand) \cup {Bootstrapper}
  BY DEF Node, Funded
<1>4. IsFiniteSet(Node)
  BY <1>2, <1>3, FS_AddElement
<1>. QED  BY <1>1, <1>4, RolesAssumption, FS_CardinalityType DEF RolesAssumption, Node, Funded

\* Where n can go from where it is; what n is and what it waits for is left to the actions.
Edges ==
    {<<"publishTracer", "ready">>, <<"dkg", "ready">>, <<"tracer", "beacon">>,
     <<"beacon", "balances">>, <<"balances", "preseals">>, <<"preseals", "publish">>,
     <<"publish", "ready">>, <<"beacon", "balance">>, <<"balance", "pick">>,
     <<"balance", "genesis">>, <<"pick", "pickWait">>, <<"pickWait", "preseal">>,
     <<"preseal", "genesis">>, <<"genesis", "node">>, <<"node", "mesh">>, <<"mesh", "mesh">>,
     <<"mesh", "ready">>, <<"node", "ready">>, <<"ready", "readyWait">>,
     <<"readyWait", "collect">>, <<"readyWait", "prepared">>, <<"collect", "prepared">>}

Moves(n, to) ==
    /\ <<pc[n], to>> \in Edges \/ (to = "failed" /\ pc[n] \notin {"prepared", "failed"})
    /\ pc' = [pc EXCEPT ![n] = to]

\* Every step is the step of one instance, which goes on or fails.
LEMMA EveryStepMoves ==
    ASSUME Types, NEW n \in Node, Step(n) \/ Fail(n)
    PROVE  \E k \in Node, to \in Place : Moves(k, to)
<1>0. pc \in [Node -> Place] /\ Bootstrapper \in Node
  BY Instances DEF Types
<1>1. ASSUME NEW k \in Node, NEW from, NEW to, Goto(k, from, to), <<from, to>> \in Edges
      PROVE  \E i \in Node, x \in Place : Moves(i, x)
  <2>1. to \in Place
    BY <1>1 DEF Edges, Place
  <2>. QED  BY <1>1, <2>1 DEF Goto, Moves
<1>2. CASE Fail(n)
  BY <1>0, <1>2 DEF Fail, Moves, Place
<1>3. CASE GetTracer(n) \/ GetGenesis(n) \/ SignalReady(n)
  BY <1>1, <1>3 DEF GetTracer, GetGenesis, SignalReady, Edges
<1>4. CASE GetBeacon(n) \/ PublishBalance(n) \/ PassReady(n)
  BY <1>1, <1>4 DEF GetBeacon, PublishBalance, AfterBalance, PassReady, Edges
<1>5. CASE BootstrapperStep
  BY <1>0, <1>1, <1>5 DEF BootstrapperStep, CollectBalances, CollectPreseals, PublishGenesis, Edges
<1>6. CASE PickSeqNum(n) \/ PassPick(n) \/ PublishPreseal(n) \/ PublishMinerAddr(n)
  BY <1>1, <1>6 DEF PickSeqNum, PassPick, PublishPreseal, PublishMinerAddr, Edges
<1>7. CASE ConnectMiner(n)
  <2>1. pc[n] = "mesh" /\ \E to \in {"mesh", "ready"} : pc' = [pc EXCEPT ![n] = to]
    BY <1>7 DEF ConnectMiner
  <2>. QED  BY <2>1 DEF Moves, Edges, Place
<1>8. CASE ClientStep(n) \/ PublishTracer(n) \/ RunDrand(n)
  BY <1>1, <1>8 DEF ClientStep, StartClientNode, ConnectClient, PublishTracer, RunDrand, Edges
<1>. QED  BY <1>2, <1>3, <1>4, <1>5, <1>6, <1>7, <1>8 DEF Step, MinerStep

\* Nobody comes back to what it has behind it.
LEMMA Forward ==
    ASSUME Types, [Next]_vars, NEW n \in Node
    PROVE  /\ pc[n] \in Place /\ pc'[n] \in Place
           /\ pc[n] \notin BeforeBalance => pc'[n] \notin BeforeBalance
           /\ pc[n] \notin BeforePick => pc'[n] \notin BeforePick
           /\ pc[n] \notin BeforePreseal => pc'[n] \notin BeforePreseal
           /\ pc[n] \notin BeforeMesh => pc'[n] \notin BeforeMesh
<1>0. pc \in [Node -> Place]
  BY DEF Types
<1>1. CASE UNCHANGED vars
  BY <1>0, <1>1 DEF vars
<1>2. ASSUME NEW k \in Node, NEW to \in Place, Moves(k, to)
      PROVE  \/ pc'[n] = pc[n] \/ pc'[n] = "failed"
             \/ <<pc[n], pc'[n]>> \in Edges
  BY <1>0, <1>2 DEF Moves
<1>3. ASSUME NEW to \in Place, <<pc[n], to>> \in Edges
      PROVE  /\ pc[n] \notin BeforeBalance => to \notin BeforeBalance
             /\ pc[n] \notin BeforePick => to \notin BeforePick
             /\ pc[n] \notin BeforePreseal => to \notin BeforePreseal
             /\ pc[n] \notin BeforeMesh => to \notin BeforeMesh
  BY <1>3 DEF Edges, BeforeBalance, BeforePick, BeforePreseal, BeforeMesh
<1>4. pc'[n] \in Place
  <2>1. ASSUME NEW k \in Node, NEW to \in Place, Moves(k, to) PROVE pc'[n] \in Place
    BY <1>0, <2>1 DEF Moves
  <2>. QED  BY <1>0, <1>1, <2>1, EveryStepMoves DEF Next, vars
<1>5. "failed" \notin BeforeMesh /\ "failed" \notin BeforePreseal /\ "failed" \notin BeforePick
      /\ "failed" \notin BeforeBalance
  BY DEF BeforeBalance, BeforePick, BeforePreseal, BeforeMesh
<1>6. ASSUME NEW k \in Node, Step(k) \/ Fail(k)
      PROVE  \/ pc'[n] = pc[n] \/ pc'[n] = "failed"
             \/ <<pc[n], pc'[n]>> \in Edges
  BY <1>2, <1>6, EveryStepMoves
<1>. QED  BY <1>0, <1>1, <1>3, <1>4, <1>5, <1>6 DEF Next, vars

\* Which action changes what.
LEMMA Frames ==
    ASSUME NEW n \in Node, Step(n) \/ Fail(n)
    PROVE  /\ UNCHANGED balances \/ PublishBalance(n)
           /\ UNCHANGED <<seq, picked>> \/ (n \in Miner /\ PickSeqNum(n))
           /\ UNCHANGED preseals \/ (n \in Miner /\ PublishPreseal(n))
           /\ UNCHANGED minerAddrs \/ (n \in Miner /\ PublishMinerAddr(n))
           /\ UNCHANGED next \/ (n \in Miner /\ ConnectMiner(n))
           /\ \/ UNCHANGED conns
              \/ n \in Miner /\ ConnectMiner(n)
              \/ n \in Client /\ ConnectClient(n)
           /\ UNCHANGED template \/ (n = Bootstrapper /\ (CollectBalances \/ CollectPreseals))
           /\ UNCHANGED genesis \/ (n = Bootstrapper /\ PublishGenesis)
           /\ UNCHANGED ready \/ SignalReady(n)
           /\ UNCHANGED tracers \/ (n \in Tracer /\ PublishTracer(n))
           /\ UNCHANGED drandConfig \/ (n \in Drand /\ RunDrand(n))
BY DEF Step, Fail, GetTracer, GetBeacon, PublishBalance, GetGenesis, SignalReady, PassReady,
       BootstrapperStep, CollectBalances, CollectPreseals, PublishGenesis, MinerStep, PickSeqNum,
       PassPick, PublishPreseal, PublishMinerAddr, ConnectMiner, ClientStep, StartClientNode,
       ConnectClient, PublishTracer, RunDrand, topics

\* Where an instance comes from decides what it is.
LEMMA NextRoles ==
    ASSUME TypeInv, NEW n \in Node, Step(n) \/ Fail(n)
    PROVE  pc' \in [Node -> Place] /\ Roles'
<1>0. pc \in [Node -> Place]
  BY DEF TypeInv, Types
<1>1. ASSUME NEW k \in Node, NEW to \in Place, Moves(k, to)
      PROVE  pc'[k] = to /\ \A i \in Node \ {k} : pc'[i] = pc[i]
  BY <1>0, <1>1 DEF Moves
<1>2. pc' \in [Node -> Place]
  <2>1. PICK k \in Node, to \in Place : Moves(k, to)
    BY EveryStepMoves DEF TypeInv
  <2>. QED  BY <1>0, <2>1 DEF Moves
<1>. SUFFICES Roles'
  BY <1>2
<1>3. ASSUME NEW from \in Place, NEW to \in Place, NEW k \in Node, Goto(k, from, to),
             to \in {"tracer", "beacon"} => k \in Funded \cup {Bootstrapper},
             to = "balance" => k \in Funded, to = "collect" => k \in Client
      PROVE  Roles'
  <2>1. pc'[k] = to /\ \A i \in Node \ {k} : pc'[i] = pc[i]
    BY <1>0, <1>3 DEF Goto
  <2>. QED  BY <1>3, <2>1 DEF TypeInv, Roles
<1>. DEFINE Common == {"balances", "preseals", "publish", "pick", "pickWait", "preseal", "genesis",
                       "node", "mesh", "ready", "readyWait", "prepared", "failed"}
<1>4. ASSUME NEW from \in Place, NEW to \in Common, NEW k \in Node, Goto(k, from, to)
      PROVE  Roles'
  BY <1>3, <1>4 DEF Place
<1>5. CASE Fail(n)
  <2>1. Goto(n, pc[n], "failed")
    BY <1>5 DEF Fail, Goto
  <2>. QED  BY <1>0, <1>4, <2>1
<1>6. CASE GetTracer(n)
  BY <1>3, <1>6 DEF GetTracer, Goto, TypeInv, Roles, Place
<1>7. CASE GetBeacon(n)
  <2>. DEFINE to == IF n = Bootstrapper THEN "balances" ELSE "balance"
  <2>1. Goto(n, "beacon", to)
    BY <1>7 DEF GetBeacon
  <2>2. n \in Funded \cup {Bootstrapper}
    BY <2>1 DEF Goto, TypeInv, Roles
  <2>. QED  BY <1>3, <2>1, <2>2 DEF Place
<1>8. CASE PassReady(n)
  <2>. DEFINE to == IF n \in Client THEN "collect" ELSE "prepared"
  <2>1. Goto(n, "readyWait", to)
    BY <1>8 DEF PassReady
  <2>. QED  BY <1>3, <2>1 DEF Place
<1>9. CASE PublishBalance(n)
  BY <1>4, <1>9 DEF PublishBalance, AfterBalance, Place
<1>10. CASE GetGenesis(n) \/ SignalReady(n)
  BY <1>4, <1>10 DEF GetGenesis, SignalReady, Place
<1>11. CASE BootstrapperStep
  BY <1>4, <1>11, Instances DEF BootstrapperStep, CollectBalances, CollectPreseals, PublishGenesis, Place
<1>12. CASE PickSeqNum(n) \/ PassPick(n) \/ PublishPreseal(n) \/ PublishMinerAddr(n)
  BY <1>4, <1>12 DEF PickSeqNum, PassPick, PublishPreseal, PublishMinerAddr, Place
<1>13. CASE ConnectMiner(n)
  <2>1. PICK to \in {"mesh", "ready"} : Goto(n, "mesh", to)
    BY <1>13 DEF ConnectMiner, Goto
  <2>. QED  BY <1>4, <2>1 DEF Place
<1>14. CASE ClientStep(n) \/ PublishTracer(n) \/ RunDrand(n)
  BY <1>4, <1>14 DEF ClientStep, StartClientNode, ConnectClient, PublishTracer, RunDrand, Place
<1>. QED
  BY <1>2, <1>5, <1>6, <1>7, <1>8, <1>9, <1>10, <1>11, <1>12, <1>13, <1>14 DEF Step, MinerStep

\* A message on the topic is from a miner.
LEMMA FromMiner ==
    ASSUME NEW s \in Seq(Preseal), NEW i \in DOMAIN s
    PROVE  s[i] \in Preseal /\ s[i].miner \in Miner /\ s[i].seqno \in Nat
<1>1. s[i] \in Preseal
  OBVIOUS
<1>. QED  BY <1>1 DEF Preseal

\* The sort permutes the messages, into the order of their numbers.
LEMMA SortPermutes ==
    ASSUME NEW s \in Seq(Preseal), NEW t \in SortedBySeqno(s)
    PROVE  /\ DOMAIN t = DOMAIN s
           /\ \A i, j \in DOMAIN s : i < j => t[i].seqno <= t[j].seqno
           /\ \E p \in [DOMAIN s -> DOMAIN s] :
                  /\ \A i, j \in DOMAIN s : p[i] = p[j] => i = j
                  /\ \A k \in DOMAIN s : \E i \in DOMAIN s : p[i] = k
                  /\ \A i \in DOMAIN s : p[i] \in DOMAIN s /\ t[i] = s[p[i]]
<1>1. PICK p \in Bijection(DOMAIN s, DOMAIN s) : t = [i \in DOMAIN s |-> s[p[i]]]
  BY DEF SortedBySeqno
<1>2. /\ p \in [DOMAIN s -> DOMAIN s] /\ \A i, j \in DOMAIN s : p[i] = p[j] => i = j
      /\ \A k \in DOMAIN s : \E i \in DOMAIN s : p[i] = k
  BY DEF Bijection, Injection, Surjection, IsInjective
<1>3. DOMAIN t = DOMAIN s /\ \A i \in DOMAIN s : p[i] \in DOMAIN s /\ t[i] = s[p[i]]
  BY <1>1, <1>2
<1>4. \A i, j \in DOMAIN s : i < j => t[i].seqno <= t[j].seqno
  BY <1>3 DEF SortedBySeqno
<1>. QED  BY <1>2, <1>3, <1>4

LEMMA SortedType ==
    ASSUME NEW s \in Seq(Preseal), NEW t \in SortedBySeqno(s)
    PROVE  t \in Seq(Preseal)
<1>1. DOMAIN s = 1 .. Len(s) /\ Len(s) \in Nat /\ \A i \in DOMAIN s : s[i] \in Preseal
  OBVIOUS
<1>2. PICK p \in Bijection(DOMAIN s, DOMAIN s) : t = [i \in DOMAIN s |-> s[p[i]]]
  BY DEF SortedBySeqno
<1>3. \A i \in DOMAIN s : p[i] \in DOMAIN s
  BY DEF Bijection, Injection
<1>. QED  BY <1>1, <1>2, <1>3

LEMMA InitType == Init => TypeInv
<1>. SUFFICES ASSUME Init PROVE TypeInv
  OBVIOUS
<1>1. /\ balances \in Seq(Funded) /\ preseals \in Seq(Preseal) /\ minerAddrs \in Seq(Miner)
      /\ tracers \in Seq(Tracer) /\ drandConfig \in Seq(Drand) /\ genesis \in Seq(Template)
      /\ template \in Template /\ conns \in SUBSET (Funded \X Miner)
  BY DEF Init, NoTemplate, Template
<1>2. \A n \in Node : pc[n] = FirstStep(n)
  BY DEF Init
<1>3. Roles
  BY <1>2 DEF Roles, FirstStep, Node, Funded
<1>. QED  BY <1>1, <1>3 DEF Init, FirstStep, Place, TypeInv, Types

LEMMA NextType == TypeInv /\ [Next]_vars => TypeInv'
<1>. SUFFICES ASSUME TypeInv, [Next]_vars PROVE TypeInv'
  OBVIOUS
<1>0. CASE UNCHANGED vars
  BY <1>0 DEF TypeInv, Types, Roles, vars, topics
<1>. SUFFICES ASSUME NEW n \in Node, Step(n) \/ Fail(n) PROVE TypeInv'
  BY <1>0 DEF Next
<1>1. /\ seq \in [Miner -> Nat] /\ next \in [Miner -> Nat] /\ picked \in Nat /\ ready \in Nat
      /\ balances \in Seq(Funded) /\ preseals \in Seq(Preseal) /\ minerAddrs \in Seq(Miner)
      /\ tracers \in Seq(Tracer) /\ drandConfig \in Seq(Drand)
      /\ genesis \in Seq(Template) /\ template \in Template
      /\ pc[n] = "balance" => n \in Funded
  BY DEF TypeInv, Types, Roles
<1>2. pc' \in [Node -> Place] /\ Roles'
  BY NextRoles
<1>3. seq' \in [Miner -> Nat] /\ picked' \in Nat
  <2>1. CASE n \in Miner /\ PickSeqNum(n)
    BY <1>1, <2>1 DEF PickSeqNum
  <2>. QED  BY <1>1, <2>1, Frames
<1>4. ready' \in Nat
  <2>1. CASE SignalReady(n)
    BY <1>1, <2>1 DEF SignalReady
  <2>. QED  BY <1>1, <2>1, Frames
<1>5. balances' \in Seq(Funded)
  <2>1. CASE PublishBalance(n)
    <3>1. n \in Funded
      BY <1>1, <2>1 DEF PublishBalance, Goto
    <3>2. balances' = Append(balances, n) \/ balances' = balances
      BY <2>1 DEF PublishBalance
    <3>3. Append(balances, n) \in Seq(Funded)
      BY <1>1, <3>1
    <3>. QED  BY <1>1, <3>2, <3>3
  <2>. QED  BY <1>1, <2>1, Frames
<1>6. preseals' \in Seq(Preseal)
  <2>1. CASE n \in Miner /\ PublishPreseal(n)
    <3>1. [miner |-> n, seqno |-> seq[n]] \in Preseal
      BY <1>1, <2>1 DEF Preseal
    <3>2. preseals' = Append(preseals, [miner |-> n, seqno |-> seq[n]]) \/ preseals' = preseals
      BY <2>1 DEF PublishPreseal
    <3>3. Append(preseals, [miner |-> n, seqno |-> seq[n]]) \in Seq(Preseal)
      BY <1>1, <3>1
    <3>. QED  BY <1>1, <3>2, <3>3
  <2>. QED  BY <1>1, <2>1, Frames
<1>7. minerAddrs' \in Seq(Miner)
  <2>1. CASE n \in Miner /\ PublishMinerAddr(n)
    BY <1>1, <2>1 DEF PublishMinerAddr
  <2>. QED  BY <1>1, <2>1, Frames
<1>8. tracers' \in Seq(Tracer) /\ drandConfig' \in Seq(Drand)
  <2>1. CASE n \in Tracer /\ PublishTracer(n)
    BY <1>1, <2>1 DEF PublishTracer
  <2>2. CASE n \in Drand /\ RunDrand(n)
    BY <1>1, <2>2 DEF RunDrand
  <2>. QED  BY <1>1, <2>1, <2>2, Frames
<1>9. next' \in [Miner -> Nat]
  <2>1. CASE n \in Miner /\ ConnectMiner(n)
    BY <1>1, <2>1, SMTT(30) DEF ConnectMiner
  <2>. QED  BY <1>1, <2>1, Frames
<1>10. conns' \in SUBSET (Funded \X Miner)
  <2>0. minerAddrs \in Seq(Miner) /\ conns \in SUBSET (Funded \X Miner) /\ next \in [Miner -> Nat]
    BY DEF TypeInv, Types
  <2>1. CASE n \in Miner /\ ConnectMiner(n)
    <3>1. minerAddrs[next[n] + 1] \in Miner
      BY <2>0, <2>1 DEF ConnectMiner
    <3>. QED  BY <2>0, <2>1, <3>1 DEF ConnectMiner, Funded
  <2>2. CASE n \in Client /\ ConnectClient(n)
    <3>1. \A i \in 1 .. Cardinality(Miner) : minerAddrs[i] \in Miner
      BY <2>0, <2>2, Instances DEF ConnectClient
    <3>. QED  BY <2>0, <2>2, <3>1 DEF ConnectClient, Funded
  <2>. QED  BY <2>0, <2>1, <2>2, Frames
<1>11. template' \in Template
  <2>0. balances \in Seq(Funded) /\ preseals \in Seq(Preseal) /\ template \in Template
    BY <1>1
  <2>1. CASE CollectBalances
    <3>1. SubSeq(balances, 1, Cardinality(Funded)) \in Seq(Funded)
      BY <2>0, <2>1, Instances, FirstOnes DEF CollectBalances
    <3>. QED  BY <2>0, <2>1, <3>1 DEF CollectBalances, Template
  <2>2. CASE CollectPreseals
    <3>1. SubSeq(preseals, 1, Cardinality(Miner)) \in Seq(Preseal)
      BY <2>0, <2>2, Instances, FirstOnes DEF CollectPreseals
    <3>2. PICK t \in SortedBySeqno(SubSeq(preseals, 1, Cardinality(Miner))) :
              template' = [template EXCEPT !.miners = t]
      BY <2>2 DEF CollectPreseals
    <3>3. t \in Seq(Preseal)
      BY <3>1, SortedType
    <3>. QED  BY <2>0, <3>2, <3>3 DEF Template
  <2>. QED  BY <2>0, <2>1, <2>2, Frames
<1>12. genesis' \in Seq(Template)
  <2>1. CASE n = Bootstrapper /\ PublishGenesis
    BY <1>1, <2>1 DEF PublishGenesis
  <2>. QED  BY <1>1, <2>1, Frames
<1>. QED
  BY <1>2, <1>3, <1>4, <1>5, <1>6, <1>7, <1>8, <1>9, <1>10, <1>11, <1>12 DEF TypeInv, Types

-----------------------------------------------------------------------------
(* Arriving somewhere. *)

\* How an instance gets to the places the invariants speak about.
LEMMA Arrivals ==
    ASSUME TypeInv, NEW n \in Node, Step(n) \/ Fail(n), NEW k \in Node
    PROVE  /\ pc'[k] \in {"pickWait", "preseal"} =>
                  pc[k] \in {"pickWait", "preseal"} \/ (k = n /\ PickSeqNum(n))
           /\ pc'[k] = "mesh" => pc[k] = "mesh" \/ (k = n /\ PublishMinerAddr(n))
           /\ (k \in Miner /\ pc'[k] \in {"ready", "readyWait", "prepared"}) =>
                  pc[k] \in {"ready", "readyWait", "prepared"} \/ (k = n /\ ConnectMiner(n))
           /\ pc'[k] = "preseals" => pc[k] = "preseals" \/ CollectBalances
           /\ pc'[k] = "publish" => pc[k] = "publish" \/ CollectPreseals
           /\ pc'[k] \in {"collect", "prepared"} =>
                  pc[k] \in {"collect", "prepared"} \/ PassReady(n)
           /\ (k \in Client /\ pc'[k] = "prepared") =>
                  pc[k] = "prepared" \/ (k = n /\ ConnectClient(n))
           /\ pc[k] \in {"readyWait", "collect", "prepared", "failed"} =>
                  pc'[k] \in {"readyWait", "collect", "prepared", "failed"}
<1>0. /\ pc \in [Node -> Place] /\ Miner \cap Client = {} /\ Bootstrapper \notin Miner \cup Client
      /\ Miner \cap Tracer = {} /\ Miner \cap Drand = {} /\ Client \cap Tracer = {}
      /\ Client \cap Drand = {}
  BY RolesAssumption DEF TypeInv, Types, RolesAssumption
<1>1. ASSUME NEW from, NEW to, Goto(n, from, to)
      PROVE  pc[n] = from /\ pc'[n] = to /\ (k # n => pc'[k] = pc[k])
  BY <1>0, <1>1 DEF Goto
<1>2. CASE Fail(n)
  BY <1>0, <1>2 DEF Fail
<1>3. CASE GetTracer(n) \/ GetBeacon(n) \/ PublishBalance(n) \/ GetGenesis(n)
  BY <1>1, <1>3 DEF GetTracer, GetBeacon, PublishBalance, AfterBalance, GetGenesis
<1>4. CASE SignalReady(n)
  BY <1>1, <1>4 DEF SignalReady
<1>5. CASE PassReady(n)
  <2>1. Goto(n, "readyWait", IF n \in Client THEN "collect" ELSE "prepared")
    BY <1>5 DEF PassReady
  <2>. QED  BY <1>1, <1>5, <2>1
<1>6. CASE n = Bootstrapper /\ BootstrapperStep
  BY <1>0, <1>1, <1>6 DEF BootstrapperStep, CollectBalances, CollectPreseals, PublishGenesis
<1>7. CASE n \in Miner /\ MinerStep(n)
  <2>1. CASE ConnectMiner(n)
    <3>1. PICK to \in {"mesh", "ready"} : Goto(n, "mesh", to)
      BY <2>1 DEF ConnectMiner, Goto
    <3>. QED  BY <1>0, <1>1, <1>7, <2>1, <3>1
  <2>2. CASE PickSeqNum(n) \/ PassPick(n)
    BY <1>0, <1>1, <1>7, <2>2 DEF PickSeqNum, PassPick
  <2>3. CASE PublishPreseal(n) \/ PublishMinerAddr(n)
    BY <1>0, <1>1, <1>7, <2>3 DEF PublishPreseal, PublishMinerAddr
  <2>. QED  BY <1>7, <2>1, <2>2, <2>3 DEF MinerStep
<1>8. CASE n \in Client /\ ClientStep(n)
  BY <1>0, <1>1, <1>8 DEF ClientStep, StartClientNode, ConnectClient
<1>9. CASE (n \in Tracer /\ PublishTracer(n)) \/ (n \in Drand /\ RunDrand(n))
  BY <1>0, <1>1, <1>9 DEF PublishTracer, RunDrand
<1>. QED  BY <1>2, <1>3, <1>4, <1>5, <1>6, <1>7, <1>8, <1>9 DEF Step

-----------------------------------------------------------------------------
(* Balances and preseals. *)

LEMMA NextBalances == TypeInv /\ BalancesInv /\ [Next]_vars => BalancesInv'
<1>. SUFFICES ASSUME TypeInv, BalancesInv, [Next]_vars PROVE BalancesInv'
  OBVIOUS
<1>0. /\ balances \in Seq(Funded) /\ Elements(balances) \subseteq Node /\ NoRepeats(balances)
      /\ \A n \in Elements(balances) : pc[n] \notin BeforeBalance
  BY Instances DEF TypeInv, Types, BalancesInv, Elements
<1>1. \A n \in Node : pc[n] \notin BeforeBalance => pc'[n] \notin BeforeBalance
  BY Forward DEF TypeInv
<1>2. CASE UNCHANGED balances
  BY <1>0, <1>1, <1>2 DEF BalancesInv
<1>3. ASSUME NEW n \in Node, PublishBalance(n), balances' = Append(balances, n) PROVE BalancesInv'
  <2>1. pc[n] = "balance" /\ n \in Funded
    BY <1>3 DEF PublishBalance, Goto, TypeInv, Roles
  <2>2. n \notin Elements(balances)
    BY <1>0, <2>1 DEF BeforeBalance
  <2>3. NoRepeats(balances') /\ Elements(balances') = Elements(balances) \cup {n}
    BY <1>0, <1>3, <2>1, <2>2, AppendNew
  <2>4. pc'[n] \notin BeforeBalance
    BY <1>3 DEF PublishBalance, Goto, AfterBalance, BeforeBalance, TypeInv, Types
  <2>. QED  BY <1>0, <1>1, <2>3, <2>4 DEF BalancesInv
<1>4. ASSUME NEW n \in Node, PublishBalance(n)
      PROVE  UNCHANGED balances \/ balances' = Append(balances, n)
  BY <1>4 DEF PublishBalance
<1>5. ASSUME NEW n \in Node, Step(n) \/ Fail(n) PROVE UNCHANGED balances \/ PublishBalance(n)
  BY <1>5, Frames
<1>6. UNCHANGED vars => UNCHANGED balances
  BY DEF vars, topics
<1>. QED  BY <1>2, <1>3, <1>4, <1>5, <1>6 DEF Next

LEMMA NextPicks == TypeInv /\ PicksInv /\ [Next]_vars => PicksInv'
<1>. SUFFICES ASSUME TypeInv, PicksInv, [Next]_vars PROVE PicksInv'
  OBVIOUS
<1>0. /\ pc \in [Node -> Place] /\ seq \in [Miner -> Nat] /\ picked \in Nat /\ Miner \subseteq Node
      /\ IsFiniteSet(Miner) /\ Numbered \in SUBSET Miner
  BY Instances DEF TypeInv, Types, Numbered, Funded
<1>1. \A n \in Node : pc[n] \notin BeforePick => pc'[n] \notin BeforePick
  BY Forward DEF TypeInv
<1>2. CASE UNCHANGED vars
  BY <1>2 DEF PicksInv, Numbered, vars
<1>3. ASSUME NEW n \in Node, Step(n) \/ Fail(n), UNCHANGED <<seq, picked>>, ~PickSeqNum(n)
      PROVE  PicksInv'
  <2>1. \A m \in Miner : pc'[m] \in {"pickWait", "preseal"} => pc[m] \in {"pickWait", "preseal"}
    BY <1>0, <1>3, Arrivals
  <2>2. Numbered' = Numbered
    BY <1>3 DEF Numbered
  <2>. QED  BY <1>0, <1>1, <1>3, <2>1, <2>2 DEF PicksInv
<1>4. ASSUME NEW n \in Miner, PickSeqNum(n) PROVE PicksInv'
  <2>1. /\ pc[n] = "pick" /\ pc' = [pc EXCEPT ![n] = "pickWait"]
        /\ picked' = picked + 1 /\ seq' = [seq EXCEPT ![n] = picked + 1]
    BY <1>4 DEF PickSeqNum, Goto
  <2>2. /\ pc'[n] = "pickWait" /\ seq'[n] = picked + 1
        /\ \A m \in Miner \ {n} : pc'[m] = pc[m] /\ seq'[m] = seq[m]
    BY <1>0, <2>1
  <2>3. seq[n] = 0
    BY <1>0, <2>1 DEF PicksInv, BeforePick
  <2>4. Numbered' = Numbered \cup {n} /\ n \notin Numbered
    BY <1>0, <2>2, <2>3 DEF Numbered
  <2>5. picked' = Cardinality(Numbered')
    BY <1>0, <2>1, <2>4, OneMore DEF PicksInv
  <2>6. \A m \in Miner : seq'[m] <= picked'
    BY <1>0, <2>1, <2>2 DEF PicksInv
  <2>7. \A l, m \in Miner : seq'[l] = seq'[m] /\ seq'[l] # 0 => l = m
    <3>1. \A m \in Miner \ {n} : seq'[m] # picked + 1
      BY <1>0, <2>2 DEF PicksInv
    <3>. QED  BY <2>2, <3>1 DEF PicksInv
  <2>8. "pickWait" \notin BeforePick
    BY DEF BeforePick, BeforeBalance
  <2>9. \A m \in Miner : /\ pc'[m] \in BeforePick => seq'[m] = 0
                         /\ pc'[m] \in {"pickWait", "preseal"} => seq'[m] # 0
    BY <1>0, <2>2, <2>8 DEF PicksInv
  <2>. QED  BY <2>5, <2>6, <2>7, <2>9 DEF PicksInv
<1>5. ASSUME NEW n \in Node, Step(n) \/ Fail(n) PROVE PicksInv'
  <2>1. CASE n \in Miner /\ PickSeqNum(n)
    BY <1>4, <2>1
  <2>2. CASE ~(n \in Miner /\ PickSeqNum(n)) /\ UNCHANGED <<seq, picked>>
    <3>1. ~PickSeqNum(n)
      <4>1. ASSUME PickSeqNum(n) PROVE picked' = picked + 1
        BY <4>1 DEF PickSeqNum
      <4>. QED  BY <1>0, <2>2, <4>1
    <3>. QED  BY <1>3, <1>5, <2>2, <3>1
  <2>. QED  BY <1>5, <2>1, <2>2, Frames
<1>. QED  BY <1>2, <1>5 DEF Next

\* Once a miner has a number it keeps it.
LEMMA NumbersStay ==
    ASSUME TypeInv, PicksInv, [Next]_vars, NEW m \in Miner, seq[m] # 0
    PROVE  seq'[m] = seq[m]
<1>1. ASSUME NEW n \in Miner, PickSeqNum(n) PROVE seq'[m] = seq[m]
  <2>1. pc[n] = "pick" /\ seq' = [seq EXCEPT ![n] = picked + 1]
    BY <1>1 DEF PickSeqNum, Goto
  <2>2. seq[n] = 0
    BY <2>1 DEF PicksInv, BeforePick
  <2>. QED  BY <2>1, <2>2 DEF TypeInv, Types
<1>2. ASSUME NEW n \in Node, Step(n) \/ Fail(n) PROVE seq'[m] = seq[m]
  BY <1>1, <1>2, Frames
<1>. QED  BY <1>2 DEF Next, vars

LEMMA NextPreseals == TypeInv /\ PicksInv /\ PresealsInv /\ [Next]_vars => PresealsInv'
<1>. SUFFICES ASSUME TypeInv, PicksInv, PresealsInv, [Next]_vars PROVE PresealsInv'
  OBVIOUS
<1>0. /\ preseals \in Seq(Preseal) /\ seq \in [Miner -> Nat] /\ pc \in [Node -> Place]
      /\ \A i \in DOMAIN preseals : preseals[i].miner \in Miner
      /\ Miner \subseteq Node
  BY Instances, FromMiner DEF TypeInv, Types
<1>1. \A m \in Miner : /\ pc[m] \notin BeforePreseal => pc'[m] \notin BeforePreseal
                       /\ seq[m] # 0 => seq'[m] = seq[m]
  BY <1>0, Forward, NumbersStay DEF TypeInv
<1>2. CASE UNCHANGED preseals
  BY <1>0, <1>1, <1>2 DEF PresealsInv
<1>3. ASSUME NEW n \in Miner, PublishPreseal(n),
             preseals' = Append(preseals, [miner |-> n, seqno |-> seq[n]])
      PROVE  PresealsInv'
  <2>1. pc[n] = "preseal" /\ pc'[n] = "genesis" /\ UNCHANGED seq
    BY <1>0, <1>3 DEF PublishPreseal, Goto
  <2>2. seq[n] # 0 /\ seq[n] \in Nat
    BY <1>0, <2>1 DEF PicksInv
  <2>3. \A i \in DOMAIN preseals : preseals[i].miner # n
    BY <2>1 DEF PresealsInv, BeforePreseal
  <2>. DEFINE q == [miner |-> n, seqno |-> seq[n]]
              k == Len(preseals) + 1
  <2>4. q.miner = n /\ q.seqno = seq[n]
    OBVIOUS
  <2>5. /\ DOMAIN preseals' = DOMAIN preseals \cup {k} /\ preseals'[k] = q
        /\ \A i \in DOMAIN preseals : preseals'[i] = preseals[i] /\ i # k
    <3>1. q \in Preseal
      BY <2>2 DEF Preseal
    <3>2. preseals' = Append(preseals, q)
      BY <1>3
    <3>. QED  BY <1>0, <3>1, <3>2
  <2>6. "genesis" \notin BeforePreseal
    BY DEF BeforePreseal, BeforePick, BeforeBalance
  <2>. HIDE DEF q, k
  <2>7. ASSUME NEW i \in DOMAIN preseals'
        PROVE  /\ preseals'[i].seqno = seq'[preseals'[i].miner] /\ preseals'[i].seqno # 0
               /\ pc'[preseals'[i].miner] \notin BeforePreseal
    <3>1. CASE i = k
      BY <2>1, <2>2, <2>4, <2>5, <2>6, <3>1
    <3>2. CASE i \in DOMAIN preseals
      BY <1>0, <1>1, <2>5, <3>2 DEF PresealsInv
    <3>. QED  BY <2>5, <3>1, <3>2
  <2>8. \A i, j \in DOMAIN preseals' : preseals'[i].miner = preseals'[j].miner => i = j
    BY <2>3, <2>4, <2>5 DEF PresealsInv
  <2>. QED  BY <2>7, <2>8 DEF PresealsInv
<1>4. ASSUME NEW n \in Node, PublishPreseal(n)
      PROVE  UNCHANGED preseals \/ preseals' = Append(preseals, [miner |-> n, seqno |-> seq[n]])
  BY <1>4 DEF PublishPreseal
<1>5. ASSUME NEW n \in Node, Step(n) \/ Fail(n)
      PROVE  UNCHANGED preseals \/ (n \in Miner /\ PublishPreseal(n))
  BY <1>5, Frames
<1>6. UNCHANGED vars => UNCHANGED preseals
  BY DEF vars, topics
<1>. QED  BY <1>0, <1>2, <1>3, <1>4, <1>5, <1>6 DEF Next

-----------------------------------------------------------------------------
(* The genesis block. *)

\* As many balances as there are miners and clients are the balances of all of them.
LEMMA AllBalances ==
    ASSUME TypeInv, BalancesInv, Len(balances) >= Cardinality(Funded)
    PROVE  AccountsComplete(SubSeq(balances, 1, Cardinality(Funded)))
<1>. DEFINE n == Cardinality(Funded)
            s == SubSeq(balances, 1, n)
<1>0. balances \in Seq(Funded) /\ n \in Nat /\ IsFiniteSet(Funded) /\ n <= Len(balances)
  BY Instances DEF TypeInv, Types
<1>1. s \in Seq(Funded) /\ Len(s) = n /\ DOMAIN s = 1 .. n /\ \A i \in 1 .. n : s[i] = balances[i]
  BY <1>0, FirstOnes
<1>2. NoRepeats(s)
  <2>1. 1 .. n \subseteq DOMAIN balances
    BY <1>0
  <2>. QED  BY <1>1, <2>1 DEF BalancesInv, NoRepeats
<1>. HIDE DEF s, n
<1>3. Elements(s) = Funded
  BY <1>0, <1>1, <1>2, AllListed DEF n
<1>. QED  BY <1>2, <1>3 DEF AccountsComplete, Range, IsInjective, NoRepeats, Elements, s, n

\* As many preseals as there are miners, sorted, are those of all miners, each in its place.
LEMMA AllPreseals ==
    ASSUME TypeInv, PicksInv, PresealsInv, Len(preseals) >= Cardinality(Miner),
           NEW t \in SortedBySeqno(SubSeq(preseals, 1, Cardinality(Miner)))
    PROVE  MinersComplete(t)
<1>. DEFINE n == Cardinality(Miner)
            s == SubSeq(preseals, 1, n)
<1>0. /\ preseals \in Seq(Preseal) /\ n \in Nat /\ IsFiniteSet(Miner) /\ n <= Len(preseals)
      /\ seq \in [Miner -> Nat]
  BY Instances DEF TypeInv, Types
<1>1. s \in Seq(Preseal) /\ DOMAIN s = 1 .. n /\ \A i \in 1 .. n : s[i] = preseals[i]
  BY <1>0, FirstOnes
<1>2. /\ \A i \in 1 .. n : s[i].miner \in Miner /\ s[i].seqno = seq[s[i].miner] /\ s[i].seqno # 0
      /\ \A i, j \in 1 .. n : s[i].miner = s[j].miner => i = j
  <2>1. 1 .. n \subseteq DOMAIN preseals /\ \A i \in DOMAIN preseals : preseals[i].miner \in Miner
    BY <1>0, FromMiner
  <2>. QED  BY <1>1, <2>1 DEF PresealsInv
<1>. HIDE DEF s, n
<1>3. {s[i].miner : i \in 1 .. n} = Miner
  <2>. DEFINE who == [i \in 1 .. n |-> s[i].miner]
  <2>1. who \in Seq(Miner) /\ Len(who) = n /\ NoRepeats(who)
    BY <1>0, <1>2 DEF NoRepeats
  <2>2. Elements(who) = Miner
    <3>. HIDE DEF who
    <3>. QED  BY <1>0, <2>1, AllListed DEF n
  <2>. QED  BY <2>2 DEF Elements
<1>4. t \in SortedBySeqno(s)
  BY DEF s, n
<1>5. /\ DOMAIN t = DOMAIN s
      /\ \A i, j \in DOMAIN s : i < j => t[i].seqno <= t[j].seqno
  BY <1>1, <1>4, SortPermutes
<1>5a. PICK p \in [DOMAIN s -> DOMAIN s] :
          /\ \A i, j \in DOMAIN s : p[i] = p[j] => i = j
          /\ \A k \in DOMAIN s : \E i \in DOMAIN s : p[i] = k
          /\ \A i \in DOMAIN s : p[i] \in DOMAIN s /\ t[i] = s[p[i]]
  BY <1>1, <1>4, SortPermutes
<1>6. \A i, j \in 1 .. n : t[i].miner = t[j].miner => i = j
  <2>1. ASSUME NEW i \in 1 .. n, NEW j \in 1 .. n, t[i].miner = t[j].miner PROVE i = j
    <3>1. p[i] \in 1 .. n /\ p[j] \in 1 .. n /\ s[p[i]].miner = s[p[j]].miner
      BY <1>1, <1>5a, <2>1
    <3>2. p[i] = p[j]
      BY <1>2, <3>1
    <3>. QED  BY <1>1, <1>5a, <3>2
  <2>. QED  BY <2>1
<1>7. {t[i].miner : i \in 1 .. n} = Miner
  <2>1. ASSUME NEW i \in 1 .. n PROVE t[i].miner \in Miner
    BY <1>1, <1>2, <1>5a
  <2>2. ASSUME NEW m \in Miner PROVE \E i \in 1 .. n : t[i].miner = m
    <3>1. PICK k \in 1 .. n : s[k].miner = m
      BY <1>3
    <3>2. PICK i \in 1 .. n : p[i] = k
      BY <1>1, <1>5a
    <3>. QED  BY <1>1, <1>5a, <3>1, <3>2
  <2>. QED  BY <2>1, <2>2
<1>8. \A i \in 1 .. n : t[i].miner \in Miner /\ t[i].seqno = seq[t[i].miner] /\ t[i].seqno # 0
  <2>. SUFFICES ASSUME NEW i \in 1 .. n
                PROVE  t[i].miner \in Miner /\ t[i].seqno = seq[t[i].miner] /\ t[i].seqno # 0
    OBVIOUS
  <2>1. p[i] \in 1 .. n /\ t[i] = s[p[i]]
    BY <1>1, <1>5a
  <2>. QED  BY <1>2, <2>1
<1>9. \A m \in Miner : seq[m] \in Nat /\ seq[m] <= n
  <2>1. picked <= n /\ picked \in Nat
    BY <1>0, CountBound DEF PicksInv, Numbered, n
  <2>. QED  BY <1>0, <2>1 DEF PicksInv
<1>. DEFINE f == [i \in 1 .. n |-> t[i].seqno]
<1>10. f \in [1 .. n -> 1 .. n]
  BY <1>0, <1>8, <1>9
<1>11. ASSUME NEW i \in 1 .. n, NEW j \in 1 .. n, i < j PROVE f[i] < f[j]
  <2>1. t[i].miner # t[j].miner
    BY <1>0, <1>6, <1>11
  <2>2. t[i].seqno # t[j].seqno
    BY <1>8, <2>1 DEF PicksInv
  <2>3. t[i].seqno <= t[j].seqno
    BY <1>1, <1>5, <1>11
  <2>. QED  BY <1>8, <1>9, <2>2, <2>3
<1>12. \A i \in 1 .. n : f[i] = i
  <2>. HIDE DEF f
  <2>. QED  BY <1>0, <1>10, <1>11, GrowingNumbers
<1>. QED  BY <1>1, <1>5, <1>7, <1>8, <1>12 DEF MinersComplete

\* What is complete stays complete: the miners in it keep their numbers.
LEMMA CompleteStays ==
    ASSUME TypeInv, PicksInv, [Next]_vars, NEW t \in Seq(Preseal), MinersComplete(t)
    PROVE  \A i \in DOMAIN t : seq'[t[i].miner] = i
<1>1. \A i \in DOMAIN t : t[i].miner \in Miner /\ seq[t[i].miner] = i /\ i # 0
  BY DEF MinersComplete, Preseal
<1>. QED  BY <1>1, NumbersStay

LEMMA NextGenesis ==
    TypeInv /\ BalancesInv /\ PicksInv /\ PresealsInv /\ GenesisInv /\ [Next]_vars => GenesisInv'
<1>. SUFFICES ASSUME TypeInv, BalancesInv, PicksInv, PresealsInv, GenesisInv, [Next]_vars
              PROVE  GenesisInv'
  OBVIOUS
<1>0. /\ template \in Template /\ genesis \in Seq(Template) /\ Bootstrapper \in Node
      /\ pc \in [Node -> Place]
  BY Instances DEF TypeInv, Types
<1>1. ASSUME NEW g \in Range(genesis)
      PROVE  AccountsComplete(g.accounts) /\ MinersComplete(g.miners)'
  <2>1. g \in Template /\ AccountsComplete(g.accounts) /\ MinersComplete(g.miners)
    BY <1>0 DEF GenesisInv, Range
  <2>2. g.miners \in Seq(Preseal)
    BY <2>1 DEF Template
  <2>3. \A i \in DOMAIN g.miners : seq'[g.miners[i].miner] = i
    BY <2>1, <2>2, CompleteStays
  <2>. QED  BY <2>1, <2>3 DEF MinersComplete
<1>2. CASE UNCHANGED vars
  <2>1. UNCHANGED <<pc, seq, template, genesis>>
    BY <1>2 DEF vars, topics
  <2>. QED  BY <2>1 DEF GenesisInv, MinersComplete
<1>. SUFFICES ASSUME NEW n \in Node, Step(n) \/ Fail(n) PROVE GenesisInv'
  BY <1>2 DEF Next
<1>3. CASE CollectBalances
  <2>1. /\ pc'[Bootstrapper] = "preseals" /\ genesis' = genesis
        /\ template' = [template EXCEPT !.accounts = SubSeq(balances, 1, Cardinality(Funded))]
        /\ Len(balances) >= Cardinality(Funded)
    BY <1>0, <1>3 DEF CollectBalances, Goto, topics
  <2>2. template'.accounts = SubSeq(balances, 1, Cardinality(Funded))
    BY <1>0, <2>1 DEF Template
  <2>3. AccountsComplete(template'.accounts)
    BY <2>1, <2>2, AllBalances
  <2>. QED  BY <1>1, <2>1, <2>3 DEF GenesisInv, AccountsComplete
<1>4. CASE CollectPreseals
  <2>1. /\ pc[Bootstrapper] = "preseals" /\ pc'[Bootstrapper] = "publish" /\ genesis' = genesis
        /\ seq' = seq /\ Len(preseals) >= Cardinality(Miner)
    BY <1>0, <1>4 DEF CollectPreseals, Goto, topics
  <2>2. PICK t \in SortedBySeqno(SubSeq(preseals, 1, Cardinality(Miner))) :
            template' = [template EXCEPT !.miners = t]
    BY <1>4 DEF CollectPreseals
  <2>3. template'.miners = t /\ template'.accounts = template.accounts
    BY <1>0, <2>2 DEF Template
  <2>4. MinersComplete(t)
    BY <2>1, AllPreseals
  <2>5. AccountsComplete(template'.accounts) /\ MinersComplete(template.miners)'
    BY <2>1, <2>3, <2>4 DEF GenesisInv, MinersComplete
  <2>. QED  BY <1>1, <2>1, <2>5 DEF GenesisInv, AccountsComplete
<1>5. CASE PublishGenesis
  <2>1. /\ pc[Bootstrapper] = "publish" /\ pc'[Bootstrapper] = "ready" /\ seq' = seq
        /\ genesis' = Append(genesis, template) /\ template' = template
    BY <1>0, <1>5 DEF PublishGenesis, Goto
  <2>2. Range(genesis') = Range(genesis) \cup {template}
    <3>1. /\ DOMAIN genesis' = DOMAIN genesis \cup {Len(genesis) + 1}
          /\ genesis'[Len(genesis) + 1] = template
          /\ \A i \in DOMAIN genesis : genesis'[i] = genesis[i]
      BY <1>0, <2>1
    <3>. QED  BY <3>1 DEF Range
  <2>3. AccountsComplete(template.accounts) /\ MinersComplete(template.miners)'
    BY <2>1 DEF GenesisInv, MinersComplete
  <2>. QED  BY <1>1, <2>1, <2>2, <2>3 DEF GenesisInv, AccountsComplete, MinersComplete
<1>6. CASE ~CollectBalances /\ ~CollectPreseals /\ ~PublishGenesis
  <2>1. genesis' = genesis /\ template' = template
    BY <1>6, Frames
  <2>2. /\ pc'[Bootstrapper] = "preseals" => pc[Bootstrapper] = "preseals"
        /\ pc'[Bootstrapper] = "publish" => pc[Bootstrapper] = "publish"
    BY <1>0, <1>6, Arrivals
  <2>3. pc[Bootstrapper] = "publish" => MinersComplete(template.miners)'
    <3>1. template.miners \in Seq(Preseal)
      BY <1>0 DEF Template
    <3>2. ASSUME MinersComplete(template.miners) PROVE MinersComplete(template.miners)'
      <4>1. \A i \in DOMAIN template.miners : seq'[template.miners[i].miner] = i
        BY <3>1, <3>2, CompleteStays
      <4>. QED  BY <2>1, <3>2, <4>1 DEF MinersComplete
    <3>. QED  BY <3>2 DEF GenesisInv
  <2>. QED  BY <1>1, <2>1, <2>2, <2>3 DEF GenesisInv, AccountsComplete, MinersComplete
<1>. QED  BY <1>3, <1>4, <1>5, <1>6

-----------------------------------------------------------------------------
(* The mesh. *)

\* Addresses and connections only get more.
LEMMA MeshGrows ==
    ASSUME TypeInv, [Next]_vars
    PROVE  /\ conns \subseteq conns'
           /\ DOMAIN minerAddrs \subseteq DOMAIN minerAddrs' /\ Len(minerAddrs) <= Len(minerAddrs')
           /\ \A i \in DOMAIN minerAddrs : minerAddrs'[i] = minerAddrs[i]
           /\ \A m, x \in Miner : <<m, x>> \in conns' =>
                  <<m, x>> \in conns \/ ConnectMiner(m)
<1>0. minerAddrs \in Seq(Miner)
  BY DEF TypeInv, Types
<1>1. ASSUME NEW n \in Node, Step(n) \/ Fail(n)
      PROVE  UNCHANGED minerAddrs \/ (n \in Miner /\ minerAddrs' = Append(minerAddrs, n))
  BY <1>1, Frames DEF PublishMinerAddr
<1>2. UNCHANGED minerAddrs \/ \E n \in Miner : minerAddrs' = Append(minerAddrs, n)
  BY <1>1 DEF Next, vars, topics
<1>3. /\ DOMAIN minerAddrs \subseteq DOMAIN minerAddrs' /\ Len(minerAddrs) <= Len(minerAddrs')
      /\ \A i \in DOMAIN minerAddrs : minerAddrs'[i] = minerAddrs[i]
  BY <1>0, <1>2
<1>4. ASSUME NEW n \in Node, Step(n) \/ Fail(n)
      PROVE  /\ conns \subseteq conns'
             /\ \A m, x \in Miner : <<m, x>> \in conns' => <<m, x>> \in conns \/ ConnectMiner(m)
  <2>1. CASE n \in Miner /\ ConnectMiner(n)
    <3>1. \/ UNCHANGED conns
          \/ conns' = conns \cup {<<n, minerAddrs[next[n] + 1]>>}
      BY <2>1 DEF ConnectMiner
    <3>. QED  BY <2>1, <3>1
  <2>2. CASE n \in Client /\ ConnectClient(n)
    <3>1. conns' = conns \cup {<<n, minerAddrs[i]>> : i \in 1 .. Cardinality(Miner)}
      BY <2>2 DEF ConnectClient
    <3>2. n \notin Miner
      BY <2>2, RolesAssumption DEF RolesAssumption
    <3>. QED  BY <3>1, <3>2
  <2>3. CASE UNCHANGED conns
    BY <2>3
  <2>. QED  BY <1>4, <2>1, <2>2, <2>3, Frames
<1>. QED  BY <1>3, <1>4 DEF Next, vars

LEMMA MeshedStays ==
    ASSUME TypeInv, [Next]_vars, NEW m, Meshed(m)
    PROVE  Meshed(m)'
<1>1. PICK k \in DOMAIN minerAddrs :
          minerAddrs[k] = m /\ \A i \in 1 .. k - 1 : <<m, minerAddrs[i]>> \in conns
  BY DEF Meshed
<1>2. minerAddrs \in Seq(Miner) /\ 1 .. k - 1 \subseteq DOMAIN minerAddrs
  BY DEF TypeInv, Types
<1>3. k \in DOMAIN minerAddrs' /\ minerAddrs'[k] = m
  BY <1>1, MeshGrows
<1>4. \A i \in 1 .. k - 1 : <<m, minerAddrs'[i]>> \in conns'
  BY <1>1, <1>2, MeshGrows
<1>. QED  BY <1>3, <1>4 DEF Meshed

\* The topic has no more addresses than there are miners.
LEMMA FewAddresses ==
    ASSUME TypeInv, NoRepeats(minerAddrs)
    PROVE  Len(minerAddrs) <= Cardinality(Miner)
<1>1. minerAddrs \in Seq(Miner) /\ DOMAIN minerAddrs = 1 .. Len(minerAddrs) /\ Len(minerAddrs) \in Nat
  BY DEF TypeInv, Types
<1>2. Elements(minerAddrs) \in SUBSET Miner
  BY <1>1 DEF Elements
<1>3. Cardinality(Elements(minerAddrs)) = Len(minerAddrs)
  BY <1>1, LengthCounts
<1>. QED  BY <1>2, <1>3, Instances, CountBound

\* m's address is found behind the ones it has been through: it never runs out of addresses.
LEMMA OwnAddressAhead ==
    ASSUME TypeInv, MeshInv, NEW m \in Miner, pc[m] = "mesh"
    PROVE  \E j \in DOMAIN minerAddrs : j > next[m] /\ minerAddrs[j] = m
<1>1. /\ minerAddrs \in Seq(Miner) /\ next[m] \in Nat
      /\ \A i \in 1 .. next[m] : minerAddrs[i] # m
  BY DEF TypeInv, Types, MeshInv
<1>2. PICK j \in DOMAIN minerAddrs : minerAddrs[j] = m
  BY DEF MeshInv, Elements
<1>. QED  BY <1>1, <1>2

\* A turn of the loop over the addresses.
LEMMA ConnectMesh ==
    ASSUME TypeInv, MeshInv, NEW n \in Miner, ConnectMiner(n)
    PROVE  MeshInv'
<1>0. /\ pc \in [Node -> Place] /\ next \in [Miner -> Nat] /\ minerAddrs \in Seq(Miner)
      /\ DOMAIN minerAddrs = 1 .. Len(minerAddrs) /\ Len(minerAddrs) \in Nat
      /\ conns \in SUBSET (Funded \X Miner) /\ n \in Node /\ Miner \subseteq Node
      /\ Cardinality(Miner) \in Nat
  BY Instances DEF TypeInv, Types
<1>1. /\ pc[n] = "mesh" /\ next[n] < Len(minerAddrs) /\ next[n] \in Nat /\ minerAddrs' = minerAddrs
      /\ \A i \in 1 .. next[n] : minerAddrs[i] # n /\ <<n, minerAddrs[i]>> \in conns
      /\ n \in Elements(minerAddrs)
  BY <1>0 DEF ConnectMiner, topics, MeshInv
<1>. DEFINE x == next[n] + 1
            other == minerAddrs[x]
<1>2. x \in DOMAIN minerAddrs /\ other \in Miner
  BY <1>0, <1>1
<1>3. \/ /\ other = n /\ pc' = [pc EXCEPT ![n] = "ready"] /\ UNCHANGED <<next, conns>>
      \/ /\ other # n /\ conns' = conns \cup {<<n, other>>} /\ next' = [next EXCEPT ![n] = x]
         /\ pc' = [pc EXCEPT ![n] = IF x < Cardinality(Miner) THEN "mesh" ELSE "ready"]
  BY <1>0, <1>1 DEF ConnectMiner
<1>. HIDE DEF x, other
<1>4. pc'[n] \in {"mesh", "ready"} /\ \A m \in Miner \ {n} : pc'[m] = pc[m] /\ next'[m] = next[m]
  BY <1>0, <1>3
<1>5. conns \subseteq conns'
  BY <1>3
<1>6. "mesh" \notin BeforeMesh /\ "ready" \notin BeforeMesh
  BY DEF BeforeMesh, BeforePreseal, BeforePick, BeforeBalance
<1>7. \A m \in Miner \ {n} : Meshed(m) => Meshed(m)'
  BY <1>1, <1>5 DEF Meshed
<1>8. /\ NoRepeats(minerAddrs)'
      /\ \A m \in Elements(minerAddrs)' : pc'[m] \notin BeforeMesh
      /\ \A m \in Miner : pc'[m] \in BeforeMesh => next'[m] = 0
  <2>1. Elements(minerAddrs)' = Elements(minerAddrs) /\ Elements(minerAddrs) \subseteq Miner
    BY <1>0, <1>1 DEF Elements
  <2>2. NoRepeats(minerAddrs)'
    BY <1>1 DEF MeshInv, NoRepeats
  <2>. QED  BY <1>4, <1>6, <2>1, <2>2 DEF MeshInv
<1>9. CASE other = n
  <2>1. pc'[n] = "ready" /\ UNCHANGED <<next, conns>>
    BY <1>0, <1>3, <1>9
  <2>2. Meshed(n)'
    <3>1. \A i \in 1 .. x - 1 : <<n, minerAddrs[i]>> \in conns
      BY <1>1 DEF x
    <3>. QED  BY <1>1, <1>2, <1>9, <2>1, <3>1 DEF Meshed, other
  <2>3. \A m \in Miner : next'[m] <= Len(minerAddrs')
    BY <1>1, <2>1 DEF MeshInv
  <2>4. \A m \in Miner : pc'[m] = "mesh" =>
            /\ m \in Elements(minerAddrs)'
            /\ \A i \in 1 .. next'[m] : minerAddrs'[i] # m /\ <<m, minerAddrs'[i]>> \in conns'
    BY <1>1, <1>4, <2>1 DEF MeshInv, Elements
  <2>5. \A m \in Miner : pc'[m] \in {"ready", "readyWait", "prepared"} => Meshed(m)'
    BY <1>4, <1>7, <2>2 DEF MeshInv
  <2>6. \A l, m \in Miner : <<l, m>> \in conns' =>
            \E i, j \in DOMAIN minerAddrs' : i < j /\ minerAddrs'[i] = m /\ minerAddrs'[j] = l
    BY <1>1, <2>1 DEF MeshInv
  <2>. QED  BY <1>8, <2>3, <2>4, <2>5, <2>6 DEF MeshInv
<1>10. CASE other # n
  <2>1. /\ conns' = conns \cup {<<n, other>>} /\ next'[n] = x
        /\ pc'[n] = IF x < Cardinality(Miner) THEN "mesh" ELSE "ready"
    BY <1>0, <1>3, <1>10
  <2>2. PICK j \in DOMAIN minerAddrs : j > next[n] /\ minerAddrs[j] = n
    BY <1>1, OwnAddressAhead
  <2>3. j > x /\ j <= Len(minerAddrs)
    BY <1>0, <1>1, <1>10, <2>2 DEF x, other
  <2>4. x < Cardinality(Miner)
    <3>1. Len(minerAddrs) <= Cardinality(Miner)
      BY FewAddresses DEF MeshInv
    <3>. QED  BY <1>0, <1>1, <2>3, <3>1 DEF x
  <2>5. pc'[n] = "mesh"
    BY <2>1, <2>4
  <2>6. \A m \in Miner : next'[m] <= Len(minerAddrs')
    BY <1>1, <1>2, <1>4, <2>1 DEF MeshInv, x
  <2>7. \A i \in 1 .. x : minerAddrs[i] # n /\ <<n, minerAddrs[i]>> \in conns'
    <3>1. \A i \in 1 .. x : i \in 1 .. next[n] \/ i = x
      BY <1>1 DEF x
    <3>. QED  BY <1>1, <1>5, <1>10, <2>1, <3>1 DEF other
  <2>8. \A m \in Miner : pc'[m] = "mesh" =>
            /\ m \in Elements(minerAddrs)'
            /\ \A i \in 1 .. next'[m] : minerAddrs'[i] # m /\ <<m, minerAddrs'[i]>> \in conns'
    <3>1. Elements(minerAddrs)' = Elements(minerAddrs)
      BY <1>1 DEF Elements
    <3>. QED  BY <1>1, <1>4, <1>5, <2>1, <2>7, <3>1 DEF MeshInv
  <2>9. \A m \in Miner : pc'[m] \in {"ready", "readyWait", "prepared"} => Meshed(m)'
    BY <1>4, <1>7, <2>5 DEF MeshInv
  <2>10. ASSUME NEW l \in Miner, NEW m \in Miner, <<l, m>> \in conns'
         PROVE  \E i, k \in DOMAIN minerAddrs' : i < k /\ minerAddrs'[i] = m /\ minerAddrs'[k] = l
    <3>1. CASE <<l, m>> \in conns
      BY <1>1, <3>1 DEF MeshInv
    <3>2. CASE l = n /\ m = other
      BY <1>1, <1>2, <2>2, <2>3, <3>2 DEF other
    <3>. QED  BY <2>1, <2>10, <3>1, <3>2
  <2>. QED  BY <1>8, <2>6, <2>8, <2>9, <2>10 DEF MeshInv
<1>. QED  BY <1>9, <1>10

LEMMA NextMesh == TypeInv /\ MeshInv /\ [Next]_vars => MeshInv'
<1>. SUFFICES ASSUME TypeInv, MeshInv, [Next]_vars PROVE MeshInv'
  OBVIOUS
<1>0. /\ pc \in [Node -> Place] /\ next \in [Miner -> Nat] /\ minerAddrs \in Seq(Miner)
      /\ DOMAIN minerAddrs = 1 .. Len(minerAddrs) /\ Len(minerAddrs) \in Nat
      /\ Elements(minerAddrs) \subseteq Miner /\ Miner \subseteq Node
  BY Instances DEF TypeInv, Types, Elements
<1>1. \A n \in Node : pc[n] \notin BeforeMesh => pc'[n] \notin BeforeMesh
  BY Forward DEF TypeInv
<1>2. /\ conns \subseteq conns' /\ DOMAIN minerAddrs \subseteq DOMAIN minerAddrs'
      /\ \A i \in DOMAIN minerAddrs : minerAddrs'[i] = minerAddrs[i]
      /\ Len(minerAddrs) <= Len(minerAddrs')
      /\ \A m \in Miner : Meshed(m) => Meshed(m)'
  BY MeshGrows, MeshedStays
<1>3. CASE \E n \in Miner : ConnectMiner(n)
  BY <1>3, ConnectMesh
<1>4. CASE ~(\E n \in Miner : ConnectMiner(n))
  <2>1. UNCHANGED next /\ \A m, x \in Miner : <<m, x>> \in conns' => <<m, x>> \in conns
    <3>1. ASSUME NEW n \in Node, Step(n) \/ Fail(n) PROVE UNCHANGED next
      BY <1>4, <3>1, Frames
    <3>. QED  BY <1>4, <3>1, MeshGrows DEF Next, vars
  <2>2. /\ NoRepeats(minerAddrs')
        /\ \A m \in Elements(minerAddrs') : pc'[m] \notin BeforeMesh
        /\ Elements(minerAddrs) \subseteq Elements(minerAddrs')
    <3>1. CASE UNCHANGED minerAddrs
      BY <1>0, <1>1, <3>1 DEF MeshInv
    <3>2. ASSUME NEW n \in Miner, PublishMinerAddr(n)
          PROVE  <2>2
      <4>1. pc[n] = "node" /\ pc'[n] = "mesh" /\ minerAddrs' = Append(minerAddrs, n)
        BY <1>0, <3>2 DEF PublishMinerAddr, Goto
      <4>2. n \notin Elements(minerAddrs)
        BY <4>1 DEF MeshInv, BeforeMesh
      <4>3. NoRepeats(minerAddrs') /\ Elements(minerAddrs') = Elements(minerAddrs) \cup {n}
        BY <1>0, <4>1, <4>2, AppendNew DEF MeshInv
      <4>4. "mesh" \notin BeforeMesh
        BY DEF BeforeMesh, BeforePreseal, BeforePick, BeforeBalance
      <4>. QED  BY <1>0, <1>1, <4>1, <4>3, <4>4 DEF MeshInv
    <3>3. ASSUME NEW n \in Node, Step(n) \/ Fail(n)
          PROVE  UNCHANGED minerAddrs \/ (n \in Miner /\ PublishMinerAddr(n))
      BY <3>3, Frames
    <3>. QED  BY <3>1, <3>2, <3>3 DEF Next, vars, topics
  <2>3. \A m \in Miner : pc'[m] \in BeforeMesh => next'[m] = 0
    BY <1>0, <1>1, <2>1 DEF MeshInv
  <2>4. \A m \in Miner : next'[m] <= Len(minerAddrs')
    <3>1. Len(minerAddrs') \in Nat
      BY NextType DEF TypeInv, Types
    <3>. QED  BY <1>0, <1>2, <2>1, <3>1 DEF MeshInv
  <2>5. ASSUME NEW m \in Miner, pc'[m] = "mesh"
        PROVE  /\ m \in Elements(minerAddrs')
               /\ \A i \in 1 .. next'[m] : minerAddrs'[i] # m /\ <<m, minerAddrs'[i]>> \in conns'
    <3>1. CASE pc[m] = "mesh"
      <4>1. 1 .. next[m] \subseteq DOMAIN minerAddrs
        BY <1>0 DEF MeshInv
      <4>. QED  BY <1>2, <2>1, <2>2, <3>1, <4>1 DEF MeshInv
    <3>2. CASE PublishMinerAddr(m)
      <4>1. pc[m] = "node" /\ minerAddrs' = Append(minerAddrs, m)
        BY <3>2 DEF PublishMinerAddr, Goto
      <4>2. next'[m] = 0
        BY <2>1, <4>1 DEF MeshInv, BeforeMesh
      <4>3. minerAddrs'[Len(minerAddrs) + 1] = m /\ Len(minerAddrs) + 1 \in DOMAIN minerAddrs'
        BY <1>0, <4>1
      <4>. QED  BY <4>2, <4>3 DEF Elements
    <3>3. ASSUME NEW n \in Node, Step(n) \/ Fail(n)
          PROVE  pc[m] = "mesh" \/ PublishMinerAddr(m)
      BY <1>0, <2>5, <3>3, Arrivals
    <3>. QED  BY <2>5, <3>1, <3>2, <3>3 DEF Next, vars
  <2>6. ASSUME NEW m \in Miner, pc'[m] \in {"ready", "readyWait", "prepared"} PROVE Meshed(m)'
    <3>1. ASSUME NEW n \in Node, Step(n) \/ Fail(n)
          PROVE  pc[m] \in {"ready", "readyWait", "prepared"}
      BY <1>0, <1>4, <2>6, <3>1, Arrivals
    <3>2. pc[m] \in {"ready", "readyWait", "prepared"}
      BY <2>6, <3>1 DEF Next, vars
    <3>. QED  BY <1>2, <3>2 DEF MeshInv
  <2>7. \A l, m \in Miner : <<l, m>> \in conns' =>
            \E i, j \in DOMAIN minerAddrs' : i < j /\ minerAddrs'[i] = m /\ minerAddrs'[j] = l
    BY <1>2, <2>1 DEF MeshInv
  <2>. QED  BY <2>2, <2>3, <2>4, <2>5, <2>6, <2>7 DEF MeshInv
<1>. QED  BY <1>3, <1>4

-----------------------------------------------------------------------------
(* The barrier "ready". *)

\* Who may have signalled stays so.
LEMMA ReadyStays ==
    ASSUME TypeInv, [Next]_vars
    PROVE  /\ MayBeReady \subseteq MayBeReady' /\ IsFiniteSet(MayBeReady')
           /\ Cardinality(MayBeReady) <= Cardinality(MayBeReady')
           /\ Cardinality(MayBeReady) \in Nat /\ Cardinality(MayBeReady') \in Nat
<1>1. ASSUME NEW n \in MayBeReady PROVE n \in MayBeReady'
  <2>1. /\ n \in Node /\ pc[n] \in {"readyWait", "collect", "prepared", "failed"}
        /\ n \in Miner => Meshed(n)'
    BY MeshedStays DEF MayBeReady
  <2>2. ASSUME NEW k \in Node, Step(k) \/ Fail(k)
        PROVE  pc'[n] \in {"readyWait", "collect", "prepared", "failed"}
    BY <2>1, <2>2, Arrivals
  <2>3. pc'[n] \in {"readyWait", "collect", "prepared", "failed"}
    BY <2>1, <2>2 DEF Next, vars
  <2>. QED  BY <2>1, <2>3 DEF MayBeReady
<1>2. MayBeReady' \in SUBSET Node
  BY DEF MayBeReady
<1>3. IsFiniteSet(MayBeReady')
  BY <1>2, Instances, FS_Subset
<1>. QED  BY <1>1, <1>3, FS_Subset, FS_CardinalityType

\* All addresses are there when there are as many as miners.
LEMMA AllAddresses ==
    ASSUME TypeInv, NoRepeats(minerAddrs), Len(minerAddrs) >= Cardinality(Miner)
    PROVE  \A m \in Miner : \E i \in 1 .. Cardinality(Miner) : minerAddrs[i] = m
<1>1. minerAddrs \in Seq(Miner) /\ DOMAIN minerAddrs = 1 .. Len(minerAddrs) /\ Len(minerAddrs) \in Nat
  BY DEF TypeInv, Types
<1>2. Elements(minerAddrs) = Miner
  BY <1>1, Instances, AllListed
<1>3. DOMAIN minerAddrs = 1 .. Cardinality(Miner)
  BY <1>1, Instances, FewAddresses
<1>. QED  BY <1>2, <1>3 DEF Elements

LEMMA NextReady == TypeInv /\ MeshInv /\ ReadyInv /\ [Next]_vars => ReadyInv'
<1>. SUFFICES ASSUME TypeInv, MeshInv, ReadyInv, [Next]_vars PROVE ReadyInv'
  OBVIOUS
<1>0. /\ pc \in [Node -> Place] /\ ready \in Nat /\ Client \subseteq Node /\ Miner \subseteq Node
      /\ Client \cap Miner = {} /\ TestInstanceCount \in Nat
  BY Instances, RolesAssumption DEF TypeInv, Types, RolesAssumption, TestInstanceCount
<1>1. ready' <= Cardinality(MayBeReady') /\ ready' >= ready /\ ready' \in Nat
  <2>1. CASE UNCHANGED ready
    BY <1>0, <2>1, ReadyStays DEF ReadyInv
  <2>2. ASSUME NEW n \in Node, SignalReady(n)
        PROVE  <1>1
    <3>1. /\ pc[n] = "ready" /\ pc'[n] = "readyWait" /\ ready' = ready + 1
          /\ UNCHANGED <<minerAddrs, conns>>
      BY <1>0, <2>2 DEF SignalReady, Goto, topics
    <3>2. n \in Miner => Meshed(n)'
      BY <3>1 DEF MeshInv, Meshed
    <3>3. n \notin MayBeReady /\ MayBeReady \cup {n} \in SUBSET MayBeReady'
      BY <3>1, <3>2, ReadyStays DEF MayBeReady
    <3>4. IsFiniteSet(MayBeReady)
      BY ReadyStays, FS_Subset
    <3>5. Cardinality(MayBeReady \cup {n}) = Cardinality(MayBeReady) + 1
      BY <3>3, <3>4, FS_AddElement
    <3>6. Cardinality(MayBeReady \cup {n}) <= Cardinality(MayBeReady')
      BY <3>3, ReadyStays, FS_Subset
    <3>. QED  BY <1>0, <3>1, <3>5, <3>6, ReadyStays DEF ReadyInv
  <2>3. ASSUME NEW n \in Node, Step(n) \/ Fail(n) PROVE UNCHANGED ready \/ SignalReady(n)
    BY <2>3, Frames
  <2>. QED  BY <2>1, <2>2, <2>3 DEF Next, vars
<1>2. ASSUME NEW n \in Node, pc'[n] \in {"collect", "prepared"} PROVE ready' >= TestInstanceCount
  <2>1. ASSUME NEW k \in Node, Step(k) \/ Fail(k)
        PROVE  pc[n] \in {"collect", "prepared"} \/ PassReady(k)
    BY <1>2, <2>1, Arrivals
  <2>2. pc[n] \in {"collect", "prepared"} \/ \E k \in Node : PassReady(k)
    BY <1>2, <2>1 DEF Next, vars
  <2>3. ready >= TestInstanceCount
    BY <2>2 DEF ReadyInv, PassReady
  <2>. QED  BY <1>0, <1>1, <2>3
<1>3. ASSUME NEW c \in Client, pc'[c] = "prepared" PROVE \A m \in Miner : <<c, m>> \in conns'
  <2>1. CASE pc[c] = "prepared"
    BY <2>1, MeshGrows DEF ReadyInv
  <2>2. CASE ConnectClient(c)
    <3>1. /\ Len(minerAddrs) >= Cardinality(Miner)
          /\ conns' = conns \cup {<<c, minerAddrs[i]>> : i \in 1 .. Cardinality(Miner)}
      BY <2>2 DEF ConnectClient
    <3>2. \A m \in Miner : \E i \in 1 .. Cardinality(Miner) : minerAddrs[i] = m
      BY <3>1, AllAddresses DEF MeshInv
    <3>. QED  BY <3>1, <3>2
  <2>3. ASSUME NEW k \in Node, Step(k) \/ Fail(k) PROVE pc[c] = "prepared" \/ ConnectClient(c)
    BY <1>0, <1>3, <2>3, Arrivals
  <2>. QED  BY <1>3, <2>1, <2>2, <2>3 DEF Next, vars
<1>. QED  BY <1>1, <1>2, <1>3 DEF ReadyInv

\* When the barrier is open for anybody, every instance has come through to it, every miner
\* with its part of the mesh.
LEMMA OpenBarrier ==
    ASSUME TypeInv, ReadyInv, NEW n \in Node, pc[n] \in {"collect", "prepared"}
    PROVE  \A m \in Miner : Meshed(m)
<1>1. ready >= Cardinality(Node) /\ ready <= Cardinality(MayBeReady) /\ ready \in Nat
  BY DEF ReadyInv, TestInstanceCount, TypeInv, Types
<1>2. MayBeReady \in SUBSET Node
  BY DEF MayBeReady
<1>3. Cardinality(MayBeReady) \in Nat
  BY <1>2, Instances, FS_Subset, FS_CardinalityType
<1>4. MayBeReady = Node
  BY <1>1, <1>2, <1>3, Instances, FullCount
<1>. QED  BY <1>4, Instances DEF MayBeReady

-----------------------------------------------------------------------------
(* Theorems. *)

LEMMA InitRest == Init => BalancesInv /\ PicksInv /\ PresealsInv /\ GenesisInv /\ MeshInv /\ ReadyInv
<1>. SUFFICES ASSUME Init
              PROVE  BalancesInv /\ PicksInv /\ PresealsInv /\ GenesisInv /\ MeshInv /\ ReadyInv
  OBVIOUS
<1>1. /\ balances = <<>> /\ preseals = <<>> /\ minerAddrs = <<>> /\ genesis = <<>>
      /\ picked = 0 /\ ready = 0 /\ conns = {}
      /\ \A m \in Miner : seq[m] = 0 /\ next[m] = 0
  BY DEF Init
<1>2. \A n \in Node : pc[n] \in {"publishTracer", "dkg", "tracer"}
  BY DEF Init, FirstStep
<1>3. Cardinality({}) = 0
  BY FS_EmptySet
<1>4. BalancesInv
  BY <1>1 DEF BalancesInv, NoRepeats, Elements
<1>5. PicksInv
  <2>1. Numbered = {}
    BY <1>1 DEF Numbered
  <2>. QED  BY <1>1, <1>2, <1>3, <2>1, Instances DEF PicksInv
<1>6. PresealsInv
  BY <1>1 DEF PresealsInv
<1>7. GenesisInv
  BY <1>1, <1>2, Instances DEF GenesisInv, Range
<1>8. MeshInv
  <2>1. \A m \in Miner : pc[m] \in {"publishTracer", "dkg", "tracer"}
    BY <1>2, Instances
  <2>. QED  BY <1>1, <2>1 DEF MeshInv, NoRepeats, Elements
<1>9. ReadyInv
  <2>1. MayBeReady = {}
    BY <1>2 DEF MayBeReady
  <2>. QED  BY <1>1, <1>2, <1>3, <2>1, Instances DEF ReadyInv
<1>. QED  BY <1>4, <1>5, <1>6, <1>7, <1>8, <1>9

\* The inductive invariant: what every topic, counter and connection says about how far the
\* instances are.
THEOREM Inductive == Spec => []IInv
<1>1. Init => IInv
  BY InitType, InitRest DEF IInv
<1>2. IInv /\ [Next]_vars => IInv'
  BY NextType, NextBalances, NextPicks, NextPreseals, NextGenesis, NextMesh, NextReady DEF IInv
<1>. QED  BY <1>1, <1>2, PTL DEF Spec

\* The types and the bounds of the counters.
LEMMA TypesHold == ASSUME IInv PROVE TypeOK
<1>1. Types
  BY DEF IInv, TypeInv
<1>2. picked \in 0 .. Cardinality(Miner)
  <2>1. Cardinality(Numbered) \in 0 .. Cardinality(Miner)
    BY Instances, CountBound DEF Numbered
  <2>. QED  BY <2>1 DEF IInv, PicksInv
<1>3. seq \in [Miner -> 0 .. Cardinality(Miner)]
  <2>1. \A m \in Miner : seq[m] \in 0 .. Cardinality(Miner)
    BY <1>1, <1>2, Instances DEF IInv, PicksInv, Types
  <2>. QED  BY <1>1, <2>1 DEF Types
<1>4. next \in [Miner -> 0 .. Cardinality(Miner)]
  <2>1. Len(minerAddrs) <= Cardinality(Miner) /\ Len(minerAddrs) \in Nat
    BY <1>1, FewAddresses DEF IInv, MeshInv, Types
  <2>2. \A m \in Miner : next[m] \in 0 .. Cardinality(Miner)
    BY <1>1, <2>1, Instances DEF IInv, MeshInv, Types
  <2>. QED  BY <1>1, <2>2 DEF Types
<1>5. ready \in 0 .. TestInstanceCount
  <2>1. Cardinality(MayBeReady) \in 0 .. Cardinality(Node)
    BY Instances, CountBound DEF MayBeReady
  <2>. QED  BY <1>1, <2>1, Instances DEF IInv, ReadyInv, Types, TestInstanceCount
<1>. QED  BY <1>1, <1>2, <1>3, <1>4, <1>5 DEF Types, TypeOK, Place, Template, Preseal

\* With any number of miners and clients, in whatever order their messages come in, and
\* whoever fails: a genesis block has every account once and every miner in its place.
THEOREM GenesisCompleteHolds == Spec => []GenesisComplete
<1>1. IInv => GenesisComplete
  BY TypesHold DEF IInv, GenesisInv, GenesisComplete, AccountsComplete, MinersComplete
<1>. QED  BY <1>1, Inductive, PTL

\* With any number of miners: no two dial each other both, all are connected when anybody is
\* past "ready", and a client that is prepared is connected to each.
THEOREM DenselyConnectedHolds == Spec => []DenselyConnected
<1>1. IInv => DenselyConnected
  <2>. SUFFICES ASSUME IInv PROVE DenselyConnected
    OBVIOUS
  <2>1. /\ minerAddrs \in Seq(Miner) /\ DOMAIN minerAddrs = 1 .. Len(minerAddrs)
        /\ Len(minerAddrs) \in Nat /\ TypeInv /\ MeshInv /\ ReadyInv
    BY DEF IInv, TypeInv, Types
  <2>2. ASSUME NEW m \in Miner, NEW n \in Miner, m # n, <<m, n>> \in conns, <<n, m>> \in conns
        PROVE  FALSE
    <3>1. PICK i, j \in DOMAIN minerAddrs : i < j /\ minerAddrs[i] = n /\ minerAddrs[j] = m
      BY <2>1, <2>2 DEF MeshInv
    <3>2. PICK k, l \in DOMAIN minerAddrs : k < l /\ minerAddrs[k] = m /\ minerAddrs[l] = n
      BY <2>1, <2>2 DEF MeshInv
    <3>3. i = l /\ j = k
      BY <2>1, <3>1, <3>2 DEF MeshInv, NoRepeats
    <3>. QED  BY <2>1, <3>1, <3>2, <3>3
  <2>3. ASSUME NEW k \in Node, pc[k] \in {"collect", "prepared"},
               NEW m \in Miner, NEW n \in Miner, m # n
        PROVE  <<m, n>> \in conns \/ <<n, m>> \in conns
    <3>1. Meshed(m) /\ Meshed(n)
      BY <2>1, <2>3, OpenBarrier
    <3>2. PICK i \in DOMAIN minerAddrs :
              minerAddrs[i] = m /\ \A x \in 1 .. i - 1 : <<m, minerAddrs[x]>> \in conns
      BY <3>1 DEF Meshed
    <3>3. PICK j \in DOMAIN minerAddrs :
              minerAddrs[j] = n /\ \A x \in 1 .. j - 1 : <<n, minerAddrs[x]>> \in conns
      BY <3>1 DEF Meshed
    <3>4. i \in 1 .. j - 1 \/ j \in 1 .. i - 1
      BY <2>1, <2>3, <3>2, <3>3
    <3>. QED  BY <3>2, <3>3, <3>4
  <2>. QED  BY <2>1, <2>2, <2>3 DEF DenselyConnected, ReadyInv
<1>. QED  BY <1>1, Inductive, PTL

\* With any number of instances, of which any may fail: a client past the barrier finds all
\* addresses it waits for.
THEOREM AddrsThereAfterReadyHolds == Spec => []AddrsThereAfterReady
<1>1. IInv => AddrsThereAfterReady
  <2>. SUFFICES ASSUME IInv, NEW c \in Client, pc[c] = "collect" PROVE Range(minerAddrs) = Miner
    BY DEF AddrsThereAfterReady
  <2>1. \A m \in Miner : Meshed(m)
    BY OpenBarrier, Instances DEF IInv
  <2>2. minerAddrs \in Seq(Miner)
    BY DEF IInv, TypeInv, Types
  <2>. QED  BY <2>1, <2>2 DEF Meshed, Range
<1>. QED  BY <1>1, Inductive, PTL

=============================================================================
