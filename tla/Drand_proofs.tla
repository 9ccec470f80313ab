---------------------------- MODULE Drand_proofs ----------------------------
(***************************************************************************)
(* Proofs about DrandGroup for a group of any size and threshold: the DKG  *)
(* is run among daemons that are up, a configuration names every server,   *)
(* and to the other roles the group is the one step that it is in Prepare. *)
(*                                                                         *)
(* As in Prepare_proofs, a node that fails leaves no trace of how far it   *)
(* was; a counter is at most the number of nodes that are past the place   *)
(* where it is incremented, or have failed.                                *)
(*                                                                         *)
(* At the end, what the nodes of the group do after that (DrandHalt), for  *)
(* lists of events of any length.  A node has always been through some     *)
(* number of fields, and its daemon has got the calls that they ask for:   *)
(* the events tell which fields, up to those that are dropped, and these   *)
(* ask for nothing.                                                        *)
(***************************************************************************)
EXTENDS DrandGroup, DrandHalt, Counting

Place ==
    Phase \cup {"publishTracer", "tracer", "beacon", "balances", "preseals",
                "publish", "balance", "pick", "pickWait", "preseal", "genesis", "node",
                "mesh", "ready", "readyWait", "collect", "prepared", "failed"}

Info == [servers : Seq(Drand), gossip : Seq(Drand)]

GroupTypes ==
    /\ pc \in [Node -> Place]
    /\ gossipRelay \in BOOLEAN /\ firstRound \in BOOLEAN
    /\ shaped \in Nat /\ started \in Nat /\ dkgStarted \in Nat
    /\ addrs \in Seq(Drand) /\ relays \in Seq(Drand)
    /\ publicAddrs \in [Drand -> Seq(Drand)] /\ relayAddrs \in [Drand -> Seq(Drand)]
    /\ joined \subseteq Drand
    /\ runtimeInfo \in Seq(Info)

\* What a node has still before it, by what it tells the others.
BeforeAddr == {"shape", "shapeWait", "publishAddr"}
BeforeStart == BeforeAddr \cup {"collectAddrs", "start"}
BeforeDkgStart == BeforeStart \cup {"startWait", "startDaemon", "dkgStart"}
BeforeRelay == BeforeDkgStart \cup {"dkgStartWait", "runDkg", "inDkg", "fetchRound", "publishRelay"}

\* The nodes that may have told what they have to tell in the places B.
Past(B) == {d \in Drand : pc[d] \notin B}

BarriersInv ==
    /\ shaped <= Cardinality(Past({"shape"}))
    /\ started <= Cardinality(Past(BeforeStart))
    /\ dkgStarted <= Cardinality(Past(BeforeDkgStart))

\* Nobody publishes an address twice.
ListsInv ==
    /\ NoRepeats(addrs) /\ Elements(addrs) \subseteq Past(BeforeAddr)
    /\ NoRepeats(relays) /\ Elements(relays) \subseteq Past(BeforeRelay)
    /\ ~gossipRelay => \A d \in Drand : relayAddrs[d] = <<>>

ServersComplete(s) == NoRepeats(s) /\ Elements(s) = Drand
RelaysComplete(s) == NoRepeats(s) /\ Elements(s) = IF gossipRelay THEN Drand ELSE {}

\* What d knows, and what has happened, when it is in p.
Reached(d, p) ==
    /\ p \in Phase \ (BeforeAddr \cup {"collectAddrs"}) => ServersComplete(publicAddrs[d])
    /\ p \in {"runDkg", "inDkg"} => dkgStarted >= nNodes
    /\ p \in Phase \cap Beacon => joined = Drand
    /\ p \in {"publishRelay", "collectRelays", "publishConfig"} => firstRound
    /\ p \in {"publishRelay", "collectRelays"} => gossipRelay
    /\ p = "publishConfig" => d = DrandLeader /\ RelaysComplete(relayAddrs[d])

PlacesInv == \A d \in Drand : Reached(d, pc[d])

ConfigInv ==
    \A i \in DOMAIN runtimeInfo :
        /\ ServersComplete(runtimeInfo[i].servers) /\ RelaysComplete(runtimeInfo[i].gossip)
        /\ joined = Drand /\ firstRound

GInv == GroupTypes /\ BarriersInv /\ ListsInv /\ PlacesInv /\ ConfigInv

-----------------------------------------------------------------------------
(* The steps of the nodes. *)

LEMMA Nodes ==
    /\ IsFiniteSet(Drand) /\ nNodes \in Nat /\ Drand \subseteq Node
    /\ \A d \in Drand : d \notin Miner /\ d \notin Client /\ d \notin Tracer /\ d # Bootstrapper
BY RolesAssumption, FS_CardinalityType DEF RolesAssumption, nNodes, Node

\* Where a drand node can go from where it is.
Edges ==
    {<<"shape", "shapeWait">>, <<"shapeWait", "publishAddr">>, <<"publishAddr", "collectAddrs">>,
     <<"collectAddrs", "start">>, <<"start", "startWait">>, <<"startWait", "startDaemon">>,
     <<"startDaemon", "dkgStart">>, <<"dkgStart", "dkgStartWait">>, <<"dkgStartWait", "runDkg">>,
     <<"runDkg", "inDkg">>, <<"inDkg", "fetchRound">>, <<"fetchRound", "publishRelay">>,
     <<"fetchRound", "publishConfig">>, <<"fetchRound", "ready">>,
     <<"publishRelay", "collectRelays">>, <<"collectRelays", "publishConfig">>,
     <<"collectRelays", "ready">>, <<"publishConfig", "ready">>, <<"ready", "readyWait">>,
     <<"readyWait", "prepared">>}

\* d goes on to `to', or fails.
Moves(d, to) ==
    /\ <<pc[d], to>> \in Edges \/ to = "failed"
    /\ pc' = [pc EXCEPT ![d] = to]
    /\ UNCHANGED gossipRelay

LEMMA GotoMoves ==
    ASSUME NEW d \in Drand, NEW from, NEW to, Goto(d, from, to), UNCHANGED gossipRelay,
           <<from, to>> \in Edges
    PROVE  Moves(d, to) /\ pc[d] = from
BY DEF Goto, Moves

\* What a step of d does to the places.
LEMMA Moved ==
    ASSUME GroupTypes, NEW d \in Drand, NEW to, Moves(d, to)
    PROVE  /\ to \in Place /\ pc'[d] = to /\ pc' \in [Node -> Place]
           /\ \A e \in Drand \ {d} : pc'[e] = pc[e]
<1>1. to \in Place
  BY DEF Moves, Edges, Place, Phase, Sharing, Beacon
<1>2. pc \in [Node -> Place] /\ d \in Node
  BY Nodes DEF GroupTypes
<1>. QED  BY <1>1, <1>2, Nodes DEF Moves

\* Sets of places that nobody comes back to.
Barrier == {{"shape"}, BeforeAddr, BeforeStart, BeforeDkgStart, BeforeRelay}

LEMMA Forward ==
    ASSUME NEW B \in Barrier, NEW d, NEW to, Moves(d, to)
    PROVE  pc[d] \notin B => to \notin B
<1>1. CASE to = "failed"
  BY <1>1 DEF Barrier, BeforeAddr, BeforeStart, BeforeDkgStart, BeforeRelay
<1>2. CASE <<pc[d], to>> \in Edges
  <2>. SUFFICES ASSUME pc[d] \notin B PROVE to \notin B
    OBVIOUS
  <2>1. CASE B = {"shape"} \/ B = BeforeAddr
    BY <1>2, <2>1 DEF Edges, BeforeAddr
  <2>2. CASE B = BeforeStart
    BY <1>2, <2>2 DEF Edges, BeforeAddr, BeforeStart
  <2>3. CASE B = BeforeDkgStart
    BY <1>2, <2>3 DEF Edges, BeforeAddr, BeforeStart, BeforeDkgStart
  <2>4. CASE B = BeforeRelay
    BY <1>2, <2>4 DEF Edges, BeforeAddr, BeforeStart, BeforeDkgStart, BeforeRelay
  <2>. QED  BY <2>1, <2>2, <2>3, <2>4 DEF Barrier
<1>. QED  BY <1>1, <1>2 DEF Moves

\* The nodes past a barrier get more, by one where a node leaves it behind.
LEMMA PastGrows ==
    ASSUME GroupTypes, NEW B \in Barrier, NEW d \in Drand, NEW to, Moves(d, to)
    PROVE  /\ Past(B) \subseteq Past(B)'
           /\ Cardinality(Past(B)) \in Nat /\ Cardinality(Past(B)') \in Nat
           /\ Cardinality(Past(B)) <= Cardinality(Past(B)')
           /\ pc[d] \in B /\ to \notin B => Cardinality(Past(B)') = Cardinality(Past(B)) + 1
<1>1. pc'[d] = to /\ \A e \in Drand \ {d} : pc'[e] = pc[e]
  BY Moved
<1>2. pc[d] \notin B => to \notin B
  BY Forward
<1>3. Past(B) \subseteq Past(B)' /\ Past(B)' \in SUBSET Drand /\ Past(B) \in SUBSET Drand
  BY <1>1, <1>2 DEF Past
<1>4. IsFiniteSet(Past(B)') /\ IsFiniteSet(Past(B))
  BY <1>3, Nodes, FS_Subset
<1>5. pc[d] \in B /\ to \notin B => Past(B)' = Past(B) \cup {d} /\ d \notin Past(B)
  BY <1>1 DEF Past
<1>6. pc[d] \in B /\ to \notin B => Cardinality(Past(B)') = Cardinality(Past(B)) + 1
  BY <1>3, <1>5, Nodes, OneMore
<1>. QED  BY <1>3, <1>4, <1>6, FS_Subset, FS_CardinalityType

\* A counter goes up when its node leaves its barrier behind.
Counts(d, to) ==
    /\ UNCHANGED shaped \/ (pc[d] = "shape" /\ to = "shapeWait" /\ shaped' = shaped + 1)
    /\ UNCHANGED started \/ (pc[d] = "start" /\ to = "startWait" /\ started' = started + 1)
    /\ \/ UNCHANGED dkgStarted
       \/ pc[d] = "dkgStart" /\ to = "dkgStartWait" /\ dkgStarted' = dkgStarted + 1

LEMMA CountersKept ==
    ASSUME GInv, NEW d \in Drand, NEW to, Moves(d, to), Counts(d, to)
    PROVE  BarriersInv' /\ dkgStarted' \in Nat /\ dkgStarted' >= dkgStarted
<1>0. /\ GroupTypes /\ shaped \in Nat /\ started \in Nat /\ dkgStarted \in Nat
      /\ {{"shape"}, BeforeStart, BeforeDkgStart} \subseteq Barrier
  BY DEF GInv, GroupTypes, Barrier
<1>1. shaped' <= Cardinality(Past({"shape"})')
  BY <1>0, PastGrows DEF GInv, BarriersInv, Counts
<1>2. started' <= Cardinality(Past(BeforeStart)')
  <2>1. "start" \in BeforeStart /\ "startWait" \notin BeforeStart
    BY DEF BeforeStart, BeforeAddr
  <2>. QED  BY <1>0, <2>1, PastGrows DEF GInv, BarriersInv, Counts
<1>3. dkgStarted' <= Cardinality(Past(BeforeDkgStart)')
  <2>1. "dkgStart" \in BeforeDkgStart /\ "dkgStartWait" \notin BeforeDkgStart
    BY DEF BeforeDkgStart, BeforeStart, BeforeAddr
  <2>. QED  BY <1>0, <2>1, PastGrows DEF GInv, BarriersInv, Counts
<1>4. BarriersInv'
  <2>1. /\ Past(BeforeStart)' = {e \in Drand : pc'[e] \notin BeforeStart}
        /\ Past({"shape"})' = {e \in Drand : pc'[e] \notin {"shape"}}
        /\ Past(BeforeDkgStart)' = {e \in Drand : pc'[e] \notin BeforeDkgStart}
    BY DEF Past
  <2>. QED  BY <1>1, <1>2, <1>3, <2>1 DEF BarriersInv, Past
<1>. QED  BY <1>0, <1>4 DEF Counts

\* A node is listed when it leaves its place behind.
Lists(d, to) ==
    /\ \/ UNCHANGED addrs
       \/ pc[d] = "publishAddr" /\ to = "collectAddrs" /\ addrs' = Append(addrs, d)
    /\ \/ UNCHANGED relays
       \/ pc[d] = "publishRelay" /\ to = "collectRelays" /\ relays' = Append(relays, d)

\* The same for either list: s is the list, B is before it.
LEMMA ListKept ==
    ASSUME GroupTypes, NEW B \in Barrier, NEW d \in Drand, NEW to, Moves(d, to),
           NEW s \in Seq(Drand), NoRepeats(s), Elements(s) \subseteq Past(B),
           NEW t, t = s \/ (pc[d] \in B /\ to \notin B /\ t = Append(s, d))
    PROVE  t \in Seq(Drand) /\ NoRepeats(t) /\ Elements(t) \subseteq Past(B)'
<1>1. Past(B) \subseteq Past(B)' /\ pc'[d] = to
  BY PastGrows, Moved
<1>2. CASE t = s
  BY <1>1, <1>2
<1>3. CASE pc[d] \in B /\ to \notin B /\ t = Append(s, d)
  <2>1. d \notin Elements(s) /\ d \in Past(B)'
    BY <1>1, <1>3 DEF Past
  <2>2. NoRepeats(t) /\ Elements(t) = Elements(s) \cup {d} /\ t \in Seq(Drand)
    BY <1>3, <2>1, AppendNew
  <2>. QED  BY <1>1, <2>1, <2>2
<1>. QED  BY <1>2, <1>3

LEMMA ListsKept ==
    ASSUME GInv, NEW d \in Drand, NEW to, Moves(d, to), Lists(d, to),
           UNCHANGED relayAddrs \/ gossipRelay
    PROVE  ListsInv' /\ addrs' \in Seq(Drand) /\ relays' \in Seq(Drand)
<1>0. /\ GroupTypes /\ addrs \in Seq(Drand) /\ relays \in Seq(Drand)
      /\ BeforeAddr \in Barrier /\ BeforeRelay \in Barrier
  BY DEF GInv, GroupTypes, Barrier
<1>1. addrs' \in Seq(Drand) /\ NoRepeats(addrs') /\ Elements(addrs') \subseteq Past(BeforeAddr)'
  <2>1. "publishAddr" \in BeforeAddr /\ "collectAddrs" \notin BeforeAddr
    BY DEF BeforeAddr
  <2>. QED  BY <1>0, <2>1, ListKept DEF GInv, ListsInv, Lists
<1>2. relays' \in Seq(Drand) /\ NoRepeats(relays') /\ Elements(relays') \subseteq Past(BeforeRelay)'
  <2>1. "publishRelay" \in BeforeRelay /\ "collectRelays" \notin BeforeRelay
    BY DEF BeforeRelay, BeforeDkgStart, BeforeStart, BeforeAddr
  <2>. QED  BY <1>0, <2>1, ListKept DEF GInv, ListsInv, Lists
<1>3. NoRepeats(addrs)' /\ NoRepeats(relays)'
  BY <1>1, <1>2 DEF NoRepeats
<1>4. Elements(addrs)' \subseteq Past(BeforeAddr)' /\ Elements(relays)' \subseteq Past(BeforeRelay)'
  BY <1>1, <1>2 DEF Elements
<1>5. ~gossipRelay' => \A e \in Drand : relayAddrs'[e] = <<>>
  BY DEF Moves, GInv, ListsInv
<1>. QED  BY <1>1, <1>2, <1>3, <1>4, <1>5 DEF ListsInv, Past, BeforeAddr, BeforeRelay

\* What d has at a place of its own, and what has happened, stays.
LEMMA PlacesKept ==
    ASSUME GInv, NEW d \in Drand, NEW to, Moves(d, to), Reached(d, to)',
           dkgStarted' \in Nat, dkgStarted' >= dkgStarted,
           joined \subseteq joined', joined' \subseteq Drand, firstRound => firstRound',
           \A e \in Drand \ {d} : publicAddrs'[e] = publicAddrs[e] /\ relayAddrs'[e] = relayAddrs[e]
    PROVE  PlacesInv'
<1>1. pc'[d] = to /\ \A e \in Drand \ {d} : pc'[e] = pc[e]
  BY Moved DEF GInv
<1>2. dkgStarted \in Nat /\ nNodes \in Nat /\ nNodes' = nNodes /\ gossipRelay' = gossipRelay
  BY Nodes DEF GInv, GroupTypes, nNodes, Moves
<1>3. ASSUME NEW e \in Drand \ {d} PROVE Reached(e, pc[e])'
  <2>1. Reached(e, pc[e])
    BY DEF GInv, PlacesInv
  <2>2. /\ ServersComplete(publicAddrs[e])' <=> ServersComplete(publicAddrs[e])
        /\ RelaysComplete(relayAddrs[e])' <=> RelaysComplete(relayAddrs[e])
    BY <1>2 DEF ServersComplete, RelaysComplete, NoRepeats, Elements
  <2>3. pc'[e] = pc[e]
    BY <1>1
  <2>. QED  BY <1>2, <2>1, <2>2, <2>3 DEF Reached
<1>4. ASSUME NEW e \in Drand PROVE Reached(e, pc[e])'
  <2>1. CASE e = d
    BY <1>1, <2>1 DEF Reached, ServersComplete, RelaysComplete, NoRepeats, Elements
  <2>2. CASE e # d
    BY <1>3, <2>2
  <2>. QED  BY <2>1, <2>2
<1>. QED  BY <1>4 DEF PlacesInv

\* A configuration stays what it is; a new one has to be complete.
LEMMA ConfigKept ==
    ASSUME GInv, NEW d, UNCHANGED gossipRelay,
           joined \subseteq joined', joined' \subseteq Drand, firstRound => firstRound',
           \/ UNCHANGED runtimeInfo
           \/ /\ runtimeInfo' = Append(runtimeInfo, [servers |-> publicAddrs[d], gossip |-> relayAddrs[d]])
              /\ ServersComplete(publicAddrs[d]) /\ RelaysComplete(relayAddrs[d])
              /\ joined = Drand /\ firstRound
    PROVE  ConfigInv'
<1>. DEFINE Fit(info) == /\ ServersComplete(info.servers) /\ RelaysComplete(info.gossip)
                         /\ joined = Drand /\ firstRound
<1>2. runtimeInfo \in Seq(Info) /\ \A i \in DOMAIN runtimeInfo : Fit(runtimeInfo[i])
  BY DEF GInv, GroupTypes, ConfigInv
<1>3. \A i \in DOMAIN runtimeInfo' : Fit(runtimeInfo'[i])
  <2>1. CASE UNCHANGED runtimeInfo
    BY <1>2, <2>1
  <2>2. CASE /\ runtimeInfo' = Append(runtimeInfo, [servers |-> publicAddrs[d], gossip |-> relayAddrs[d]])
             /\ Fit([servers |-> publicAddrs[d], gossip |-> relayAddrs[d]])
    <3>. DEFINE info == [servers |-> publicAddrs[d], gossip |-> relayAddrs[d]]
    <3>1. /\ runtimeInfo' = Append(runtimeInfo, info)
          /\ DOMAIN runtimeInfo' = 1 .. Len(runtimeInfo) + 1
          /\ \A i \in 1 .. Len(runtimeInfo) : runtimeInfo'[i] = runtimeInfo[i]
          /\ runtimeInfo'[Len(runtimeInfo) + 1] = info /\ Len(runtimeInfo) \in Nat
          /\ DOMAIN runtimeInfo = 1 .. Len(runtimeInfo)
      <4>. HIDE DEF info
      <4>1. runtimeInfo' = Append(runtimeInfo, info)
        BY <2>2 DEF info
      <4>. QED  BY <1>2, <4>1
    <3>. SUFFICES ASSUME NEW i \in DOMAIN runtimeInfo' PROVE Fit(runtimeInfo'[i])
      OBVIOUS
    <3>2. CASE i = Len(runtimeInfo) + 1
      BY <2>2, <3>1, <3>2
    <3>3. CASE i \in 1 .. Len(runtimeInfo)
      <4>1. runtimeInfo'[i] = runtimeInfo[i] /\ i \in DOMAIN runtimeInfo
        BY <3>1, <3>3
      <4>. QED  BY <1>2, <4>1
    <3>4. i = Len(runtimeInfo) + 1 \/ i \in 1 .. Len(runtimeInfo)
      <4>1. \A n \in Nat : 1 .. n + 1 = 1 .. n \cup {n + 1}
        OBVIOUS
      <4>2. DOMAIN runtimeInfo' = 1 .. Len(runtimeInfo) \cup {Len(runtimeInfo) + 1}
        BY <3>1, <4>1
      <4>. QED  BY <4>2
    <3>. QED  BY <3>2, <3>3, <3>4
  <2>. QED  BY <2>1, <2>2
<1>. QED  BY <1>3 DEF ConfigInv, ServersComplete, RelaysComplete, NoRepeats, Elements

\* What a step of d has to see to besides, for the invariant to be kept.
Respects(d, to) ==
    /\ Moves(d, to) /\ Counts(d, to) /\ Lists(d, to)
    /\ joined \subseteq joined' /\ joined' \subseteq Drand /\ UNCHANGED firstRound
    /\ \A e \in Drand \ {d} : publicAddrs'[e] = publicAddrs[e] /\ relayAddrs'[e] = relayAddrs[e]
    /\ publicAddrs' \in [Drand -> Seq(Drand)] /\ relayAddrs' \in [Drand -> Seq(Drand)]
    /\ UNCHANGED relayAddrs \/ gossipRelay
    /\ \/ UNCHANGED runtimeInfo
       \/ /\ runtimeInfo' = Append(runtimeInfo, [servers |-> publicAddrs[d], gossip |-> relayAddrs[d]])
          /\ ServersComplete(publicAddrs[d]) /\ RelaysComplete(relayAddrs[d])
          /\ joined = Drand /\ firstRound

LEMMA InvKept ==
    ASSUME GInv, NEW d \in Drand, NEW to, Respects(d, to), Reached(d, to)'
    PROVE  GInv'
<1>1. Moves(d, to) /\ Counts(d, to) /\ Lists(d, to) /\ UNCHANGED gossipRelay
  BY DEF Respects, Moves
<1>2. BarriersInv' /\ dkgStarted' \in Nat /\ dkgStarted' >= dkgStarted
  BY <1>1, CountersKept
<1>3. ListsInv' /\ addrs' \in Seq(Drand) /\ relays' \in Seq(Drand)
  BY <1>1, ListsKept DEF Respects
<1>4. PlacesInv'
  BY <1>1, <1>2, PlacesKept DEF Respects
<1>5. ConfigInv'
  BY <1>1, ConfigKept DEF Respects
<1>6. GroupTypes'
  <2>1. pc' \in [Node -> Place]
    BY <1>1, Moved DEF GInv
  <2>2. shaped' \in Nat /\ started' \in Nat
    BY <1>1 DEF Counts, GInv, GroupTypes
  <2>3. runtimeInfo' \in Seq(Info)
    <3>1. [servers |-> publicAddrs[d], gossip |-> relayAddrs[d]] \in Info /\ runtimeInfo \in Seq(Info)
      BY DEF GInv, GroupTypes, Info
    <3>2. \A info \in Info : Append(runtimeInfo, info) \in Seq(Info)
      BY <3>1
    <3>. QED  BY <3>1, <3>2 DEF Respects
  <2>4. /\ gossipRelay' \in BOOLEAN /\ firstRound' \in BOOLEAN /\ joined' \subseteq Drand
        /\ publicAddrs' \in [Drand -> Seq(Drand)] /\ relayAddrs' \in [Drand -> Seq(Drand)]
    BY <1>1 DEF Respects, GInv, GroupTypes
  <2>. QED  BY <1>2, <1>3, <2>1, <2>2, <2>3, <2>4 DEF GroupTypes, Place
<1>. QED  BY <1>2, <1>3, <1>4, <1>5, <1>6 DEF GInv

\* d goes on and tells nobody.
LEMMA QuietStep ==
    ASSUME GInv, NEW d \in Drand, NEW to, Moves(d, to), UNCHANGED <<exchange, runtimeInfo>>,
           Reached(d, to)
    PROVE  GInv'
<1>1. /\ UNCHANGED <<shaped, addrs, publicAddrs, started, dkgStarted, joined, firstRound,
                     relays, relayAddrs, runtimeInfo, gossipRelay>>
  BY DEF exchange, Moves
<1>2. Respects(d, to)
  BY <1>1 DEF Respects, Counts, Lists, GInv, GroupTypes
<1>3. Reached(d, to)'
  BY <1>1 DEF Reached, ServersComplete, RelaysComplete, NoRepeats, Elements, nNodes
<1>. QED  BY <1>2, <1>3, InvKept

\* Drand nodes that have all told something have told it.
LEMMA AllPast ==
    ASSUME GInv, NEW B \in Barrier, nNodes <= Cardinality(Past(B))
    PROVE  Past(B) = Drand
<1>1. Past(B) \in SUBSET Drand
  BY DEF Past
<1>2. Cardinality(Past(B)) >= Cardinality(Drand)
  <2>1. Cardinality(Past(B)) \in Nat /\ Cardinality(Drand) \in Nat
    BY <1>1, Nodes, FS_Subset, FS_CardinalityType
  <2>. QED  BY <2>1 DEF nNodes
<1>. QED  BY <1>1, <1>2, Nodes, FullCount

\* The first nNodes messages of a topic of which each node is the author once.
LEMMA FirstAreAll ==
    ASSUME NEW s \in Seq(Drand), NoRepeats(s), Len(s) >= nNodes
    PROVE  /\ SubSeq(s, 1, nNodes) \in Seq(Drand)
           /\ NoRepeats(SubSeq(s, 1, nNodes)) /\ Elements(SubSeq(s, 1, nNodes)) = Drand
<1>1. /\ SubSeq(s, 1, nNodes) \in Seq(Drand) /\ Len(SubSeq(s, 1, nNodes)) = nNodes
      /\ DOMAIN SubSeq(s, 1, nNodes) = 1 .. nNodes
      /\ \A i \in 1 .. nNodes : SubSeq(s, 1, nNodes)[i] = s[i]
      /\ 1 .. nNodes \subseteq DOMAIN s
  <2>1. nNodes \in Nat /\ nNodes <= Len(s) /\ DOMAIN s = 1 .. Len(s) /\ Len(s) \in Nat
    BY Nodes
  <2>. QED  BY <2>1, FirstOnes
<1>2. NoRepeats(SubSeq(s, 1, nNodes))
  BY <1>1 DEF NoRepeats
<1>3. Elements(SubSeq(s, 1, nNodes)) = Drand
  <2>1. Len(SubSeq(s, 1, nNodes)) >= Cardinality(Drand)
    BY <1>1, Nodes DEF nNodes
  <2>. QED  BY <1>1, <1>2, <2>1, Nodes, AllListed
<1>. QED  BY <1>1, <1>2, <1>3

-----------------------------------------------------------------------------
(* Every step keeps the invariant. *)

LEMMA PhaseKeeps ==
    ASSUME GInv, NEW d \in Drand, PhaseStep(d), UNCHANGED gossipRelay
    PROVE  GInv'
<1>0. GroupTypes /\ Reached(d, pc[d]) /\ nNodes' = nNodes
  BY DEF GInv, PlacesInv, nNodes
\* Before the addresses.
<1>1. CASE ShapeNetwork(d)
  <2>1. Moves(d, "shapeWait") /\ pc[d] = "shape"
    BY <1>1, GotoMoves DEF ShapeNetwork, Edges
  <2>2. Respects(d, "shapeWait")
    BY <1>1, <2>1 DEF ShapeNetwork, Respects, Counts, Lists, GInv, GroupTypes
  <2>3. Reached(d, "shapeWait")'
    BY DEF Reached, BeforeAddr, Beacon
  <2>. QED  BY <2>2, <2>3, InvKept
<1>2. CASE PassShape(d)
  <2>1. Moves(d, "publishAddr")
    BY <1>2, GotoMoves DEF PassShape, Edges
  <2>2. Reached(d, "publishAddr")
    BY DEF Reached, BeforeAddr, Beacon
  <2>. QED  BY <1>2, <2>1, <2>2, QuietStep DEF PassShape
<1>3. CASE PublishAddr(d)
  <2>1. Moves(d, "collectAddrs") /\ pc[d] = "publishAddr"
    BY <1>3, GotoMoves DEF PublishAddr, Edges
  <2>2. Respects(d, "collectAddrs")
    BY <1>3, <2>1 DEF PublishAddr, Respects, Counts, Lists, GInv, GroupTypes
  <2>3. Reached(d, "collectAddrs")'
    BY DEF Reached, BeforeAddr, Beacon
  <2>. QED  BY <2>2, <2>3, InvKept
<1>4. CASE CollectAddrs(d)
  <2>1. Moves(d, "start")
    BY <1>4, GotoMoves DEF CollectAddrs, Edges
  <2>. DEFINE servers == SubSeq(addrs, 1, nNodes)
  <2>2. servers \in Seq(Drand) /\ NoRepeats(servers) /\ Elements(servers) = Drand
    BY <1>0, <1>4, FirstAreAll DEF CollectAddrs, GInv, ListsInv, GroupTypes
  <2>3. publicAddrs' = [publicAddrs EXCEPT ![d] = servers] /\ publicAddrs'[d] = servers
    BY <1>0, <1>4 DEF CollectAddrs, GroupTypes
  <2>. HIDE DEF servers
  <2>4. /\ publicAddrs' \in [Drand -> Seq(Drand)]
        /\ \A e \in Drand \ {d} : publicAddrs'[e] = publicAddrs[e]
    BY <1>0, <2>2, <2>3 DEF GroupTypes
  <2>5. Respects(d, "start")
    BY <1>0, <1>4, <2>1, <2>4 DEF CollectAddrs, Respects, Counts, Lists, GroupTypes
  <2>6. Reached(d, "start")'
    BY <2>2, <2>3 DEF Reached, ServersComplete, NoRepeats, Elements, Beacon
  <2>. QED  BY <2>5, <2>6, InvKept
\* The daemon.
<1>5. CASE SignalStart(d)
  <2>1. Moves(d, "startWait") /\ pc[d] = "start" /\ UNCHANGED publicAddrs
    BY <1>5, GotoMoves DEF SignalStart, Edges
  <2>2. Respects(d, "startWait")
    BY <1>5, <2>1 DEF SignalStart, Respects, Counts, Lists, GInv, GroupTypes
  <2>3. Reached(d, "startWait")'
    <3>1. ServersComplete(publicAddrs[d])
      BY <1>0, <2>1 DEF Reached, Phase, BeforeAddr
    <3>. QED  BY <2>1, <3>1 DEF Reached, ServersComplete, NoRepeats, Elements, Beacon
  <2>. QED  BY <2>2, <2>3, InvKept
<1>6. CASE PassStart(d)
  <2>1. Moves(d, "startDaemon") /\ pc[d] = "startWait"
    BY <1>6, GotoMoves DEF PassStart, Edges
  <2>2. Reached(d, "startDaemon")
    BY <1>0, <2>1 DEF Reached, Phase, BeforeAddr, Beacon
  <2>. QED  BY <1>6, <2>1, <2>2, QuietStep DEF PassStart
<1>7. CASE StartDaemon(d)
  <2>1. Moves(d, "dkgStart") /\ pc[d] = "startDaemon"
    BY <1>7, GotoMoves DEF StartDaemon, Edges
  <2>2. Reached(d, "dkgStart")
    BY <1>0, <2>1 DEF Reached, Phase, BeforeAddr, Beacon
  <2>. QED  BY <1>7, <2>1, <2>2, QuietStep DEF StartDaemon
<1>8. CASE SignalDkgStart(d)
  <2>1. Moves(d, "dkgStartWait") /\ pc[d] = "dkgStart" /\ UNCHANGED publicAddrs
    BY <1>8, GotoMoves DEF SignalDkgStart, Edges
  <2>2. Respects(d, "dkgStartWait")
    BY <1>8, <2>1 DEF SignalDkgStart, Respects, Counts, Lists, GInv, GroupTypes
  <2>3. Reached(d, "dkgStartWait")'
    <3>1. ServersComplete(publicAddrs[d])
      BY <1>0, <2>1 DEF Reached, Phase, Sharing, BeforeAddr
    <3>. QED  BY <2>1, <3>1 DEF Reached, ServersComplete, NoRepeats, Elements, Beacon
  <2>. QED  BY <2>2, <2>3, InvKept
<1>9. CASE PassDkgStart(d)
  <2>1. Moves(d, "runDkg") /\ pc[d] = "dkgStartWait" /\ dkgStarted >= nNodes
    BY <1>9, GotoMoves DEF PassDkgStart, Edges
  <2>2. Reached(d, "runDkg")
    BY <1>0, <2>1 DEF Reached, Phase, Sharing, BeforeAddr, Beacon
  <2>. QED  BY <1>9, <2>1, <2>2, QuietStep DEF PassDkgStart
\* The key.
<1>10. CASE RunDKG(d)
  <2>1. /\ Moves(d, "inDkg") /\ pc[d] = "runDkg" /\ UNCHANGED <<publicAddrs, dkgStarted>>
        /\ joined' = joined \cup {d}
    BY <1>10, GotoMoves DEF RunDKG, Edges
  <2>2. Respects(d, "inDkg")
    BY <1>10, <2>1 DEF RunDKG, Respects, Counts, Lists, GInv, GroupTypes
  <2>3. Reached(d, "inDkg")'
    <3>1. ServersComplete(publicAddrs[d]) /\ dkgStarted >= nNodes
      BY <1>0, <2>1 DEF Reached, Phase, Sharing, BeforeAddr
    <3>. QED  BY <1>0, <2>1, <3>1 DEF Reached, ServersComplete, NoRepeats, Elements, Beacon
  <2>. QED  BY <2>2, <2>3, InvKept
<1>11. CASE FinishDKG(d)
  <2>1. Moves(d, "fetchRound") /\ pc[d] = "inDkg" /\ Cardinality(joined) >= nNodes
    BY <1>11, GotoMoves DEF FinishDKG, Edges
  <2>2. joined = Drand
    BY <1>0, <2>1, Nodes, FullCount DEF GroupTypes, nNodes
  <2>3. Reached(d, "fetchRound")
    BY <1>0, <2>1, <2>2 DEF Reached, Phase, Sharing, BeforeAddr
  <2>. QED  BY <1>11, <2>1, <2>3, QuietStep DEF FinishDKG
<1>12. CASE FetchRound(d)
  <2>. DEFINE to == IF gossipRelay THEN "publishRelay" ELSE Rest(d)
  <2>1. Goto(d, "fetchRound", to) /\ to \in {"publishRelay", "publishConfig", "ready"} /\ firstRound
    BY <1>12 DEF FetchRound, Rest
  <2>2. Moves(d, to) /\ pc[d] = "fetchRound"
    BY <2>1, GotoMoves DEF Edges
  <2>3. ServersComplete(publicAddrs[d]) /\ joined = Drand
    BY <1>0, <2>2 DEF Reached, Phase, Beacon, BeforeAddr
  <2>4. ~gossipRelay => RelaysComplete(relayAddrs[d])
    <3>1. ASSUME ~gossipRelay PROVE relayAddrs[d] = <<>>
      BY <3>1 DEF GInv, ListsInv
    <3>. QED  BY <3>1 DEF RelaysComplete, NoRepeats, Elements
  <2>5. Reached(d, to)
    BY <2>1, <2>3, <2>4 DEF Reached, Rest
  <2>. QED  BY <1>12, <2>2, <2>5, QuietStep DEF FetchRound
\* The relays, and the configuration.
<1>13. CASE PublishRelay(d)
  <2>1. /\ Moves(d, "collectRelays") /\ pc[d] = "publishRelay"
        /\ UNCHANGED <<publicAddrs, joined, firstRound, gossipRelay>>
    BY <1>13, GotoMoves DEF PublishRelay, Edges
  <2>2. Respects(d, "collectRelays")
    BY <1>13, <2>1 DEF PublishRelay, Respects, Counts, Lists, GInv, GroupTypes
  <2>3. Reached(d, "collectRelays")'
    <3>1. ServersComplete(publicAddrs[d]) /\ joined = Drand /\ firstRound /\ gossipRelay
      BY <1>0, <2>1 DEF Reached, Phase, Beacon, BeforeAddr
    <3>. QED  BY <2>1, <3>1 DEF Reached, ServersComplete, NoRepeats, Elements
  <2>. QED  BY <2>2, <2>3, InvKept
<1>14. CASE CollectRelays(d)
  <2>. DEFINE to == Rest(d)
              gossip == SubSeq(relays, 1, nNodes)
  <2>1. /\ Goto(d, "collectRelays", to) /\ to \in {"publishConfig", "ready"}
        /\ UNCHANGED <<publicAddrs, joined, firstRound, gossipRelay>>
    BY <1>14 DEF CollectRelays, Rest
  <2>2. Moves(d, to) /\ pc[d] = "collectRelays"
    BY <2>1, GotoMoves DEF Edges
  <2>3. ServersComplete(publicAddrs[d]) /\ joined = Drand /\ firstRound /\ gossipRelay
    BY <1>0, <2>2 DEF Reached, Phase, Beacon, BeforeAddr
  <2>4. gossip \in Seq(Drand) /\ NoRepeats(gossip) /\ Elements(gossip) = Drand
    BY <1>0, <1>14, FirstAreAll DEF CollectRelays, GInv, ListsInv, GroupTypes
  <2>5. relayAddrs' = [relayAddrs EXCEPT ![d] = gossip] /\ relayAddrs'[d] = gossip
    BY <1>0, <1>14 DEF CollectRelays, GroupTypes
  <2>. HIDE DEF gossip
  <2>6. /\ relayAddrs' \in [Drand -> Seq(Drand)]
        /\ \A e \in Drand \ {d} : relayAddrs'[e] = relayAddrs[e]
    BY <1>0, <2>4, <2>5 DEF GroupTypes
  <2>7. Respects(d, to)
    <3>. HIDE DEF to
    <3>. QED  BY <1>0, <1>14, <2>2, <2>3, <2>6 DEF CollectRelays, Respects, Counts, Lists, GroupTypes
  <2>8. Reached(d, to)'
    BY <2>1, <2>3, <2>4, <2>5
    DEF Reached, Rest, ServersComplete, RelaysComplete, NoRepeats, Elements
  <2>. QED  BY <2>7, <2>8, InvKept
<1>15. CASE PublishConfig(d)
  <2>1. Moves(d, "ready") /\ pc[d] = "publishConfig"
    BY <1>15, GotoMoves DEF PublishConfig, Edges
  <2>2. /\ ServersComplete(publicAddrs[d]) /\ RelaysComplete(relayAddrs[d])
        /\ joined = Drand /\ firstRound
    BY <1>0, <2>1 DEF Reached, Phase, Beacon, BeforeAddr
  <2>3. Respects(d, "ready")
    BY <1>0, <1>15, <2>1, <2>2 DEF PublishConfig, exchange, Respects, Counts, Lists, GroupTypes
  <2>4. Reached(d, "ready")'
    BY DEF Reached, Phase, Sharing, Beacon
  <2>. QED  BY <2>3, <2>4, InvKept
<1>. QED
  BY <1>1, <1>2, <1>3, <1>4, <1>5, <1>6, <1>7, <1>8, <1>9, <1>10, <1>11, <1>12, <1>13, <1>14, <1>15
  DEF PhaseStep

\* The beacon makes round 1; nobody moves.
LEMMA RoundKeeps == ASSUME GInv, MakeFirstRound, UNCHANGED gossipRelay PROVE GInv'
<1>1. /\ UNCHANGED <<pc, shaped, addrs, publicAddrs, started, dkgStarted, joined, relays,
                     relayAddrs, runtimeInfo, gossipRelay>>
      /\ firstRound' = TRUE
  BY DEF MakeFirstRound
<1>2. \A B : Past(B)' = Past(B)
  BY <1>1 DEF Past
<1>3. GroupTypes' /\ BarriersInv'
  BY <1>1, <1>2 DEF GInv, GroupTypes, BarriersInv
<1>4. ListsInv'
  BY <1>1, <1>2 DEF GInv, ListsInv, NoRepeats, Elements
<1>5. PlacesInv'
  <2>1. ASSUME NEW d \in Drand PROVE Reached(d, pc[d])'
    <3>1. Reached(d, pc[d])
      BY DEF GInv, PlacesInv
    <3>. QED
      BY <1>1, <3>1 DEF Reached, ServersComplete, RelaysComplete, NoRepeats, Elements, nNodes
  <2>. QED  BY <2>1 DEF PlacesInv
<1>6. ConfigInv'
  BY <1>1 DEF GInv, ConfigInv, ServersComplete, RelaysComplete, NoRepeats, Elements
<1>. QED  BY <1>3, <1>4, <1>5, <1>6 DEF GInv

\* An instance of another role moves between places of Prepare.
LEMMA OthersMove ==
    ASSUME NEW n \in Node, n \notin Drand, Step(n)
    PROVE  \E to \in Place \ Phase : pc[n] \notin Phase /\ pc' = [pc EXCEPT ![n] = to]
<1>. DEFINE There == {"publishTracer", "tracer", "beacon", "balances", "preseals",
                      "publish", "balance", "pick", "pickWait", "preseal", "genesis", "node",
                      "mesh", "ready", "readyWait", "collect", "prepared"}
<1>0. There \cap Phase = {} /\ There \subseteq Place
  BY DEF Phase, Sharing, Beacon, Place
<1>1. ASSUME NEW from \in There, NEW to \in There, Goto(n, from, to)
      PROVE  \E x \in There : pc[n] \in There /\ pc' = [pc EXCEPT ![n] = x]
  BY <1>1 DEF Goto
<1>2. \E x \in There : pc[n] \in There /\ pc' = [pc EXCEPT ![n] = x]
  <2>1. CASE GetTracer(n) \/ GetGenesis(n) \/ SignalReady(n)
    BY <1>1, <2>1 DEF GetTracer, GetGenesis, SignalReady
  <2>2. CASE GetBeacon(n) \/ PublishBalance(n) \/ PassReady(n)
    BY <1>1, <2>2 DEF GetBeacon, PublishBalance, AfterBalance, PassReady
  <2>3. CASE n = Bootstrapper /\ BootstrapperStep
    BY <1>1, <2>3 DEF BootstrapperStep, CollectBalances, CollectPreseals, PublishGenesis
  <2>4. CASE PickSeqNum(n) \/ PassPick(n) \/ PublishPreseal(n) \/ PublishMinerAddr(n)
    BY <1>1, <2>4 DEF PickSeqNum, PassPick, PublishPreseal, PublishMinerAddr
  <2>5. CASE ConnectMiner(n)
    BY <2>5 DEF ConnectMiner
  <2>6. CASE ClientStep(n) \/ PublishTracer(n)
    BY <1>1, <2>6 DEF ClientStep, StartClientNode, ConnectClient, PublishTracer
  <2>. QED  BY <2>1, <2>2, <2>3, <2>4, <2>5, <2>6 DEF Step, MinerStep
<1>. QED  BY <1>0, <1>2

\* What the nodes of the group do not take part in.
LEMMA AwayKeeps ==
    ASSUME GInv, pc' \in [Node -> Place], \A d \in Drand : pc'[d] = pc[d],
           UNCHANGED <<exchange, runtimeInfo, gossipRelay>>
    PROVE  GInv'
<1>1. /\ UNCHANGED <<shaped, addrs, publicAddrs, started, dkgStarted, joined, firstRound, relays,
                     relayAddrs, runtimeInfo, gossipRelay>>
  BY DEF exchange
<1>2. \A B : Past(B)' = Past(B)
  BY DEF Past
<1>3. GroupTypes' /\ BarriersInv'
  BY <1>1, <1>2 DEF GInv, GroupTypes, BarriersInv
<1>4. ListsInv'
  BY <1>1, <1>2 DEF GInv, ListsInv, NoRepeats, Elements
<1>5. PlacesInv'
  <2>1. ASSUME NEW d \in Drand PROVE Reached(d, pc[d])'
    <3>1. Reached(d, pc[d]) /\ pc'[d] = pc[d]
      BY DEF GInv, PlacesInv
    <3>. QED
      BY <1>1, <3>1 DEF Reached, ServersComplete, RelaysComplete, NoRepeats, Elements, nNodes
  <2>. QED  BY <2>1 DEF PlacesInv
<1>6. ConfigInv'
  BY <1>1 DEF GInv, ConfigInv, ServersComplete, RelaysComplete, NoRepeats, Elements
<1>. QED  BY <1>3, <1>4, <1>5, <1>6 DEF GInv

\* The instances of the other roles, the barrier "ready", and failures.
LEMMA CommonKeeps ==
    ASSUME GInv, NEW n \in Node, UNCHANGED gossipRelay,
           CommonStep(n) \/ (Fail(n) /\ UNCHANGED <<exchange, runtimeInfo>>)
    PROVE  GInv'
<1>0. pc \in [Node -> Place] /\ UNCHANGED <<exchange, runtimeInfo>> /\ Drand \subseteq Node
  BY Nodes DEF GInv, GroupTypes, CommonStep
<1>1. CASE n \in Drand
  <2>1. ASSUME NEW to \in {"readyWait", "prepared", "failed"}, Moves(n, to) PROVE GInv'
    <3>1. Reached(n, to)
      BY <2>1 DEF Reached, Phase, Sharing, Beacon
    <3>. QED  BY <1>0, <1>1, <2>1, <3>1, QuietStep
  <2>2. CASE Fail(n)
    BY <2>1, <2>2 DEF Fail, Moves
  <2>3. CASE SignalReady(n)
    BY <1>1, <2>1, <2>3, GotoMoves DEF SignalReady, Edges
  <2>4. CASE PassReady(n)
    <3>1. n \notin Client
      BY <1>1, Nodes
    <3>2. Goto(n, "readyWait", "prepared")
      BY <2>4, <3>1 DEF PassReady
    <3>. QED  BY <1>1, <2>1, <3>2, GotoMoves DEF Edges
  <2>. QED  BY <1>1, <2>2, <2>3, <2>4 DEF CommonStep
<1>2. CASE n \notin Drand
  <2>1. ASSUME NEW to \in Place, pc' = [pc EXCEPT ![n] = to] PROVE GInv'
    <3>1. pc' \in [Node -> Place] /\ \A d \in Drand : pc'[d] = pc[d]
      BY <1>0, <1>2, <2>1
    <3>. QED  BY <1>0, <3>1, AwayKeeps
  <2>2. CASE Fail(n)
    BY <2>1, <2>2 DEF Fail, Place
  <2>3. CASE Step(n)
    BY <1>2, <2>1, <2>3, OthersMove
  <2>. QED  BY <1>2, <2>2, <2>3 DEF CommonStep
<1>. QED  BY <1>1, <1>2

LEMMA InitHolds == ASSUME GroupInit PROVE GInv
<1>1. ASSUME NEW n \in Node PROVE pc[n] \in Place
  BY DEF GroupInit, FirstStep, Place, Phase
<1>2. pc \in [Node -> Place]
  BY <1>1 DEF GroupInit
<1>3. \A d \in Drand : pc[d] \in {"shape", "publishAddr"}
  BY Nodes DEF GroupInit
<1>4. GroupTypes
  <2>1. <<>> \in Seq(Drand) /\ <<>> \in Seq(Info)
    OBVIOUS
  <2>2. publicAddrs \in [Drand -> Seq(Drand)] /\ relayAddrs \in [Drand -> Seq(Drand)]
    BY <2>1 DEF GroupInit
  <2>3. addrs \in Seq(Drand) /\ relays \in Seq(Drand) /\ runtimeInfo \in Seq(Info)
    BY <2>1 DEF GroupInit
  <2>. QED  BY <1>2, <2>2, <2>3 DEF GroupInit, GroupTypes
<1>5. BarriersInv
  <2>1. \A B : Past(B) \in SUBSET Drand
    BY DEF Past
  <2>2. \A B : Cardinality(Past(B)) \in Nat
    BY <2>1, Nodes, FS_Subset, FS_CardinalityType
  <2>3. \A B : 0 <= Cardinality(Past(B))
    BY <2>2
  <2>. QED  BY <2>3 DEF GroupInit, BarriersInv
<1>6. ListsInv
  BY DEF GroupInit, ListsInv, NoRepeats, Elements
<1>7. PlacesInv
  BY <1>3 DEF PlacesInv, Reached, BeforeAddr, Beacon
<1>8. ConfigInv
  BY DEF GroupInit, ConfigInv
<1>. QED  BY <1>4, <1>5, <1>6, <1>7, <1>8 DEF GInv

\* The counters never run ahead of the nodes, the lists name each node once, and what a node
\* knows at its place is complete, whoever fails.
THEOREM Inductive == GroupSpec => []GInv
<1>1. GInv /\ [GroupNext]_groupVars => GInv'
  <2>. SUFFICES ASSUME GInv, [GroupNext]_groupVars PROVE GInv'
    OBVIOUS
  <2>1. CASE UNCHANGED groupVars
    <3>1. pc' = pc /\ UNCHANGED <<exchange, runtimeInfo, gossipRelay>>
      BY <2>1 DEF groupVars, group, vars
    <3>. QED  BY <3>1, AwayKeeps DEF GInv, GroupTypes
  <2>. QED  BY <2>1, PhaseKeeps, RoundKeeps, CommonKeeps DEF GroupNext
<1>. QED  BY <1>1, InitHolds, PTL DEF GroupSpec

-----------------------------------------------------------------------------
(* What follows. *)

\* Every configuration that is ever published names each server once and each relay once,
\* and its beacon runs, for groups of any size, with or without relays, whoever fails.
THEOREM ConfigUsableHolds == GroupSpec => []ConfigUsable
<1>1. GInv => ConfigUsable
  <2>. SUFFICES ASSUME GInv PROVE ConfigUsable
    OBVIOUS
  <2>1. {shaped, started, dkgStarted} \subseteq 0 .. nNodes
    <3>1. ASSUME NEW B, NEW k \in Nat, k <= Cardinality(Past(B)) PROVE k \in 0 .. nNodes
      <4>1. Past(B) \in SUBSET Drand
        BY DEF Past
      <4>2. Cardinality(Past(B)) \in 0 .. nNodes
        BY <4>1, Nodes, CountBound DEF nNodes
      <4>. QED  BY <3>1, <4>2, Nodes
    <3>2. shaped \in Nat /\ started \in Nat /\ dkgStarted \in Nat
      BY DEF GInv, GroupTypes
    <3>3. shaped \in 0 .. nNodes /\ started \in 0 .. nNodes /\ dkgStarted \in 0 .. nNodes
      BY <3>1, <3>2 DEF GInv, BarriersInv
    <3>. QED  BY <3>3
  <2>2. GroupTypeOK
    BY <2>1 DEF GInv, GroupTypes, GroupTypeOK, Place, Info
  <2>3. \A s : /\ Range(s) = Elements(s) /\ (IsInjective(s) <=> NoRepeats(s))
    BY DEF Range, Elements, IsInjective, NoRepeats
  <2>4. \A info \in Range(runtimeInfo) :
            /\ ServersComplete(info.servers) /\ RelaysComplete(info.gossip)
            /\ joined = Drand /\ firstRound
    BY DEF Range, GInv, ConfigInv
  <2>. QED  BY <2>2, <2>3, <2>4 DEF ConfigUsable, ServersComplete, RelaysComplete
<1>. QED  BY <1>1, Inductive, PTL

\* In a group of any size, a node that has called the DKG finds the daemons of all others
\* started, or their nodes failed.
THEOREM DkgAmongDaemonsHolds == GroupSpec => []DkgAmongDaemons
<1>1. GInv => DkgAmongDaemons
  <2>. SUFFICES ASSUME GInv, NEW d \in Drand, NEW e \in Drand, pc[d] \in {"runDkg", "inDkg"}
                PROVE  pc[e] \notin Phase \ (Sharing \cup Beacon)
    BY DEF DkgAmongDaemons
  <2>1. nNodes <= dkgStarted /\ dkgStarted <= Cardinality(Past(BeforeDkgStart))
    BY DEF GInv, PlacesInv, Reached, BarriersInv
  <2>2. nNodes <= Cardinality(Past(BeforeDkgStart))
    <3>1. Past(BeforeDkgStart) \in SUBSET Drand
      BY DEF Past
    <3>2. Cardinality(Past(BeforeDkgStart)) \in Nat /\ dkgStarted \in Nat /\ nNodes \in Nat
      BY <3>1, Nodes, FS_Subset, FS_CardinalityType DEF GInv, GroupTypes
    <3>. QED  BY <2>1, <3>2
  <2>3. Past(BeforeDkgStart) = Drand
    BY <2>2, AllPast DEF Barrier
  <2>4. pc[e] \notin BeforeDkgStart
    BY <2>3 DEF Past
  <2>. QED  BY <2>4 DEF BeforeDkgStart, BeforeStart, BeforeAddr, Phase, Sharing, Beacon
<1>. QED  BY <1>1, Inductive, PTL

-----------------------------------------------------------------------------
(* The group is the one step RunDrand of Prepare. *)

LEMMA CoarseGoto ==
    ASSUME GInv, NEW n \in Node, NEW from, NEW to, Goto(n, from, to),
           from \notin Phase, to \notin Phase
    PROVE  OneStep!Goto(n, from, to)
BY DEF GInv, GroupTypes, Goto, OneStep!Goto, coarse

\* A node that stays within its phases is not seen to move.
LEMMA CoarseStutter ==
    ASSUME GInv, NEW d \in Drand, NEW to \in Phase, pc[d] \in Phase, pc' = [pc EXCEPT ![d] = to]
    PROVE  UNCHANGED coarse
BY Nodes DEF GInv, GroupTypes, coarse

\* It leaves them in one step.
LEMMA CoarseLeave ==
    ASSUME GInv, NEW d \in Drand, pc[d] \in Phase, pc' = [pc EXCEPT ![d] = "ready"]
    PROVE  OneStep!Goto(d, "dkg", "ready")
<1>1. "ready" \notin Phase
  BY DEF Phase, Sharing, Beacon
<1>. QED  BY <1>1, Nodes DEF GInv, GroupTypes, OneStep!Goto, coarse

LEMMA SameSets ==
    /\ \A S : OneStep!Cardinality(S) = Cardinality(S)
    /\ OneStep!Node = Node /\ OneStep!Funded = Funded /\ OneStep!TestInstanceCount = TestInstanceCount
    /\ \A s : OneStep!SortedBySeqno(s) = SortedBySeqno(s)
<1>1. \A S : OneStep!Cardinality(S) = Cardinality(S)
  BY DEF Cardinality, OneStep!Cardinality, IsFiniteSet, OneStep!IsFiniteSet
<1>2. OneStep!Node = Node /\ OneStep!Funded = Funded
  BY DEF OneStep!Node, Node, OneStep!Funded, Funded
<1>3. \A S, T : OneStep!Bijection(S, T) = Bijection(S, T)
  BY DEF Bijection, OneStep!Bijection, Injection, OneStep!Injection, Surjection,
         OneStep!Surjection, IsInjective, OneStep!IsInjective
<1>. QED
  BY <1>1, <1>2, <1>3
  DEF TestInstanceCount, OneStep!TestInstanceCount, SortedBySeqno, OneStep!SortedBySeqno

LEMMA CoarseInit == ASSUME GroupInit PROVE OneStep!Init
<1>1. \A n \in Node : coarse[n] = FirstStep(n)
  <2>1. ASSUME NEW n \in Node, n \in Drand PROVE coarse[n] = FirstStep(n)
    BY <2>1, Nodes DEF GroupInit, coarse, FirstStep, Phase
  <2>2. ASSUME NEW n \in Node, n \notin Drand PROVE coarse[n] = FirstStep(n)
    <3>1. pc[n] \in {"publishTracer", "tracer"} /\ pc[n] = FirstStep(n)
      BY <2>2 DEF GroupInit, FirstStep
    <3>. QED  BY <3>1 DEF coarse, Phase, Sharing, Beacon
  <2>. QED  BY <2>1, <2>2
<1>2. coarse = [n \in Node |-> OneStep!FirstStep(n)]
  BY <1>1 DEF coarse, FirstStep, OneStep!FirstStep
<1>. QED  BY <1>2, SameSets DEF GroupInit, OneStep!Init, NoTemplate, OneStep!NoTemplate

\* The steps that a drand node has in common with the others, and theirs.
LEMMA BarrierMaps ==
    ASSUME GInv, NEW n \in Node, SignalReady(n) \/ PassReady(n)
    PROVE  OneStep!Step(n)
<1>. DEFINE There == {"ready", "readyWait", "collect", "prepared"}
<1>1. There \cap Phase = {}
  BY DEF Phase, Sharing, Beacon
<1>2. ASSUME NEW from \in There, NEW to \in There, Goto(n, from, to) PROVE OneStep!Goto(n, from, to)
  BY <1>1, <1>2, CoarseGoto
<1>3. CASE SignalReady(n)
  <2>1. OneStep!Goto(n, "ready", "readyWait")
    BY <1>2, <1>3 DEF SignalReady
  <2>2. OneStep!SignalReady(n)
    BY <1>3, <2>1 DEF SignalReady, OneStep!SignalReady, topics, OneStep!topics
  <2>. QED  BY <2>2 DEF OneStep!Step
<1>4. CASE PassReady(n)
  <2>1. OneStep!Goto(n, "readyWait", IF n \in Client THEN "collect" ELSE "prepared")
    BY <1>2, <1>4 DEF PassReady
  <2>2. OneStep!PassReady(n)
    BY <1>4, <2>1, SameSets DEF PassReady, OneStep!PassReady, topics, OneStep!topics
  <2>. QED  BY <2>2 DEF OneStep!Step
<1>. QED  BY <1>3, <1>4

LEMMA FailMaps == ASSUME GInv, NEW n \in Node, Fail(n) PROVE OneStep!Fail(n)
<1>1. "failed" \notin Phase /\ "publishTracer" \notin Phase
  BY DEF Phase, Sharing, Beacon
<1>2. coarse' = [coarse EXCEPT ![n] = "failed"]
  BY <1>1 DEF Fail, GInv, GroupTypes, coarse
<1>3. /\ coarse[n] \notin {"prepared", "failed"}
      /\ n \in Tracer => coarse[n] = "publishTracer"
  BY <1>1 DEF Fail, coarse
<1>. QED  BY <1>2, <1>3 DEF Fail, OneStep!Fail, topics, OneStep!topics

\* The other roles do the same in both.
LEMMA OthersMap ==
    ASSUME GInv, NEW n \in Node, n \notin Drand, Step(n)
    PROVE  OneStep!Step(n)
<1>. DEFINE There == {"publishTracer", "tracer", "beacon", "balances", "preseals",
                      "publish", "balance", "pick", "pickWait", "preseal", "genesis", "node",
                      "mesh", "ready", "readyWait", "collect", "prepared"}
<1>1. There \cap Phase = {}
  BY DEF Phase, Sharing, Beacon
<1>2. ASSUME NEW k \in Node, NEW from \in There, NEW to \in There, Goto(k, from, to)
      PROVE  OneStep!Goto(k, from, to)
  BY <1>1, <1>2, CoarseGoto
<1>3. OneStep!topics = topics /\ OneStep!topics' = topics'
  BY DEF topics, OneStep!topics
\* The steps that several roles share.
<1>4. CASE GetTracer(n)
  <2>1. OneStep!GetTracer(n)
    BY <1>2, <1>3, <1>4 DEF GetTracer, OneStep!GetTracer
  <2>. QED  BY <2>1 DEF OneStep!Step
<1>5. CASE GetBeacon(n)
  <2>1. OneStep!GetBeacon(n)
    BY <1>2, <1>3, <1>5 DEF GetBeacon, OneStep!GetBeacon
  <2>. QED  BY <2>1 DEF OneStep!Step
<1>6. CASE PublishBalance(n)
  <2>1. OneStep!PublishBalance(n)
    BY <1>2, <1>6 DEF PublishBalance, OneStep!PublishBalance, AfterBalance, OneStep!AfterBalance
  <2>. QED  BY <2>1 DEF OneStep!Step
<1>7. CASE GetGenesis(n)
  <2>1. OneStep!GetGenesis(n)
    BY <1>2, <1>3, <1>7 DEF GetGenesis, OneStep!GetGenesis
  <2>. QED  BY <2>1 DEF OneStep!Step
\* The bootstrapper.
<1>8. CASE n = Bootstrapper /\ BootstrapperStep
  <2>1. CASE CollectBalances
    <3>1. OneStep!CollectBalances
      BY <1>2, <1>3, <1>8, <2>1, SameSets DEF CollectBalances, OneStep!CollectBalances
    <3>. QED  BY <1>8, <3>1 DEF OneStep!BootstrapperStep, OneStep!Step
  <2>2. CASE CollectPreseals
    <3>1. OneStep!CollectPreseals
      BY <1>2, <1>3, <1>8, <2>2, SameSets DEF CollectPreseals, OneStep!CollectPreseals
    <3>. QED  BY <1>8, <3>1 DEF OneStep!BootstrapperStep, OneStep!Step
  <2>3. CASE PublishGenesis
    <3>1. OneStep!PublishGenesis
      BY <1>2, <1>8, <2>3 DEF PublishGenesis, OneStep!PublishGenesis
    <3>. QED  BY <1>8, <3>1 DEF OneStep!BootstrapperStep, OneStep!Step
  <2>. QED  BY <1>8, <2>1, <2>2, <2>3 DEF BootstrapperStep
\* The miners.
<1>9. CASE n \in Miner /\ MinerStep(n)
  <2>1. CASE PickSeqNum(n)
    <3>1. OneStep!PickSeqNum(n)
      BY <1>2, <1>3, <2>1 DEF PickSeqNum, OneStep!PickSeqNum
    <3>. QED  BY <1>9, <3>1 DEF OneStep!MinerStep, OneStep!Step
  <2>2. CASE PassPick(n)
    <3>1. OneStep!PassPick(n)
      BY <1>2, <1>3, <2>2, SameSets DEF PassPick, OneStep!PassPick
    <3>. QED  BY <1>9, <3>1 DEF OneStep!MinerStep, OneStep!Step
  <2>3. CASE PublishPreseal(n)
    <3>1. OneStep!PublishPreseal(n)
      BY <1>2, <2>3 DEF PublishPreseal, OneStep!PublishPreseal
    <3>. QED  BY <1>9, <3>1 DEF OneStep!MinerStep, OneStep!Step
  <2>4. CASE PublishMinerAddr(n)
    <3>1. OneStep!PublishMinerAddr(n)
      BY <1>2, <2>4 DEF PublishMinerAddr, OneStep!PublishMinerAddr
    <3>. QED  BY <1>9, <3>1 DEF OneStep!MinerStep, OneStep!Step
  <2>5. CASE ConnectMiner(n)
    <3>1. /\ coarse[n] = "mesh"
          /\ \A to \in {"mesh", "ready"} :
                 pc' = [pc EXCEPT ![n] = to] => coarse' = [coarse EXCEPT ![n] = to]
      <4>1. pc[n] = "mesh"
        BY <2>5 DEF ConnectMiner
      <4>2. ASSUME NEW to \in {"mesh", "ready"}, pc' = [pc EXCEPT ![n] = to]
            PROVE  OneStep!Goto(n, "mesh", to)
        BY <1>2, <4>1, <4>2 DEF Goto
      <4>3. "mesh" \notin Phase
        BY <1>1
      <4>. QED  BY <4>1, <4>2, <4>3 DEF OneStep!Goto, coarse
    <3>2. OneStep!ConnectMiner(n)
      BY <1>3, <2>5, <3>1, SameSets DEF ConnectMiner, OneStep!ConnectMiner
    <3>. QED  BY <1>9, <3>2 DEF OneStep!MinerStep, OneStep!Step
  <2>. QED  BY <1>9, <2>1, <2>2, <2>3, <2>4, <2>5 DEF MinerStep
\* The clients and the tracer.
<1>10. CASE n \in Client /\ ClientStep(n)
  <2>1. CASE StartClientNode(n)
    <3>1. OneStep!StartClientNode(n)
      BY <1>2, <1>3, <2>1 DEF StartClientNode, OneStep!StartClientNode
    <3>. QED  BY <1>10, <3>1 DEF OneStep!ClientStep, OneStep!Step
  <2>2. CASE ConnectClient(n)
    <3>1. OneStep!ConnectClient(n)
      BY <1>2, <1>3, <2>2, SameSets DEF ConnectClient, OneStep!ConnectClient
    <3>. QED  BY <1>10, <3>1 DEF OneStep!ClientStep, OneStep!Step
  <2>. QED  BY <1>10, <2>1, <2>2 DEF ClientStep
<1>11. CASE n \in Tracer /\ PublishTracer(n)
  <2>1. OneStep!PublishTracer(n)
    BY <1>2, <1>11 DEF PublishTracer, OneStep!PublishTracer
  <2>. QED  BY <1>11, <2>1 DEF OneStep!Step
<1>12. CASE SignalReady(n) \/ PassReady(n)
  BY <1>12, BarrierMaps
<1>. QED
  BY <1>4, <1>5, <1>6, <1>7, <1>8, <1>9, <1>10, <1>11, <1>12 DEF Step

\* What a node does in its phases is not seen by the other roles until it is ready, and then
\* the leader, and nobody else, has published the configuration.
LEMMA PhaseMaps ==
    ASSUME GInv, NEW d \in Drand, PhaseStep(d)
    PROVE  [OneStep!Next]_(OneStep!vars)
<1>0. pc[d] \in Phase => Reached(d, pc[d])
  BY DEF GInv, PlacesInv
<1>1. ASSUME NEW from \in Phase, NEW to \in Phase, Goto(d, from, to), UNCHANGED prepareRest
      PROVE  UNCHANGED OneStep!vars
  <2>1. UNCHANGED coarse
    BY <1>1, CoarseStutter DEF Goto
  <2>. QED  BY <1>1, <2>1 DEF prepareRest, topics, OneStep!vars, OneStep!topics
<1>2. ASSUME NEW from \in Phase, Goto(d, from, "ready"),
             UNCHANGED <<seq, next, balances, preseals, genesis, minerAddrs, tracers,
                         picked, ready, template, conns>>,
             drandConfig' = IF d = DrandLeader THEN Append(drandConfig, d) ELSE drandConfig
      PROVE  OneStep!Next
  <2>1. OneStep!Goto(d, "dkg", "ready")
    BY <1>2, CoarseLeave DEF Goto
  <2>2. OneStep!RunDrand(d)
    BY <1>2, <2>1 DEF OneStep!RunDrand
  <2>. QED  BY <2>2, Nodes, SameSets DEF OneStep!Step, OneStep!Next
\* Into "ready" from a place where only a follower goes there.
<1>3. ASSUME NEW from \in Phase, Goto(d, from, Rest(d)), UNCHANGED prepareRest
      PROVE  [OneStep!Next]_(OneStep!vars)
  <2>1. CASE d = DrandLeader
    BY <1>1, <1>3, <2>1 DEF Rest, Phase, Beacon
  <2>2. CASE d # DrandLeader
    <3>1. Goto(d, from, "ready")
      BY <1>3, <2>2 DEF Rest
    <3>. QED  BY <1>2, <1>3, <2>2, <3>1 DEF prepareRest, topics
  <2>. QED  BY <2>1, <2>2
<1>4. CASE ShapeNetwork(d) \/ PassShape(d) \/ PublishAddr(d) \/ CollectAddrs(d)
  BY <1>1, <1>4 DEF ShapeNetwork, PassShape, PublishAddr, CollectAddrs, Phase
<1>5. CASE SignalStart(d) \/ PassStart(d) \/ StartDaemon(d)
  BY <1>1, <1>5 DEF SignalStart, PassStart, StartDaemon, Phase, Sharing
<1>6. CASE SignalDkgStart(d) \/ PassDkgStart(d) \/ RunDKG(d) \/ FinishDKG(d)
  BY <1>1, <1>6 DEF SignalDkgStart, PassDkgStart, RunDKG, FinishDKG, Phase, Sharing, Beacon
<1>7. CASE FetchRound(d)
  <2>1. CASE gossipRelay
    BY <1>1, <1>7, <2>1 DEF FetchRound, Phase, Beacon
  <2>2. CASE ~gossipRelay
    BY <1>3, <1>7, <2>2 DEF FetchRound, Phase, Beacon
  <2>. QED  BY <2>1, <2>2
<1>8. CASE PublishRelay(d)
  BY <1>1, <1>8 DEF PublishRelay, Phase, Beacon
<1>9. CASE CollectRelays(d)
  BY <1>3, <1>9 DEF CollectRelays, Phase, Beacon
<1>10. CASE PublishConfig(d)
  <2>1. pc[d] = "publishConfig" /\ Goto(d, "publishConfig", "ready") /\ "publishConfig" \in Phase
    BY <1>10 DEF PublishConfig, Goto, Phase, Beacon
  <2>2. d = DrandLeader
    BY <1>0, <2>1 DEF Reached
  <2>. QED  BY <1>2, <1>10, <2>1, <2>2 DEF PublishConfig
<1>. QED  BY <1>4, <1>5, <1>6, <1>7, <1>8, <1>9, <1>10 DEF PhaseStep

\* For any number of drand nodes, the group with its phases is the group of Prepare: every
\* node gets ready once, and the configuration appears with the leader, whoever fails.
THEOREM RefinesPrepare == GroupSpec => ImplementsPrepare
<1>1. GInv /\ [GroupNext]_groupVars => [OneStep!Next]_(OneStep!vars)
  <2>. SUFFICES ASSUME GInv, [GroupNext]_groupVars PROVE [OneStep!Next]_(OneStep!vars)
    OBVIOUS
  <2>1. ASSUME UNCHANGED <<vars, pc>> PROVE UNCHANGED OneStep!vars
    BY <2>1 DEF vars, topics, coarse, OneStep!vars, OneStep!topics
  <2>2. CASE UNCHANGED groupVars \/ MakeFirstRound
    BY <2>1, <2>2 DEF groupVars, vars, topics, MakeFirstRound, prepareRest
  <2>3. ASSUME NEW n \in Node, CommonStep(n) PROVE OneStep!Next
    BY <2>3, BarrierMaps, OthersMap, SameSets DEF CommonStep, OneStep!Next
  <2>4. ASSUME NEW n \in Node, Fail(n) PROVE OneStep!Next
    BY <2>4, FailMaps, SameSets DEF OneStep!Next
  <2>. QED  BY <2>2, <2>3, <2>4, PhaseMaps DEF GroupNext
<1>. QED  BY <1>1, CoarseInit, Inductive, PTL DEF GroupSpec, ImplementsPrepare, OneStep!Spec

Roles == INSTANCE Prepare_proofs WITH pc <- coarse

\* The theorems about Prepare carry over: with the group in full, whatever becomes of its
\* nodes, a genesis block is complete, the miners are densely connected behind "ready", and
\* a client finds all their addresses there.
THEOREM RolesServed == GroupSpec => [](OneStep!GenesisComplete /\ DenselyConnected /\ AddrsThereAfterReady)
<1>1. OneStep!Init => Roles!Init
  BY DEF OneStep!Init, Roles!Init, OneStep!Node, Roles!Node, OneStep!FirstStep, Roles!FirstStep,
         OneStep!NoTemplate, Roles!NoTemplate
<1>2. OneStep!Next => Roles!Next  \* the same formula, in two instances of Prepare
  BY DEF OneStep!Next, Roles!Next, OneStep!Step, Roles!Step, OneStep!Fail, Roles!Fail,
         OneStep!GetTracer, Roles!GetTracer, OneStep!GetBeacon, Roles!GetBeacon,
         OneStep!PublishBalance, Roles!PublishBalance, OneStep!AfterBalance, Roles!AfterBalance,
         OneStep!GetGenesis, Roles!GetGenesis, OneStep!SignalReady, Roles!SignalReady,
         OneStep!PassReady, Roles!PassReady, OneStep!BootstrapperStep, Roles!BootstrapperStep,
         OneStep!CollectBalances, Roles!CollectBalances, OneStep!CollectPreseals,
         Roles!CollectPreseals, OneStep!SortedBySeqno, Roles!SortedBySeqno, OneStep!PublishGenesis,
         Roles!PublishGenesis, OneStep!MinerStep, Roles!MinerStep, OneStep!PickSeqNum,
         Roles!PickSeqNum, OneStep!PassPick, Roles!PassPick, OneStep!PublishPreseal,
         Roles!PublishPreseal, OneStep!PublishMinerAddr, Roles!PublishMinerAddr,
         OneStep!ConnectMiner, Roles!ConnectMiner, OneStep!ClientStep, Roles!ClientStep,
         OneStep!StartClientNode, Roles!StartClientNode, OneStep!ConnectClient,
         Roles!ConnectClient, OneStep!PublishTracer, Roles!PublishTracer, OneStep!RunDrand,
         Roles!RunDrand, OneStep!Goto, Roles!Goto, OneStep!Node, Roles!Node, OneStep!Funded,
         Roles!Funded, OneStep!TestInstanceCount, Roles!TestInstanceCount, OneStep!topics,
         Roles!topics, OneStep!Cardinality, Roles!Cardinality, OneStep!IsFiniteSet,
         Roles!IsFiniteSet, OneStep!Bijection, Roles!Bijection, OneStep!Injection,
         Roles!Injection, OneStep!Surjection, Roles!Surjection, OneStep!IsInjective,
         Roles!IsInjective
<1>3. OneStep!vars = Roles!vars /\ OneStep!vars' = Roles!vars'
  BY DEF OneStep!vars, Roles!vars, OneStep!topics, Roles!topics
<1>4. Roles!RolesAssumption /\ Roles!ParamsAssumption
  BY RolesAssumption, ParamsAssumption
  DEF RolesAssumption, Roles!RolesAssumption, ParamsAssumption, Roles!ParamsAssumption,
      IsFiniteSet, Roles!IsFiniteSet
<1>5. Roles!Spec => [](Roles!GenesisComplete /\ Roles!DenselyConnected /\ Roles!AddrsThereAfterReady)
  <2>1. Roles!Spec => []Roles!GenesisComplete
    BY <1>4, Roles!GenesisCompleteHolds
  <2>2. Roles!Spec => []Roles!DenselyConnected
    BY <1>4, Roles!DenselyConnectedHolds
  <2>3. Roles!Spec => []Roles!AddrsThereAfterReady
    BY <1>4, Roles!AddrsThereAfterReadyHolds
  <2>. QED  BY <2>1, <2>2, <2>3, PTL
<1>6. Roles!GenesisComplete => OneStep!GenesisComplete
  BY DEF Roles!GenesisComplete, OneStep!GenesisComplete, Roles!TypeOK, OneStep!TypeOK,
         OneStep!Node, Roles!Node, OneStep!Funded, Roles!Funded, OneStep!TestInstanceCount,
         Roles!TestInstanceCount, OneStep!Cardinality, Roles!Cardinality, OneStep!IsFiniteSet,
         Roles!IsFiniteSet, OneStep!Range, Roles!Range, OneStep!IsInjective, Roles!IsInjective
<1>7. \A n \in Node, p \in {"collect", "prepared"} : coarse[n] = p <=> pc[n] = p
  BY DEF coarse, Phase, Sharing, Beacon
<1>8. Roles!DenselyConnected => DenselyConnected
  BY <1>7 DEF Roles!DenselyConnected, DenselyConnected, Roles!Node, Node
<1>9. Roles!AddrsThereAfterReady => AddrsThereAfterReady
  BY <1>7 DEF Roles!AddrsThereAfterReady, AddrsThereAfterReady, Roles!Range, Range, Node
<1>10. [OneStep!Next]_(OneStep!vars) => [Roles!Next]_(Roles!vars)
  BY <1>2, <1>3
<1>. QED
  BY <1>1, <1>5, <1>6, <1>8, <1>9, <1>10, RefinesPrepare, PTL
  DEF ImplementsPrepare, OneStep!Spec, Roles!Spec

-----------------------------------------------------------------------------
(* What becomes of the nodes of the group afterwards: they run their       *)
(* events, which stop and start their daemons (DrandHalt).  First what a   *)
(* list of fields becomes and asks for, from field to field.               *)

\* A member of the list that a node gets, and a call that its daemon gets.
EventTiming == {Timing(f) : f \in Field}
Call == {"halt", "resume"}

\* What one more field does to the events before it.
LEMMA ParsedIs ==
    ASSUME fields \in Seq(Field)
    PROVE  /\ parsed \in [0 .. Len(fields) -> Seq(EventTiming)]
           /\ parsed[0] = <<>>
           /\ \A n \in 1 .. Len(fields) :
                parsed[n] = IF fields[n] = "badWait" THEN parsed[n - 1]
                            ELSE Append(parsed[n - 1], Timing(fields[n]))
<1>. DEFINE Extend(n, es) == IF fields[n] = "badWait" THEN es ELSE Append(es, Timing(fields[n]))
            Body(g, n) == IF n = 0 THEN <<>> ELSE Extend(n, g[n - 1])
<1>1. PICK D : D = Seq(EventTiming)
  OBVIOUS
<1>2. PICK k \in Nat : k = Len(fields)
  OBVIOUS
<1>3. PICK none \in D : none = <<>>
  <2>1. <<>> \in D
    BY <1>1
  <2>. QED  BY <2>1
<1>4. ASSUME NEW n \in 1 .. k, NEW es \in D PROVE Extend(n, es) \in D
  BY <1>1, <1>2 DEF EventTiming
<1>5. \E g \in [0 .. k -> D] : \A n \in 0 .. k : g[n] = Body(g, n)
  <2>. HIDE DEF Extend
  <2>1. PICK F \in [1 .. k -> [D -> D]] : \A n \in 1 .. k : F[n] = [es \in D |-> Extend(n, es)]
    <3>. DEFINE F == [n \in 1 .. k |-> [es \in D |-> Extend(n, es)]]
    <3>1. F \in [1 .. k -> [D -> D]] /\ \A n \in 1 .. k : F[n] = [es \in D |-> Extend(n, es)]
      BY <1>4
    <3>. QED  BY <3>1
  <2>2. PICK g \in [0 .. k -> D] : g[0] = none /\ \A n \in 1 .. k : g[n] = F[n][g[n - 1]]
    BY RecursionExists
  <2>3. ASSUME NEW n \in 0 .. k PROVE g[n] = Body(g, n)
    <3>1. CASE n = 0
      BY <1>3, <2>2, <3>1
    <3>2. CASE n # 0
      <4>1. n \in 1 .. k /\ g[n - 1] \in D
        BY <3>2
      <4>. QED  BY <2>1, <2>2, <3>2, <4>1
    <3>. QED  BY <3>1, <3>2
  <2>. QED  BY <2>3
<1>6. parsed = [n \in 0 .. k |-> Body(parsed, n)]
  <2>1. parsed = CHOOSE p : p = [n \in 0 .. k |-> Body(p, n)]
    BY <1>2 DEF parsed
  <2>2. PICK g \in [0 .. k -> D] : \A n \in 0 .. k : g[n] = Body(g, n)
    BY <1>5
  <2>. HIDE DEF Body
  <2>3. g = [n \in 0 .. k |-> Body(g, n)]
    BY <2>2
  <2>. QED  BY <2>1, <2>3
<1>7. /\ parsed[0] = <<>>
      /\ \A n \in 1 .. k : parsed[n] = Extend(n, parsed[n - 1])
  <2>1. \A n \in 0 .. k : parsed[n] = Body(parsed, n)
    <3>. HIDE DEF Body
    <3>. QED  BY <1>6
  <2>. HIDE DEF Extend
  <2>. QED  BY <2>1
<1>8. 0 .. k \subseteq {n \in 0 .. k : parsed[n] \in D}
  <2>. DEFINE S == {n \in 0 .. k : parsed[n] \in D}
  <2>. HIDE DEF Extend
  <2>1. 0 \in S
    BY <1>3, <1>7
  <2>2. ASSUME NEW n \in 1 .. k, n - 1 \in S PROVE n \in S
    BY <1>4, <1>7, <2>2
  <2>. HIDE DEF S
  <2>3. 0 .. k \subseteq S
    BY <2>1, <2>2, UpTo
  <2>. QED  BY <2>3 DEF S
<1>9. parsed \in [0 .. k -> D]
  <2>. HIDE DEF Body
  <2>. QED  BY <1>6, <1>8
<1>. QED  BY <1>1, <1>2, <1>7, <1>9

\* What one more field asks for after those before it.
LEMMA AskedIs ==
    ASSUME fields \in Seq(Field)
    PROVE  /\ asked \in [0 .. Len(fields) -> Seq(Call)]
           /\ asked[0] = <<>>
           /\ \A n \in 1 .. Len(fields) :
                asked[n] = IF fields[n] \in Call /\ fields[n] # Latest(asked[n - 1])
                           THEN Append(asked[n - 1], fields[n])
                           ELSE asked[n - 1]
<1>. DEFINE Extend(n, cs) == IF fields[n] \in Call /\ fields[n] # Latest(cs)
                           THEN Append(cs, fields[n]) ELSE cs
            Body(g, n) == IF n = 0 THEN <<>> ELSE Extend(n, g[n - 1])
<1>1. PICK D : D = Seq(Call)
  OBVIOUS
<1>2. PICK k \in Nat : k = Len(fields)
  OBVIOUS
<1>3. PICK none \in D : none = <<>>
  <2>1. <<>> \in D
    BY <1>1
  <2>. QED  BY <2>1
<1>4. ASSUME NEW n \in 1 .. k, NEW cs \in D PROVE Extend(n, cs) \in D
  BY <1>1, <1>2 DEF Call
<1>5. \E g \in [0 .. k -> D] : \A n \in 0 .. k : g[n] = Body(g, n)
  <2>. HIDE DEF Extend
  <2>1. PICK F \in [1 .. k -> [D -> D]] : \A n \in 1 .. k : F[n] = [cs \in D |-> Extend(n, cs)]
    <3>. DEFINE F == [n \in 1 .. k |-> [cs \in D |-> Extend(n, cs)]]
    <3>1. F \in [1 .. k -> [D -> D]] /\ \A n \in 1 .. k : F[n] = [cs \in D |-> Extend(n, cs)]
      BY <1>4
    <3>. QED  BY <3>1
  <2>2. PICK g \in [0 .. k -> D] : g[0] = none /\ \A n \in 1 .. k : g[n] = F[n][g[n - 1]]
    BY RecursionExists
  <2>3. ASSUME NEW n \in 0 .. k PROVE g[n] = Body(g, n)
    <3>1. CASE n = 0
      BY <1>3, <2>2, <3>1
    <3>2. CASE n # 0
      <4>1. n \in 1 .. k /\ g[n - 1] \in D
        BY <3>2
      <4>. QED  BY <2>1, <2>2, <3>2, <4>1
    <3>. QED  BY <3>1, <3>2
  <2>. QED  BY <2>3
<1>6. asked = [n \in 0 .. k |-> Body(asked, n)]
  <2>1. asked = CHOOSE p : p = [n \in 0 .. k |-> Body(p, n)]
    BY <1>2 DEF asked, Call
  <2>2. PICK g \in [0 .. k -> D] : \A n \in 0 .. k : g[n] = Body(g, n)
    BY <1>5
  <2>. HIDE DEF Body
  <2>3. g = [n \in 0 .. k |-> Body(g, n)]
    BY <2>2
  <2>. QED  BY <2>1, <2>3
<1>7. /\ asked[0] = <<>>
      /\ \A n \in 1 .. k : asked[n] = Extend(n, asked[n - 1])
  <2>1. \A n \in 0 .. k : asked[n] = Body(asked, n)
    <3>. HIDE DEF Body
    <3>. QED  BY <1>6
  <2>. HIDE DEF Extend
  <2>. QED  BY <2>1
<1>8. 0 .. k \subseteq {n \in 0 .. k : asked[n] \in D}
  <2>. DEFINE S == {n \in 0 .. k : asked[n] \in D}
  <2>. HIDE DEF Extend
  <2>1. 0 \in S
    BY <1>3, <1>7
  <2>2. ASSUME NEW n \in 1 .. k, n - 1 \in S PROVE n \in S
    BY <1>4, <1>7, <2>2
  <2>. HIDE DEF S
  <2>3. 0 .. k \subseteq S
    BY <2>1, <2>2, UpTo
  <2>. QED  BY <2>3 DEF S
<1>9. asked \in [0 .. k -> D]
  <2>. HIDE DEF Body
  <2>. QED  BY <1>6, <1>8
<1>. QED  BY <1>1, <1>2, <1>7, <1>9

\* An event comes from the field that has made the list one longer.
LEMMA EventsComeFrom ==
    ASSUME fields \in Seq(Field)
    PROVE  \A n \in 0 .. Len(fields) :
             /\ parsed[n] \in Seq(EventTiming) /\ Len(parsed[n]) <= n
             /\ \A e \in 1 .. Len(parsed[n]) : \E m \in 1 .. n :
                  /\ fields[m] # "badWait" /\ parsed[n][e] = Timing(fields[m])
                  /\ Len(parsed[m - 1]) = e - 1
<1>1. PICK k \in Nat : k = Len(fields)
  OBVIOUS
<1>. DEFINE From(n, e, m) == /\ fields[m] # "badWait" /\ parsed[n][e] = Timing(fields[m])
                             /\ Len(parsed[m - 1]) = e - 1
            Good(n) == /\ parsed[n] \in Seq(EventTiming) /\ Len(parsed[n]) <= n
                       /\ \A e \in 1 .. Len(parsed[n]) : \E m \in 1 .. n : From(n, e, m)
            S == {n \in 0 .. k : Good(n)}
<1>2. 0 \in S
  <2>1. parsed[0] = <<>>
    BY ParsedIs
  <2>2. Good(0)
    BY <2>1
  <2>. HIDE DEF Good
  <2>. QED  BY <2>2
<1>3. ASSUME NEW n \in 1 .. k, n - 1 \in S PROVE n \in S
  <2>1. Good(n - 1) /\ n - 1 \in Nat
    BY <1>3
  <2>2. CASE fields[n] = "badWait"
    <3>1. parsed[n] = parsed[n - 1]
      BY <1>1, <2>2, ParsedIs
    <3>2. \A e \in 1 .. Len(parsed[n]) : \E m \in 1 .. n : From(n, e, m)
      <4>1. ASSUME NEW e \in 1 .. Len(parsed[n]) PROVE \E m \in 1 .. n : From(n, e, m)
        <5>1. PICK m \in 1 .. n - 1 : From(n - 1, e, m)
          BY <2>1, <3>1, <4>1
        <5>. QED  BY <3>1, <5>1, m \in 1 .. n
      <4>. QED  BY <4>1
    <3>3. Good(n)
      BY <2>1, <3>1, <3>2
    <3>. HIDE DEF Good
    <3>. QED  BY <3>3
  <2>3. CASE fields[n] # "badWait"
    <3>1. parsed[n] = Append(parsed[n - 1], Timing(fields[n]))
      BY <1>1, <2>3, ParsedIs
    <3>2. Timing(fields[n]) \in EventTiming
      BY <1>1 DEF EventTiming
    <3>3. /\ parsed[n] \in Seq(EventTiming) /\ Len(parsed[n]) = Len(parsed[n - 1]) + 1
          /\ \A e \in 1 .. Len(parsed[n - 1]) : parsed[n][e] = parsed[n - 1][e]
          /\ parsed[n][Len(parsed[n])] = Timing(fields[n])
          /\ Len(parsed[n - 1]) \in Nat
      BY <2>1, <3>1, <3>2
    <3>4. ASSUME NEW e \in 1 .. Len(parsed[n]) PROVE \E m \in 1 .. n : From(n, e, m)
      <4>1. CASE e \in 1 .. Len(parsed[n - 1])
        <5>1. PICK m \in 1 .. n - 1 : From(n - 1, e, m)
          BY <2>1, <4>1
        <5>. QED  BY <3>3, <4>1, <5>1, m \in 1 .. n
      <4>2. CASE e = Len(parsed[n])
        <5>1. From(n, e, n)
          BY <2>3, <3>3, <4>2
        <5>. QED  BY <5>1, n \in 1 .. n
      <4>. QED  BY <3>3, <4>1, <4>2
    <3>5. Len(parsed[n]) <= n
      BY <2>1, <3>3
    <3>. QED  BY <3>3, <3>4, <3>5
  <2>. QED  BY <2>2, <2>3
<1>4. 0 .. k \subseteq S
  <2>. HIDE DEF S
  <2>. QED  BY <1>2, <1>3, UpTo
<1>5. \A n \in 0 .. k : Good(n)
  <2>. HIDE DEF Good
  <2>. QED  BY <1>4
<1>. QED  BY <1>1, <1>5

\* The number of events tells what has been asked for.
LEMMA AsMuchAsked ==
    ASSUME fields \in Seq(Field)
    PROVE  \A n \in 0 .. Len(fields) : \A m \in 0 .. n :
             /\ Len(parsed[m]) <= Len(parsed[n])
             /\ Len(parsed[m]) = Len(parsed[n]) => asked[m] = asked[n]
<1>1. PICK k \in Nat : k = Len(fields)
  OBVIOUS
<1>. DEFINE Good(n) == \A m \in 0 .. n :
                         /\ Len(parsed[m]) <= Len(parsed[n])
                         /\ Len(parsed[m]) = Len(parsed[n]) => asked[m] = asked[n]
            S == {n \in 0 .. k : Good(n)}
<1>2. \A n \in 0 .. k : parsed[n] \in Seq(EventTiming) /\ Len(parsed[n]) \in Nat
  BY <1>1, ParsedIs
<1>3. 0 \in S
  BY <1>2
<1>4. ASSUME NEW n \in 1 .. k, n - 1 \in S PROVE n \in S
  <2>0. n - 1 \in 0 .. k /\ n \in 0 .. k
    OBVIOUS
  <2>1. \/ parsed[n] = parsed[n - 1] /\ asked[n] = asked[n - 1]
        \/ Len(parsed[n]) = Len(parsed[n - 1]) + 1
    <3>1. CASE fields[n] = "badWait"
      BY <1>1, <3>1, ParsedIs, AskedIs DEF Call
    <3>2. CASE fields[n] # "badWait"
      <4>1. parsed[n] = Append(parsed[n - 1], Timing(fields[n]))
        BY <1>1, <3>2, ParsedIs
      <4>2. Timing(fields[n]) \in EventTiming
        BY <1>1 DEF EventTiming
      <4>. QED  BY <1>2, <2>0, <4>1, <4>2
    <3>. QED  BY <3>1, <3>2
  <2>2. ASSUME NEW m \in 0 .. n
        PROVE  /\ Len(parsed[m]) <= Len(parsed[n])
               /\ Len(parsed[m]) = Len(parsed[n]) => asked[m] = asked[n]
    <3>1. CASE m = n
      BY <1>2, <2>0, <3>1
    <3>2. CASE m # n
      <4>1. m \in 0 .. n - 1 /\ m \in 0 .. k
        BY <3>2
      <4>2. /\ Len(parsed[m]) <= Len(parsed[n - 1])
            /\ Len(parsed[m]) = Len(parsed[n - 1]) => asked[m] = asked[n - 1]
        BY <1>4, <4>1
      <4>3. Len(parsed[m]) \in Nat /\ Len(parsed[n - 1]) \in Nat
        BY <1>2, <2>0, <4>1
      <4>. QED  BY <2>1, <4>2, <4>3
    <3>. QED  BY <3>1, <3>2
  <2>. QED  BY <2>0, <2>2
<1>5. 0 .. k \subseteq S
  <2>. HIDE DEF S
  <2>. QED  BY <1>3, <1>4, UpTo
<1>. QED  BY <1>1, <1>5

\* What has been asked for stays.
LEMMA AskedGrows ==
    ASSUME fields \in Seq(Field)
    PROVE  \A n \in 0 .. Len(fields) : asked[n] \in Seq(Call) /\ IsPrefix(asked[n], Effective)
<1>1. PICK k \in Nat : k = Len(fields)
  OBVIOUS
<1>. DEFINE Good(n) == \A m \in 0 .. n :
                         /\ Len(asked[m]) <= Len(asked[n])
                         /\ \A i \in 1 .. Len(asked[m]) : asked[m][i] = asked[n][i]
            S == {n \in 0 .. k : Good(n)}
<1>2. \A n \in 0 .. k : asked[n] \in Seq(Call) /\ Len(asked[n]) \in Nat
  BY <1>1, AskedIs
<1>3. 0 \in S
  BY <1>2
<1>4. ASSUME NEW n \in 1 .. k, n - 1 \in S PROVE n \in S
  <2>0. n - 1 \in 0 .. k /\ n \in 0 .. k
    OBVIOUS
  <2>1. /\ Len(asked[n - 1]) <= Len(asked[n])
        /\ \A i \in 1 .. Len(asked[n - 1]) : asked[n - 1][i] = asked[n][i]
    <3>1. \/ asked[n] = asked[n - 1]
          \/ fields[n] \in Call /\ asked[n] = Append(asked[n - 1], fields[n])
      BY <1>1, AskedIs
    <3>. QED  BY <1>2, <2>0, <3>1
  <2>2. ASSUME NEW m \in 0 .. n
        PROVE  /\ Len(asked[m]) <= Len(asked[n])
               /\ \A i \in 1 .. Len(asked[m]) : asked[m][i] = asked[n][i]
    <3>1. CASE m = n
      BY <1>2, <2>0, <3>1
    <3>2. CASE m # n
      <4>1. m \in 0 .. n - 1 /\ m \in 0 .. k
        BY <3>2
      <4>2. /\ Len(asked[m]) <= Len(asked[n - 1])
            /\ \A i \in 1 .. Len(asked[m]) : asked[m][i] = asked[n - 1][i]
        BY <1>4, <4>1
      <4>3. Len(asked[m]) \in Nat /\ Len(asked[n - 1]) \in Nat /\ Len(asked[n]) \in Nat
        BY <1>2, <2>0, <4>1
      <4>. QED  BY <2>1, <4>2, <4>3
    <3>. QED  BY <3>1, <3>2
  <2>. QED  BY <2>0, <2>2
<1>5. 0 .. k \subseteq S
  <2>. HIDE DEF S
  <2>. QED  BY <1>3, <1>4, UpTo
<1>6. ASSUME NEW n \in 0 .. k PROVE IsPrefix(asked[n], asked[k])
  <2>1. PICK l \in Nat : l = Len(asked[n])
    BY <1>2
  <2>2. /\ asked[n] \in Seq(Call) /\ asked[k] \in Seq(Call) /\ l <= Len(asked[k])
        /\ \A i \in 1 .. l : asked[n][i] = asked[k][i]
    BY <1>2, <1>5, <2>1, k \in 0 .. k
  <2>3. SubSeq(asked[n], 1, l) = SubSeq(asked[k], 1, l)
    <3>1. /\ SubSeq(asked[n], 1, l) \in Seq(Call) /\ SubSeq(asked[k], 1, l) \in Seq(Call)
          /\ Len(SubSeq(asked[n], 1, l)) = l /\ Len(SubSeq(asked[k], 1, l)) = l
          /\ \A i \in 1 .. l : SubSeq(asked[n], 1, l)[i] = asked[n][i]
          /\ \A i \in 1 .. l : SubSeq(asked[k], 1, l)[i] = asked[k][i]
      BY <2>1, <2>2, FirstOnes
    <3>. QED  BY <2>2, <3>1, SeqEqual
  <2>. QED  BY <2>1, <2>2, <2>3 DEF IsPrefix
<1>. QED  BY <1>1, <1>2, <1>6 DEF Effective

-----------------------------------------------------------------------------
(* The state machine of a node, its daemon, and the list it goes through.  *)

HaltTypes ==
    /\ fields \in Seq(Field) /\ Len(fields) <= MaxFields
    /\ pos \in [Suspendable -> Nat]
    /\ current \in [Suspendable -> {"running", "suspended"}]
    /\ eventLoop \in [Suspendable -> {"events", "catchUp", "done"}]
    /\ daemon \in [Suspendable -> {"up", "down", "broken"}]
    /\ calls \in [Suspendable -> Seq(Call)]

\* d has been through n fields: its daemon got the calls they ask for, and the last one
\* tells the state of its state machine.
Through(d, n) == Len(parsed[n]) = pos[d] /\ calls[d] = asked[n]
ListOf(d) ==
    /\ \E n \in 0 .. Len(fields) : Through(d, n)
    /\ current[d] = "running" <=> Latest(calls[d]) = "resume"
    /\ eventLoop[d] = "done" => pos[d] = Len(events)

HaltInv ==
    /\ HaltTypes
    /\ \A d \in Suspendable : ListOf(d)
    /\ DaemonFollowsState

LEMMA InitHalt == HaltInit => HaltInv
<1>. SUFFICES ASSUME HaltInit PROVE HaltInv
  OBVIOUS
<1>1. fields \in Seq(Field) /\ Len(fields) <= MaxFields
  <2>1. PICK m \in 0 .. MaxFields : fields \in [1 .. m -> Field]
    BY DEF HaltInit, BoundedSeq, SeqOf
  <2>2. MaxFields \in Nat
    BY NodesAssumption
  <2>. QED  BY <2>1, <2>2
<1>2. HaltTypes
  BY <1>1 DEF HaltInit, HaltTypes
<1>3. ASSUME NEW d \in Suspendable PROVE ListOf(d)
  <2>1. Len(parsed[0]) = 0 /\ asked[0] = <<>> /\ 0 \in 0 .. Len(fields)
    BY <1>1, ParsedIs, AskedIs
  <2>2. pos[d] = 0 /\ calls[d] = <<>> /\ current[d] = "running" /\ eventLoop[d] = "events"
    BY DEF HaltInit
  <2>. QED  BY <2>1, <2>2 DEF ListOf, Through, Latest
<1>. QED  BY <1>2, <1>3 DEF HaltInit, HaltInv, DaemonFollowsState

\* The next event comes from a field behind which what is asked for is what has been called,
\* and one more call if the field changes something.
LEMMA NextField ==
    ASSUME HaltTypes, NEW d \in Suspendable, ListOf(d), NEW e, Takes(d, e)
    PROVE  \E m \in 1 .. Len(fields) :
             /\ e = Timing(fields[m])
             /\ Len(parsed[m]) = pos[d] + 1
             /\ asked[m] = IF fields[m] \in Call /\ fields[m] # Latest(calls[d])
                           THEN Append(calls[d], fields[m]) ELSE calls[d]
<1>1. PICK k \in Nat : k = Len(fields)
  BY DEF HaltTypes
<1>2. fields \in Seq(Field)
  BY DEF HaltTypes
<1>3. PICK n \in 0 .. k : Through(d, n)
  BY <1>1 DEF ListOf
<1>4. pos[d] \in Nat /\ pos[d] + 1 \in 1 .. Len(parsed[k]) /\ e = parsed[k][pos[d] + 1]
  <2>1. pos[d] < Len(parsed[k]) /\ e = parsed[k][pos[d] + 1]
    BY <1>1 DEF Takes, events
  <2>2. pos[d] \in Nat /\ Len(parsed[k]) \in Nat
    BY <1>1, <1>2, EventsComeFrom DEF HaltTypes
  <2>. QED  BY <2>1, <2>2
<1>5. PICK m \in 1 .. k : /\ fields[m] # "badWait" /\ e = Timing(fields[m])
                          /\ Len(parsed[m - 1]) = (pos[d] + 1) - 1
  BY <1>1, <1>2, <1>4, EventsComeFrom, k \in 0 .. k
<1>6. Len(parsed[m]) = pos[d] + 1
  <2>1. parsed[m] = Append(parsed[m - 1], Timing(fields[m]))
    BY <1>1, <1>2, <1>5, ParsedIs
  <2>2. Timing(fields[m]) \in EventTiming
    BY <1>1, <1>2 DEF EventTiming
  <2>3. parsed[m - 1] \in Seq(EventTiming)
    BY <1>1, <1>2, ParsedIs, m - 1 \in 0 .. k
  <2>. QED  BY <1>4, <1>5, <2>1, <2>2, <2>3
<1>7. asked[m - 1] = calls[d]
  <2>1. Len(parsed[m - 1]) = Len(parsed[n]) /\ calls[d] = asked[n]
    BY <1>3, <1>4, <1>5 DEF Through
  <2>2. m - 1 \in 0 .. k /\ (m - 1 \in 0 .. n \/ n \in 0 .. m - 1)
    OBVIOUS
  <2>. QED  BY <1>1, <1>2, <2>1, <2>2, AsMuchAsked
<1>8. asked[m] = IF fields[m] \in Call /\ fields[m] # Latest(asked[m - 1])
                 THEN Append(asked[m - 1], fields[m]) ELSE asked[m - 1]
  BY <1>1, <1>2, AskedIs
<1>. QED  BY <1>1, <1>5, <1>6, <1>7, <1>8

\* The last of the calls is a call; before the first one the node is as if resumed.
LEMMA CallsEnd == ASSUME NEW cs \in Seq(Call) PROVE Latest(cs) \in Call
BY DEF Latest, Last, Call

\* The list stays as it is.
LEMMA ListStays ==
    ASSUME UNCHANGED fields
    PROVE  UNCHANGED <<parsed, asked, events, Effective>>
BY DEF parsed, asked, events, Effective

\* Whoever takes no event and gets no call stays where it is in its list.
LEMMA OthersWait ==
    ASSUME UNCHANGED fields, NEW o, ListOf(o),
           pos'[o] = pos[o], calls'[o] = calls[o], current'[o] = current[o],
           eventLoop'[o] = "done" => eventLoop[o] = "done"
    PROVE  ListOf(o)'
BY ListStays DEF ListOf, Through, Latest

\* Who has taken an event goes on to its field.
LEMMA GoesOn ==
    ASSUME HaltTypes, UNCHANGED fields, NEW d \in Suspendable,
           NEW m \in 1 .. Len(fields), Len(parsed[m]) = pos[d] + 1,
           pos' = [pos EXCEPT ![d] = @ + 1], calls'[d] = asked[m],
           current'[d] = "running" <=> Latest(calls'[d]) = "resume",
           eventLoop'[d] # "done"
    PROVE  ListOf(d)'
<1>1. pos'[d] = pos[d] + 1 /\ m \in 0 .. Len(fields)
  BY DEF HaltTypes
<1>. QED  BY <1>1, ListStays DEF ListOf, Through, Latest

LEMMA NextHalt == HaltInv /\ [HaltNext]_haltVars => HaltInv'
<1>. SUFFICES ASSUME HaltInv, [HaltNext]_haltVars PROVE HaltInv'
  OBVIOUS
<1>0. HaltTypes /\ DaemonFollowsState /\ \A d \in Suspendable : ListOf(d)
  BY DEF HaltInv
<1>1. ASSUME NEW d \in Suspendable, Skip(d) PROVE HaltInv'
  <2>1. PICK e : /\ Takes(d, e)
                 /\ e.delay \/ e.event = "" \/ NextState(current[d], e.event) = "rejected"
    BY <1>1 DEF Skip
  <2>2. PICK m \in 1 .. Len(fields) :
            /\ e = Timing(fields[m])
            /\ Len(parsed[m]) = pos[d] + 1
            /\ asked[m] = IF fields[m] \in Call /\ fields[m] # Latest(calls[d])
                          THEN Append(calls[d], fields[m]) ELSE calls[d]
    BY <1>0, <2>1, NextField
  <2>3. /\ pos' = [pos EXCEPT ![d] = @ + 1] /\ eventLoop[d] = "events"
        /\ UNCHANGED <<fields, current, eventLoop, daemon, calls>>
    BY <1>1 DEF Skip, Takes
  <2>4. asked[m] = calls[d]
    <3>1. fields[m] \in Call => e.event = fields[m] /\ fields[m] # "" /\ ~ e.delay
      BY <2>2 DEF Timing, Call
    <3>2. fields[m] \in Call => NextState(current[d], fields[m]) = "rejected"
      BY <2>1, <3>1
    <3>3. current[d] = "running" <=> Latest(calls[d]) = "resume"
      BY <1>0 DEF ListOf
    <3>4. Latest(calls[d]) \in Call
      BY <1>0, CallsEnd DEF HaltTypes
    <3>. QED  BY <1>0, <2>2, <3>2, <3>3, <3>4 DEF NextState, Call, HaltTypes
  <2>5. ListOf(d)'
    BY <1>0, <2>2, <2>3, <2>4, GoesOn DEF ListOf, Latest
  <2>6. \A o \in Suspendable \ {d} : ListOf(o)'
    BY <1>0, <2>3, OthersWait DEF HaltTypes
  <2>. QED  BY <1>0, <2>3, <2>5, <2>6 DEF HaltInv, HaltTypes, DaemonFollowsState
<1>2. ASSUME NEW d \in Suspendable, HaltNode(d) PROVE HaltInv'
  <2>1. PICK e : /\ Takes(d, e) /\ ~ e.delay /\ e.event # ""
                 /\ NextState(current[d], e.event) = "suspended"
    BY <1>2 DEF HaltNode
  <2>2. PICK m \in 1 .. Len(fields) :
            /\ e = Timing(fields[m])
            /\ Len(parsed[m]) = pos[d] + 1
            /\ asked[m] = IF fields[m] \in Call /\ fields[m] # Latest(calls[d])
                          THEN Append(calls[d], fields[m]) ELSE calls[d]
    BY <1>0, <2>1, NextField
  <2>3. /\ pos' = [pos EXCEPT ![d] = @ + 1] /\ eventLoop[d] = "events"
        /\ current' = [current EXCEPT ![d] = "suspended"]
        /\ daemon' = [daemon EXCEPT ![d] = IF @ = "up" THEN "down" ELSE @]
        /\ calls' = [calls EXCEPT ![d] = Append(@, "halt")]
        /\ UNCHANGED <<fields, eventLoop>>
    BY <1>2 DEF HaltNode, Takes
  <2>4. current[d] = "running" /\ fields[m] = "halt"
    BY <2>1, <2>2 DEF NextState, Timing
  <2>5. asked[m] = Append(calls[d], "halt") /\ calls[d] \in Seq(Call)
    BY <1>0, <2>2, <2>4 DEF Call, ListOf, HaltTypes
  <2>6. Latest(asked[m]) = "halt"
    BY <2>5 DEF Latest, Last, Call
  <2>7. calls'[d] = asked[m] /\ current'[d] = "suspended" /\ eventLoop'[d] = "events"
    BY <1>0, <2>3, <2>5 DEF HaltTypes
  <2>8. ListOf(d)'
    BY <1>0, <2>2, <2>3, <2>6, <2>7, GoesOn DEF Latest
  <2>9. \A o \in Suspendable \ {d} : ListOf(o)'
    BY <1>0, <2>3, OthersWait DEF HaltTypes
  <2>10. HaltTypes' /\ DaemonFollowsState'
    BY <1>0, <2>3, <2>4 DEF HaltTypes, DaemonFollowsState, Call
  <2>. QED  BY <2>8, <2>9, <2>10 DEF HaltInv
<1>3. ASSUME NEW d \in Suspendable, ResumeNode(d) PROVE HaltInv'
  <2>1. PICK e : /\ Takes(d, e) /\ ~ e.delay /\ e.event # ""
                 /\ NextState(current[d], e.event) = "running"
    BY <1>3 DEF ResumeNode
  <2>2. PICK m \in 1 .. Len(fields) :
            /\ e = Timing(fields[m])
            /\ Len(parsed[m]) = pos[d] + 1
            /\ asked[m] = IF fields[m] \in Call /\ fields[m] # Latest(calls[d])
                          THEN Append(calls[d], fields[m]) ELSE calls[d]
    BY <1>0, <2>1, NextField
  <2>3. PICK outcome \in {"up", "broken"} :
            /\ pos' = [pos EXCEPT ![d] = @ + 1]
            /\ current' = [current EXCEPT ![d] = "running"]
            /\ daemon' = [daemon EXCEPT ![d] = outcome]
            /\ calls' = [calls EXCEPT ![d] = Append(@, "resume")]
            /\ eventLoop' = [eventLoop EXCEPT ![d] = "catchUp"]
            /\ UNCHANGED fields
    BY <1>3 DEF ResumeNode, Takes
  <2>4. current[d] = "suspended" /\ fields[m] = "resume"
    BY <2>1, <2>2 DEF NextState, Timing
  <2>5. asked[m] = Append(calls[d], "resume") /\ calls[d] \in Seq(Call)
    BY <1>0, <2>2, <2>4 DEF Call, ListOf, HaltTypes
  <2>6. Latest(asked[m]) = "resume"
    BY <2>5 DEF Latest, Last, Call
  <2>7. calls'[d] = asked[m] /\ current'[d] = "running" /\ eventLoop'[d] = "catchUp"
    BY <1>0, <2>3, <2>5 DEF HaltTypes
  <2>8. ListOf(d)'
    BY <1>0, <2>2, <2>3, <2>6, <2>7, GoesOn DEF Latest
  <2>9. \A o \in Suspendable \ {d} : ListOf(o)'
    BY <1>0, <2>3, OthersWait DEF HaltTypes
  <2>10. HaltTypes' /\ DaemonFollowsState'
    BY <1>0, <2>3 DEF HaltTypes, DaemonFollowsState, Call
  <2>. QED  BY <2>8, <2>9, <2>10 DEF HaltInv
<1>4. ASSUME NEW d \in Suspendable, CaughtUp(d) \/ GivesUp(d) \/ EventsDone(d) PROVE HaltInv'
  <2>1. /\ UNCHANGED <<fields, pos, current, daemon, calls>>
        /\ \/ eventLoop' = [eventLoop EXCEPT ![d] = "events"]
           \/ eventLoop' = [eventLoop EXCEPT ![d] = "done"] /\ pos[d] = Len(events)
    BY <1>4 DEF CaughtUp, GivesUp, EventsDone
  <2>2. HaltTypes' /\ DaemonFollowsState'
    BY <1>0, <2>1 DEF HaltTypes, DaemonFollowsState
  <2>3. \A o \in Suspendable \ {d} : ListOf(o)'
    BY <1>0, <2>1, OthersWait DEF HaltTypes
  <2>4. ListOf(d)'
    <3>1. eventLoop'[d] = "done" => pos[d] = Len(events)
      BY <1>0, <2>1 DEF HaltTypes
    <3>2. ListOf(d)
      BY <1>0
    <3>. QED  BY <2>1, <3>1, <3>2, ListStays DEF ListOf, Through, Latest
  <2>. QED  BY <2>2, <2>3, <2>4 DEF HaltInv
<1>5. CASE UNCHANGED haltVars
  BY <1>0, <1>5, OthersWait DEF haltVars, HaltInv, HaltTypes, DaemonFollowsState
<1>. QED  BY <1>1, <1>2, <1>3, <1>4, <1>5 DEF HaltNext, EventStep

\* The inductive invariant: every node has been through some number of fields.
THEOREM InductiveHalt == HaltSpec => []HaltInv
BY InitHalt, NextHalt, PTL DEF HaltSpec

\* The state machine of a node is suspended exactly when its daemon has been stopped,
\* unless a start has failed, whatever the list of events, and for any number of nodes: a
\* halt or a resume is never passed on in a state that already is what it asks for.
THEOREM DaemonFollowsStateHolds == HaltSpec => []DaemonFollowsState
<1>1. HaltInv => DaemonFollowsState
  BY DEF HaltInv
<1>. QED  BY <1>1, InductiveHalt, PTL

\* The daemon of a node gets the halts and resumes its list asks for, in order, none twice
\* in a row and never one too many, and all of them when the list is through: for any list
\* of fields of any length, with waits, bad waits and unknown words between them.
THEOREM CallsAsSpecifiedHolds == HaltSpec => []CallsAsSpecified
<1>1. HaltInv => CallsAsSpecified
  <2>. SUFFICES ASSUME HaltInv PROVE CallsAsSpecified
    OBVIOUS
  <2>1. HaltTypes /\ \A d \in Suspendable : ListOf(d)
    BY DEF HaltInv
  <2>2. PICK k \in Nat : k = Len(fields) /\ k <= MaxFields /\ fields \in Seq(Field)
    BY <2>1 DEF HaltTypes
  <2>3. \A n \in 0 .. k : Len(parsed[n]) \in Nat /\ Len(parsed[n]) <= k
    BY <2>2, EventsComeFrom
  <2>4. HaltTypeOK
    <3>1. \A d \in Suspendable : pos[d] \in 0 .. MaxFields
      BY <2>1, <2>2, <2>3, NodesAssumption DEF ListOf, Through
    <3>. QED  BY <2>1, <3>1 DEF HaltTypes, HaltTypeOK, Call
  <2>5. ASSUME NEW d \in Suspendable
        PROVE  /\ IsPrefix(calls[d], Effective)
               /\ eventLoop[d] = "done" => calls[d] = Effective
    <3>1. PICK n \in 0 .. k : Through(d, n)
      BY <2>1, <2>2 DEF ListOf
    <3>2. IsPrefix(calls[d], Effective)
      BY <2>2, <3>1, AskedGrows DEF Through
    <3>3. ASSUME eventLoop[d] = "done" PROVE calls[d] = Effective
      <4>1. Len(parsed[n]) = Len(parsed[k])
        BY <2>1, <2>2, <3>1, <3>3 DEF ListOf, Through, events
      <4>2. asked[n] = asked[k]
        BY <2>2, <4>1, AsMuchAsked, k \in 0 .. k
      <4>. QED  BY <2>2, <3>1, <4>2 DEF Through, Effective
    <3>. QED  BY <3>2, <3>3
  <2>. QED  BY <2>4, <2>5 DEF CallsAsSpecified
<1>. QED  BY <1>1, InductiveHalt, PTL

=============================================================================
