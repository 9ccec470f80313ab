--------------------------- MODULE GraphsyncStress ---------------------------
(***************************************************************************)
(* The graphsync stress test (graphsync/main.go): one provider and some    *)
(* requestors go through one round per pair of network parameters.  In     *)
(* each round the provider replaces the files of its store, publishes      *)
(* their CIDs and has the network shaped; the requestors then download and *)
(* measure.  The measurements are about the parameters of the round only   *)
(* if the instances stay together, which the sync service has to see to.   *)
(*                                                                         *)
(* The files of a round, and their CIDs, are the number of the round.  The *)
(* sidecar, which shapes the network, and graphsync itself are external.   *)
(***************************************************************************)
EXTENDS Naturals, FiniteSets, Sequences

CONSTANTS
    Provider,   \* the one instance of group "providers"
    Requestor,  \* the instances of group "requestors"
    Bandwidths, \* the test parameters, as sequences
    Latencies,
    None        \* no peer

ASSUME GroupsAssumption ==
    /\ IsFiniteSet(Requestor) /\ Requestor # {}
    /\ Provider \notin Requestor
    /\ None \notin Requestor \cup {Provider}

ASSUME ParamsAssumption == Bandwidths \in Seq(Nat) /\ Latencies \in Seq(Nat)

VARIABLES
    pc,         \* pc[n]: where instance n is in runStress
    round,      \* round[n]: the loop variable
    peers,      \* topic "peers"
    dialled,    \* dialled[r]: the peer requestor r sends its requests to
    next,       \* next[i]: the counter of state "next-i"
    cids,       \* the rounds whose CIDs are in their topic "cid-i"
    configured, \* configured[i]: the counter of state "network-configured-i"
    network,    \* the parameters the network is shaped with
    store,      \* the rounds whose files, by their root nodes, are in the provider's store
    done,       \* the counter of state "done"
    failed      \* the instances that return an error

vars == <<pc, round, peers, dialled, next, cids, configured, network, store, done, failed>>

Node == Requestor \cup {Provider}
TestInstanceCount == Cardinality(Node)

\* parseNetworkConfig: zero, for no limit, is put before the given values; the
\* latencies vary faster.
Params ==
    LET bws  == <<0>> \o Bandwidths
        lats == <<0>> \o Latencies
    IN  [i \in 1 .. Len(bws) * Len(lats) |->
            [bandwidth |-> bws[((i - 1) \div Len(lats)) + 1],
             latency   |-> lats[((i - 1) % Len(lats)) + 1]]]

Round == 0 .. Len(Params) - 1

Init ==
    /\ pc = [n \in Node |-> "publish"]
    /\ round = [n \in Node |-> 0]
    /\ peers = <<>>
    /\ dialled = [r \in Requestor |-> None]
    /\ next = [i \in Round |-> 0]
    /\ cids = {}
    /\ configured = [i \in Round |-> 0]
    /\ network = [bandwidth |-> 0, latency |-> 0]
    /\ store = {}
    /\ done = 0
    /\ failed = {}

Goto(n, from, to) ==
    /\ pc[n] = from
    /\ pc' = [pc EXCEPT ![n] = to]

-----------------------------------------------------------------------------
(* makeHost: tell the others where I am, and wait for all of them. *)

PublishPeer(n) ==
    /\ Goto(n, "publish", "collect")
    /\ peers' = Append(peers, n)
    /\ UNCHANGED <<round, dialled, next, cids, configured, network, store, done, failed>>

\* The first peer in the topic that is not n itself.
FirstOther(n) == IF peers[1] # n THEN peers[1] ELSE peers[2]

CollectPeers(n) ==
    /\ Len(peers) = TestInstanceCount
    /\ Goto(n, "collect", IF n = Provider THEN "next" ELSE "dial")
    /\ UNCHANGED <<round, peers, dialled, next, cids, configured, network, store, done, failed>>

\* p := *peers[0], host.Connect(p)
Dial(r) ==
    /\ Goto(r, "dial", "next")
    /\ dialled' = [dialled EXCEPT ![r] = FirstOther(r)]
    /\ UNCHANGED <<round, peers, next, cids, configured, network, store, done, failed>>

-----------------------------------------------------------------------------
(* The start of a round, for all. *)

SignalNext(n) ==
    /\ Goto(n, "next", "nextWait")
    /\ next' = [next EXCEPT ![round[n]] = @ + 1]
    /\ UNCHANGED <<round, peers, dialled, cids, configured, network, store, done, failed>>

\* Faulty variant: the provider does not wait for the requestors.
PassNext_ProviderAhead(n) ==
    /\ n = Provider \/ next[round[n]] >= TestInstanceCount
    /\ Goto(n, "nextWait", IF n = Provider THEN "remove" ELSE "cids")
    /\ UNCHANGED <<round, peers, dialled, next, cids, configured, network, store, done, failed>>

PassNext(n) ==
    /\ next[round[n]] >= TestInstanceCount
    /\ Goto(n, "nextWait", IF n = Provider THEN "remove" ELSE "cids")
    /\ UNCHANGED <<round, peers, dialled, next, cids, configured, network, store, done, failed>>

\* The end of a round: on to the next one, or out of the loop.
EndRound(n) ==
    /\ pc' = [pc EXCEPT ![n] = IF round[n] + 1 \in Round THEN "next" ELSE "done"]
    /\ round' = [round EXCEPT ![n] = IF round[n] + 1 \in Round THEN @ + 1 ELSE @]

-----------------------------------------------------------------------------
(* runProvider. *)

RemoveFiles ==
    /\ Goto(Provider, "remove", "add")
    /\ store' = {}
    /\ UNCHANGED <<round, peers, dialled, next, cids, configured, network, done, failed>>

AddFiles ==
    /\ Goto(Provider, "add", "publishCids")
    /\ store' = store \cup {round[Provider]}
    /\ UNCHANGED <<round, peers, dialled, next, cids, configured, network, done, failed>>

PublishCids ==
    /\ Goto(Provider, "publishCids", "shape")
    /\ cids' = cids \cup {round[Provider]}
    /\ UNCHANGED <<round, peers, dialled, next, configured, network, store, done, failed>>

\* MustConfigureNetwork: the sidecar shapes the network ...
ShapeNetwork ==
    /\ Goto(Provider, "shape", "shaped")
    /\ network' = Params[round[Provider] + 1]
    /\ UNCHANGED <<round, peers, dialled, next, cids, configured, store, done, failed>>

\* Faulty variant: the callback state is not entered.
NetworkConfigured_NoSignal ==
    /\ pc[Provider] = "shaped"
    /\ EndRound(Provider)
    /\ UNCHANGED <<peers, dialled, next, cids, configured, network, store, done, failed>>

\* ... and enters the callback state, which the provider waits for.
NetworkConfigured ==
    /\ pc[Provider] = "shaped"
    /\ EndRound(Provider)
    /\ configured' = [configured EXCEPT ![round[Provider]] = @ + 1]
    /\ UNCHANGED <<peers, dialled, next, cids, network, store, done, failed>>

-----------------------------------------------------------------------------
(* runRequestor. *)

GetCids(r) ==
    /\ round[r] \in cids
    /\ Goto(r, "cids", "net")
    /\ UNCHANGED <<round, peers, dialled, next, cids, configured, network, store, done, failed>>

\* Faulty variant: the barrier is that of the previous round.
PassNet_Previous(r) ==
    /\ \A i \in Round : i + 1 = round[r] => configured[i] >= 1
    /\ Goto(r, "net", "download")
    /\ UNCHANGED <<round, peers, dialled, next, cids, configured, network, store, done, failed>>

PassNet(r) ==
    /\ configured[round[r]] >= 1
    /\ Goto(r, "net", "download")
    /\ UNCHANGED <<round, peers, dialled, next, cids, configured, network, store, done, failed>>

\* The provider has the files: all requests of the round succeed.
Download(r) ==
    /\ pc[r] = "download"
    /\ dialled[r] = Provider /\ round[r] \in store /\ pc[Provider] # "closed"
    /\ EndRound(r)
    /\ UNCHANGED <<peers, dialled, next, cids, configured, network, store, done, failed>>

\* An error is returned: a peer cannot be dialled, a request fails, or the files of
\* a round cannot be built.
Fail(n) ==
    /\ \/ n \in Requestor /\ pc[n] \in {"dial", "download"}
       \/ n = Provider /\ pc[n] = "add"
    /\ pc' = [pc EXCEPT ![n] = "done"]
    /\ failed' = failed \cup {n}
    /\ UNCHANGED <<round, peers, dialled, next, cids, configured, network, store, done>>

-----------------------------------------------------------------------------
(* The deferred calls of runStress: the barrier "done", then host.Close. *)

SignalDone(n) ==
    /\ Goto(n, "done", "doneWait")
    /\ done' = done + 1
    /\ UNCHANGED <<round, peers, dialled, next, cids, configured, network, store, failed>>

\* Faulty variant: the host is closed without waiting for the others.
PassDone_NoBarrier(n) ==
    /\ Goto(n, "doneWait", "closed")
    /\ UNCHANGED <<round, peers, dialled, next, cids, configured, network, store, done, failed>>

PassDone(n) ==
    /\ done >= TestInstanceCount
    /\ Goto(n, "doneWait", "closed")
    /\ UNCHANGED <<round, peers, dialled, next, cids, configured, network, store, done, failed>>

-----------------------------------------------------------------------------

ProviderStep ==
    RemoveFiles \/ AddFiles \/ PublishCids \/ ShapeNetwork \/ NetworkConfigured

RequestorStep(r) == Dial(r) \/ GetCids(r) \/ PassNet(r) \/ Download(r)

Step(n) ==
    \/ PublishPeer(n) \/ CollectPeers(n)
    \/ SignalNext(n) \/ PassNext(n)
    \/ SignalDone(n) \/ PassDone(n)
    \/ n = Provider /\ ProviderStep
    \/ n \in Requestor /\ RequestorStep(n)

Next == \E n \in Node : Step(n) \/ Fail(n)

Spec == Init /\ [][Next]_vars

\* Each instance goes on as long as it can; only a request to a peer that does not
\* serve any is sure to fail.
FairSpec ==
    /\ Spec
    /\ \A n \in Node : WF_vars(Step(n))
    /\ \A r \in Requestor : WF_vars(pc[r] = "download" /\ dialled[r] # Provider /\ Fail(r))

-----------------------------------------------------------------------------
(* Properties. *)

TypeOK ==
    /\ pc \in [Node -> {"publish", "collect", "dial", "next", "nextWait", "remove", "add",
                        "publishCids", "shape", "shaped", "cids", "net", "download",
                        "done", "doneWait", "closed"}]
    /\ round \in [Node -> Round]
    /\ peers \in Seq(Node)
    /\ dialled \in [Requestor -> Node \cup {None}]
    /\ next \in [Round -> 0 .. TestInstanceCount]
    /\ cids \subseteq Round
    /\ configured \in [Round -> 0 .. 1]
    /\ network \in {Params[i] : i \in DOMAIN Params}
    /\ store \subseteq Round
    /\ done \in 0 .. TestInstanceCount
    /\ failed \subseteq Node

\* While a requestor measures round i, the network has the parameters of round i and
\* the store has the files of round i, whatever the others are doing.
\* (The variables have their types.)
MeasuresItsRound ==
    /\ TypeOK
    /\ \A r \in Requestor :
           pc[r] = "download" =>
               /\ network = Params[round[r] + 1]
               /\ store = {round[r]}

\* No instance closes its host while another one may still use it.
HostsOutliveRequests ==
    (\E n \in Node : pc[n] = "closed") =>
        \A n \in Node : pc[n] \in {"doneWait", "closed"}

\* n gave up before its first round.
NeverStarted(n) == n \in Requestor /\ n \in failed /\ dialled[n] = None

roundsEntered ==
    [n \in Node |-> IF pc[n] \in {"publish", "collect", "dial", "next"} \/ NeverStarted(n)
                    THEN round[n] ELSE round[n] + 1]

roundsPassed ==
    [n \in Node |-> IF pc[n] \in {"publish", "collect", "dial", "next", "nextWait"} \/ NeverStarted(n)
                    THEN round[n] ELSE round[n] + 1]

\* The barriers "next-i", for all i.
Barriers == INSTANCE Rounds WITH
    Party <- Node, entered <- roundsEntered, passed <- roundsPassed

\* Provider and requestors implement the abstract rounds: the loops of both groups enter
\* "next-i" once per round, and nobody gets through a round before all have entered it,
\* also when an instance fails in the middle of one.
ImplementsRounds == Barriers!Spec

\* All rounds are measured and every host is closed, unless an instance fails.
Completes ==
    <>((\A n \in Node : pc[n] = "closed") \/ failed # {})

=============================================================================
