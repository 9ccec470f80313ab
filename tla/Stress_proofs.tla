---------------------------- MODULE Stress_proofs ---------------------------
(***************************************************************************)
(* Proofs about the two stress tests: GraphsyncStress for any number of    *)
(* requestors and any bandwidths and latencies, and PaychStress for any    *)
(* number of lanes and vouchers: with any number of senders what a sender  *)
(* thinks is left in its channel, with one sender when it settles.         *)
(*                                                                         *)
(* Nothing in the code names the round that the network and the store of   *)
(* the provider belong to.  The argument is that the counter of "next-i"   *)
(* keeps everybody within one round of the provider, and that the counter  *)
(* of "network-configured-i" tells a requestor on which side of the        *)
(* provider it is: a requestor that measures is in the round the provider  *)
(* has just finished, and the provider cannot get into the next one.       *)
(***************************************************************************)
EXTENDS GraphsyncStress, PaychStress, Counting

Final == {"done", "doneWait", "closed"}

ProviderPc ==
    {"publish", "collect", "next", "nextWait", "remove", "add", "publishCids", "shape", "shaped"}
        \cup Final

RequestorPc ==
    {"publish", "collect", "dial", "next", "nextWait", "cids", "net", "download"} \cup Final

\* Before the first round.
Starting == {"publish", "collect", "dial"}

Types ==
    /\ pc \in [Node -> ProviderPc \cup RequestorPc]
    /\ pc[Provider] \in ProviderPc
    /\ \A r \in Requestor : pc[r] \in RequestorPc
    /\ round \in [Node -> Round]
    /\ peers \in Seq(Node)
    /\ dialled \in [Requestor -> Node \cup {None}]
    /\ next \in [Round -> Nat]
    /\ cids \subseteq Round
    /\ configured \in [Round -> Nat]
    /\ network \in {Params[i] : i \in DOMAIN Params}
    /\ store \subseteq Round
    /\ done \in Nat
    /\ failed \subseteq Node

Beginning ==
    /\ \A n \in Node : pc[n] \in Starting => round[n] = 0
    /\ \A r \in Requestor : pc[r] \in Starting => dialled[r] = None
    /\ \A r \in Requestor : pc[r] \in RequestorPc \ (Starting \cup Final) => dialled[r] # None
    /\ \A n \in Node : pc[n] = "dial" => Len(peers) >= 2
    /\ \A n \in failed : pc[n] \in Final

TypeInv == Types /\ Beginning

\* The counter of "next-i" says how many have entered it.
NextCounts ==
    \A i \in Round : next[i] = Cardinality({n \in Node : i < roundsEntered[n]})

\* Nobody has got through a barrier that somebody has not entered.
RoundsTogether == \A n, o \in Node : roundsPassed[n] <= roundsEntered[o]

RoundInv == NextCounts /\ RoundsTogether

\* The provider has finished its last round.
ProviderFinished == pc[Provider] \in Final /\ Provider \notin failed

\* "network-configured-i" is entered for the rounds that the provider has finished.
ConfiguredInv ==
    /\ \A i \in Round :
           configured[i] = IF i < round[Provider] \/ (i = round[Provider] /\ ProviderFinished)
                           THEN 1 ELSE 0
    /\ \A r \in Requestor : pc[r] = "download" => configured[round[r]] >= 1

\* The network and the store are those of round i.
SetUpFor(i) == network = Params[i + 1] /\ store = {i}

ProviderInv ==
    /\ pc[Provider] \in {"next", "nextWait"} =>
           round[Provider] = 0 \/ SetUpFor(round[Provider] - 1)
    /\ pc[Provider] = "add" => store = {}
    /\ pc[Provider] \in {"publishCids", "shape"} => store = {round[Provider]}
    /\ pc[Provider] = "shaped" => SetUpFor(round[Provider])
    /\ ProviderFinished => SetUpFor(round[Provider])

\* The counter of "done" says how many have entered it.
AtDone(n) == pc[n] \in {"doneWait", "closed"}

DoneInv ==
    /\ done = Cardinality({n \in Node : AtDone(n)})
    /\ (\E n \in Node : pc[n] = "closed") => \A n \in Node : AtDone(n)

IInv == TypeInv /\ RoundInv /\ ConfiguredInv /\ ProviderInv /\ DoneInv

-----------------------------------------------------------------------------
(* The parameters of the rounds. *)

\* The zero values are put before the given ones: there is a first round, and nothing is
\* limited in it.
LEMMA ParamsNotEmpty ==
    /\ Len(Params) \in Nat /\ Len(Params) >= 1
    /\ DOMAIN Params = 1 .. Len(Params)
    /\ Params[1] = [bandwidth |-> 0, latency |-> 0]
<1>. DEFINE bws  == <<0>> \o Bandwidths
            lats == <<0>> \o Latencies
            Number == Len(bws) * Len(lats)
<1>1. /\ Len(bws) \in Nat /\ Len(bws) >= 1 /\ bws[1] = 0
      /\ Len(lats) \in Nat /\ Len(lats) >= 1 /\ lats[1] = 0
  BY ParamsAssumption
<1>2. Params = [i \in 1 .. Number |->
            [bandwidth |-> bws[((i - 1) \div Len(lats)) + 1],
             latency   |-> lats[((i - 1) % Len(lats)) + 1]]]
  BY DEF Params
<1>. HIDE DEF bws, lats
<1>3. Number \in Nat /\ Number >= 1
  BY <1>1
<1>4. Len(Params) = Number /\ DOMAIN Params = 1 .. Number
  <2>. HIDE DEF Number
  <2>. QED  BY <1>2, <1>3
<1>5. (1 - 1) \div Len(lats) = 0 /\ (1 - 1) % Len(lats) = 0
  BY <1>1
<1>6. Params[1] = [bandwidth |-> bws[((1 - 1) \div Len(lats)) + 1],
                   latency   |-> lats[((1 - 1) % Len(lats)) + 1]]
  <2>1. 1 \in 1 .. Number
    BY <1>3
  <2>. HIDE DEF Number
  <2>. QED  BY <1>2, <2>1
<1>7. Params[1] = [bandwidth |-> 0, latency |-> 0]
  BY <1>1, <1>5, <1>6
<1>. QED  BY <1>3, <1>4, <1>7

\* The rounds are numbered from 0.
LEMMA RoundsFromZero ==
    /\ 0 \in Round
    /\ \A i \in Round : i \in Nat /\ i + 1 \in Nat /\ i + 1 \in DOMAIN Params
    /\ \A i \in Round, j \in Nat : j <= i => j \in Round
BY ParamsNotEmpty DEF Round

\* There are at least two instances, the provider and a requestor.
LEMMA TwoInstances ==
    IsFiniteSet(Node) /\ TestInstanceCount \in Nat /\ TestInstanceCount >= 2
<1>1. IsFiniteSet(Node)
  BY GroupsAssumption, FS_AddElement DEF Node
<1>2. PICK r \in Requestor : TRUE
  BY GroupsAssumption
<1>3. Cardinality({Provider, r}) = 2
  <2>1. Cardinality({r}) = 1 /\ IsFiniteSet({r})
    BY FS_Singleton
  <2>2. Provider \notin {r}
    BY GroupsAssumption
  <2>3. {r} \cup {Provider} = {Provider, r}
    OBVIOUS
  <2>. QED  BY <2>1, <2>2, <2>3, FS_AddElement
<1>4. {Provider, r} \in SUBSET Node
  BY DEF Node
<1>5. Cardinality({Provider, r}) \in 0 .. Cardinality(Node)
  BY <1>1, <1>4, CountBound
<1>. QED  BY <1>1, <1>3, <1>5, FS_CardinalityType DEF TestInstanceCount

-----------------------------------------------------------------------------
(* Types. *)

LEMMA InitType == Init => TypeInv
<1>. SUFFICES ASSUME Init PROVE TypeInv
  OBVIOUS
<1>1. network \in {Params[i] : i \in DOMAIN Params}
  BY ParamsNotEmpty DEF Init
<1>2. Types
  BY <1>1, RoundsFromZero, GroupsAssumption DEF Init, Types, ProviderPc, RequestorPc, Node
<1>3. Beginning
  BY DEF Init, Beginning, Starting, Final, RequestorPc, NeverStarted, Node
<1>. QED  BY <1>2, <1>3 DEF TypeInv

\* The first peer in the topic that is not a requestor itself is some instance.
LEMMA FirstOtherNode ==
    ASSUME TypeInv, NEW r \in Requestor, pc[r] = "dial"
    PROVE  FirstOther(r) \in Node
<1>1. Len(peers) >= 2 /\ peers \in Seq(Node)
  BY DEF TypeInv, Types, Beginning, Node
<1>2. peers[1] \in Node /\ peers[2] \in Node
  BY <1>1
<1>. QED  BY <1>2 DEF FirstOther

LEMMA NextType == TypeInv /\ [Next]_vars => TypeInv'
<1>. SUFFICES ASSUME TypeInv, [Next]_vars PROVE TypeInv'
  OBVIOUS
<1>. USE DEF TypeInv, Types, Beginning, ProviderPc, RequestorPc, Final, Starting, NeverStarted
<1>0. Provider \in Node /\ Requestor \subseteq Node /\ Provider \notin Requestor
  BY GroupsAssumption DEF Node
<1>1. ASSUME NEW n \in Node, Step(n) PROVE TypeInv'
  <2>1. CASE PublishPeer(n)
    <3>1. peers' \in Seq(Node) /\ Len(peers') = Len(peers) + 1
      BY <2>1 DEF PublishPeer
    <3>. QED  BY <1>0, <2>1, <3>1 DEF PublishPeer, Goto
  <2>2. CASE CollectPeers(n)
    <3>1. Len(peers) >= 2
      BY <2>2, TwoInstances DEF CollectPeers
    <3>. QED  BY <1>0, <2>2, <3>1 DEF CollectPeers, Goto, Node
  <2>3. CASE n \in Requestor /\ Dial(n)
    <3>1. FirstOther(n) \in Node /\ FirstOther(n) # None
      <4>1. FirstOther(n) \in Node
        BY <2>3, FirstOtherNode DEF Dial, Goto
      <4>. QED  BY <4>1, GroupsAssumption DEF Node
    <3>. QED  BY <1>0, <2>3, <3>1 DEF Dial, Goto
  <2>4. CASE SignalNext(n)       BY <1>0, <2>4 DEF SignalNext, Goto
  <2>5. CASE PassNext(n)         BY <1>0, <2>5 DEF PassNext, Goto, Node
  <2>6. CASE SignalDone(n)       BY <1>0, <2>6 DEF SignalDone, Goto
  <2>7. CASE PassDone(n)         BY <1>0, <2>7 DEF PassDone, Goto
  <2>8. CASE RemoveFiles         BY <1>0, <2>8 DEF RemoveFiles, Goto
  <2>9. CASE AddFiles            BY <1>0, <2>9 DEF AddFiles, Goto
  <2>10. CASE PublishCids        BY <1>0, <2>10 DEF PublishCids, Goto
  <2>11. CASE ShapeNetwork       BY <1>0, <2>11, RoundsFromZero DEF ShapeNetwork, Goto
  <2>12. CASE NetworkConfigured  BY <1>0, <2>12 DEF NetworkConfigured, EndRound
  <2>13. CASE n \in Requestor /\ GetCids(n)   BY <1>0, <2>13 DEF GetCids, Goto
  <2>14. CASE n \in Requestor /\ PassNet(n)   BY <1>0, <2>14 DEF PassNet, Goto
  <2>15. CASE n \in Requestor /\ Download(n)  BY <1>0, <2>15 DEF Download, EndRound
  <2>. QED  BY <1>1, <2>1, <2>2, <2>3, <2>4, <2>5, <2>6, <2>7, <2>8, <2>9, <2>10, <2>11,
               <2>12, <2>13, <2>14, <2>15 DEF Step, ProviderStep, RequestorStep
<1>2. ASSUME NEW n \in Node, Fail(n) PROVE TypeInv'
  BY <1>0, <1>2 DEF Fail
<1>3. CASE UNCHANGED vars
  BY <1>3 DEF vars
<1>. QED  BY <1>1, <1>2, <1>3 DEF Next

-----------------------------------------------------------------------------
(* What the steps do to the number of rounds entered and passed. *)

LEMMA RoundNumbers ==
    ASSUME Types, NEW n \in Node
    PROVE  roundsEntered[n] \in Nat /\ roundsPassed[n] \in Nat
BY RoundsFromZero DEF Types, roundsEntered, roundsPassed

\* What happens to the numbers of one instance, as long as the others keep theirs.
LEMMA OneInstance ==
    ASSUME NEW n \in Node,
           \A o \in Node \ {n} :
               /\ pc'[o] = pc[o] /\ round'[o] = round[o]
               /\ NeverStarted(o)' <=> NeverStarted(o)
    PROVE  /\ roundsEntered' = [roundsEntered EXCEPT ![n] = roundsEntered'[n]]
           /\ roundsPassed' = [roundsPassed EXCEPT ![n] = roundsPassed'[n]]
BY DEF roundsEntered, roundsPassed

\* Entering "next-i" enters round i.
LEMMA SignalEnters ==
    ASSUME TypeInv, NEW n \in Node, SignalNext(n)
    PROVE  /\ roundsEntered[n] = round[n] /\ roundsPassed[n] = round[n]
           /\ roundsEntered' = [roundsEntered EXCEPT ![n] = round[n] + 1]
           /\ UNCHANGED roundsPassed
<1>1. /\ pc[n] = "next" /\ pc'[n] = "nextWait"
      /\ ~NeverStarted(n) /\ UNCHANGED <<round, dialled, failed>>
  BY DEF SignalNext, Goto, TypeInv, Types, Beginning, NeverStarted, Final
<1>2. \A o \in Node \ {n} : pc'[o] = pc[o]
  BY DEF SignalNext, Goto, TypeInv, Types
<1>3. /\ roundsEntered' = [roundsEntered EXCEPT ![n] = roundsEntered'[n]]
      /\ roundsPassed' = [roundsPassed EXCEPT ![n] = roundsPassed'[n]]
  BY <1>1, <1>2, OneInstance DEF NeverStarted
<1>4. /\ roundsEntered[n] = round[n] /\ roundsPassed[n] = round[n]
      /\ roundsEntered'[n] = round[n] + 1 /\ roundsPassed'[n] = round[n]
  BY <1>1 DEF roundsEntered, roundsPassed, NeverStarted
<1>5. UNCHANGED roundsPassed
  BY <1>3, <1>4, ZenonT(60) DEF roundsPassed
<1>. QED  BY <1>3, <1>4, <1>5

\* Getting through "next-i" passes round i, which n has entered.
LEMMA PassPasses ==
    ASSUME TypeInv, NEW n \in Node, PassNext(n)
    PROVE  /\ roundsEntered[n] = round[n] + 1 /\ roundsPassed[n] = round[n]
           /\ roundsPassed' = [roundsPassed EXCEPT ![n] = round[n] + 1]
           /\ UNCHANGED roundsEntered
<1>1. /\ pc[n] = "nextWait" /\ pc'[n] \in {"remove", "cids"}
      /\ ~NeverStarted(n) /\ UNCHANGED <<round, dialled, failed>>
  BY DEF PassNext, Goto, TypeInv, Types, Beginning, NeverStarted, Final
<1>2. \A o \in Node \ {n} : pc'[o] = pc[o]
  BY DEF PassNext, Goto, TypeInv, Types
<1>3. /\ roundsEntered' = [roundsEntered EXCEPT ![n] = roundsEntered'[n]]
      /\ roundsPassed' = [roundsPassed EXCEPT ![n] = roundsPassed'[n]]
  BY <1>1, <1>2, OneInstance DEF NeverStarted
<1>4. /\ roundsEntered[n] = round[n] + 1 /\ roundsPassed[n] = round[n]
      /\ roundsEntered'[n] = round[n] + 1 /\ roundsPassed'[n] = round[n] + 1
  BY <1>1 DEF roundsEntered, roundsPassed, NeverStarted
<1>5. UNCHANGED roundsEntered
  BY <1>3, <1>4 DEF roundsEntered
<1>. QED  BY <1>3, <1>4, <1>5

\* All other steps stay where they are, the failing ones too.
Elsewhere(n) ==
    \/ PublishPeer(n) \/ CollectPeers(n) \/ SignalDone(n) \/ PassDone(n) \/ Fail(n)
    \/ n = Provider /\ ProviderStep
    \/ n \in Requestor /\ RequestorStep(n)

LEMMA OthersStay ==
    ASSUME TypeInv, NEW n \in Node, Elsewhere(n)
    PROVE  UNCHANGED <<roundsEntered, roundsPassed, next>>
<1>0. Types /\ Beginning /\ Provider \notin Requestor
  BY GroupsAssumption DEF TypeInv
<1>1. UNCHANGED next
  BY DEF Elsewhere, PublishPeer, CollectPeers, SignalDone, PassDone, Fail, ProviderStep, RequestorStep,
         RemoveFiles, AddFiles, PublishCids, ShapeNetwork, NetworkConfigured, Dial, GetCids,
         PassNet, Download
<1>2. \A o \in Node \ {n} :
          pc'[o] = pc[o] /\ round'[o] = round[o] /\ (NeverStarted(o)' <=> NeverStarted(o))
  BY <1>0 DEF Elsewhere, PublishPeer, CollectPeers, SignalDone, PassDone, Fail, ProviderStep,
         RequestorStep, RemoveFiles, AddFiles, PublishCids, ShapeNetwork, NetworkConfigured,
         Dial, GetCids, PassNet, Download, EndRound, Goto, Types, NeverStarted
<1>3. /\ roundsEntered' = [roundsEntered EXCEPT ![n] = roundsEntered'[n]]
      /\ roundsPassed' = [roundsPassed EXCEPT ![n] = roundsPassed'[n]]
  BY <1>2, OneInstance
<1>4. roundsEntered'[n] = roundsEntered[n] /\ roundsPassed'[n] = roundsPassed[n]
  <2>. USE DEF roundsEntered, roundsPassed
  <2>1. CASE PublishPeer(n) \/ CollectPeers(n) \/ SignalDone(n) \/ PassDone(n)
    <3>1. UNCHANGED <<round, dialled, failed>>
      BY <2>1 DEF PublishPeer, CollectPeers, SignalDone, PassDone
    <3>2. NeverStarted(n)' <=> NeverStarted(n)
      BY <3>1 DEF NeverStarted
    <3>. QED  BY <1>0, <2>1, <3>1, <3>2 DEF PublishPeer, CollectPeers, SignalDone, PassDone, Goto, Types
  <2>2. CASE n = Provider /\ (ProviderStep \/ Fail(n))
    <3>1. ~NeverStarted(n) /\ ~NeverStarted(n)'
      BY <1>0, <2>2 DEF NeverStarted
    <3>. QED  BY <1>0, <2>2, <3>1 DEF ProviderStep, RemoveFiles, AddFiles, PublishCids, ShapeNetwork,
                                      NetworkConfigured, EndRound, Goto, Fail, Types
  <2>3. CASE n \in Requestor /\ RequestorStep(n)
    <3>1. pc[n] \notin Final
      BY <2>3 DEF RequestorStep, Dial, GetCids, PassNet, Download, Goto, Final
    <3>2. ~NeverStarted(n) /\ ~NeverStarted(n)'
      BY <1>0, <2>3, <3>1 DEF RequestorStep, Dial, GetCids, PassNet, Download, NeverStarted, Beginning
    <3>. QED  BY <1>0, <2>3, <3>2 DEF RequestorStep, Dial, GetCids, PassNet, Download, EndRound, Goto, Types
  <2>4. CASE n \in Requestor /\ Fail(n)
    <3>1. CASE pc[n] = "dial"
      <4>1. NeverStarted(n)'
        BY <1>0, <2>4, <3>1 DEF Fail, NeverStarted, Beginning, Starting
      <4>. QED  BY <2>4, <3>1, <4>1 DEF Fail
    <3>2. CASE pc[n] = "download"
      <4>1. ~NeverStarted(n) /\ ~NeverStarted(n)'
        BY <1>0, <2>4, <3>2 DEF Fail, NeverStarted, Beginning, Starting, RequestorPc, Final
      <4>. QED  BY <1>0, <2>4, <3>2, <4>1 DEF Fail, Types
    <3>. QED  BY <1>0, <2>4, <3>1, <3>2 DEF Fail
  <2>. QED  BY <2>1, <2>2, <2>3, <2>4 DEF Elsewhere, Node
<1>5. UNCHANGED roundsEntered
  BY <1>3, <1>4 DEF roundsEntered
<1>6. UNCHANGED roundsPassed
  BY <1>3, <1>4 DEF roundsPassed
<1>. QED  BY <1>1, <1>5, <1>6

\* Every step enters a round, gets through one, or does neither.
LEMMA StepKinds ==
    ASSUME TypeInv, [Next]_vars
    PROVE  \/ \E n \in Node : SignalNext(n) \/ PassNext(n)
           \/ UNCHANGED <<roundsEntered, roundsPassed, next>>
<1>1. ASSUME NEW n \in Node, Elsewhere(n) PROVE UNCHANGED <<roundsEntered, roundsPassed, next>>
  BY <1>1, OthersStay
<1>2. ASSUME UNCHANGED vars PROVE UNCHANGED <<roundsEntered, roundsPassed, next>>
  BY <1>2 DEF vars, roundsEntered, roundsPassed, NeverStarted
<1>. QED  BY <1>1, <1>2 DEF Next, Step, Elsewhere

-----------------------------------------------------------------------------
(* Rounds. *)

LEMMA InitRound == Init => RoundInv
<1>. SUFFICES ASSUME Init PROVE RoundInv
  OBVIOUS
<1>1. \A n \in Node : roundsEntered[n] = 0 /\ roundsPassed[n] = 0
  BY DEF Init, roundsEntered, roundsPassed
<1>2. \A i \in Round : {n \in Node : i < roundsEntered[n]} = {}
  BY <1>1, RoundsFromZero
<1>3. NextCounts
  BY <1>2, FS_EmptySet DEF NextCounts, Init
<1>. QED  BY <1>1, <1>3 DEF RoundInv, RoundsTogether

\* Entering "next-i" adds n, and only n, to the counter of that state.
LEMMA EnterRound ==
    ASSUME TypeInv, RoundInv, NEW n \in Node, SignalNext(n)
    PROVE  RoundInv'
<1>. DEFINE In(i) == {o \in Node : i < roundsEntered[o]}
<1>0. round[n] \in Round /\ round[n] \in Nat /\ next \in [Round -> Nat]
  BY RoundsFromZero DEF TypeInv, Types
<1>1. next' = [next EXCEPT ![round[n]] = @ + 1]
  BY DEF SignalNext
<1>2. \A o \in Node : roundsEntered[o] \in Nat /\ roundsPassed[o] \in Nat
  BY RoundNumbers DEF TypeInv
<1>3. /\ roundsEntered[n] = round[n]
      /\ roundsEntered' = [roundsEntered EXCEPT ![n] = round[n] + 1]
      /\ UNCHANGED roundsPassed
  BY SignalEnters
<1>4. \A o \in Node : roundsEntered'[o] = IF o = n THEN round[n] + 1 ELSE roundsEntered[o]
  BY <1>3 DEF roundsEntered
<1>5. NextCounts'
  <2>. SUFFICES ASSUME NEW i \in Round PROVE next'[i] = Cardinality(In(i)')
    BY DEF NextCounts
  <2>0. next[i] = Cardinality(In(i))
    BY DEF RoundInv, NextCounts
  <2>1. CASE i # round[n]
    <3>1. In(i)' = In(i)
      BY <1>0, <1>2, <1>3, <1>4, <2>1, RoundsFromZero
    <3>. QED  BY <1>0, <1>1, <2>0, <2>1, <3>1
  <2>2. CASE i = round[n]
    <3>1. In(i)' = In(i) \cup {n} /\ n \notin In(i)
      BY <1>0, <1>2, <1>3, <1>4, <2>2
    <3>2. Cardinality(In(i)') = Cardinality(In(i)) + 1
      <4>1. In(i) \in SUBSET Node  OBVIOUS
      <4>. HIDE DEF In
      <4>. QED  BY <3>1, <4>1, TwoInstances, OneMore
    <3>. QED  BY <1>0, <1>1, <2>0, <2>2, <3>2
  <2>. QED  BY <2>1, <2>2
<1>6. RoundsTogether'
  BY <1>0, <1>2, <1>3, <1>4 DEF RoundInv, RoundsTogether
<1>. QED  BY <1>5, <1>6 DEF RoundInv

\* A full counter of "next-i" says that all have entered round i.
LEMMA AllEntered ==
    ASSUME TypeInv, RoundInv, NEW n \in Node, PassNext(n)
    PROVE  \A o \in Node : round[n] + 1 <= roundsEntered[o]
<1>. DEFINE S == {o \in Node : round[n] < roundsEntered[o]}
<1>0. round[n] \in Round /\ round[n] \in Nat
  BY RoundsFromZero DEF TypeInv, Types
<1>1. Cardinality(S) >= Cardinality(Node)
  BY <1>0 DEF PassNext, RoundInv, NextCounts, TestInstanceCount
<1>2. S \in SUBSET Node
  OBVIOUS
<1>3. S = Node
  <2>. HIDE DEF S
  <2>. QED  BY <1>1, <1>2, TwoInstances, FullCount
<1>4. \A o \in Node : roundsEntered[o] \in Nat
  BY RoundNumbers DEF TypeInv
<1>. QED  BY <1>0, <1>3, <1>4

LEMMA PassRound ==
    ASSUME TypeInv, RoundInv, NEW n \in Node, PassNext(n)
    PROVE  RoundInv'
<1>1. /\ roundsPassed' = [roundsPassed EXCEPT ![n] = round[n] + 1]
      /\ UNCHANGED <<roundsEntered, next>>
  BY PassPasses DEF PassNext
<1>2. \A o \in Node : roundsPassed'[o] = IF o = n THEN round[n] + 1 ELSE roundsPassed[o]
  BY <1>1 DEF roundsPassed
<1>3. RoundsTogether'
  BY <1>1, <1>2, AllEntered DEF RoundInv, RoundsTogether
<1>4. NextCounts'
  BY <1>1 DEF RoundInv, NextCounts
<1>. QED  BY <1>3, <1>4 DEF RoundInv

LEMMA NextRound == TypeInv /\ RoundInv /\ [Next]_vars => RoundInv'
<1>. SUFFICES ASSUME TypeInv, RoundInv, [Next]_vars PROVE RoundInv'
  OBVIOUS
<1>1. ASSUME UNCHANGED <<roundsEntered, roundsPassed, next>> PROVE RoundInv'
  BY <1>1 DEF RoundInv, NextCounts, RoundsTogether
<1>. QED  BY <1>1, StepKinds, EnterRound, PassRound

-----------------------------------------------------------------------------
(* The set-up of a round. *)

\* What the steps of the other instances leave alone.
LEMMA NotTheProvider ==
    ASSUME TypeInv, NEW n \in Node \ {Provider}, Step(n) \/ Fail(n)
    PROVE  /\ pc'[Provider] = pc[Provider] /\ round'[Provider] = round[Provider]
           /\ (Provider \in failed') <=> (Provider \in failed)
           /\ UNCHANGED <<configured, network, store>>
BY DEF Step, Fail, PublishPeer, CollectPeers, SignalNext, PassNext, SignalDone, PassDone,
       RequestorStep, Dial, GetCids, PassNet, Download, EndRound, Goto, TypeInv, Types, Node

LEMMA InitSetUp == Init => ConfiguredInv /\ ProviderInv
<1>. SUFFICES ASSUME Init PROVE ConfiguredInv /\ ProviderInv
  OBVIOUS
<1>1. \A n \in Node : pc[n] = "publish" /\ round[n] = 0
  BY DEF Init
<1>2. Provider \in Node /\ Requestor \subseteq Node
  BY DEF Node
<1>3. ConfiguredInv
  BY <1>1, <1>2, RoundsFromZero DEF Init, ConfiguredInv, ProviderFinished, Final
<1>4. ProviderInv
  BY <1>1, <1>2 DEF ProviderInv, ProviderFinished, Final
<1>. QED  BY <1>3, <1>4

\* A step that lets no requestor measure that may not, and keeps the rest.
LEMMA KeepConfigured ==
    ASSUME ConfiguredInv, UNCHANGED configured,
           round'[Provider] = round[Provider],
           ProviderFinished' <=> ProviderFinished,
           \A r \in Requestor : pc'[r] = "download" =>
               \/ pc[r] = "download" /\ round'[r] = round[r]
               \/ configured[round'[r]] >= 1
    PROVE  ConfiguredInv'
BY DEF ConfiguredInv

LEMMA NextConfigured == TypeInv /\ ConfiguredInv /\ [Next]_vars => ConfiguredInv'
<1>. SUFFICES ASSUME TypeInv, ConfiguredInv, [Next]_vars PROVE ConfiguredInv'
  OBVIOUS
<1>0. Types /\ Provider \in Node /\ Requestor \subseteq Node /\ Provider \notin Requestor
  BY GroupsAssumption DEF TypeInv, Node
<1>1. ASSUME NEW n \in Node \ {Provider}, Step(n) \/ Fail(n) PROVE ConfiguredInv'
  <2>1. ProviderFinished' <=> ProviderFinished
    BY <1>1, NotTheProvider DEF ProviderFinished
  <2>2. \A r \in Requestor : pc'[r] = "download" =>
               \/ pc[r] = "download" /\ round'[r] = round[r]
               \/ configured[round'[r]] >= 1
    BY <1>0, <1>1 DEF Step, Fail, PublishPeer, CollectPeers, SignalNext, PassNext, SignalDone, PassDone,
           RequestorStep, Dial, GetCids, PassNet, Download, EndRound, Goto, Types
  <2>. QED  BY <1>1, <2>1, <2>2, NotTheProvider, KeepConfigured
<1>2. CASE NetworkConfigured
  <2>. DEFINE k == round[Provider]
  <2>0. k \in Round /\ k \in Nat
    BY <1>0, RoundsFromZero DEF Types
  <2>1. pc[Provider] = "shaped" /\ ~ProviderFinished /\ configured[k] = 0
    BY <1>2, <2>0 DEF NetworkConfigured, ProviderFinished, Final, ConfiguredInv
  <2>2. \A i \in Round : configured'[i] = IF i = k THEN 1 ELSE configured[i]
    BY <1>0, <1>2, <2>1 DEF NetworkConfigured, Types
  <2>3. Provider \notin failed /\ UNCHANGED failed
    BY <1>2, <2>1 DEF TypeInv, Beginning, Final, NetworkConfigured
  <2>4. \/ pc'[Provider] = "next" /\ round'[Provider] = k + 1
        \/ pc'[Provider] = "done" /\ round'[Provider] = k /\ k + 1 \notin Round
    BY <1>0, <1>2 DEF NetworkConfigured, EndRound, Types
  <2>5. \A i \in Round : configured'[i] =
            IF i < round'[Provider] \/ (i = round'[Provider] /\ ProviderFinished') THEN 1 ELSE 0
    BY <2>0, <2>1, <2>2, <2>3, <2>4, RoundsFromZero DEF ConfiguredInv, ProviderFinished, Final
  <2>6. \A r \in Requestor : pc'[r] = "download" =>
            pc[r] = "download" /\ round'[r] = round[r] /\ round[r] \in Round
    BY <1>0, <1>2 DEF NetworkConfigured, EndRound, Types
  <2>. QED  BY <2>2, <2>5, <2>6 DEF ConfiguredInv
<1>3. CASE Step(Provider) /\ ~NetworkConfigured
  <2>1. UNCHANGED <<configured, round, failed>>
    BY <1>0, <1>3 DEF Step, PublishPeer, CollectPeers, SignalNext, PassNext, SignalDone, PassDone,
           ProviderStep, RemoveFiles, AddFiles, PublishCids, ShapeNetwork
  <2>2. (pc'[Provider] \in Final) <=> (pc[Provider] \in Final)
    BY <1>0, <1>3 DEF Step, PublishPeer, CollectPeers, SignalNext, PassNext, SignalDone, PassDone,
           ProviderStep, RemoveFiles, AddFiles, PublishCids, ShapeNetwork, Goto, Types, Final
  <2>3. \A r \in Requestor : pc'[r] = pc[r]
    BY <1>0, <1>3 DEF Step, PublishPeer, CollectPeers, SignalNext, PassNext, SignalDone, PassDone,
           ProviderStep, RemoveFiles, AddFiles, PublishCids, ShapeNetwork, Goto, Types
  <2>. QED  BY <2>1, <2>2, <2>3, KeepConfigured DEF ProviderFinished
<1>4. CASE Fail(Provider)
  <2>1. pc[Provider] = "add" /\ Provider \in failed' /\ UNCHANGED <<configured, round>>
    BY <1>0, <1>4 DEF Fail
  <2>2. ~ProviderFinished /\ ~ProviderFinished'
    BY <2>1 DEF ProviderFinished, Final
  <2>3. \A r \in Requestor : pc'[r] = pc[r]
    BY <1>0, <1>4 DEF Fail, Types
  <2>. QED  BY <2>1, <2>2, <2>3, KeepConfigured
<1>5. CASE UNCHANGED vars
  BY <1>5, KeepConfigured DEF vars, ProviderFinished
<1>. QED  BY <1>0, <1>1, <1>2, <1>3, <1>4, <1>5 DEF Next

LEMMA NextProvider == TypeInv /\ ProviderInv /\ [Next]_vars => ProviderInv'
<1>. SUFFICES ASSUME TypeInv, ProviderInv, [Next]_vars PROVE ProviderInv'
  OBVIOUS
<1>0. Types /\ Provider \in Node /\ Provider \notin Requestor
  BY GroupsAssumption DEF TypeInv, Node
<1>1. ASSUME NEW n \in Node \ {Provider}, Step(n) \/ Fail(n) PROVE ProviderInv'
  BY <1>1, NotTheProvider DEF ProviderInv, SetUpFor, ProviderFinished
<1>2. CASE Step(Provider)
  <2>. USE DEF ProviderInv, ProviderFinished, Final, SetUpFor
  <2>0. pc \in [Node -> ProviderPc \cup RequestorPc] /\ round[Provider] \in Nat
    BY <1>0, RoundsFromZero DEF Types
  <2>1. CASE PublishPeer(Provider)   BY <1>0, <2>0, <2>1 DEF PublishPeer, Goto
  <2>2. CASE CollectPeers(Provider)
    BY <1>0, <2>0, <2>2 DEF CollectPeers, Goto, TypeInv, Beginning, Starting
  <2>3. CASE SignalNext(Provider)    BY <1>0, <2>0, <2>3 DEF SignalNext, Goto
  <2>4. CASE PassNext(Provider)      BY <1>0, <2>0, <2>4 DEF PassNext, Goto
  <2>5. CASE SignalDone(Provider)    BY <1>0, <2>0, <2>5 DEF SignalDone, Goto
  <2>6. CASE PassDone(Provider)      BY <1>0, <2>0, <2>6 DEF PassDone, Goto
  <2>7. CASE RemoveFiles             BY <1>0, <2>0, <2>7 DEF RemoveFiles, Goto
  <2>8. CASE AddFiles                BY <1>0, <2>0, <2>8 DEF AddFiles, Goto
  <2>9. CASE PublishCids             BY <1>0, <2>0, <2>9 DEF PublishCids, Goto
  <2>10. CASE ShapeNetwork           BY <1>0, <2>0, <2>10 DEF ShapeNetwork, Goto
  <2>11. CASE NetworkConfigured
    <3>1. SetUpFor(round[Provider]) /\ UNCHANGED <<network, store>>
      BY <2>11 DEF NetworkConfigured
    <3>2. \/ pc'[Provider] = "next" /\ round'[Provider] = round[Provider] + 1
          \/ pc'[Provider] = "done" /\ round'[Provider] = round[Provider]
      BY <1>0, <2>11 DEF NetworkConfigured, EndRound, Types
    <3>3. round'[Provider] = round[Provider] + 1 => round'[Provider] - 1 = round[Provider]
      BY <2>0
    <3>. QED  BY <3>1, <3>2, <3>3
  <2>. QED  BY <1>0, <1>2, <2>1, <2>2, <2>3, <2>4, <2>5, <2>6, <2>7, <2>8, <2>9, <2>10, <2>11
            DEF Step, ProviderStep
<1>3. CASE Fail(Provider)
  BY <1>0, <1>3 DEF Fail, ProviderInv, ProviderFinished, Types
<1>4. CASE UNCHANGED vars
  BY <1>4 DEF vars, ProviderInv, SetUpFor, ProviderFinished
<1>. QED  BY <1>1, <1>2, <1>3, <1>4 DEF Next

-----------------------------------------------------------------------------
(* The end of the test. *)

LEMMA InitDone == Init => DoneInv
<1>. SUFFICES ASSUME Init PROVE DoneInv
  OBVIOUS
<1>1. \A n \in Node : pc[n] = "publish"
  BY DEF Init
<1>2. {n \in Node : AtDone(n)} = {}
  BY <1>1 DEF AtDone
<1>. QED  BY <1>1, <1>2, FS_EmptySet DEF Init, DoneInv

\* A step of an instance that does not enter "done".
LEMMA KeepDone ==
    ASSUME DoneInv, UNCHANGED done,
           \A n \in Node : AtDone(n)' <=> AtDone(n),
           \A n \in Node : pc'[n] = "closed" =>
               pc[n] = "closed" \/ \A o \in Node : AtDone(o)
    PROVE  DoneInv'
<1>1. {n \in Node : AtDone(n)}' = {n \in Node : AtDone(n)}
  OBVIOUS
<1>. QED  BY <1>1 DEF DoneInv

\* Entering "done" adds n, and only n, to the counter of that state.
LEMMA EnterDone ==
    ASSUME TypeInv, DoneInv, NEW n \in Node, SignalDone(n)
    PROVE  DoneInv'
<1>. DEFINE S == {o \in Node : AtDone(o)}
<1>0. \A o \in Node : pc'[o] = IF o = n THEN "doneWait" ELSE pc[o]
  BY DEF TypeInv, Types, SignalDone, Goto
<1>1. S' = S \cup {n} /\ n \notin S
  BY <1>0 DEF SignalDone, Goto, AtDone
<1>2. Cardinality(S') = Cardinality(S) + 1
  <2>1. S \in SUBSET Node  OBVIOUS
  <2>. HIDE DEF S
  <2>. QED  BY <1>1, <2>1, TwoInstances, OneMore
<1>3. done' = Cardinality(S')
  BY <1>2 DEF SignalDone, DoneInv
<1>4. (\E o \in Node : pc'[o] = "closed") => \A o \in Node : AtDone(o)'
  BY <1>0 DEF DoneInv, AtDone
<1>. QED  BY <1>3, <1>4 DEF DoneInv

LEMMA NextDone == TypeInv /\ DoneInv /\ [Next]_vars => DoneInv'
<1>. SUFFICES ASSUME TypeInv, DoneInv, [Next]_vars PROVE DoneInv'
  OBVIOUS
<1>0. Types /\ Provider \in Node
  BY DEF TypeInv, Node
<1>1. ASSUME NEW n \in Node, SignalDone(n) PROVE DoneInv'
  BY <1>1, EnterDone
<1>2. ASSUME NEW n \in Node, PassDone(n) PROVE DoneInv'
  <2>. DEFINE S == {o \in Node : AtDone(o)}
  <2>1. S = Node
    <3>1. Cardinality(S) >= Cardinality(Node)
      BY <1>2 DEF PassDone, DoneInv, TestInstanceCount
    <3>2. S \in SUBSET Node  OBVIOUS
    <3>. HIDE DEF S
    <3>. QED  BY <3>1, <3>2, TwoInstances, FullCount
  <2>2. \A o \in Node : AtDone(o)' <=> AtDone(o)
    BY <1>0, <1>2 DEF PassDone, Goto, AtDone, Types
  <2>. QED  BY <1>2, <2>1, <2>2, KeepDone DEF PassDone
<1>3. ASSUME NEW n \in Node, (Elsewhere(n) /\ ~SignalDone(n) /\ ~PassDone(n)) \/ SignalNext(n) \/ PassNext(n)
      PROVE  DoneInv'
  <2>1. UNCHANGED done
    BY <1>3 DEF Elsewhere, PublishPeer, CollectPeers, SignalNext, PassNext, Fail, ProviderStep,
           RequestorStep, RemoveFiles, AddFiles, PublishCids, ShapeNetwork, NetworkConfigured,
           Dial, GetCids, PassNet, Download
  <2>2. \A o \in Node : /\ AtDone(o)' <=> AtDone(o)
                        /\ pc'[o] = "closed" => pc[o] = "closed"
    BY <1>0, <1>3 DEF Elsewhere, PublishPeer, CollectPeers, SignalNext, PassNext, Fail, ProviderStep,
           RequestorStep, RemoveFiles, AddFiles, PublishCids, ShapeNetwork, NetworkConfigured,
           Dial, GetCids, PassNet, Download, EndRound, Goto, AtDone, Types
  <2>. QED  BY <2>1, <2>2, KeepDone
<1>4. CASE UNCHANGED vars
  BY <1>4, KeepDone DEF vars, AtDone
<1>. QED  BY <1>1, <1>2, <1>3, <1>4 DEF Next, Step, Elsewhere

-----------------------------------------------------------------------------
(* Theorems. *)

\* The inductive invariant: what each counter means, and which round the network and the
\* store belong to.
THEOREM Inductive == Spec => []IInv
<1>1. Init => IInv
  BY InitType, InitRound, InitSetUp, InitDone DEF IInv
<1>2. IInv /\ [Next]_vars => IInv'
  BY NextType, NextRound, NextConfigured, NextProvider, NextDone DEF IInv
<1>. QED  BY <1>1, <1>2, PTL DEF Spec

\* No counter passes the number of instances, and no network is configured twice in a round.
LEMMA TypesBounded == IInv => TypeOK
<1>. SUFFICES ASSUME IInv PROVE TypeOK
  OBVIOUS
<1>0. Types
  BY DEF IInv, TypeInv
<1>1. next \in [Round -> 0 .. TestInstanceCount]
  <2>. SUFFICES ASSUME NEW i \in Round PROVE next[i] \in 0 .. TestInstanceCount
    BY <1>0 DEF Types
  <2>. DEFINE S == {n \in Node : i < roundsEntered[n]}
  <2>1. next[i] = Cardinality(S) /\ S \in SUBSET Node
    BY DEF IInv, RoundInv, NextCounts
  <2>. HIDE DEF S
  <2>. QED  BY <2>1, TwoInstances, CountBound DEF TestInstanceCount
<1>2. done \in 0 .. TestInstanceCount
  <2>. DEFINE S == {n \in Node : AtDone(n)}
  <2>1. done = Cardinality(S) /\ S \in SUBSET Node
    BY DEF IInv, DoneInv
  <2>. HIDE DEF S
  <2>. QED  BY <2>1, TwoInstances, CountBound DEF TestInstanceCount
<1>3. configured \in [Round -> 0 .. 1]
  BY <1>0 DEF IInv, ConfiguredInv, Types
<1>. QED  BY <1>0, <1>1, <1>2, <1>3 DEF Types, TypeOK, ProviderPc, RequestorPc, Final

\* A requestor that measures is in the round that the provider has finished, and no further
\* behind: the provider has to wait for it at the next barrier.
LEMMA ProviderWaits ==
    ASSUME IInv, NEW r \in Requestor, pc[r] = "download"
    PROVE  SetUpFor(round[r])
<1>. DEFINE p == round[Provider]
            i == round[r]
<1>0. /\ Types /\ Provider \in Node /\ r \in Node /\ Provider \notin Requestor
      /\ p \in Round /\ p \in Nat /\ i \in Round /\ i \in Nat
  BY GroupsAssumption, RoundsFromZero DEF IInv, TypeInv, Types, Node
<1>1. roundsEntered[r] = i + 1
  BY <1>0 DEF roundsEntered, NeverStarted, IInv, TypeInv, Beginning, Final
<1>2. roundsPassed[Provider] <= i + 1
  BY <1>0, <1>1 DEF IInv, RoundInv, RoundsTogether
<1>3. i < p \/ (i = p /\ ProviderFinished)
  BY <1>0 DEF IInv, ConfiguredInv
<1>4. CASE i < p
  <2>1. roundsPassed[Provider] \in {p, p + 1}
    BY <1>0 DEF roundsPassed, NeverStarted
  <2>2. p = i + 1 /\ roundsPassed[Provider] = p
    BY <1>0, <1>2, <1>4, <2>1
  <2>3. pc[Provider] \in {"publish", "collect", "dial", "next", "nextWait"}
    BY <1>0, <2>2 DEF roundsPassed, NeverStarted
  <2>4. pc[Provider] \in {"next", "nextWait"}
    BY <1>0, <2>2, <2>3 DEF IInv, TypeInv, Beginning, Starting
  <2>. QED  BY <1>0, <2>2, <2>4 DEF IInv, ProviderInv
<1>5. CASE i = p /\ ProviderFinished
  BY <1>5 DEF IInv, ProviderInv
<1>. QED  BY <1>3, <1>4, <1>5

\* Whatever the number of requestors and of rounds, and whoever fails, a requestor that
\* measures round i does so with the network and the files of round i.
THEOREM MeasuresItsRoundHolds == Spec => []MeasuresItsRound
<1>1. IInv => MeasuresItsRound
  BY TypesBounded, ProviderWaits DEF MeasuresItsRound, SetUpFor
<1>. QED  BY <1>1, Inductive, PTL

\* No host is closed before all instances, those that failed too, have entered "done".
THEOREM HostsOutliveRequestsHolds == Spec => []HostsOutliveRequests
<1>1. IInv => HostsOutliveRequests
  BY DEF IInv, DoneInv, AtDone, HostsOutliveRequests
<1>. QED  BY <1>1, Inductive, PTL

\* The provider and the requestors implement the abstract rounds, also when one of them
\* leaves its loop in the middle of a round.
THEOREM RefinesRounds == Spec => ImplementsRounds
<1>1. Init => Barriers!Init
  BY DEF Init, Barriers!Init, roundsEntered, roundsPassed
<1>2. IInv /\ [Next]_vars => [Barriers!Next]_(Barriers!vars)
  <2>. SUFFICES ASSUME IInv, [Next]_vars PROVE [Barriers!Next]_(Barriers!vars)
    OBVIOUS
  <2>0. TypeInv /\ RoundInv /\ \A n \in Node : round[n] \in Nat
    BY RoundsFromZero DEF IInv, TypeInv, Types
  <2>1. ASSUME NEW n \in Node, SignalNext(n) PROVE Barriers!Next
    <3>1. Barriers!Enter(n)
      BY <2>0, <2>1, SignalEnters DEF Barriers!Enter
    <3>. QED  BY <3>1 DEF Barriers!Next
  <2>2. ASSUME NEW n \in Node, PassNext(n) PROVE Barriers!Next
    <3>1. \A o \in Node : roundsEntered[o] >= round[n] + 1
      BY <2>0, <2>2, AllEntered, RoundNumbers DEF TypeInv
    <3>2. /\ roundsEntered[n] = round[n] + 1 /\ roundsPassed[n] = round[n]
          /\ roundsPassed' = [roundsPassed EXCEPT ![n] = round[n] + 1]
          /\ UNCHANGED roundsEntered
      BY <2>0, <2>2, PassPasses
    <3>3. Barriers!Pass(n)
      BY <2>0, <3>1, <3>2 DEF Barriers!Pass
    <3>. QED  BY <3>3 DEF Barriers!Next
  <2>. QED  BY <2>0, <2>1, <2>2, StepKinds DEF Barriers!vars
<1>. QED  BY <1>1, <1>2, Inductive, PTL DEF Spec, ImplementsRounds, Barriers!Spec

-----------------------------------------------------------------------------
(* The other stress test, of payment channels (PaychStress): how n vouchers are
   spread over the lanes, and what is owed for them. *)

\* How many of n vouchers are on lane l, which is what the best of them is worth.
OnLane(n, l) == IF l < n % LaneCount THEN (n \div LaneCount) + 1 ELSE n \div LaneCount

\* Quotient and remainder are what they should be, ...
LEMMA Spread ==
    ASSUME NEW n \in Nat
    PROVE  /\ n \div LaneCount \in Nat /\ n % LaneCount \in 0 .. LaneCount - 1
           /\ n = (LaneCount * (n \div LaneCount)) + (n % LaneCount)
BY LanesAssumption

LEMMA TimesGrows ==
    ASSUME NEW a \in Nat, NEW b \in Nat, a <= b
    PROVE  /\ LaneCount * a \in Nat /\ LaneCount * b \in Nat /\ LaneCount * a <= LaneCount * b
           /\ LaneCount * (a + 1) = (LaneCount * a) + LaneCount
BY LanesAssumption

\* ... and the only ones.
LEMMA SpreadOnce ==
    ASSUME NEW a \in Nat, NEW l \in Lane
    PROVE  /\ (LaneCount * a) + l \in Nat
           /\ ((LaneCount * a) + l) \div LaneCount = a /\ ((LaneCount * a) + l) % LaneCount = l
<1>0. LaneCount \in Nat /\ l \in 0 .. LaneCount - 1
  BY LanesAssumption DEF Lane
<1>1. PICK n \in Nat : n = (LaneCount * a) + l
  BY <1>0, TimesGrows
<1>2. PICK b \in Nat, r \in 0 .. LaneCount - 1 :
          n = (LaneCount * b) + r /\ b = n \div LaneCount /\ r = n % LaneCount
  BY Spread
<1>3. a = b
  <2>1. CASE a + 1 <= b
    <3>1. LaneCount * (a + 1) <= LaneCount * b /\ LaneCount * b \in Nat /\ LaneCount * a \in Nat
          /\ LaneCount * (a + 1) = (LaneCount * a) + LaneCount
      BY <2>1, TimesGrows
    <3>. QED  BY <1>0, <1>1, <1>2, <3>1
  <2>2. CASE b + 1 <= a
    <3>1. LaneCount * (b + 1) <= LaneCount * a /\ LaneCount * b \in Nat /\ LaneCount * a \in Nat
          /\ LaneCount * (b + 1) = (LaneCount * b) + LaneCount
      BY <2>2, TimesGrows
    <3>. QED  BY <1>0, <1>1, <1>2, <3>1
  <2>. QED  BY <2>1, <2>2
<1>4. l = r
  BY <1>0, <1>1, <1>2, <1>3, TimesGrows
<1>. QED  BY <1>1, <1>2, <1>3, <1>4

\* The vouchers of a list that are from s are the first n.
SentBy(vs, s) == {v \in Range(vs) : v.sender = s}
FirstVouchers(s, n) == {Voucher(s, k) : k \in 0 .. n - 1}

\* What is owed for a lane is the number of vouchers on it.
LEMMA OwedIs ==
    ASSUME NEW vs, NEW s, NEW n \in Nat, SentBy(vs, s) = FirstVouchers(s, n), NEW l \in Lane
    PROVE  Owed(vs, s, l) = OnLane(n, l)
<1>. DEFINE amounts == {v.amount : v \in {w \in Range(vs) : w.sender = s /\ w.lane = l}}
            best == OnLane(n, l)
<1>0. LaneCount \in Nat /\ l \in 0 .. LaneCount - 1 /\ l \in Nat
  BY LanesAssumption DEF Lane
<1>1. PICK q \in Nat, r \in 0 .. LaneCount - 1 :
          n = (LaneCount * q) + r /\ q = n \div LaneCount /\ r = n % LaneCount
  BY Spread
<1>2. best = IF l < r THEN q + 1 ELSE q
  BY <1>1 DEF OnLane
<1>3. best \in Nat
  BY <1>2
<1>4. amounts = {(k \div LaneCount) + 1 : k \in {i \in 0 .. n - 1 : i % LaneCount = l}}
  <2>1. \A k : /\ Voucher(s, k).lane = k % LaneCount
               /\ Voucher(s, k).amount = (k \div LaneCount) + 1
    BY DEF Voucher
  <2>2. {w \in Range(vs) : w.sender = s /\ w.lane = l} = {w \in SentBy(vs, s) : w.lane = l}
    BY DEF SentBy
  <2>3. {w \in SentBy(vs, s) : w.lane = l} = {w \in FirstVouchers(s, n) : w.lane = l}
    OBVIOUS
  <2>4. {w \in FirstVouchers(s, n) : w.lane = l} =
            {Voucher(s, k) : k \in {i \in 0 .. n - 1 : i % LaneCount = l}}
    BY <2>1 DEF FirstVouchers
  <2>. HIDE DEF Voucher
  <2>. QED  BY <2>1, <2>2, <2>3, <2>4
<1>5. ASSUME NEW k \in 0 .. n - 1, k % LaneCount = l PROVE (k \div LaneCount) + 1 <= best
  <2>1. PICK d \in Nat : d = k \div LaneCount /\ k = (LaneCount * d) + l
    BY <1>5, Spread
  <2>2. CASE d >= q + 1
    <3>1. LaneCount * (q + 1) <= LaneCount * d /\ LaneCount * d \in Nat /\ LaneCount * q \in Nat
          /\ LaneCount * (q + 1) = (LaneCount * q) + LaneCount
      BY <2>2, TimesGrows
    <3>. QED  BY <1>0, <1>1, <2>1, <3>1
  <2>3. CASE d = q
    <3>1. l < r
      BY <1>0, <1>1, <2>1, <2>3, TimesGrows
    <3>. QED  BY <1>2, <2>1, <2>3, <3>1
  <2>4. CASE d < q
    BY <1>2, <2>1, <2>4
  <2>. QED  BY <2>1, <2>2, <2>3, <2>4
<1>6. best \in amounts \cup {0}
  <2>1. CASE best = 0
    BY <2>1
  <2>2. CASE best # 0
    <3>1. PICK d \in Nat : d + 1 = best
      BY <1>3, <2>2, best - 1 \in Nat
    <3>2. PICK k \in Nat : k = (LaneCount * d) + l
      BY SpreadOnce
    <3>3. k \div LaneCount = d /\ k % LaneCount = l
      BY <3>2, SpreadOnce
    <3>4. k < n
      <4>1. CASE l < r
        BY <1>0, <1>1, <1>2, <3>1, <3>2, <4>1, TimesGrows
      <4>2. CASE ~ (l < r)
        <5>1. q = d + 1
          BY <1>2, <3>1, <4>2
        <5>2. LaneCount * q = (LaneCount * d) + LaneCount /\ LaneCount * d \in Nat
          BY <5>1, TimesGrows
        <5>. QED  BY <1>0, <1>1, <3>2, <5>2
      <4>. QED  BY <4>1, <4>2
    <3>5. k \in {i \in 0 .. n - 1 : i % LaneCount = l}
      BY <3>3, <3>4
    <3>. HIDE DEF amounts, best
    <3>. QED  BY <1>4, <3>1, <3>3, <3>5
  <2>. QED  BY <2>1, <2>2
<1>7. \A y \in amounts \cup {0} : y \in Int /\ best >= y
  <2>1. \A k \in 0 .. n - 1 : k \div LaneCount \in Nat
    BY Spread
  <2>. HIDE DEF amounts, best
  <2>. QED  BY <1>3, <1>4, <1>5, <2>1
<1>8. Max(amounts \cup {0}) = best
  <2>. HIDE DEF amounts, best
  <2>1. PICK S : S = amounts \cup {0}
    OBVIOUS
  <2>2. best \in S /\ \A y \in S : y \in Int /\ best >= y
    BY <1>6, <1>7, <2>1
  <2>3. Max(S) \in S /\ \A y \in S : Max(S) >= y
    BY <2>2 DEF Max
  <2>4. PICK m : m = Max(S)
    OBVIOUS
  <2>5. m \in Int /\ m >= best /\ best >= m
    BY <2>2, <2>3, <2>4
  <2>6. m = best
    BY <1>3, <2>5
  <2>. QED  BY <2>1, <2>4, <2>6
<1>. QED  BY <1>8 DEF Owed

\* What is owed in all is the number of vouchers.
LEMMA RedeemableIs ==
    ASSUME NEW vs, NEW s, NEW n \in Nat, SentBy(vs, s) = FirstVouchers(s, n)
    PROVE  Redeemable(vs, s) = n
<1>. DEFINE Body(g, m) == IF m = 0 THEN 0 ELSE g[m - 1] + Owed(vs, s, m - 1)
            sum == CHOOSE g : g = [m \in 0 .. LaneCount |-> Body(g, m)]
<1>0. LaneCount \in Nat \ {0}
  BY LanesAssumption
<1>1. Redeemable(vs, s) = sum[LaneCount]
  BY DEF Redeemable
<1>2. ASSUME NEW l \in 0 .. LaneCount - 1 PROVE Owed(vs, s, l) = OnLane(n, l) /\ OnLane(n, l) \in Nat
  <2>1. Owed(vs, s, l) = OnLane(n, l)
    BY OwedIs DEF Lane
  <2>. QED  BY <2>1, Spread DEF OnLane
<1>3. \E g \in [0 .. LaneCount -> Nat] : \A m \in 0 .. LaneCount : g[m] = Body(g, m)
  <2>0. PICK D : D = Nat
    OBVIOUS
  <2>1. PICK k \in Nat, none \in D : k = LaneCount /\ none = 0
    BY <1>0, <2>0
  <2>2. PICK F \in [1 .. k -> [D -> D]] :
            \A m \in 1 .. k : F[m] = [x \in D |-> x + Owed(vs, s, m - 1)]
    <3>. DEFINE F == [m \in 1 .. k |-> [x \in D |-> x + Owed(vs, s, m - 1)]]
    <3>1. \A m \in 1 .. k : Owed(vs, s, m - 1) \in Nat
      BY <1>0, <1>2, <2>1
    <3>2. F \in [1 .. k -> [D -> D]]
          /\ \A m \in 1 .. k : F[m] = [x \in D |-> x + Owed(vs, s, m - 1)]
      BY <2>0, <3>1
    <3>. QED  BY <3>2
  <2>3. PICK g \in [0 .. k -> D] : g[0] = none /\ \A m \in 1 .. k : g[m] = F[m][g[m - 1]]
    BY RecursionExists, SMTT(30)
  <2>4. ASSUME NEW m \in 0 .. LaneCount PROVE g[m] = Body(g, m)
    <3>1. CASE m = 0
      BY <2>1, <2>3, <3>1
    <3>2. CASE m # 0
      <4>0. m \in 1 .. LaneCount /\ m - 1 \in 0 .. LaneCount
        BY <1>0, <3>2
      <4>1. m \in 1 .. k /\ g[m - 1] \in D
        BY <2>1, <4>0
      <4>2. g[m] = F[m][g[m - 1]] /\ F[m] = [x \in D |-> x + Owed(vs, s, m - 1)]
        BY <2>2, <2>3, <4>1
      <4>3. g[m] = g[m - 1] + Owed(vs, s, m - 1)
        BY <4>1, <4>2
      <4>. QED  BY <3>2, <4>3
    <3>. QED  BY <3>1, <3>2
  <2>. QED  BY <2>0, <2>1, <2>4
<1>4. sum = [m \in 0 .. LaneCount |-> Body(sum, m)]
  <2>1. PICK g \in [0 .. LaneCount -> Nat] : \A m \in 0 .. LaneCount : g[m] = Body(g, m)
    BY <1>3
  <2>. HIDE DEF Body
  <2>2. g = [m \in 0 .. LaneCount |-> Body(g, m)]
    BY <2>1
  <2>. QED  BY <2>2
<1>5. sum[0] = 0 /\ \A m \in 1 .. LaneCount : sum[m] = sum[m - 1] + OnLane(n, m - 1)
  <2>1. \A m \in 0 .. LaneCount : sum[m] = Body(sum, m)
    <3>. HIDE DEF Body, sum
    <3>. QED  BY <1>4
  <2>2. \A m \in 1 .. LaneCount : m - 1 \in 0 .. LaneCount - 1 /\ m # 0 /\ m \in 0 .. LaneCount
    BY <1>0
  <2>. HIDE DEF sum
  <2>3. sum[0] = 0
    BY <1>0, <2>1
  <2>. QED  BY <1>2, <2>1, <2>2, <2>3
<1>6. PICK q \in Nat, r \in 0 .. LaneCount - 1 :
          n = (LaneCount * q) + r /\ q = n \div LaneCount /\ r = n % LaneCount
  BY Spread
<1>. DEFINE Extra(m) == IF m < r THEN m ELSE r
            S == {m \in 0 .. LaneCount : sum[m] = (m * q) + Extra(m)}
<1>. HIDE DEF sum
<1>7. 0 \in S
  BY <1>0, <1>5, <1>6
<1>8. ASSUME NEW m \in 1 .. LaneCount, m - 1 \in S PROVE m \in S
  <2>1. PICK j \in Nat : j = m - 1 /\ m = j + 1
    BY <1>8
  <2>2. sum[m] = ((j * q) + Extra(j)) + OnLane(n, j)
    BY <1>5, <1>8, <2>1
  <2>3. Extra(j) + OnLane(n, j) = q + Extra(m)
    BY <1>6, <2>1 DEF OnLane
  <2>4. m * q = (j * q) + q /\ j * q \in Nat
    BY <2>1
  <2>5. Extra(j) \in Nat /\ OnLane(n, j) \in Nat /\ Extra(m) \in Nat
    BY <1>6, <2>1 DEF OnLane
  <2>6. sum[m] = (m * q) + Extra(m)
    <3>. HIDE DEF Extra
    <3>. QED  BY <2>2, <2>3, <2>4, <2>5
  <2>. QED  BY <2>6
<1>9. 0 .. LaneCount \subseteq S
  <2>. HIDE DEF S
  <2>. QED  BY <1>0, <1>7, <1>8, UpTo
<1>10. sum[LaneCount] = (LaneCount * q) + r
  BY <1>0, <1>6, <1>9, LaneCount \in 0 .. LaneCount
<1>. QED  BY <1>1, <1>6, <1>10

-----------------------------------------------------------------------------
(* Any number of senders: what is left in a channel. *)

Places == {"open", "lanes", "create", "waitAdded", "settle", "subscribe", "add",
           "waitSettle", "done", "stopMining", "returned", "failed"}
PastCreate == Places \ {"open", "lanes", "create"}
PastDone == {"stopMining", "returned"}

PaychTypes ==
    /\ client \in [Client -> Places]
    /\ created \in [Sender -> 0 .. TotalVouchers]
    /\ remaining \in [Sender -> Int]
    /\ vouchers \in Seq(VoucherType)
    /\ added \in 0 .. TotalVouchers
    /\ settles \in Seq(Sender)

\* A counter counts clients that are past the place where they increment it.
At(B) == {c \in Client : client[c] \in B}
CountsInv ==
    /\ receiverReady \in 0 .. 1 /\ (client[Receiver] = "subscribe" => receiverReady = 0)
    /\ addedVouchers \in 0 .. 1
    /\ client[Receiver] \in {"subscribe", "add"} => addedVouchers = 0
    /\ sendersDone \in 0 .. Cardinality(At(PastCreate))
    /\ clientsDone \in 0 .. Cardinality(At(PastDone))
    /\ stopMining \in 0 .. Cardinality(At({"returned"}))

\* The vouchers of a sender among those of all are its first ones, each of which took one
\* increment of what it thinks is left.
SentInv ==
    \A s \in Sender :
        /\ SentBy(vouchers, s) = FirstVouchers(s, created[s])
        /\ remaining[s] = ChannelAmt - created[s]

PaychInv == PaychTypes /\ CountsInv /\ SentInv

LEMMA AtIsFinite ==
    ASSUME NEW B
    PROVE  IsFiniteSet(At(B)) /\ Cardinality(At(B)) \in 0 .. Cardinality(Client)
<1>1. IsFiniteSet(Client)
  BY ClientsAssumption, FS_AddElement, FS_Singleton, FS_Union DEF Client
<1>2. At(B) \in SUBSET Client
  BY DEF At
<1>. QED  BY <1>1, <1>2, FS_Subset, CountBound

LEMMA InitPaych == PaychInit => PaychInv
<1>. SUFFICES ASSUME PaychInit PROVE PaychInv
  OBVIOUS
<1>1. TotalVouchers \in Nat /\ ChannelAmt \in Nat
  BY LanesAssumption DEF TotalVouchers, ChannelAmt
<1>2. PaychTypes
  BY <1>1 DEF PaychInit, PaychTypes, Places, Client
<1>3. SentInv
  <2>1. Range(vouchers) = {}
    BY DEF PaychInit, Range
  <2>. QED  BY <1>1, <2>1 DEF PaychInit, SentInv, SentBy, FirstVouchers
<1>4. \A B : IsFiniteSet(At(B)) /\ Cardinality(At(B)) \in Nat
  BY AtIsFinite
<1>5. CountsInv
  BY <1>4 DEF PaychInit, CountsInv
<1>. QED  BY <1>2, <1>3, <1>5 DEF PaychInv

\* The next voucher of s is of its type, and the next in the list of its own.
LEMMA NextSent ==
    ASSUME PaychTypes, SentInv, NEW s \in Sender, SendVoucher(s)
    PROVE  PaychTypes' /\ SentInv'
<1>1. /\ created[s] < TotalVouchers
      /\ vouchers' = Append(vouchers, Voucher(s, created[s]))
      /\ created' = [created EXCEPT ![s] = @ + 1]
      /\ remaining' = [remaining EXCEPT ![s] = @ - 1]
      /\ UNCHANGED <<client, added, settles>>
  BY DEF SendVoucher
<1>2. PICK n \in Nat : n = created[s]
  BY DEF PaychTypes
<1>3. TotalVouchers \in Nat /\ TotalVouchers = LaneCount * VouchersPerLane /\ ChannelAmt \in Nat
  BY LanesAssumption DEF TotalVouchers, ChannelAmt
<1>4. Voucher(s, n) \in VoucherType
  <2>1. PICK q \in Nat, r \in 0 .. LaneCount - 1 :
            n = (LaneCount * q) + r /\ q = n \div LaneCount /\ r = n % LaneCount
    BY Spread
  <2>2. q < VouchersPerLane
    <3>1. SUFFICES ASSUME VouchersPerLane <= q PROVE FALSE
      BY <2>1, LanesAssumption
    <3>2. PICK a \in Nat, b \in Nat :
              a = LaneCount * VouchersPerLane /\ b = LaneCount * q /\ a <= b
      BY <2>1, <3>1, TimesGrows, LanesAssumption
    <3>3. n < a /\ n = b + r
      BY <1>1, <1>2, <1>3, <2>1, <3>2
    <3>. QED  BY <2>1, <3>2, <3>3, LanesAssumption
  <2>3. q + 1 \in 1 .. VouchersPerLane /\ r \in Lane
    BY <2>2, LanesAssumption DEF Lane
  <2>. QED  BY <2>1, <2>3 DEF Voucher, VoucherType
<1>5. PaychTypes'
  <2>1. vouchers' \in Seq(VoucherType)
    BY <1>1, <1>2, <1>4 DEF PaychTypes
  <2>2. created' \in [Sender -> 0 .. TotalVouchers]
    BY <1>1, <1>2, <1>3 DEF PaychTypes
  <2>3. remaining' \in [Sender -> Int]
    BY <1>1 DEF PaychTypes
  <2>. QED  BY <1>1, <2>1, <2>2, <2>3 DEF PaychTypes, Client, TotalVouchers, VoucherType, Lane
<1>6. Range(vouchers') = Range(vouchers) \cup {Voucher(s, n)}
  <2>1. vouchers \in Seq(VoucherType) /\ vouchers' = Append(vouchers, Voucher(s, n))
    BY <1>1, <1>2 DEF PaychTypes
  <2>2. PICK l \in Nat : l = Len(vouchers)
    BY <2>1
  <2>3. /\ DOMAIN vouchers = 1 .. l /\ DOMAIN vouchers' = 1 .. l + 1
        /\ \A i \in 1 .. l : vouchers'[i] = vouchers[i]
        /\ vouchers'[l + 1] = Voucher(s, n)
    BY <2>1, <2>2
  <2>4. 1 .. l + 1 = (1 .. l) \cup {l + 1}
    BY <2>2
  <2>. QED  BY <2>3, <2>4 DEF Range
<1>7. ASSUME NEW o \in Sender
      PROVE  /\ SentBy(vouchers', o) = FirstVouchers(o, created'[o])
             /\ remaining'[o] = ChannelAmt - created'[o]
  <2>1. CASE o = s
    <3>1. created'[s] = n + 1 /\ remaining'[s] = remaining[s] - 1
      BY <1>1, <1>2 DEF PaychTypes
    <3>2. SentBy(vouchers', s) = SentBy(vouchers, s) \cup {Voucher(s, n)}
      <4>1. Voucher(s, n).sender = s
        BY DEF Voucher
      <4>. QED  BY <1>6, <4>1 DEF SentBy
    <3>3. FirstVouchers(s, n + 1) = FirstVouchers(s, n) \cup {Voucher(s, n)}
      <4>1. 0 .. (n + 1) - 1 = (0 .. n - 1) \cup {n}
        BY <1>2
      <4>. QED  BY <4>1 DEF FirstVouchers
    <3>4. SentBy(vouchers, s) = FirstVouchers(s, n) /\ remaining[s] = ChannelAmt - n
      BY <1>2 DEF SentInv
    <3>. QED  BY <1>2, <1>3, <2>1, <3>1, <3>2, <3>3, <3>4
  <2>2. CASE o # s
    <3>1. created'[o] = created[o] /\ remaining'[o] = remaining[o]
      BY <1>1, <2>2 DEF PaychTypes
    <3>2. SentBy(vouchers', o) = SentBy(vouchers, o)
      <4>1. Voucher(s, n).sender = s
        BY DEF Voucher
      <4>. QED  BY <1>6, <2>2, <4>1 DEF SentBy
    <3>. QED  BY <3>1, <3>2 DEF SentInv
  <2>. QED  BY <2>1, <2>2
<1>8. SentInv'
  <2>1. ChannelAmt' = ChannelAmt /\ \A o \in Sender : /\ SentBy(vouchers, o)' = SentBy(vouchers', o)
                              /\ FirstVouchers(o, created[o])' = FirstVouchers(o, created'[o])
    BY DEF SentBy, FirstVouchers, Voucher, ChannelAmt
  <2>. QED  BY <1>7, <2>1 DEF SentInv
<1>. QED  BY <1>5, <1>8

\* A client that goes on is counted where it has not been counted before, and stays counted.
LEMMA Moved ==
    ASSUME client \in [Client -> Places], NEW c \in Client, NEW to \in Places,
           client' = [client EXCEPT ![c] = to], NEW B
    PROVE  /\ client' \in [Client -> Places]
           /\ Cardinality(At(B)) \in Nat /\ Cardinality(At(B)') \in 0 .. Cardinality(Client)
           /\ (client[c] \in B => to \in B) => Cardinality(At(B)) <= Cardinality(At(B)')
           /\ client[c] \notin B /\ to \in B => Cardinality(At(B)') = Cardinality(At(B)) + 1
<1>1. client'[c] = to /\ \A o \in Client \ {c} : client'[o] = client[o]
  OBVIOUS
<1>2. client' \in [Client -> Places]
  OBVIOUS
<1>3. IsFiniteSet(Client)
  BY ClientsAssumption, FS_AddElement, FS_Singleton, FS_Union DEF Client
<1>4. At(B) \in SUBSET Client /\ At(B)' \in SUBSET Client
  BY DEF At, Client
<1>5. /\ IsFiniteSet(At(B)) /\ Cardinality(At(B)) \in 0 .. Cardinality(Client)
      /\ IsFiniteSet(At(B)') /\ Cardinality(At(B)') \in 0 .. Cardinality(Client)
      /\ Cardinality(Client) \in Nat
  BY <1>3, <1>4, FS_Subset, CountBound, FS_CardinalityType
<1>6. ASSUME client[c] \in B => to \in B PROVE Cardinality(At(B)) <= Cardinality(At(B)')
  <2>1. At(B) \subseteq At(B)'
    BY <1>1, <1>6 DEF At, Client
  <2>. QED  BY <1>5, <2>1, FS_Subset
<1>7. ASSUME client[c] \notin B, to \in B PROVE Cardinality(At(B)') = Cardinality(At(B)) + 1
  <2>1. At(B)' = At(B) \cup {c} /\ c \notin At(B)
    BY <1>1, <1>7 DEF At, Client
  <2>. QED  BY <1>5, <2>1, FS_AddElement
<1>. QED  BY <1>2, <1>5, <1>6, <1>7

\* What has been counted stays counted, when somebody goes from one place to another.
LEMMA StillCounted ==
    ASSUME PaychTypes, NEW c \in Client, NEW to \in Places,
           client' = [client EXCEPT ![c] = to],
           client[c] \notin PastDone \/ to \in PastDone, client[c] # "returned",
           client[c] \notin PastCreate \/ to \in PastCreate
    PROVE  /\ client' \in [Client -> Places]
           /\ Cardinality(At(PastCreate)) <= Cardinality(At(PastCreate)')
           /\ Cardinality(At(PastDone)) <= Cardinality(At(PastDone)')
           /\ Cardinality(At({"returned"})) <= Cardinality(At({"returned"})')
           /\ \A B \in {PastCreate, PastDone, {"returned"}} :
                /\ Cardinality(At(B)) \in Nat /\ Cardinality(At(B)') \in Nat
                /\ client[c] \notin B /\ to \in B =>
                       Cardinality(At(B)') = Cardinality(At(B)) + 1
<1>1. client \in [Client -> Places]
  BY DEF PaychTypes
<1>2. \A n : n \in 0 .. Cardinality(Client) => n \in Nat
  <2>1. IsFiniteSet(Client)
    BY ClientsAssumption, FS_AddElement, FS_Singleton, FS_Union DEF Client
  <2>. QED  BY <2>1, FS_CardinalityType
<1>. QED  BY <1>1, <1>2, Moved

\* A step in which nobody moves and nothing is counted changes no count.
LEMMA NobodyMoves ==
    ASSUME CountsInv, UNCHANGED <<client, receiverReady, sendersDone, addedVouchers,
                                  clientsDone, stopMining>>
    PROVE  CountsInv'
BY DEF CountsInv, At, Client

LEMMA NextPaych == PaychInv /\ [PaychNext]_paychVars => PaychInv'
<1>. SUFFICES ASSUME PaychInv, [PaychNext]_paychVars PROVE PaychInv'
  OBVIOUS
<1>0. PaychTypes /\ CountsInv /\ SentInv
  BY DEF PaychInv
<1>1. ASSUME UNCHANGED <<created, remaining, vouchers>> PROVE SentInv'
  BY <1>0, <1>1 DEF SentInv, SentBy, FirstVouchers, Voucher, ChannelAmt
<1>2. ASSUME client' \in [Client -> Places], added' \in 0 .. TotalVouchers,
             settles' \in Seq(Sender), UNCHANGED <<created, remaining, vouchers>>
      PROVE  PaychTypes'
  BY <1>0, <1>2 DEF PaychTypes, Client, TotalVouchers, VoucherType, Lane
<1>3. added \in 0 .. TotalVouchers /\ settles \in Seq(Sender) /\ client \in [Client -> Places]
  BY <1>0 DEF PaychTypes
<1>4. ASSUME NEW s \in Sender, SenderStep(s) PROVE PaychInv'
  <2>0. s \in Client /\ s # Receiver
    BY ClientsAssumption DEF Client
  <2>1. CASE SendVoucher(s)
    <3>1. UNCHANGED <<client, receiverReady, sendersDone, addedVouchers, clientsDone, stopMining>>
      BY <2>1 DEF SendVoucher
    <3>. QED  BY <1>0, <2>1, <3>1, NextSent, NobodyMoves DEF PaychInv
  <2>2. CASE SendersDone(s)
    <3>1. /\ client[s] = "create" /\ client' = [client EXCEPT ![s] = "waitAdded"]
          /\ sendersDone' = sendersDone + 1
          /\ UNCHANGED <<created, remaining, vouchers, added, settles,
                         receiverReady, addedVouchers, clientsDone, stopMining>>
      BY <2>2 DEF SendersDone, ClientGoto
    <3>2. /\ client' \in [Client -> Places] /\ client'[Receiver] = client[Receiver]
          /\ Cardinality(At(PastCreate)') = Cardinality(At(PastCreate)) + 1
          /\ Cardinality(At(PastDone)) <= Cardinality(At(PastDone)')
          /\ Cardinality(At({"returned"})) <= Cardinality(At({"returned"})')
          /\ \A B \in {PastCreate, PastDone, {"returned"}} :
                Cardinality(At(B)) \in Nat /\ Cardinality(At(B)') \in Nat
      <4>1. client'[Receiver] = client[Receiver]
        BY <1>3, <2>0, <3>1
      <4>2. PICK to \in Places : to = "waitAdded" /\ client' = [client EXCEPT ![s] = to]
        BY <3>1 DEF Places
      <4>3. /\ client[s] \notin PastDone /\ client[s] # "returned"
            /\ client[s] \notin PastCreate /\ to \in PastCreate
        BY <3>1, <4>2 DEF Places, PastCreate, PastDone
      <4>. QED  BY <1>0, <2>0, <4>1, <4>2, <4>3, StillCounted
    <3>3. CountsInv'
      BY <1>0, <3>1, <3>2 DEF CountsInv
    <3>. QED  BY <1>1, <1>2, <1>3, <3>1, <3>2, <3>3 DEF PaychInv
  <2>3. CASE OpenChannel(s) \/ PassReceiverReady(s) \/ PassAddedVouchers(s) \/ Settle(s)
    <3>1. /\ \/ client[s] = "open" /\ client' = [client EXCEPT ![s] = "lanes"]
             \/ client[s] = "lanes" /\ client' = [client EXCEPT ![s] = "create"]
             \/ client[s] = "waitAdded" /\ client' = [client EXCEPT ![s] = "settle"]
             \/ client[s] = "settle" /\ client' = [client EXCEPT ![s] = "done"]
          /\ settles' \in {settles, Append(settles, s)}
          /\ UNCHANGED <<created, remaining, vouchers, added,
                         receiverReady, sendersDone, addedVouchers, clientsDone, stopMining>>
      BY <2>3 DEF OpenChannel, PassReceiverReady, PassAddedVouchers, Settle, ClientGoto
    <3>2. /\ client' \in [Client -> Places] /\ client'[Receiver] = client[Receiver]
          /\ Cardinality(At(PastCreate)) <= Cardinality(At(PastCreate)')
          /\ Cardinality(At(PastDone)) <= Cardinality(At(PastDone)')
          /\ Cardinality(At({"returned"})) <= Cardinality(At({"returned"})')
          /\ \A B \in {PastCreate, PastDone, {"returned"}} :
                Cardinality(At(B)) \in Nat /\ Cardinality(At(B)') \in Nat
      <4>1. PICK to \in Places : client' = [client EXCEPT ![s] = to]
                                /\ (client[s] \notin PastCreate \/ to \in PastCreate)
        BY <3>1 DEF Places, PastCreate
      <4>2. client'[Receiver] = client[Receiver]
        BY <1>3, <2>0, <4>1
      <4>3. client[s] \notin PastDone /\ client[s] # "returned"
        BY <3>1 DEF PastDone
      <4>. QED  BY <1>0, <2>0, <4>1, <4>2, <4>3, StillCounted
    <3>3. CountsInv'
      BY <1>0, <3>1, <3>2 DEF CountsInv
    <3>4. settles' \in Seq(Sender)
      BY <1>3, <3>1
    <3>. QED  BY <1>1, <1>2, <1>3, <3>1, <3>2, <3>3, <3>4 DEF PaychInv
  <2>. QED  BY <1>4, <2>1, <2>2, <2>3 DEF SenderStep
<1>5. CASE ReceiverStep
  <2>0. Receiver \in Client
    BY DEF Client
  <2>1. CASE AddVoucher
    <3>1. /\ added < TotalVouchers /\ added' = added + 1
          /\ UNCHANGED <<client, created, remaining, vouchers, settles,
                         receiverReady, sendersDone, addedVouchers, clientsDone, stopMining>>
      BY <2>1 DEF AddVoucher
    <3>2. added' \in 0 .. TotalVouchers
      BY <1>3, <3>1, LanesAssumption DEF TotalVouchers
    <3>. QED  BY <1>0, <1>1, <1>2, <1>3, <3>1, <3>2, NobodyMoves DEF PaychInv
  <2>2. CASE ReceiverIsReady \/ AllAdded \/ SeeSettle
    <3>1. /\ \/ /\ client[Receiver] = "subscribe"
                /\ client' = [client EXCEPT ![Receiver] = "add"]
                /\ receiverReady' = receiverReady + 1 /\ UNCHANGED addedVouchers
             \/ /\ client[Receiver] = "add"
                /\ client' = [client EXCEPT ![Receiver] = "waitSettle"]
                /\ addedVouchers' = addedVouchers + 1 /\ UNCHANGED receiverReady
             \/ /\ client[Receiver] = "waitSettle"
                /\ client' = [client EXCEPT ![Receiver] = "done"]
                /\ UNCHANGED <<receiverReady, addedVouchers>>
          /\ UNCHANGED <<created, remaining, vouchers, added, settles,
                         sendersDone, clientsDone, stopMining>>
      BY <2>2 DEF ReceiverIsReady, AllAdded, SeeSettle, ClientGoto
    <3>2. /\ client' \in [Client -> Places]
          /\ Cardinality(At(PastCreate)) <= Cardinality(At(PastCreate)')
          /\ Cardinality(At(PastDone)) <= Cardinality(At(PastDone)')
          /\ Cardinality(At({"returned"})) <= Cardinality(At({"returned"})')
          /\ \A B \in {PastCreate, PastDone, {"returned"}} :
                Cardinality(At(B)) \in Nat /\ Cardinality(At(B)') \in Nat
      <4>1. PICK to \in Places : to \in PastCreate /\ client' = [client EXCEPT ![Receiver] = to]
        BY <3>1 DEF Places, PastCreate
      <4>2. client[Receiver] \notin PastDone /\ client[Receiver] # "returned"
        BY <3>1 DEF PastDone
      <4>. QED  BY <1>0, <2>0, <4>1, <4>2, StillCounted
    <3>3. CountsInv'
      BY <1>0, <1>3, <2>0, <3>1, <3>2 DEF CountsInv
    <3>. QED  BY <1>1, <1>2, <1>3, <3>1, <3>2, <3>3 DEF PaychInv
  <2>. QED  BY <1>5, <2>1, <2>2 DEF ReceiverStep
<1>6. ASSUME NEW c \in Client, SignalClientDone(c) \/ SignalStopMining(c) PROVE PaychInv'
  <2>1. CASE SignalClientDone(c)
    <3>1. /\ client[c] = "done" /\ client' = [client EXCEPT ![c] = "stopMining"]
          /\ clientsDone' = clientsDone + 1
          /\ UNCHANGED <<created, remaining, vouchers, added, settles,
                         receiverReady, sendersDone, addedVouchers, stopMining>>
      BY <2>1 DEF SignalClientDone, ClientGoto
    <3>2. /\ client' \in [Client -> Places]
          /\ client'[Receiver] \in {"subscribe", "add"} => client'[Receiver] = client[Receiver]
          /\ Cardinality(At(PastCreate)) <= Cardinality(At(PastCreate)')
          /\ Cardinality(At(PastDone)') = Cardinality(At(PastDone)) + 1
          /\ Cardinality(At({"returned"})) <= Cardinality(At({"returned"})')
          /\ \A B \in {PastCreate, PastDone, {"returned"}} :
                Cardinality(At(B)) \in Nat /\ Cardinality(At(B)') \in Nat
      <4>1. client'[Receiver] \in {"subscribe", "add"} => client'[Receiver] = client[Receiver]
        BY <1>3, <3>1
      <4>2. PICK to \in Places : to = "stopMining" /\ client' = [client EXCEPT ![c] = to]
        BY <3>1 DEF Places
      <4>3. client[c] \notin PastDone /\ to \in PastDone /\ to \in PastCreate
        BY <3>1, <4>2 DEF Places, PastCreate, PastDone
      <4>. QED  BY <1>0, <3>1, <4>1, <4>2, <4>3, StillCounted
    <3>3. CountsInv'
      BY <1>0, <1>3, <3>1, <3>2 DEF CountsInv
    <3>. QED  BY <1>1, <1>2, <1>3, <3>1, <3>2, <3>3 DEF PaychInv
  <2>2. CASE SignalStopMining(c)
    <3>1. /\ client[c] = "stopMining" /\ client' = [client EXCEPT ![c] = "returned"]
          /\ stopMining' = stopMining + 1
          /\ UNCHANGED <<created, remaining, vouchers, added, settles,
                         receiverReady, sendersDone, addedVouchers, clientsDone>>
      BY <2>2 DEF SignalStopMining, ClientGoto
    <3>2. /\ client' \in [Client -> Places]
          /\ client'[Receiver] \in {"subscribe", "add"} => client'[Receiver] = client[Receiver]
          /\ Cardinality(At(PastCreate)) <= Cardinality(At(PastCreate)')
          /\ Cardinality(At(PastDone)) <= Cardinality(At(PastDone)')
          /\ Cardinality(At({"returned"})') = Cardinality(At({"returned"})) + 1
          /\ \A B \in {PastCreate, PastDone, {"returned"}} :
                Cardinality(At(B)) \in Nat /\ Cardinality(At(B)') \in Nat
      <4>1. client'[Receiver] \in {"subscribe", "add"} => client'[Receiver] = client[Receiver]
        BY <1>3, <3>1
      <4>2. PICK to \in Places : to = "returned" /\ client' = [client EXCEPT ![c] = to]
        BY <3>1 DEF Places
      <4>3. to \in PastDone /\ to \in PastCreate
        BY <3>1, <4>2 DEF Places, PastCreate, PastDone
      <4>. QED  BY <1>0, <3>1, <4>1, <4>2, <4>3, StillCounted
    <3>3. CountsInv'
      BY <1>0, <1>3, <3>1, <3>2 DEF CountsInv
    <3>. QED  BY <1>1, <1>2, <1>3, <3>1, <3>2, <3>3 DEF PaychInv
  <2>. QED  BY <1>6, <2>1, <2>2
<1>7. ASSUME NEW c \in Client, ClientFails(c) PROVE PaychInv'
  <2>1. /\ client[c] \in {"open", "lanes", "create", "settle", "subscribe", "add", "waitSettle"}
        /\ client' = [client EXCEPT ![c] = "failed"]
        /\ UNCHANGED <<created, remaining, vouchers, added, settles,
                       receiverReady, sendersDone, addedVouchers, clientsDone, stopMining>>
    BY <1>7 DEF ClientFails
  <2>2. /\ client' \in [Client -> Places]
        /\ client'[Receiver] \in {"subscribe", "add"} => client'[Receiver] = client[Receiver]
        /\ Cardinality(At(PastCreate)) <= Cardinality(At(PastCreate)')
        /\ Cardinality(At(PastDone)) <= Cardinality(At(PastDone)')
        /\ Cardinality(At({"returned"})) <= Cardinality(At({"returned"})')
        /\ \A B \in {PastCreate, PastDone, {"returned"}} :
              Cardinality(At(B)) \in Nat /\ Cardinality(At(B)') \in Nat
    <3>1. client'[Receiver] \in {"subscribe", "add"} => client'[Receiver] = client[Receiver]
      BY <1>3, <2>1
    <3>2. PICK to \in Places : to \in PastCreate /\ client' = [client EXCEPT ![c] = to]
      BY <2>1 DEF Places, PastCreate
    <3>3. client[c] \notin PastDone /\ client[c] # "returned"
      BY <2>1 DEF PastDone
    <3>. QED  BY <1>0, <3>1, <3>2, <3>3, StillCounted
  <2>3. CountsInv'
    BY <1>0, <1>3, <2>1, <2>2 DEF CountsInv
  <2>. QED  BY <1>1, <1>2, <1>3, <2>1, <2>2, <2>3 DEF PaychInv
<1>8. CASE UNCHANGED paychVars
  BY <1>0, <1>1, <1>2, <1>3, <1>8, NobodyMoves DEF paychVars, PaychInv
<1>. QED  BY <1>4, <1>5, <1>6, <1>7, <1>8 DEF PaychNext, ClientStep

\* The inductive invariant: whom the counters may count, and whose vouchers are where in
\* the topic.
THEOREM InductivePaych == PaychSpec => []PaychInv
BY InitPaych, NextPaych, PTL DEF PaychSpec

\* What a sender believes to be left in its channel is what its vouchers leave, and is
\* never negative: for any number of senders, lanes and vouchers per lane.
THEOREM RemainingIsUnspentHolds == PaychSpec => []RemainingIsUnspent
<1>1. PaychInv => RemainingIsUnspent
  <2>. SUFFICES ASSUME PaychInv PROVE RemainingIsUnspent
    OBVIOUS
  <2>0. PaychTypes /\ CountsInv /\ SentInv
    BY DEF PaychInv
  <2>1. {receiverReady, sendersDone, addedVouchers, clientsDone, stopMining}
            \subseteq 0 .. Cardinality(Client)
    <3>1. IsFiniteSet(Client) /\ Receiver \in Client
      BY ClientsAssumption, FS_AddElement, FS_Singleton, FS_Union DEF Client
    <3>2. Cardinality(Client) \in Nat /\ Cardinality(Client) # 0
      BY <3>1, FS_CardinalityType, FS_EmptySet
    <3>3. \A B : Cardinality(At(B)) \in 0 .. Cardinality(Client)
      BY AtIsFinite
    <3>. QED  BY <2>0, <3>2, <3>3 DEF CountsInv
  <2>2. PaychTypeOK
    BY <2>0, <2>1 DEF PaychTypes, PaychTypeOK, Places
  <2>3. ASSUME NEW s \in Sender
        PROVE  remaining[s] = ChannelAmt - Redeemable(vouchers, s) /\ remaining[s] >= 0
    <3>1. PICK n \in Nat : n = created[s] /\ n <= TotalVouchers
      BY <2>0 DEF PaychTypes
    <3>2. Redeemable(vouchers, s) = n
      BY <2>0, <3>1, RedeemableIs DEF SentInv
    <3>3. remaining[s] = ChannelAmt - n
      BY <2>0, <3>1 DEF SentInv
    <3>4. ChannelAmt = TotalVouchers /\ TotalVouchers \in Nat
      BY LanesAssumption DEF ChannelAmt, TotalVouchers
    <3>. QED  BY <3>1, <3>2, <3>3, <3>4
  <2>. QED  BY <2>2, <2>3 DEF RemainingIsUnspent
<1>. QED  BY <1>1, InductivePaych, PTL

-----------------------------------------------------------------------------
(* One sender: when it settles.  With two the receiver counts the vouchers of one for
   those of the other. *)

\* The topic holds the vouchers of the sender in the order it has created them.
VouchersInv ==
    /\ created \in [Sender -> Nat]
    /\ \A s \in Sender :
        /\ vouchers \in Seq({Voucher(s, k) : k \in Nat})
        /\ Len(vouchers) = created[s]
        /\ \A i \in 1 .. Len(vouchers) : vouchers[i] = Voucher(s, i - 1)

\* The receiver says that it has added them when it has, and a sender goes on after that.
SettleInv ==
    /\ client \in [Client -> Places]
    /\ added \in Nat /\ addedVouchers \in Nat
    /\ Sender # {} => added <= Len(vouchers)
    /\ addedVouchers >= 1 => added = TotalVouchers
    /\ \A s \in Sender : client[s] = "settle" => addedVouchers >= 1

SingleInv == VouchersInv /\ SettleInv

LEMMA InitSingle == PaychInit => SingleInv
<1>. SUFFICES ASSUME PaychInit PROVE SingleInv
  OBVIOUS
<1>1. vouchers = <<>> /\ Len(vouchers) = 0 /\ created = [s \in Sender |-> 0]
  BY DEF PaychInit
<1>2. VouchersInv
  BY <1>1 DEF VouchersInv
<1>3. client \in [Client -> {"subscribe", "open"}] /\ added = 0 /\ addedVouchers = 0
  BY DEF PaychInit
<1>4. SettleInv
  BY <1>1, <1>3 DEF SettleInv, Places, Client
<1>. QED  BY <1>2, <1>4 DEF SingleInv

LEMMA NextVouchers ==
    ASSUME \A s, o \in Sender : s = o, SingleInv, [PaychNext]_paychVars
    PROVE  VouchersInv'
<1>1. CASE UNCHANGED <<created, vouchers>>
  BY <1>1 DEF SingleInv, VouchersInv
<1>2. ASSUME NEW s \in Sender, SendVoucher(s) PROVE VouchersInv'
  <2>1. /\ vouchers' = Append(vouchers, Voucher(s, created[s]))
        /\ created' = [created EXCEPT ![s] = @ + 1]
        /\ created \in [Sender -> Nat] /\ Len(vouchers) = created[s] /\ created[s] \in Nat
        /\ vouchers \in Seq({Voucher(s, k) : k \in Nat})
        /\ \A i \in 1 .. Len(vouchers) : vouchers[i] = Voucher(s, i - 1)
    BY <1>2 DEF SendVoucher, SingleInv, VouchersInv
  <2>2. /\ vouchers' \in Seq({Voucher(s, k) : k \in Nat})
        /\ Len(vouchers') = Len(vouchers) + 1
        /\ \A i \in 1 .. Len(vouchers) : vouchers'[i] = vouchers[i]
        /\ vouchers'[Len(vouchers) + 1] = Voucher(s, Len(vouchers))
    BY <2>1
  <2>3. \A i \in 1 .. Len(vouchers') : vouchers'[i] = Voucher(s, i - 1)
    <3>1. ASSUME NEW i \in 1 .. Len(vouchers') PROVE vouchers'[i] = Voucher(s, i - 1)
      <4>1. CASE i \in 1 .. Len(vouchers)
        BY <2>1, <2>2, <4>1
      <4>2. CASE i = Len(vouchers) + 1
        BY <2>1, <2>2, <4>2, i - 1 = Len(vouchers)
      <4>. QED  BY <2>1, <2>2, <4>1, <4>2
    <3>. QED  BY <3>1
  <2>4. created' \in [Sender -> Nat] /\ created'[s] = Len(vouchers')
    BY <2>1, <2>2
  <2>. QED  BY <2>2, <2>3, <2>4 DEF VouchersInv
<1>3. (\E s \in Sender : SendVoucher(s)) \/ UNCHANGED <<created, vouchers>>
  BY DEF PaychNext, ClientStep, SenderStep, ReceiverStep, paychVars,
     OpenChannel, PassReceiverReady, SendersDone, PassAddedVouchers,
     Settle, ReceiverIsReady, AddVoucher, AllAdded, SeeSettle,
     SignalClientDone, SignalStopMining, ClientFails
<1>. QED  BY <1>1, <1>2, <1>3

LEMMA NextSettle ==
    ASSUME \A s, o \in Sender : s = o,
           SingleInv, [PaychNext]_paychVars, VouchersInv'
    PROVE  SettleInv'
<1>1. SettleInv /\ VouchersInv
  BY DEF SingleInv
<1>2. ASSUME NEW c \in Client, NEW from \in Places, NEW to \in Places, ClientGoto(c, from, to)
      PROVE  /\ client' \in [Client -> Places]
             /\ \A s \in Sender : client'[s] = "settle" => client[s] = "settle" \/ to = "settle"
  BY <1>1, <1>2 DEF ClientGoto, SettleInv, Client
<1>3. ASSUME NEW s \in Sender, SenderStep(s) PROVE SettleInv'
  <2>0. s \in Client
    BY DEF Client
  <2>1. CASE SendVoucher(s)
    <3>1. Len(vouchers) \in Nat /\ Len(vouchers') \in Nat /\ Len(vouchers) <= Len(vouchers')
      BY <1>1, <2>1 DEF SendVoucher, VouchersInv
    <3>2. UNCHANGED <<client, added, addedVouchers>>
      BY <2>1 DEF SendVoucher
    <3>. QED  BY <1>1, <3>1, <3>2 DEF SettleInv
  <2>2. CASE PassAddedVouchers(s)
    <3>1. ClientGoto(s, "waitAdded", "settle") /\ addedVouchers >= 1
          /\ UNCHANGED <<vouchers, added, addedVouchers>>
      BY <2>2 DEF PassAddedVouchers
    <3>2. client' \in [Client -> Places]
      BY <1>2, <2>0, <3>1 DEF Places
    <3>. QED  BY <1>1, <3>1, <3>2 DEF SettleInv
  <2>3. CASE OpenChannel(s) \/ PassReceiverReady(s) \/ SendersDone(s) \/ Settle(s)
    <3>1. /\ \E from \in Places, to \in Places \ {"settle"} : ClientGoto(s, from, to)
          /\ UNCHANGED <<vouchers, added, addedVouchers>>
      BY <2>3 DEF OpenChannel, PassReceiverReady, SendersDone, Settle, Places
    <3>. QED  BY <1>1, <1>2, <2>0, <3>1 DEF SettleInv
  <2>. QED  BY <1>3, <2>1, <2>2, <2>3 DEF SenderStep
<1>4. CASE ReceiverStep
  <2>0. Receiver \in Client
    BY DEF Client
  <2>1. CASE AddVoucher
    <3>1. /\ added < TotalVouchers /\ added < Len(vouchers) /\ added' = added + 1
          /\ UNCHANGED <<client, vouchers, addedVouchers>>
      BY <2>1 DEF AddVoucher
    <3>2. Sender # {} => Len(vouchers) \in Nat
      BY <1>1 DEF VouchersInv
    <3>3. ~(addedVouchers >= 1)
      BY <1>1, <3>1 DEF SettleInv
    <3>. QED  BY <1>1, <3>1, <3>2, <3>3 DEF SettleInv
  <2>2. CASE AllAdded
    <3>1. /\ added = TotalVouchers /\ ClientGoto(Receiver, "add", "waitSettle")
          /\ addedVouchers' = addedVouchers + 1 /\ UNCHANGED <<vouchers, added>>
      BY <2>2 DEF AllAdded
    <3>2. /\ client' \in [Client -> Places]
          /\ \A s \in Sender : client'[s] = "settle" => client[s] = "settle"
      BY <1>2, <2>0, <3>1 DEF Places
    <3>. QED  BY <1>1, <3>1, <3>2 DEF SettleInv
  <2>3. CASE ReceiverIsReady \/ SeeSettle
    <3>1. /\ \E from \in Places, to \in Places \ {"settle"} : ClientGoto(Receiver, from, to)
          /\ UNCHANGED <<vouchers, added, addedVouchers>>
      BY <2>3 DEF ReceiverIsReady, SeeSettle, Places
    <3>. QED  BY <1>1, <1>2, <2>0, <3>1 DEF SettleInv
  <2>. QED  BY <1>4, <2>1, <2>2, <2>3 DEF ReceiverStep
<1>5. ASSUME NEW c \in Client, SignalClientDone(c) \/ SignalStopMining(c)
      PROVE  SettleInv'
  <2>1. /\ \E from \in Places, to \in Places \ {"settle"} : ClientGoto(c, from, to)
        /\ UNCHANGED <<vouchers, added, addedVouchers>>
    BY <1>5 DEF SignalClientDone, SignalStopMining, Places
  <2>. QED  BY <1>1, <1>2, <2>1 DEF SettleInv
<1>6. ASSUME NEW c \in Client, ClientFails(c) PROVE SettleInv'
  <2>1. client' = [client EXCEPT ![c] = "failed"] /\ UNCHANGED <<vouchers, added, addedVouchers>>
    BY <1>6 DEF ClientFails
  <2>2. client' \in [Client -> Places] /\ \A s \in Sender : client'[s] = "settle" => client[s] = "settle"
    BY <1>1, <2>1 DEF SettleInv, Places, Client
  <2>. QED  BY <1>1, <2>1, <2>2 DEF SettleInv
<1>7. CASE UNCHANGED paychVars
  BY <1>1, <1>7 DEF paychVars, SettleInv
<1>. QED  BY <1>3, <1>4, <1>5, <1>6, <1>7 DEF PaychNext, ClientStep

\* With one sender, as in the composition of the test, the sender settles its channel only
\* when the receiver has added all its vouchers, however many lanes and vouchers there are.
\* (With two the run PaychStress_settle finds the opposite.)
THEOREM SettleAfterAllAddedHolds ==
    ASSUME \A s, o \in Sender : s = o
    PROVE  PaychSpec => []SettleAfterAllAdded
<1>1. SingleInv /\ [PaychNext]_paychVars => SingleInv'
  BY NextVouchers, NextSettle DEF SingleInv
<1>2. SingleInv => SettleAfterAllAdded
  <2>1. SUFFICES ASSUME SingleInv, NEW s \in Sender, client[s] = "settle"
                 PROVE  AddedOf(s) = {Voucher(s, k) : k \in 0 .. TotalVouchers - 1}
    BY DEF SettleAfterAllAdded
  <2>2. added = TotalVouchers /\ added \in Nat /\ added <= Len(vouchers)
    BY <2>1 DEF SingleInv, SettleInv
  <2>3. /\ DOMAIN SubSeq(vouchers, 1, added) = 1 .. added
        /\ \A i \in 1 .. added : SubSeq(vouchers, 1, added)[i] = vouchers[i]
    BY <2>1, <2>2, FirstOnes DEF SingleInv, VouchersInv
  <2>4. \A i \in 1 .. added : vouchers[i] = Voucher(s, i - 1)
    <3>1. Len(vouchers) \in Nat /\ \A i \in 1 .. Len(vouchers) : vouchers[i] = Voucher(s, i - 1)
      BY <2>1 DEF SingleInv, VouchersInv
    <3>. QED  BY <2>2, <3>1
  <2>5. Range(SubSeq(vouchers, 1, added)) = {vouchers[i] : i \in 1 .. added}
    BY <2>3 DEF Range
  <2>6. \A k : Voucher(s, k).sender = s
    BY DEF Voucher
  <2>7. AddedOf(s) = {vouchers[i] : i \in 1 .. added}
    BY <2>4, <2>5, <2>6 DEF AddedOf
  <2>8. {vouchers[i] : i \in 1 .. added} = {Voucher(s, k) : k \in 0 .. added - 1}
    <3>1. \A i \in 1 .. added : i - 1 \in 0 .. added - 1
      BY <2>2
    <3>2. \A k \in 0 .. added - 1 : k + 1 \in 1 .. added /\ vouchers[k + 1] = Voucher(s, k)
      BY <2>2, <2>4
    <3>. QED  BY <2>4, <3>1, <3>2
  <2>. QED  BY <2>2, <2>7, <2>8
<1>. QED  BY <1>1, <1>2, InitSingle, PTL DEF PaychSpec

=============================================================================
