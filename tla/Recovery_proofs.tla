--------------------------- MODULE Recovery_proofs --------------------------
(***************************************************************************)
(* Proofs about the recovery test.                                         *)
(*                                                                         *)
(* First RecoveryRun, for any numbers of miners, slashed miners,           *)
(* clients and waiters, any number of announcements to wait for and any    *)
(* number of losses that make a slashing.                                  *)
(*                                                                         *)
(* That a miner's success means what it should rests on every slashed      *)
(* miner announcing itself only once: a miner counts announcements, not    *)
(* miners.  That the barrier "done" means what it should rests on two      *)
(* periods: as long as nobody is through, "done" counts those who wait,    *)
(* and who has returned has returned without it; once somebody is through, *)
(* everybody has entered, and no client has aborted.                       *)
(*                                                                         *)
(* Then the record of the chain that its miners watch (ChainDiffs), for    *)
(* any miner actors, types of values, states of the miners, lag and unit.  *)
(* A new negative difference in the record comes from a head that is not   *)
(* older than the one before it comes from, so between the two there is a  *)
(* loss that has not been counted.  The indexes are seen by the places of  *)
(* the tipsets on the chain; the height of a new tipset is higher than all *)
(* recorded ones, and goes to the end of one list in each index.           *)
(***************************************************************************)
EXTENDS RecoveryRun, ChainDiffs, Counting

MinerPc   == {"collect", "watch", "enter", "doneWait", "returned", "crashed", "failed"}
SlashedPc == {"run", "publish", "outage", "restored", "enter", "doneWait", "returned", "failed"}
ClientPc  == {"deal", "retrieve", "enter", "doneWait", "returned", "failed"}
WaiterPc  == {"enter", "doneWait", "returned"}

Types ==
    /\ full \in FullSlash
    /\ pc \in [Node -> MinerPc \cup SlashedPc \cup ClientPc \cup WaiterPc]
    /\ slashed \in Seq(Slashed)
    /\ read \in [Miner -> Nat]
    /\ watch \in [Miner -> [Slashed -> {"none", "watching", "seen", "gaveUp"}]]
    /\ recorder \in [Miner -> BOOLEAN]
    /\ offline \subseteq Slashed
    /\ losses \in [Slashed -> 0..MinLosses]
    /\ recorded \in [Miner -> [Slashed -> 0..MinLosses]]
    /\ abort \in Nat /\ done \in Nat

\* Everybody is where its role may be: only a miner that is not to be restored waits.
Places ==
    /\ \A m \in Miner : pc[m] \in MinerPc
    /\ \A s \in full : pc[s] \in SlashedPc \ {"outage", "restored"}
    /\ \A s \in PartialSlash : pc[s] \in SlashedPc \ {"enter", "doneWait"}
    /\ \A c \in Client : pc[c] \in ClientPc
    /\ \A w \in Waiter : pc[w] \in WaiterPc

TypeInv == Types /\ Places

\* A slashed miner announces itself at most once.
AnnouncedOnce ==
    /\ NoRepeats(slashed)
    /\ \A s \in Elements(slashed) : pc[s] \notin {"run", "publish"}

\* m watches exactly those whose announcements it has taken, ...
WatchesWhatItRead ==
    \A m \in Miner :
        /\ read[m] <= Len(slashed)
        /\ Watched(m) = {slashed[i] : i \in 1 .. read[m]}
        /\ pc[m] = "collect" => read[m] < ToBeSlashed
        /\ pc[m] = "watch" => read[m] = ToBeSlashed
        /\ read[m] <= ToBeSlashed

\* ... and what it says it has seen has happened on the chain.
SeenHappened ==
    \A m \in Miner, s \in Slashed :
        /\ watch[m][s] = "seen" => recorded[m][s] >= MinLosses
        /\ recorded[m][s] <= losses[s]

SuccessInv ==
    \A m \in Miner : pc[m] \in {"enter", "doneWait", "returned"} =>
        /\ read[m] = ToBeSlashed
        /\ \A s \in Watched(m) : watch[m][s] = "seen"

SlashInv == AnnouncedOnce /\ WatchesWhatItRead /\ SeenHappened /\ SuccessInv

\* At the barrier: those who wait, and those whose recorder has panicked while they did.
AtDone == {"doneWait", "crashed"}

\* Nobody is through the barrier yet.
NobodyThrough ==
    /\ done = Cardinality({n \in Node : pc[n] \in AtDone})
    /\ abort = Cardinality({c \in Client : pc[c] = "returned"})
    /\ \A n \in Miner \cup full \cup Waiter : pc[n] # "returned"

\* Somebody may be.
AllEntered ==
    /\ done = TestInstanceCount
    /\ abort = 0
    /\ \A n \in Node : pc[n] \in AtDone \cup {"returned"}

DoneInv == NobodyThrough \/ AllEntered

IInv == TypeInv /\ SlashInv /\ DoneInv

-----------------------------------------------------------------------------
(* The roles. *)

\* No instance has two roles, because all roles together have as many instances.
LEMMA RolesApart ==
    /\ Miner \cap Slashed = {} /\ Miner \cap Client = {} /\ Miner \cap Waiter = {}
    /\ Slashed \cap Client = {} /\ Slashed \cap Waiter = {} /\ Client \cap Waiter = {}
<1>. DEFINE Total == Cardinality(Miner) + Cardinality(Slashed) + Cardinality(Client) + Cardinality(Waiter)
<1>1. /\ IsFiniteSet(Miner) /\ IsFiniteSet(Slashed) /\ IsFiniteSet(Client) /\ IsFiniteSet(Waiter)
      /\ Cardinality(Miner) \in Nat /\ Cardinality(Slashed) \in Nat
      /\ Cardinality(Client) \in Nat /\ Cardinality(Waiter) \in Nat
  BY RolesAssumption, FS_Subset, FS_CardinalityType DEF Node
<1>2. ASSUME NEW A, NEW B, NEW C, NEW D,
             IsFiniteSet(A), IsFiniteSet(B), IsFiniteSet(C), IsFiniteSet(D),
             Node = (A \cup B) \cup (C \cup D),
             Total = Cardinality(A) + Cardinality(B) + (Cardinality(C) + Cardinality(D))
      PROVE  A \cap B = {}
  <2>1. /\ IsFiniteSet(C \cup D) /\ IsFiniteSet(C \cap D)
        /\ Cardinality(C \cup D) = Cardinality(C) + Cardinality(D) - Cardinality(C \cap D)
    BY <1>2, FS_Union, FS_Intersection
  <2>2. Cardinality(C) \in Nat /\ Cardinality(D) \in Nat /\ Cardinality(C \cap D) \in Nat
    BY <1>2, <2>1, FS_CardinalityType
  <2>3. Cardinality(C \cup D) <= Cardinality(C) + Cardinality(D)
    BY <2>1, <2>2
  <2>4. Cardinality(C) + Cardinality(D) \in Nat
    BY <2>2
  <2>5. Cardinality((A \cup B) \cup (C \cup D)) =
            Cardinality(A) + Cardinality(B) + (Cardinality(C) + Cardinality(D))
    BY <1>2, RolesAssumption
  <2>. QED  BY <1>2, <2>1, <2>3, <2>4, <2>5, CountedOnce
<1>3. /\ Total = Cardinality(Miner) + Cardinality(Slashed) + (Cardinality(Client) + Cardinality(Waiter))
      /\ Total = Cardinality(Miner) + Cardinality(Client) + (Cardinality(Slashed) + Cardinality(Waiter))
      /\ Total = Cardinality(Miner) + Cardinality(Waiter) + (Cardinality(Slashed) + Cardinality(Client))
      /\ Total = Cardinality(Slashed) + Cardinality(Client) + (Cardinality(Miner) + Cardinality(Waiter))
      /\ Total = Cardinality(Slashed) + Cardinality(Waiter) + (Cardinality(Miner) + Cardinality(Client))
      /\ Total = Cardinality(Client) + Cardinality(Waiter) + (Cardinality(Miner) + Cardinality(Slashed))
  BY <1>1
<1>4. /\ Node = (Miner \cup Slashed) \cup (Client \cup Waiter)
      /\ Node = (Miner \cup Client) \cup (Slashed \cup Waiter)
      /\ Node = (Miner \cup Waiter) \cup (Slashed \cup Client)
      /\ Node = (Slashed \cup Client) \cup (Miner \cup Waiter)
      /\ Node = (Slashed \cup Waiter) \cup (Miner \cup Client)
      /\ Node = (Client \cup Waiter) \cup (Miner \cup Slashed)
  BY DEF Node
<1>. HIDE DEF Total
<1>5. Miner \cap Slashed = {}   BY <1>1, <1>2, <1>3, <1>4
<1>6. Miner \cap Client = {}    BY <1>1, <1>2, <1>3, <1>4
<1>7. Miner \cap Waiter = {}    BY <1>1, <1>2, <1>3, <1>4
<1>8. Slashed \cap Client = {}  BY <1>1, <1>2, <1>3, <1>4
<1>9. Slashed \cap Waiter = {}  BY <1>1, <1>2, <1>3, <1>4
<1>10. Client \cap Waiter = {}  BY <1>1, <1>2, <1>3, <1>4
<1>. QED  BY <1>5, <1>6, <1>7, <1>8, <1>9, <1>10

LEMMA SlashedRoles == full \in FullSlash => full \subseteq Slashed /\ Slashed = full \cup PartialSlash
BY CompositionsAssumption DEF PartialSlash

-----------------------------------------------------------------------------
(* Types. *)

LEMMA InitType == Init => TypeInv
<1>. SUFFICES ASSUME Init PROVE TypeInv
  OBVIOUS
<1>1. /\ \A m \in Miner : FirstStep(m) = "collect"
      /\ \A s \in Slashed : FirstStep(s) = "run"
      /\ \A c \in Client : FirstStep(c) = "deal"
      /\ \A w \in Waiter : FirstStep(w) = "enter"
  BY RolesApart DEF FirstStep
<1>2. Types
  BY <1>1, NumbersAssumption DEF Init, Types, Node, MinerPc, SlashedPc, ClientPc, WaiterPc
<1>3. Places
  BY <1>1, <1>2, SlashedRoles DEF Init, Types, Places, Node, MinerPc, SlashedPc, ClientPc, WaiterPc,
                                  PartialSlash
<1>. QED  BY <1>2, <1>3 DEF TypeInv

LEMMA NextType == TypeInv /\ [Next]_vars => TypeInv'
<1>. SUFFICES ASSUME TypeInv, [Next]_vars PROVE TypeInv'
  OBVIOUS
<1>. USE DEF TypeInv, Types, Places, MinerPc, SlashedPc, ClientPc, WaiterPc, PartialSlash, miners
<1>0. /\ Node = Miner \cup Slashed \cup Client \cup Waiter
      /\ Miner \cap Slashed = {} /\ Miner \cap Client = {} /\ Miner \cap Waiter = {}
      /\ Slashed \cap Client = {} /\ Slashed \cap Waiter = {} /\ Client \cap Waiter = {}
      /\ full \subseteq Slashed
      /\ MinLosses \in Nat
  BY RolesApart, SlashedRoles, NumbersAssumption DEF Node
<1>1. ASSUME UNCHANGED full, NEW n \in Node, Step(n) PROVE TypeInv'
  <2>1. CASE n \in Miner /\ ReadSlashed(n)
    <3>1. slashed[read[n] + 1] \in Slashed
      BY <2>1 DEF ReadSlashed
    <3>2. watch' \in [Miner -> [Slashed -> {"none", "watching", "seen", "gaveUp"}]]
      BY <2>1, <3>1 DEF ReadSlashed
    <3>3. read' \in [Miner -> Nat]
      BY <2>1 DEF ReadSlashed
    <3>. QED  BY <1>0, <1>1, <2>1, <3>2, <3>3 DEF ReadSlashed
  <2>2. CASE n \in Miner /\ AllSeen(n)           BY <1>0, <1>1, <2>2 DEF AllSeen, Goto
  <2>3. CASE n \in Miner /\ SeeAbort(n)          BY <1>0, <1>1, <2>3 DEF SeeAbort
  <2>4. CASE n \in Slashed /\ StopMiner(n)       BY <1>0, <1>1, <2>4 DEF StopMiner, Goto
  <2>5. CASE n \in Slashed /\ PublishSlashed(n)
    <3>1. slashed' \in Seq(Slashed)
      BY <2>5 DEF PublishSlashed
    <3>. QED  BY <1>0, <1>1, <2>5, <3>1 DEF PublishSlashed, Goto
  <2>6. CASE n \in PartialSlash /\ Restore(n)    BY <1>0, <1>1, <2>6 DEF Restore, Goto
  <2>7. CASE n \in PartialSlash /\ RestoredReturns(n)  BY <1>0, <1>1, <2>7 DEF RestoredReturns, Goto
  <2>8. CASE n \in Client /\ DealSealed(n)       BY <1>0, <1>1, <2>8 DEF DealSealed, Goto
  <2>9. CASE n \in Client /\ Retrieved(n)        BY <1>0, <1>1, <2>9 DEF Retrieved, Goto
  <2>10. CASE n \in Client /\ AbortTest(n)       BY <1>0, <1>1, <2>10 DEF AbortTest, Goto
  <2>11. CASE EnterDone(n)                       BY <1>0, <1>1, <2>11 DEF EnterDone, Goto
  <2>12. CASE PassDone(n)                        BY <1>0, <1>1, <2>12 DEF PassDone, Goto
  <2>. QED  BY <1>1, <2>1, <2>2, <2>3, <2>4, <2>5, <2>6, <2>7, <2>8, <2>9, <2>10, <2>11, <2>12
            DEF Step, MinerStep, SlashedStep, ClientStep
<1>2. ASSUME UNCHANGED full, NEW n \in Node, Fail(n) PROVE TypeInv'
  BY <1>0, <1>2, ZenonT(60) DEF Fail
<1>3. ASSUME UNCHANGED full, NEW m \in Miner, NEW s \in Slashed, WatchStep(m, s) PROVE TypeInv'
  <2>1. PICK how \in {"seen", "gaveUp"} : watch' = [watch EXCEPT ![m][s] = how]
    BY <1>3 DEF WatchStep
  <2>2. watch' \in [Miner -> [Slashed -> {"none", "watching", "seen", "gaveUp"}]]
    BY <2>1
  <2>. QED  BY <1>0, <1>3, <2>2 DEF WatchStep
<1>4. ASSUME UNCHANGED full, NEW m \in Miner, Record(m) PROVE TypeInv'
  BY <1>0, <1>4 DEF Record
<1>5. ASSUME UNCHANGED full, NEW m \in Miner, RecorderFails(m) PROVE TypeInv'
  <2>1. recorded' \in [Miner -> [Slashed -> 0..MinLosses]]
    BY <1>5 DEF RecorderFails
  <2>. QED  BY <1>0, <1>5, <2>1 DEF RecorderFails
<1>8. ASSUME UNCHANGED full, NEW m \in Miner, RecorderPanics(m) PROVE TypeInv'
  BY <1>0, <1>8, SMTT(30) DEF RecorderPanics
<1>6. ASSUME UNCHANGED full, NEW s \in Slashed, Penalise(s) PROVE TypeInv'
  <2>1. losses' \in [Slashed -> 0..MinLosses]
    BY <1>0, <1>6 DEF Penalise
  <2>. QED  BY <1>0, <1>6, <2>1 DEF Penalise
<1>7. CASE UNCHANGED vars
  BY <1>7 DEF vars, moving
<1>. QED  BY <1>1, <1>2, <1>3, <1>4, <1>5, <1>6, <1>7, <1>8 DEF Next

-----------------------------------------------------------------------------
(* The announcements and what the miners make of them. *)

LEMMA InitSlash == Init => SlashInv
<1>. SUFFICES ASSUME Init PROVE SlashInv
  OBVIOUS
<1>1. slashed = <<>> /\ Len(slashed) = 0 /\ DOMAIN slashed = {}
  BY DEF Init
<1>2. AnnouncedOnce
  BY <1>1 DEF AnnouncedOnce, NoRepeats, Elements
<1>3. WatchesWhatItRead
  <2>. SUFFICES ASSUME NEW m \in Miner
                PROVE  /\ read[m] = 0 /\ Watched(m) = {}
                       /\ pc[m] # "watch"
    BY <1>1, NumbersAssumption DEF WatchesWhatItRead
  <2>1. FirstStep(m) = "collect"
    BY RolesApart DEF FirstStep
  <2>. QED  BY <2>1 DEF Init, Watched, Node
<1>4. SeenHappened
  BY DEF Init, SeenHappened
<1>5. SuccessInv
  <2>1. \A m \in Miner : pc[m] = "collect"
    BY RolesApart DEF Init, FirstStep, Node
  <2>. QED  BY <2>1 DEF SuccessInv
<1>. QED  BY <1>2, <1>3, <1>4, <1>5 DEF SlashInv

\* Only PublishSlashed announces anybody, and nobody gets back to where it would.
LEMMA NextAnnounced == TypeInv /\ AnnouncedOnce /\ [Next]_vars => AnnouncedOnce'
<1>. SUFFICES ASSUME TypeInv, AnnouncedOnce, [Next]_vars PROVE AnnouncedOnce'
  OBVIOUS
<1>0. /\ slashed \in Seq(Slashed) /\ Elements(slashed) \subseteq Slashed
      /\ pc \in [Node -> MinerPc \cup SlashedPc \cup ClientPc \cup WaiterPc]
      /\ Slashed \subseteq Node
  BY DEF TypeInv, Types, Elements, Node
<1>1. ASSUME NEW s \in Slashed, PublishSlashed(s) PROVE AnnouncedOnce'
  <2>1. slashed' = Append(slashed, s)
    BY <1>1 DEF PublishSlashed
  <2>2. s \notin Elements(slashed)
    BY <1>1 DEF PublishSlashed, Goto, AnnouncedOnce
  <2>3. NoRepeats(slashed') /\ Elements(slashed') = Elements(slashed) \cup {s}
    BY <1>0, <2>1, <2>2, AppendNew DEF AnnouncedOnce
  <2>4. \A t \in Slashed : pc'[t] = IF t = s THEN IF s \in full THEN "enter" ELSE "outage" ELSE pc[t]
    BY <1>0, <1>1 DEF PublishSlashed, Goto
  <2>. QED  BY <1>0, <2>3, <2>4 DEF AnnouncedOnce
<1>2. ASSUME UNCHANGED slashed,
             \A s \in Slashed : pc'[s] \in {"run", "publish"} => pc[s] \in {"run", "publish"}
      PROVE  AnnouncedOnce'
  BY <1>0, <1>2 DEF AnnouncedOnce
<1>3. ASSUME NEW n \in Node, Step(n), ~(n \in Slashed /\ PublishSlashed(n))
      PROVE  /\ UNCHANGED slashed
             /\ \A s \in Slashed : pc'[s] \in {"run", "publish"} => pc[s] \in {"run", "publish"}
  BY <1>0, <1>3 DEF Step, MinerStep, SlashedStep, ClientStep, ReadSlashed, AllSeen, SeeAbort, StopMiner,
         Restore, RestoredReturns, DealSealed, Retrieved, AbortTest, EnterDone, PassDone, Goto
<1>4. ASSUME NEW n \in Node, Fail(n)
      PROVE  /\ UNCHANGED slashed
             /\ \A s \in Slashed : pc'[s] \in {"run", "publish"} => pc[s] \in {"run", "publish"}
  BY <1>0, <1>4 DEF Fail
<1>6. ASSUME NEW m \in Miner, RecorderPanics(m)
      PROVE  /\ UNCHANGED slashed
             /\ \A s \in Slashed : pc'[s] \in {"run", "publish"} => pc[s] \in {"run", "publish"}
  BY <1>0, <1>6 DEF RecorderPanics
<1>5. ASSUME \/ \E m \in Miner, s \in Slashed : WatchStep(m, s)
             \/ \E m \in Miner : Record(m) \/ RecorderFails(m)
             \/ \E s \in Slashed : Penalise(s)
             \/ UNCHANGED vars
      PROVE  UNCHANGED <<slashed, pc>>
  BY <1>5 DEF WatchStep, Record, RecorderFails, Penalise, vars, moving
<1>. QED  BY <1>1, <1>2, <1>3, <1>4, <1>5, <1>6 DEF Next

\* A step that takes no announcement, lets no miner begin or finish its watch.
LEMMA KeepWatches ==
    ASSUME TypeInv, WatchesWhatItRead, UNCHANGED read,
           slashed' = slashed \/ \E s \in Slashed : slashed' = Append(slashed, s),
           \A m \in Miner, s \in Slashed : watch'[m][s] = "none" <=> watch[m][s] = "none",
           \A m \in Miner : /\ pc'[m] = "collect" => pc[m] = "collect"
                            /\ pc'[m] = "watch" => pc[m] = "watch"
    PROVE  WatchesWhatItRead'
<1>. SUFFICES ASSUME NEW m \in Miner
              PROVE  /\ read[m] <= Len(slashed')
                     /\ Watched(m)' = {slashed'[i] : i \in 1 .. read[m]}
  BY DEF WatchesWhatItRead
<1>0. slashed \in Seq(Slashed) /\ read[m] \in Nat /\ Len(slashed) \in Nat /\ read[m] <= Len(slashed)
  BY DEF TypeInv, Types, WatchesWhatItRead
<1>1. read[m] <= Len(slashed') /\ \A i \in 1 .. read[m] : slashed'[i] = slashed[i]
  BY <1>0
<1>2. Watched(m)' = Watched(m)
  BY DEF Watched
<1>. QED  BY <1>1, <1>2 DEF WatchesWhatItRead

LEMMA NextWatches == TypeInv /\ WatchesWhatItRead /\ [Next]_vars => WatchesWhatItRead'
<1>. SUFFICES ASSUME TypeInv, WatchesWhatItRead, [Next]_vars PROVE WatchesWhatItRead'
  OBVIOUS
<1>. DEFINE WatchType == watch \in [Miner -> [Slashed -> {"none", "watching", "seen", "gaveUp"}]]
<1>0. /\ slashed \in Seq(Slashed) /\ read \in [Miner -> Nat] /\ WatchType
      /\ pc \in [Node -> MinerPc \cup SlashedPc \cup ClientPc \cup WaiterPc]
      /\ Miner \subseteq Node /\ ToBeSlashed \in Nat /\ Len(slashed) \in Nat
      /\ Miner \cap Slashed = {} /\ Miner \cap Client = {}
  BY RolesApart, NumbersAssumption DEF TypeInv, Types, Node
<1>1. ASSUME NEW n \in Miner, ReadSlashed(n) PROVE WatchesWhatItRead'
  <2>. DEFINE k == read[n] + 1
              a == slashed[k]
  <2>0. /\ pc[n] = "collect" /\ read[n] < Len(slashed) /\ read[n] < ToBeSlashed
        /\ read[n] \in Nat /\ a \in Slashed /\ UNCHANGED slashed
        /\ Watched(n) = {slashed[i] : i \in 1 .. read[n]}
    BY <1>0, <1>1 DEF ReadSlashed, WatchesWhatItRead
  <2>1. /\ read' = [read EXCEPT ![n] = k]
        /\ watch' = [watch EXCEPT ![n][a] = "watching"]
        /\ pc' = [pc EXCEPT ![n] = IF k < ToBeSlashed THEN "collect" ELSE "watch"]
    BY <1>1 DEF ReadSlashed
  <2>. SUFFICES ASSUME NEW m \in Miner
                PROVE  /\ read'[m] <= Len(slashed)
                       /\ Watched(m)' = {slashed[i] : i \in 1 .. read'[m]}
                       /\ pc'[m] = "collect" => read'[m] < ToBeSlashed
                       /\ pc'[m] = "watch" => read'[m] = ToBeSlashed
                       /\ read'[m] <= ToBeSlashed
    BY <2>0 DEF WatchesWhatItRead
  <2>2. CASE m # n
    <3>1. /\ read'[m] = read[m] /\ pc'[m] = pc[m] /\ watch'[m] = watch[m]
      BY <1>0, <2>1, <2>2
    <3>2. Watched(m)' = Watched(m)
      BY <3>1 DEF Watched
    <3>. QED  BY <3>1, <3>2 DEF WatchesWhatItRead
  <2>3. CASE m = n
    <3>1. read'[n] = k /\ pc'[n] = IF k < ToBeSlashed THEN "collect" ELSE "watch"
      BY <1>0, <2>1
    <3>2. \A s \in Slashed : watch'[n][s] = IF s = a THEN "watching" ELSE watch[n][s]
      BY <1>0, <2>0, <2>1
    <3>3. Watched(n)' = Watched(n) \cup {a}
      BY <2>0, <3>2 DEF Watched
    <3>4. {slashed[i] : i \in 1 .. k} = {slashed[i] : i \in 1 .. read[n]} \cup {a}
      <4>1. 1 .. k = (1 .. read[n]) \cup {k}
        BY <2>0
      <4>. QED  BY <4>1
    <3>. QED  BY <1>0, <2>0, <2>3, <3>1, <3>3, <3>4
  <2>. QED  BY <2>2, <2>3
<1>2. ASSUME NEW n \in Node, Step(n), ~(n \in Miner /\ ReadSlashed(n)) PROVE WatchesWhatItRead'
  <2>1. UNCHANGED <<read, watch>>
    BY <1>2 DEF Step, MinerStep, SlashedStep, ClientStep, AllSeen, SeeAbort, StopMiner, PublishSlashed,
         Restore, RestoredReturns, DealSealed, Retrieved, AbortTest, EnterDone, PassDone, miners
  <2>2. slashed' = slashed \/ \E s \in Slashed : slashed' = Append(slashed, s)
    BY <1>2 DEF Step, MinerStep, SlashedStep, ClientStep, AllSeen, SeeAbort, StopMiner, PublishSlashed,
         Restore, RestoredReturns, DealSealed, Retrieved, AbortTest, EnterDone, PassDone
  <2>3. \A m \in Miner : /\ pc'[m] = "collect" => pc[m] = "collect"
                         /\ pc'[m] = "watch" => pc[m] = "watch"
    BY <1>0, <1>2 DEF Step, MinerStep, SlashedStep, ClientStep, AllSeen, SeeAbort, StopMiner,
         PublishSlashed, Restore, RestoredReturns, DealSealed, Retrieved, AbortTest, EnterDone,
         PassDone, Goto
  <2>. QED  BY <2>1, <2>2, <2>3, KeepWatches
<1>3. ASSUME NEW n \in Node, Fail(n) \/ (n \in Miner /\ RecorderPanics(n))
      PROVE  WatchesWhatItRead'
  <2>1. UNCHANGED <<read, watch, slashed>>
    BY <1>3 DEF Fail, RecorderPanics, miners
  <2>2. \A m \in Miner : /\ pc'[m] = "collect" => pc[m] = "collect"
                         /\ pc'[m] = "watch" => pc[m] = "watch"
    BY <1>0, <1>3 DEF Fail, RecorderPanics
  <2>. QED  BY <2>1, <2>2, KeepWatches
<1>4. ASSUME NEW n \in Miner, NEW t \in Slashed, WatchStep(n, t) PROVE WatchesWhatItRead'
  <2>1. UNCHANGED <<read, slashed, pc>>
    BY <1>4 DEF WatchStep
  <2>2. \A m \in Miner, s \in Slashed : watch'[m][s] = "none" <=> watch[m][s] = "none"
    BY <1>0, <1>4, SMTT(30) DEF WatchStep
  <2>. QED  BY <2>1, <2>2, KeepWatches
<1>5. ASSUME \/ \E m \in Miner : Record(m) \/ RecorderFails(m)
             \/ \E s \in Slashed : Penalise(s)
             \/ UNCHANGED vars
      PROVE  WatchesWhatItRead'
  <2>1. UNCHANGED <<read, slashed, pc, watch>>
    BY <1>5 DEF Record, RecorderFails, Penalise, vars, moving, miners
  <2>. QED  BY <2>1, KeepWatches
<1>. QED  BY <1>0, <1>1, <1>2, <1>3, <1>4, <1>5 DEF Next

\* Losses are not taken back, and the record follows them from below.
LEMMA NextSeen == TypeInv /\ SeenHappened /\ [Next]_vars => SeenHappened'
<1>. SUFFICES ASSUME TypeInv, SeenHappened, [Next]_vars PROVE SeenHappened'
  OBVIOUS
<1>0. /\ read \in [Miner -> Nat] /\ slashed \in Seq(Slashed)
      /\ watch \in [Miner -> [Slashed -> {"none", "watching", "seen", "gaveUp"}]]
      /\ losses \in [Slashed -> 0..MinLosses]
      /\ recorded \in [Miner -> [Slashed -> 0..MinLosses]]
      /\ MinLosses \in Nat
  BY NumbersAssumption DEF TypeInv, Types
<1>1. ASSUME NEW n \in Miner, ReadSlashed(n) PROVE SeenHappened'
  <2>1. slashed[read[n] + 1] \in Slashed /\ UNCHANGED <<losses, recorded>>
    BY <1>0, <1>1 DEF ReadSlashed
  <2>2. watch' = [watch EXCEPT ![n][slashed[read[n] + 1]] = "watching"]
    BY <1>1 DEF ReadSlashed
  <2>3. \A m \in Miner, s \in Slashed : watch'[m][s] = "seen" => watch[m][s] = "seen"
    BY <1>0, <2>1, <2>2
  <2>. QED  BY <2>1, <2>3 DEF SeenHappened
<1>2. ASSUME NEW n \in Node, Step(n), ~(n \in Miner /\ ReadSlashed(n)) PROVE SeenHappened'
  <2>1. UNCHANGED <<watch, losses, recorded>>
    BY <1>2 DEF Step, MinerStep, SlashedStep, ClientStep, AllSeen, SeeAbort, StopMiner, PublishSlashed,
         Restore, RestoredReturns, DealSealed, Retrieved, AbortTest, EnterDone, PassDone, miners
  <2>. QED  BY <2>1 DEF SeenHappened
<1>3. ASSUME NEW n \in Miner, NEW t \in Slashed, WatchStep(n, t) PROVE SeenHappened'
  <2>1. UNCHANGED <<losses, recorded>>
    BY <1>3 DEF WatchStep
  <2>2. CASE recorded[n][t] >= MinLosses /\ watch' = [watch EXCEPT ![n][t] = "seen"]
    <3>1. \A m \in Miner, s \in Slashed :
              watch'[m][s] = "seen" => watch[m][s] = "seen" \/ (m = n /\ s = t)
      BY <1>0, <2>2
    <3>. QED  BY <2>1, <2>2, <3>1 DEF SeenHappened
  <2>3. CASE watch' = [watch EXCEPT ![n][t] = "gaveUp"]
    <3>1. \A m \in Miner, s \in Slashed : watch'[m][s] = "seen" => watch[m][s] = "seen"
      BY <1>0, <2>3
    <3>. QED  BY <2>1, <3>1 DEF SeenHappened
  <2>. QED  BY <1>3, <2>2, <2>3 DEF WatchStep
<1>4. ASSUME NEW n \in Miner, Record(n) \/ RecorderFails(n) PROVE SeenHappened'
  <2>1. UNCHANGED <<losses, watch>>
    BY <1>4 DEF Record, RecorderFails
  <2>2. \A m \in Miner, s \in Slashed : recorded'[m][s] \in {recorded[m][s], losses[s]}
    <3>1. CASE Record(n)
      BY <1>0, <3>1 DEF Record
    <3>2. CASE RecorderFails(n)
      <4>1. PICK D \in SUBSET Slashed :
                recorded' = [recorded EXCEPT ![n] =
                                [s \in Slashed |-> IF s \in D THEN losses[s] ELSE recorded[n][s]]]
        BY <3>2 DEF RecorderFails
      <4>. QED  BY <1>0, <4>1
    <3>. QED  BY <1>4, <3>1, <3>2
  <2>3. \A m \in Miner, s \in Slashed :
            /\ recorded[m][s] <= losses[s] /\ recorded[m][s] \in Nat /\ losses[s] \in Nat
            /\ watch[m][s] = "seen" => recorded[m][s] >= MinLosses
    BY <1>0 DEF SeenHappened
  <2>4. \A m \in Miner, s \in Slashed :
            /\ watch'[m][s] = "seen" => recorded'[m][s] >= MinLosses
            /\ recorded'[m][s] <= losses'[s]
    <3>. SUFFICES ASSUME NEW m \in Miner, NEW s \in Slashed
                  PROVE  /\ watch[m][s] = "seen" => recorded'[m][s] >= MinLosses
                         /\ recorded'[m][s] <= losses[s]
      BY <2>1
    <3>1. CASE recorded'[m][s] = recorded[m][s]
      BY <2>3, <3>1
    <3>2. CASE recorded'[m][s] = losses[s]
      BY <1>0, <2>3, <3>2
    <3>. QED  BY <2>2, <3>1, <3>2
  <2>. QED  BY <2>4 DEF SeenHappened
<1>5. ASSUME NEW t \in Slashed, Penalise(t) PROVE SeenHappened'
  <2>1. UNCHANGED <<watch, recorded>>
    BY <1>5 DEF Penalise, miners
  <2>2. \A s \in Slashed : losses'[s] >= losses[s] /\ losses'[s] \in Nat
    BY <1>0, <1>5 DEF Penalise
  <2>. QED  BY <1>0, <2>1, <2>2 DEF SeenHappened
<1>6. ASSUME (\E n \in Node : Fail(n)) \/ (\E m \in Miner : RecorderPanics(m)) \/ UNCHANGED vars
      PROVE  SeenHappened'
  <2>1. UNCHANGED <<watch, losses, recorded>>
    BY <1>6 DEF Fail, RecorderPanics, vars, moving, miners
  <2>. QED  BY <2>1 DEF SeenHappened
<1>. QED  BY <1>1, <1>2, <1>3, <1>4, <1>5, <1>6 DEF Next

\* A miner gets to its success only out of its watch, which is over then.
LEMMA NextSuccess == TypeInv /\ SlashInv /\ [Next]_vars => SuccessInv'
<1>. SUFFICES ASSUME TypeInv, SlashInv, [Next]_vars PROVE SuccessInv'
  OBVIOUS
<1>. DEFINE Succeeded == {"enter", "doneWait", "returned"}
<1>0. /\ pc \in [Node -> MinerPc \cup SlashedPc \cup ClientPc \cup WaiterPc]
      /\ read \in [Miner -> Nat]
      /\ watch \in [Miner -> [Slashed -> {"none", "watching", "seen", "gaveUp"}]]
      /\ Miner \subseteq Node /\ Miner \cap Slashed = {} /\ Miner \cap Client = {}
  BY RolesApart DEF TypeInv, Types, Node
<1>1. ASSUME NEW n \in Miner, AllSeen(n) PROVE SuccessInv'
  <2>1. pc[n] = "watch" /\ read[n] = ToBeSlashed /\ \A s \in Watched(n) : watch[n][s] = "seen"
    BY <1>1 DEF AllSeen, Goto, SlashInv, WatchesWhatItRead
  <2>2. UNCHANGED <<read, watch>> /\ \A m \in Miner : pc'[m] = pc[m] \/ m = n
    BY <1>0, <1>1 DEF AllSeen, Goto, miners
  <2>. QED  BY <2>1, <2>2 DEF SlashInv, SuccessInv, Watched
<1>2. ASSUME \A m \in Miner : pc'[m] \in Succeeded =>
                 pc[m] \in Succeeded /\ read'[m] = read[m] /\ watch'[m] = watch[m]
      PROVE  SuccessInv'
  BY <1>2 DEF SlashInv, SuccessInv, Watched
<1>3. ASSUME NEW n \in Miner, ReadSlashed(n) PROVE SuccessInv'
  <2>1. \A m \in Miner : pc'[m] \in Succeeded =>
            pc[m] \in Succeeded /\ read'[m] = read[m] /\ watch'[m] = watch[m]
    BY <1>0, <1>3 DEF ReadSlashed
  <2>. QED  BY <1>2, <2>1
<1>7. ASSUME NEW n \in Miner, RecorderPanics(n) PROVE SuccessInv'
  <2>1. \A m \in Miner : pc'[m] \in Succeeded =>
            pc[m] \in Succeeded /\ read'[m] = read[m] /\ watch'[m] = watch[m]
    BY <1>0, <1>7 DEF RecorderPanics
  <2>. QED  BY <1>2, <2>1
<1>4. ASSUME NEW n \in Node, Fail(n) \/ Step(n), ~(n \in Miner /\ (ReadSlashed(n) \/ AllSeen(n)))
      PROVE  SuccessInv'
  <2>1. UNCHANGED <<read, watch>>
    BY <1>4 DEF Fail, Step, MinerStep, SlashedStep, ClientStep, SeeAbort, StopMiner, PublishSlashed,
         Restore, RestoredReturns, DealSealed, Retrieved, AbortTest, EnterDone, PassDone, miners
  <2>2. \A m \in Miner : pc'[m] \in Succeeded => pc[m] \in Succeeded
    BY <1>0, <1>4 DEF Fail, Step, MinerStep, SlashedStep, ClientStep, SeeAbort, StopMiner,
         PublishSlashed, Restore, RestoredReturns, DealSealed, Retrieved, AbortTest, EnterDone,
         PassDone, Goto, PartialSlash
  <2>. QED  BY <1>2, <2>1, <2>2
<1>5. ASSUME NEW n \in Miner, NEW t \in Slashed, WatchStep(n, t) PROVE SuccessInv'
  <2>1. pc[n] \notin Succeeded /\ UNCHANGED <<pc, read>>
    BY <1>5 DEF WatchStep
  <2>2. \A m \in Miner : m # n => watch'[m] = watch[m]
    BY <1>0, <1>5 DEF WatchStep
  <2>. QED  BY <1>2, <2>1, <2>2
<1>6. ASSUME \/ \E m \in Miner : Record(m) \/ RecorderFails(m)
             \/ \E s \in Slashed : Penalise(s)
             \/ UNCHANGED vars
      PROVE  SuccessInv'
  <2>1. UNCHANGED <<read, watch, pc>>
    BY <1>6 DEF Record, RecorderFails, Penalise, vars, moving, miners
  <2>. QED  BY <1>2, <2>1
<1>. QED  BY <1>1, <1>3, <1>4, <1>5, <1>6, <1>7 DEF Next

LEMMA NextSlash == TypeInv /\ SlashInv /\ [Next]_vars => SlashInv'
BY NextAnnounced, NextWatches, NextSeen, NextSuccess DEF SlashInv

-----------------------------------------------------------------------------
(* The barrier "done". *)

LEMMA InitDone == Init => DoneInv
<1>. SUFFICES ASSUME Init PROVE NobodyThrough
  BY DEF DoneInv
<1>1. \A n \in Node : pc[n] \notin AtDone \cup {"returned"}
  BY RolesApart DEF Init, FirstStep, Node, AtDone
<1>2. /\ {n \in Node : pc[n] \in AtDone} = {}
      /\ {c \in Client : pc[c] = "returned"} = {}
  BY <1>1 DEF Node
<1>3. Miner \cup full \cup Waiter \subseteq Node
  BY SlashedRoles DEF Init, Node
<1>. QED  BY <1>1, <1>2, <1>3, FS_EmptySet DEF Init, NobodyThrough

\* A step after which the same instances are at the barrier and the same have returned.
LEMMA KeepDone ==
    ASSUME NobodyThrough, UNCHANGED <<done, abort, full>>,
           \A n \in Node : (pc'[n] \in AtDone) <=> (pc[n] \in AtDone),
           \A n \in Miner \cup full \cup Waiter \cup Client :
               (pc'[n] = "returned") <=> (pc[n] = "returned")
    PROVE  NobodyThrough'
<1>1. /\ {n \in Node : pc'[n] \in AtDone} = {n \in Node : pc[n] \in AtDone}
      /\ {c \in Client : pc'[c] = "returned"} = {c \in Client : pc[c] = "returned"}
  OBVIOUS
<1>. QED  BY <1>1 DEF NobodyThrough

\* Once somebody may be through, there is nothing left to do but to get through.
LEMMA NextAllEntered ==
    ASSUME TypeInv, AllEntered, [Next]_vars
    PROVE  AllEntered'
<1>0. pc \in [Node -> MinerPc \cup SlashedPc \cup ClientPc \cup WaiterPc]
  BY DEF TypeInv, Types
<1>1. ASSUME NEW n \in Node, Step(n) \/ Fail(n) PROVE AllEntered'
  <2>1. pc[n] \in {"doneWait", "crashed", "returned"}
    BY DEF AllEntered, AtDone
  <2>2. PassDone(n)
    BY <1>1, <2>1 DEF Step, Fail, MinerStep, SlashedStep, ClientStep, ReadSlashed, AllSeen, SeeAbort,
           StopMiner, PublishSlashed, Restore, RestoredReturns, DealSealed, Retrieved, AbortTest,
           EnterDone, Goto
  <2>. QED  BY <1>0, <2>2 DEF PassDone, Goto, AllEntered
<1>3. ASSUME NEW m \in Miner, RecorderPanics(m) PROVE AllEntered'
  <2>1. pc[m] = "doneWait"
    BY <1>3 DEF RecorderPanics, AllEntered, AtDone, Node
  <2>. QED  BY <1>0, <1>3, <2>1 DEF RecorderPanics, AllEntered, AtDone
<1>2. ASSUME \/ \E m \in Miner, s \in Slashed : WatchStep(m, s)
             \/ \E m \in Miner : Record(m) \/ RecorderFails(m)
             \/ \E s \in Slashed : Penalise(s)
             \/ UNCHANGED vars
      PROVE  UNCHANGED <<pc, done, abort>>
  BY <1>2 DEF WatchStep, Record, RecorderFails, Penalise, vars, moving
<1>. QED  BY <1>1, <1>2, <1>3 DEF Next, AllEntered

LEMMA NextNobodyThrough ==
    ASSUME TypeInv, NobodyThrough, [Next]_vars
    PROVE  DoneInv'
<1>. DEFINE Waiting == {n \in Node : pc[n] \in AtDone}
            Returned == {c \in Client : pc[c] = "returned"}
<1>0. /\ pc \in [Node -> MinerPc \cup SlashedPc \cup ClientPc \cup WaiterPc]
      /\ Node = Miner \cup Slashed \cup Client \cup Waiter /\ full \subseteq Slashed
      /\ Miner \cap Slashed = {} /\ Miner \cap Client = {} /\ Miner \cap Waiter = {}
      /\ Slashed \cap Client = {} /\ Slashed \cap Waiter = {} /\ Client \cap Waiter = {}
      /\ IsFiniteSet(Node) /\ IsFiniteSet(Client)
  BY RolesApart, RolesAssumption, SlashedRoles, FS_Subset DEF TypeInv, Types, Node
<1>00. done = Cardinality(Waiting) /\ abort = Cardinality(Returned)
  BY DEF NobodyThrough
<1>01. UNCHANGED full
  BY DEF Next, vars
<1>1. ASSUME NEW n \in Node, EnterDone(n) PROVE NobodyThrough'
  <2>1. \A k \in Node : pc'[k] = IF k = n THEN "doneWait" ELSE pc[k]
    BY <1>0, <1>1 DEF EnterDone, Goto
  <2>2. pc[n] = "enter" /\ done' = done + 1 /\ UNCHANGED abort
    BY <1>1 DEF EnterDone, Goto
  <2>3. Waiting' = Waiting \cup {n} /\ n \notin Waiting /\ Returned' = Returned
    BY <1>0, <2>1, <2>2 DEF AtDone
  <2>4. Cardinality(Waiting') = Cardinality(Waiting) + 1
    <3>1. Waiting \in SUBSET Node  OBVIOUS
    <3>. HIDE DEF Waiting
    <3>. QED  BY <1>0, <2>3, <3>1, OneMore
  <2>5. \A k \in Miner \cup full \cup Waiter : pc'[k] # "returned"
    BY <1>0, <2>1 DEF NobodyThrough
  <2>6. done' = Cardinality(Waiting') /\ abort' = Cardinality(Returned')
    BY <1>00, <2>2, <2>3, <2>4
  <2>. QED  BY <1>01, <2>5, <2>6 DEF NobodyThrough
<1>2. ASSUME NEW n \in Node, PassDone(n) PROVE AllEntered'
  <2>1. Cardinality(Waiting) >= Cardinality(Node)
    BY <1>00, <1>2 DEF PassDone, TestInstanceCount
  <2>2. Waiting = Node
    <3>1. Waiting \in SUBSET Node  OBVIOUS
    <3>. HIDE DEF Waiting
    <3>. QED  BY <1>0, <2>1, <3>1, FullCount
  <2>3. Returned = {}
    BY <1>0, <2>2 DEF AtDone
  <2>4. done = TestInstanceCount /\ abort = 0
    BY <1>00, <2>2, <2>3, FS_EmptySet DEF TestInstanceCount
  <2>. QED  BY <1>0, <1>2, <2>2, <2>4 DEF PassDone, Goto, AllEntered
<1>3. ASSUME NEW n \in Client, AbortTest(n) PROVE NobodyThrough'
  <2>1. \A k \in Node : pc'[k] = IF k = n THEN "returned" ELSE pc[k]
    BY <1>0, <1>3 DEF AbortTest, Goto
  <2>2. pc[n] = "retrieve" /\ abort' = abort + 1 /\ UNCHANGED done
    BY <1>3 DEF AbortTest, Goto
  <2>3. Returned' = Returned \cup {n} /\ n \notin Returned /\ Waiting' = Waiting
    BY <1>0, <2>1, <2>2 DEF AtDone
  <2>4. Cardinality(Returned') = Cardinality(Returned) + 1
    <3>1. Returned \in SUBSET Client  OBVIOUS
    <3>. HIDE DEF Returned
    <3>. QED  BY <1>0, <2>3, <3>1, OneMore
  <2>5. \A k \in Miner \cup full \cup Waiter : pc'[k] # "returned"
    BY <1>0, <2>1 DEF NobodyThrough
  <2>6. done' = Cardinality(Waiting') /\ abort' = Cardinality(Returned')
    BY <1>00, <2>2, <2>3, <2>4
  <2>. QED  BY <1>01, <2>5, <2>6 DEF NobodyThrough
<1>4. ASSUME NEW n \in Node, Step(n) \/ Fail(n), ~EnterDone(n), ~PassDone(n),
             ~(n \in Client /\ AbortTest(n))
      PROVE  NobodyThrough'
  <2>1. UNCHANGED <<done, abort>>
    BY <1>4 DEF Step, Fail, MinerStep, SlashedStep, ClientStep, ReadSlashed, AllSeen, SeeAbort,
           StopMiner, PublishSlashed, Restore, RestoredReturns, DealSealed, Retrieved
  <2>2. /\ \A k \in Node : (pc'[k] \in AtDone) <=> (pc[k] \in AtDone)
        /\ \A k \in Node : k # n \/ ~(n \in PartialSlash) =>
               ((pc'[k] = "returned") <=> (pc[k] = "returned"))
    BY <1>0, <1>4 DEF Step, Fail, MinerStep, SlashedStep, ClientStep, ReadSlashed, AllSeen, SeeAbort,
           StopMiner, PublishSlashed, Restore, RestoredReturns, DealSealed, Retrieved, Goto, AtDone
  <2>3. \A k \in Miner \cup full \cup Waiter \cup Client : k \notin PartialSlash /\ k \in Node
    BY <1>0 DEF PartialSlash
  <2>. QED  BY <1>01, <2>1, <2>2, <2>3, KeepDone
<1>5. ASSUME \/ \E m \in Miner, s \in Slashed : WatchStep(m, s)
             \/ \E m \in Miner : Record(m) \/ RecorderFails(m)
             \/ \E s \in Slashed : Penalise(s)
             \/ UNCHANGED vars
      PROVE  NobodyThrough'
  <2>1. UNCHANGED <<pc, done, abort>>
    BY <1>5 DEF WatchStep, Record, RecorderFails, Penalise, vars, moving
  <2>. QED  BY <1>01, <2>1, KeepDone
<1>6. ASSUME NEW m \in Miner, RecorderPanics(m) PROVE NobodyThrough'
  <2>1. /\ UNCHANGED <<done, abort>>
        /\ \A k \in Node : (pc'[k] \in AtDone) <=> (pc[k] \in AtDone)
        /\ \A k \in Node : (pc'[k] = "returned") <=> (pc[k] = "returned")
    BY <1>0, <1>6 DEF RecorderPanics, AtDone
  <2>. QED  BY <1>0, <1>01, <2>1, KeepDone
<1>. QED  BY <1>1, <1>2, <1>3, <1>4, <1>5, <1>6 DEF Next, DoneInv

LEMMA NextDone == TypeInv /\ DoneInv /\ [Next]_vars => DoneInv'
BY NextAllEntered, NextNobodyThrough DEF DoneInv

-----------------------------------------------------------------------------
(* Theorems. *)

\* The inductive invariant: whom a miner has watched, what it has seen, and the two periods
\* of the barrier.
THEOREM Inductive == Spec => []IInv
<1>1. Init => IInv
  BY InitType, InitSlash, InitDone DEF IInv
<1>2. IInv /\ [Next]_vars => IInv'
  BY NextType, NextSlash, NextDone DEF IInv
<1>. QED  BY <1>1, <1>2, PTL DEF Spec

\* No state is entered, and nothing announced, more often than there are instances to do it.
LEMMA TypesBounded == IInv => TypeOK
<1>. SUFFICES ASSUME IInv PROVE TypeOK
  OBVIOUS
<1>0. /\ Types /\ ToBeSlashed \in Nat
      /\ IsFiniteSet(Node) /\ IsFiniteSet(Client) /\ IsFiniteSet(Slashed)
  BY RolesAssumption, NumbersAssumption, FS_Subset DEF IInv, TypeInv, Node
<1>1. Len(slashed) <= Cardinality(Slashed)
  <2>1. slashed \in Seq(Slashed) /\ NoRepeats(slashed)
    BY <1>0 DEF Types, IInv, SlashInv, AnnouncedOnce
  <2>2. Cardinality(Elements(slashed)) = Len(slashed)
    BY <2>1, LengthCounts
  <2>3. Elements(slashed) \in SUBSET Slashed
    BY <2>1 DEF Elements
  <2>4. Cardinality(Elements(slashed)) \in 0 .. Cardinality(Slashed)
    BY <1>0, <2>3, CountBound
  <2>. QED  BY <2>2, <2>4
<1>2. read \in [Miner -> 0..ToBeSlashed]
  BY <1>0 DEF Types, IInv, SlashInv, WatchesWhatItRead
<1>3. abort \in 0..Cardinality(Client) /\ done \in 0..TestInstanceCount
  <2>1. CASE NobodyThrough
    <3>. DEFINE W == {n \in Node : pc[n] \in AtDone}
                R == {c \in Client : pc[c] = "returned"}
    <3>1. W \in SUBSET Node /\ R \in SUBSET Client /\ done = Cardinality(W) /\ abort = Cardinality(R)
      BY <2>1 DEF NobodyThrough
    <3>. HIDE DEF W, R
    <3>. QED  BY <1>0, <3>1, CountBound DEF TestInstanceCount
  <2>2. CASE AllEntered
    BY <1>0, <2>2, FS_CardinalityType DEF AllEntered, TestInstanceCount
  <2>. QED  BY <2>1, <2>2 DEF IInv, DoneInv
<1>. QED  BY <1>0, <1>1, <1>2, <1>3 DEF Types, TypeOK, MinerPc, SlashedPc, ClientPc, WaiterPc

\* However many miners are slashed, and whoever fails, aborts or loses its recorder: a miner
\* that reports success has seen the losses of ToBeSlashed different miners that had
\* announced themselves, and they have happened.
THEOREM SuccessMeansSlashedHolds == Spec => []SuccessMeansSlashed
<1>1. IInv => SuccessMeansSlashed
  <2>. SUFFICES ASSUME IInv, NEW m \in Miner, pc[m] \in {"enter", "doneWait", "returned"}
                PROVE  Cardinality({s \in Announced : losses[s] >= MinLosses}) >= ToBeSlashed
    BY TypesBounded DEF SuccessMeansSlashed
  <2>. DEFINE Lossy == {s \in Announced : losses[s] >= MinLosses}
  <2>0. /\ slashed \in Seq(Slashed) /\ IsFiniteSet(Slashed) /\ ToBeSlashed \in Nat
        /\ losses \in [Slashed -> 0..MinLosses] /\ recorded \in [Miner -> [Slashed -> 0..MinLosses]]
        /\ MinLosses \in Nat
    BY RolesAssumption, NumbersAssumption, FS_Subset DEF IInv, TypeInv, Types, Node
  <2>1. /\ read[m] = ToBeSlashed /\ read[m] <= Len(slashed)
        /\ Watched(m) = {slashed[i] : i \in 1 .. read[m]}
        /\ \A s \in Watched(m) : watch[m][s] = "seen"
    BY DEF IInv, SlashInv, SuccessInv, WatchesWhatItRead
  <2>2. Watched(m) \in SUBSET Lossy
    <3>. SUFFICES ASSUME NEW s \in Watched(m) PROVE s \in Announced /\ losses[s] >= MinLosses
      OBVIOUS
    <3>1. s \in Slashed
      BY DEF Watched
    <3>2. recorded[m][s] >= MinLosses /\ recorded[m][s] <= losses[s]
      BY <2>1, <3>1 DEF IInv, SlashInv, SeenHappened
    <3>3. losses[s] >= MinLosses
      BY <2>0, <3>1, <3>2
    <3>4. s \in Announced
      BY <2>0, <2>1 DEF Announced
    <3>. QED  BY <3>3, <3>4
  <2>3. Cardinality(Watched(m)) = ToBeSlashed
    <3>. DEFINE waited == [i \in 1 .. ToBeSlashed |-> slashed[i]]
    <3>1. DOMAIN waited = 1 .. ToBeSlashed /\ Elements(waited) = Watched(m)
      BY <2>1 DEF Elements
    <3>2. NoRepeats(slashed)
      BY DEF IInv, SlashInv, AnnouncedOnce
    <3>3. NoRepeats(waited)
      BY <2>0, <2>1, <3>2 DEF NoRepeats
    <3>. HIDE DEF waited
    <3>. QED  BY <2>0, <3>1, <3>3, LengthCounts
  <2>4. IsFiniteSet(Lossy)
    <3>1. Lossy \in SUBSET Slashed
      BY <2>0 DEF Announced
    <3>. QED  BY <2>0, <3>1, FS_Subset
  <2>5. Cardinality(Watched(m)) \in 0 .. Cardinality(Lossy)
    <3>. HIDE DEF Lossy
    <3>. QED  BY <2>2, <2>4, CountBound
  <2>6. Cardinality(Lossy) \in Nat
    BY <2>4, FS_CardinalityType
  <2>. QED  BY <2>0, <2>3, <2>5, <2>6
<1>. QED  BY <1>1, Inductive, PTL

\* Whoever comes back from the barrier "done" comes back when all have entered it and nobody
\* has aborted; the two ways to return without it are not mistaken for it.
THEOREM DoneMeansAllDoneHolds == Spec => []DoneMeansAllDone
<1>1. IInv => DoneMeansAllDone
  BY DEF IInv, DoneInv, NobodyThrough, AllEntered, AtDone, DoneMeansAllDone
<1>. QED  BY <1>1, Inductive, PTL
-----------------------------------------------------------------------------
(* The record that the watching miners look into (ChainDiffs).  The miner  *)
(* actors of the chain are Actor here, as Miner are the watching instances.*)

\* The locked funds of a that head i says, and the heads up to n where they are less than
\* in the head before.
Funds(a, i) == heads[i][a]["LockedFunds"]
LossesUpTo(a, n) == {i \in 2..n : Funds(a, i) < Funds(a, i - 1)}

DiffTypes ==
    /\ chain \in Seq(0..MaxHeight) /\ chain # <<>>
    /\ \A i, j \in 1..Len(chain) : i < j => chain[i] < chain[j]
    /\ heads \in Seq([Actor -> MinerStates]) /\ heads # <<>>
    /\ recording \in {"waiting", "recording", "stopped"}
    /\ taken \in Nat /\ (taken = 0 \/ taken + headlag <= Len(chain))
    /\ DOMAIN DiffHeight = Actor /\ DOMAIN DiffCmp = Actor
    /\ slashWatch \in [Actor -> {"watching", "found", "closed"}]

\* PrevHeight is where the tipset before the one being recorded is.
PrevInv ==
    /\ recording = "waiting" => PrevHeight = IF taken = 0 THEN -1 ELSE chain[taken]
    /\ recording = "recording" =>
           taken >= 1 /\ PrevHeight = IF taken = 1 THEN -1 ELSE chain[taken - 1]

\* Funds that are less in a later head have been lost from some head to the next.
FallsInv ==
    \A a \in Actor : \A j, i \in 1..Len(heads) :
        j <= i /\ Funds(a, i) < Funds(a, j) => \E l \in j + 1..i : l \in LossesUpTo(a, i)

\* The height under which a's newest values are.
Newest(a) == IF recording = "recording" /\ a \notin todo THEN chain[taken] ELSE PrevHeight

\* info has been asked about a, when the newest head was head k or a later one.
InfoSince(a, k) ==
    minerInfo # <<>> /\ Last(minerInfo).miner = a =>
        a \in todo /\ \E i \in k..Len(heads) : Last(minerInfo).state = heads[i][a]

\* a's newest values are those of head k, and by then there were as many losses as the
\* record has different negative differences.
NewestIs(a, k) ==
    /\ \/ Newest(a) = -1
       \/ /\ Newest(a) \in DOMAIN DiffHeight[a]["LockedFunds"]
          /\ DiffHeight[a]["LockedFunds"][Newest(a)] = roundBalance(Funds(a, k))
    /\ Cardinality(NegativeDiffs(a)) <= Cardinality(LossesUpTo(a, k))
    /\ InfoSince(a, k)

RecordInv ==
    \A a \in Actor :
        /\ IsFiniteSet(NegativeDiffs(a))
        /\ recording # "stopped" => \E k \in 1..Len(heads) : NewestIs(a, k)
        /\ Cardinality(NegativeDiffs(a)) <= Cardinality(LossesUpTo(a, Len(heads)))

WatchInv ==
    \A a \in Actor : slashWatch[a] # "watching" =>
        Cardinality(LossesUpTo(a, Len(heads))) >= SlashLosses

DInv == DiffTypes /\ PrevInv /\ FallsInv /\ RecordInv /\ WatchInv

-----------------------------------------------------------------------------
(* Numbers. *)

\* A smaller number of units comes from less funds.
LEMMA RoundedFalls ==
    ASSUME NEW x \in Int, NEW y \in Int
    PROVE  /\ roundBalance(x) \in Int
           /\ roundBalance(y) < roundBalance(x) => y < x
<1>0. Unit \in Nat \ {0}
  BY RecordAssumption
<1>1. ASSUME NEW i \in Int, NEW j \in Int, i <= j
      PROVE  (i \div Unit) \in Int /\ (j \div Unit) \in Int /\ (i \div Unit) <= (j \div Unit)
  BY <1>0, <1>1
<1>2. ASSUME NEW i \in Int, NEW j \in Int, i <= j PROVE i * Unit <= j * Unit
  BY <1>0, <1>2
<1>3. x <= y => (x \div Unit) * Unit <= (y \div Unit) * Unit
  BY <1>1, <1>2
<1>4. (x \div Unit) * Unit \in Int /\ (y \div Unit) * Unit \in Int
  BY <1>0, <1>1
<1>. QED  BY <1>3, <1>4 DEF roundBalance

\* The funds are numbers.
LEMMA FundsType ==
    ASSUME DiffTypes, NEW a \in Actor
    PROVE  /\ Len(heads) \in Nat /\ Len(heads) >= 1
           /\ \A i \in 1..Len(heads) : Funds(a, i) \in Int
<1>1. Len(heads) \in Nat /\ Len(heads) >= 1 /\ \A i \in 1..Len(heads) : heads[i] \in [Actor -> MinerStates]
  BY DEF DiffTypes
<1>2. MinerStates \subseteq [ValueTypes -> Int] /\ "LockedFunds" \in ValueTypes
  BY TypesAssumption
<1>. QED  BY <1>1, <1>2 DEF Funds

\* There are finitely many losses, and no less up to a later head.
LEMMA LossesGrow ==
    ASSUME NEW a, NEW k \in Int, NEW n \in Int, k <= n
    PROVE  /\ IsFiniteSet(LossesUpTo(a, n)) /\ LossesUpTo(a, k) \subseteq LossesUpTo(a, n)
           /\ Cardinality(LossesUpTo(a, k)) \in Nat /\ Cardinality(LossesUpTo(a, n)) \in Nat
           /\ Cardinality(LossesUpTo(a, k)) <= Cardinality(LossesUpTo(a, n))
<1>1. IsFiniteSet(2..n)
  BY FS_Interval
<1>2. LossesUpTo(a, k) \subseteq LossesUpTo(a, n) /\ LossesUpTo(a, n) \subseteq 2..n
  BY DEF LossesUpTo
<1>. QED  BY <1>1, <1>2, FS_Subset, FS_CardinalityType

\* Where the funds are less than before there is one more loss in between.
LEMMA OneMoreLoss ==
    ASSUME DiffTypes, FallsInv, NEW a \in Actor,
           NEW k \in 1..Len(heads), NEW n \in 1..Len(heads), k <= n, Funds(a, n) < Funds(a, k)
    PROVE  Cardinality(LossesUpTo(a, k)) + 1 <= Cardinality(LossesUpTo(a, n))
<1>1. PICK l \in k + 1..n : l \in LossesUpTo(a, n)
  BY DEF FallsInv
<1>2. l \notin LossesUpTo(a, k)
  BY FundsType, <1>1 DEF LossesUpTo
<1>3. /\ IsFiniteSet(LossesUpTo(a, n)) /\ LossesUpTo(a, k) \in SUBSET LossesUpTo(a, n)
  BY LossesGrow, FundsType
<1>. QED  BY <1>1, <1>2, <1>3, CountRoom

-----------------------------------------------------------------------------
(* recordDiff *)

\* The value of the locked funds that is recorded comes from a head not older than what is
\* known to be newest.
LEMMA ValueIs ==
    ASSUME DInv, NEW a \in Actor, InTurn(a),
           NEW k \in 1..Len(heads), NewestIs(a, k)
    PROVE  \E n \in k..Len(heads) :
               Value(a)["LockedFunds"] = roundBalance(Funds(a, n))
<1>1. "LockedFunds" \in Rounded /\ "LockedFunds" \in ValueTypes
  BY TypesAssumption
<1>2. Len(heads) \in Nat /\ Len(heads) >= 1
  BY FundsType DEF DInv
<1>3. PICK i \in k..Len(heads) : Last(minerInfo).state = heads[i][a]
  BY DEF InTurn, NewestIs, InfoSince
<1>4. CASE "LockedFunds" \in ProvingTypes
  <2>1. Value(a)["LockedFunds"] = roundBalance(Funds(a, Len(heads)))
    BY <1>1, <1>4 DEF Value, Shown, head, Last, Funds
  <2>. QED  BY <1>2, <2>1
<1>5. CASE "LockedFunds" \notin ProvingTypes
  <2>1. Value(a)["LockedFunds"] = roundBalance(Funds(a, i))
    BY <1>1, <1>3, <1>5 DEF Value, Shown, Funds
  <2>. QED  BY <1>3, <2>1
<1>. QED  BY <1>4, <1>5

\* The height being recorded is not the one before it.
LEMMA HeightIsNew ==
    ASSUME DInv, recording = "recording"
    PROVE  height = chain[taken] /\ chain[taken] \in Nat /\ chain[taken] # -1
           /\ chain[taken] # PrevHeight
<1>1. /\ taken \in Nat /\ taken >= 1 /\ taken <= Len(chain) /\ chain \in Seq(0..MaxHeight)
      /\ PrevHeight = IF taken = 1 THEN -1 ELSE chain[taken - 1]
      /\ \A i, j \in 1..Len(chain) : i < j => chain[i] < chain[j]
  <2>1. headlag \in Nat
    BY RecordAssumption
  <2>. QED  BY <2>1 DEF DInv, DiffTypes, PrevInv
<1>2. MaxHeight \in Nat /\ \A i \in 1..Len(chain) : chain[i] \in 0..MaxHeight
  BY <1>1, RecordAssumption
<1>3. taken \in 1..Len(chain)
  BY <1>1
<1>4. chain[taken] \in Nat /\ chain[taken] # -1
  BY <1>2, <1>3
<1>5. taken # 1 => chain[taken - 1] < chain[taken] /\ chain[taken - 1] \in Nat
  <2>1. taken # 1 => taken - 1 \in 1..Len(chain) /\ taken - 1 < taken
    BY <1>3
  <2>. QED  BY <1>1, <1>2, <1>3, <2>1, SMTT(30)
<1>. QED  BY <1>1, <1>4, <1>5 DEF height

\* The record of a is extended, that of the others stays; there is a new negative
\* difference only if there is a new loss.
LEMMA RecordedIs ==
    ASSUME DInv, recording = "recording", NEW a \in Actor, InTurn(a),
           recordDiff(a)
    PROVE  /\ DOMAIN DiffHeight' = Actor /\ DOMAIN DiffCmp' = Actor
           /\ \A b \in Actor \ {a} : DiffHeight'[b] = DiffHeight[b] /\ DiffCmp'[b] = DiffCmp[b]
           /\ IsFiniteSet(NegativeDiffs(a)')
           /\ \E n \in 1..Len(heads) :
                /\ chain[taken] \in DOMAIN DiffHeight'[a]["LockedFunds"]
                /\ DiffHeight'[a]["LockedFunds"][chain[taken]] = roundBalance(Funds(a, n))
                /\ Cardinality(NegativeDiffs(a)') <= Cardinality(LossesUpTo(a, n))
<1>0. /\ DiffTypes /\ FallsInv /\ Len(heads) \in Nat /\ "LockedFunds" \in ValueTypes
      /\ DOMAIN DiffHeight = Actor /\ DOMAIN DiffCmp = Actor
      /\ IsFiniteSet(NegativeDiffs(a))
      /\ height = chain[taken] /\ chain[taken] # PrevHeight /\ chain[taken] # -1
  BY HeightIsNew, TypesAssumption DEF DInv, DiffTypes, RecordInv
<1>1. PICK k \in 1..Len(heads) : NewestIs(a, k)
  BY DEF DInv, RecordInv
<1>2. PICK n \in k..Len(heads) : Value(a)["LockedFunds"] = roundBalance(Funds(a, n))
  BY <1>1, ValueIs
<1>3. n \in 1..Len(heads) /\ k <= n /\ Newest(a) = PrevHeight
  <2>1. a \in todo
    BY <1>1 DEF InTurn, NewestIs, InfoSince
  <2>. QED  BY <1>0, <1>1, <1>2, <2>1 DEF Newest
<1>. DEFINE value == Value(a)["LockedFunds"]
            before == DiffHeight[a]["LockedFunds"]
            after == DiffHeight'[a]["LockedFunds"]
<1>4. /\ DOMAIN DiffHeight' = Actor /\ DOMAIN DiffCmp' = Actor
      /\ \A b \in Actor \ {a} : DiffHeight'[b] = DiffHeight[b] /\ DiffCmp'[b] = DiffCmp[b]
  BY <1>0 DEF recordDiff
<1>5. after = Put(before, chain[taken], value)
  BY <1>0 DEF recordDiff
<1>6. /\ chain[taken] \in DOMAIN after /\ after[chain[taken]] = value
      /\ PrevHeight \in DOMAIN before => after[PrevHeight] = before[PrevHeight]
  BY <1>0, <1>5 DEF Put
<1>. DEFINE cmp == value - after[PrevHeight]
<1>7. DiffCmp'[a]["LockedFunds"] =
          IF PrevHeight # -1 /\ cmp # 0
          THEN AppendAt(DiffCmp[a]["LockedFunds"], cmp, chain[taken])
          ELSE DiffCmp[a]["LockedFunds"]
  BY <1>0 DEF recordDiff, Cmp
<1>. HIDE DEF value, before, after
<1>8. Cardinality(LossesUpTo(a, k)) <= Cardinality(LossesUpTo(a, n))
      /\ Cardinality(LossesUpTo(a, k)) \in Nat /\ Cardinality(LossesUpTo(a, n)) \in Nat
      /\ Cardinality(NegativeDiffs(a)) \in Nat
      /\ Cardinality(NegativeDiffs(a)) <= Cardinality(LossesUpTo(a, k))
  BY <1>0, <1>1, <1>3, LossesGrow, FS_CardinalityType DEF NewestIs
<1>9. IsFiniteSet(NegativeDiffs(a)')
      /\ Cardinality(NegativeDiffs(a)') <= Cardinality(LossesUpTo(a, n))
  <2>1. CASE PrevHeight # -1 /\ cmp # 0
    <3>1. DOMAIN DiffCmp'[a]["LockedFunds"] = DOMAIN DiffCmp[a]["LockedFunds"] \cup {cmp}
      BY <1>7, <2>1 DEF AppendAt, Put
    <3>2. after[PrevHeight] = roundBalance(Funds(a, k)) /\ value = roundBalance(Funds(a, n))
      BY <1>1, <1>2, <1>3, <1>6, <2>1 DEF NewestIs, value, before
    <3>3. /\ Funds(a, k) \in Int /\ Funds(a, n) \in Int
          /\ roundBalance(Funds(a, k)) \in Int /\ roundBalance(Funds(a, n)) \in Int
      BY <1>0, <1>1, <1>3, FundsType, RoundedFalls
    <3>4. CASE cmp < 0
      <4>1. Funds(a, n) < Funds(a, k)
        BY <3>2, <3>3, <3>4, RoundedFalls
      <4>2. Cardinality(LossesUpTo(a, k)) + 1 <= Cardinality(LossesUpTo(a, n))
        BY <1>0, <1>3, <4>1, OneMoreLoss
      <4>3. NegativeDiffs(a)' = NegativeDiffs(a) \cup {cmp}
        BY <3>1, <3>4 DEF NegativeDiffs
      <4>4. /\ IsFiniteSet(NegativeDiffs(a)')
            /\ \/ Cardinality(NegativeDiffs(a)') = Cardinality(NegativeDiffs(a))
               \/ Cardinality(NegativeDiffs(a)') = Cardinality(NegativeDiffs(a)) + 1
        <5>1. CASE cmp \in NegativeDiffs(a)
          <6>. QED  BY <1>0, <4>3, <5>1, NegativeDiffs(a) \cup {cmp} = NegativeDiffs(a)
        <5>2. CASE cmp \notin NegativeDiffs(a)
          <6>1. /\ IsFiniteSet(NegativeDiffs(a) \cup {cmp})
                /\ Cardinality(NegativeDiffs(a) \cup {cmp}) = Cardinality(NegativeDiffs(a)) + 1
            BY <1>0, <5>2, FS_AddElement
          <6>. QED  BY <4>3, <6>1
        <5>. QED  BY <5>1, <5>2
      <4>. QED  BY <1>8, <4>2, <4>4
    <3>5. CASE ~(cmp < 0)
      <4>1. NegativeDiffs(a)' = NegativeDiffs(a)
        BY <3>1, <3>5 DEF NegativeDiffs
      <4>. QED  BY <1>0, <1>8, <4>1
    <3>. QED  BY <3>4, <3>5
  <2>2. CASE ~(PrevHeight # -1 /\ cmp # 0)
    <3>1. NegativeDiffs(a)' = NegativeDiffs(a)
      BY <1>7, <2>2 DEF NegativeDiffs
    <3>. QED  BY <1>0, <1>8, <3>1
  <2>. QED  BY <2>1, <2>2
<1>10. after[chain[taken]] = roundBalance(Funds(a, n))
  BY <1>2, <1>6 DEF value
<1>. QED  BY <1>3, <1>4, <1>6, <1>9, <1>10 DEF after
-----------------------------------------------------------------------------
(* The steps *)

LEMMA InitDiffs == ASSUME DiffsInit PROVE DInv
<1>1. MaxHeight \in Nat /\ "LockedFunds" \in ValueTypes
  BY RecordAssumption, TypesAssumption
<1>2. DiffTypes
  BY <1>1 DEF DiffsInit, NoEntries, DiffTypes
<1>3. Len(heads) = 1
  BY DEF DiffsInit
<1>4. FallsInv
  BY <1>2, <1>3, FundsType DEF FallsInv
<1>5. \A a \in Actor : NegativeDiffs(a) = {}
  BY <1>1 DEF DiffsInit, NoEntries, NegativeDiffs
<1>6. \A a \in Actor : IsFiniteSet(NegativeDiffs(a)) /\ Cardinality(NegativeDiffs(a)) = 0
  BY <1>5, FS_EmptySet
<1>7. \A a \in Actor : Cardinality(LossesUpTo(a, 1)) \in Nat
  BY LossesGrow
<1>8. \A a \in Actor : Cardinality(NegativeDiffs(a)) <= Cardinality(LossesUpTo(a, 1))
  BY <1>6, <1>7
<1>9. \A a \in Actor : NewestIs(a, 1)
  BY <1>8 DEF DiffsInit, NewestIs, Newest, InfoSince
<1>10. RecordInv
  BY <1>3, <1>6, <1>8, <1>9 DEF RecordInv
<1>. QED  BY <1>2, <1>4, <1>10 DEF DiffsInit, DInv, PrevInv, WatchInv

\* A new head leaves what is known of the earlier ones.
LEMMA HeadsGrow ==
    ASSUME DiffTypes, FallsInv, NEW new \in [Actor -> MinerStates], heads' = Append(heads, new)
    PROVE  /\ heads' \in Seq([Actor -> MinerStates]) /\ heads' # <<>> /\ Len(heads') = Len(heads) + 1
           /\ \A a \in Actor : \A i \in 1..Len(heads) : Funds(a, i)' = Funds(a, i)
           /\ \A a \in Actor : \A i \in 1..Len(heads) : LossesUpTo(a, i)' = LossesUpTo(a, i)
           /\ FallsInv'
<1>0. PICK n \in Nat : n = Len(heads)
  BY DEF DiffTypes
<1>1. /\ heads \in Seq([Actor -> MinerStates]) /\ n >= 1
      /\ heads' \in Seq([Actor -> MinerStates]) /\ heads' # <<>> /\ Len(heads') = n + 1
      /\ \A i \in 1..n : heads'[i] = heads[i]
      /\ heads'[n + 1] = new
  BY <1>0 DEF DiffTypes
<1>2. \A a \in Actor : \A i \in 1..n : Funds(a, i)' = Funds(a, i) /\ Funds(a, i) \in Int
  BY <1>0, <1>1, FundsType DEF Funds
<1>3. ASSUME NEW a \in Actor, NEW k \in 1..n PROVE LossesUpTo(a, k)' = LossesUpTo(a, k)
  <2>1. \A i \in 2..k : i \in 1..n /\ i - 1 \in 1..n
    BY <1>0
  <2>2. \A i \in 2..k : Funds(a, i)' = Funds(a, i) /\ Funds(a, i - 1)' = Funds(a, i - 1)
    BY <1>2, <2>1
  <2>. QED  BY <2>2 DEF LossesUpTo
<1>4. \A a \in Actor : Funds(a, n + 1)' \in Int
  <2>1. MinerStates \subseteq [ValueTypes -> Int] /\ "LockedFunds" \in ValueTypes
    BY TypesAssumption
  <2>. QED  BY <1>1, <2>1 DEF Funds
<1>5. ASSUME NEW a \in Actor, NEW j \in 1..n + 1, NEW i \in 1..n + 1, j <= i,
             Funds(a, i)' < Funds(a, j)'
      PROVE  \E l \in j + 1..i : l \in LossesUpTo(a, i)'
  <2>1. CASE i \in 1..n
    <3>1. j \in 1..n /\ Funds(a, i) < Funds(a, j)
      BY <1>2, <1>5, <2>1
    <3>2. \E l \in j + 1..i : l \in LossesUpTo(a, i)
      BY <1>0, <1>5, <2>1, <3>1 DEF FallsInv
    <3>. QED  BY <1>3, <2>1, <3>2
  <2>2. CASE i = n + 1
    <3>1. j \in 1..n
      BY <1>4, <1>5, <2>2
    <3>2. i - 1 = n /\ n \in 1..n
      BY <1>0, <1>1, <2>2
    <3>3. CASE Funds(a, i)' < Funds(a, n)'
      <4>1. i \in LossesUpTo(a, i)'
        BY <1>1, <2>2, <3>2, <3>3 DEF LossesUpTo
      <4>. QED  BY <2>2, <3>1, <4>1
    <3>4. CASE ~(Funds(a, i)' < Funds(a, n)')
      <4>1. Funds(a, n) < Funds(a, j)
        BY <1>2, <1>4, <1>5, <2>2, <3>1, <3>2, <3>4
      <4>2. PICK l \in j + 1..n : l \in LossesUpTo(a, n)
        BY <1>0, <3>1, <3>2, <4>1 DEF FallsInv
      <4>3. l \in LossesUpTo(a, n)'
        BY <1>3, <3>2, <4>2
      <4>4. l \in LossesUpTo(a, i)'
        BY <2>2, <3>1, <4>2, <4>3 DEF LossesUpTo
      <4>. QED  BY <2>2, <3>1, <4>2, <4>4
    <3>. QED  BY <3>3, <3>4
  <2>. QED  BY <2>1, <2>2
<1>6. FallsInv'
  BY <1>1, <1>5 DEF FallsInv
<1>. QED  BY <1>0, <1>1, <1>2, <1>3, <1>6

\* The newest tipset may go, but those that have been taken stay where they are.
LEMMA ChainGrows ==
    ASSUME DiffTypes, NEW below \in {chain, Front(chain)}, NEW h \in 0..MaxHeight,
           below # <<>>, h - Last(below) \in 1..2, chain' = Append(below, h)
    PROVE  /\ chain' \in Seq(0..MaxHeight) /\ chain' # <<>> /\ Len(chain') >= Len(chain)
           /\ \A i, j \in 1..Len(chain') : i < j => chain'[i] < chain'[j]
           /\ \A i \in 1..Len(chain) - 1 : chain'[i] = chain[i]
<1>0. /\ MaxHeight \in Nat
      /\ chain \in Seq(0..MaxHeight) /\ Len(chain) \in Nat /\ Len(chain) >= 1
      /\ \A i, j \in 1..Len(chain) : i < j => chain[i] < chain[j]
      /\ \A i \in 1..Len(chain) : chain[i] \in Int
  BY RecordAssumption DEF DiffTypes
<1>1. PICK n \in {Len(chain) - 1, Len(chain)} :
          /\ below \in Seq(0..MaxHeight) /\ Len(below) = n
          /\ \A i \in 1..n : below[i] = chain[i]
  <2>1. CASE below = chain
    BY <1>0, <2>1
  <2>2. CASE below = Front(chain)
    <3>1. below = SubSeq(chain, 1, Len(chain) - 1)
      BY <2>2 DEF Front
    <3>2. Len(chain) - 1 \in Nat /\ Len(chain) - 1 <= Len(chain)
      BY <1>0
    <3>3. /\ below \in Seq(0..MaxHeight) /\ Len(below) = Len(chain) - 1
          /\ \A i \in 1..Len(chain) - 1 : below[i] = chain[i]
      BY <1>0, <3>1, <3>2, FirstOnes
    <3>. QED  BY <3>3
  <2>. QED  BY <2>1, <2>2
<1>2. n \in Nat /\ n >= 1 /\ chain[n] < h /\ h \in Int
  <2>1. n \in Nat /\ n # 0
    BY <1>0, <1>1
  <2>2. Last(below) = chain[n] /\ chain[n] \in Int
    BY <1>0, <1>1, <2>1 DEF Last
  <2>. QED  BY <1>0, <2>1, <2>2
<1>3. /\ chain' \in Seq(0..MaxHeight) /\ Len(chain') = n + 1
      /\ \A i \in 1..n : chain'[i] = chain[i]
      /\ chain'[n + 1] = h
  BY <1>1, <1>2
<1>4. ASSUME NEW i \in 1..n + 1, NEW j \in 1..n + 1, i < j PROVE chain'[i] < chain'[j]
  <2>1. CASE j \in 1..n
    <3>1. i \in 1..n /\ i \in 1..Len(chain) /\ j \in 1..Len(chain)
      BY <1>0, <1>1, <1>2, <1>4, <2>1, SMTT(30)
    <3>. QED  BY <1>0, <1>3, <1>4, <2>1, <3>1
  <2>2. CASE j = n + 1
    <3>1. i \in 1..n /\ i \in 1..Len(chain) /\ n \in 1..Len(chain)
      BY <1>0, <1>1, <1>2, <1>4, <2>2
    <3>2. i = n \/ chain[i] < chain[n]
      BY <1>0, <3>1
    <3>3. chain[i] < h
      BY <1>0, <1>2, <3>1, <3>2
    <3>. QED  BY <1>3, <2>2, <3>1, <3>3
  <2>3. j \in 1..n \/ j = n + 1
    BY <1>2
  <2>. QED  BY <2>1, <2>2, <2>3
<1>. QED  BY <1>0, <1>1, <1>2, <1>3, <1>4
LEMMA NextNewHead == ASSUME DInv, NewHead PROVE DInv'
<1>1. PICK below \in {chain, Front(chain)}, h \in 0..MaxHeight :
          below # <<>> /\ h - Last(below) \in 1..2 /\ chain' = Append(below, h)
  BY DEF NewHead, Heights
<1>2. PICK new \in [Actor -> MinerStates] : heads' = Append(heads, new)
  <2>1. PICK m \in Actor, state \in MinerStates : heads' = Append(heads, [head EXCEPT ![m] = state])
    BY DEF NewHead
  <2>2. head \in [Actor -> MinerStates]
    BY DEF head, Last, DInv, DiffTypes
  <2>. QED  BY <2>1, <2>2
<1>3. /\ UNCHANGED <<recording, taken, todo, PrevHeight, minerInfo, DiffHeight, DiffCmp, slashWatch>>
      /\ DiffTypes /\ PrevInv /\ FallsInv /\ RecordInv /\ WatchInv
  BY DEF DInv, NewHead, loop, record
<1>4. /\ chain' \in Seq(0..MaxHeight) /\ chain' # <<>> /\ Len(chain') >= Len(chain)
      /\ \A i, j \in 1..Len(chain') : i < j => chain'[i] < chain'[j]
      /\ \A i \in 1..Len(chain) - 1 : chain'[i] = chain[i]
  BY <1>1, <1>3, ChainGrows
<1>5. /\ heads' \in Seq([Actor -> MinerStates]) /\ heads' # <<>> /\ Len(heads') = Len(heads) + 1
      /\ \A a \in Actor : \A i \in 1..Len(heads) : Funds(a, i)' = Funds(a, i)
      /\ \A a \in Actor : \A i \in 1..Len(heads) : LossesUpTo(a, i)' = LossesUpTo(a, i)
      /\ FallsInv'
  BY <1>2, <1>3, HeadsGrow
<1>6. Len(chain) \in Nat /\ Len(chain') \in Nat /\ headlag \in Nat \ {0} /\ taken \in Nat
  BY <1>3, <1>4, RecordAssumption DEF DiffTypes
<1>7. DiffTypes'
  BY <1>3, <1>4, <1>5, <1>6 DEF DiffTypes
<1>8. /\ taken # 0 => chain'[taken] = chain[taken]
      /\ taken # 0 /\ taken # 1 => chain'[taken - 1] = chain[taken - 1]
  <2>1. taken # 0 => taken \in 1..Len(chain) - 1
    BY <1>3, <1>6 DEF DiffTypes
  <2>2. taken # 0 /\ taken # 1 => taken - 1 \in 1..Len(chain) - 1
    BY <1>6, <2>1
  <2>. QED  BY <1>4, <2>1, <2>2
<1>9. PrevInv'
  BY <1>3, <1>6, <1>8 DEF PrevInv
<1>10. PICK n \in Nat : n = Len(heads)
  BY <1>3 DEF DiffTypes
<1>11. n >= 1 /\ \A i \in 1..n : heads'[i] = heads[i]
  BY <1>2, <1>3, <1>10 DEF DiffTypes
<1>12. \A a \in Actor : NegativeDiffs(a)' = NegativeDiffs(a)
  BY <1>3 DEF NegativeDiffs
<1>13. \A a \in Actor : Cardinality(LossesUpTo(a, n)) \in Nat
                        /\ Cardinality(LossesUpTo(a, n + 1)') \in Nat
                        /\ Cardinality(LossesUpTo(a, n)) <= Cardinality(LossesUpTo(a, n + 1)')
  <2>1. ASSUME NEW a \in Actor
        PROVE  Cardinality(LossesUpTo(a, n)') \in Nat /\ Cardinality(LossesUpTo(a, n + 1)') \in Nat
               /\ Cardinality(LossesUpTo(a, n)') <= Cardinality(LossesUpTo(a, n + 1)')
    <3>1. LossesUpTo(a, n)' \subseteq LossesUpTo(a, n + 1)' /\ LossesUpTo(a, n + 1)' \subseteq 2..n + 1
      BY DEF LossesUpTo
    <3>2. IsFiniteSet(2..n + 1)
      BY FS_Interval
    <3>. QED  BY <3>1, <3>2, FS_Subset, FS_CardinalityType
  <2>2. n \in 1..n
    BY <1>11
  <2>. QED  BY <1>5, <1>10, <2>1, <2>2
<1>14. Len(heads') = n + 1
  BY <1>5, <1>10
<1>15. ASSUME NEW a \in Actor
       PROVE  /\ Cardinality(NegativeDiffs(a)) \in Nat
              /\ Cardinality(NegativeDiffs(a)) <= Cardinality(LossesUpTo(a, n + 1)')
  <2>1. /\ Cardinality(NegativeDiffs(a)) \in Nat
        /\ Cardinality(NegativeDiffs(a)) <= Cardinality(LossesUpTo(a, n))
    BY <1>3, <1>10, FS_CardinalityType DEF RecordInv
  <2>. QED  BY <1>13, <2>1
<1>16. ASSUME NEW a \in Actor, NEW k \in 1..n, NewestIs(a, k) PROVE NewestIs(a, k)'
  <2>1. Newest(a)' = Newest(a)
    <3>1. recording = "recording" => taken # 0
      BY <1>3 DEF PrevInv
    <3>. QED  BY <1>3, <1>8, <3>1 DEF Newest
  <2>2. InfoSince(a, k)'
    <3>1. InfoSince(a, k)
      BY <1>16 DEF NewestIs
    <3>2. Last(minerInfo)' = Last(minerInfo)
      BY <1>3 DEF Last
    <3>3. \A i \in k..n : i \in 1..n /\ i \in k..n + 1
      OBVIOUS
    <3>. QED  BY <1>3, <1>10, <1>11, <1>14, <3>1, <3>2, <3>3 DEF InfoSince
  <2>3. Funds(a, k)' = Funds(a, k) /\ LossesUpTo(a, k)' = LossesUpTo(a, k)
    BY <1>5, <1>10
  <2>. QED  BY <1>3, <1>12, <1>16, <2>1, <2>2, <2>3 DEF NewestIs, roundBalance
<1>17. RecordInv'
  <2>1. ASSUME NEW a \in Actor, recording # "stopped"
        PROVE  \E k \in 1..n + 1 : NewestIs(a, k)'
    <3>1. PICK k \in 1..n : NewestIs(a, k)
      BY <1>3, <1>10, <2>1 DEF RecordInv
    <3>. QED  BY <1>16, <3>1
  <2>2. \A a \in Actor : IsFiniteSet(NegativeDiffs(a)) /\ Len(heads)' = n + 1
    BY <1>3, <1>14 DEF RecordInv
  <2>. QED  BY <1>3, <1>12, <1>15, <2>1, <2>2 DEF RecordInv
<1>18. WatchInv'
  <2>1. SlashLosses \in Nat
    BY RecordAssumption
  <2>2. ASSUME NEW a \in Actor, slashWatch[a] # "watching"
        PROVE  Cardinality(LossesUpTo(a, n + 1)') >= SlashLosses
    <3>1. Cardinality(LossesUpTo(a, n)) >= SlashLosses
      BY <1>3, <1>10, <2>2 DEF WatchInv
    <3>. QED  BY <1>13, <2>1, <3>1
  <2>. QED  BY <1>3, <1>14, <2>2 DEF WatchInv
<1>. QED  BY <1>5, <1>7, <1>9, <1>17, <1>18 DEF DInv
\* A step of the goroutines leaves the chain and the heads alone.
LEMMA HeadsStay ==
    ASSUME DInv, UNCHANGED <<chain, heads>>
    PROVE  /\ FallsInv' /\ Len(heads)' = Len(heads)
           /\ \A a, i : Funds(a, i)' = Funds(a, i) /\ LossesUpTo(a, i)' = LossesUpTo(a, i)
BY DEF DInv, FallsInv, Funds, LossesUpTo

LEMMA NextTakeTipset == ASSUME DInv, TakeTipset PROVE DInv'
<1>1. /\ recording = "waiting" /\ recording' = "recording" /\ taken' = taken + 1 /\ todo' = Actor
      /\ taken + 1 + headlag <= Len(chain)
      /\ UNCHANGED <<chain, heads, PrevHeight, minerInfo, DiffHeight, DiffCmp, slashWatch>>
      /\ DiffTypes /\ PrevInv /\ RecordInv /\ WatchInv
  BY DEF TakeTipset, external, record, DInv
<1>2. /\ FallsInv' /\ Len(heads)' = Len(heads)
      /\ \A a, i : Funds(a, i)' = Funds(a, i) /\ LossesUpTo(a, i)' = LossesUpTo(a, i)
  BY <1>1, HeadsStay DEF external
<1>3. DiffTypes' /\ PrevInv' /\ WatchInv'
  BY <1>1, <1>2 DEF DiffTypes, PrevInv, WatchInv
<1>4. \A a \in Actor : NegativeDiffs(a)' = NegativeDiffs(a)
  BY <1>1 DEF NegativeDiffs
<1>5. \A a \in Actor, k \in 1..Len(heads) : NewestIs(a, k) => NewestIs(a, k)'
  BY <1>1, <1>2, <1>4 DEF NewestIs, Newest, InfoSince, Last, roundBalance
<1>6. RecordInv'
  BY <1>1, <1>2, <1>4, <1>5 DEF RecordInv
<1>. QED  BY <1>2, <1>3, <1>6 DEF DInv

LEMMA NextTipsetsEnd == ASSUME DInv, TipsetsEnd PROVE DInv'
<1>1. /\ recording' = "stopped"
      /\ UNCHANGED <<chain, heads, taken, todo, PrevHeight, minerInfo, DiffHeight, DiffCmp, slashWatch>>
      /\ DiffTypes /\ RecordInv /\ WatchInv
  BY DEF TipsetsEnd, external, loop, record, DInv
<1>2. /\ FallsInv' /\ Len(heads)' = Len(heads)
      /\ \A a, i : LossesUpTo(a, i)' = LossesUpTo(a, i)
  BY <1>1, HeadsStay
<1>3. DiffTypes' /\ PrevInv' /\ WatchInv'
  BY <1>1, <1>2 DEF DiffTypes, PrevInv, WatchInv
<1>4. RecordInv'
  BY <1>1, <1>2 DEF RecordInv, NegativeDiffs
<1>. QED  BY <1>2, <1>3, <1>4 DEF DInv

LEMMA NextReadInfo == ASSUME DInv, NEW m \in Actor, ReadInfo(m) PROVE DInv'
<1>1. /\ recording = "recording" /\ m \in todo
      /\ minerInfo = <<>> /\ minerInfo' = <<[miner |-> m, state |-> head[m]]>>
      /\ UNCHANGED <<chain, heads, recording, taken, todo, PrevHeight, DiffHeight, DiffCmp, slashWatch>>
      /\ DiffTypes /\ PrevInv /\ RecordInv /\ WatchInv
  BY DEF ReadInfo, external, loop, record, DInv
<1>2. /\ FallsInv' /\ Len(heads)' = Len(heads)
      /\ \A a, i : Funds(a, i)' = Funds(a, i) /\ LossesUpTo(a, i)' = LossesUpTo(a, i)
  BY <1>1, HeadsStay
<1>3. DiffTypes' /\ PrevInv' /\ WatchInv'
  BY <1>1, <1>2 DEF DiffTypes, PrevInv, WatchInv
<1>4. \A a \in Actor : NegativeDiffs(a)' = NegativeDiffs(a)
  BY <1>1 DEF NegativeDiffs
<1>5. Last(minerInfo)'.miner = m /\ Last(minerInfo)'.state = heads[Len(heads)][m]
  BY <1>1 DEF Last, head
<1>6. ASSUME NEW a \in Actor, NEW k \in 1..Len(heads), NewestIs(a, k) PROVE NewestIs(a, k)'
  <2>1. InfoSince(a, k)'
    <3>1. Len(heads) \in k..Len(heads)
      BY <1>1, <1>6 DEF DiffTypes
    <3>. QED  BY <1>1, <1>2, <1>5, <3>1 DEF InfoSince
  <2>. QED  BY <1>1, <1>2, <1>4, <1>6, <2>1 DEF NewestIs, Newest, roundBalance
<1>7. RecordInv'
  BY <1>1, <1>2, <1>4, <1>6 DEF RecordInv
<1>. QED  BY <1>2, <1>3, <1>7 DEF DInv

LEMMA NextRecordMiner == ASSUME DInv, NEW m \in Actor, RecordMiner(m) PROVE DInv'
<1>1. /\ recording = "recording" /\ InTurn(m) /\ recordDiff(m)
      /\ todo' = todo \ {m} /\ minerInfo' = <<>>
      /\ UNCHANGED <<chain, heads, recording, taken, PrevHeight, slashWatch>>
      /\ DiffTypes /\ PrevInv /\ RecordInv /\ WatchInv
  BY DEF RecordMiner, InTurn, external, DInv
<1>2. /\ FallsInv' /\ Len(heads)' = Len(heads) /\ Len(heads) \in Nat
      /\ \A a, i : Funds(a, i)' = Funds(a, i) /\ LossesUpTo(a, i)' = LossesUpTo(a, i)
  BY <1>1, HeadsStay DEF DiffTypes
<1>3. /\ DOMAIN DiffHeight' = Actor /\ DOMAIN DiffCmp' = Actor
      /\ \A b \in Actor \ {m} : DiffHeight'[b] = DiffHeight[b] /\ DiffCmp'[b] = DiffCmp[b]
      /\ IsFiniteSet(NegativeDiffs(m)')
  BY <1>1, RecordedIs
<1>4. PICK n \in 1..Len(heads) :
          /\ chain[taken] \in DOMAIN DiffHeight'[m]["LockedFunds"]
          /\ DiffHeight'[m]["LockedFunds"][chain[taken]] = roundBalance(Funds(m, n))
          /\ Cardinality(NegativeDiffs(m)') <= Cardinality(LossesUpTo(m, n))
  BY <1>1, RecordedIs
<1>5. DiffTypes' /\ PrevInv' /\ WatchInv'
  BY <1>1, <1>2, <1>3 DEF DiffTypes, PrevInv, WatchInv
<1>6. NewestIs(m, n)'
  BY <1>1, <1>2, <1>4 DEF NewestIs, Newest, InfoSince, roundBalance
<1>7. Cardinality(NegativeDiffs(m)') <= Cardinality(LossesUpTo(m, Len(heads)))
  <2>1. Cardinality(LossesUpTo(m, n)) \in Nat /\ Cardinality(LossesUpTo(m, Len(heads))) \in Nat
        /\ Cardinality(LossesUpTo(m, n)) <= Cardinality(LossesUpTo(m, Len(heads)))
    BY <1>2, LossesGrow
  <2>2. Cardinality(NegativeDiffs(m)') \in Nat
    BY <1>3, FS_CardinalityType
  <2>. QED  BY <1>4, <2>1, <2>2
<1>8. ASSUME NEW a \in Actor \ {m}
      PROVE  /\ NegativeDiffs(a)' = NegativeDiffs(a)
             /\ \A k \in 1..Len(heads) : NewestIs(a, k) => NewestIs(a, k)'
  <2>1. NegativeDiffs(a)' = NegativeDiffs(a)
    BY <1>3 DEF NegativeDiffs
  <2>. QED  BY <1>1, <1>2, <1>3, <2>1 DEF NewestIs, Newest, InfoSince, roundBalance
<1>9. RecordInv'
  BY <1>1, <1>2, <1>3, <1>6, <1>7, <1>8 DEF RecordInv
<1>. QED  BY <1>2, <1>5, <1>9 DEF DInv

LEMMA NextRecordFails == ASSUME DInv, NEW m \in Actor, RecordFails(m) PROVE DInv'
<1>1. /\ recording = "recording" /\ recording' = "stopped"
      /\ UNCHANGED <<chain, heads, taken, slashWatch>>
      /\ DiffTypes /\ RecordInv /\ WatchInv
      /\ \/ InTurn(m) /\ recordDiff(m)
         \/ UNCHANGED record
  BY DEF RecordFails, InTurn, external, loop, DInv
<1>2. /\ FallsInv' /\ Len(heads)' = Len(heads) /\ Len(heads) \in Nat
      /\ \A a, i : LossesUpTo(a, i)' = LossesUpTo(a, i)
  BY <1>1, HeadsStay DEF DiffTypes
<1>3. CASE InTurn(m) /\ recordDiff(m)
  <2>1. /\ DOMAIN DiffHeight' = Actor /\ DOMAIN DiffCmp' = Actor
        /\ \A b \in Actor \ {m} : DiffCmp'[b] = DiffCmp[b]
        /\ IsFiniteSet(NegativeDiffs(m)')
    BY <1>1, <1>3, RecordedIs
  <2>2. PICK n \in 1..Len(heads) :
            Cardinality(NegativeDiffs(m)') <= Cardinality(LossesUpTo(m, n))
    BY <1>1, <1>3, RecordedIs
  <2>3. Cardinality(LossesUpTo(m, n)) \in Nat /\ Cardinality(LossesUpTo(m, Len(heads))) \in Nat
        /\ Cardinality(LossesUpTo(m, n)) <= Cardinality(LossesUpTo(m, Len(heads)))
    BY <1>2, LossesGrow
  <2>4. Cardinality(NegativeDiffs(m)') \in Nat
    BY <2>1, FS_CardinalityType
  <2>5. Cardinality(NegativeDiffs(m)') <= Cardinality(LossesUpTo(m, Len(heads)))
    BY <2>2, <2>3, <2>4
  <2>6. \A a \in Actor \ {m} : NegativeDiffs(a)' = NegativeDiffs(a)
    BY <2>1 DEF NegativeDiffs
  <2>7. RecordInv'
    BY <1>1, <1>2, <2>1, <2>5, <2>6 DEF RecordInv
  <2>. QED  BY <1>1, <1>2, <2>1, <2>7 DEF DInv, DiffTypes, PrevInv, WatchInv
<1>4. CASE UNCHANGED record
  <2>1. RecordInv'
    BY <1>1, <1>2, <1>4 DEF RecordInv, NegativeDiffs, record
  <2>. QED  BY <1>1, <1>2, <1>4, <2>1 DEF DInv, DiffTypes, PrevInv, WatchInv, record
<1>. QED  BY <1>1, <1>3, <1>4

LEMMA NextEndTipset == ASSUME DInv, EndTipset PROVE DInv'
<1>1. /\ recording = "recording" /\ recording' = "waiting" /\ todo = {} /\ PrevHeight' = chain[taken]
      /\ UNCHANGED <<chain, heads, taken, todo, minerInfo, DiffHeight, DiffCmp, slashWatch>>
      /\ DiffTypes /\ PrevInv /\ RecordInv /\ WatchInv
  BY DEF EndTipset, external, record, height, DInv
<1>2. /\ FallsInv' /\ Len(heads)' = Len(heads)
      /\ \A a, i : Funds(a, i)' = Funds(a, i) /\ LossesUpTo(a, i)' = LossesUpTo(a, i)
  BY <1>1, HeadsStay
<1>3. DiffTypes' /\ PrevInv' /\ WatchInv'
  BY <1>1, <1>2 DEF DiffTypes, PrevInv, WatchInv
<1>4. \A a \in Actor : NegativeDiffs(a)' = NegativeDiffs(a)
  BY <1>1 DEF NegativeDiffs
<1>5. \A a \in Actor, k \in 1..Len(heads) : NewestIs(a, k) => NewestIs(a, k)'
  BY <1>1, <1>2, <1>4 DEF NewestIs, Newest, InfoSince, Last, roundBalance
<1>6. RecordInv'
  BY <1>1, <1>2, <1>4, <1>5 DEF RecordInv
<1>. QED  BY <1>2, <1>3, <1>6 DEF DInv

\* What stays when none of the variables of the record changes.
LEMMA RecordStays ==
    ASSUME DInv, UNCHANGED <<chain, heads, recording, taken, todo, PrevHeight, minerInfo,
                             DiffHeight, DiffCmp>>,
           slashWatch' \in [Actor -> {"watching", "found", "closed"}]
    PROVE  DiffTypes' /\ PrevInv' /\ FallsInv' /\ RecordInv'
<1>1. /\ FallsInv' /\ Len(heads)' = Len(heads)
      /\ \A a, i : Funds(a, i)' = Funds(a, i) /\ LossesUpTo(a, i)' = LossesUpTo(a, i)
  BY HeadsStay
<1>2. \A a \in Actor : NegativeDiffs(a)' = NegativeDiffs(a)
  BY DEF NegativeDiffs
<1>3. \A a \in Actor, k \in 1..Len(heads) : NewestIs(a, k) => NewestIs(a, k)'
  BY <1>1, <1>2 DEF NewestIs, Newest, InfoSince, Last, roundBalance
<1>4. RecordInv'
  BY <1>1, <1>2, <1>3 DEF DInv, RecordInv
<1>. QED  BY <1>1, <1>4 DEF DInv, DiffTypes, PrevInv

LEMMA NextTick == ASSUME DInv, NEW m \in Actor, Tick(m) PROVE DInv'
<1>1. /\ UNCHANGED <<chain, heads, recording, taken, todo, PrevHeight, minerInfo, DiffHeight, DiffCmp>>
      /\ DiffTypes /\ RecordInv /\ WatchInv
  BY DEF Tick, external, loop, record, DInv
<1>2. slashWatch' \in [Actor -> {"watching", "found", "closed"}]
  BY <1>1 DEF Tick, DiffTypes
<1>3. \A a \in Actor : Cardinality(LossesUpTo(a, Len(heads))) \in Nat
                       /\ Cardinality(NegativeDiffs(a)) \in Nat /\ SlashLosses \in Nat
  BY <1>1, LossesGrow, FS_CardinalityType, RecordAssumption DEF DiffTypes, RecordInv
<1>4. ASSUME NEW a \in Actor, slashWatch'[a] # "watching"
      PROVE  Cardinality(LossesUpTo(a, Len(heads))) >= SlashLosses
  <2>1. slashWatch[a] # "watching" \/ Cardinality(NegativeDiffs(a)) >= SlashLosses
    <3>1. CASE a = m
      BY <3>1 DEF Tick
    <3>2. CASE a # m
      <4>1. slashWatch'[a] = slashWatch[a]
        BY <1>1, <3>2 DEF Tick, DiffTypes
      <4>. QED  BY <1>4, <4>1
    <3>. QED  BY <3>1, <3>2
  <2>2. Cardinality(NegativeDiffs(a)) <= Cardinality(LossesUpTo(a, Len(heads)))
    BY <1>1 DEF RecordInv
  <2>. QED  BY <1>1, <1>3, <2>1, <2>2 DEF WatchInv
<1>5. WatchInv'
  BY <1>1, <1>4, HeadsStay DEF WatchInv
<1>. QED  BY <1>1, <1>2, <1>5, RecordStays DEF DInv

LEMMA NextDiffs == ASSUME DInv, [DiffsNext]_diffsVars PROVE DInv'
<1>1. CASE UNCHANGED diffsVars
  <2>1. UNCHANGED <<chain, heads, recording, taken, todo, PrevHeight, minerInfo, DiffHeight,
                    DiffCmp, slashWatch>>
    BY <1>1 DEF diffsVars, external, loop, record
  <2>2. slashWatch' \in [Actor -> {"watching", "found", "closed"}]
    BY <2>1 DEF DInv, DiffTypes
  <2>3. WatchInv'
    BY <2>1, HeadsStay DEF DInv, WatchInv
  <2>. QED  BY <2>1, <2>2, <2>3, RecordStays DEF DInv
<1>2. CASE DiffsNext
  BY <1>2, NextNewHead, NextTakeTipset, NextTipsetsEnd, NextReadInfo, NextRecordMiner,
     NextRecordFails, NextEndTipset, NextTick DEF DiffsNext
<1>. QED  BY <1>1, <1>2

\* A slashing of a miner actor is reported only when its locked funds, not rounded, went
\* down SlashLosses times from one head to the next: neither the rounding nor that a value
\* comes from a later head than its height makes up a loss in the record.
THEOREM LossesWereSeenHolds == DiffsSpec => []LossesWereSeen
<1>2. DiffsInit => DInv
  BY InitDiffs
<1>3. DInv /\ [DiffsNext]_diffsVars => DInv'
  BY NextDiffs
<1>4. DInv => LossesWereSeen
  <2>1. \A a \in Actor : LossesUpTo(a, Len(heads)) =
            {i \in 2..Len(heads) : heads[i][a]["LockedFunds"] < heads[i - 1][a]["LockedFunds"]}
    BY DEF LossesUpTo, Funds
  <2>. QED  BY <2>1 DEF DInv, WatchInv, LossesWereSeen
<1>. QED  BY <1>2, <1>3, <1>4, PTL DEF DiffsSpec

-----------------------------------------------------------------------------
(* The three indexes of the record.  Seen by the places of the tipsets on  *)
(* the chain, an index lists at each key the heights whose place has it.   *)

\* M lists the heights c[i] of the places I under the keys K[i].
Indexes(M, c, K, I) ==
    /\ DOMAIN M = {K[i] : i \in I}
    /\ \A x \in DOMAIN M :
        /\ M[x] \in Seq(0..MaxHeight)
        /\ Lists(M[x], {c[i] : i \in {j \in I : K[j] = x}})

\* The values at the places of the chain c, and how they change from the place before.
Values(D, c, n) == [i \in 1..n |-> D[c[i]]]
Changes(D, c, n) == [i \in 2..n |-> D[c[i]] - D[c[i - 1]]]

\* The indexes D, V and C of one type tell of the first n tipsets of the chain c.
Tells(D, V, C, c, n) ==
    /\ DOMAIN D = {c[i] : i \in 1..n}
    /\ \A i \in 1..n : D[c[i]] \in Int
    /\ Indexes(V, c, Values(D, c, n), 1..n)
    /\ Indexes(C, c, Changes(D, c, n), {i \in 2..n : Changes(D, c, n)[i] # 0})

\* A height that is higher than all others goes to the end of its list.
LEMMA IndexGrows ==
    ASSUME MaxHeight \in Nat, NEW n \in Nat, NEW c, NEW M, NEW K, NEW K2, NEW I \in SUBSET (1..n), NEW x,
           Indexes(M, c, K, I), \A i \in I : K2[i] = K[i], K2[n + 1] = x,
           c[n + 1] \in 0..MaxHeight, \A i \in 1..n : c[i] < c[n + 1]
    PROVE  Indexes(AppendAt(M, x, c[n + 1]), c, K2, I \cup {n + 1})
<1>. DEFINE M2 == AppendAt(M, x, c[n + 1])
            old == IF x \in DOMAIN M THEN M[x] ELSE <<>>
            At(y) == {c[i] : i \in {j \in I : K[j] = y}}
            At2(y) == {c[i] : i \in {j \in I \cup {n + 1} : K2[j] = y}}
<1>1. DOMAIN M2 = DOMAIN M \cup {x} /\ M2[x] = Append(old, c[n + 1])
      /\ \A y \in DOMAIN M \ {x} : M2[y] = M[y]
  BY DEF AppendAt, Put
<1>2. DOMAIN M2 = {K2[i] : i \in I \cup {n + 1}}
  <2>1. {K2[i] : i \in I \cup {n + 1}} = {K[i] : i \in I} \cup {x}
    OBVIOUS
  <2>2. DOMAIN M = {K[i] : i \in I}
    BY DEF Indexes
  <2>. QED  BY <1>1, <2>1, <2>2
<1>3. \A y \in DOMAIN M \ {x} : At2(y) = At(y)
  OBVIOUS
<1>4. At2(x) = At(x) \cup {c[n + 1]}
  OBVIOUS
<1>5. old \in Seq(0..MaxHeight) /\ Lists(old, At(x))
  <2>1. CASE x \in DOMAIN M
    BY <2>1 DEF Indexes
  <2>2. CASE x \notin DOMAIN M
    <3>1. At(x) = {}
      BY <2>2 DEF Indexes
    <3>. QED  BY <2>2, <3>1 DEF Lists, Range
  <2>. QED  BY <2>1, <2>2
<1>6. M2[x] \in Seq(0..MaxHeight) /\ Lists(M2[x], At2(x))
  <2>1. /\ Len(old) \in Nat /\ DOMAIN old = 1..Len(old)
        /\ M2[x] \in Seq(0..MaxHeight) /\ DOMAIN M2[x] = 1..Len(old) + 1
        /\ \A i \in 1..Len(old) : M2[x][i] = old[i] /\ old[i] \in 0..MaxHeight
        /\ M2[x][Len(old) + 1] = c[n + 1]
    BY <1>1, <1>5
  <2>2. \A i \in 1..Len(old) : old[i] \in At(x)
    BY <1>5, <2>1 DEF Lists, Range
  <2>3. \A i \in 1..Len(old) : old[i] < c[n + 1]
    BY <2>2
  <2>4. Range(M2[x]) = At2(x)
    <3>1. Range(old) = At(x)
      BY <1>5 DEF Lists
    <3>2. {old[i] : i \in 1..Len(old)} = At(x)
      BY <2>1, <3>1 DEF Range
    <3>3. Range(M2[x]) = {M2[x][i] : i \in 1..Len(old) + 1}
      BY <2>1 DEF Range
    <3>. HIDE DEF M2, old, At, At2
    <3>4. \A i \in 1..Len(old) + 1 : i \in 1..Len(old) \/ i = Len(old) + 1
      BY <2>1
    <3>5. \A i \in 1..Len(old) : i \in 1..Len(old) + 1
      BY <2>1
    <3>6. Len(old) + 1 \in 1..Len(old) + 1
      BY <2>1
    <3>7. {M2[x][i] : i \in 1..Len(old) + 1} = {old[i] : i \in 1..Len(old)} \cup {c[n + 1]}
      BY <2>1, <3>4, <3>5, <3>6
    <3>. QED  BY <1>4, <3>2, <3>3, <3>7
  <2>5. \A i, j \in 1..Len(old) : i < j => old[i] < old[j]
    BY <1>5, <2>1 DEF Lists
  <2>6. ASSUME NEW i \in 1..Len(old) + 1, NEW j \in 1..Len(old) + 1, i < j PROVE M2[x][i] < M2[x][j]
    <3>1. i \in 1..Len(old) /\ (j \in 1..Len(old) \/ j = Len(old) + 1)
      BY <2>1, <2>6, SMTT(30)
    <3>. QED  BY <2>1, <2>3, <2>5, <2>6, <3>1
  <2>. QED  BY <2>1, <2>4, <2>6, SMTT(30) DEF Lists
<1>7. \A y \in DOMAIN M \ {x} : M2[y] \in Seq(0..MaxHeight) /\ Lists(M2[y], At2(y))
  BY <1>1, <1>3 DEF Indexes
<1>. QED  BY <1>1, <1>2, <1>6, <1>7, ZenonT(60) DEF Indexes

\* An index depends on the keys of its places only.
LEMMA IndexSame ==
    ASSUME NEW c, NEW M, NEW K, NEW K2, NEW I, Indexes(M, c, K, I), \A i \in I : K2[i] = K[i]
    PROVE  Indexes(M, c, K2, I)
<1>1. {K2[i] : i \in I} = {K[i] : i \in I}
  OBVIOUS
<1>2. \A x : {j \in I : K2[j] = x} = {j \in I : K[j] = x}
  OBVIOUS
<1>. QED  BY <1>1, <1>2 DEF Indexes

\* One more tipset is told of: its value goes under its height and into the list of the
\* value, its height into the list of the difference to the value before, if there is one.
LEMMA TellsMore ==
    ASSUME MaxHeight \in Nat, NEW n \in Nat, NEW c, NEW D, NEW V, NEW C, Tells(D, V, C, c, n),
           \A i \in 1..n + 1 : c[i] \in 0..MaxHeight, \A i, j \in 1..n + 1 : i < j => c[i] < c[j],
           NEW value \in Int, NEW C2,
           n >= 1 /\ value - D[c[n]] # 0 => C2 = AppendAt(C, value - D[c[n]], c[n + 1]),
           ~(n >= 1 /\ value - D[c[n]] # 0) => C2 = C
    PROVE  Tells(Put(D, c[n + 1], value), AppendAt(V, value, c[n + 1]), C2, c, n + 1)
<1>. DEFINE D2 == Put(D, c[n + 1], value)
            V2 == AppendAt(V, value, c[n + 1])
<1>1. n + 1 \in 1..n + 1 /\ \A i \in 1..n : i \in 1..n + 1 /\ c[i] < c[n + 1] /\ c[i] # c[n + 1]
  <2>1. \A i \in 1..n : i \in 1..n + 1 /\ i < n + 1
    OBVIOUS
  <2>2. n + 1 \in 1..n + 1
    OBVIOUS
  <2>3. \A i \in 1..n : c[i] < c[n + 1]
    BY <2>1, <2>2
  <2>. QED  BY <2>1, <2>2, <2>3
<1>2. DOMAIN D2 = {c[i] : i \in 1..n + 1} /\ D2[c[n + 1]] = value
  <2>1. DOMAIN D2 = DOMAIN D \cup {c[n + 1]} /\ D2[c[n + 1]] = value
    BY DEF Put
  <2>2. DOMAIN D = {c[i] : i \in 1..n}
    BY DEF Tells
  <2>3. 1..n + 1 = 1..n \cup {n + 1}
    OBVIOUS
  <2>. QED  BY <2>1, <2>2, <2>3
<1>3. \A i \in 1..n : D2[c[i]] = D[c[i]] /\ D[c[i]] \in Int
  BY <1>1 DEF Put, Tells
<1>4. \A i \in 1..n + 1 : D2[c[i]] \in Int
  <2>1. \A i \in 1..n + 1 : i \in 1..n \/ i = n + 1
    OBVIOUS
  <2>. QED  BY <1>2, <1>3, <2>1
<1>. HIDE DEF D2
<1>5. Indexes(V2, c, Values(D2, c, n + 1), 1..n + 1)
  <2>1. Indexes(V, c, Values(D, c, n), 1..n)
    BY DEF Tells
  <2>2. /\ \A i \in 1..n : Values(D2, c, n + 1)[i] = Values(D, c, n)[i]
        /\ Values(D2, c, n + 1)[n + 1] = value
    BY <1>1, <1>2, <1>3 DEF Values
  <2>3. Indexes(V2, c, Values(D2, c, n + 1), 1..n \cup {n + 1})
    BY <1>1, <2>1, <2>2, IndexGrows
  <2>4. 1..n + 1 = 1..n \cup {n + 1}
    OBVIOUS
  <2>. QED  BY <2>3, <2>4
<1>. DEFINE I == {i \in 2..n : Changes(D, c, n)[i] # 0}
            I2 == {i \in 2..n + 1 : Changes(D2, c, n + 1)[i] # 0}
<1>6. /\ I \in SUBSET (1..n) /\ Indexes(C, c, Changes(D, c, n), I)
      /\ \A i \in 2..n : Changes(D2, c, n + 1)[i] = Changes(D, c, n)[i]
      /\ n >= 1 => Changes(D2, c, n + 1)[n + 1] = value - D[c[n]]
  <2>1. \A i \in 2..n : i \in 1..n /\ i - 1 \in 1..n /\ i \in 2..n + 1
    OBVIOUS
  <2>2. n >= 1 => n \in 1..n /\ n + 1 \in 2..n + 1 /\ (n + 1) - 1 = n
    OBVIOUS
  <2>. QED  BY <1>2, <1>3, <2>1, <2>2 DEF Tells, Changes
<1>7. Indexes(C2, c, Changes(D2, c, n + 1), I2)
  <2>0. \A i \in 2..n + 1 : i \in 2..n \/ (i = n + 1 /\ n >= 1)
    OBVIOUS
  <2>1. CASE n >= 1 /\ value - D[c[n]] # 0
    <3>1. I2 = I \cup {n + 1}
      <4>1. n + 1 \in 2..n + 1 /\ \A i \in 2..n : i \in 2..n + 1
        BY <2>1
      <4>. QED  BY <1>6, <2>0, <2>1, <4>1
    <3>2. Indexes(AppendAt(C, value - D[c[n]], c[n + 1]), c, Changes(D2, c, n + 1), I \cup {n + 1})
      BY <1>1, <1>6, <2>1, IndexGrows
    <3>. QED  BY <2>1, <3>1, <3>2
  <2>2. CASE ~(n >= 1 /\ value - D[c[n]] # 0)
    <3>1. I2 = I
      <4>1. \A i \in 2..n : i \in 2..n + 1
        OBVIOUS
      <4>. QED  BY <1>6, <2>0, <2>2, <4>1
    <3>2. \A i \in I : Changes(D2, c, n + 1)[i] = Changes(D, c, n)[i]
      BY <1>6
    <3>3. Indexes(C, c, Changes(D2, c, n + 1), I)
      BY <1>6, <3>2, IndexSame
    <3>. QED  BY <2>2, <3>1, <3>3
  <2>. QED  BY <2>1, <2>2
<1>. QED  BY <1>2, <1>4, <1>5, <1>7 DEF Tells, D2
\* What is told of some tipsets does not depend on the rest of the chain.
LEMMA TellsStill ==
    ASSUME NEW n \in Nat, NEW c, NEW c2, NEW D, NEW V, NEW C, Tells(D, V, C, c, n),
           \A i \in 1..n : c2[i] = c[i]
    PROVE  Tells(D, V, C, c2, n)
<1>1. Values(D, c2, n) = Values(D, c, n)
  BY DEF Values
<1>2. Changes(D, c2, n) = Changes(D, c, n)
  <2>1. \A i \in 2..n : i \in 1..n /\ i - 1 \in 1..n
    OBVIOUS
  <2>. QED  BY <2>1 DEF Changes
<1>3. ASSUME NEW M, NEW K, NEW I \in SUBSET (1..n), Indexes(M, c, K, I) PROVE Indexes(M, c2, K, I)
  <2>1. \A x : {c2[i] : i \in {j \in I : K[j] = x}} = {c[i] : i \in {j \in I : K[j] = x}}
    OBVIOUS
  <2>. QED  BY <1>3, <2>1 DEF Indexes
<1>4. {i \in 2..n : Changes(D, c, n)[i] # 0} \in SUBSET (1..n)
  <2>1. \A i \in 2..n : i \in 1..n
    OBVIOUS
  <2>. QED  BY <2>1
<1>5. DOMAIN D = {c2[i] : i \in 1..n} /\ \A i \in 1..n : D[c2[i]] \in Int
  BY DEF Tells
<1>6. Indexes(V, c2, Values(D, c2, n), 1..n)
  BY <1>1, <1>3 DEF Tells
<1>7. Indexes(C, c2, Changes(D, c2, n), {i \in 2..n : Changes(D, c2, n)[i] # 0})
  BY <1>2, <1>3, <1>4 DEF Tells
<1>. QED  BY <1>5, <1>6, <1>7 DEF Tells

-----------------------------------------------------------------------------
(* The record of a tells of all tipsets taken, or all but the last one.    *)

Told(a, n) == \A v \in ValueTypes : Tells(DiffHeight[a][v], DiffValue[a][v], DiffCmp[a][v], chain, n)

LoopInv ==
    /\ todo \subseteq Actor /\ DOMAIN DiffValue = Actor
    /\ minerInfo \in Seq([miner : Actor, state : MinerStates]) /\ Len(minerInfo) <= 1
    /\ PrevHeight \in 0..MaxHeight \cup {-1}
    /\ recording = "waiting" => todo = {}
    /\ todo # {} => taken >= 1

ToldInv ==
    \A a \in Actor :
        /\ a \notin todo => Told(a, taken)
        /\ a \in todo => Told(a, taken - 1) \/ (recording = "stopped" /\ Told(a, taken))

IndexInv == LoopInv /\ ToldInv

LEMMA InitIndexes == ASSUME DiffsInit PROVE IndexInv
<1>1. LoopInv
  BY DEF DiffsInit, NoEntries, LoopInv
<1>2. ASSUME NEW a \in Actor, NEW v \in ValueTypes
      PROVE  Tells(DiffHeight[a][v], DiffValue[a][v], DiffCmp[a][v], chain, 0)
  <2>1. DiffHeight[a][v] = <<>> /\ DiffValue[a][v] = <<>> /\ DiffCmp[a][v] = <<>>
    BY DEF DiffsInit, NoEntries
  <2>2. DOMAIN << >> = {} /\ 1..0 = {} /\ 2..0 = {}
    OBVIOUS
  <2>. QED  BY <2>1, <2>2 DEF Tells, Indexes
<1>. QED  BY <1>1, <1>2 DEF DiffsInit, IndexInv, ToldInv, Told

\* The record of a tells of the tipset taken last, too, that of the others is left alone.
LEMMA RecordTells ==
    ASSUME DInv, IndexInv, recording = "recording", NEW a \in Actor,
           InTurn(a), recordDiff(a), chain' = chain
    PROVE  /\ a \in todo /\ DOMAIN DiffValue' = Actor
           /\ \A b \in Actor \ {a} : \A n : Told(b, n)' = Told(b, n)
           /\ \A v \in ValueTypes :
                  Tells(DiffHeight'[a][v], DiffValue'[a][v], DiffCmp'[a][v], chain, taken)
<1>0. /\ DOMAIN DiffHeight = Actor /\ DOMAIN DiffValue = Actor /\ DOMAIN DiffCmp = Actor
      /\ DiffTypes /\ PrevInv /\ LoopInv /\ MaxHeight \in Nat
  BY RecordAssumption DEF DInv, DiffTypes, IndexInv, LoopInv
<1>1. a \in todo
  BY DEF InTurn, DInv, RecordInv, NewestIs, InfoSince
<1>2. PICK n \in Nat : taken = n + 1 /\ n + 1 <= Len(chain) /\ Told(a, n)
  <2>1. taken \in Nat /\ taken >= 1 /\ taken <= Len(chain) /\ Len(chain) \in Nat
    <3>1. headlag \in Nat
      BY RecordAssumption
    <3>. QED  BY <1>0, <3>1 DEF DiffTypes, PrevInv
  <2>2. taken - 1 \in Nat /\ taken = (taken - 1) + 1
    BY <2>1
  <2>3. Told(a, taken - 1)
    BY <1>1 DEF IndexInv, ToldInv
  <2>. QED  BY <2>1, <2>2, <2>3
<1>3. /\ \A i \in 1..n + 1 : chain[i] \in 0..MaxHeight
      /\ \A i, j \in 1..n + 1 : i < j => chain[i] < chain[j]
  <2>1. \A i \in 1..n + 1 : i \in 1..Len(chain)
    BY <1>0, <1>2 DEF DiffTypes
  <2>. QED  BY <1>0, <2>1 DEF DiffTypes
<1>4. height = chain[n + 1] /\ PrevHeight = IF n = 0 THEN -1 ELSE chain[n]
  BY <1>0, <1>2 DEF height, PrevInv
<1>5. ASSUME NEW v \in ValueTypes
      PROVE  Tells(DiffHeight'[a][v], DiffValue'[a][v], DiffCmp'[a][v], chain, n + 1)
  <2>. DEFINE value == Value(a)[v]
              D == DiffHeight[a][v]
              D2 == DiffHeight'[a][v]
  <2>1. value \in Int
    <3>1. /\ head \in [Actor -> MinerStates] /\ Last(minerInfo).state \in MinerStates
          /\ MinerStates \subseteq [ValueTypes -> Int]
      <4>1. PICK S : S = [miner : Actor, state : MinerStates]
        OBVIOUS
      <4>2. minerInfo \in Seq(S) /\ minerInfo # <<>>
        BY <1>0, <4>1 DEF LoopInv, InTurn
      <4>3. minerInfo[Len(minerInfo)] \in S
        BY <4>2
      <4>4. Last(minerInfo).state \in MinerStates
        BY <4>1, <4>3 DEF Last
      <4>5. head \in [Actor -> MinerStates]
        BY <1>0 DEF DiffTypes, head, Last
      <4>6. MinerStates \subseteq [ValueTypes -> Int]
        BY TypesAssumption
      <4>. QED  BY <4>4, <4>5, <4>6
    <3>2. head[a][v] \in Int /\ Last(minerInfo).state[v] \in Int
      BY <3>1
    <3>. QED  BY <3>2, RoundedFalls DEF Value, Shown
  <2>2. D2 = Put(D, chain[n + 1], value)
    BY <1>0, <1>4 DEF recordDiff
  <2>3. DiffValue'[a][v] = AppendAt(DiffValue[a][v], value, chain[n + 1])
    BY <1>0, <1>4 DEF recordDiff
  <2>4. DiffCmp'[a][v] = IF PrevHeight # -1 /\ value - D2[PrevHeight] # 0
                         THEN AppendAt(DiffCmp[a][v], value - D2[PrevHeight], chain[n + 1])
                         ELSE DiffCmp[a][v]
    BY <1>0, <1>4 DEF recordDiff, Cmp
  <2>5. Tells(D, DiffValue[a][v], DiffCmp[a][v], chain, n)
    BY <1>2 DEF Told
  <2>6. n >= 1 => PrevHeight # -1 /\ D2[PrevHeight] = D[chain[n]]
    <3>1. n >= 1 => n \in 1..n /\ n \in 1..n + 1 /\ n + 1 \in 1..n + 1 /\ n < n + 1
      OBVIOUS
    <3>2. n >= 1 => chain[n] \in DOMAIN D
      BY <2>5, <3>1 DEF Tells
    <3>3. n >= 1 => chain[n] < chain[n + 1] /\ chain[n] \in Nat /\ chain[n + 1] \in Nat
      BY <1>0, <1>3, <3>1
    <3>. HIDE DEF D, D2, value
    <3>4. n >= 1 => D2[chain[n]] = D[chain[n]]
      BY <2>2, <3>2, <3>3 DEF Put
    <3>. QED  BY <1>4, <3>3, <3>4
  <2>7. ~(n >= 1) => PrevHeight = -1
    BY <1>4
  <2>. HIDE DEF D, D2, value
  <2>8. /\ n >= 1 /\ value - D[chain[n]] # 0 =>
               DiffCmp'[a][v] = AppendAt(DiffCmp[a][v], value - D[chain[n]], chain[n + 1])
        /\ ~(n >= 1 /\ value - D[chain[n]] # 0) => DiffCmp'[a][v] = DiffCmp[a][v]
    BY <2>4, <2>6, <2>7
  <2>9. Tells(D2, DiffValue'[a][v], DiffCmp'[a][v], chain, n + 1)
    BY <1>0, <1>3, <2>1, <2>2, <2>3, <2>5, <2>8, TellsMore
  <2>. QED  BY <2>9 DEF D2
<1>6. /\ DOMAIN DiffValue' = Actor
      /\ \A b \in Actor \ {a} : /\ DiffHeight'[b] = DiffHeight[b] /\ DiffValue'[b] = DiffValue[b]
                                /\ DiffCmp'[b] = DiffCmp[b]
  BY <1>0 DEF recordDiff
<1>. QED  BY <1>1, <1>2, <1>5, <1>6 DEF Told
\* The tipsets that have been taken stay on the chain, at their places.
LEMMA TakenStay ==
    ASSUME DInv, NewHead \/ UNCHANGED chain
    PROVE  taken \in Nat /\ taken <= Len(chain) /\ \A i \in 1..taken : chain'[i] = chain[i]
<1>1. /\ DiffTypes /\ taken \in Nat /\ Len(chain) \in Nat /\ headlag \in Nat \ {0} /\ Len(chain) >= 1
      /\ taken = 0 \/ taken + headlag <= Len(chain)
  BY RecordAssumption DEF DInv, DiffTypes
<1>2. CASE UNCHANGED chain
  BY <1>1, <1>2
<1>3. CASE NewHead
  <2>1. PICK below \in {chain, Front(chain)}, h \in 0..MaxHeight :
            below # <<>> /\ h - Last(below) \in 1..2 /\ chain' = Append(below, h)
    BY <1>3 DEF NewHead, Heights
  <2>2. \A i \in 1..Len(chain) - 1 : chain'[i] = chain[i]
    BY <1>1, <2>1, ChainGrows
  <2>3. \A i \in 1..taken : i \in 1..Len(chain) - 1
    BY <1>1
  <2>. QED  BY <1>1, <2>2, <2>3
<1>. QED  BY <1>2, <1>3

LEMMA ChainHeights ==
    ASSUME DiffTypes
    PROVE  MaxHeight \in Nat /\ \A i \in 1..Len(chain) : chain[i] \in 0..MaxHeight
<1>1. MaxHeight \in Nat
  BY RecordAssumption
<1>. QED  BY <1>1 DEF DiffTypes

\* Steps that change nothing of the record leave what it tells.
LEMMA ToldStays ==
    ASSUME DInv, NewHead \/ UNCHANGED chain, UNCHANGED record,
           NEW a \in Actor, NEW n \in Nat, n <= taken, Told(a, n)
    PROVE  Told(a, n)'
<1>1. taken \in Nat /\ \A i \in 1..taken : chain'[i] = chain[i]
  BY TakenStay
<1>2. \A i \in 1..n : chain'[i] = chain[i]
  <2>1. \A i \in 1..n : i \in 1..taken
    BY <1>1
  <2>. QED  BY <1>1, <2>1
<1>3. \A v \in ValueTypes : Tells(DiffHeight[a][v], DiffValue[a][v], DiffCmp[a][v], chain, n)
  BY DEF Told
<1>4. \A v \in ValueTypes : Tells(DiffHeight[a][v], DiffValue[a][v], DiffCmp[a][v], chain', n)
  BY <1>2, <1>3, TellsStill
<1>. QED  BY <1>4 DEF Told, record

\* The two numbers of tipsets that the record of an actor can be told of.
LEMMA ToldNumbers ==
    ASSUME DInv, IndexInv
    PROVE  taken \in Nat /\ taken <= taken /\ (todo # {} => taken - 1 \in Nat /\ taken - 1 <= taken)
BY DEF DInv, DiffTypes, IndexInv, LoopInv

LEMMA ToldKept ==
    ASSUME DInv, IndexInv, NewHead \/ UNCHANGED chain, UNCHANGED record,
           UNCHANGED <<taken, todo>>, recording' = recording \/ recording' = "stopped" \/ todo = {}
    PROVE  ToldInv'
<1>1. ASSUME NEW a \in Actor, a \notin todo PROVE Told(a, taken)'
  <2>1. Told(a, taken)
    BY <1>1 DEF IndexInv, ToldInv
  <2>2. PICK n \in Nat : n = taken
    BY ToldNumbers
  <2>3. Told(a, n)'
    BY <2>1, <2>2, ToldStays
  <2>. QED  BY <2>2, <2>3
<1>2. ASSUME NEW a \in Actor, a \in todo
      PROVE  Told(a, taken - 1)' \/ (recording' = "stopped" /\ Told(a, taken)')
  <2>1. taken - 1 \in Nat /\ taken - 1 <= taken
    BY <1>2, ToldNumbers
  <2>2. CASE Told(a, taken - 1)
    <3>1. PICK n \in Nat : n = taken - 1
      BY <2>1
    <3>2. Told(a, n)'
      BY <2>1, <2>2, <3>1, ToldStays
    <3>. QED  BY <3>1, <3>2
  <2>3. CASE recording = "stopped" /\ Told(a, taken)
    <3>1. PICK n \in Nat : n = taken
      BY ToldNumbers
    <3>2. Told(a, n)'
      BY <2>3, <3>1, ToldStays, ToldNumbers
    <3>. QED  BY <1>2, <2>3, <3>1, <3>2
  <2>. QED  BY <1>2, <2>2, <2>3 DEF IndexInv, ToldInv
<1>. QED  BY <1>1, <1>2 DEF ToldInv

LEMMA NextIndexes ==
    ASSUME DInv, IndexInv, [DiffsNext]_diffsVars
    PROVE  IndexInv'
<1>0. LoopInv /\ ToldInv /\ DiffTypes /\ PrevInv
  BY DEF IndexInv, DInv
<1>1. ASSUME NewHead PROVE IndexInv'
  <2>1. UNCHANGED <<recording, taken, todo, PrevHeight, minerInfo>> /\ UNCHANGED record
    BY <1>1 DEF NewHead, loop
  <2>. QED  BY <1>0, <1>1, <2>1, ToldKept DEF IndexInv, LoopInv, record
<1>2. ASSUME TipsetsEnd PROVE IndexInv'
  <2>1. /\ UNCHANGED <<chain, taken, todo, PrevHeight, minerInfo>> /\ UNCHANGED record
        /\ recording' = "stopped"
    BY <1>2 DEF TipsetsEnd, loop, external
  <2>. QED  BY <1>0, <2>1, ToldKept DEF IndexInv, LoopInv, record
<1>3. ASSUME TakeTipset PROVE IndexInv'
  <2>1. /\ recording = "waiting" /\ recording' = "recording" /\ taken' = taken + 1 /\ todo' = Actor
        /\ UNCHANGED <<chain, PrevHeight, minerInfo>> /\ UNCHANGED record
    BY <1>3 DEF TakeTipset, external
  <2>2. LoopInv'
    BY <1>0, <2>1 DEF LoopInv, DiffTypes, record
  <2>3. ASSUME NEW a \in Actor PROVE Told(a, taken - 1)'
    <3>1. PICK n \in Nat : n = taken /\ n = taken' - 1 /\ n <= taken
      BY <2>1, ToldNumbers
    <3>2. Told(a, n)
      BY <1>0, <2>1, <3>1 DEF ToldInv, LoopInv
    <3>3. Told(a, n)'
      BY <2>1, <3>1, <3>2, ToldStays
    <3>. QED  BY <3>1, <3>3 DEF Told
  <2>. QED  BY <2>1, <2>2, <2>3 DEF IndexInv, ToldInv, Told
<1>4. ASSUME NEW m \in Actor, ReadInfo(m) PROVE IndexInv'
  <2>1. /\ minerInfo' = <<[miner |-> m, state |-> head[m]]>>
        /\ UNCHANGED <<chain, recording, taken, todo, PrevHeight>> /\ UNCHANGED record
    BY <1>4 DEF ReadInfo, external, loop
  <2>2. head[m] \in MinerStates
    BY <1>0 DEF DiffTypes, head, Last
  <2>. QED  BY <1>0, <2>1, <2>2, ToldKept DEF IndexInv, LoopInv, record
<1>5. ASSUME NEW m \in Actor, RecordMiner(m) PROVE IndexInv'
  <2>1. /\ recording = "recording" /\ InTurn(m) /\ recordDiff(m)
        /\ todo' = todo \ {m} /\ minerInfo' = <<>>
        /\ UNCHANGED <<chain, recording, taken, PrevHeight>>
    BY <1>5 DEF RecordMiner, InTurn, external
  <2>2. /\ m \in todo /\ DOMAIN DiffValue' = Actor
        /\ \A b \in Actor \ {m} : \A n : Told(b, n)' = Told(b, n)
        /\ \A v \in ValueTypes :
               Tells(DiffHeight'[m][v], DiffValue'[m][v], DiffCmp'[m][v], chain, taken)
    BY <2>1, RecordTells
  <2>3. Told(m, taken)'
    BY <2>1, <2>2 DEF Told
  <2>4. \A b \in Actor \ {m} : Told(b, taken)' = Told(b, taken) /\ Told(b, taken - 1)' = Told(b, taken - 1)
    <3>1. PICK n, p : n = taken /\ p = taken - 1
      OBVIOUS
    <3>2. \A b \in Actor \ {m} : Told(b, n)' = Told(b, n) /\ Told(b, p)' = Told(b, p)
      BY <2>2
    <3>. QED  BY <2>1, <3>1, <3>2 DEF Told
  <2>5. LoopInv'
    BY <1>0, <2>1, <2>2 DEF LoopInv
  <2>6. ToldInv'
    BY <1>0, <2>1, <2>3, <2>4 DEF ToldInv
  <2>. QED  BY <2>5, <2>6 DEF IndexInv
<1>6. ASSUME NEW m \in Actor, RecordFails(m) PROVE IndexInv'
  <2>1. /\ recording = "recording" /\ recording' = "stopped" /\ minerInfo' = <<>>
        /\ UNCHANGED <<chain, taken, todo, PrevHeight>>
        /\ \/ InTurn(m) /\ recordDiff(m)
         \/ UNCHANGED record
    BY <1>6 DEF RecordFails, InTurn, external, loop
  <2>2. CASE UNCHANGED record
    BY <1>0, <2>1, <2>2, ToldKept DEF IndexInv, LoopInv, record
  <2>3. CASE InTurn(m) /\ recordDiff(m)
    <3>1. /\ m \in todo /\ DOMAIN DiffValue' = Actor
          /\ \A b \in Actor \ {m} : \A n : Told(b, n)' = Told(b, n)
          /\ \A v \in ValueTypes :
                 Tells(DiffHeight'[m][v], DiffValue'[m][v], DiffCmp'[m][v], chain, taken)
      BY <2>1, <2>3, RecordTells
    <3>2. Told(m, taken)'
      BY <2>1, <3>1 DEF Told
    <3>3. \A b \in Actor \ {m} : Told(b, taken)' = Told(b, taken) /\ Told(b, taken - 1)' = Told(b, taken - 1)
      <4>1. PICK n, p : n = taken /\ p = taken - 1
        OBVIOUS
      <4>2. \A b \in Actor \ {m} : Told(b, n)' = Told(b, n) /\ Told(b, p)' = Told(b, p)
        BY <3>1
      <4>. QED  BY <2>1, <4>1, <4>2 DEF Told
    <3>4. LoopInv'
      BY <1>0, <2>1, <3>1 DEF LoopInv
    <3>5. ToldInv'
      BY <1>0, <2>1, <3>1, <3>2, <3>3 DEF ToldInv
    <3>. QED  BY <3>4, <3>5 DEF IndexInv
  <2>. QED  BY <2>1, <2>2, <2>3
<1>7. ASSUME EndTipset PROVE IndexInv'
  <2>1. /\ recording = "recording" /\ recording' = "waiting" /\ todo = {} /\ PrevHeight' = chain[taken]
        /\ UNCHANGED <<chain, taken, todo, minerInfo>> /\ UNCHANGED record
    BY <1>7 DEF EndTipset, external, height
  <2>2. PrevHeight' \in 0..MaxHeight
    <3>1. taken \in 1..Len(chain)
      BY <1>0, <2>1, TakenStay DEF PrevInv
    <3>2. \A i \in 1..Len(chain) : chain[i] \in 0..MaxHeight
      BY <1>0, ChainHeights
    <3>. QED  BY <2>1, <3>1, <3>2
  <2>. QED  BY <1>0, <2>1, <2>2, ToldKept DEF IndexInv, LoopInv, record
<1>8. ASSUME NEW m \in Actor, Tick(m) PROVE IndexInv'
  <2>1. UNCHANGED <<chain, recording, taken, todo, PrevHeight, minerInfo>> /\ UNCHANGED record
    BY <1>8 DEF Tick, external, loop
  <2>. QED  BY <1>0, <2>1, ToldKept DEF IndexInv, LoopInv, record
<1>9. ASSUME UNCHANGED diffsVars PROVE IndexInv'
  <2>1. UNCHANGED <<chain, recording, taken, todo, PrevHeight, minerInfo>> /\ UNCHANGED record
    BY <1>9 DEF diffsVars, external, loop
  <2>. QED  BY <1>0, <2>1, ToldKept DEF IndexInv, LoopInv, record
<1>. QED  BY <1>1, <1>2, <1>3, <1>4, <1>5, <1>6, <1>7, <1>8, <1>9 DEF DiffsNext
\* The height before that of the i-th tipset is that of the one before.
LEMMA HeightBefore ==
    ASSUME NEW n \in Nat, NEW c, NEW i \in 2..n, \A j \in 1..n : c[j] \in Int,
           \A j, k \in 1..n : j < k => c[j] < c[k]
    PROVE  Max({h \in {c[j] : j \in 1..n} : h < c[i]}) = c[i - 1]
<1>. DEFINE S == {h \in {c[j] : j \in 1..n} : h < c[i]}
<1>1. i \in 1..n /\ i - 1 \in 1..n /\ i - 1 < i
  OBVIOUS
<1>2. c[i - 1] \in S
  BY <1>1
<1>3. ASSUME NEW h \in S PROVE h \in Int /\ h <= c[i - 1]
  <2>1. PICK j \in 1..n : h = c[j] /\ c[j] < c[i]
    BY <1>3
  <2>2. j < i
    <3>1. ~(i < j) /\ j # i
      BY <1>1, <2>1
    <3>. QED  BY <1>1, <3>1
  <2>3. j = i - 1 \/ j < i - 1
    BY <1>1, <2>2
  <2>. QED  BY <1>1, <2>1, <2>3
<1>. HIDE DEF S
<1>4. \A x \in S : (\A y \in S : x >= y) => x = c[i - 1]
  BY <1>2, <1>3
<1>5. \A y \in S : c[i - 1] >= y
  BY <1>2, <1>3
<1>6. Max(S) \in S /\ \A y \in S : Max(S) >= y
  BY <1>2, <1>5 DEF Max
<1>. QED  BY <1>4, <1>6 DEF S

\* How the value at h differs from the one at the height before.
ChangeIn(D, h) == D[h] - D[Max({k \in DOMAIN D : k < h})]
ChangedIn(D) == {h \in DOMAIN D : (\E k \in DOMAIN D : k < h) /\ ChangeIn(D, h) # 0}

\* What the indexes of one type tell, said with heights instead of places.
TellsHeights(D, V, C) ==
    /\ DOMAIN V = {D[h] : h \in DOMAIN D}
    /\ \A x \in DOMAIN V : Lists(V[x], {h \in DOMAIN D : D[h] = x})
    /\ DOMAIN C = {ChangeIn(D, h) : h \in ChangedIn(D)}
    /\ \A d \in DOMAIN C : Lists(C[d], {h \in ChangedIn(D) : ChangeIn(D, h) = d})

LEMMA TellsByHeight ==
    ASSUME NEW n \in Nat, NEW c, NEW D, NEW V, NEW C, Tells(D, V, C, c, n),
           \A j \in 1..n : c[j] \in Int, \A j, k \in 1..n : j < k => c[j] < c[k]
    PROVE  TellsHeights(D, V, C)
<1>. DEFINE K == Changes(D, c, n)
            I == {i \in 2..n : K[i] # 0}
<1>1. DOMAIN D = {c[i] : i \in 1..n} /\ \A i \in 2..n : i \in 1..n /\ i - 1 \in 1..n /\ i - 1 < i
  BY DEF Tells
<1>2. \A i \in 2..n : ChangeIn(D, c[i]) = K[i]
  <2>1. ASSUME NEW i \in 2..n PROVE ChangeIn(D, c[i]) = K[i]
    <3>1. Max({k \in DOMAIN D : k < c[i]}) = c[i - 1]
      BY <1>1, HeightBefore
    <3>. QED  BY <3>1 DEF ChangeIn, Changes
  <2>. QED  BY <2>1
<1>3. \A i \in 1..n : (\E k \in DOMAIN D : k < c[i]) <=> i \in 2..n
  <2>1. ASSUME NEW i \in 2..n PROVE \E k \in DOMAIN D : k < c[i]
    BY <1>1
  <2>2. ASSUME NEW i \in 1..n, i = 1, NEW j \in 1..n PROVE ~(c[j] < c[i])
    <3>1. j = i \/ i < j
      BY <2>2
    <3>. QED  BY <2>2, <3>1
  <2>3. \A i \in 1..n : i = 1 \/ i \in 2..n
    OBVIOUS
  <2>. QED  BY <1>1, <2>1, <2>2, <2>3
<1>. HIDE DEF K
<1>4. ChangedIn(D) = {c[i] : i \in I}
  BY <1>1, <1>2, <1>3 DEF ChangedIn
<1>5. \A i, j \in 1..n : c[i] = c[j] => i = j
  <2>1. \A i, j \in 1..n : i = j \/ i < j \/ j < i
    OBVIOUS
  <2>. QED  BY <2>1
<1>6. DOMAIN V = {D[h] : h \in DOMAIN D}
  <2>1. DOMAIN V = {Values(D, c, n)[i] : i \in 1..n}
    BY DEF Tells, Indexes
  <2>2. \A i \in 1..n : Values(D, c, n)[i] = D[c[i]]
    BY DEF Values
  <2>. QED  BY <1>1, <2>1, <2>2
<1>7. ASSUME NEW x \in DOMAIN V PROVE Lists(V[x], {h \in DOMAIN D : D[h] = x})
  <2>1. Lists(V[x], {c[i] : i \in {j \in 1..n : Values(D, c, n)[j] = x}})
    BY <1>7 DEF Tells, Indexes
  <2>2. {c[i] : i \in {j \in 1..n : Values(D, c, n)[j] = x}} = {h \in DOMAIN D : D[h] = x}
    BY <1>1 DEF Values
  <2>. QED  BY <2>1, <2>2
<1>8. Indexes(C, c, K, I)
  BY DEF Tells, K
<1>9. DOMAIN C = {ChangeIn(D, h) : h \in ChangedIn(D)}
  <2>1. DOMAIN C = {K[i] : i \in I}
    BY <1>8 DEF Indexes
  <2>2. \A i \in I : ChangeIn(D, c[i]) = K[i]
    BY <1>2
  <2>. QED  BY <1>4, <2>1, <2>2
<1>10. ASSUME NEW d \in DOMAIN C PROVE Lists(C[d], {h \in ChangedIn(D) : ChangeIn(D, h) = d})
  <2>1. Lists(C[d], {c[i] : i \in {j \in I : K[j] = d}})
    BY <1>8, <1>10 DEF Indexes
  <2>2. \A i \in I : ChangeIn(D, c[i]) = K[i]
    BY <1>2
  <2>3. {c[i] : i \in {j \in I : K[j] = d}} = {h \in ChangedIn(D) : ChangeIn(D, h) = d}
    BY <1>4, <2>2
  <2>. QED  BY <2>1, <2>3
<1>. QED  BY <1>6, <1>7, <1>9, <1>10 DEF TellsHeights
LEMMA IndexesFollow == ASSUME DInv, IndexInv PROVE IndexesAgree
<1>0. /\ DiffTypes /\ LoopInv /\ MaxHeight \in Nat /\ Len(chain) \in Nat
      /\ chain \in Seq(0..MaxHeight)
      /\ \A i \in 1..Len(chain) : chain[i] \in 0..MaxHeight
      /\ \A i, j \in 1..Len(chain) : i < j => chain[i] < chain[j]
  BY ChainHeights DEF DInv, DiffTypes, IndexInv
<1>1. taken \in Nat /\ taken <= Len(chain) /\ (todo # {} => taken - 1 \in Nat)
  BY TakenStay, ToldNumbers, <1>0, RecordAssumption DEF DInv, DiffTypes
<1>2. ASSUME NEW a \in Actor
      PROVE  \E n \in Nat : /\ n <= taken /\ Told(a, n)
                            /\ (IF a \in todo THEN taken - 1 ELSE taken) <= n
  <2>1. a \notin todo => Told(a, taken)
    BY DEF IndexInv, ToldInv
  <2>2. a \in todo => Told(a, taken - 1) \/ Told(a, taken)
    BY DEF IndexInv, ToldInv
  <2>. QED  BY <1>1, <2>1, <2>2
<1>3. ASSUME NEW a \in Actor, NEW v \in ValueTypes
      PROVE  /\ DOMAIN DiffHeight[a][v] \subseteq 0..MaxHeight
             /\ \A k \in DOMAIN DiffValue[a][v] : DiffValue[a][v][k] \in Seq(0..MaxHeight)
             /\ \A k \in DOMAIN DiffCmp[a][v] :
                    k # 0 /\ DiffCmp[a][v][k] \in Seq(0..MaxHeight) \ {<<>>}
             /\ Recorded(a, v) \subseteq Range(SubSeq(chain, 1, taken))
             /\ Range(SubSeq(chain, 1, IF a \in todo THEN taken - 1 ELSE taken))
                    \subseteq Recorded(a, v)
             /\ DOMAIN DiffValue[a][v] = {DiffHeight[a][v][h] : h \in Recorded(a, v)}
             /\ \A x \in DOMAIN DiffValue[a][v] :
                    Lists(DiffValue[a][v][x],
                                {h \in Recorded(a, v) : DiffHeight[a][v][h] = x})
             /\ DOMAIN DiffCmp[a][v] = {Change(a, v, h) : h \in Changed(a, v)}
             /\ \A d \in DOMAIN DiffCmp[a][v] :
                    Lists(DiffCmp[a][v][d],
                                {h \in Changed(a, v) : Change(a, v, h) = d})
  <2>1. PICK n \in Nat : /\ n <= taken /\ Told(a, n)
                         /\ (IF a \in todo THEN taken - 1 ELSE taken) <= n
    BY <1>2
  <2>2. PICK c : c = chain
    OBVIOUS
  <2>3. PICK D, V, C : D = DiffHeight[a][v] /\ V = DiffValue[a][v] /\ C = DiffCmp[a][v]
    OBVIOUS
  <2>4. Tells(D, V, C, c, n)
    BY <2>1, <2>2, <2>3 DEF Told
  <2>5. /\ \A i \in 1..n : c[i] \in 0..MaxHeight /\ c[i] \in Int
        /\ \A i, j \in 1..n : i < j => c[i] < c[j]
    <3>1. \A i \in 1..n : i \in 1..Len(chain)
      BY <1>0, <1>1, <2>1
    <3>. QED  BY <1>0, <2>2, <3>1
  <2>6. DOMAIN D = {c[i] : i \in 1..n}
    BY <2>4 DEF Tells
  <2>7. \A k \in DOMAIN V : V[k] \in Seq(0..MaxHeight)
    BY <2>4 DEF Tells, Indexes
  <2>8. \A k \in DOMAIN C : k # 0 /\ C[k] \in Seq(0..MaxHeight) /\ C[k] # <<>>
    <3>1. PICK K, I : /\ I = {i \in 2..n : K[i] # 0} /\ Indexes(C, c, K, I)
      BY <2>4 DEF Tells
    <3>2. ASSUME NEW k \in DOMAIN C PROVE k # 0 /\ C[k] \in Seq(0..MaxHeight) /\ C[k] # <<>>
      <4>1. PICK i \in I : k = K[i]
        BY <3>1, <3>2 DEF Indexes
      <4>2. c[i] \in Range(C[k])
        BY <3>1, <3>2, <4>1 DEF Indexes, Lists
      <4>3. C[k] # <<>>
        BY <4>2 DEF Range
      <4>. QED  BY <3>1, <3>2, <4>1, <4>3 DEF Indexes
    <3>. QED  BY <3>2
  <2>10. TellsHeights(D, V, C)
    <3>1. \A i \in 1..n : c[i] \in Int
      BY <2>5
    <3>2. \A i, j \in 1..n : i < j => c[i] < c[j]
      BY <2>5
    <3>. QED  BY <2>4, <3>1, <3>2, TellsByHeight
  <2>11. /\ Recorded(a, v) = DOMAIN D
         /\ \A h : Change(a, v, h) = ChangeIn(D, h)
         /\ Changed(a, v) = ChangedIn(D)
    BY <2>3 DEF ChangedIn, Recorded, Change, Changed, ChangeIn
  <2>12. ASSUME NEW p \in Nat, p <= taken
         PROVE  Range(SubSeq(chain, 1, p)) = {c[i] : i \in 1..p}
    <3>1. /\ DOMAIN SubSeq(chain, 1, p) = 1..p
          /\ \A i \in 1..p : SubSeq(chain, 1, p)[i] = chain[i]
      BY <1>0, <1>1, <2>12, FirstOnes
    <3>. QED  BY <2>2, <3>1 DEF Range
  <2>13. Recorded(a, v) \subseteq Range(SubSeq(chain, 1, taken))
    <3>1. \A i \in 1..n : i \in 1..taken
      BY <1>1, <2>1
    <3>2. Range(SubSeq(chain, 1, taken)) = {c[i] : i \in 1..taken}
      BY <1>1, <2>12
    <3>. QED  BY <2>6, <2>11, <3>1, <3>2
  <2>14. Range(SubSeq(chain, 1, IF a \in todo THEN taken - 1 ELSE taken))
             \subseteq Recorded(a, v)
    <3>1. PICK p \in Nat : p = (IF a \in todo THEN taken - 1 ELSE taken) /\ p <= taken /\ p <= n
      BY <1>1, <2>1
    <3>2. \A i \in 1..p : i \in 1..n
      BY <3>1
    <3>3. Range(SubSeq(chain, 1, p)) = {c[i] : i \in 1..p}
      BY <2>12, <3>1
    <3>. QED  BY <2>6, <2>11, <3>1, <3>2, <3>3
  <2>15. DOMAIN D \subseteq 0..MaxHeight
    BY <2>5, <2>6
  <2>16. /\ DOMAIN V = {D[h] : h \in Recorded(a, v)}
         /\ \A x \in DOMAIN V : Lists(V[x], {h \in Recorded(a, v) : D[h] = x})
    BY <2>10, <2>11 DEF TellsHeights
  <2>17. DOMAIN C = {Change(a, v, h) : h \in Changed(a, v)}
    <3>1. {Change(a, v, h) : h \in Changed(a, v)} = {ChangeIn(D, h) : h \in ChangedIn(D)}
      BY <2>11
    <3>. QED  BY <2>10, <3>1 DEF TellsHeights
  <2>18. ASSUME NEW d \in DOMAIN C
         PROVE  Lists(C[d], {h \in Changed(a, v) : Change(a, v, h) = d})
    <3>1. {h \in Changed(a, v) : Change(a, v, h) = d} =
          {h \in ChangedIn(D) : ChangeIn(D, h) = d}
      BY <2>11
    <3>. QED  BY <2>10, <2>18, <3>1 DEF TellsHeights
  <2>. QED  BY <2>3, <2>7, <2>8, <2>13, <2>14, <2>15, <2>16, <2>17, <2>18 DEF Recorded
<1>4. DiffsTypeOK
  <2>1. chain \in Seq(Heights) /\ IsInjective(chain)
    <3>1. \A i, j \in 1..Len(chain) : i = j \/ i < j \/ j < i
      BY <1>0
    <3>2. \A i, j \in 1..Len(chain) : chain[i] = chain[j] => i = j
      BY <1>0, <3>1
    <3>3. DOMAIN chain = 1..Len(chain)
      BY <1>0
    <3>. QED  BY <1>0, <3>2, <3>3 DEF Heights, IsInjective
  <2>2. /\ heads \in Seq([Actor -> MinerStates])
        /\ recording \in {"waiting", "recording", "stopped"}
        /\ slashWatch \in [Actor -> {"watching", "found", "closed"}]
    BY <1>0 DEF DiffTypes
  <2>3. taken \in 0..Len(chain)
    BY <1>0, <1>1
  <2>4. /\ todo \subseteq Actor
        /\ minerInfo \in Seq([miner : Actor, state : MinerStates]) /\ Len(minerInfo) <= 1
        /\ PrevHeight \in Heights \cup {-1}
    BY <1>0 DEF LoopInv, Heights
  <2>. QED  BY <1>3, <2>1, <2>2, <2>3, <2>4 DEF DiffsTypeOK, Heights
<1>. QED  BY <1>3, <1>4 DEF IndexesAgree

\* The three indexes of the record agree, for any miners, types, states, lag, skipped heights
\* and replaced tipsets: the heights of the tipsets taken are there without a gap, each once
\* under its value and once under its change from the tipset before, in their order, also
\* while some miners of a tipset are still to come and when it has failed half way.
THEOREM IndexesAgreeHolds == DiffsSpec => []IndexesAgree
<1>2. DiffsInit => DInv /\ IndexInv
  BY InitDiffs, InitIndexes
<1>3. DInv /\ IndexInv /\ [DiffsNext]_diffsVars => (DInv /\ IndexInv)'
  BY NextDiffs, NextIndexes
<1>4. DInv /\ IndexInv => IndexesAgree
  BY IndexesFollow
<1>. QED  BY <1>2, <1>3, <1>4, PTL DEF DiffsSpec

=============================================================================
