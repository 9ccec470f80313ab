-------------------------- MODULE SyncMining_proofs --------------------------
(***************************************************************************)
(* Proofs about SyncMining for any number of miners, clients and waiters.  *)
(*                                                                         *)
(* The sync service only keeps counters, so the key of every argument is   *)
(* what a counter means: it is the number of instances that have passed    *)
(* the entry of its state.  A counter at its target therefore says that    *)
(* everybody has passed, and nobody goes back.                             *)
(***************************************************************************)
EXTENDS SyncMining, Counting

\* m has entered "mine-block-k".
Signalled(m, k) ==
    /\ Synchronized
    /\ \/ k < round[m]
       \/ k = round[m] /\ pc[m] \in {"wait", "mine", "exited", "panicked"}

\* m has got through the barrier of "mine-block-k".
Passed(m, k) ==
    k < round[m] \/ (k = round[m] /\ pc[m] \in {"mine", "panicked"})

RoundCounts ==
    \A k \in 0 .. MaxRound : entered[k] = Cardinality({m \in Miner : Signalled(m, k)})

RoundsPassed ==
    \A m, n \in Miner, k \in 0 .. MaxRound : Passed(m, k) => Signalled(n, k)

NaturalIdle == ~Synchronized => \A m \in Miner : pc[m] = "exited"

RoundInv == RoundCounts /\ RoundsPassed /\ NaturalIdle

\* c has entered "stop-mining".
Stopped(c) == main[c] \notin {"run", "failed"}

StopInv ==
    /\ stopCount = Cardinality({c \in Client : Stopped(c)})
    /\ (\E m \in Miner : ~mine[m]) => \A c \in Client : Stopped(c)
    /\ Synchronized => \A m \in Miner : pc[m] \in {"last", "exited"} => ~mine[m]

\* n has entered "done".
AtDone(n) == main[n] \in {"done", "returned"}

DoneInv ==
    /\ doneCount = Cardinality({n \in Node : AtDone(n)})
    /\ \A m \in Miner : AtDone(m) => pc[m] = "exited"
    /\ (\E n \in Node : main[n] = "returned") => \A n \in Node : AtDone(n)

\* The bound on the rounds never lets i pass it.
BoundInv == \A m \in Miner : pc[m] \in {"signal", "wait", "mine"} => round[m] < MaxRound

TypeInv == TypeOK /\ BoundInv

IInv == TypeInv /\ RoundInv /\ StopInv /\ DoneInv

-----------------------------------------------------------------------------
(* Counting: see module Counting. *)

\* The set of instances is finite, because each role is.
LEMMA NodeFinite == IsFiniteSet(Node)
BY NodesAssumption, FS_Union DEF Node

-----------------------------------------------------------------------------
(* Types. *)

LEMMA InitType == Init => TypeInv
BY BoundsAssumption DEF Init, TypeInv, TypeOK, BoundInv

LEMMA NextType == TypeInv /\ [Next]_vars => TypeInv'
<1>. SUFFICES ASSUME TypeInv, [Next]_vars PROVE TypeInv'
  OBVIOUS
<1>. USE BoundsAssumption DEF TypeInv, TypeOK, BoundInv, Node
<1>1. ASSUME NEW m \in Miner, MiningStep(m) PROVE TypeInv'
  <2>1. CASE CheckFlag(m)    BY <2>1 DEF CheckFlag, Goto
  <2>2. CASE SignalRound(m)  BY <2>2 DEF SignalRound, Goto
  <2>3. CASE PassRound(m)    BY <2>3 DEF PassRound, Goto
  <2>4. CASE MineBlock(m)    BY <2>4 DEF MineBlock, Goto
  <2>5. CASE MineError(m)
    <3>1. CASE UNCHANGED <<pc, main>>          BY <2>5, <3>1 DEF MineError
    <3>2. CASE retries[m] + 1 = MaxRetries
                /\ pc' = [pc EXCEPT ![m] = "panicked"]
                /\ main' = [main EXCEPT ![m] = "dead"]
      <4>1. retries' \in [Miner -> 0 .. MaxRetries]  BY <2>5, <3>2 DEF MineError
      <4>2. UNCHANGED <<round, mine, entered, stopCount, doneCount>>  BY <2>5 DEF MineError
      <4>. QED  BY <3>2, <4>1, <4>2
    <3>. QED  BY <2>5, <3>1, <3>2 DEF MineError
  <2>6. CASE MineFails(m)    BY <2>6 DEF MineFails, Goto
  <2>7. CASE SignalLast(m)   BY <2>7 DEF SignalLast, Goto
  <2>. QED  BY <1>1, <2>1, <2>2, <2>3, <2>4, <2>5, <2>6, <2>7 DEF MiningStep
<1>2. ASSUME NEW n \in Node, MainStep(n) PROVE TypeInv'
  <2>. USE DEF MainGoto, mining
  <2>1. CASE n \in Miner /\ StopMining(n)   BY <2>1 DEF StopMining
  <2>2. CASE n \in Miner /\ MinerDone(n)    BY <2>2 DEF MinerDone
  <2>3. CASE n \in Client /\ ClientStops(n) BY <2>3 DEF ClientStops
  <2>4. CASE n \in Client /\ ClientDone(n)  BY <2>4 DEF ClientDone
  <2>5. CASE n \in Waiter /\ WaiterDone(n)  BY <2>5 DEF WaiterDone
  <2>6. CASE Return(n)                      BY <2>6 DEF Return
  <2>. QED  BY <1>2, <2>1, <2>2, <2>3, <2>4, <2>5, <2>6 DEF MainStep
<1>3. ASSUME NEW c \in Client, ClientFails(c) PROVE TypeInv'
  BY <1>3 DEF ClientFails, MainGoto, mining
<1>4. CASE UNCHANGED vars
  BY <1>4 DEF vars
<1>. QED  BY <1>1, <1>2, <1>3, <1>4 DEF Next

\* The types of all variables are preserved by every step of every goroutine.
THEOREM TypeCorrect == Spec => []TypeOK
<1>1. TypeInv => TypeOK
  BY DEF TypeInv
<1>. QED  BY <1>1, InitType, NextType, PTL DEF Spec

-----------------------------------------------------------------------------
(* Rounds. *)

LEMMA InitRound == Init => RoundInv
<1>. SUFFICES ASSUME Init PROVE RoundInv
  OBVIOUS
<1>1. \A m \in Miner, k \in 0 .. MaxRound : ~Signalled(m, k) /\ (Passed(m, k) => FALSE)
  BY BoundsAssumption DEF Init, Signalled, Passed
<1>2. \A k \in 0 .. MaxRound : {m \in Miner : Signalled(m, k)} = {}
  BY <1>1
<1>3. RoundCounts
  BY <1>2, FS_EmptySet DEF RoundCounts, Init
<1>. QED  BY <1>1, <1>3 DEF RoundInv, RoundsPassed, NaturalIdle, Init

\* Entering the state of m's own round adds m, and only m, to its counter.
LEMMA EnterRound ==
    ASSUME TypeInv, RoundInv, NEW m \in Miner,
           \/ Goto(m, "signal", "wait")
           \/ Goto(m, "last", "exited"),
           entered' = [entered EXCEPT ![round[m]] = @ + 1],
           UNCHANGED round
    PROVE  RoundInv'
<1>. DEFINE R == round[m]
            In(k) == {n \in Miner : Signalled(n, k)}
<1>0. pc[m] \in {"signal", "last"} /\ R \in 0 .. MaxRound
  BY DEF TypeInv, TypeOK, Goto
<1>1. Synchronized
  BY <1>0 DEF RoundInv, NaturalIdle
<1>2. \A n \in Miner, k \in 0 .. MaxRound : k # R \/ n # m => (Signalled(n, k)' <=> Signalled(n, k))
  BY <1>0 DEF TypeInv, TypeOK, Signalled, Goto
<1>3. Signalled(m, R)' /\ ~Signalled(m, R)
  BY <1>0, <1>1 DEF TypeInv, TypeOK, Signalled, Goto
<1>4. RoundCounts'
  <2>. SUFFICES ASSUME NEW k \in 0 .. MaxRound PROVE entered'[k] = Cardinality(In(k)')
    BY DEF RoundCounts
  <2>0. entered[k] = Cardinality(In(k))
    BY DEF RoundInv, RoundCounts
  <2>1. CASE k # R
    <3>1. In(k)' = In(k)         BY <1>2, <2>1
    <3>2. entered'[k] = entered[k]  BY <2>1 DEF TypeInv, TypeOK
    <3>. QED  BY <2>0, <3>1, <3>2
  <2>2. CASE k = R
    <3>1. In(k)' = In(k) \cup {m} /\ m \notin In(k)  BY <1>2, <1>3, <2>2
    <3>2. Cardinality(In(k)') = Cardinality(In(k)) + 1
      <4>. HIDE DEF In
      <4>1. In(k) \in SUBSET Miner  BY DEF In
      <4>. QED  BY <3>1, <4>1, NodesAssumption, OneMore
    <3>3. entered'[k] = entered[k] + 1  BY <2>2 DEF TypeInv, TypeOK
    <3>. QED  BY <2>0, <3>2, <3>3
  <2>. QED  BY <2>1, <2>2
<1>5. RoundsPassed'
  <2>1. \A n \in Miner, k \in 0 .. MaxRound : Passed(n, k)' => Passed(n, k)
    BY <1>0 DEF TypeInv, TypeOK, Passed, Goto
  <2>2. \A n \in Miner, k \in 0 .. MaxRound : Signalled(n, k) => Signalled(n, k)'
    BY <1>2, <1>3
  <2>. QED  BY <2>1, <2>2 DEF RoundInv, RoundsPassed
<1>6. NaturalIdle'
  BY <1>1 DEF NaturalIdle
<1>. QED  BY <1>4, <1>5, <1>6 DEF RoundInv

\* A step that leaves Signalled alone, and Passed too or only where all have entered.
LEMMA KeepRound ==
    ASSUME RoundInv, UNCHANGED entered,
           \A n \in Miner, k \in 0 .. MaxRound : Signalled(n, k)' <=> Signalled(n, k),
           \A n \in Miner, k \in 0 .. MaxRound :
               Passed(n, k)' => Passed(n, k) \/ \A o \in Miner : Signalled(o, k),
           NaturalIdle'
    PROVE  RoundInv'
<1>1. \A k \in 0 .. MaxRound :
          {n \in Miner : Signalled(n, k)}' = {n \in Miner : Signalled(n, k)}
  OBVIOUS
<1>2. RoundCounts'
  BY <1>1 DEF RoundInv, RoundCounts
<1>3. RoundsPassed'
  BY DEF RoundInv, RoundsPassed
<1>. QED  BY <1>2, <1>3 DEF RoundInv

LEMMA NextRound == TypeInv /\ RoundInv /\ [Next]_vars => RoundInv'
<1>. SUFFICES ASSUME TypeInv, RoundInv, [Next]_vars PROVE RoundInv'
  OBVIOUS
<1>0. TypeOK /\ NaturalIdle /\ RoundCounts
  BY DEF TypeInv, RoundInv
<1>1. ASSUME UNCHANGED <<pc, round, entered>> PROVE RoundInv'
  BY <1>1 DEF RoundInv, RoundCounts, RoundsPassed, NaturalIdle, Signalled, Passed
<1>2. ASSUME NEW m \in Miner, MiningStep(m) PROVE RoundInv'
  <2>1. CASE CheckFlag(m)
    <3>1. \A n \in Miner, k \in 0 .. MaxRound :
              (Signalled(n, k)' <=> Signalled(n, k)) /\ (Passed(n, k)' => Passed(n, k))
      BY <1>0, <2>1 DEF CheckFlag, Goto, Signalled, Passed, TypeOK
    <3>2. UNCHANGED entered /\ NaturalIdle'
      BY <1>0, <2>1 DEF CheckFlag, Goto, NaturalIdle
    <3>. QED  BY <3>1, <3>2, KeepRound
  <2>2. CASE SignalRound(m)
    BY <2>2, EnterRound DEF SignalRound
  <2>3. CASE PassRound(m)
    <3>. DEFINE R == round[m]
    <3>0. pc[m] = "wait" /\ R \in 0 .. MaxRound /\ UNCHANGED <<round, entered>>
      BY <1>0, <2>3 DEF PassRound, Goto, TypeOK
    <3>1. \A o \in Miner : Signalled(o, R)
      <4>. DEFINE S == {o \in Miner : Signalled(o, R)}
      <4>1. Cardinality(S) >= Cardinality(Miner)
        BY <1>0, <2>3, <3>0 DEF PassRound, RoundCounts
      <4>2. S \in SUBSET Miner
        OBVIOUS
      <4>3. S = Miner
        <5>. HIDE DEF S
        <5>. QED  BY <4>1, <4>2, NodesAssumption, FullCount
      <4>. QED  BY <4>3
    <3>2. \A n \in Miner, k \in 0 .. MaxRound :
              /\ Signalled(n, k)' <=> Signalled(n, k)
              /\ Passed(n, k)' => Passed(n, k) \/ k = R
      BY <1>0, <2>3, <3>0 DEF PassRound, Goto, Signalled, Passed, TypeOK
    <3>3. NaturalIdle'
      BY <1>0, <2>3, <3>0 DEF PassRound, Goto, NaturalIdle
    <3>. QED  BY <3>0, <3>1, <3>2, <3>3, KeepRound
  <2>4. CASE MineBlock(m)
    <3>1. \A n \in Miner, k \in 0 .. MaxRound :
              (Signalled(n, k)' <=> Signalled(n, k)) /\ (Passed(n, k)' => Passed(n, k))
      <4>1. Synchronized  BY <1>0, <2>4 DEF MineBlock, Goto, NaturalIdle
      <4>. QED  BY <1>0, <2>4, <4>1 DEF MineBlock, Goto, Signalled, Passed, TypeOK
    <3>2. UNCHANGED entered /\ NaturalIdle'
      BY <1>0, <2>4 DEF MineBlock, Goto, NaturalIdle
    <3>. QED  BY <3>1, <3>2, KeepRound
  <2>5. CASE MineError(m)
    <3>1. CASE UNCHANGED pc  BY <1>1, <2>5, <3>1 DEF MineError
    <3>2. CASE pc' = [pc EXCEPT ![m] = "panicked"]
      <4>0. pc[m] = "mine" /\ UNCHANGED <<round, entered>>
        BY <2>5 DEF MineError
      <4>1. \A n \in Miner, k \in 0 .. MaxRound :
                (Signalled(n, k)' <=> Signalled(n, k)) /\ (Passed(n, k)' => Passed(n, k))
        BY <1>0, <3>2, <4>0 DEF Signalled, Passed, TypeOK
      <4>2. NaturalIdle'
        BY <1>0, <3>2, <4>0 DEF NaturalIdle
      <4>. QED  BY <4>0, <4>1, <4>2, KeepRound
    <3>. QED  BY <2>5, <3>1, <3>2 DEF MineError
  <2>6. CASE MineFails(m)
    <3>1. \A n \in Miner, k \in 0 .. MaxRound :
              (Signalled(n, k)' <=> Signalled(n, k)) /\ (Passed(n, k)' => Passed(n, k))
      BY <1>0, <2>6 DEF MineFails, Goto, Signalled, Passed, TypeOK
    <3>2. UNCHANGED entered /\ NaturalIdle'
      BY <1>0, <2>6 DEF MineFails, Goto, NaturalIdle
    <3>. QED  BY <3>1, <3>2, KeepRound
  <2>7. CASE SignalLast(m)
    BY <2>7, EnterRound DEF SignalLast
  <2>. QED  BY <1>2, <2>1, <2>2, <2>3, <2>4, <2>5, <2>6, <2>7 DEF MiningStep
<1>3. ASSUME NEW n \in Node, MainStep(n) PROVE RoundInv'
  BY <1>1, <1>3 DEF MainStep, StopMining, MinerDone, ClientStops, ClientDone, WaiterDone,
                    Return, mining
<1>4. ASSUME NEW c \in Client, ClientFails(c) PROVE RoundInv'
  BY <1>1, <1>4 DEF ClientFails, mining
<1>5. CASE UNCHANGED vars
  BY <1>1, <1>5 DEF vars
<1>. QED  BY <1>2, <1>3, <1>4, <1>5 DEF Next

-----------------------------------------------------------------------------
(* The stop signal. *)

LEMMA InitStop == Init => StopInv
<1>. SUFFICES ASSUME Init PROVE StopInv
  OBVIOUS
<1>1. {c \in Client : Stopped(c)} = {}
  BY DEF Init, Stopped, Node
<1>. QED  BY <1>1, FS_EmptySet DEF Init, StopInv

\* A step that keeps the counter and who has stopped, and clears no flag too early.
LEMMA KeepStop ==
    ASSUME StopInv, UNCHANGED stopCount,
           \A c \in Client : Stopped(c)' <=> Stopped(c),
           (\E m \in Miner : ~mine'[m]) =>
               (\E m \in Miner : ~mine[m]) \/ (\A c \in Client : Stopped(c)),
           Synchronized => \A m \in Miner : pc'[m] \in {"last", "exited"} => ~mine'[m]
    PROVE  StopInv'
<1>1. {c \in Client : Stopped(c)}' = {c \in Client : Stopped(c)}
  OBVIOUS
<1>. QED  BY <1>1 DEF StopInv

LEMMA NextStop == TypeInv /\ StopInv /\ [Next]_vars => StopInv'
<1>. SUFFICES ASSUME TypeInv, StopInv, [Next]_vars PROVE StopInv'
  OBVIOUS
<1>0. TypeOK
  BY DEF TypeInv
<1>. USE NodesAssumption DEF Node
<1>1. ASSUME NEW m \in Miner, MiningStep(m) PROVE StopInv'
  <2>1. UNCHANGED <<mine, stopCount>>
    BY <1>1 DEF MiningStep, CheckFlag, SignalRound, PassRound, MineBlock, MineError, MineFails, SignalLast
  <2>2. \A c \in Client : Stopped(c)' <=> Stopped(c)
    BY <1>0, <1>1 DEF MiningStep, CheckFlag, SignalRound, PassRound, MineBlock, MineError, MineFails,
                      SignalLast, Stopped, TypeOK
  <2>3. Synchronized => \A n \in Miner : pc'[n] \in {"last", "exited"} => ~mine'[n]
    <3>1. \A n \in Miner : pc'[n] \in {"last", "exited"} =>
              pc[n] \in {"last", "exited"} \/ ~mine[n]
      BY <1>0, <1>1 DEF MiningStep, CheckFlag, SignalRound, PassRound, MineBlock, MineError, MineFails,
                        SignalLast, Goto, TypeOK
    <3>. QED  BY <2>1, <3>1 DEF StopInv
  <2>. QED  BY <2>1, <2>2, <2>3, KeepStop
<1>2. ASSUME NEW n \in Node, MainStep(n) PROVE StopInv'
  <2>0. UNCHANGED pc
    BY <1>2 DEF MainStep, StopMining, MinerDone, ClientStops, ClientDone, WaiterDone, Return, mining
  <2>1. CASE n \in Miner /\ StopMining(n)
    <3>1. \A c \in Client : Stopped(c)
      <4>1. Cardinality({c \in Client : Stopped(c)}) >= Cardinality(Client)
        BY <2>1 DEF StopMining, StopInv
      <4>2. {c \in Client : Stopped(c)} = Client
        BY <4>1, FullCount
      <4>. QED  BY <4>2
    <3>2. \A c \in Client : Stopped(c)' <=> Stopped(c)
      BY <1>0, <2>1 DEF StopMining, MainGoto, Stopped, TypeOK
    <3>3. Synchronized => \A m \in Miner : pc'[m] \in {"last", "exited"} => ~mine'[m]
      BY <1>0, <2>0, <2>1 DEF StopMining, StopInv, TypeOK
    <3>. QED  BY <2>1, <3>1, <3>2, <3>3, KeepStop DEF StopMining
  <2>2. CASE n \in Client /\ ClientStops(n)
    <3>. DEFINE S == {c \in Client : Stopped(c)}
    <3>1. S' = S \cup {n} /\ n \notin S
      BY <1>0, <2>2 DEF ClientStops, MainGoto, Stopped, TypeOK
    <3>2. Cardinality(S') = Cardinality(S) + 1
      <4>1. S \in SUBSET Client  OBVIOUS
      <4>. HIDE DEF S
      <4>. QED  BY <3>1, <4>1, OneMore
    <3>3. stopCount' = Cardinality(S')
      BY <2>2, <3>2 DEF ClientStops, StopInv
    <3>4. \A c \in Client : Stopped(c) => Stopped(c)'
      BY <3>1
    <3>5. UNCHANGED mine
      BY <2>2 DEF ClientStops
    <3>. QED  BY <2>0, <3>3, <3>4, <3>5 DEF StopInv
  <2>3. CASE \/ n \in Miner /\ MinerDone(n)
             \/ n \in Client /\ ClientDone(n)
             \/ n \in Waiter /\ WaiterDone(n)
             \/ Return(n)
    <3>1. \A c \in Client : Stopped(c)' <=> Stopped(c)
      BY <1>0, <2>3 DEF MinerDone, ClientDone, WaiterDone, Return, MainGoto, Stopped, TypeOK
    <3>2. UNCHANGED <<mine, stopCount>>
      BY <2>3 DEF MinerDone, ClientDone, WaiterDone, Return
    <3>. QED  BY <2>0, <3>1, <3>2, KeepStop DEF StopInv
  <2>. QED  BY <1>2, <2>1, <2>2, <2>3 DEF MainStep
<1>3. ASSUME NEW c \in Client, ClientFails(c) PROVE StopInv'
  <2>1. \A d \in Client : Stopped(d)' <=> Stopped(d)
    BY <1>0, <1>3 DEF ClientFails, MainGoto, Stopped, TypeOK
  <2>2. UNCHANGED <<pc, mine, stopCount>>
    BY <1>3 DEF ClientFails, mining
  <2>. QED  BY <2>1, <2>2, KeepStop DEF StopInv
<1>4. CASE UNCHANGED vars
  BY <1>4 DEF vars, StopInv, Stopped
<1>. QED  BY <1>1, <1>2, <1>3, <1>4 DEF Next

-----------------------------------------------------------------------------
(* The end of the test. *)

LEMMA InitDone == Init => DoneInv
<1>. SUFFICES ASSUME Init PROVE DoneInv
  OBVIOUS
<1>1. \A n \in Node : main[n] = "run"
  BY DEF Init
<1>2. {n \in Node : AtDone(n)} = {}
  BY <1>1 DEF AtDone
<1>3. \A m \in Miner : ~AtDone(m)
  BY <1>1 DEF AtDone, Node
<1>. QED  BY <1>1, <1>2, <1>3, FS_EmptySet DEF Init, DoneInv

\* Entering "done" adds n, and only n, to its counter.
LEMMA EnterDone ==
    ASSUME TypeInv, DoneInv, NEW n \in Node, NEW from,
           from \notin {"done", "returned"}, MainGoto(n, from, "done"),
           doneCount' = doneCount + 1, UNCHANGED pc,
           n \in Miner => pc[n] = "exited"
    PROVE  DoneInv'
<1>. DEFINE S == {o \in Node : AtDone(o)}
<1>0. TypeOK
  BY DEF TypeInv
<1>1. S' = S \cup {n} /\ n \notin S
  BY <1>0 DEF MainGoto, AtDone, TypeOK
<1>2. doneCount' = Cardinality(S')
  <2>1. Cardinality(S) = doneCount  BY DEF DoneInv
  <2>2. S \in SUBSET Node  OBVIOUS
  <2>. HIDE DEF S
  <2>. QED  BY <1>1, <2>1, <2>2, NodeFinite, OneMore
<1>3. \A m \in Miner : AtDone(m)' => pc'[m] = "exited"
  BY <1>1 DEF DoneInv, Node
<1>4. \A o \in Node : main'[o] = "returned" => main[o] = "returned"
  BY <1>0 DEF MainGoto, TypeOK
<1>5. (\E o \in Node : main'[o] = "returned") => \A o \in Node : AtDone(o)'
  BY <1>1, <1>4 DEF DoneInv
<1>. QED  BY <1>2, <1>3, <1>5 DEF DoneInv

\* A step of an instance that is not at "done" and does not get there.
LEMMA KeepDone ==
    ASSUME DoneInv, UNCHANGED doneCount,
           \A n \in Node : AtDone(n)' <=> AtDone(n),
           \A n \in Node : main'[n] = "returned" =>
               main[n] = "returned" \/ \A o \in Node : AtDone(o),
           \A m \in Miner : pc[m] = "exited" => pc'[m] = "exited"
    PROVE  DoneInv'
<1>1. {n \in Node : AtDone(n)}' = {n \in Node : AtDone(n)}
  OBVIOUS
<1>2. \A m \in Miner : AtDone(m)' => pc'[m] = "exited"
  BY DEF DoneInv, Node
<1>. QED  BY <1>1, <1>2 DEF DoneInv

LEMMA NextDone == TypeInv /\ DoneInv /\ [Next]_vars => DoneInv'
<1>. SUFFICES ASSUME TypeInv, DoneInv, [Next]_vars PROVE DoneInv'
  OBVIOUS
<1>0. TypeOK
  BY DEF TypeInv
<1>1. ASSUME NEW m \in Miner, MiningStep(m) PROVE DoneInv'
  <2>1. UNCHANGED doneCount /\ pc[m] # "exited"
    BY <1>1 DEF MiningStep, CheckFlag, SignalRound, PassRound, MineBlock, MineError, MineFails, SignalLast,
                Goto
  <2>2. \A n \in Miner : pc[n] = "exited" => pc'[n] = "exited"
    BY <1>0, <1>1 DEF MiningStep, CheckFlag, SignalRound, PassRound, MineBlock, MineError, MineFails,
                      SignalLast, Goto, TypeOK
  <2>3. ~AtDone(m) /\ m \in Node
    BY <2>1 DEF DoneInv, Node
  <2>4. \A n \in Node : (AtDone(n)' <=> AtDone(n)) /\ (main'[n] = "returned" => main[n] = "returned")
    BY <1>0, <1>1, <2>3 DEF MiningStep, CheckFlag, SignalRound, PassRound, MineBlock, MineError, MineFails,
                            SignalLast, AtDone, TypeOK
  <2>. QED  BY <2>1, <2>2, <2>4, KeepDone
<1>2. ASSUME NEW n \in Node, MainStep(n) PROVE DoneInv'
  <2>0. UNCHANGED pc
    BY <1>2 DEF MainStep, StopMining, MinerDone, ClientStops, ClientDone, WaiterDone, Return, mining
  <2>1. CASE n \in Miner /\ MinerDone(n)
    BY <2>0, <2>1, EnterDone DEF MinerDone
  <2>2. CASE n \in Client /\ ClientDone(n)
    BY <2>0, <2>2, NodesAssumption, EnterDone DEF ClientDone
  <2>3. CASE n \in Waiter /\ WaiterDone(n)
    BY <2>0, <2>3, NodesAssumption, EnterDone DEF WaiterDone
  <2>4. CASE (n \in Miner /\ StopMining(n)) \/ (n \in Client /\ ClientStops(n))
    <3>1. UNCHANGED doneCount
      BY <2>4 DEF StopMining, ClientStops
    <3>2. \A o \in Node : (AtDone(o)' <=> AtDone(o)) /\ (main'[o] = "returned" => main[o] = "returned")
      BY <1>0, <2>4 DEF StopMining, ClientStops, MainGoto, AtDone, TypeOK
    <3>. QED  BY <2>0, <3>1, <3>2, KeepDone
  <2>5. CASE Return(n)
    <3>. DEFINE S == {o \in Node : AtDone(o)}
    <3>1. S = Node
      <4>1. Cardinality(S) >= Cardinality(Node)
        BY <2>5 DEF Return, DoneInv, TestInstanceCount
      <4>2. S \in SUBSET Node  OBVIOUS
      <4>. HIDE DEF S
      <4>. QED  BY <4>1, <4>2, NodeFinite, FullCount
    <3>2. \A o \in Node : AtDone(o)' <=> AtDone(o)
      BY <1>0, <2>5 DEF Return, MainGoto, AtDone, TypeOK
    <3>3. UNCHANGED doneCount
      BY <2>5 DEF Return
    <3>. QED  BY <2>0, <3>1, <3>2, <3>3, KeepDone
  <2>. QED  BY <1>2, <2>1, <2>2, <2>3, <2>4, <2>5 DEF MainStep
<1>3. ASSUME NEW c \in Client, ClientFails(c) PROVE DoneInv'
  <2>1. \A o \in Node : (AtDone(o)' <=> AtDone(o)) /\ (main'[o] = "returned" => main[o] = "returned")
    BY <1>0, <1>3 DEF ClientFails, MainGoto, AtDone, TypeOK
  <2>2. UNCHANGED <<pc, doneCount>>
    BY <1>3 DEF ClientFails, mining
  <2>. QED  BY <2>1, <2>2, KeepDone
<1>4. CASE UNCHANGED vars
  BY <1>4, KeepDone DEF vars, AtDone
<1>. QED  BY <1>1, <1>2, <1>3, <1>4 DEF Next

-----------------------------------------------------------------------------
(* Theorems. *)

\* The inductive invariant: what each counter means, and what follows from a full one.
THEOREM Inductive == Spec => []IInv
<1>1. Init => IInv
  BY InitType, InitRound, InitStop, InitDone DEF IInv
<1>2. IInv /\ [Next]_vars => IInv'
  BY NextType, NextRound, NextStop, NextDone DEF IInv
<1>. QED  BY <1>1, <1>2, PTL DEF Spec

\* However many miners there are and however their rounds interleave with the stop
\* signal, no miner is ever more than one block ahead of another.
THEOREM LockstepHolds == Spec => []Lockstep
<1>1. IInv => Lockstep
  <2>. SUFFICES ASSUME IInv, NEW m \in Miner, NEW n \in Miner PROVE round[m] <= round[n] + 1
    BY DEF Lockstep
  <2>1. round[m] \in 0 .. MaxRound /\ round[n] \in 0 .. MaxRound
    BY DEF IInv, TypeInv, TypeOK
  <2>2. CASE round[m] = 0
    BY <2>1, <2>2
  <2>3. CASE round[m] # 0
    <3>1. round[m] - 1 \in 0 .. MaxRound /\ Passed(m, round[m] - 1)
      BY <2>1, <2>3, BoundsAssumption DEF Passed
    <3>2. Signalled(n, round[m] - 1)
      BY <3>1 DEF IInv, RoundInv, RoundsPassed
    <3>. QED  BY <2>1, <3>2 DEF Signalled
  <2>. QED  BY <2>2, <2>3
<1>. QED  BY <1>1, Inductive, PTL

\* A block of round i is attempted only when every miner has entered "mine-block-i".
THEOREM RoundTogetherHolds == Spec => []RoundTogether
<1>1. IInv => RoundTogether
  <2>. SUFFICES ASSUME IInv, NEW m \in Miner, NEW n \in Miner, pc[m] = "mine"
                PROVE  \/ round[n] > round[m]
                       \/ round[n] = round[m] /\ pc[n] \notin {"check", "signal", "last"}
    BY DEF RoundTogether
  <2>1. round[m] \in 0 .. MaxRound /\ round[n] \in 0 .. MaxRound
    BY DEF IInv, TypeInv, TypeOK
  <2>2. Signalled(n, round[m])
    BY <2>1 DEF IInv, RoundInv, RoundsPassed, Passed
  <2>. QED  BY <2>1, <2>2 DEF Signalled
<1>. QED  BY <1>1, Inductive, PTL

\* No miner leaves the mining loop while a client has not asked for it.
THEOREM MiningOutlivesClientsHolds == Spec => []MiningOutlivesClients
<1>1. IInv => MiningOutlivesClients
  BY DEF IInv, StopInv, Stopped, MiningOutlivesClients
<1>. QED  BY <1>1, Inductive, PTL

\* When one instance returns, all have finished and all mining has stopped.
THEOREM DoneMeansAllDoneHolds == Spec => []DoneMeansAllDone
<1>1. IInv => DoneMeansAllDone
  BY DEF IInv, DoneInv, AtDone, DoneMeansAllDone, Node
<1>. QED  BY <1>1, Inductive, PTL

-----------------------------------------------------------------------------
(* Refinement. *)

LEMMA InitRounds == Init => Barriers!Init
BY DEF Init, Barriers!Init, roundsEntered, roundsPassed

\* What happens to one miner's two numbers, as long as the others keep theirs.
LEMMA OneMiner ==
    ASSUME TypeOK, TypeOK', NEW m \in Miner,
           \A n \in Miner \ {m} : pc'[n] = pc[n] /\ round'[n] = round[n]
    PROVE  /\ roundsEntered' = [roundsEntered EXCEPT ![m] = roundsEntered'[m]]
           /\ roundsPassed' = [roundsPassed EXCEPT ![m] = roundsPassed'[m]]
BY DEF roundsEntered, roundsPassed

\* Every step of a mining goroutine enters a round, gets through one, or neither.
LEMMA MiningRefines ==
    ASSUME IInv, TypeOK', NEW m \in Miner, MiningStep(m)
    PROVE  [Barriers!Next]_(Barriers!vars)
<1>a. TypeOK
  BY DEF IInv, TypeInv
<1>0. TypeOK /\ \A n \in Miner : round[n] \in 0 .. MaxRound
  BY <1>a DEF TypeOK
<1>1. \A n \in Miner \ {m} : pc'[n] = pc[n] /\ round'[n] = round[n]
  BY <1>0 DEF MiningStep, CheckFlag, SignalRound, PassRound, MineBlock, MineError, MineFails,
              SignalLast, Goto, TypeOK
<1>2. /\ roundsEntered' = [roundsEntered EXCEPT ![m] = roundsEntered'[m]]
      /\ roundsPassed' = [roundsPassed EXCEPT ![m] = roundsPassed'[m]]
  BY <1>0, <1>1, OneMiner
<1>3. pc[m] # "exited" => Synchronized
  BY DEF IInv, RoundInv, NaturalIdle
<1>4. CASE SignalRound(m) \/ SignalLast(m)
  <2>1. /\ roundsEntered[m] = round[m] /\ roundsPassed[m] = round[m]
        /\ roundsEntered'[m] = round[m] + 1 /\ roundsPassed'[m] = round[m]
    BY <1>0, <1>3, <1>4 DEF SignalRound, SignalLast, Goto, roundsEntered, roundsPassed, TypeOK
  <2>2. Barriers!Enter(m)
    <3>1. UNCHANGED roundsPassed
      BY <1>2, <2>1, ZenonT(60) DEF roundsPassed
    <3>. QED  BY <1>2, <2>1, <3>1 DEF Barriers!Enter
  <2>. QED  BY <2>2 DEF Barriers!Next
<1>5. CASE PassRound(m)
  <2>1. /\ roundsEntered[m] = round[m] + 1 /\ roundsPassed[m] = round[m]
        /\ roundsEntered'[m] = round[m] + 1 /\ roundsPassed'[m] = round[m] + 1
    BY <1>0, <1>3, <1>5 DEF PassRound, Goto, roundsEntered, roundsPassed, TypeOK
  <2>2. \A n \in Miner : Signalled(n, round[m])
    <3>. DEFINE T == {n \in Miner : Signalled(n, round[m])}
    <3>1. Cardinality(T) >= Cardinality(Miner)
      BY <1>0, <1>5 DEF PassRound, IInv, RoundInv, RoundCounts, TypeOK
    <3>2. T \in SUBSET Miner  OBVIOUS
    <3>3. T = Miner
      <4>. HIDE DEF T
      <4>. QED  BY <3>1, <3>2, NodesAssumption, FullCount
    <3>. QED  BY <3>3
  <2>3. ASSUME NEW n \in Miner PROVE roundsEntered[n] >= roundsEntered[m]
    <3>1. round[n] \in Nat /\ round[m] \in Nat
      BY <1>0 DEF TypeOK
    <3>2. Signalled(n, round[m])
      BY <2>2
    <3>3. roundsEntered[n] = IF pc[n] \in {"wait", "mine", "panicked", "exited"}
                             THEN round[n] + 1 ELSE round[n]
      BY <3>2 DEF Signalled, roundsEntered
    <3>. QED  BY <2>1, <3>1, <3>2, <3>3 DEF Signalled
  <2>4. UNCHANGED roundsEntered
    BY <1>2, <2>1, ZenonT(60) DEF roundsEntered
  <2>5. roundsPassed[m] < roundsEntered[m]
    BY <1>0, <2>1
  <2>6. Barriers!Pass(m)
    BY <1>2, <2>1, <2>3, <2>4, <2>5 DEF Barriers!Pass
  <2>. QED  BY <2>6 DEF Barriers!Next
<1>6. CASE CheckFlag(m) \/ MineBlock(m) \/ MineError(m) \/ MineFails(m)
  <2>1. roundsEntered'[m] = roundsEntered[m] /\ roundsPassed'[m] = roundsPassed[m]
    BY <1>0, <1>3, <1>6 DEF CheckFlag, MineBlock, MineError, MineFails, Goto,
                            roundsEntered, roundsPassed, TypeOK
  <2>2. UNCHANGED roundsEntered
    BY <1>2, <2>1 DEF roundsEntered
  <2>3. UNCHANGED roundsPassed
    BY <1>2, <2>1 DEF roundsPassed
  <2>. QED  BY <2>2, <2>3 DEF Barriers!vars
<1>. QED  BY <1>4, <1>5, <1>6 DEF MiningStep

\* The miners implement the abstract rounds: whatever the clients, the flag and the
\* failures do, nobody mines the block of a round before all have entered it.
THEOREM RefinesRounds == Spec => ImplementsRounds
<1>1. Init => Barriers!Init
  BY InitRounds
<1>2. IInv /\ IInv' /\ [Next]_vars => [Barriers!Next]_(Barriers!vars)
  <2>. SUFFICES ASSUME IInv, IInv', [Next]_vars PROVE [Barriers!Next]_(Barriers!vars)
    OBVIOUS
  <2>0. TypeOK'
    BY DEF IInv, TypeInv
  <2>1. ASSUME NEW m \in Miner, MiningStep(m) PROVE [Barriers!Next]_(Barriers!vars)
    BY <2>0, <2>1, MiningRefines
  <2>2. CASE UNCHANGED <<pc, round>>
    BY <2>2 DEF Barriers!vars, roundsEntered, roundsPassed
  <2>3. ASSUME NEW n \in Node, MainStep(n) PROVE UNCHANGED <<pc, round>>
    BY <2>3 DEF MainStep, StopMining, MinerDone, ClientStops, ClientDone, WaiterDone, Return, mining
  <2>4. ASSUME NEW c \in Client, ClientFails(c) PROVE UNCHANGED <<pc, round>>
    BY <2>4 DEF ClientFails, mining
  <2>. QED  BY <2>1, <2>2, <2>3, <2>4 DEF Next, vars
<1>. QED  BY <1>1, <1>2, Inductive, PTL DEF Spec, ImplementsRounds, Barriers!Spec

=============================================================================
