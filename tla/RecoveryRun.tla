----------------------------- MODULE RecoveryRun -----------------------------
(***************************************************************************)
(* The test of recovery from failed windowed PoSts (lotus-soup/rfwp), from *)
(* where all instances are prepared.  Two miners are shut down, one for    *)
(* good and one for a while, and announce it in the topic "slashed_miner". *)
(* The other miners read the announcements and watch, each in its own      *)
(* record of the chain state, for the penalties of both; a client whose    *)
(* retrieval goes wrong aborts the test through the state "abort-test".    *)
(*                                                                         *)
(* The chain, and what it takes from a miner, is external.  Sleeping takes *)
(* no time here: how long a miner is down is left open.                    *)
(***************************************************************************)
EXTENDS Naturals, FiniteSets, Sequences

CONSTANTS
    Miner,          \* role "miner"
    Slashed,        \* roles "miner-full-slash" and "miner-partial-slash"
    FullSlash,      \* the sets of them that may have role "miner-full-slash"
    Client,         \* role "client"
    Waiter,         \* role "bootstrapper": only waits for "done"
    ToBeSlashed,    \* minersToBeSlashed (2 in the code)
    MinLosses       \* negative differences that make a slashing (3 in the code)

Node == Miner \cup Slashed \cup Client \cup Waiter
TestInstanceCount == Cardinality(Node)

ASSUME RolesAssumption ==
    /\ IsFiniteSet(Node)
    /\ Cardinality(Node) = Cardinality(Miner) + Cardinality(Slashed)
           + Cardinality(Client) + Cardinality(Waiter)

ASSUME CompositionsAssumption == FullSlash \subseteq SUBSET Slashed

ASSUME NumbersAssumption == ToBeSlashed \in Nat \ {0} /\ MinLosses \in Nat \ {0}

VARIABLES
    full,       \* the composition: the slashed miners with role "miner-full-slash"
    pc,         \* pc[n]: where the main goroutine of n is
    slashed,    \* topic "slashed_miner"
    read,       \* read[m]: announcements m has taken
    watch,      \* watch[m][s]: m's goroutine for s: "none", "watching", "seen", "gaveUp"
    recorder,   \* recorder[m]: UpdateChainState of m is still running
    offline,    \* the miners that are down
    losses,     \* losses[s]: different negative changes of s's locked funds on the chain
    recorded,   \* recorded[m][s]: how many of them are in m's chain state
    abort,      \* the counter of "abort-test"
    done        \* the counter of "done"

moving == <<pc, slashed, read, watch, recorder, offline, losses, recorded, abort, done>>
vars == <<full, moving>>
miners == <<read, watch, recorder, recorded>>

FirstStep(n) ==
    CASE n \in Miner   -> "collect"
      [] n \in Slashed -> "run"
      [] n \in Client  -> "deal"
      [] n \in Waiter  -> "enter"

PartialSlash == Slashed \ full

Init ==
    /\ full \in FullSlash
    /\ pc = [n \in Node |-> FirstStep(n)]
    /\ slashed = <<>>
    /\ read = [m \in Miner |-> 0]
    /\ watch = [m \in Miner |-> [s \in Slashed |-> "none"]]
    /\ recorder = [m \in Miner |-> TRUE]
    /\ offline = {}
    /\ losses = [s \in Slashed |-> 0]
    /\ recorded = [m \in Miner |-> [s \in Slashed |-> 0]]
    /\ abort = 0 /\ done = 0

Goto(n, from, to) ==
    /\ pc[n] = from
    /\ pc' = [pc EXCEPT ![n] = to]

-----------------------------------------------------------------------------
(* The chain, and the goroutine of each miner that records it. *)

\* The locked funds of a miner shrink by an amount not seen before.  They may at any
\* time, and will again as long as the miner is down.  MinLosses bounds their number:
\* nobody looks for more.
Penalise(s) ==
    /\ losses[s] < MinLosses
    /\ losses' = [losses EXCEPT ![s] = @ + 1]
    /\ UNCHANGED <<pc, slashed, miners, offline, abort, done>>

\* UpdateChainState goes through one more tipset and records it for all miners.
Record(m) ==
    /\ recorder[m] /\ recorded[m] # losses
    /\ recorded' = [recorded EXCEPT ![m] = losses]
    /\ UNCHANGED <<pc, slashed, read, watch, recorder, offline, losses, abort, done>>

\* A query reports an error, after some miners of the tipset have been recorded:
\* UpdateChainState returns, which nobody notices.
RecorderFails(m) ==
    /\ recorder[m]
    /\ recorder' = [recorder EXCEPT ![m] = FALSE]
    /\ \E D \in SUBSET Slashed :
        recorded' = [recorded EXCEPT ![m] =
                        [s \in Slashed |-> IF s \in D THEN losses[s] ELSE recorded[m][s]]]
    /\ UNCHANGED <<pc, slashed, read, watch, offline, losses, abort, done>>

\* printDiff cannot make its file: the recorder panics, which ends the whole process,
\* wherever the main goroutine is.  One that stands at the barrier has entered it.
RecorderPanics(m) ==
    /\ recorder[m] /\ pc[m] \in {"collect", "watch", "enter", "doneWait"}
    /\ recorder' = [recorder EXCEPT ![m] = FALSE]
    /\ pc' = [pc EXCEPT ![m] = IF @ = "doneWait" THEN "crashed" ELSE "failed"]
    /\ UNCHANGED <<slashed, read, watch, offline, losses, recorded, abort, done>>

-----------------------------------------------------------------------------
(* A miner that watches. *)

\* Faulty variant: the loop runs once too often.
ReadSlashed_OneMore(m) ==
    /\ pc[m] = "collect" /\ read[m] < Len(slashed)
    /\ read' = [read EXCEPT ![m] = @ + 1]
    /\ watch' = [watch EXCEPT ![m][slashed[read[m] + 1]] = "watching"]
    /\ pc' = [pc EXCEPT ![m] = IF read[m] + 1 <= ToBeSlashed THEN "collect" ELSE "watch"]
    /\ UNCHANGED <<slashed, recorder, offline, losses, recorded, abort, done>>

\* One turn of the loop: take an announcement, start the goroutine that waits for it.
ReadSlashed(m) ==
    /\ pc[m] = "collect" /\ read[m] < Len(slashed)
    /\ read' = [read EXCEPT ![m] = @ + 1]
    /\ watch' = [watch EXCEPT ![m][slashed[read[m] + 1]] = "watching"]
    /\ pc' = [pc EXCEPT ![m] = IF read[m] + 1 < ToBeSlashed THEN "collect" ELSE "watch"]
    /\ UNCHANGED <<slashed, recorder, offline, losses, recorded, abort, done>>

\* waitForSlash finds enough losses in the record; or the goroutine sees the abort.
WatchStep(m, s) ==
    /\ pc[m] \in {"collect", "watch"} /\ watch[m][s] = "watching"
    /\ \/ recorded[m][s] >= MinLosses /\ watch' = [watch EXCEPT ![m][s] = "seen"]
       \/ abort >= 1 /\ watch' = [watch EXCEPT ![m][s] = "gaveUp"]
    /\ UNCHANGED <<pc, slashed, read, recorder, offline, losses, recorded, abort, done>>

Watched(m) == {s \in Slashed : watch[m][s] # "none"}

\* Faulty variant: the first goroutine to end ends the wait.
AllSeen_Any(m) ==
    /\ \E s \in Watched(m) : watch[m][s] = "seen"
    /\ Goto(m, "watch", "enter")
    /\ UNCHANGED <<slashed, miners, offline, losses, abort, done>>

\* eg.Wait reports no error: all goroutines have seen what they waited for.
AllSeen(m) ==
    /\ \A s \in Watched(m) : watch[m][s] = "seen"
    /\ Goto(m, "watch", "enter")
    /\ UNCHANGED <<slashed, miners, offline, losses, abort, done>>

\* Faulty variant: the abort is looked at only after the announcements.
SeeAbort_OnlyWatching(m) ==
    /\ abort >= 1
    /\ Goto(m, "watch", "failed")
    /\ UNCHANGED <<slashed, miners, offline, losses, abort, done>>

\* Both selects of the main goroutine look at the abort: return an error.
SeeAbort(m) ==
    /\ abort >= 1
    /\ pc[m] \in {"collect", "watch"}
    /\ pc' = [pc EXCEPT ![m] = "failed"]
    /\ UNCHANGED <<slashed, miners, offline, losses, abort, done>>

-----------------------------------------------------------------------------
(* The miners that are slashed. *)

\* StopFn; its error is only logged.
StopMiner(s) ==
    /\ Goto(s, "run", "publish")
    /\ offline' = offline \cup {s}
    /\ UNCHANGED <<slashed, miners, losses, abort, done>>

\* Faulty variant: nothing is published.
PublishSlashed_Silent(s) ==
    /\ Goto(s, "publish", IF s \in full THEN "enter" ELSE "outage")
    /\ UNCHANGED <<slashed, miners, offline, losses, abort, done>>

\* The fully slashed miner goes on to "done", the other one waits.
PublishSlashed(s) ==
    /\ Goto(s, "publish", IF s \in full THEN "enter" ELSE "outage")
    /\ slashed' = Append(slashed, s)
    /\ UNCHANGED <<miners, offline, losses, abort, done>>

\* RestoreMiner.
Restore(s) ==
    /\ Goto(s, "outage", "restored")
    /\ offline' = offline \ {s}
    /\ UNCHANGED <<slashed, miners, losses, abort, done>>

\* The restored miner runs for an hour and returns, which takes its node down again; it
\* does not enter "done".
RestoredReturns(s) ==
    /\ Goto(s, "restored", "returned")
    /\ offline' = offline \cup {s}
    /\ UNCHANGED <<slashed, miners, losses, abort, done>>

-----------------------------------------------------------------------------
(* A client. *)

\* The deal is sealed.
DealSealed(c) ==
    /\ Goto(c, "deal", "retrieve")
    /\ UNCHANGED <<slashed, miners, offline, losses, abort, done>>

\* The data is retrieved, or the deal is of zero bytes because its miner was slashed.
Retrieved(c) ==
    /\ Goto(c, "retrieve", "enter")
    /\ UNCHANGED <<slashed, miners, offline, losses, abort, done>>

\* Any other error: abort the test, and return as if nothing had happened.
AbortTest(c) ==
    /\ Goto(c, "retrieve", "returned")
    /\ abort' = abort + 1
    /\ UNCHANGED <<slashed, miners, offline, losses, done>>

-----------------------------------------------------------------------------
(* All. *)

\* MustSignalAndWait(StateDone): enter, and wait for all instances.
EnterDone(n) ==
    /\ Goto(n, "enter", "doneWait")
    /\ done' = done + 1
    /\ UNCHANGED <<slashed, miners, offline, losses, abort>>

\* Faulty variant: the miner that is expected not to enter is not waited for.
PassDone_OneLess(n) ==
    /\ done >= TestInstanceCount - 1
    /\ Goto(n, "doneWait", "returned")
    /\ UNCHANGED <<slashed, miners, offline, losses, abort, done>>

PassDone(n) ==
    /\ done >= TestInstanceCount
    /\ Goto(n, "doneWait", "returned")
    /\ UNCHANGED <<slashed, miners, offline, losses, abort, done>>

\* An instance returns an error or panics: a node does not answer, the
\* subscription of a watching miner ends, a deal fails, a miner cannot be restored.  A
\* slashed miner's node goes down with it.
Fail(n) ==
    /\ pc[n] \in {"collect", "run", "outage", "restored", "deal", "retrieve"}
    /\ pc' = [pc EXCEPT ![n] = "failed"]
    /\ offline' = IF n \in Slashed THEN offline \cup {n} ELSE offline
    /\ UNCHANGED <<slashed, miners, losses, abort, done>>

MinerStep(m) == ReadSlashed(m) \/ AllSeen(m) \/ SeeAbort(m)

SlashedStep(s) ==
    \/ StopMiner(s) \/ PublishSlashed(s)
    \/ s \in PartialSlash /\ (Restore(s) \/ RestoredReturns(s))

ClientStep(c) == DealSealed(c) \/ Retrieved(c) \/ AbortTest(c)

Step(n) ==
    \/ n \in Miner /\ MinerStep(n)
    \/ n \in Slashed /\ SlashedStep(n)
    \/ n \in Client /\ ClientStep(n)
    \/ EnterDone(n) \/ PassDone(n)

Next ==
    /\ \/ \E n \in Node : Step(n) \/ Fail(n)
       \/ \E m \in Miner, s \in Slashed : WatchStep(m, s)
       \/ \E m \in Miner : Record(m) \/ RecorderFails(m) \/ RecorderPanics(m)
       \/ \E s \in Slashed : Penalise(s)
    /\ UNCHANGED full

Spec == Init /\ [][Next]_vars

\* Every goroutine goes on as long as it can, and the chain keeps taking from a miner
\* that stays down.
FairSpec ==
    /\ Spec
    /\ \A n \in Node : WF_moving(Step(n))
    /\ \A m \in Miner : WF_moving(Record(m)) /\ \A s \in Slashed : WF_moving(WatchStep(m, s))
    /\ \A s \in Slashed : WF_moving(s \in offline /\ Penalise(s))

-----------------------------------------------------------------------------
(* Properties *)

\* All variables keep their types; no state is entered more often than there are
\* instances to enter it.
TypeOK ==
    /\ full \in FullSlash
    /\ pc \in [Node -> {"collect", "watch", "run", "publish", "outage", "restored", "deal",
                        "retrieve", "enter", "doneWait", "returned", "crashed", "failed"}]
    /\ slashed \in Seq(Slashed) /\ Len(slashed) <= Cardinality(Slashed)
    /\ read \in [Miner -> 0..ToBeSlashed]
    /\ watch \in [Miner -> [Slashed -> {"none", "watching", "seen", "gaveUp"}]]
    /\ recorder \in [Miner -> BOOLEAN]
    /\ offline \subseteq Slashed
    /\ losses \in [Slashed -> 0..MinLosses]
    /\ recorded \in [Miner -> [Slashed -> 0..MinLosses]]
    /\ abort \in 0..Cardinality(Client)
    /\ done \in 0..TestInstanceCount

Announced == {slashed[i] : i \in 1..Len(slashed)}

\* What the test is for (handleMiner): a miner reports success only when as many miners as
\* should be slashed have announced that they shut down and have lost funds often enough.
\* (The variables have their types.)
SuccessMeansSlashed ==
    /\ TypeOK
    /\ \A m \in Miner : pc[m] \in {"enter", "doneWait", "returned"} =>
           Cardinality({s \in Announced : losses[s] >= MinLosses}) >= ToBeSlashed

\* An instance comes back from the barrier "done" only if everybody got there: no test
\* that a client aborted, or in which an instance failed on its way, is left through the
\* barrier.  (One that has entered may crash there, which the others do not see.)
DoneMeansAllDone ==
    \A n \in Miner \cup full \cup Waiter : pc[n] = "returned" =>
        /\ abort = 0
        /\ \A k \in Node : pc[k] \in {"doneWait", "returned", "crashed"}

\* The abort is seen by a miner wherever it waits for the slashing (both selects).
AbortReachesMiners ==
    \A m \in Miner :
        (abort >= 1 /\ pc[m] \in {"collect", "watch"}) ~> (pc[m] \notin {"collect", "watch"})

\* s ended without an announcement.
NeverAnnounced(s) == pc[s] = "failed" /\ s \notin Announced

\* Nobody hangs but in the barrier, however the outage of a miner and the chain go, unless
\* a miner's recorder of the chain state has ended or an announcement is missing.
OnlyBarrierHangs ==
    \A n \in Node : []<>
        \/ pc[n] \in {"doneWait", "returned", "crashed", "failed"}
        \/ n \in Miner /\ (~recorder[n] \/ \E s \in Slashed : NeverAnnounced(s))

\* Where no miner is to be restored, all instances return, unless one of them failed, a
\* client aborted or a recorder ended.
Completes ==
    full = Slashed =>
    <>(\/ \A n \in Node : pc[n] = "returned"
       \/ abort >= 1
       \/ \E n \in Node : pc[n] = "failed"
       \/ \E m \in Miner : ~recorder[m])

=============================================================================
