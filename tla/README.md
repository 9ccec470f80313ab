# A TLA+ model of the oni test plans

oni is a collection of Testground test plans for Lotus, a Filecoin node. A test
plan is a distributed program of its own: some tens of processes ("instances"),
each with a role, that bring up a private Filecoin network, use it, and have to
agree on when to begin, when to go on and when to stop. They share nothing but
the *sync service* of Testground:

* a **topic** is a sequence of messages; every subscriber gets all of them from
  the first one on, in the same order;
* a **state** is a counter; entering it adds one and returns the new value, and
  a *barrier* on it opens when the counter has reached a target.

What can go wrong is hardly reachable by a test, because the program *is* the
test: a barrier with the wrong target, a message counted for the wrong sender, a
role that ends early and leaves the others waiting. The modules here model these
protocols and check them on small instances with TLC. All safety invariants that hold
and all four refinements are also proved with TLAPS, for any number of instances.

## 1. Inventory

| component | state it keeps | operations | interacts through | hard behaviour | correct when |
|---|---|---|---|---|---|
| **Preparation** (`testkit/role_*.go`, `node.go`, `sync.go`) | topics `balance`, `preseal`, `genesis`, `miners_addrs`, `pubsub_tracer`, `drand_config`; states `miner-pick-seq-num`, `ready`; connections | `Prepare*` of each role, `WaitForBalances`, `CollectPreseals`, `WaitForGenesis` | topics, barriers, `NetConnect` | every role waits for others; dropped errors of `Publish`; timeouts | genesis funds everybody and names the miners in order; the network is connected after `ready`; the waits form no circle |
| **Synchronised mining and the end of a test** (`role_miner.go` `RunDefault`, `testenv.go`) | round number, retries and the shared flag `mine` of each miner; states `mine-block-i`, `stop-mining`, `done` | mining goroutine, main goroutine; clients stop the miners | barriers; an unsynchronised flag | two goroutines per miner, rounds overlapping the stop; panics | miners stay in lockstep; mining outlives the clients; `done` means all done |
| **Drand halting** (`statemachine/*`, `role_drand.go` `Halt`/`Resume`) | event list, state of the machine, daemon | `RunEvents`, `SendEvent`, `Halt`, `Resume` | actions (callbacks), the beacon chain | a resumed node depends on its peers | the calls are those the list asks for; the group recovers |
| **Drand preparation** (`PrepareDrandInstance`, `net.go`) | daemon, key share, first round; topics `drand-addrs`, `drand-gossip-addrs`, `drand_config`; states `latency-configured-<group>`, `drand-start`, `drand-dkg-start` | address exchange, DKG, gossip relays, configuration | topics, barriers, the sidecar, the beacon | followers call the leader after a sleep only; nodes fail during the DKG | the configuration is usable; the phases are in step; losses down to the threshold are survived |
| **Graphsync stress** (`graphsync/main.go`) | round, topics `peers`, `cid-i`; states `next-i`, `network-configured-i`, `done`; store, network shape | `runProvider`, `runRequestor` | topics, barriers, sidecar | network and store change under the requestors | a measurement is about its round |
| **Payment channel stress** (`paych/stress.go`) | channel, remaining balance, topics `voucher`, `settle`, five states | `runSender`, `runReceiver` | topics, barriers, Lotus payment channels | vouchers of many senders in one topic | all vouchers added before settling; the accounting agrees |
| **Recovery from failed windowed PoSt** (`rfwp/e2e.go`) | topic `slashed_miner`, states `abort-test`, `done`, one chain record per miner | four roles, `waitForSlash`, `UpdateChainState` | topic, barriers, goroutines sharing a record | abort racing success; a recorder that dies unnoticed | success means both miners were slashed; nobody hangs but in the barrier |
| **Chain state and diffs** (`rfwp/chain_state.go`, `diffs.go`, `waitForSlash`) | `cs.PrevHeight`, `DiffHeight`, `DiffValue`, `DiffCmp` | the tipset loop, `info`, `recordDiff`, the tick of `waitForSlash` | a mutex; queries to the node | the head moves between the queries of one tipset; a query fails half way; null rounds | the indexes agree; reported losses were seen; recorded losses are reported |
| **Deals** (`deals_e2e.go`, `deals_stress.go`, `testkit/deals.go`, `retrieval.go`) | the state of each deal, state `done-sealing` | payment channel, start, wait for sealing, retrieve, stop the miners | Lotus client API, barriers, goroutines | concurrent deals; a deal that nobody watches any more; needing blocks that others may stop | retrieved only when sealed; blocks are made as long as a deal needs them |
| **Batch runner** (`runner/main.go`) | channels of jobs and results, output directories | workers, `runComposition`, `main` | channels | a run that cannot be started has no number; no workers | every run is done once and accounted for |
| **Parameter ranges** (`testenv_ranges.go`) | - | `UnmarshalJSON`, `ChooseRandom` | - | a range of one point | a choice lies in its range |
| **Composer, dashboards, images, compositions** | - | user interface, configuration | - | - | not modelled |

`PROJECT.json` has the same list with the status of each, and, under `hazards`,
every place of the code where something may go wrong that a test would hardly
reach. A hazard names the properties that would show it going wrong. Where the code
does hang, or goes on when it should not, after a failure, a liveness property that
holds can only make an exception for it; the hazard's note says so, and the property is
not named there for that part.

## 2. Modules

A module models one protocol; there is one action per step between two visible
effects, for a given instance `n`. `pc[n]` is where the instance (or goroutine)
is in its function. A `MustSignalAndWait` is two actions, the signal and the
passing of the barrier, because others may act in between. An operator named
`X_Something` is a *faulty variant* of `X`: a plausible bug, used by no
specification, which shows that a property can fail. The `MC*` modules
only declare the model values and symmetries of the runs.

### `SyncMining` - the mining loop and the end of a test

`LotusMiner.RunDefault` starts a mining goroutine (`CheckFlag`, `SignalRound`,
`PassRound`, `MineBlock`, `MineError`, `MineFails`, `SignalLast`) and goes on in
its main goroutine (`StopMining`, `MinerDone`, `Return`). `mine[m]` is the Go
variable `mine`: written by one goroutine and read by the other with nothing in
between, so that a read is an action of its own that may see either value. (The
race detector would call this a data race; a bool is one word, and the outcomes
are the old and the new value.) A client is one step: it asks
the miners to stop, or fails before it has. `Waiter` stands for the roles that
only wait for `done`.

### `Prepare` - from processes to a network

All `Prepare*` functions of the default roles, with all topics. A lost message
is one whose `Publish` failed (the code drops the error). `Fail` is any error,
and the expiry of `PrepareNodeTimeout`: it stands for all error returns of all
`Prepare*` functions, of which `PROJECT.json` names the first ones of `PrepareMiner`. After the genesis block each node starts
in one step. The drand group is one step per node here (`RunDrand`), see
`DrandGroup`.

### `DrandGroup` - how the drand group comes up

`PrepareDrandInstance` in fifteen phases per node, among the roles of `Prepare`
that wait for the outcome: the callback barrier of the sidecar
(`ApplyNetworkParameters`), the exchange of addresses, the two barriers with the
start of the daemon in between, the DKG under the leader, the first round of the
beacon, the relays, the configuration. drand itself is two conditions: a DKG
needs the keys of all nodes and `Threshold` of them still there at its end, a
round needs `Threshold` nodes with a share.

### `DealsRun` - the clients of the deals tests

The client of `deals-e2e` (with and without a payment channel) and of
`deals-stress` (concurrent and serial) from its first step to `done`, among the
miners of `SyncMining`. `deal[c][d]` is where deal `d` of client `c` is, as the
chain has it and as `WaitDealSealed` has seen it. Whatever needs a block is
guarded by `BlocksAreMade`: some miner is still in its loop.

### `ChainDiffs` - the record of the chain in a watching miner

`UpdateChainState`, `recordDiff` and `waitForSlash` with their mutex. `chain` and
`heads` are what the Lotus node sees: tipsets with null rounds in between, and a
head that may be replaced. `DiffHeight`, `DiffValue` and `DiffCmp` are the maps
of the same names, one function from types to maps per miner. `info` and
`provingInfo` are steps of their own, because both read the head whatever height
they are given, and the head may move in between.

### `BatchRunner` - many runs of one composition

`main` and its workers around the two channels. `outputs[j]` is what run `j`
leaves on the disk, against which the results that `main` has seen are checked.

### `GraphsyncStress`, `PaychStress`, `DrandHalt`, `RecoveryRun`

One module per test: `GraphsyncStress` has the provider and the requestors, the
rounds over all pairs of network parameters and the deferred calls at the end;
`PaychStress` has senders and receiver and counts amounts in increments;
`DrandHalt` has the parsed list of events, the state machine, the daemon and the
chain that runs while enough daemons are up; `RecoveryRun` has all roles of the
windowed PoSt test, and how far the record of the chain in each watching miner has
got; how the record is made is in `ChainDiffs`. The recorder may end unnoticed
(`RecorderFails`) or panic, which takes the whole process with it (`RecorderPanics`),
also when its main goroutine is at the barrier already (`"crashed"`).

### `Rounds` - the abstract barrier

A fixed set of parties, each of which enters a round and then passes it when all
have entered. This is all that the miners of `SyncMining` (one state per block)
and the instances of `GraphsyncStress` (`next-i`) may rely on.

### How they fit together

| abstract | detailed | mapping | checked as |
|---|---|---|---|
| `Rounds` | `SyncMining` | a miner has entered the rounds up to its own, and passed them unless it stands at the barrier; the last signal is a round entered and not passed | `ImplementsRounds`; proved (`RefinesRounds`) |
| `Rounds` | `GraphsyncStress` | provider and requestors likewise over `next-i` | `ImplementsRounds`; proved (`RefinesRounds`) |
| `Prepare` | `DrandGroup` | all phases before `ready` are Prepare's `"dkg"` | `ImplementsPrepare`; proved (`RefinesPrepare`) |
| `SyncMining` | `DealsRun` | all phases of a client before the stop are SyncMining's `"run"` | `ImplementsMining`; proved (`DealsRefineMining`) |

So what is proved about `SyncMining` holds of the deals tests as well: `DealsRun`
adds what the client does, and shows that to the miners it is the client they
expect. In the same way what is proved about `Prepare` holds of a preparation with
the whole of `DrandGroup` in it (`RolesServed`).

`Prepare` ends where `SyncMining`, `DealsRun`, `PaychStress`, `DrandHalt` and
`RecoveryRun` begin (every instance past `ready`): each of these takes that as its
initial state. `SyncMining` is the part that `deals-e2e`, `deals-stress`,
`drand-halting`, `drand-outage` and `paych-stress` have in common on the miners'
side. `RecoveryRun` takes from `ChainDiffs` that a loss which is recorded is
noticed (`SlashIsSeen`) and that none is noticed without cause
(`LossesWereSeen`, which is proved). `GraphsyncStress` and `BatchRunner` are programs of their own.

## 3. Runs

"Violation" runs state what a comment of the code says and find it wrong. Each
module has a type invariant; where a run does not list `TypeOK`, it is the first
conjunct of the module's main invariant.

| run | instance | what it shows |
|---|---|---|
| `Prepare_roles` | bootstrapper, 2 miners, client, tracer, local drand node; failures and lost messages | `GenesisComplete`: a genesis block funds each account once, and its i-th place belongs to the miner that presealed for the i-th address, in whatever order preseals arrive. `AddrsThereAfterReady`: past `ready` all addresses are there. `DenselyConnected`: all connections are, too, although no two miners dial each other both. `EventuallyPrepared`: the waits form no circle |
| `DrandGroup_config` | 3 nodes, threshold 2, bootstrapper, sidecar; with and without relays; failures | `ConfigUsable`: what the leader publishes names every server and relay once, all of the group, and the beacon has made its first round. `DkgAmongDaemons`: nobody runs the DKG before all daemons were started. `SurvivesLosses`: with all keys in, the configuration comes although followers die. `ImplementsPrepare`, `EventuallyPrepared` |
| `SyncMining_rounds` | 2 miners, 2 clients, waiter; failures and panics | `Lockstep`: no miner is two blocks ahead. `RoundTogether`: a block is attempted only when all have come to the round. `MiningOutlivesClients`. `DoneMeansAllDone`: success is everybody's success. `ImplementsRounds`. `WaitEndsUnlessPeerLeft`: a wait for a round ends unless a peer left the loop in an earlier round. `Termination`: with the same exception the whole test ends |
| `SyncMining_stuck` | 2 miners, 1 client | **violation** of `NoMinerLeftStuck`: the exception happens |
| `DealsRun_tests` | miner, 2 clients, 2 deals each in the stress test; e2e with payment channel, concurrent, serial | `RetrieveAfterSealed`: no retrieval while a deal that counts is open, across the clients in e2e. `ImplementsMining`: to the miners the client is the one they expect, so no client stops the blocks another one needs. `DealsEnd` |
| `GraphsyncStress_rounds` | 3 requestors, 4 rounds, failures | `MeasuresItsRound`: while a requestor measures, network and store are those of its round. `HostsOutliveRequests`; `ImplementsRounds`: nobody begins a round that others have not come to. `Completes` |
| `PaychStress_single` | 1 sender, 2 lanes, 3 vouchers each | `RemainingIsUnspent`: the sender's subtraction, which it only logs, agrees with what its vouchers can redeem. `SettleAfterAllAdded`, `PaychCompletes` |
| `PaychStress_settle` | 2 senders | **violation** of `SettleAfterAllAdded` |
| `DrandHalt_events` | 3 nodes, threshold 2, all lists of up to 4 fields | `CallsAsSpecified`: the daemon gets the calls the list asks for. `DaemonFollowsState`. `GroupRecovers`: nobody needs the timeout to get through when all are resumed in the end |
| `RecoveryRun_slash` | watching miner, two slashed miners of which one or none is restored, client | `SuccessMeansSlashed`, `DoneMeansAllDone`, `AbortReachesMiners`, `OnlyBarrierHangs`; `Completes` where none is restored |
| `ChainDiffs_losses` | 2 miner actors, a rounded and a plain type, 4 heads, null rounds, a replaced head, failing queries | `IndexesAgree`: the three maps tell one story, without gaps. `LossesWereSeen`: a reported slashing goes back to that many losses from head to head, not to rounding. `SlashIsSeen`: recorded losses are reported |
| `BatchRunner_pool` | 0 to 3 runs, 0 to 3 workers | `AllAccounted`: when `main` returns, each run is finished and reported under its number, or it is one of the "job 0". `Completes`: with a worker, `main` returns |

In the drand run a field is `halt`, `resume`, a wait, or a wait without a good
duration; the model also knows empty fields, unknown words and waits of zero,
which are skipped like the others, and other instances may list them.

`CHECK_DEADLOCK FALSE` stands in every configuration: a test ends, and one in
which an instance failed stops where the others wait for it. Where they must not
wait, a liveness property says so.

### Bounds

* *Instances.* Two or three of each role that matters: a barrier can then be one
  short, two peers can be in different positions with respect to a third, and an
  order can be wrong. The proofs of section 5 need no such bound.
* *Rounds* (`MaxRound` in `SyncMining`, the parameters in `GraphsyncStress`).
  A protocol that goes wrong between rounds does so between two neighbouring
  ones; the runs have at least three. The code has no bound in `SyncMining`.
* *Retries* (`MaxRetries`): 100 in the code, two here: one that is retried and
  one that is the last.
* *Fields* (`MaxFields`): four, enough for halt, resume, halt, resume and for
  two others around them.
* *Losses* (`MinLosses` in `RecoveryRun`, `SlashLosses` in `ChainDiffs`): three in the
  code, two here: one that is not enough and one that is. Each further loss is one
  more step of the same kind.
* *Chain* (`MaxHeads`, `MaxHeight`, `headlag`): four heads are three tipsets
  recorded with a lag of one, hence two differences, which is `SlashLosses`; with a
  null round in between heights and positions differ.
* *Deals* (`NDeals`): two per client, one that is late and one that is not. One
  miner is enough there, as the miners' part is checked by refinement.
* *Runs and workers*: three of each, so that there are fewer, as many and more
  runs than workers.
* *Symmetry* is not used: all runs check liveness as well.

### Fairness

`FairSpec` (`PaychFairSpec` and so on) has weak fairness for each instance (or
goroutine): the Go scheduler
runs what can run, and barriers and subscriptions answer when their condition
holds and keep answering. Not fair are failures, lost messages, and the expiry of
a timeout: nothing forces them. Some cases deserve a word. A client's deal ends,
because that is what the network is assumed to do (`SyncMining`); a request to a
peer that has no responder fails (`GraphsyncStress`); and the chain goes on taking
funds from a miner that stays down (`RecoveryRun`), which is what the protocol of
Filecoin says. In `DrandGroup` a follower that does not fail calls the leader after
the leader has begun: the code sleeps for three seconds and takes that to be
enough. A follower that is earlier gets an error from drand, which is `Fail`; so the
guard of `RunDKG` loses no behaviour, but no property says that the sleep is long
enough, either. In `ChainDiffs` nothing makes the chain go on, only the queries about a
tipset end and the ticker ticks; in `BatchRunner` every run of `testground` ends.

## 4. What was found

1. `role_miner.go:573` (`SyncMining_stuck`). The last signal releases those who
   wait in the round that is not mined. A peer that reads its own flag later
   passes that round, finds the flag still set and waits in the next one, where
   nobody comes. The comment above the line promises that none is left stuck.
2. `paych/stress.go:254` (`PaychStress_settle`). The receiver counts the vouchers
   of all senders together up to the number one sender makes, and then lets all
   of them settle.

More was noticed that no run is about. The composition `recovery-exec.toml` gives
an instance the role `miner-biserk`, which the test rejects. With a partially
slashed miner the barrier `done` of the recovery test never opens, as its signal
is commented out (`e2e.go:252`); `PassDone` is only reached in `RecoveryRun_slash` where no miner is restored. And
the abort of that test (`e2e.go:333`) reaches the watching miners but nobody who
waits for `done`, which the aborting client never enters. With more than one
requestor the first peer in the topic that is not oneself (`graphsync/main.go:379`)
may be another requestor, which is then dialled instead of the provider. The error
of `RetrieveData` is dropped in the deals tests (`deals_e2e.go:117`,
`deals_stress.go:114`, where the message says "all retrieval deals successful"), and
`WaitDealSealed` returns in the same way whether the deal is sealed or the channel
of tipsets was closed: `RetrieveAfterSealed` has to make an exception for it.

The chain record says of itself "height -> value" (`diffs.go:19`), but `info` and
`provingInfo` read the head (`chain_state.go:653`, `:290`), which is at least three
tipsets later, and much later for the tipsets of the beginning when recording
starts late. In `ChainDiffs` the values are therefore those of the head, and what
is checked is what remains true: the indexes agree with each other, and a
reported slashing goes back to losses between heads that were seen. It may go back
to a head that was replaced, from which taking tipsets behind the head was to
protect.

## 5. Proofs

The theorems hold for every value of the constants that satisfies the named
assumptions of the module; TLC evaluates those on every run of it. Every proof about
a state is by an inductive invariant that was first checked with TLC on the instance
of the module's run. What is proved:

| component | theorem | states |
|---|---|---|
| `SyncMining` | `TypeCorrect`, `Inductive` | `TypeOK`; the inductive invariant `IInv` |
| | `LockstepHolds`, `RoundTogetherHolds`, `MiningOutlivesClientsHolds`, `DoneMeansAllDoneHolds` | the invariants of these names |
| | `RefinesRounds` | the loop implements `Rounds` |
| `DealsRun` | `DealsRefineMining` | a client with its deals is the client of `SyncMining` |
| | `MinersServeDealsHolds` | no miner leaves its loop while some client is in one of its phases, or has failed |
| | `RetrieveAfterSealedHolds` | `RetrieveAfterSealed` |
| `Prepare` | `Inductive`, `GenesisCompleteHolds`, `DenselyConnectedHolds`, `AddrsThereAfterReadyHolds` | `IInv` and the three invariants |
| `DrandGroup` | `Inductive`, `ConfigUsableHolds`, `DkgAmongDaemonsHolds` | `GInv` and the two invariants |
| | `RefinesPrepare` | the group implements `Prepare` |
| | `RolesServed` | so the three invariants of `Prepare` hold there, too |
| `GraphsyncStress` | `Inductive`, `MeasuresItsRoundHolds`, `HostsOutliveRequestsHolds` | `IInv` and the two invariants |
| | `RefinesRounds` | `next-i` implements `Rounds` |
| `PaychStress` | `InductivePaych`, `RemainingIsUnspentHolds` | `PaychInv` and `RemainingIsUnspent`, with any number of senders |
| | `SettleAfterAllAddedHolds` | with at most one sender, `SettleAfterAllAdded` |
| `RecoveryRun` | `Inductive`, `SuccessMeansSlashedHolds`, `DoneMeansAllDoneHolds` | `IInv` and the two invariants |
| `ChainDiffs` | `LossesWereSeenHolds`, `IndexesAgreeHolds` | the two invariants |
| `DrandHalt` | `InductiveHalt`, `DaemonFollowsStateHolds`, `CallsAsSpecifiedHolds` | `HaltInv` and the two invariants |
| `BatchRunner` | `Inductive`, `AllAccountedHolds` | `IInv` and `AllAccounted` |

The proofs about a module `X` are in `X_proofs`. Three proof modules are about two
modules each that belong together: `Recovery_proofs` (`RecoveryRun` and
`ChainDiffs`), `Drand_proofs` (`DrandGroup` and `DrandHalt`) and `Stress_proofs`
(`GraphsyncStress` and `PaychStress`). They extend both; no proof about one cites an
assumption of the other. This is why names like `DiffsSpec`, `HaltSpec` and
`PaychSpec` tell the module they belong to.

### What a counter means (`Counting`)

The state of a barrier is a number and forgets who made it grow, and a topic is a
list that does not say who has written to it. None of the properties is inductive
therefore, and every invariant below says whom a number counts. `Counting` has the
facts about finite sets that this needs: a counter that has reached the size of a set
counts all of it (`FullCount`); one more element is one more in the count (`OneMore`), and
there is room for it (`CountRoom`); a list without repetitions that is as long as a
set names all of it (`AllListed`). There are two forms of this:

* Where instances stay visible in their places, the counter *is* the number of those
  past the entry of the state (`SyncMining`, `GraphsyncStress`, `RecoveryRun`).
* Where an instance that fails goes to a place `"failed"` that does not tell how far
  it had got, the counter is *at most* the number of those that may be past it, the
  failed ones included (`Prepare`, `DrandGroup`, `DealsRun`). That is enough: if it is
  full, everybody has been there, or has failed.

A step adds one instance to the set and one to the counter, which is where the proofs
need that an instance enters a state, or writes to a topic, only once. Nobody ever
goes back; so what one finds behind a barrier stays true of all.

### The arguments

*`SyncMining`.* `entered[k]` is the number of miners past the entry of round `k`,
`stopCount` the number of clients past theirs, `doneCount` the number of instances in
or through `done`. `RoundsPassed` is the conjunct that gives `Lockstep`: whoever is
through round `k` knows that all have entered it, hence nobody is in an earlier one.
`RefinesRounds` maps each step of a miner to `Enter`, to `Pass` or to a stutter
(lemma `MiningRefines`). A step that passes a round is the interesting one: the
guard of `Rounds` asks who has entered, the guard of the code for a number, and the
conjunct of `IInv` about `entered` leads from one to the other.

*`DealsRun`.* The refinement needs of the reachable states only the type of `main`:
`SignalStop` maps to `ClientStops`, a broken deal, an error and a panic to
`ClientFails`, all other steps of a client to a stutter, and the steps that the
modules share to themselves. `MinersServeDealsHolds` is `MiningOutlivesClientsHolds`
carried over, by instantiating `SyncMining_proofs` with the same mapping.
`RetrieveAfterSealedHolds` counts `done-sealing`: a client that signals has settled
its deals, no step unsettles a deal, and in the end-to-end test nobody retrieves before
the counter is full.

*`Prepare`.* `GenesisComplete` needs three lists to be what they seem: no account
asks for a balance twice, no miner draws the same number as another, and there is one
preseal per number, so that, once they are as many as the miners, sorting by number is
a bijection that puts each preseal at its miner's place. `DenselyConnected`
needs a relation between two miners, as each dials only those before it in the topic:
one that has entered `ready` is in the topic and has dialled all before it (`Meshed`),
so that for each pair one of the two has. `MeshInv` keeps count of how far each is.

*`DrandGroup`.* What a node knows depends on where it is (`Reached`), and a step to the
next place has to establish it. `RefinesPrepare` maps all phases before `ready` to
`"dkg"`; the step into `ready` is `RunDrand`. It takes the invariant to know that
nobody but the leader gets to the place where the configuration is published.

*`GraphsyncStress`.* Nothing in the code names the round that the network and the
store belong to. Two counters together do: `next-i` keeps everybody within one round
of the provider (`RoundsTogether`), and `network-configured-i` says on which side of
the provider a requestor is (`ConfiguredInv`). A requestor that measures is in the
round the provider has finished, and the provider cannot get into the next one before
the requestor has signalled it.

*`RecoveryRun`.* A miner counts announcements, not miners; that its success means what
it should rests on every slashed miner announcing itself at most once
(`AnnouncedOnce`). For `done` two periods are told apart. As long as nobody is
through, the counter is the number of those at the barrier, waiting or crashed there
(`NobodyThrough`, `AtDone`), and a client that has returned has aborted; from the
first one through, everybody has entered and nobody can abort any more (`AllEntered`).

*`BatchRunner`.* A result of a run that could not be started carries no number, so
results have to be counted: there is one for each run that has ended, and as many
with number 0 as there are runs that ended without a trace. When `main` has as many as
there are runs, the channel is empty and every run has ended.

*`ChainDiffs`.* `LossesWereSeen` compares the negative differences in an index with
the losses between the heads, from which they are separated by rounding, by the lag and
by a head that may move while a tipset is recorded. For each miner there is a head `k`
that its newest value was read from, such that there were by then as many losses as
there are different negative differences now (`NewestIs`). The next value comes from a
head that is not older than `k` (`InfoSince`); if it is smaller after rounding, it was
smaller before, so between the two heads there was a loss that had not been counted
(`FallsInv`). This holds for any unit and any lag.
`IndexesAgree` is proved for the places of tipsets on the chain instead of for
heights (`Tells`): the height of a new tipset is above all recorded ones, so in each
index it goes to the end of one list, and to the beginning of none. The invariant has
to say of each miner whether the tipset being recorded is in already; when an error
has stopped the loop half way, either may be the case (`ToldInv`).

*`PaychStress`.* With one sender the topic holds its vouchers in the order it created
them, so as many as it makes are all of them. With two the statement is false, as the
run `PaychStress_settle` shows; the hypothesis is that difference. `RemainingIsUnspent`
has no such hypothesis: what is in the topic from one sender are its first `n`
vouchers, whatever stands between them (`SentInv`). These are spread over the lanes
in turn, and the best one of a lane is worth as much as there are on the lane
(`OwedIs`), which is `n` divided by the number of lanes, and one more on the first
`n % LaneCount` of them (`OnLane`). Added up lane by lane this gives `n`
(`RedeemableIs`), and that is what the sender has subtracted.

*`DrandHalt`.* A node has been through some number `n` of fields of its list
(`Through`): it has taken as many events as the first `n` fields become, and its
daemon has got exactly the calls that they ask for. Which `n` it is the events do not
tell, since bad waits leave nothing behind; but what is dropped asks for nothing
(`AsMuchAsked`). The machine accepts `halt` only when running and `resume` only when
suspended, and its state is what the last call has left, so a call is passed on
exactly when the field changes something. In particular `Halt` always meets a
daemon that is up, and `Resume` one that is down, unless a start has failed.

*Induction.* Sums over the lanes and lists built field by field are defined from
number to number, and what they are has to be proved in the same way. The induction
theorems of the library take an operator as a parameter, which no prover here can
instantiate. `Counting` has induction for *sets* instead: a set with `0` that has, with
`n - 1`, also `n`, has all numbers (`Everyone`, and `UpTo` for those up to a bound),
which follows from the numbers being well-founded. `RecursionExists` says that there
is a function whose values go from each to the next by given functions; with it the
`CHOOSE` behind a recursive function definition is known to find one.

### Written to be proved

`parsed` and `asked` (`DrandHalt`) and `Redeemable` (`PaychStress`) are recursive
functions over the first `n` members of a list instead of folds over all of it: the
value at `n` is what a loop has computed after `n` turns, which is what an induction
can talk about.
Some definitions avoid an operator whose definition is recursive, or chooses a
value, where the prover cannot see through: `SortedBySeqno` (`Prepare`) says what a
sorted list is, `Lists` (`ChainDiffs`) that a sequence names the members of a set
upwards, and `Put` adds to a map what `@@` would.

### Only model-checked

* All liveness: `EventuallyPrepared`, `SurvivesLosses`, `Termination`,
  `WaitEndsUnlessPeerLeft`, `DealsEnd`, `Completes`, `PaychCompletes`, `GroupRecovers`,
  `AbortReachesMiners`, `OnlyBarrierHangs`, `SlashIsSeen`. They rest on fairness,
  hence on `ENABLED`, which the prover does not have.
* The two statements that are found violated, on their instances. For
  `SettleAfterAllAdded` the theorem about one sender says when it does hold.


## 6. What is left out

* The sync service itself never fails after an instance is prepared: the `Must*`
  calls panic when it does, which is a failure that the modules have elsewhere.
* `Prepare`: the sidecar's barrier in `ApplyNetworkParameters` (it is in
  `DrandGroup` for the drand nodes, and the same for the others), the API servers,
  `StopFn`, the clients' own addresses (no `Prepare` function reads them).
* `SyncMining`: an error of `ActorAddress` before the loop begins; a client that
  is run by the default role, which does nothing. Natural mining
  (`Synchronized = FALSE`), in which the mining goroutine is not started, is
  covered by the proofs only.
* `GraphsyncStress`: single requests within a round, and the downloads that run
  concurrently in it; several providers, whose topics the code does not separate.
* `PaychStress`: what Lotus does with a channel (`CanPay`, `Owed` and `Redeemable` say
  as much of it as the counting needs); the confirmation of messages.
* `DrandHalt`: the length of a sleep.
* `DrandGroup`: cryptography, the length of a sleep and of the DKG's timeout.
* `DealsRun`: what is retrieved; how the markets seal a deal.
* `ChainDiffs`: tipsets that come without the lag. `TakeTipset` has it hold from the
  first head on, as the argument `headlag` says; what `GetTips` sends for the part of the
  chain that is there at the start is up to Lotus.
* `ChainDiffs`: the text files, `printDiff`, the snapshots and the html pages
  (`html_chain_state.go`), which are output; reorganisations deeper than the lag,
  after which a height would be recorded twice; miner actors that appear later,
  which `recordDiff` would not survive (there is no earlier value to subtract), and
  which the compositions do not have.
* `BatchRunner`: building the composition, which happens before and once.
* `ChooseRandom` and `UnmarshalJSON` of the parameter ranges: arithmetic on one
  random number, without a state. A range of one point panics, which a unit test
  would show.
* The composer, the dashboards, the images and the table of test cases: a user
  interface, configuration and wiring.
* `RecoveryRun`: the reports (`FetchChainState`); `RestoreMiner` is one step, which
  may fail (its inside, the start of a node on an old repository, has no state that
  others see).
* In `RecoveryRun` the mutex around the chain record is not modelled as such:
  recording a tipset and looking for losses are atomic, as the mutex makes them;
  `ChainDiffs` has the steps in between.

## 7. Plan

Done: all protocols of the inventory, their runs, four refinements; the proofs of the
refinements and of every safety invariant that a passing run checks.

What would be worth adding:

1. The arguments that `Prepare_proofs` and `Drand_proofs` share, about lists that
   each instance writes to once, as lemmas of `Counting`.
2. A refinement of `RecoveryRun` by the records of `ChainDiffs`, in place of the
   agreement in words that section 2 describes.
3. Of the two hazards of stopping a node twice and of several requestors, a model in
   which the second call and the other peer are there.
