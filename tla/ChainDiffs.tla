------------------------------ MODULE ChainDiffs ------------------------------
(***************************************************************************)
(* The record a miner of the recovery test (lotus-soup/rfwp) keeps of the  *)
(* chain, and the goroutines that look for penalties in it.                *)
(*                                                                         *)
(* UpdateChainState takes one tipset after the other, some way behind the  *)
(* head, and records for every miner actor what changed.  The values come  *)
(* from the head as it is when each query is made, not from the tipset     *)
(* whose height they are recorded under.  It holds the lock of the chain   *)
(* state for a whole tipset; PrevHeight moves when all miners are done,    *)
(* and the first error ends it for good.  waitForSlash looks every ten     *)
(* seconds, under the same lock, at the differences of the locked funds.   *)
(*                                                                         *)
(* Heights may be skipped (null rounds), and the newest tipset may be      *)
(* replaced; deeper reorganisations than the lag are left out.  All miner  *)
(* actors are there from the genesis block on, as in the compositions of   *)
(* the test.  The snapshots and text files are output and are left out.    *)
(***************************************************************************)
EXTENDS Integers, Sequences, FiniteSets, FiniteSetsExt, Functions, SequencesExt

CONSTANTS
    Actor,          \* the miner actors
    ValueTypes,     \* cs.valueTypes
    Rounded,        \* the types roundBalance is applied to
    ProvingTypes,   \* the types that come from provingInfo, the others from info
    MinerStates,    \* what a tipset may say of a miner: a number for each type
    Unit,           \* 10^15 attoFIL in the code
    SlashLosses,    \* negative differences that make a slashing (3 in the code)
    headlag,        \* how far behind the head tipsets are taken (3 in the code)
    MaxHeight,      \* bound on the heights
    MaxHeads        \* bound on the number of heads

ASSUME TypesAssumption ==
    /\ "LockedFunds" \in Rounded /\ Rounded \cup ProvingTypes \subseteq ValueTypes
    /\ MinerStates \subseteq [ValueTypes -> Int]

ASSUME RecordAssumption ==
    /\ Unit \in Nat \ {0} /\ SlashLosses \in Nat \ {0}
    /\ headlag \in Nat \ {0} /\ MaxHeight \in Nat /\ MaxHeads \in Nat

VARIABLES
    chain,          \* the heights of the tipsets on the chain
    heads,          \* what all heads so far say of each miner, in their order
    recording,      \* UpdateChainState: "waiting", "recording" (with the lock), "stopped"
    taken,          \* the number of tipsets taken from the channel
    todo,           \* maddrs that the loop has not finished
    minerInfo,      \* what info has reported for one of them: at most one entry
    PrevHeight,     \* -1 before the first tipset
    DiffHeight,     \* miner, type, height -> value
    DiffValue,      \* miner, type, value -> heights
    DiffCmp,        \* miner, type, difference -> heights
    slashWatch      \* slashWatch[m]: waitForSlash for m: "watching", "found", "closed"

external == <<chain, heads>>
loop == <<taken, todo, PrevHeight>>
record == <<DiffHeight, DiffValue, DiffCmp>>
diffsVars == <<external, recording, loop, minerInfo, record, slashWatch>>

Heights == 0..MaxHeight
head == Last(heads)
height == chain[taken]
NoEntries == [m \in Actor |-> [v \in ValueTypes |-> <<>>]]

\* GetTips starts with the genesis block, however long the chain is by then.
DiffsInit ==
    /\ chain = <<0>>
    /\ \E state \in MinerStates : heads = <<[m \in Actor |-> state]>>
    /\ recording = "waiting" /\ taken = 0 /\ todo = {} /\ minerInfo = <<>>
    /\ PrevHeight = -1
    /\ DiffHeight = NoEntries /\ DiffValue = NoEntries /\ DiffCmp = NoEntries
    /\ slashWatch = [m \in Actor |-> "watching"]

\* A new head, on top of the last one or in its place, changes the state of one miner.
\* (At most one round in a row is null: a bound.)
NewHead ==
    /\ Len(heads) < MaxHeads
    /\ \E below \in {chain, Front(chain)}, h \in Heights :
        /\ below # <<>> /\ h - Last(below) \in 1..2
        /\ chain' = Append(below, h)
    /\ \E m \in Actor : \E state \in MinerStates \ {head[m]} :
        heads' = Append(heads, [head EXCEPT ![m] = state])
    /\ UNCHANGED <<recording, loop, minerInfo, record, slashWatch>>

-----------------------------------------------------------------------------
(* UpdateChainState *)

\* Rounds towards minus infinity, as big.Div does.
roundBalance(i) == (i \div Unit) * Unit

Shown(v, state) == IF v \in Rounded THEN roundBalance(state[v]) ELSE state[v]

\* map[key] = value
Put(map, key, value) ==
    [k \in DOMAIN map \cup {key} |-> IF k = key THEN value ELSE map[k]]

\* map[key] = append(map[key], height)
AppendAt(map, key, h) ==
    Put(map, key, Append(IF key \in DOMAIN map THEN map[key] ELSE <<>>, h))

\* The values recorded for m: what info has reported, and what provingInfo does now.
Value(m) == [v \in ValueTypes |->
                Shown(v, IF v \in ProvingTypes THEN head[m] ELSE Last(minerInfo).state)]

\* Faulty variant: the previous height is always one less.
Cmp_HeightBefore(m, v) ==
    IF height - 1 \in DOMAIN DiffHeight[m][v]
    THEN Value(m)[v] - DiffHeight[m][v][height - 1] ELSE 0

\* Faulty variant: the operands of the subtraction are swapped.
Cmp_Swapped(m, v) == DiffHeight'[m][v][PrevHeight] - Value(m)[v]

\* value - prevValue, which is read when this height has been written.
Cmp(m, v) == Value(m)[v] - DiffHeight'[m][v][PrevHeight]

\* One block per type: the value at this height goes into the first two indexes, its
\* difference to the value at PrevHeight into the third, unless there is none.
recordDiff(m) ==
    /\ DiffHeight' = [DiffHeight EXCEPT ![m] =
            [v \in ValueTypes |-> Put(@[v], height, Value(m)[v])]]
    /\ DiffValue' = [DiffValue EXCEPT ![m] =
            [v \in ValueTypes |-> AppendAt(@[v], Value(m)[v], height)]]
    /\ DiffCmp' = [DiffCmp EXCEPT ![m] =
            [v \in ValueTypes |-> IF PrevHeight # -1 /\ Cmp(m, v) # 0
                                  THEN AppendAt(@[v], Cmp(m, v), height)
                                  ELSE @[v]]]

\* The next tipset comes through the channel, and StateListMiners gives its miners.
TakeTipset ==
    /\ recording = "waiting" /\ taken + 1 + headlag <= Len(chain)
    /\ taken' = taken + 1
    /\ recording' = "recording" /\ todo' = Actor
    /\ UNCHANGED <<external, PrevHeight, minerInfo, record, slashWatch>>

\* GetTips or StateListMiners fails, or the channel is closed.
TipsetsEnd ==
    /\ recording = "waiting" /\ recording' = "stopped"
    /\ UNCHANGED <<external, loop, minerInfo, record, slashWatch>>

\* info, the first query of a turn of the loop, ...
ReadInfo(m) ==
    /\ recording = "recording" /\ m \in todo /\ minerInfo = <<>>
    /\ minerInfo' = <<[miner |-> m, state |-> head[m]]>>
    /\ UNCHANGED <<external, recording, loop, record, slashWatch>>

InTurn(m) == recording = "recording" /\ minerInfo # <<>> /\ Last(minerInfo).miner = m

\* Faulty variant: PrevHeight is set inside the loop over the miners.
RecordMiner_SetPrevHeight(m) ==
    /\ InTurn(m)
    /\ recordDiff(m)
    /\ todo' = todo \ {m} /\ minerInfo' = <<>>
    /\ PrevHeight' = height
    /\ UNCHANGED <<external, recording, taken, slashWatch>>

\* ... and the rest of it, from provingInfo on, without an error.
RecordMiner(m) ==
    /\ InTurn(m)
    /\ recordDiff(m)
    /\ todo' = todo \ {m} /\ minerInfo' = <<>>
    /\ UNCHANGED <<external, recording, taken, PrevHeight, slashWatch>>

\* A query or a file fails, before or after recordDiff: the loops end, and the lock is
\* released.
RecordFails(m) ==
    /\ \/ InTurn(m) /\ recordDiff(m)
       \/ recording = "recording" /\ m \in todo /\ UNCHANGED record
    /\ recording' = "stopped" /\ minerInfo' = <<>>
    /\ UNCHANGED <<external, loop, slashWatch>>

EndTipset ==
    /\ recording = "recording" /\ todo = {}
    /\ PrevHeight' = height
    /\ recording' = "waiting"
    /\ UNCHANGED <<external, taken, todo, minerInfo, record, slashWatch>>

-----------------------------------------------------------------------------
(* waitForSlash *)

NegativeDiffs(m) == {amount \in DOMAIN DiffCmp[m]["LockedFunds"] : amount < 0}

\* A tick of the goroutine that waits for m: after the one that found enough
\* differences the next one closes the channel.
Tick(m) ==
    /\ \/ /\ slashWatch[m] = "watching" /\ recording # "recording"
          /\ Cardinality(NegativeDiffs(m)) >= SlashLosses
          /\ slashWatch' = [slashWatch EXCEPT ![m] = "found"]
       \/ /\ slashWatch[m] = "found"
          /\ slashWatch' = [slashWatch EXCEPT ![m] = "closed"]
    /\ UNCHANGED <<external, recording, loop, minerInfo, record>>

-----------------------------------------------------------------------------
DiffsNext ==
    \/ NewHead \/ TakeTipset \/ TipsetsEnd \/ EndTipset
    \/ \E m \in Actor : ReadInfo(m) \/ RecordMiner(m) \/ RecordFails(m) \/ Tick(m)

DiffsSpec == DiffsInit /\ [][DiffsNext]_diffsVars

\* The timer keeps ticking, and the queries about a tipset are answered one way or the
\* other.  Nothing makes the chain go on.
DiffsFairSpec ==
    /\ DiffsSpec
    /\ \A m \in Actor : WF_diffsVars(Tick(m))
    /\ WF_diffsVars(EndTipset \/ \E m \in Actor : ReadInfo(m) \/ RecordMiner(m) \/ RecordFails(m))

-----------------------------------------------------------------------------
(* Properties *)

\* The variables have their types; the indexes are maps to sequences of heights.
DiffsTypeOK ==
    /\ chain \in Seq(Heights) /\ IsInjective(chain)
    /\ heads \in Seq([Actor -> MinerStates])
    /\ recording \in {"waiting", "recording", "stopped"}
    /\ taken \in 0..Len(chain) /\ todo \subseteq Actor
    /\ minerInfo \in Seq([miner : Actor, state : MinerStates]) /\ Len(minerInfo) <= 1
    /\ PrevHeight \in Heights \cup {-1}
    /\ \A m \in Actor, v \in ValueTypes :
        /\ DOMAIN DiffHeight[m][v] \subseteq Heights
        /\ \A k \in DOMAIN DiffValue[m][v] : DiffValue[m][v][k] \in Seq(Heights)
        /\ \A k \in DOMAIN DiffCmp[m][v] :
            k # 0 /\ DiffCmp[m][v][k] \in Seq(Heights) \ {<<>>}
    /\ slashWatch \in [Actor -> {"watching", "found", "closed"}]

\* How the value at a recorded height differs from the one recorded before it; the heights
\* where it does.
Recorded(m, v) == DOMAIN DiffHeight[m][v]
Change(m, v, h) ==
    DiffHeight[m][v][h] - DiffHeight[m][v][Max({k \in Recorded(m, v) : k < h})]
Changed(m, v) ==
    {h \in Recorded(m, v) : (\E k \in Recorded(m, v) : k < h) /\ Change(m, v, h) # 0}

\* s lists the numbers of S, each once and in their order.
Lists(s, S) == Range(s) = S /\ \A i, j \in DOMAIN s : i < j => s[i] < s[j]

\* The three indexes tell one story: the heights of the tipsets taken are there without a
\* gap; each is once under its value, and once under its change from the tipset before if
\* there is one, in the order of the chain; nothing else is.  (recordDiff compares with
\* whatever stands at PrevHeight, which must not move while some miners of the tipset are
\* to come; heights may be skipped, and a tipset may fail half way.)
\* (The variables have their types.)
IndexesAgree ==
    /\ DiffsTypeOK
    /\ \A m \in Actor, v \in ValueTypes :
           /\ Recorded(m, v) \subseteq Range(SubSeq(chain, 1, taken))
           /\ Range(SubSeq(chain, 1, IF m \in todo THEN taken - 1 ELSE taken))
                  \subseteq Recorded(m, v)
           /\ DOMAIN DiffValue[m][v] = {DiffHeight[m][v][h] : h \in Recorded(m, v)}
           /\ \A x \in DOMAIN DiffValue[m][v] :
               Lists(DiffValue[m][v][x], {h \in Recorded(m, v) : DiffHeight[m][v][h] = x})
           /\ DOMAIN DiffCmp[m][v] = {Change(m, v, h) : h \in Changed(m, v)}
           /\ \A d \in DOMAIN DiffCmp[m][v] :
               Lists(DiffCmp[m][v][d], {h \in Changed(m, v) : Change(m, v, h) = d})

\* The goroutine reports a slashing of m only when the locked funds of m, not rounded, went
\* down SlashLosses times from one head to the next.  (Rounding and reading heads that move
\* must not make up a loss; a head that replaces another may be such a loss.)
LossesWereSeen ==
    \A m \in Actor : slashWatch[m] # "watching" =>
        Cardinality({i \in 2..Len(heads) :
            heads[i][m]["LockedFunds"] < heads[i - 1][m]["LockedFunds"]}) >= SlashLosses

\* Once the recorded values show SlashLosses different losses of m's locked funds, the
\* goroutine closes its channel, also when recording has ended since.
SlashIsSeen ==
    \A m \in Actor :
        Cardinality({Change(m, "LockedFunds", h) :
            h \in {k \in Changed(m, "LockedFunds") : Change(m, "LockedFunds", k) < 0}})
        >= SlashLosses ~> slashWatch[m] = "closed"

=============================================================================
