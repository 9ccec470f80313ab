----------------------------- MODULE PaychStress -----------------------------
(***************************************************************************)
(* The clients of the payment channel stress test (lotus-soup/paych).      *)
(*                                                                         *)
(* The client with GroupSeq 1 receives, all others send.  A sender opens a *)
(* channel to the receiver, creates vouchers over its lanes in turn, each  *)
(* on a lane worth one increment more than the one before, and publishes   *)
(* them; when the receiver says that it has added all vouchers the sender  *)
(* settles the channel.  The receiver reads the vouchers of all senders    *)
(* from one topic.                                                         *)
(*                                                                         *)
(* Amounts are in increments.  The Lotus node is external: a voucher can   *)
(* be added if its channel can pay the best vouchers of all lanes.         *)
(***************************************************************************)
EXTENDS Integers, FiniteSets, Sequences, SequencesExt

CONSTANTS
    Sender, Receiver,   \* the clients
    LaneCount,          \* lane_count
    VouchersPerLane     \* vouchers_per_lane

ASSUME ClientsAssumption ==
    /\ IsFiniteSet(Sender)
    /\ Receiver \notin Sender

ASSUME LanesAssumption ==
    /\ LaneCount \in Nat \ {0}
    /\ VouchersPerLane \in Nat \ {0}

VARIABLES
    client,         \* client[c]: where client c is
    created,        \* created[s]: how many vouchers s has created
    remaining,      \* remaining[s]: what s thinks is left in its channel
    vouchers,       \* topic "voucher"
    added,          \* how many vouchers the receiver has added
    settles,        \* topic "settle": whose channel is being settled
    receiverReady,  \* the counter of "receiver-ready"
    sendersDone,    \* the counter of "senders-done"
    addedVouchers,  \* the counter of "receiver-added-vouchers"
    clientsDone,    \* the counter of "done"
    stopMining      \* the counter of "stop-mining"

paychVars == <<client, created, remaining, vouchers, added, settles,
          receiverReady, sendersDone, addedVouchers, clientsDone, stopMining>>

Client == Sender \cup {Receiver}
Lane == 0 .. LaneCount - 1
TotalVouchers == LaneCount * VouchersPerLane
ChannelAmt == LaneCount * VouchersPerLane

PaychInit ==
    /\ client = [c \in Client |-> IF c = Receiver THEN "subscribe" ELSE "open"]
    /\ created = [s \in Sender |-> 0]
    /\ remaining = [s \in Sender |-> ChannelAmt]
    /\ vouchers = <<>> /\ added = 0 /\ settles = <<>>
    /\ receiverReady = 0 /\ sendersDone = 0 /\ addedVouchers = 0
    /\ clientsDone = 0 /\ stopMining = 0

ClientGoto(c, from, to) ==
    /\ client[c] = from
    /\ client' = [client EXCEPT ![c] = to]

-----------------------------------------------------------------------------
(* A sender. *)

\* PaychGet until the lanes are allocated: the channel of s is open.
OpenChannel(s) ==
    /\ ClientGoto(s, "open", "lanes")
    /\ UNCHANGED <<created, remaining, vouchers, added, settles,
                   receiverReady, sendersDone, addedVouchers, clientsDone, stopMining>>

PassReceiverReady(s) ==
    /\ receiverReady >= 1
    /\ ClientGoto(s, "lanes", "create")
    /\ UNCHANGED <<created, remaining, vouchers, added, settles,
                   receiverReady, sendersDone, addedVouchers, clientsDone, stopMining>>

\* Faulty variant: every voucher is worth one increment.
Voucher_Flat(s, k) ==
    [sender |-> s, lane |-> k % LaneCount, amount |-> 1]

\* The k-th voucher of s: round-robin over the lanes, one increment more each turn.
Voucher(s, k) ==
    [sender |-> s, lane |-> k % LaneCount, amount |-> (k \div LaneCount) + 1]

SendVoucher(s) ==
    /\ created[s] < TotalVouchers
    /\ client[s] = "create"
    /\ vouchers' = Append(vouchers, Voucher(s, created[s]))
    /\ created' = [created EXCEPT ![s] = @ + 1]
    /\ remaining' = [remaining EXCEPT ![s] = @ - 1]
    /\ UNCHANGED <<client, added, settles,
                   receiverReady, sendersDone, addedVouchers, clientsDone, stopMining>>

SendersDone(s) ==
    /\ created[s] = TotalVouchers
    /\ ClientGoto(s, "create", "waitAdded")
    /\ sendersDone' = sendersDone + 1
    /\ UNCHANGED <<created, remaining, vouchers, added, settles,
                   receiverReady, addedVouchers, clientsDone, stopMining>>

\* Faulty variant: the sender waits for all senders, not for the receiver.
PassAddedVouchers_SendersDone(s) ==
    /\ sendersDone >= Cardinality(Sender)
    /\ ClientGoto(s, "waitAdded", "settle")
    /\ UNCHANGED <<created, remaining, vouchers, added, settles,
                   receiverReady, sendersDone, addedVouchers, clientsDone, stopMining>>

PassAddedVouchers(s) ==
    /\ addedVouchers >= 1
    /\ ClientGoto(s, "waitAdded", "settle")
    /\ UNCHANGED <<created, remaining, vouchers, added, settles,
                   receiverReady, sendersDone, addedVouchers, clientsDone, stopMining>>

\* PaychSettle, and tell the receiver.  The error of that Publish is dropped (the
\* check behind it looks at an older one): the message may be lost.
Settle(s) ==
    /\ ClientGoto(s, "settle", "done")
    /\ \/ settles' = Append(settles, s)
       \/ UNCHANGED settles
    /\ UNCHANGED <<created, remaining, vouchers, added,
                   receiverReady, sendersDone, addedVouchers, clientsDone, stopMining>>

-----------------------------------------------------------------------------
(* The receiver. *)

\* Subscribe to both topics, then let the senders go.
ReceiverIsReady ==
    /\ ClientGoto(Receiver, "subscribe", "add")
    /\ receiverReady' = receiverReady + 1
    /\ UNCHANGED <<created, remaining, vouchers, added, settles,
                   sendersDone, addedVouchers, clientsDone, stopMining>>

\* The best voucher of s on lane l among vs: what the channel owes for that lane.
Owed(vs, s, l) ==
    LET amounts == {v.amount : v \in {w \in Range(vs) : w.sender = s /\ w.lane = l}}
    IN  Max(amounts \cup {0})

\* What the channel of s owes in all.
Redeemable(vs, s) ==
    LET owed[n \in 0 .. LaneCount] ==      \* for the first n lanes
            IF n = 0 THEN 0 ELSE owed[n - 1] + Owed(vs, s, n - 1)
    IN  owed[LaneCount]

\* Faulty variant: something must be left in the channel.
CanPay_Strict(vs, s) == Redeemable(vs, s) < ChannelAmt

\* PaychVoucherAdd and PaychVoucherCheckSpendable: the channel can pay.
CanPay(vs, s) == Redeemable(vs, s) <= ChannelAmt

AddVoucher ==
    /\ client[Receiver] = "add"
    /\ added < TotalVouchers /\ added < Len(vouchers)
    /\ CanPay(SubSeq(vouchers, 1, added + 1), vouchers[added + 1].sender)
    /\ added' = added + 1
    /\ UNCHANGED <<client, created, remaining, vouchers, settles,
                   receiverReady, sendersDone, addedVouchers, clientsDone, stopMining>>

AllAdded ==
    /\ added = TotalVouchers
    /\ ClientGoto(Receiver, "add", "waitSettle")
    /\ addedVouchers' = addedVouchers + 1
    /\ UNCHANGED <<created, remaining, vouchers, added, settles,
                   receiverReady, sendersDone, clientsDone, stopMining>>

\* The first settle message, whose confirmation the receiver waits for.
SeeSettle ==
    /\ settles # <<>>
    /\ ClientGoto(Receiver, "waitSettle", "done")
    /\ UNCHANGED <<created, remaining, vouchers, added, settles,
                   receiverReady, sendersDone, addedVouchers, clientsDone, stopMining>>

-----------------------------------------------------------------------------
(* Both. *)

\* A client does not wait for the others to be done.
SignalClientDone(c) ==
    /\ ClientGoto(c, "done", "stopMining")
    /\ clientsDone' = clientsDone + 1
    /\ UNCHANGED <<created, remaining, vouchers, added, settles,
                   receiverReady, sendersDone, addedVouchers, stopMining>>

SignalStopMining(c) ==
    /\ ClientGoto(c, "stopMining", "returned")
    /\ stopMining' = stopMining + 1
    /\ UNCHANGED <<created, remaining, vouchers, added, settles,
                   receiverReady, sendersDone, addedVouchers, clientsDone>>

\* A call to the node, or the publication of a voucher, reports an error.
ClientFails(c) ==
    /\ client[c] \in {"open", "lanes", "create", "settle", "subscribe", "add", "waitSettle"}
    /\ client' = [client EXCEPT ![c] = "failed"]
    /\ UNCHANGED <<created, remaining, vouchers, added, settles,
                   receiverReady, sendersDone, addedVouchers, clientsDone, stopMining>>

SenderStep(s) ==
    \/ OpenChannel(s) \/ PassReceiverReady(s) \/ SendVoucher(s) \/ SendersDone(s)
    \/ PassAddedVouchers(s) \/ Settle(s)

ReceiverStep == ReceiverIsReady \/ AddVoucher \/ AllAdded \/ SeeSettle

ClientStep(c) ==
    \/ c \in Sender /\ SenderStep(c)
    \/ c = Receiver /\ ReceiverStep
    \/ SignalClientDone(c) \/ SignalStopMining(c)

PaychNext == \E c \in Client : ClientStep(c) \/ ClientFails(c)

PaychSpec == PaychInit /\ [][PaychNext]_paychVars

\* Every client goes on as long as it can.
PaychFairSpec == PaychSpec /\ \A c \in Client : WF_paychVars(ClientStep(c))

-----------------------------------------------------------------------------
(* Properties. *)

VoucherType == [sender : Sender, lane : Lane, amount : 1 .. VouchersPerLane]

PaychTypeOK ==
    /\ client \in [Client -> {"open", "lanes", "create", "waitAdded", "settle", "subscribe", "add",
                          "waitSettle", "done", "stopMining", "returned", "failed"}]
    /\ created \in [Sender -> 0 .. TotalVouchers]
    /\ remaining \in [Sender -> Int]
    /\ vouchers \in Seq(VoucherType)
    /\ added \in 0 .. TotalVouchers
    /\ settles \in Seq(Sender)
    /\ {receiverReady, sendersDone, addedVouchers, clientsDone, stopMining}
           \subseteq 0 .. Cardinality(Client)

\* What a sender believes to be left in its channel is what its vouchers leave: the
\* subtraction of one increment per voucher agrees with what the vouchers, each
\* replacing the one before on its lane, can redeem; it never gets negative.
\* (The variables have their types.)
RemainingIsUnspent ==
    /\ PaychTypeOK
    /\ \A s \in Sender :
           /\ remaining[s] = ChannelAmt - Redeemable(vouchers, s)
           /\ remaining[s] >= 0

\* The vouchers of s that the receiver has added.
AddedOf(s) == {v \in Range(SubSeq(vouchers, 1, added)) : v.sender = s}

\* A sender settles only when the receiver has all the vouchers of its channel
\* ("Wait for the receiver to add all vouchers").
SettleAfterAllAdded ==
    \A s \in Sender :
        client[s] = "settle" => AddedOf(s) = {Voucher(s, k) : k \in 0 .. TotalVouchers - 1}

Lost(s) == client[s] \in {"done", "stopMining", "returned"} /\ s \notin Range(settles)

\* All clients come to their end, unless one fails or a settle message is lost.
PaychCompletes ==
    <>(\/ \A c \in Client : client[c] = "returned"
       \/ \E c \in Client : client[c] = "failed"
       \/ \E s \in Sender : Lost(s))

=============================================================================
