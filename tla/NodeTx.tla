------------------------------- MODULE NodeTx --------------------------------
(***************************************************************************)
(* The sending half of a node: Node::start_tx_transfer and                 *)
(* Node::transmit_frame (node.rs) on top of the transmissions that         *)
(* MapTransferManager keeps (transfer/map_manager.rs).                     *)
(*                                                                         *)
(* The application owns the tokens it is given.  They cannot be copied, so *)
(* tx_tokens counts how many of each it holds.                             *)
(***************************************************************************)
EXTENDS CanTransport

CONSTANTS
    id,               \* Node::id, a node id or None for an anonymous node
    Priorities, PortIds, TransferIds,   \* values the application uses
    TransmissionTypes,   \* targets the application uses
    BufferUses,       \* buffer sizes it requests, and what its callback returns
    Timeout,          \* duration it passes to update_transfers
    MaxTime           \* bound on the clock

TransmissionType ==
    [type : {"Request", "Response"}, node : NodeId] \cup [type : {"Broadcast"}]

(* claimed is what the callback returns: a length, or None for its error. *)
BufferUse == [requested : Nat, claimed : Nat \cup {None}]

ASSUME NodeTxAssumption ==
    /\ id \in NodeId \cup {None}
    /\ Priorities \subseteq Priority
    /\ PortIds \subseteq PortId
    /\ TransferIds \subseteq TransferId
    /\ TransmissionTypes \subseteq TransmissionType
    /\ BufferUses \subseteq BufferUse
    /\ Timeout \in Duration
    /\ MaxTime \in Nat

VARIABLES
    tx_transfers,     \* the map of transmissions
    tx_tokens,        \* number of TxTokens the application holds, by key
    tx_result,        \* what the last call returned
    now               \* the clock

tx_vars == << tx_transfers, tx_tokens, tx_result, now >>

-----------------------------------------------------------------------------
TxMetadataOf(priority, port_id, tx_kind, transfer_id, timestamp) ==
    [timestamp |-> timestamp,
     priority |-> priority,
     transfer_kind |-> IF tx_kind.type = "Broadcast" THEN "Message" ELSE tx_kind.type,
     port_id |-> port_id,
     source_node_id |-> id,
     destination_node_id |-> IF tx_kind.type = "Broadcast" THEN None ELSE tx_kind.node,
     transfer_id |-> transfer_id]

(* The tokens the application's choices can give rise to. *)
TxKeys ==
    {HashMetadata(TxMetadataOf(p, port, kind, t, 0)) :
        p \in Priorities, port \in PortIds, kind \in TransmissionTypes, t \in TransferIds}

TxTransfer ==
    [status : {"Active"}, transfer_metadata : TransferMetadata,
     transport_metadata : TxMetadata, consumed : Nat, payload : Seq(Byte)]

TimedOut == [status |-> "TimedOut"]

NewTxTransfer(metadata, payload) ==
    [status |-> "Active", transfer_metadata |-> metadata,
     transport_metadata |-> TxMetadataDefault, consumed |-> 0, payload |-> payload]

TxIsActive(k) == k \in DOMAIN tx_transfers /\ tx_transfers[k].status = "Active"
TxIsTimedOut(k) == k \in DOMAIN tx_transfers /\ tx_transfers[k].status = "TimedOut"

(* What transmit hands to its callback: the bytes not yet consumed. *)
RemainingData(transfer) ==
    SubSeq(transfer.payload, transfer.consumed + 1, Len(transfer.payload))

TxErrorOf(transfer) ==
    TxFrameError(transfer.transfer_metadata, RemainingData(transfer), id)

(* The buffer after the callback, which sees no more than it requested. *)
BufferAfterCallback(use, d) ==
    [i \in 1 .. GetCrcPaddedSize(use.requested) |->
        IF i <= use.requested /\ i <= use.claimed
        THEN Written(d, use.requested)[i] ELSE ZeroByte]

ClampedClaim(use) ==
    IF use.claimed < GetCrcPaddedSize(use.requested)
    THEN use.claimed ELSE GetCrcPaddedSize(use.requested)

-----------------------------------------------------------------------------
(* What the application's calls return. *)
Unit == [kind |-> "Unit"]

TxResult ==
    {Unit, [kind |-> "Panic"]}
    \cup [kind : {"Started"}, token : TxKeys]
    \cup [kind : {"StartError"}, error : {"AlreadyExists", "UserError"}]
    \cup [kind : {"Frame"}, of : TxKeys, frame : CanFrame, more : BOOLEAN]
    \cup [kind : {"TokenError"}, error : {"InvalidToken", "TransferTimeout"}]
    \cup [kind : {"TxError"},
          error : {"AnonNotSingleFrame", "ServiceNoSourceID", "ServiceNoDestinationID"}]
    \cup [kind : {"Cancelled"}, found : BOOLEAN]

Init ==
    /\ tx_transfers = EmptyMap
    /\ tx_tokens = [k \in TxKeys |-> 0]
    /\ tx_result = Unit
    /\ now = 0

GainToken(k) == tx_tokens' = [tx_tokens EXCEPT ![k] = @ + 1]
LoseToken(k) == tx_tokens' = [tx_tokens EXCEPT ![k] = @ - 1]

(* Node::start_tx_transfer at the time `now`, on payload content d. *)
StartTxTransfer(priority, port_id, tx_kind, transfer_id, use, d) ==
    LET metadata == TxMetadataOf(priority, port_id, tx_kind, transfer_id, now)
        k == HashMetadata(metadata)
        buffer == BufferAfterCallback(use, d)
    IN  \/ /\ k \in DOMAIN tx_transfers
           /\ tx_result' = [kind |-> "StartError", error |-> "AlreadyExists"]
           /\ UNCHANGED << tx_transfers, tx_tokens, now >>
        \/ /\ k \notin DOMAIN tx_transfers
           /\ use.claimed = None
           /\ tx_result' = [kind |-> "StartError", error |-> "UserError"]
           /\ UNCHANGED << tx_transfers, tx_tokens, now >>
        \/ /\ k \notin DOMAIN tx_transfers
           /\ use.claimed # None
           /\ IF CrcOverruns(buffer, ClampedClaim(use))
              THEN /\ tx_result' = [kind |-> "Panic"]
                   /\ UNCHANGED << tx_transfers, tx_tokens, now >>
              ELSE /\ tx_transfers' =
                        Insert(tx_transfers, k,
                               NewTxTransfer(metadata,
                                             ProcessTxCrc(buffer, ClampedClaim(use))))
                   /\ GainToken(k)
                   /\ tx_result' = [kind |-> "Started", token |-> k]
                   /\ UNCHANGED now

(* Node::transmit_frame.  The token is given back only with more to send. *)
TransmitOk(k) ==
    LET transfer == tx_transfers[k]
        data == RemainingData(transfer)
        consumed == transfer.consumed + ConsumeLen(data)
        more == consumed < Len(transfer.payload)
    IN  /\ TxIsActive(k)
        /\ TxErrorOf(transfer) = "Ok"
        /\ tx_result' = [kind |-> "Frame", of |-> k, more |-> more,
                         frame |-> TxFrame(transfer.transfer_metadata,
                                           transfer.transport_metadata, data, id)]
        /\ IF more
           THEN /\ tx_transfers' =
                     [tx_transfers EXCEPT
                        ![k].transport_metadata = TxMetadataNext(@),
                        ![k].consumed = consumed]
                /\ UNCHANGED << tx_tokens, now >>
           ELSE /\ tx_transfers' = Remove(tx_transfers, k)
                /\ LoseToken(k)
                /\ UNCHANGED now

(* Faulty: nothing is cleaned up after a TxError. *)
TransmitTxErrorKeeps(k) ==
    /\ TxIsActive(k)
    /\ TxErrorOf(tx_transfers[k]) # "Ok"
    /\ tx_result' = [kind |-> "TxError", error |-> TxErrorOf(tx_transfers[k])]
    /\ LoseToken(k)
    /\ UNCHANGED << tx_transfers, now >>

(* The callback consumes nothing and the transfer is cancelled, or, empty, *)
(* has already been taken for complete: either way it is gone.             *)
TransmitTxError(k) ==
    /\ TxIsActive(k)
    /\ TxErrorOf(tx_transfers[k]) # "Ok"
    /\ tx_result' = [kind |-> "TxError", error |-> TxErrorOf(tx_transfers[k])]
    /\ tx_transfers' = Remove(tx_transfers, k)
    /\ LoseToken(k)
    /\ UNCHANGED now

TransmitTokenError(k) ==
    /\ ~ TxIsActive(k)
    /\ tx_result' = [kind |-> "TokenError",
                     error |-> IF TxIsTimedOut(k) THEN "TransferTimeout" ELSE "InvalidToken"]
    /\ LoseToken(k)
    /\ UNCHANGED << tx_transfers, now >>

TransmitFrame(k) ==
    /\ tx_tokens[k] > 0
    /\ TransmitOk(k) \/ TransmitTxError(k) \/ TransmitTokenError(k)

CancelTxTransfer(k) ==
    /\ tx_tokens[k] > 0
    /\ LoseToken(k)
    /\ tx_transfers' = Remove(tx_transfers, k)
    /\ tx_result' = [kind |-> "Cancelled", found |-> k \in DOMAIN tx_transfers]
    /\ UNCHANGED now

TxExpired(k) ==
    /\ TxIsActive(k)
    /\ TimestampExpired(Timeout, now, tx_transfers[k].transfer_metadata.timestamp)

(* Faulty: what has timed out is removed from under its token. *)
UpdateTxTransfersRemoves ==
    /\ tx_transfers' = Restrict(tx_transfers, {k \in DOMAIN tx_transfers : ~ TxExpired(k)})
    /\ tx_result' = Unit
    /\ UNCHANGED << tx_tokens, now >>

(* The half of update_transfers that deals with transmissions. *)
UpdateTxTransfers ==
    /\ tx_transfers' = [k \in DOMAIN tx_transfers |->
                          IF TxExpired(k) THEN TimedOut ELSE tx_transfers[k]]
    /\ tx_result' = Unit
    /\ UNCHANGED << tx_tokens, now >>

Tick ==
    /\ now < MaxTime
    /\ now' = now + 1
    /\ UNCHANGED << tx_transfers, tx_tokens, tx_result >>

StartSome ==
    \E p \in Priorities, port \in PortIds, kind \in TransmissionTypes,
       t \in TransferIds, use \in BufferUses, d \in Data :
        StartTxTransfer(p, port, kind, t, use, d)

(* A panic ends the program. *)
Next ==
    /\ tx_result.kind # "Panic"
    /\ \/ StartSome
       \/ \E k \in TxKeys : TransmitFrame(k)
       \/ \E k \in TxKeys : CancelTxTransfer(k)
       \/ UpdateTxTransfers
       \/ Tick

Spec == Init /\ [][Next]_tx_vars

(* The loop of the example application sends every frame of a transfer it  *)
(* has started before it does anything else with it.                       *)
FairSpec == Spec /\ \A k \in TxKeys : WF_tx_vars(TransmitFrame(k))

-----------------------------------------------------------------------------
(* Properties. *)

(* Every variable has the type of its field in the code. *)
TxTypeOK ==
    /\ DOMAIN tx_transfers \subseteq TxKeys
    /\ \A k \in DOMAIN tx_transfers : tx_transfers[k] \in TxTransfer \cup {TimedOut}
    /\ tx_tokens \in [TxKeys -> Nat]
    /\ tx_result \in TxResult
    /\ now \in Timestamp

(* There is exactly one token for an active transfer and at most one for   *)
(* any key, and whoever holds a token finds an entry for it: transmit and  *)
(* cancel_tx_transfer never answer InvalidToken, and in particular the     *)
(* cancellation inside transmit_frame, whose error is dropped because "the *)
(* token should be correct" (node.rs:211), cannot fail.                    *)
TxTokensSound ==
    \A k \in TxKeys :
        /\ tx_tokens[k] <= 1
        /\ tx_tokens[k] = 1 => k \in DOMAIN tx_transfers
        /\ TxIsActive(k) => tx_tokens[k] = 1

(* An active transfer is stored under the hash of its own metadata, began  *)
(* no later than now (so the subtraction of timestamp_expired cannot       *)
(* underflow), has bytes left unless it is empty, and has consumed whole   *)
(* frames whose number its toggle and first_frame agree with.              *)
TxEntrySound(k) ==
    LET transfer == tx_transfers[k]
        sent == transfer.consumed \div FrameCapacity
    IN  /\ k = HashMetadata(transfer.transfer_metadata)
        /\ transfer.transfer_metadata.source_node_id = id
        /\ transfer.transfer_metadata.timestamp <= now
        /\ transfer.consumed = sent * FrameCapacity
        /\ transfer.consumed > 0 => transfer.consumed < Len(transfer.payload)
        /\ transfer.transport_metadata.first_frame <=> sent = 0
        /\ transfer.transport_metadata.toggle_bit <=> sent % 2 = 0

TxEntriesSound == \A k \in TxKeys : TxIsActive(k) => TxEntrySound(k)

(* transmit_frame refuses a transfer at its first frame or not at all: no  *)
(* transfer is broken off by a TxError with some of its frames already on  *)
(* the bus.                                                                *)
NoErrorMidTransfer ==
    \A k \in TxKeys :
        TxIsActive(k) /\ tx_transfers[k].consumed > 0 => TxErrorOf(tx_transfers[k]) = "Ok"

(* start_tx_transfer never panics. *)
NoPanic == tx_result.kind # "Panic"

(* A transfer is sent to its end, times out or is cancelled: calling       *)
(* transmit_frame over and over always makes progress.                     *)
TxTransfersFinish == \A k \in TxKeys : TxIsActive(k) ~> ~ TxIsActive(k)

(* The frames that repeated calls of transmit_frame will give for a        *)
(* transfer in its present state.                                          *)
RemainingFrames(transfer) ==
    LET data == RemainingData(transfer)
        count == IF IsLastFrame(data) THEN 1
                 ELSE (Len(data) + FrameCapacity - 1) \div FrameCapacity
        transport(i) ==
            [first_frame |-> i = 1 /\ transfer.transport_metadata.first_frame,
             toggle_bit |-> transfer.transport_metadata.toggle_bit <=> i % 2 = 1]
    IN  [i \in 1 .. count |->
            TxFrame(transfer.transfer_metadata, transport(i),
                    SubSeq(data, (i - 1) * FrameCapacity + 1, Len(data)), id)]

TxTodo ==
    [k \in {x \in TxKeys : TxIsActive(x) /\ TxErrorOf(tx_transfers[x]) = "Ok"} |->
        RemainingFrames(tx_transfers[k])]
TxOut == IF tx_result.kind = "Frame" THEN tx_result.frame ELSE None

Fragmentation == INSTANCE TxFragmentation WITH Keys <- TxKeys, todo <- TxTodo, out <- TxOut

(* The sending half implements TxFragmentation: what comes out of          *)
(* transmit_frame for a transfer is, frame by frame, a well-formed transfer*)
(* with its CRC, also when calls on several transfers alternate.           *)
FragmentsTransfers == Fragmentation!Spec
==============================================================================
