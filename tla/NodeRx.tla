------------------------------- MODULE NodeRx --------------------------------
(***************************************************************************)
(* The receiving half of a node: Node::try_receive_frame (node.rs) on top  *)
(* of the receptions that MapTransferManager keeps                         *)
(* (transfer/map_manager.rs).                                              *)
(*                                                                         *)
(* Any frame of Frames may arrive at any time: nothing is assumed here of  *)
(* the nodes that send them.                                               *)
(***************************************************************************)
EXTENDS CanTransport

CONSTANTS
    id,               \* Node::id, a node id or None for an anonymous node
    Frames,           \* frames that may arrive
    Timeout,          \* duration the application passes to update_transfers
    MaxTime,          \* bound on the clock
    MaxBytes          \* bound on the bytes kept of a transfer

ASSUME NodeRxAssumption ==
    /\ id \in NodeId \cup {None}
    /\ Frames \subseteq CanFrame
    /\ Timeout \in Duration
    /\ MaxTime \in Nat
    /\ MaxBytes \in Nat

VARIABLES
    rx_transfers,     \* the map of receptions
    rx_tokens,        \* number of RxTokens the application holds, by key
    rx_result,        \* what the last call returned
    now               \* the clock

rx_vars == << rx_transfers, rx_tokens, rx_result, now >>

-----------------------------------------------------------------------------
(* The tokens the arriving frames can give rise to. *)
RxKeys ==
    {HashMetadata(RxMetadataOf(f.id, f.tail.transfer_id, 0)) :
        f \in {g \in Frames : g.tail # None}}

RxTransfer ==
    [status : {"Active"}, transfer_metadata : TransferMetadata,
     transport_metadata : RxMetadata, payload : Seq(Byte)]

TimedOut == [status |-> "TimedOut"]

NewRxTransfer(frame, transport_metadata) ==
    [status |-> "Active", transfer_metadata |-> frame.metadata,
     transport_metadata |-> transport_metadata, payload |-> frame.payload]

RxIsActive(k) == k \in DOMAIN rx_transfers /\ rx_transfers[k].status = "Active"
RxIsTimedOut(k) == k \in DOMAIN rx_transfers /\ rx_transfers[k].status = "TimedOut"

RxErrors ==
    {"FrameEmpty", "InvalidPayload", "TransferStartMissingToggle",
     "NonLastUnderUtilization", "AnonNotSingleFrame", "InvalidCanId",
     "MessageWithRemoteId", "NewSessionNoStart", "Timeout",
     "InvalidFrameOrdering", "CrcError"}

(* What the application's calls return.  "Nothing" is Ok(None);  "Dropped" *)
(* is the Ok(None) that hides an error of new_transfer.                    *)
Unit == [kind |-> "Unit"]

RxResult ==
    {Unit, [kind |-> "Nothing"], [kind |-> "Dropped"]}
    \cup [kind : {"RxError"}, error : RxErrors]
    \cup [kind : {"Token"}, token : RxKeys]
    \cup [kind : {"Read"}, metadata : TransferMetadata, payload : Seq(Byte)]
    \cup [kind : {"TokenError"}, error : {"InvalidToken", "TransferTimeout"}]
    \cup [kind : {"Cancelled"}, found : BOOLEAN]

RxError(error) == [kind |-> "RxError", error |-> error]

Init ==
    /\ rx_transfers = EmptyMap
    /\ rx_tokens = [k \in RxKeys |-> 0]
    /\ rx_result = Unit
    /\ now = 0

GainToken(k) == rx_tokens' = [rx_tokens EXCEPT ![k] = @ + 1]
LoseToken(k) == rx_tokens' = [rx_tokens EXCEPT ![k] = @ - 1]

(* The application gets a token with the last frame of a transfer.         *)
Accepted(k, frame) ==
    IF frame.last_frame
    THEN GainToken(k) /\ rx_result' = [kind |-> "Token", token |-> k]
    ELSE UNCHANGED rx_tokens /\ rx_result' = [kind |-> "Nothing"]

-----------------------------------------------------------------------------
(* Node::try_receive_frame, by the way it goes. *)

(* rx_process_frame fails. *)
RejectFrame(can_frame) ==
    /\ RxProcessError(can_frame) # "Ok"
    /\ rx_result' = RxError(RxProcessError(can_frame))
    /\ UNCHANGED << rx_transfers, rx_tokens, now >>

(* Faulty: ignores what is for this node, and takes the rest. *)
IsForOthersInverted(metadata) ==
    metadata.transfer_kind # "Message" /\ metadata.destination_node_id = id

(* A service transfer for another node, or for an anonymous one. *)
IsForOthers(metadata) ==
    /\ metadata.transfer_kind # "Message"
    /\ metadata.destination_node_id \notin {None, id}

HasRemoteId(metadata) ==
    metadata.transfer_kind = "Message" /\ metadata.destination_node_id # None

IgnoreFrame(frame) ==
    /\ IsForOthers(frame.metadata)
    /\ rx_result' = [kind |-> "Nothing"]
    /\ UNCHANGED << rx_transfers, rx_tokens, now >>

(* Faulty: a timed-out transfer makes room when its next frame comes. *)
AppendToTimedOutRemoves(k) ==
    /\ RxIsTimedOut(k)
    /\ rx_result' = RxError("Timeout")
    /\ rx_transfers' = Remove(rx_transfers, k)
    /\ UNCHANGED << rx_tokens, now >>

(* append_frame finds a transfer. *)
AppendToTimedOut(k) ==
    /\ RxIsTimedOut(k)
    /\ rx_result' = RxError("Timeout")
    /\ UNCHANGED << rx_transfers, rx_tokens, now >>

AppendFrame(k, frame_metadata, frame) ==
    LET update == UpdateRxMetadata(rx_transfers[k].transport_metadata,
                                   frame_metadata, frame)
    IN  /\ RxIsActive(k)
        /\ \/ /\ update.error # "Ok"
              /\ rx_transfers' = [rx_transfers EXCEPT
                                    ![k].transport_metadata = update.metadata]
              /\ rx_result' = RxError(update.error)
              /\ UNCHANGED << rx_tokens, now >>
           \/ /\ update.error = "Ok"
              /\ rx_transfers' = [rx_transfers EXCEPT
                                    ![k].transport_metadata = update.metadata,
                                    ![k].payload = @ \o frame.payload]
              /\ Accepted(k, frame)
              /\ UNCHANGED now

(* append_frame finds none. *)
NewSessionNoStart(k, frame) ==
    /\ k \notin DOMAIN rx_transfers
    /\ ~ frame.first_frame
    /\ rx_result' = RxError("NewSessionNoStart")
    /\ UNCHANGED << rx_transfers, rx_tokens, now >>

NewTransfer(k, frame_metadata, frame) ==
    LET update == UpdateRxMetadata(RxMetadataDefault, frame_metadata, frame)
    IN  /\ k \notin DOMAIN rx_transfers
        /\ frame.first_frame
        /\ IF update.error # "Ok"
           THEN /\ rx_result' = [kind |-> "Dropped"]
                /\ UNCHANGED << rx_transfers, rx_tokens >>
           ELSE /\ rx_transfers' = Insert(rx_transfers, k,
                                          NewRxTransfer(frame, update.metadata))
                /\ Accepted(k, frame)
        /\ UNCHANGED now

TakeFrame(frame_metadata, frame) ==
    LET k == HashMetadata(frame.metadata)
    IN  /\ ~ IsForOthers(frame.metadata)
        /\ IF HasRemoteId(frame.metadata)
           THEN /\ rx_result' = RxError("MessageWithRemoteId")
                /\ UNCHANGED << rx_transfers, rx_tokens, now >>
           ELSE \/ AppendToTimedOut(k)
                \/ AppendFrame(k, frame_metadata, frame)
                \/ NewSessionNoStart(k, frame)
                \/ NewTransfer(k, frame_metadata, frame)

ReceiveFrame(can_frame) ==
    \/ RejectFrame(can_frame)
    \/ /\ RxProcessError(can_frame) = "Ok"
       /\ \/ IgnoreFrame(RxTransferFrame(can_frame, now))
          \/ TakeFrame(RxFrameMetadata(can_frame), RxTransferFrame(can_frame, now))

-----------------------------------------------------------------------------
(* The application's calls on the transfer manager. *)

(* The callback reads the transfer.  The token is gone, the transfer stays. *)
WithRxTransfer(k) ==
    /\ rx_tokens[k] > 0
    /\ LoseToken(k)
    /\ rx_result' =
         IF RxIsActive(k)
         THEN [kind |-> "Read", metadata |-> rx_transfers[k].transfer_metadata,
               payload |-> rx_transfers[k].payload]
         ELSE [kind |-> "TokenError",
               error |-> IF RxIsTimedOut(k) THEN "TransferTimeout" ELSE "InvalidToken"]
    /\ UNCHANGED << rx_transfers, now >>

CancelRxTransfer(k) ==
    /\ rx_tokens[k] > 0
    /\ LoseToken(k)
    /\ rx_transfers' = Remove(rx_transfers, k)
    /\ rx_result' = [kind |-> "Cancelled", found |-> k \in DOMAIN rx_transfers]
    /\ UNCHANGED now

RxExpired(k) ==
    /\ RxIsActive(k)
    /\ TimestampExpired(Timeout, now, rx_transfers[k].transfer_metadata.timestamp)

(* The half of update_transfers that deals with receptions. *)
UpdateRxTransfers ==
    /\ rx_transfers' = [k \in DOMAIN rx_transfers |->
                          IF RxExpired(k) THEN TimedOut ELSE rx_transfers[k]]
    /\ rx_result' = Unit
    /\ UNCHANGED << rx_tokens, now >>

Tick ==
    /\ now < MaxTime
    /\ now' = now + 1
    /\ UNCHANGED << rx_transfers, rx_tokens, rx_result >>

WithinBounds ==
    \A k \in DOMAIN rx_transfers :
        RxIsActive(k) => /\ Len(rx_transfers[k].payload) <= MaxBytes
                         /\ Len(rx_transfers[k].transport_metadata.crc) <= MaxBytes
                         /\ rx_tokens[k] <= 1

Next ==
    \/ WithinBounds /\ \E f \in Frames : ReceiveFrame(f)
    \/ \E k \in RxKeys : WithRxTransfer(k)
    \/ \E k \in RxKeys : CancelRxTransfer(k)
    \/ UpdateRxTransfers
    \/ Tick

Spec == Init /\ [][Next]_rx_vars

(* The clock runs, and the application does its housekeeping.              *)
FairSpec == Spec /\ WF_rx_vars(UpdateRxTransfers) /\ WF_rx_vars(Tick)

-----------------------------------------------------------------------------
(* Properties. *)

(* Every variable has the type of its field in the code. *)
RxTypeOK ==
    /\ DOMAIN rx_transfers \subseteq RxKeys
    /\ \A k \in DOMAIN rx_transfers : rx_transfers[k] \in RxTransfer \cup {TimedOut}
    /\ rx_tokens \in [RxKeys -> Nat]
    /\ rx_result \in RxResult
    /\ now \in Timestamp

(* A reception is stored under the hash of its own metadata, was begun no  *)
(* later than now (so the subtraction of timestamp_expired cannot          *)
(* underflow) and is addressed to this node or to all.                     *)
RxEntrySound(k) ==
    LET metadata == rx_transfers[k].transfer_metadata
    IN  /\ k = HashMetadata(metadata)
        /\ metadata.timestamp <= now
        /\ metadata.destination_node_id \in {None, id}

RxEntriesSound == \A k \in RxKeys : RxIsActive(k) => RxEntrySound(k)

(* The arm of try_receive_frame that swallows an error of                  *)
(* update_rx_metadata (node.rs:123) is never taken: every first frame that *)
(* gets as far as new_transfer starts a transfer.  (That new_transfer      *)
(* finds the entry there already, map_manager.rs:101, cannot be:           *)
(* append_frame has just answered that it is not.)                         *)
NewTransferNeverFails == rx_result.kind # "Dropped"

PayloadOf(k) == IF RxIsActive(k) THEN rx_transfers[k].payload ELSE << >>

(* A frame that is answered with an error changes no payload, and neither  *)
(* creates, expires nor removes a transfer: what is kept of a transfer was *)
(* accepted.                                                               *)
RefusedFrameKeepsPayloads ==
    [][rx_result'.kind = "RxError" =>
         /\ DOMAIN rx_transfers' = DOMAIN rx_transfers
         /\ \A k \in RxKeys : /\ RxIsActive(k)' <=> RxIsActive(k)
                              /\ PayloadOf(k)' = PayloadOf(k)]_<< rx_transfers, rx_result >>

(* The manager frees what nobody can use any more: a transfer that the     *)
(* application has read, with whose token it goes, and, in                 *)
(* update_transfers, a timed-out reception that nobody has a token of.     *)
MemoryIsFreed ==
    /\ rx_result.kind = "Read" => HashMetadata(rx_result.metadata) \notin DOMAIN rx_transfers
    /\ \A k \in DOMAIN rx_transfers : RxIsTimedOut(k) => rx_tokens[k] > 0

(* No stream of frames keeps a reception alive: each is read and removed,  *)
(* or times out, once the timeout after its first frame is over.           *)
RxTransfersExpire ==
    \A k \in RxKeys :
        RxIsActive(k) /\ now + Timeout < MaxTime ~> ~ RxIsActive(k)
==============================================================================
