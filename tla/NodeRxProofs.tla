---------------------------- MODULE NodeRxProofs -----------------------------
(***************************************************************************)
(* Proofs about the receiving half of a node, for every value of the       *)
(* constants, hence for any frames in any order: its types, where its      *)
(* receptions are stored, and what a refused frame leaves alone.           *)
(***************************************************************************)
EXTENDS NodeRx, CanTransportProofs

(* What inserting into and removing from the map of receptions keep. *)
RxEntriesTyped(map) ==
    /\ DOMAIN map \subseteq RxKeys
    /\ \A k \in DOMAIN map : map[k] \in RxTransfer \cup {TimedOut}

LEMMA RxInsertTyped ==
    ASSUME NEW map, RxEntriesTyped(map), NEW k \in RxKeys, NEW v \in RxTransfer
    PROVE  RxEntriesTyped(Insert(map, k, v))
BY DEF RxEntriesTyped, Insert

LEMMA RxRemoveTyped ==
    ASSUME NEW map, RxEntriesTyped(map), NEW k
    PROVE  RxEntriesTyped(Remove(map, k))
BY DEF RxEntriesTyped, Remove, Restrict

LEMMA RxActiveTyped ==
    ASSUME RxTypeOK, NEW k \in RxKeys, RxIsActive(k)
    PROVE  rx_transfers[k] \in RxTransfer
BY DEF RxTypeOK, RxIsActive, TimedOut

LEMMA RxTokensTyped ==
    ASSUME rx_tokens \in [RxKeys -> Nat], NEW k \in RxKeys
    PROVE  /\ GainToken(k) => rx_tokens' \in [RxKeys -> Nat]
           /\ rx_tokens[k] > 0 /\ LoseToken(k) => rx_tokens' \in [RxKeys -> Nat]
BY DEF GainToken, LoseToken

(* A frame that may arrive and is correct has one of the keys. *)
LEMMA RxKeyType ==
    ASSUME NEW f \in Frames, RxProcessError(f) = "Ok", NEW time \in Timestamp
    PROVE  HashMetadata(RxTransferFrame(f, time).metadata) \in RxKeys
<1>1. f \in CanFrame /\ f.tail # None
  BY NodeRxAssumption DEF RxProcessError
<1>2. f.tail \in TailByte
  BY <1>1, RxFrameType
<1>3. HashMetadata(RxTransferFrame(f, time).metadata)
          = HashMetadata(RxMetadataOf(f.id, f.tail.transfer_id, 0))
  <2>1. f.id \in CanMessageId \cup CanServiceId /\ f.tail.transfer_id \in TransferIdField
    BY <1>1, <1>2 DEF CanFrame, TailByte
  <2> QED BY <1>1, <2>1, RxFrameType, RxMetadataOfType
<1> QED BY <1>1, <1>3 DEF RxKeys

(* An error of rx_process_frame is one the node can return. *)
LEMMA RxErrorsKnown == ASSUME NEW f PROVE RxProcessError(f) \in RxErrors \cup {"Ok"}
BY DEF RxProcessError, RxErrors

-----------------------------------------------------------------------------
(* The type invariant. *)

LEMMA RxInitTyped == Init => RxTypeOK
BY DEF Init, RxTypeOK, EmptyMap, RxResult, Unit, Timestamp

LEMMA AcceptedTyped ==
    ASSUME RxTypeOK, NEW k \in RxKeys, NEW frame, Accepted(k, frame)
    PROVE  rx_tokens' \in [RxKeys -> Nat] /\ rx_result' \in RxResult
BY RxTokensTyped DEF RxTypeOK, Accepted, RxResult

LEMMA AppendFrameTyped ==
    ASSUME RxTypeOK, NEW k \in RxKeys, NEW frame_metadata, NEW frame,
           frame_metadata.toggle_bit \in BOOLEAN, frame.payload \in Seq(Byte),
           AppendFrame(k, frame_metadata, frame)
    PROVE  RxTypeOK'
<1> DEFINE old == rx_transfers[k]
           update == UpdateRxMetadata(old.transport_metadata, frame_metadata, frame)
<1>1. old \in RxTransfer /\ k \in DOMAIN rx_transfers
  BY RxActiveTyped DEF AppendFrame, RxIsActive
<1>2. /\ update.metadata \in RxMetadata
      /\ update.error \in {"Ok", "InvalidFrameOrdering", "CrcError"}
  BY <1>1, UpdateRxMetadataType DEF RxTransfer
<1>3. CASE /\ update.error # "Ok"
           /\ rx_transfers' = [rx_transfers EXCEPT ![k].transport_metadata = update.metadata]
           /\ rx_result' = RxError(update.error)
           /\ UNCHANGED << rx_tokens, now >>
  <2> HIDE DEF update
  <2>1. [old EXCEPT !.transport_metadata = update.metadata] \in RxTransfer
    BY <1>1, <1>2 DEF RxTransfer
  <2>2. rx_transfers' =
            [rx_transfers EXCEPT ![k] = [old EXCEPT !.transport_metadata = update.metadata]]
    BY <1>1, <1>3
  <2>3. RxEntriesTyped(rx_transfers')
    BY <2>1, <2>2 DEF RxTypeOK, RxEntriesTyped
  <2>4. rx_result' \in RxResult
    BY <1>2, <1>3 DEF RxResult, RxError, RxErrors
  <2> QED BY <1>3, <2>3, <2>4 DEF RxTypeOK, RxEntriesTyped
<1>4. CASE /\ update.error = "Ok"
           /\ rx_transfers' = [rx_transfers EXCEPT
                                 ![k].transport_metadata = update.metadata,
                                 ![k].payload = @ \o frame.payload]
           /\ Accepted(k, frame)
           /\ UNCHANGED now
  <2> HIDE DEF update
  <2>1. old.payload \o frame.payload \in Seq(Byte)
    BY <1>1, ConcatProperties DEF RxTransfer
  <2>2. [old EXCEPT !.transport_metadata = update.metadata,
                    !.payload = old.payload \o frame.payload] \in RxTransfer
    BY <1>1, <1>2, <2>1 DEF RxTransfer
  <2>3. rx_transfers' =
            [rx_transfers EXCEPT
               ![k] = [old EXCEPT !.transport_metadata = update.metadata,
                                  !.payload = old.payload \o frame.payload]]
    BY <1>1, <1>4
  <2>4. RxEntriesTyped(rx_transfers')
    BY <2>2, <2>3 DEF RxTypeOK, RxEntriesTyped
  <2> QED BY <1>4, <2>4, AcceptedTyped DEF RxTypeOK, RxEntriesTyped
<1> QED BY <1>3, <1>4 DEF AppendFrame

LEMMA NewTransferTyped ==
    ASSUME RxTypeOK, NEW k \in RxKeys, NEW frame_metadata, NEW frame,
           frame_metadata.toggle_bit \in BOOLEAN, frame.payload \in Seq(Byte),
           frame.metadata \in TransferMetadata,
           NewTransfer(k, frame_metadata, frame)
    PROVE  RxTypeOK'
<1> DEFINE update == UpdateRxMetadata(RxMetadataDefault, frame_metadata, frame)
<1>1. update.metadata \in RxMetadata
  <2>1. RxMetadataDefault \in RxMetadata
    BY DEF RxMetadataDefault, RxMetadata
  <2> QED BY <2>1, UpdateRxMetadataType
<1>2. CASE /\ rx_result' = [kind |-> "Dropped"]
           /\ UNCHANGED << rx_transfers, rx_tokens, now >>
  BY <1>2 DEF RxTypeOK, RxResult
<1>3. CASE /\ rx_transfers' = Insert(rx_transfers, k, NewRxTransfer(frame, update.metadata))
           /\ Accepted(k, frame)
           /\ UNCHANGED now
  <2>1. NewRxTransfer(frame, update.metadata) \in RxTransfer
    <3> HIDE DEF update
    <3> QED BY <1>1 DEF NewRxTransfer, RxTransfer
  <2>2. RxEntriesTyped(rx_transfers')
    <3> HIDE DEF update
    <3> QED BY <1>3, <2>1, RxInsertTyped DEF RxTypeOK, RxEntriesTyped
  <2> QED BY <1>3, <2>2, AcceptedTyped DEF RxTypeOK, RxEntriesTyped
<1> QED BY <1>2, <1>3 DEF NewTransfer

LEMMA ReceiveFrameTyped ==
    ASSUME RxTypeOK, NEW f \in Frames, ReceiveFrame(f)
    PROVE  RxTypeOK'
<1> DEFINE frame == RxTransferFrame(f, now)
           frame_metadata == RxFrameMetadata(f)
           k == HashMetadata(frame.metadata)
<1>1. CASE RejectFrame(f)
  <2>1. RxProcessError(f) \in RxErrors
    BY <1>1, RxErrorsKnown DEF RejectFrame
  <2> QED BY <1>1, <2>1 DEF RejectFrame, RxTypeOK, RxResult, RxError
<1>2. CASE IgnoreFrame(frame)
  BY <1>2 DEF IgnoreFrame, RxTypeOK, RxResult
<1>3. CASE RxProcessError(f) = "Ok" /\ TakeFrame(frame_metadata, frame)
  <2>1. /\ f \in CanFrame /\ f.tail \in TailByte
        /\ frame.payload \in Seq(Byte) /\ frame.metadata \in TransferMetadata
        /\ frame_metadata.toggle_bit = f.tail.toggle
    BY <1>3, RxFrameType, NodeRxAssumption DEF RxTypeOK
  <2>2. frame_metadata.toggle_bit \in BOOLEAN
    BY <2>1 DEF TailByte
  <2>3. k \in RxKeys
    BY <1>3, RxKeyType DEF RxTypeOK
  <2> HIDE DEF frame, frame_metadata
  <2>4. CASE /\ rx_result' \in {RxError(e) : e \in RxErrors}
             /\ UNCHANGED << rx_transfers, rx_tokens, now >>
    BY <2>4 DEF RxTypeOK, RxResult, RxError
  <2>5. CASE AppendFrame(k, frame_metadata, frame)
    BY <2>1, <2>2, <2>3, <2>5, AppendFrameTyped
  <2>6. CASE NewTransfer(k, frame_metadata, frame)
    BY <2>1, <2>2, <2>3, <2>6, NewTransferTyped
  <2> QED BY <1>3, <2>4, <2>5, <2>6
          DEF TakeFrame, AppendToTimedOut, NewSessionNoStart, RxErrors
<1> QED BY <1>1, <1>2, <1>3 DEF ReceiveFrame

LEMMA WithRxTransferTyped ==
    ASSUME RxTypeOK, NEW k \in RxKeys, WithRxTransfer(k)
    PROVE  RxTypeOK'
<1>1. rx_tokens' \in [RxKeys -> Nat]
  BY RxTokensTyped DEF RxTypeOK, WithRxTransfer
<1>2. rx_result' \in RxResult
  <2>1. CASE RxIsActive(k)
    BY <2>1, RxActiveTyped DEF WithRxTransfer, RxResult, RxTransfer
  <2>2. CASE ~ RxIsActive(k)
    BY <2>2 DEF WithRxTransfer, RxResult
  <2> QED BY <2>1, <2>2
<1> QED BY <1>1, <1>2 DEF WithRxTransfer, RxTypeOK

LEMMA CancelRxTransferTyped ==
    ASSUME RxTypeOK, NEW k \in RxKeys, CancelRxTransfer(k)
    PROVE  RxTypeOK'
<1>1. rx_tokens' \in [RxKeys -> Nat]
  BY RxTokensTyped DEF RxTypeOK, CancelRxTransfer
<1>2. RxEntriesTyped(rx_transfers')
  BY RxRemoveTyped DEF RxTypeOK, RxEntriesTyped, CancelRxTransfer
<1>3. rx_result' \in RxResult
  BY DEF CancelRxTransfer, RxResult
<1> QED BY <1>1, <1>2, <1>3 DEF CancelRxTransfer, RxTypeOK, RxEntriesTyped

LEMMA RxNextTyped == RxTypeOK /\ [Next]_rx_vars => RxTypeOK'
<1> SUFFICES ASSUME RxTypeOK, [Next]_rx_vars PROVE RxTypeOK'
  OBVIOUS
<1>1. ASSUME NEW f \in Frames, ReceiveFrame(f) PROVE RxTypeOK'
  BY <1>1, ReceiveFrameTyped
<1>2. ASSUME NEW k \in RxKeys, WithRxTransfer(k) PROVE RxTypeOK'
  BY <1>2, WithRxTransferTyped
<1>3. ASSUME NEW k \in RxKeys, CancelRxTransfer(k) PROVE RxTypeOK'
  BY <1>3, CancelRxTransferTyped
<1>4. CASE UpdateRxTransfers
  BY <1>4 DEF UpdateRxTransfers, RxTypeOK, RxResult, Unit
<1>5. CASE Tick
  BY <1>5 DEF Tick, RxTypeOK, Timestamp
<1>6. CASE UNCHANGED rx_vars
  BY <1>6 DEF rx_vars, RxTypeOK
<1> QED BY <1>1, <1>2, <1>3, <1>4, <1>5, <1>6 DEF Next

(* Every variable has the type of its field in the code, whatever frames   *)
(* arrive: a frame of any length and identifier makes rx_process_frame     *)
(* (legacy.rs:139-241) neither slice out of bounds nor build metadata that *)
(* the transfer manager could not hold.                                    *)
THEOREM RxTypeCorrect == Spec => []RxTypeOK
<1>1. Init => RxTypeOK
  BY RxInitTyped
<1>2. RxTypeOK /\ [Next]_rx_vars => RxTypeOK'
  BY RxNextTyped
<1> QED BY <1>1, <1>2, PTL DEF Spec

-----------------------------------------------------------------------------
(* Where receptions come from. *)

(* An entry is active after a step because a frame for this node has just  *)
(* begun it, or because it was active before: only its transport metadata  *)
(* and its payload can have changed since.                                 *)
Begun(k) ==
    LET metadata == rx_transfers'[k].transfer_metadata
    IN  /\ k = HashMetadata(metadata)
        /\ metadata.timestamp = now
        /\ metadata.destination_node_id \in {None, id}

Kept(k) ==
    /\ RxIsActive(k)
    /\ rx_transfers'[k].transfer_metadata = rx_transfers[k].transfer_metadata

LEMMA AppendFrameKeeps ==
    ASSUME RxTypeOK, NEW k \in RxKeys, NEW other \in RxKeys,
           NEW frame_metadata, NEW frame,
           AppendFrame(other, frame_metadata, frame)
    PROVE  /\ DOMAIN rx_transfers' = DOMAIN rx_transfers
           /\ RxIsActive(k)' <=> RxIsActive(k)
           /\ RxIsActive(k) => Kept(k)
           /\ RxIsActive(k) /\ rx_result'.kind = "RxError" =>
                 rx_transfers'[k].payload = rx_transfers[k].payload
<1> DEFINE update == UpdateRxMetadata(rx_transfers[other].transport_metadata,
                                      frame_metadata, frame)
<1>1. rx_transfers[other] \in RxTransfer /\ other \in DOMAIN rx_transfers
  BY RxActiveTyped DEF AppendFrame, RxIsActive
<1>2. CASE /\ rx_transfers' = [rx_transfers EXCEPT
                                 ![other].transport_metadata = update.metadata]
           /\ rx_result' = RxError(update.error)
  <2> HIDE DEF update
  <2> QED BY <1>1, <1>2 DEF RxIsActive, Kept, RxTransfer
<1>3. CASE /\ rx_transfers' = [rx_transfers EXCEPT
                                 ![other].transport_metadata = update.metadata,
                                 ![other].payload = @ \o frame.payload]
           /\ Accepted(other, frame)
  <2> HIDE DEF update
  <2>1. rx_result'.kind # "RxError"
    BY <1>3 DEF Accepted
  <2> QED BY <1>1, <1>3, <2>1 DEF RxIsActive, Kept, RxTransfer
<1> QED BY <1>2, <1>3 DEF AppendFrame

LEMMA NewTransferBegins ==
    ASSUME RxTypeOK, NEW f \in Frames, RxProcessError(f) = "Ok",
           ~ IsForOthers(RxTransferFrame(f, now).metadata),
           ~ HasRemoteId(RxTransferFrame(f, now).metadata),
           NEW k \in RxKeys, RxIsActive(k)',
           NewTransfer(HashMetadata(RxTransferFrame(f, now).metadata),
                       RxFrameMetadata(f), RxTransferFrame(f, now))
    PROVE  Begun(k) \/ Kept(k)
<1> DEFINE frame == RxTransferFrame(f, now)
           begun == HashMetadata(frame.metadata)
           update == UpdateRxMetadata(RxMetadataDefault, RxFrameMetadata(f), frame)
<1>1. CASE UNCHANGED rx_transfers
  BY <1>1 DEF Kept, RxIsActive
<1>2. CASE rx_transfers' = Insert(rx_transfers, begun, NewRxTransfer(frame, update.metadata))
  <2>1. frame.metadata = RxMetadataOf(f.id, f.tail.transfer_id, now)
    BY DEF RxTransferFrame
  <2>2. frame.metadata.timestamp = now
    BY <2>1 DEF RxMetadataOf
  <2>3. frame.metadata.destination_node_id \in {None, id}
    BY DEF IsForOthers, HasRemoteId
  <2> HIDE DEF frame, update
  <2>4. CASE k = begun
    <3>1. rx_transfers'[k].transfer_metadata = frame.metadata
      BY <1>2, <2>4 DEF Insert, NewRxTransfer
    <3> QED BY <2>2, <2>3, <2>4, <3>1 DEF Begun
  <2>5. CASE k # begun
    BY <1>2, <2>5 DEF Insert, RxIsActive, Kept
  <2> QED BY <2>4, <2>5
<1> QED BY <1>1, <1>2 DEF NewTransfer

LEMMA RxActiveOrigin ==
    ASSUME RxTypeOK, [Next]_rx_vars, NEW k \in RxKeys, RxIsActive(k)'
    PROVE  Begun(k) \/ Kept(k)
<1>1. ASSUME NEW f \in Frames, ReceiveFrame(f) PROVE Begun(k) \/ Kept(k)
  <2> DEFINE frame == RxTransferFrame(f, now)
             other == HashMetadata(frame.metadata)
  <2>1. CASE UNCHANGED rx_transfers
    BY <2>1 DEF Kept, RxIsActive
  <2>2. CASE RxProcessError(f) = "Ok" /\ AppendFrame(other, RxFrameMetadata(f), frame)
    <3>1. other \in RxKeys
      BY <2>2, RxKeyType DEF RxTypeOK
    <3> HIDE DEF other, frame
    <3> QED BY <2>2, <3>1, AppendFrameKeeps
  <2>3. CASE /\ RxProcessError(f) = "Ok"
             /\ ~ IsForOthers(frame.metadata) /\ ~ HasRemoteId(frame.metadata)
             /\ NewTransfer(other, RxFrameMetadata(f), frame)
    BY <2>3, NewTransferBegins
  <2> HIDE DEF frame
  <2> QED BY <1>1, <2>1, <2>2, <2>3
          DEF ReceiveFrame, RejectFrame, IgnoreFrame, TakeFrame, AppendToTimedOut,
              NewSessionNoStart, frame
<1>2. ASSUME NEW other \in RxKeys, WithRxTransfer(other) PROVE Kept(k)
  BY <1>2 DEF WithRxTransfer, Kept, RxIsActive
<1>3. ASSUME NEW other \in RxKeys, CancelRxTransfer(other) PROVE Kept(k)
  BY <1>3 DEF CancelRxTransfer, Kept, RxIsActive, Remove, Restrict
<1>4. CASE UpdateRxTransfers
  BY <1>4 DEF UpdateRxTransfers, Kept, RxIsActive, TimedOut
<1>5. CASE Tick \/ UNCHANGED rx_vars
  BY <1>5 DEF Tick, rx_vars, Kept, RxIsActive
<1> QED BY <1>1, <1>2, <1>3, <1>4, <1>5 DEF Next

(* The clock does not go back. *)
LEMMA TimePasses == RxTypeOK /\ [Next]_rx_vars => now' \in Nat /\ now' >= now
<1> SUFFICES ASSUME RxTypeOK, [Next]_rx_vars PROVE now' \in Nat /\ now' >= now
  OBVIOUS
<1>1. now \in Nat
  BY SMTT(30) DEF RxTypeOK, Timestamp
<1>2. now' = now \/ now' = now + 1
  BY DEF Next, ReceiveFrame, RejectFrame, IgnoreFrame, TakeFrame, AppendToTimedOut,
         AppendFrame, NewSessionNoStart, NewTransfer, WithRxTransfer,
         CancelRxTransfer, UpdateRxTransfers, Tick, rx_vars
<1> QED BY <1>1, <1>2

LEMMA RxNextKeepsEntries ==
    RxTypeOK /\ RxEntriesSound /\ [Next]_rx_vars => RxEntriesSound'
<1> SUFFICES ASSUME RxTypeOK, RxEntriesSound, [Next]_rx_vars,
                    NEW k \in RxKeys, RxIsActive(k)'
             PROVE  RxEntrySound(k)'
  BY DEF RxEntriesSound
<1>1. now \in Nat /\ now' \in Nat /\ now' >= now
  BY TimePasses DEF RxTypeOK, Timestamp
<1>2. CASE Begun(k)
  BY <1>1, <1>2 DEF Begun, RxEntrySound
<1>3. CASE Kept(k)
  <2>1. RxEntrySound(k)
    BY <1>3 DEF Kept, RxEntriesSound
  <2>2. rx_transfers[k].transfer_metadata.timestamp \in Nat
    BY <1>3, RxActiveTyped DEF Kept, RxTransfer, TransferMetadata, Timestamp
  <2> QED BY <1>1, <1>3, <2>1, <2>2 DEF Kept, RxEntrySound
<1> QED BY <1>2, <1>3, RxActiveOrigin

(* Every reception is stored under the hash of its own metadata, was begun *)
(* no later than now (the subtraction of timestamp_expired, manager.rs,    *)
(* does not underflow) and is for this node or for all (node.rs:69-79).    *)
THEOREM RxEntriesCorrect == Spec => []RxEntriesSound
<1>1. Init => RxTypeOK /\ RxEntriesSound
  BY RxInitTyped DEF Init, RxEntriesSound, RxIsActive, EmptyMap
<1>2. RxTypeOK /\ RxEntriesSound /\ [Next]_rx_vars => RxTypeOK' /\ RxEntriesSound'
  BY RxNextTyped, RxNextKeepsEntries
<1> QED BY <1>1, <1>2, PTL DEF Spec

-----------------------------------------------------------------------------
(* The results of calls. *)

LEMMA ReceiveNeverDrops ==
    ASSUME RxTypeOK, NEW f \in Frames, ReceiveFrame(f)
    PROVE  rx_result'.kind # "Dropped"
<1> DEFINE frame == RxTransferFrame(f, now)
           k == HashMetadata(frame.metadata)
<1>1. CASE RxProcessError(f) = "Ok" /\ NewTransfer(k, RxFrameMetadata(f), frame)
  <2>1. f \in CanFrame /\ f.tail.start
    BY <1>1, NodeRxAssumption DEF NewTransfer, RxTransferFrame
  <2>2. UpdateRxMetadata(RxMetadataDefault, RxFrameMetadata(f), frame).error = "Ok"
    BY <1>1, <2>1, FirstFrameAccepted
  <2> HIDE DEF frame, k
  <2> QED BY <1>1, <2>2 DEF NewTransfer, Accepted
<1>2. CASE AppendFrame(k, RxFrameMetadata(f), frame)
  BY <1>2 DEF AppendFrame, Accepted, RxError
<1> HIDE DEF frame
<1>3. CASE \/ RejectFrame(f) \/ IgnoreFrame(frame) \/ AppendToTimedOut(k)
           \/ NewSessionNoStart(k, frame) \/ rx_result' = RxError("MessageWithRemoteId")
  BY <1>3 DEF RejectFrame, IgnoreFrame, AppendToTimedOut, NewSessionNoStart, RxError
<1> QED BY <1>1, <1>2, <1>3 DEF ReceiveFrame, TakeFrame, frame

(* The errors of update_rx_metadata that try_receive_frame would swallow   *)
(* (node.rs:123) do not come: no first frame that gets as far as           *)
(* new_transfer is dropped, whatever arrived before it.                    *)
THEOREM FirstFramesAreTaken == Spec => []NewTransferNeverFails
<1>1. Init => RxTypeOK /\ NewTransferNeverFails
  BY RxInitTyped DEF Init, NewTransferNeverFails, Unit
<1>2. RxTypeOK /\ NewTransferNeverFails /\ [Next]_rx_vars => NewTransferNeverFails'
  <2> SUFFICES ASSUME RxTypeOK, NewTransferNeverFails, [Next]_rx_vars
               PROVE  NewTransferNeverFails'
    OBVIOUS
  <2>1. ASSUME NEW f \in Frames, ReceiveFrame(f) PROVE NewTransferNeverFails'
    BY <2>1, ReceiveNeverDrops DEF NewTransferNeverFails
  <2>2. ASSUME NEW k \in RxKeys, WithRxTransfer(k) \/ CancelRxTransfer(k)
        PROVE  NewTransferNeverFails'
    BY <2>2 DEF WithRxTransfer, CancelRxTransfer, NewTransferNeverFails
  <2>3. CASE UpdateRxTransfers \/ Tick \/ UNCHANGED rx_vars
    BY <2>3 DEF UpdateRxTransfers, Tick, rx_vars, Unit, NewTransferNeverFails
  <2> QED BY <2>1, <2>2, <2>3 DEF Next
<1> QED BY <1>1, <1>2, RxNextTyped, PTL DEF Spec

-----------------------------------------------------------------------------
(* What a refused frame leaves alone. *)

Refused == rx_result'.kind = "RxError"

PayloadsKept ==
    /\ DOMAIN rx_transfers' = DOMAIN rx_transfers
    /\ \A k \in RxKeys : /\ RxIsActive(k)' <=> RxIsActive(k)
                         /\ PayloadOf(k)' = PayloadOf(k)

LEMMA UnchangedKeepsPayloads == UNCHANGED rx_transfers => PayloadsKept
BY DEF PayloadsKept, PayloadOf, RxIsActive

LEMMA RefusedAppendKeepsPayloads ==
    ASSUME RxTypeOK, NEW other \in RxKeys, NEW frame_metadata, NEW frame,
           AppendFrame(other, frame_metadata, frame), Refused
    PROVE  PayloadsKept
<1>1. DOMAIN rx_transfers' = DOMAIN rx_transfers
  BY AppendFrameKeeps
<1>2. ASSUME NEW k \in RxKeys
      PROVE  (RxIsActive(k)' <=> RxIsActive(k)) /\ PayloadOf(k)' = PayloadOf(k)
  BY AppendFrameKeeps DEF Refused, PayloadOf
<1> QED BY <1>1, <1>2 DEF PayloadsKept

LEMMA RefusedKeeps ==
    ASSUME RxTypeOK, [Next]_rx_vars, Refused,
           ~ UNCHANGED << rx_transfers, rx_result >>
    PROVE  PayloadsKept
<1>1. ASSUME NEW f \in Frames, ReceiveFrame(f) PROVE PayloadsKept
  <2> DEFINE frame == RxTransferFrame(f, now)
             k == HashMetadata(frame.metadata)
  <2>1. CASE UNCHANGED rx_transfers
    BY <2>1, UnchangedKeepsPayloads
  <2>2. CASE RxProcessError(f) = "Ok" /\ AppendFrame(k, RxFrameMetadata(f), frame)
    <3>1. k \in RxKeys
      BY <2>2, RxKeyType DEF RxTypeOK
    <3> HIDE DEF k, frame
    <3> QED BY <2>2, <3>1, RefusedAppendKeepsPayloads
  <2>3. CASE NewTransfer(k, RxFrameMetadata(f), frame)
    <3> HIDE DEF k, frame
    <3>1. rx_result'.kind # "RxError"
      BY <2>3 DEF NewTransfer, Accepted
    <3> QED BY <3>1 DEF Refused
  <2> HIDE DEF frame
  <2> QED BY <1>1, <2>1, <2>2, <2>3
          DEF ReceiveFrame, RejectFrame, IgnoreFrame, TakeFrame, AppendToTimedOut,
              NewSessionNoStart, frame
<1>2. ASSUME NEW k \in RxKeys, WithRxTransfer(k) \/ CancelRxTransfer(k) PROVE FALSE
  BY <1>2 DEF Refused, WithRxTransfer, CancelRxTransfer
<1>3. CASE UpdateRxTransfers
  BY <1>3 DEF Refused, UpdateRxTransfers, Unit
<1>4. CASE Tick \/ UNCHANGED rx_vars
  BY <1>4 DEF Tick, rx_vars
<1> QED BY <1>1, <1>2, <1>3, <1>4 DEF Next

(* No frame that is answered with an error, of whatever transfer and in    *)
(* whatever order, changes the bytes kept of any transfer, nor makes,      *)
(* expires or removes one: append_frame (map_manager.rs) checks first and  *)
(* appends then.                                                           *)
THEOREM RefusedFramesKeepPayloads == Spec => RefusedFrameKeepsPayloads
<1>1. Init => RxTypeOK
  BY RxInitTyped
<1>2. RxTypeOK /\ [Next]_rx_vars => RxTypeOK'
  BY RxNextTyped
<1>3. RxTypeOK /\ [Next]_rx_vars => [Refused => PayloadsKept]_<< rx_transfers, rx_result >>
  BY RefusedKeeps
<1>4. Spec => [][Refused => PayloadsKept]_<< rx_transfers, rx_result >>
  BY <1>1, <1>2, <1>3, PTL DEF Spec
<1> QED BY <1>4 DEF RefusedFrameKeepsPayloads, Refused, PayloadsKept
=============================================================================
