---------------------------- MODULE NodeTxProofs -----------------------------
(***************************************************************************)
(* Proofs about the sending half of a node, for every value of the         *)
(* constants: its types, the discipline of its tokens, and that it         *)
(* implements TxFragmentation, whatever the frame size, the payloads and   *)
(* the number of transfers under way.                                      *)
(***************************************************************************)
EXTENDS NodeTx, CanTransportProofs

(* The buffer a callback has written, and the part of it that it claims.   *)
LEMMA BufferType ==
    ASSUME NEW use \in BufferUse, use.claimed # None, NEW d \in Data
    PROVE  /\ BufferAfterCallback(use, d) \in Seq(Byte)
           /\ ClampedClaim(use) \in Nat
           /\ ClampedClaim(use) <= Len(BufferAfterCallback(use, d))
<1> DEFINE size == GetCrcPaddedSize(use.requested)
           buffer == BufferAfterCallback(use, d)
<1>1. size \in Nat /\ use.requested \in Nat /\ use.claimed \in Nat
  BY CanAssumption DEF GetCrcPaddedSize, BufferUse
<1>2. buffer \in Seq(Byte) /\ Len(buffer) = size
  <2>1. ASSUME NEW i \in 1 .. size
        PROVE  (IF i <= use.requested /\ i <= use.claimed
                THEN Written(d, use.requested)[i] ELSE ZeroByte) \in Byte
    BY <1>1, <2>1 DEF Written, ZeroByte, Byte
  <2> QED BY <1>1, <2>1 DEF BufferAfterCallback
<1> QED BY <1>1, <1>2 DEF ClampedClaim

(* What process_tx_crc makes of it are bytes. *)
LEMMA PayloadType ==
    ASSUME NEW use \in BufferUse, use.claimed # None, NEW d \in Data
    PROVE  ProcessTxCrc(BufferAfterCallback(use, d), ClampedClaim(use)) \in Seq(Byte)
<1> DEFINE payload == SubSeq(BufferAfterCallback(use, d), 1, ClampedClaim(use))
<1>1. payload \in Seq(Byte)
  BY BufferType, SubSeqType
<1>2. payload \o Crc(payload) \in Seq(Byte)
  <2> HIDE DEF payload
  <2>1. Crc(payload) \in Seq(Byte)
    BY <1>1, CrcType
  <2> QED BY <1>1, <2>1, ConcatProperties
<1> QED BY <1>1, <1>2 DEF ProcessTxCrc

(* The metadata an application's choices give rise to, and their token,    *)
(* which does not depend on the time.                                      *)
LEMMA MetadataType ==
    ASSUME NEW p \in Priorities, NEW port \in PortIds, NEW kind \in TransmissionTypes,
           NEW t \in TransferIds, NEW time \in Timestamp
    PROVE  /\ TxMetadataOf(p, port, kind, t, time) \in TransferMetadata
           /\ HashMetadata(TxMetadataOf(p, port, kind, t, time)) \in TxKeys
<1> DEFINE metadata == TxMetadataOf(p, port, kind, t, time)
<1>1. metadata \in TransferMetadata
  <2>1. kind \in TransmissionType
    BY NodeTxAssumption
  <2>2. /\ metadata.transfer_kind \in TransferKind
        /\ metadata.destination_node_id \in NodeId \cup {None}
    BY <2>1 DEF TransmissionType, TransferKind, TxMetadataOf
  <2>3. p \in Priority /\ port \in PortId /\ t \in TransferId /\ id \in NodeId \cup {None}
    BY NodeTxAssumption
  <2> QED BY <2>2, <2>3 DEF TxMetadataOf, TransferMetadata
<1>2. HashMetadata(metadata) = HashMetadata(TxMetadataOf(p, port, kind, t, 0))
  BY DEF HashMetadata, TxMetadataOf
<1> QED BY <1>1, <1>2 DEF TxKeys

-----------------------------------------------------------------------------
(* The type invariant. *)

(* What inserting into and removing from the map of transmissions keep. *)
TxEntriesTyped(map) ==
    /\ DOMAIN map \subseteq TxKeys
    /\ \A k \in DOMAIN map : map[k] \in TxTransfer \cup {TimedOut}

LEMMA InsertTyped ==
    ASSUME NEW map, TxEntriesTyped(map), NEW k \in TxKeys, NEW v \in TxTransfer
    PROVE  TxEntriesTyped(Insert(map, k, v))
BY DEF TxEntriesTyped, Insert

LEMMA RestrictTyped ==
    ASSUME NEW map, TxEntriesTyped(map), NEW S, S \subseteq DOMAIN map
    PROVE  TxEntriesTyped(Restrict(map, S))
BY DEF TxEntriesTyped, Restrict

LEMMA ActiveTyped ==
    ASSUME TxTypeOK, NEW k \in TxKeys, TxIsActive(k)
    PROVE  tx_transfers[k] \in TxTransfer
BY DEF TxTypeOK, TxIsActive, TimedOut

(* The tokens stay counted by natural numbers. *)
LEMMA TokensTyped ==
    ASSUME tx_tokens \in [TxKeys -> Nat], NEW k \in TxKeys
    PROVE  /\ GainToken(k) => tx_tokens' \in [TxKeys -> Nat]
           /\ tx_tokens[k] > 0 /\ LoseToken(k) => tx_tokens' \in [TxKeys -> Nat]
BY DEF GainToken, LoseToken

(* What is left of a transfer's payload. *)
LEMMA RemainingDataType ==
    ASSUME NEW transfer \in TxTransfer
    PROVE  /\ RemainingData(transfer) \in Seq(Byte)
           /\ Len(RemainingData(transfer)) =
                 IF transfer.consumed < Len(transfer.payload)
                 THEN Len(transfer.payload) - transfer.consumed ELSE 0
<1>1. transfer.payload \in Seq(Byte) /\ transfer.consumed \in Nat
  BY DEF TxTransfer
<1>2. transfer.consumed + 1 \in Nat \ {0} /\ Len(transfer.payload) \in Nat
  BY <1>1
<1>3. /\ SubSeq(transfer.payload, transfer.consumed + 1, Len(transfer.payload)) \in Seq(Byte)
      /\ Len(SubSeq(transfer.payload, transfer.consumed + 1, Len(transfer.payload))) =
            IF transfer.consumed + 1 <= Len(transfer.payload)
            THEN Len(transfer.payload) - (transfer.consumed + 1) + 1 ELSE 0
  BY <1>1, <1>2, SubSeqType
<1> QED BY <1>1, <1>2, <1>3 DEF RemainingData

(* A transfer stays one when a frame of it has been sent. *)
LEMMA SentFrameType ==
    ASSUME NEW transfer \in TxTransfer
    PROVE  /\ ConsumeLen(RemainingData(transfer)) \in Nat
           /\ [transfer EXCEPT
                 !.transport_metadata = TxMetadataNext(@),
                 !.consumed = transfer.consumed + ConsumeLen(RemainingData(transfer))]
                 \in TxTransfer
<1>1. ConsumeLen(RemainingData(transfer)) \in Nat
  BY RemainingDataType, CanAssumption DEF ConsumeLen, FrameCapacity
<1>2. TxMetadataNext(transfer.transport_metadata) \in TxMetadata
  BY DEF TxTransfer, TxMetadata, TxMetadataNext
<1>3. transfer.consumed + ConsumeLen(RemainingData(transfer)) \in Nat
  BY <1>1 DEF TxTransfer
<1> QED BY <1>1, <1>2, <1>3 DEF TxTransfer

LEMMA InitTyped == Init => TxTypeOK
BY DEF Init, TxTypeOK, EmptyMap, TxResult, Unit, Timestamp

LEMMA StartTyped ==
    ASSUME TxTypeOK, NEW p \in Priorities, NEW port \in PortIds,
           NEW kind \in TransmissionTypes, NEW t \in TransferIds,
           NEW use \in BufferUses, NEW d \in Data,
           StartTxTransfer(p, port, kind, t, use, d)
    PROVE  TxTypeOK'
<1> DEFINE metadata == TxMetadataOf(p, port, kind, t, now)
           k == HashMetadata(metadata)
           payload == ProcessTxCrc(BufferAfterCallback(use, d), ClampedClaim(use))
<1>1. metadata \in TransferMetadata /\ k \in TxKeys
  BY MetadataType DEF TxTypeOK
<1>2. CASE /\ UNCHANGED << tx_transfers, tx_tokens, now >>
           /\ \/ \E error \in {"AlreadyExists", "UserError"} :
                    tx_result' = [kind |-> "StartError", error |-> error]
              \/ tx_result' = [kind |-> "Panic"]
  <2>1. tx_result' \in TxResult
    BY <1>2 DEF TxResult
  <2> QED BY <1>2, <2>1 DEF TxTypeOK
<1>3. CASE /\ use.claimed # None
           /\ tx_transfers' = Insert(tx_transfers, k, NewTxTransfer(metadata, payload))
           /\ GainToken(k)
           /\ tx_result' = [kind |-> "Started", token |-> k]
           /\ UNCHANGED now
  <2>1. payload \in Seq(Byte)
    BY <1>3, PayloadType, NodeTxAssumption
  <2>2. NewTxTransfer(metadata, payload) \in TxTransfer
    <3> HIDE DEF metadata, payload
    <3> QED BY <1>1, <2>1 DEF NewTxTransfer, TxTransfer, TxMetadataDefault, TxMetadata
  <2>3. TxEntriesTyped(tx_transfers')
    <3> HIDE DEF metadata, payload, k
    <3> QED BY <1>1, <1>3, <2>2, InsertTyped DEF TxTypeOK, TxEntriesTyped
  <2>4. tx_tokens' \in [TxKeys -> Nat]
    <3> HIDE DEF k
    <3> QED BY <1>1, <1>3, TokensTyped DEF TxTypeOK
  <2>5. tx_result' \in TxResult
    <3> HIDE DEF k
    <3> QED BY <1>1, <1>3 DEF TxResult
  <2> QED BY <1>3, <2>3, <2>4, <2>5 DEF TxTypeOK, TxEntriesTyped
<1> QED BY <1>2, <1>3 DEF StartTxTransfer

LEMMA TransmitOkTyped ==
    ASSUME TxTypeOK, NEW k \in TxKeys, tx_tokens[k] > 0, TransmitOk(k)
    PROVE  TxTypeOK'
<1> DEFINE transfer == tx_transfers[k]
           data == RemainingData(transfer)
           consumed == transfer.consumed + ConsumeLen(data)
           more == consumed < Len(transfer.payload)
           frame == TxFrame(transfer.transfer_metadata, transfer.transport_metadata, data, id)
<1>1. transfer \in TxTransfer
  BY ActiveTyped DEF TransmitOk
<1>2. frame \in CanFrame
  <2>1. data \in Seq(Byte)
    BY <1>1, RemainingDataType
  <2>2. TxFrameError(transfer.transfer_metadata, data, id) = "Ok"
    BY DEF TransmitOk, TxErrorOf
  <2>3. /\ transfer.transfer_metadata \in TransferMetadata
        /\ transfer.transport_metadata \in TxMetadata
    BY <1>1 DEF TxTransfer
  <2> HIDE DEF transfer, data
  <2> QED BY <2>1, <2>2, <2>3, FrameType, NodeTxAssumption
<1>3. tx_result' \in TxResult
  <2>1. tx_result' = [kind |-> "Frame", of |-> k, more |-> more, frame |-> frame]
    BY DEF TransmitOk
  <2>2. more \in BOOLEAN
    OBVIOUS
  <2> HIDE DEF more, frame
  <2> QED BY <1>2, <2>1, <2>2 DEF TxResult
<1>4. CASE more
  <2>1. /\ tx_transfers' = [tx_transfers EXCEPT ![k].transport_metadata = TxMetadataNext(@),
                                               ![k].consumed = consumed]
        /\ UNCHANGED << tx_tokens, now >>
    BY <1>4 DEF TransmitOk
  <2>2. [transfer EXCEPT !.transport_metadata = TxMetadataNext(@), !.consumed = consumed]
            \in TxTransfer
    BY <1>1, SentFrameType
  <2>3. k \in DOMAIN tx_transfers
    BY DEF TransmitOk, TxIsActive
  <2>4. tx_transfers' =
            [tx_transfers EXCEPT
               ![k] = [transfer EXCEPT !.transport_metadata = TxMetadataNext(@),
                                       !.consumed = consumed]]
    BY <2>1, <2>3
  <2>5. TxEntriesTyped(tx_transfers')
    BY <2>2, <2>4 DEF TxTypeOK, TxEntriesTyped
  <2> QED BY <1>3, <2>1, <2>5 DEF TxTypeOK, TxEntriesTyped
<1>5. CASE ~ more
  <2>1. /\ tx_transfers' = Remove(tx_transfers, k)
        /\ LoseToken(k)
        /\ UNCHANGED now
    BY <1>5 DEF TransmitOk
  <2>2. TxEntriesTyped(tx_transfers')
    BY <2>1, RestrictTyped DEF TxTypeOK, TxEntriesTyped, Remove
  <2> QED BY <1>3, <2>1, <2>2, TokensTyped DEF TxTypeOK, TxEntriesTyped
<1> QED BY <1>4, <1>5

LEMMA TransmitErrorTyped ==
    ASSUME TxTypeOK, NEW k \in TxKeys, tx_tokens[k] > 0,
           TransmitTxError(k) \/ TransmitTokenError(k)
    PROVE  TxTypeOK'
<1>1. TxEntriesTyped(tx_transfers')
  BY RestrictTyped DEF TxTypeOK, TxEntriesTyped, Remove, TransmitTxError, TransmitTokenError
<1>2. tx_tokens' \in [TxKeys -> Nat] /\ now' \in Timestamp
  BY TokensTyped DEF TxTypeOK, TransmitTxError, TransmitTokenError
<1>3. tx_result' \in TxResult
  <2>1. TxErrorOf(tx_transfers[k]) \in
            {"Ok", "AnonNotSingleFrame", "ServiceNoSourceID", "ServiceNoDestinationID"}
    BY DEF TxErrorOf, TxFrameError
  <2>2. CASE TransmitTxError(k)
    BY <2>1, <2>2 DEF TransmitTxError, TxResult
  <2>3. CASE TransmitTokenError(k)
    BY <2>3 DEF TransmitTokenError, TxResult
  <2> QED BY <2>2, <2>3
<1> QED BY <1>1, <1>2, <1>3 DEF TxTypeOK, TxEntriesTyped

LEMMA CancelTyped ==
    ASSUME TxTypeOK, NEW k \in TxKeys, CancelTxTransfer(k)
    PROVE  TxTypeOK'
<1>1. TxEntriesTyped(tx_transfers')
  BY RestrictTyped DEF TxTypeOK, TxEntriesTyped, Remove, CancelTxTransfer
<1>2. tx_tokens' \in [TxKeys -> Nat] /\ now' \in Timestamp
  BY TokensTyped DEF TxTypeOK, CancelTxTransfer
<1>3. tx_result' \in TxResult
  BY DEF CancelTxTransfer, TxResult
<1> QED BY <1>1, <1>2, <1>3 DEF TxTypeOK, TxEntriesTyped

LEMMA UpdateTyped == TxTypeOK /\ UpdateTxTransfers => TxTypeOK'
BY DEF TxTypeOK, UpdateTxTransfers, TxResult, Unit

LEMMA TickTyped == TxTypeOK /\ Tick => TxTypeOK'
BY DEF TxTypeOK, Tick, Timestamp

(* Every step keeps the types. *)
LEMMA NextTyped == TxTypeOK /\ [Next]_tx_vars => TxTypeOK'
<1> SUFFICES ASSUME TxTypeOK, [Next]_tx_vars PROVE TxTypeOK'
  OBVIOUS
<1>1. CASE StartSome
  BY <1>1, StartTyped DEF StartSome
<1>2. ASSUME NEW k \in TxKeys, TransmitFrame(k) PROVE TxTypeOK'
  BY <1>2, TransmitOkTyped, TransmitErrorTyped DEF TransmitFrame
<1>3. ASSUME NEW k \in TxKeys, CancelTxTransfer(k) PROVE TxTypeOK'
  BY <1>3, CancelTyped
<1>4. CASE UpdateTxTransfers
  BY <1>4, UpdateTyped
<1>5. CASE Tick
  BY <1>5, TickTyped
<1>6. CASE UNCHANGED tx_vars
  BY <1>6 DEF tx_vars, TxTypeOK
<1> QED BY <1>1, <1>2, <1>3, <1>4, <1>5, <1>6 DEF Next

(* Every variable has the type of its field in the code, whatever the      *)
(* application asks for: in particular the frames that transmit_frame      *)
(* (node.rs, legacy.rs) returns fit the fields of their identifiers and    *)
(* tail bytes, for port ids and transfer ids wider than those.             *)
THEOREM TxTypeCorrect == Spec => []TxTypeOK
<1>1. Init => TxTypeOK
  BY InitTyped
<1>2. TxTypeOK /\ [Next]_tx_vars => TxTypeOK'
  BY NextTyped
<1> QED BY <1>1, <1>2, PTL DEF Spec

-----------------------------------------------------------------------------
(* Tokens.  With the types, the property is inductive as it stands. *)

TxTokenSound(k) ==
    /\ tx_tokens[k] <= 1
    /\ tx_tokens[k] = 1 => k \in DOMAIN tx_transfers
    /\ TxIsActive(k) => tx_tokens[k] = 1

(* Calls leave the entries and tokens of other keys alone. *)
LEMMA OtherKeysUntouched ==
    ASSUME TxTypeOK, NEW k \in TxKeys, NEW other \in TxKeys, other # k
    PROVE  /\ \A v : tx_transfers' = Insert(tx_transfers, k, v) =>
                 /\ other \in DOMAIN tx_transfers' <=> other \in DOMAIN tx_transfers
                 /\ other \in DOMAIN tx_transfers =>
                       tx_transfers'[other] = tx_transfers[other]
           /\ tx_transfers' = Remove(tx_transfers, k) =>
                 /\ other \in DOMAIN tx_transfers' <=> other \in DOMAIN tx_transfers
                 /\ other \in DOMAIN tx_transfers =>
                       tx_transfers'[other] = tx_transfers[other]
           /\ GainToken(k) \/ LoseToken(k) => tx_tokens'[other] = tx_tokens[other]
BY DEF Insert, Remove, Restrict, GainToken, LoseToken, TxTypeOK

LEMMA StartKeepsTokens ==
    ASSUME TxTypeOK, TxTokensSound, NEW p \in Priorities, NEW port \in PortIds,
           NEW kind \in TransmissionTypes, NEW t \in TransferIds,
           NEW use \in BufferUses, NEW d \in Data,
           StartTxTransfer(p, port, kind, t, use, d)
    PROVE  TxTokensSound'
<1> DEFINE metadata == TxMetadataOf(p, port, kind, t, now)
           k == HashMetadata(metadata)
           payload == ProcessTxCrc(BufferAfterCallback(use, d), ClampedClaim(use))
<1>1. CASE UNCHANGED << tx_transfers, tx_tokens >>
  BY <1>1 DEF TxTokensSound, TxIsActive
<1>2. CASE /\ k \notin DOMAIN tx_transfers
           /\ tx_transfers' = Insert(tx_transfers, k, NewTxTransfer(metadata, payload))
           /\ GainToken(k)
  <2>1. k \in TxKeys
    BY MetadataType DEF TxTypeOK
  <2> HIDE DEF k, metadata, payload
  <2>2. tx_tokens[k] = 0 /\ tx_tokens'[k] = 1
    BY <1>2, <2>1 DEF TxTypeOK, TxTokensSound, GainToken
  <2>3. k \in DOMAIN tx_transfers'
    BY <1>2 DEF Insert
  <2>4. ASSUME NEW other \in TxKeys, other # k PROVE TxTokenSound(other)'
    BY <1>2, <2>1, <2>4, OtherKeysUntouched DEF TxTokensSound, TxTokenSound, TxIsActive
  <2> QED BY <2>1, <2>2, <2>3, <2>4 DEF TxTokensSound, TxTokenSound
<1> QED BY <1>1, <1>2 DEF StartTxTransfer

(* Whatever ends a transfer and consumes its token. *)
LEMMA RemoveKeepsTokens ==
    ASSUME TxTypeOK, TxTokensSound, NEW k \in TxKeys, tx_tokens[k] > 0,
           tx_transfers' = Remove(tx_transfers, k), LoseToken(k)
    PROVE  TxTokensSound'
<1>1. tx_tokens[k] = 1 /\ tx_tokens'[k] = 0
  BY DEF TxTypeOK, TxTokensSound, LoseToken
<1>2. k \notin DOMAIN tx_transfers'
  BY DEF Remove, Restrict
<1>3. ASSUME NEW other \in TxKeys, other # k PROVE TxTokenSound(other)'
  BY <1>3, OtherKeysUntouched DEF TxTokensSound, TxTokenSound, TxIsActive
<1> QED BY <1>1, <1>2, <1>3 DEF TxTokensSound, TxTokenSound, TxIsActive

LEMMA TransmitKeepsTokens ==
    ASSUME TxTypeOK, TxTokensSound, NEW k \in TxKeys, TransmitFrame(k)
    PROVE  TxTokensSound'
<1>1. tx_tokens[k] = 1
  BY DEF TxTypeOK, TxTokensSound, TransmitFrame
<1>2. CASE TransmitOk(k)
  <2>1. CASE tx_transfers' = Remove(tx_transfers, k) /\ LoseToken(k)
    BY <1>1, <2>1, RemoveKeepsTokens
  <2>2. CASE DOMAIN tx_transfers' = DOMAIN tx_transfers /\ UNCHANGED tx_tokens
    <3>1. \A other \in DOMAIN tx_transfers :
              other # k => tx_transfers'[other] = tx_transfers[other]
      BY <1>2, <2>2 DEF TransmitOk, Remove, Restrict
    <3> QED BY <1>1, <2>2, <3>1 DEF TxTokensSound, TxIsActive
  <2> QED BY <1>2, <2>1, <2>2 DEF TransmitOk
<1>3. CASE TransmitTxError(k)
  BY <1>1, <1>3, RemoveKeepsTokens DEF TransmitTxError
<1>4. CASE TransmitTokenError(k)
  <2>1. tx_tokens'[k] = 0 /\ ~ TxIsActive(k)' /\ UNCHANGED tx_transfers
    BY <1>1, <1>4 DEF TransmitTokenError, LoseToken, TxTypeOK, TxIsActive
  <2>2. \A other \in TxKeys : other # k => tx_tokens'[other] = tx_tokens[other]
    BY <1>4, OtherKeysUntouched DEF TransmitTokenError
  <2> QED BY <2>1, <2>2 DEF TxTokensSound, TxIsActive
<1> QED BY <1>2, <1>3, <1>4 DEF TransmitFrame

LEMMA NextKeepsTokens ==
    TxTypeOK /\ TxTokensSound /\ [Next]_tx_vars => TxTokensSound'
<1> SUFFICES ASSUME TxTypeOK, TxTokensSound, [Next]_tx_vars PROVE TxTokensSound'
  OBVIOUS
<1>1. CASE StartSome
  BY <1>1, StartKeepsTokens DEF StartSome
<1>2. ASSUME NEW k \in TxKeys, TransmitFrame(k) PROVE TxTokensSound'
  BY <1>2, TransmitKeepsTokens
<1>3. ASSUME NEW k \in TxKeys, CancelTxTransfer(k) PROVE TxTokensSound'
  BY <1>3, RemoveKeepsTokens DEF CancelTxTransfer
<1>4. CASE UpdateTxTransfers
  BY <1>4 DEF UpdateTxTransfers, TxTokensSound, TxIsActive, TimedOut
<1>5. CASE Tick
  BY <1>5 DEF Tick, TxTokensSound, TxIsActive
<1>6. CASE UNCHANGED tx_vars
  BY <1>6 DEF tx_vars, TxTokensSound, TxIsActive
<1> QED BY <1>1, <1>2, <1>3, <1>4, <1>5, <1>6 DEF Next

(* An active transfer has exactly one token and no key ever has two, for   *)
(* any number of transfers: start_tx_transfer, transmit_frame,             *)
(* cancel_tx_transfer and update_transfers may be called in any order, and *)
(* the errors that transmit_frame drops (node.rs:207-212) cannot occur.    *)
THEOREM TxTokensCorrect == Spec => []TxTokensSound
<1>1. Init => TxTypeOK /\ TxTokensSound
  BY InitTyped DEF Init, TxTokensSound, TxIsActive, EmptyMap
<1>2. TxTypeOK /\ TxTokensSound /\ [Next]_tx_vars => TxTypeOK' /\ TxTokensSound'
  BY NextTyped, NextKeepsTokens
<1> QED BY <1>1, <1>2, PTL DEF Spec

-----------------------------------------------------------------------------
(* What a transfer under way has sent.  Both properties are about one      *)
(* entry at a time, and only transmit_frame changes an active entry.       *)

(* An entry is active after a step because it has just been started, or    *)
(* because it was active before and is unchanged or has sent a frame.      *)
Started(k) ==
    /\ tx_transfers'[k].consumed = 0
    /\ tx_transfers'[k].transport_metadata = TxMetadataDefault
    /\ k = HashMetadata(tx_transfers'[k].transfer_metadata)
    /\ tx_transfers'[k].transfer_metadata.source_node_id = id
    /\ tx_transfers'[k].transfer_metadata.timestamp = now

SentFull(k) ==
    /\ ~ IsLastFrame(RemainingData(tx_transfers[k]))
    /\ TxErrorOf(tx_transfers[k]) = "Ok"
    /\ tx_transfers'[k].transfer_metadata = tx_transfers[k].transfer_metadata
    /\ tx_transfers'[k].payload = tx_transfers[k].payload
    /\ tx_transfers'[k].consumed = tx_transfers[k].consumed + FrameCapacity
    /\ tx_transfers'[k].consumed < Len(tx_transfers'[k].payload)
    /\ tx_transfers'[k].transport_metadata =
            TxMetadataNext(tx_transfers[k].transport_metadata)

Origin(k) ==
    \/ Started(k) /\ now' = now
    \/ TxIsActive(k) /\ tx_transfers'[k] = tx_transfers[k] /\ now' >= now
    \/ TxIsActive(k) /\ SentFull(k) /\ now' = now

LEMMA SentFullFrame ==
    ASSUME TxTypeOK, NEW k \in TxKeys, TransmitOk(k), k \in DOMAIN tx_transfers'
    PROVE  SentFull(k)
<1> DEFINE transfer == tx_transfers[k]
           data == RemainingData(transfer)
           consumed == transfer.consumed + ConsumeLen(data)
<1>1. transfer \in TxTransfer /\ k \in DOMAIN tx_transfers
  BY ActiveTyped DEF TransmitOk, TxIsActive
<1>2. transfer.consumed \in Nat /\ Len(transfer.payload) \in Nat
  BY <1>1 DEF TxTransfer
<1>3. CASE ~ (consumed < Len(transfer.payload))
  BY <1>3 DEF TransmitOk, Remove, Restrict
<1>4. CASE consumed < Len(transfer.payload)
  <2>1. tx_transfers' = [tx_transfers EXCEPT ![k].transport_metadata = TxMetadataNext(@),
                                            ![k].consumed = consumed]
    BY <1>4 DEF TransmitOk
  <2>2. tx_transfers'[k] =
            [transfer EXCEPT !.transport_metadata = TxMetadataNext(@), !.consumed = consumed]
    BY <1>1, <2>1
  <2>3. /\ tx_transfers'[k].transfer_metadata = transfer.transfer_metadata
        /\ tx_transfers'[k].payload = transfer.payload
        /\ tx_transfers'[k].consumed = consumed
        /\ tx_transfers'[k].transport_metadata = TxMetadataNext(transfer.transport_metadata)
    BY <1>1, <2>2 DEF TxTransfer
  <2>4. ~ IsLastFrame(data) /\ ConsumeLen(data) = FrameCapacity
    <3>1. Len(data) = IF transfer.consumed < Len(transfer.payload)
                      THEN Len(transfer.payload) - transfer.consumed ELSE 0
      BY <1>1, RemainingDataType
    <3> HIDE DEF data, transfer
    <3>2. ~ IsLastFrame(data)
      <4>1. SUFFICES ASSUME IsLastFrame(data) PROVE FALSE
        OBVIOUS
      <4>2. ConsumeLen(data) = Len(data)
        BY <4>1 DEF ConsumeLen
      <4> QED BY <1>2, <1>4, <3>1, <4>2
    <3> QED BY <3>2 DEF ConsumeLen
  <2>5. TxErrorOf(transfer) = "Ok"
    BY DEF TransmitOk
  <2> QED BY <1>4, <2>3, <2>4, <2>5 DEF SentFull
<1> QED BY <1>3, <1>4

LEMMA ActiveOrigin ==
    ASSUME TxTypeOK, [Next]_tx_vars, NEW k \in TxKeys, TxIsActive(k)'
    PROVE  Origin(k)
<1> USE DEF Origin
<1>1. ASSUME NEW p \in Priorities, NEW port \in PortIds,
             NEW kind \in TransmissionTypes, NEW t \in TransferIds,
             NEW use \in BufferUses, NEW d \in Data,
             StartTxTransfer(p, port, kind, t, use, d)
      PROVE  Origin(k)
  <2> DEFINE metadata == TxMetadataOf(p, port, kind, t, now)
             payload == ProcessTxCrc(BufferAfterCallback(use, d), ClampedClaim(use))
  <2>1. CASE UNCHANGED << tx_transfers, now >>
    BY <2>1 DEF TxIsActive, TxTypeOK, Timestamp
  <2>2. CASE /\ tx_transfers' =
                    Insert(tx_transfers, HashMetadata(metadata),
                           NewTxTransfer(metadata, payload))
             /\ UNCHANGED now
    <3>1. CASE k = HashMetadata(metadata)
      <4>1. tx_transfers'[k] = NewTxTransfer(metadata, payload)
        BY <2>2, <3>1 DEF Insert
      <4>2. metadata.source_node_id = id /\ metadata.timestamp = now
        BY DEF TxMetadataOf
      <4> HIDE DEF metadata, payload
      <4> QED BY <2>2, <3>1, <4>1, <4>2 DEF Started, NewTxTransfer
    <3>2. CASE k # HashMetadata(metadata)
      BY <2>2, <3>2 DEF Insert, TxIsActive, TxTypeOK, Timestamp
    <3> QED BY <3>1, <3>2
  <2> QED BY <1>1, <2>1, <2>2 DEF StartTxTransfer
<1>2. ASSUME NEW other \in TxKeys, TransmitOk(other) PROVE Origin(k)
  <2>1. now' = now
    BY <1>2 DEF TransmitOk
  <2>2. CASE other = k
    BY <1>2, <2>1, <2>2, SentFullFrame DEF TxIsActive, TransmitOk
  <2>3. CASE other # k
    BY <1>2, <2>1, <2>3 DEF TxIsActive, TransmitOk, Remove, Restrict, TxTypeOK, Timestamp
  <2> QED BY <2>2, <2>3
<1>3. ASSUME NEW other \in TxKeys,
             TransmitTxError(other) \/ TransmitTokenError(other) \/ CancelTxTransfer(other)
      PROVE  Origin(k)
  BY <1>3 DEF TransmitTxError, TransmitTokenError, CancelTxTransfer, Remove, Restrict,
              TxIsActive, TxTypeOK, Timestamp
<1>4. CASE UpdateTxTransfers
  BY <1>4 DEF UpdateTxTransfers, TxIsActive, TimedOut, TxTypeOK, Timestamp
<1>5. CASE Tick
  BY <1>5 DEF Tick, TxIsActive, TxTypeOK, Timestamp
<1>6. CASE UNCHANGED tx_vars
  BY <1>6 DEF tx_vars, TxIsActive, TxTypeOK, Timestamp
<1> QED BY <1>1, <1>2, <1>3, <1>4, <1>5, <1>6 DEF Next, StartSome, TransmitFrame

(* Whole frames, counted with a divisor that is not a number. *)
LEMMA WholeFrames ==
    ASSUME NEW n \in Nat, NEW capacity \in Nat \ {0}
    PROVE  /\ (n * capacity) \div capacity = n
           /\ n * capacity + capacity = (n + 1) * capacity
OBVIOUS

LEMMA Alternation ==
    ASSUME NEW n \in Nat PROVE (n + 1) % 2 = 0 <=> ~ (n % 2 = 0)
OBVIOUS

LEMMA NextMetadata ==
    ASSUME NEW metadata \in TxMetadata
    PROVE  /\ ~ TxMetadataNext(metadata).first_frame
           /\ TxMetadataNext(metadata).toggle_bit <=> ~ metadata.toggle_bit
BY DEF TxMetadata, TxMetadataNext

LEMMA NextKeepsEntries ==
    TxTypeOK /\ TxEntriesSound /\ [Next]_tx_vars => TxEntriesSound'
<1> SUFFICES ASSUME TxTypeOK, TxEntriesSound, [Next]_tx_vars,
                    NEW k \in TxKeys, TxIsActive(k)'
             PROVE  TxEntrySound(k)'
  BY DEF TxEntriesSound
<1> DEFINE old == tx_transfers[k]
           new == tx_transfers'[k]
           sent == old.consumed \div FrameCapacity
<1>1. FrameCapacity \in Nat \ {0}
  BY CanAssumption DEF FrameCapacity
<1>2. Origin(k)
  BY ActiveOrigin
<1>3. CASE Started(k) /\ now' = now
  <2>1. 0 \div FrameCapacity = 0 /\ 0 * FrameCapacity = 0 /\ 0 % 2 = 0
    BY <1>1
  <2>2. /\ new.transport_metadata.first_frame = TRUE
        /\ new.transport_metadata.toggle_bit = TRUE
    BY <1>3 DEF Started, TxMetadataDefault
  <2>3. now <= now
    BY DEF TxTypeOK, Timestamp
  <2> QED BY <1>3, <2>1, <2>2, <2>3 DEF Started, TxEntrySound
<1>4. CASE TxIsActive(k) /\ new = old /\ now' >= now
  <2>1. TxEntrySound(k)
    BY <1>4 DEF TxEntriesSound
  <2>2. old.transfer_metadata.timestamp \in Nat /\ now \in Nat /\ now' \in Nat
    <3>1. old \in TxTransfer
      BY <1>4, ActiveTyped
    <3>2. TxTypeOK'
      BY NextTyped
    <3> QED BY <3>1, <3>2 DEF TxTransfer, TransferMetadata, TxTypeOK, Timestamp
  <2>3. old.transfer_metadata.timestamp <= now'
    BY <1>4, <2>1, <2>2 DEF TxEntrySound
  <2> QED BY <1>4, <2>1, <2>3 DEF TxEntrySound
<1>5. CASE TxIsActive(k) /\ SentFull(k) /\ now' = now
  <2>1. TxEntrySound(k)
    BY <1>5 DEF TxEntriesSound
  <2>2. old.consumed \in Nat /\ old.transport_metadata \in TxMetadata
    BY <1>5, ActiveTyped DEF TxTransfer
  <2>3. sent \in Nat /\ old.consumed = sent * FrameCapacity
    BY <1>1, <2>1, <2>2 DEF TxEntrySound
  <2>4. new.consumed = (sent + 1) * FrameCapacity
    <3> HIDE DEF sent
    <3> QED BY <1>1, <1>5, <2>3, WholeFrames DEF SentFull
  <2>5. new.consumed \div FrameCapacity = sent + 1
    <3> HIDE DEF sent, new
    <3> QED BY <1>1, <2>3, <2>4, WholeFrames
  <2>6. /\ ~ new.transport_metadata.first_frame
        /\ new.transport_metadata.toggle_bit <=> ~ old.transport_metadata.toggle_bit
    <3>1. new.transport_metadata = TxMetadataNext(old.transport_metadata)
      BY <1>5 DEF SentFull
    <3> QED BY <2>2, <3>1, NextMetadata
  <2>7. new.transport_metadata.toggle_bit <=> (sent + 1) % 2 = 0
    <3>1. old.transport_metadata.toggle_bit <=> sent % 2 = 0
      BY <2>1 DEF TxEntrySound
    <3> HIDE DEF sent
    <3> QED BY <2>3, <2>6, <3>1, Alternation
  <2>8. ~ (sent + 1 = 0)
    <3> HIDE DEF sent
    <3> QED BY <2>3
  <2>9. /\ k = HashMetadata(new.transfer_metadata)
        /\ new.transfer_metadata.source_node_id = id
        /\ new.transfer_metadata.timestamp <= now'
        /\ new.consumed < Len(new.payload)
    BY <1>5, <2>1 DEF SentFull, TxEntrySound
  <2> HIDE DEF sent
  <2> QED BY <2>4, <2>5, <2>6, <2>7, <2>8, <2>9 DEF TxEntrySound
<1> QED BY <1>2, <1>3, <1>4, <1>5 DEF Origin

(* Every transfer under way is stored under the hash of its metadata, has  *)
(* sent whole frames and has bytes left, and its toggle and first_frame    *)
(* (legacy.rs:245-312) agree with the number of frames sent, for every     *)
(* frame size and payload length.                                          *)
THEOREM TxEntriesCorrect == Spec => []TxEntriesSound
<1>1. Init => TxTypeOK /\ TxEntriesSound
  BY InitTyped DEF Init, TxEntriesSound, TxIsActive, EmptyMap
<1>2. TxTypeOK /\ TxEntriesSound /\ [Next]_tx_vars => TxTypeOK' /\ TxEntriesSound'
  BY NextTyped, NextKeepsEntries
<1> QED BY <1>1, <1>2, PTL DEF Spec

LEMMA NextKeepsGoing ==
    TxTypeOK /\ NoErrorMidTransfer /\ [Next]_tx_vars => NoErrorMidTransfer'
<1> SUFFICES ASSUME TxTypeOK, NoErrorMidTransfer, [Next]_tx_vars, NEW k \in TxKeys,
                    TxIsActive(k)', tx_transfers'[k].consumed > 0
             PROVE  TxErrorOf(tx_transfers'[k]) = "Ok"
  BY DEF NoErrorMidTransfer, TxErrorOf, RemainingData
<1>1. Origin(k)
  BY ActiveOrigin
<1>2. CASE Started(k)
  BY <1>2 DEF Started
<1>3. CASE TxIsActive(k) /\ tx_transfers'[k] = tx_transfers[k]
  BY <1>3 DEF NoErrorMidTransfer
<1>4. CASE TxIsActive(k) /\ SentFull(k)
  BY <1>4 DEF SentFull, TxErrorOf, TxFrameError
<1> QED BY <1>1, <1>2, <1>3, <1>4 DEF Origin

(* A TxError can only meet the first frame of a transfer: for no payload   *)
(* and no node id does transmit_frame (legacy.rs:245-312) put a part of a  *)
(* transfer on the bus and then give it up with an error.                  *)
THEOREM TxErrorsComeFirst == Spec => []NoErrorMidTransfer
<1>1. Init => TxTypeOK /\ NoErrorMidTransfer
  BY InitTyped DEF Init, NoErrorMidTransfer, TxIsActive, EmptyMap
<1>2. TxTypeOK /\ NoErrorMidTransfer /\ [Next]_tx_vars => TxTypeOK' /\ NoErrorMidTransfer'
  BY NextTyped, NextKeepsGoing
<1> QED BY <1>1, <1>2, PTL DEF Spec

-----------------------------------------------------------------------------
(* Callbacks return the "amount of buffer used" (manager.rs:108), no more  *)
(* than the size of the buffer they were given.                            *)
HonestCallbacks ==
    \A use \in BufferUses : use.claimed # None => use.claimed <= use.requested

LEMMA HonestFits ==
    ASSUME NEW use \in BufferUses, NEW d \in Data, use.claimed # None, HonestCallbacks
    PROVE  ~ CrcOverruns(BufferAfterCallback(use, d), ClampedClaim(use))
<1> DEFINE size == GetCrcPaddedSize(use.requested)
<1>1. /\ use.requested \in Nat /\ use.claimed \in Nat
      /\ use.claimed <= use.requested /\ size = use.requested + CRC_SIZE
  BY NodeTxAssumption DEF BufferUse, HonestCallbacks, GetCrcPaddedSize
<1>2. size \in Nat /\ use.claimed <= size /\ ClampedClaim(use) = use.claimed
  BY <1>1, CanAssumption DEF ClampedClaim, GetCrcPaddedSize
<1>3. Len(BufferAfterCallback(use, d)) = size
  BY <1>2 DEF BufferAfterCallback
<1> QED BY <1>1, <1>2, <1>3, CanAssumption DEF CrcOverruns

LEMMA NextKeepsCalm ==
    ASSUME HonestCallbacks, NoPanic, [Next]_tx_vars
    PROVE  NoPanic'
<1>1. CASE StartSome
  <2>1. PICK p \in Priorities, port \in PortIds, kind \in TransmissionTypes,
             t \in TransferIds, use \in BufferUses, d \in Data :
            StartTxTransfer(p, port, kind, t, use, d)
    BY <1>1 DEF StartSome
  <2>2. use.claimed # None =>
            ~ CrcOverruns(BufferAfterCallback(use, d), ClampedClaim(use))
    BY HonestFits
  <2> QED BY <2>1, <2>2 DEF StartTxTransfer, NoPanic
<1>2. ASSUME NEW k \in TxKeys, TransmitFrame(k) PROVE NoPanic'
  BY <1>2 DEF TransmitFrame, TransmitOk, TransmitTxError, TransmitTokenError, NoPanic
<1>3. ASSUME NEW k \in TxKeys, CancelTxTransfer(k) PROVE NoPanic'
  BY <1>3 DEF CancelTxTransfer, NoPanic
<1>4. CASE UpdateTxTransfers \/ Tick \/ UNCHANGED tx_vars
  BY <1>4 DEF UpdateTxTransfers, Tick, tx_vars, NoPanic, Unit
<1> QED BY <1>1, <1>2, <1>3, <1>4 DEF Next

(* start_tx_transfer never panics in process_tx_crc (legacy.rs:113-129)    *)
(* for any buffer size, as long as no callback claims more than its buffer.*)
THEOREM NoPanicWhenHonest ==
    ASSUME HonestCallbacks
    PROVE  Spec => []NoPanic
<1>1. Init => NoPanic
  BY DEF Init, NoPanic, Unit
<1>2. NoPanic /\ [Next]_tx_vars => NoPanic'
  BY NextKeepsCalm
<1> QED BY <1>1, <1>2, PTL DEF Spec

-----------------------------------------------------------------------------
(* How many frames there are, and which one is the last.                   *)

LEMMA CapacityType == FrameCapacity \in Nat \ {0}
BY CanAssumption DEF FrameCapacity

FrameCount(n) ==
    IF n <= FrameCapacity THEN 1 ELSE (n + FrameCapacity - 1) \div FrameCapacity

LEMMA TimesMonotonic ==
    ASSUME NEW c \in Nat, NEW m \in Nat, NEW n \in Nat, m <= n
    PROVE  m * c \in Nat /\ n * c \in Nat /\ m * c <= n * c
OBVIOUS

LEMMA TimesNext == ASSUME NEW c \in Nat, NEW m \in Int PROVE (m + 1) * c = m * c + c
OBVIOUS

(* The quotient that rounds up, and that there is only one.                *)
LEMMA Ceiling ==
    ASSUME NEW c \in Nat \ {0}, NEW n \in Nat \ {0}
    PROVE  /\ (n + c - 1) \div c \in Nat \ {0}
           /\ ((n + c - 1) \div c - 1) * c < n
           /\ n <= ((n + c - 1) \div c) * c
<1> DEFINE q == (n + c - 1) \div c
           r == (n + c - 1) % c
<1>1. q \in Nat /\ r \in 0 .. c - 1 /\ n + c - 1 = q * c + r
  OBVIOUS
<1> HIDE DEF q, r
<1>2. q # 0
  BY <1>1
<1>3. q - 1 \in Nat /\ q = (q - 1) + 1
  BY <1>1, <1>2
<1>4. q * c = (q - 1) * c + c
  BY <1>3, TimesNext
<1>5. (q - 1) * c < n /\ n <= q * c
  BY <1>1, <1>3, <1>4
<1> QED BY <1>1, <1>2, <1>5 DEF q

LEMMA OneCeiling ==
    ASSUME NEW c \in Nat \ {0}, NEW n \in Nat, NEW p \in Nat, NEW q \in Nat,
           p * c < n, n <= (q + 1) * c
    PROVE  p <= q
<1>1. SUFFICES ASSUME q + 1 <= p PROVE FALSE
  OBVIOUS
<1>2. (q + 1) * c <= p * c
  BY <1>1, TimesMonotonic
<1>3. p * c \in Nat /\ (q + 1) * c \in Nat
  BY TimesMonotonic
<1> QED BY <1>2, <1>3

LEMMA CountBounds ==
    ASSUME NEW n \in Nat
    PROVE  /\ FrameCount(n) \in Nat \ {0}
           /\ n <= FrameCount(n) * FrameCapacity
           /\ n > 0 => (FrameCount(n) - 1) * FrameCapacity < n
           /\ FrameCount(n) = 1 <=> n <= FrameCapacity
<1>1. FrameCapacity \in Nat \ {0}
  BY CapacityType
<1>2. CASE n <= FrameCapacity
  <2>1. FrameCount(n) = 1
    BY <1>2 DEF FrameCount
  <2>2. 1 * FrameCapacity = FrameCapacity /\ (1 - 1) * FrameCapacity = 0
    BY <1>1
  <2> QED BY <1>1, <1>2, <2>1, <2>2
<1>3. CASE n > FrameCapacity
  <2>1. n \in Nat \ {0} /\ FrameCount(n) = (n + FrameCapacity - 1) \div FrameCapacity
    BY <1>1, <1>3 DEF FrameCount
  <2>2. /\ FrameCount(n) \in Nat \ {0}
        /\ (FrameCount(n) - 1) * FrameCapacity < n
        /\ n <= FrameCount(n) * FrameCapacity
    BY <1>1, <2>1, Ceiling
  <2>3. FrameCount(n) # 1
    BY <1>1, <1>3, <2>2
  <2> QED BY <1>1, <1>3, <2>2, <2>3
<1> QED BY <1>1, <1>2, <1>3

(* The frames that are not the last are those that bytes remain after.     *)
LEMMA LastIsCount ==
    ASSUME NEW n \in Nat, NEW i \in 1 .. FrameCount(n)
    PROVE  /\ (i - 1) * FrameCapacity \in Nat
           /\ (i - 1) * FrameCapacity <= n
           /\ n - (i - 1) * FrameCapacity <= FrameCapacity <=> i = FrameCount(n)
<1> DEFINE q == FrameCount(n)
<1>1. /\ FrameCapacity \in Nat \ {0} /\ q \in Nat \ {0} /\ n <= q * FrameCapacity
      /\ n > 0 => (q - 1) * FrameCapacity < n
      /\ i \in Nat \ {0} /\ i <= q /\ i - 1 \in Nat /\ q - 1 \in Nat
  <2>1. FrameCapacity \in Nat \ {0}
    BY CapacityType
  <2>2. q \in Nat \ {0} /\ n <= q * FrameCapacity
    BY CountBounds
  <2>3. n > 0 => (q - 1) * FrameCapacity < n
    BY CountBounds
  <2> HIDE DEF q
  <2>4. i \in 1 .. q
    BY DEF q
  <2> QED BY <2>1, <2>2, <2>3, <2>4
<1>2. (i - 1) * FrameCapacity \in Nat
  BY <1>1, TimesMonotonic
<1>3. i * FrameCapacity = (i - 1) * FrameCapacity + FrameCapacity
  BY <1>1, TimesNext
<1>4. CASE n = 0
  <2>1. q = 1 /\ i = 1
    BY <1>1, <1>4, CountBounds
  <2>2. (i - 1) * FrameCapacity = 0
    BY <1>1, <2>1
  <2> QED BY <1>1, <1>4, <2>1, <2>2
<1>5. CASE n > 0
  <2> HIDE DEF q
  <2>1. (i - 1) * FrameCapacity <= (q - 1) * FrameCapacity
    BY <1>1, TimesMonotonic
  <2>2. (q - 1) * FrameCapacity \in Nat
    BY <1>1, TimesMonotonic
  <2>3. (i - 1) * FrameCapacity <= n
    BY <1>1, <1>2, <1>5, <2>1, <2>2
  <2>4. ASSUME n <= i * FrameCapacity PROVE i = q
    <3>1. q - 1 <= i - 1
      <4>1. n <= ((i - 1) + 1) * FrameCapacity
        BY <1>1, <2>4
      <4> QED BY <1>1, <1>5, <4>1, OneCeiling
    <3> QED BY <1>1, <3>1
  <2>5. n - (i - 1) * FrameCapacity <= FrameCapacity <=> n <= i * FrameCapacity
    BY <1>1, <1>2, <1>3
  <2> QED BY <1>1, <1>2, <2>3, <2>4, <2>5 DEF q
<1> QED BY <1>1, <1>4, <1>5

(* One frame less when a full one has been sent.                           *)
LEMMA CountNext ==
    ASSUME NEW n \in Nat, n > FrameCapacity
    PROVE  FrameCount(n - FrameCapacity) = FrameCount(n) - 1
<1> DEFINE p == FrameCount(n - FrameCapacity)
           q == FrameCount(n)
           m == n - FrameCapacity
<1>1. FrameCapacity \in Nat \ {0} /\ m \in Nat \ {0}
  BY CapacityType
<1>2. /\ p \in Nat \ {0} /\ (p - 1) * FrameCapacity < m /\ m <= p * FrameCapacity
      /\ q \in Nat \ {0} /\ (q - 1) * FrameCapacity < n /\ n <= q * FrameCapacity
  BY <1>1, CountBounds
<1> HIDE DEF p, q
<1>3. /\ p * FrameCapacity = (p - 1) * FrameCapacity + FrameCapacity
      /\ (p + 1) * FrameCapacity = p * FrameCapacity + FrameCapacity
      /\ (p - 1) * FrameCapacity \in Nat /\ p * FrameCapacity \in Nat
  BY <1>1, <1>2, TimesNext, TimesMonotonic
<1>4. p * FrameCapacity < n /\ n <= (p + 1) * FrameCapacity
  BY <1>1, <1>2, <1>3
<1>5. q - 1 <= p
  BY <1>1, <1>2, <1>4, OneCeiling
<1>6. p <= q - 1
  <2>1. n <= ((q - 1) + 1) * FrameCapacity
    BY <1>2
  <2> QED BY <1>1, <1>2, <1>4, <2>1, OneCeiling
<1> QED BY <1>2, <1>5, <1>6 DEF p, q

-----------------------------------------------------------------------------
(* The frames of a transfer: what is left of the data when its turn has    *)
(* come, and what of it a frame takes.                                     *)

PieceAt(data, i) == SubSeq(data, (i - 1) * FrameCapacity + 1, Len(data))

DataAt(data, i) == SubSeq(PieceAt(data, i), 1, ConsumeLen(PieceAt(data, i)))

LEMMA PieceType ==
    ASSUME NEW data \in Seq(Byte), NEW i \in 1 .. FrameCount(Len(data))
    PROVE  /\ PieceAt(data, i) \in Seq(Byte)
           /\ Len(PieceAt(data, i)) = Len(data) - (i - 1) * FrameCapacity
           /\ \A j \in 1 .. Len(PieceAt(data, i)) :
                 PieceAt(data, i)[j] = data[(i - 1) * FrameCapacity + j]
           /\ IsLastFrame(PieceAt(data, i)) <=> i = FrameCount(Len(data))
<1> DEFINE n == Len(data)
           before == (i - 1) * FrameCapacity
           piece == PieceAt(data, i)
<1>1. n \in Nat
  OBVIOUS
<1>2. /\ before \in Nat /\ before <= n
      /\ n - before <= FrameCapacity <=> i = FrameCount(n)
  BY <1>1, LastIsCount
<1> HIDE DEF before
<1>3. piece = SubSeq(data, before + 1, n)
  BY DEF PieceAt, before
<1>4. \A j \in before + 1 .. n : data[j] \in Byte
  BY <1>1, <1>2, ElementOfSeq
<1>5. /\ piece \in Seq(Byte)
      /\ Len(piece) = IF before + 1 <= n THEN n - (before + 1) + 1 ELSE 0
      /\ \A j \in 1 .. n - (before + 1) + 1 : piece[j] = data[before + 1 + j - 1]
  BY <1>1, <1>2, <1>3, <1>4, SubSeqProperties
<1> HIDE DEF piece, n
<1>6. Len(piece) = n - before
  BY <1>1, <1>2, <1>5
<1>7. \A j \in 1 .. Len(piece) : piece[j] = data[before + j]
  <2> SUFFICES ASSUME NEW j \in 1 .. Len(piece) PROVE piece[j] = data[before + j]
    OBVIOUS
  <2>1. j \in 1 .. n - (before + 1) + 1 /\ before + 1 + j - 1 = before + j
    BY <1>1, <1>2, <1>6
  <2> QED BY <1>5, <2>1
<1> QED BY <1>2, <1>5, <1>6, <1>7 DEF IsLastFrame, n, before, piece

LEMMA DataAtType ==
    ASSUME NEW data \in Seq(Byte), NEW i \in 1 .. FrameCount(Len(data))
    PROVE  /\ DataAt(data, i) \in Seq(Byte)
           /\ Len(DataAt(data, i)) =
                 IF i = FrameCount(Len(data))
                 THEN Len(data) - (i - 1) * FrameCapacity ELSE FrameCapacity
           /\ Len(DataAt(data, i)) <= FrameCapacity
           /\ \A j \in 1 .. Len(DataAt(data, i)) :
                 DataAt(data, i)[j] = data[(i - 1) * FrameCapacity + j]
<1> DEFINE piece == PieceAt(data, i)
           taken == ConsumeLen(piece)
           before == (i - 1) * FrameCapacity
<1>1. /\ piece \in Seq(Byte) /\ Len(piece) \in Nat
      /\ Len(piece) = Len(data) - before
      /\ \A j \in 1 .. Len(piece) : piece[j] = data[before + j]
      /\ IsLastFrame(piece) <=> i = FrameCount(Len(data))
  BY PieceType
<1> HIDE DEF piece, before
<1>2. /\ taken \in Nat /\ taken <= Len(piece) /\ taken <= FrameCapacity
      /\ taken = IF IsLastFrame(piece) THEN Len(piece) ELSE FrameCapacity
  BY <1>1, CapacityType DEF ConsumeLen, IsLastFrame
<1> HIDE DEF taken
<1>3. /\ SubSeq(piece, 1, taken) \in Seq(Byte)
      /\ Len(SubSeq(piece, 1, taken)) = IF 1 <= taken THEN taken - 1 + 1 ELSE 0
      /\ \A j \in 1 .. taken - 1 + 1 : SubSeq(piece, 1, taken)[j] = piece[1 + j - 1]
  <2>1. \A j \in 1 .. taken : piece[j] \in Byte
    BY <1>1, <1>2, ElementOfSeq
  <2> QED BY <1>2, <2>1, SubSeqProperties
<1>4. DataAt(data, i) = SubSeq(piece, 1, taken)
  BY DEF DataAt, piece, taken
<1>5. Len(DataAt(data, i)) = taken
  BY <1>2, <1>3, <1>4
<1>6. \A j \in 1 .. taken : DataAt(data, i)[j] = data[before + j]
  <2> SUFFICES ASSUME NEW j \in 1 .. taken PROVE DataAt(data, i)[j] = data[before + j]
    OBVIOUS
  <2>1. j \in 1 .. taken - 1 + 1 /\ 1 + j - 1 = j /\ j \in 1 .. Len(piece)
    BY <1>1, <1>2
  <2> QED BY <1>1, <1>3, <1>4, <2>1
<1> QED BY <1>1, <1>2, <1>3, <1>4, <1>5, <1>6 DEF before

TransportAt(transport, i) ==
    [first_frame |-> i = 1 /\ transport.first_frame,
     toggle_bit |-> transport.toggle_bit <=> i % 2 = 1]

FrameAt(transfer, i) ==
    TxFrame(transfer.transfer_metadata, TransportAt(transfer.transport_metadata, i),
            PieceAt(RemainingData(transfer), i), id)

LEMMA RemainingFramesAre ==
    ASSUME NEW transfer \in TxTransfer
    PROVE  /\ RemainingFrames(transfer) =
                 [i \in 1 .. FrameCount(Len(RemainingData(transfer))) |->
                     FrameAt(transfer, i)]
           /\ Len(RemainingFrames(transfer)) = FrameCount(Len(RemainingData(transfer)))
<1> DEFINE count == FrameCount(Len(RemainingData(transfer)))
<1>1. RemainingFrames(transfer) = [i \in 1 .. count |-> FrameAt(transfer, i)]
  BY DEF RemainingFrames, FrameCount, IsLastFrame, FrameAt, TransportAt, PieceAt
<1>2. count \in Nat
  BY RemainingDataType, CountBounds
<1> HIDE DEF count
<1>3. Len([i \in 1 .. count |-> FrameAt(transfer, i)]) = count
  BY <1>2
<1> QED BY <1>1, <1>3 DEF count

LEMMA FrameAtIs ==
    ASSUME NEW transfer \in TxTransfer,
           NEW i \in 1 .. FrameCount(Len(RemainingData(transfer)))
    PROVE  /\ FrameAt(transfer, i).id = TxCanId(transfer.transfer_metadata, id)
           /\ FrameAt(transfer, i).tail.transfer_id =
                 transfer.transfer_metadata.transfer_id % 32
           /\ FrameAt(transfer, i).tail.start <=>
                 i = 1 /\ transfer.transport_metadata.first_frame
           /\ FrameAt(transfer, i).tail.end <=>
                 i = FrameCount(Len(RemainingData(transfer)))
           /\ FrameAt(transfer, i).tail.toggle <=>
                 (transfer.transport_metadata.toggle_bit <=> i % 2 = 1)
           /\ FrameAt(transfer, i).data = DataAt(RemainingData(transfer), i)
<1>1. RemainingData(transfer) \in Seq(Byte)
  BY RemainingDataType
<1>2. IsLastFrame(PieceAt(RemainingData(transfer), i)) <=>
          i = FrameCount(Len(RemainingData(transfer)))
  BY <1>1, PieceType
<1> QED BY <1>2 DEF FrameAt, TxFrame, TransportAt, TailByteNew, DataAt

-----------------------------------------------------------------------------
(* A new transfer is a whole one. *)

(* TxFragmentation knows the transport by definitions of its own.          *)
LEMMA SameTransport ==
    /\ Fragmentation!FrameCapacity = FrameCapacity
    /\ \A s : Fragmentation!Crc(s) = Crc(s)
BY DEF Fragmentation!FrameCapacity, FrameCapacity, Fragmentation!Crc, Crc,
       Fragmentation!IsWritten, IsWritten, Fragmentation!Written, Written

LEMMA PartsOfConcat ==
    ASSUME NEW S, NEW s \in Seq(S), NEW t \in Seq(S), Len(s) > 0, Len(t) > 0
    PROVE  /\ Len(s \o t) = Len(s) + Len(t)
           /\ SubSeq(s \o t, 1, Len(s)) = s
           /\ SubSeq(s \o t, Len(s) + 1, Len(s \o t)) = t
<1>1. Len(s) \in Nat /\ Len(t) \in Nat /\ Len(s \o t) = Len(s) + Len(t)
  BY ConcatProperties
<1>2. SubSeq(s \o t, 1, Len(s)) = SubSeq(s, 1, Len(s))
  BY <1>1, SubSeqOfConcat1
<1>3. SubSeq(s \o t, Len(s) + 1, Len(s) + Len(t))
          = SubSeq(t, Len(s) + 1 - Len(s), Len(s) + Len(t) - Len(s))
  BY <1>1, SubSeqOfConcat2
<1>4. Len(s) + 1 - Len(s) = 1 /\ Len(s) + Len(t) - Len(s) = Len(t)
  BY <1>1
<1> QED BY <1>1, <1>2, <1>3, <1>4, SubSeqFull

(* What process_tx_crc has made too long for one frame ends with the CRC   *)
(* of the rest, and the rest is too long for one frame by itself.          *)
LEMMA PayloadEndsWithCrc ==
    ASSUME NEW buffer \in Seq(Byte), NEW size \in Nat, size <= Len(buffer),
           Len(ProcessTxCrc(buffer, size)) > FrameCapacity
    PROVE  Fragmentation!EndsWithCrc(ProcessTxCrc(buffer, size))
<1> DEFINE payload == SubSeq(buffer, 1, size)
           crc == Crc(payload)
           bytes == ProcessTxCrc(buffer, size)
<1>1. payload \in Seq(Byte) /\ Len(payload) = size
  BY SubSeqType
<1>2. crc \in Seq(Byte) /\ Len(crc) = 2
  <2> HIDE DEF payload
  <2> QED BY <1>1, CrcType
<1>3. size > FrameCapacity /\ bytes = payload \o crc
  BY <1>1, CapacityType DEF ProcessTxCrc
<1>4. FrameCapacity \in Nat \ {0} /\ size \in Nat \ {0}
  BY <1>3, CapacityType
<1> HIDE DEF bytes, crc, payload
<1>5. /\ Len(bytes) = size + 2
      /\ SubSeq(bytes, 1, size) = payload
      /\ SubSeq(bytes, size + 1, Len(bytes)) = crc
  <2>1. Len(payload) > 0 /\ Len(crc) > 0
    BY <1>1, <1>2, <1>4
  <2>2. /\ Len(payload \o crc) = Len(payload) + Len(crc)
        /\ SubSeq(payload \o crc, 1, Len(payload)) = payload
        /\ SubSeq(payload \o crc, Len(payload) + 1, Len(payload \o crc)) = crc
    BY <1>1, <1>2, <2>1, PartsOfConcat, ZenonT(60)
  <2> QED BY <1>1, <1>2, <1>3, <2>2
<1>6. Len(bytes) - CRC_SIZE = size
  BY <1>4, <1>5, CanAssumption
<1>7. Fragmentation!EndsWithCrc(bytes)
  BY <1>3, <1>5, <1>6, SameTransport DEF Fragmentation!EndsWithCrc, crc
<1> QED BY <1>7 DEF bytes

(* Nothing of the data is lost, and nothing sent twice.                    *)
LEMMA FramesReassemble ==
    ASSUME NEW transfer \in TxTransfer
    PROVE  Fragmentation!Reassembled(RemainingFrames(transfer)) = RemainingData(transfer)
<1> DEFINE data == RemainingData(transfer)
           n == Len(data)
           q == FrameCount(n)
           frames == RemainingFrames(transfer)
           cap == FrameCapacity
<1>1. data \in Seq(Byte) /\ n \in Nat /\ cap \in Nat \ {0}
  BY RemainingDataType, CapacityType
<1>2. /\ q \in Nat \ {0} /\ n <= q * cap
      /\ n > 0 => (q - 1) * cap < n
  BY <1>1, CountBounds
<1>3. Len(frames) = q /\ \A i \in 1 .. q : frames[i].data = DataAt(data, i)
  BY RemainingFramesAre, FrameAtIs
<1>4. \A i \in 1 .. q :
          /\ Len(DataAt(data, i)) = IF i = q THEN n - (i - 1) * cap ELSE cap
          /\ \A j \in 1 .. Len(DataAt(data, i)) :
                DataAt(data, i)[j] = data[(i - 1) * cap + j]
  BY <1>1, DataAtType
<1> HIDE DEF data, n, q, frames, cap
<1>5. cap * (q - 1) + Len(frames[q].data) = n
  <2>1. Len(frames[q].data) = n - (q - 1) * cap
    BY <1>2, <1>3, <1>4
  <2>2. cap * (q - 1) = (q - 1) * cap /\ (q - 1) * cap \in Nat
    BY <1>1, <1>2, TimesMonotonic
  <2> QED BY <1>1, <2>1, <2>2
<1>6. ASSUME NEW j \in 1 .. n
      PROVE  frames[(j - 1) \div cap + 1].data[((j - 1) % cap) + 1] = data[j]
  <2> DEFINE p == (j - 1) \div cap
             r == (j - 1) % cap
  <2>1. p \in Nat /\ r \in 0 .. cap - 1 /\ j - 1 = p * cap + r
    BY <1>1
  <2> HIDE DEF p, r
  <2>2. p * cap \in Nat /\ (p + 1) - 1 = p /\ p + 1 \in Nat \ {0}
    BY <1>1, <2>1, TimesMonotonic
  <2>3. p + 1 \in 1 .. q
    <3>1. p * cap < n /\ n <= ((q - 1) + 1) * cap /\ q - 1 \in Nat
      BY <1>1, <1>2, <2>1, <2>2
    <3>2. p <= q - 1
      BY <1>1, <2>1, <3>1, OneCeiling
    <3> QED BY <1>2, <2>1, <3>2
  <2>4. /\ Len(DataAt(data, p + 1)) = IF p + 1 = q THEN n - p * cap ELSE cap
        /\ \A l \in 1 .. Len(DataAt(data, p + 1)) :
              DataAt(data, p + 1)[l] = data[p * cap + l]
    BY <1>4, <2>2, <2>3
  <2>5. r + 1 \in 1 .. Len(DataAt(data, p + 1))
    BY <1>1, <2>1, <2>2, <2>4
  <2>6. p * cap + (r + 1) = j
    BY <1>1, <2>1, <2>2
  <2> QED BY <1>3, <2>3, <2>4, <2>5, <2>6 DEF p, r
<1>7. Fragmentation!Reassembled(frames) = [j \in 1 .. n |-> data[j]]
  <2>1. Fragmentation!Reassembled(frames) =
            [j \in 1 .. cap * (q - 1) + Len(frames[q].data) |->
                frames[(j - 1) \div cap + 1].data[((j - 1) % cap) + 1]]
    BY <1>3, SameTransport DEF Fragmentation!Reassembled, cap
  <2> QED BY <1>5, <1>6, <2>1
<1>8. data = [j \in 1 .. n |-> data[j]]
  BY <1>1, LenProperties DEF n
<1> QED BY <1>7, <1>8 DEF frames, data

LEMMA NewTransferIsWhole ==
    ASSUME NEW transfer \in TxTransfer,
           transfer.transport_metadata = TxMetadataDefault, transfer.consumed = 0,
           Len(transfer.payload) > FrameCapacity =>
               Fragmentation!EndsWithCrc(transfer.payload)
    PROVE  Fragmentation!IsTransfer(RemainingFrames(transfer))
<1> DEFINE data == RemainingData(transfer)
           q == FrameCount(Len(data))
           frames == RemainingFrames(transfer)
<1>1. data = transfer.payload /\ data \in Seq(Byte) /\ Len(data) \in Nat
  <2>1. transfer.payload \in Seq(Byte)
    BY DEF TxTransfer
  <2>2. SubSeq(transfer.payload, 0 + 1, Len(transfer.payload)) = transfer.payload
    BY <2>1, SubSeqFull
  <2> QED BY <2>1, <2>2 DEF RemainingData
<1>2. /\ q \in Nat \ {0} /\ q >= 1
      /\ q = 1 <=> Len(data) <= FrameCapacity
  BY <1>1, CountBounds, SMTT(30)
<1>3. Len(frames) = q /\ frames = [i \in 1 .. q |-> FrameAt(transfer, i)]
  BY RemainingFramesAre
<1>4. ASSUME NEW i \in 1 .. q
      PROVE  /\ frames[i].id = TxCanId(transfer.transfer_metadata, id)
             /\ frames[i].tail.transfer_id = transfer.transfer_metadata.transfer_id % 32
             /\ frames[i].tail.start <=> i = 1
             /\ frames[i].tail.end <=> i = q
             /\ frames[i].tail.toggle <=> i % 2 = 1
             /\ i < q => Len(frames[i].data) = FrameCapacity
             /\ Len(frames[i].data) <= FrameCapacity
  <2>1. frames[i] = FrameAt(transfer, i)
    BY <1>3
  <2>2. /\ Len(DataAt(data, i)) <= FrameCapacity
        /\ i < q => Len(DataAt(data, i)) = FrameCapacity
    <3>1. i \in Nat /\ (i < q => i # q)
      BY <1>2
    <3> QED BY <1>1, <3>1, DataAtType
  <2>3. transfer.transport_metadata.first_frame = TRUE
        /\ transfer.transport_metadata.toggle_bit = TRUE
    BY DEF TxMetadataDefault
  <2> HIDE DEF frames
  <2> QED BY <2>1, <2>2, <2>3, FrameAtIs
<1>5. q > 1 => Fragmentation!EndsWithCrc(Fragmentation!Reassembled(frames))
  <2>1. Fragmentation!Reassembled(frames) = transfer.payload
    BY <1>1, FramesReassemble
  <2> HIDE DEF frames, q, data
  <2> QED BY <1>1, <1>2, <2>1, CapacityType
<1> HIDE DEF frames, q
<1>6. 1 \in 1 .. q /\ q \in 1 .. q
  BY <1>2
<1> QED BY <1>2, <1>3, <1>4, <1>5, <1>6, SameTransport DEF Fragmentation!IsTransfer, frames

-----------------------------------------------------------------------------
(* Sending a frame takes the first frame off those that remain.            *)

LEMMA RemainingDataAt ==
    ASSUME NEW transfer \in TxTransfer, NEW j \in 1 .. Len(RemainingData(transfer))
    PROVE  RemainingData(transfer)[j] = transfer.payload[transfer.consumed + j]
<1> DEFINE payload == transfer.payload
           consumed == transfer.consumed
           n == Len(payload)
<1>1. payload \in Seq(Byte) /\ consumed \in Nat /\ n \in Nat
  BY DEF TxTransfer
<1>2. Len(RemainingData(transfer)) = IF consumed < n THEN n - consumed ELSE 0
  BY RemainingDataType
<1>3. RemainingData(transfer) = SubSeq(payload, consumed + 1, n)
  BY DEF RemainingData
<1> HIDE DEF payload, consumed, n
<1>4. \A i \in consumed + 1 .. n : payload[i] \in Byte
  BY <1>1, ElementOfSeq DEF n
<1>5. \A i \in 1 .. n - (consumed + 1) + 1 :
          SubSeq(payload, consumed + 1, n)[i] = payload[consumed + 1 + i - 1]
  BY <1>1, <1>4, SubSeqProperties
<1>6. j \in 1 .. n - (consumed + 1) + 1 /\ consumed + 1 + j - 1 = consumed + j
  BY <1>1, <1>2
<1> QED BY <1>3, <1>5, <1>6 DEF payload, consumed

LEMMA FirstRemainingFrame ==
    ASSUME NEW transfer \in TxTransfer
    PROVE  RemainingFrames(transfer)[1] =
               TxFrame(transfer.transfer_metadata, transfer.transport_metadata,
                       RemainingData(transfer), id)
<1> DEFINE data == RemainingData(transfer)
<1>1. data \in Seq(Byte)
  BY RemainingDataType
<1>2. 1 \in 1 .. FrameCount(Len(data))
  <2>1. Len(data) \in Nat
    BY <1>1
  <2> QED BY <2>1, CountBounds
<1>3. RemainingFrames(transfer)[1] = FrameAt(transfer, 1)
  BY <1>2, RemainingFramesAre
<1>4. TransportAt(transfer.transport_metadata, 1) = transfer.transport_metadata
  <2>1. transfer.transport_metadata \in TxMetadata
    BY DEF TxTransfer
  <2> QED BY <2>1 DEF TransportAt, TxMetadata
<1>5. PieceAt(data, 1) = data
  <2>1. (1 - 1) * FrameCapacity + 1 = 1
    BY CapacityType
  <2> HIDE DEF data
  <2> QED BY <1>1, <2>1, SubSeqFull DEF PieceAt
<1> QED BY <1>3, <1>4, <1>5 DEF FrameAt

(* The transfer when a full frame of it has been sent.                     *)
Advanced(transfer, next) ==
    /\ next.transfer_metadata = transfer.transfer_metadata
    /\ next.payload = transfer.payload
    /\ next.consumed = transfer.consumed + FrameCapacity
    /\ next.consumed < Len(next.payload)
    /\ next.transport_metadata = TxMetadataNext(transfer.transport_metadata)

LEMMA AdvancedData ==
    ASSUME NEW transfer \in TxTransfer, NEW next \in TxTransfer, Advanced(transfer, next)
    PROVE  LET data == RemainingData(transfer)
               rest == RemainingData(next)
           IN  /\ Len(rest) \in Nat /\ Len(data) = Len(rest) + FrameCapacity
               /\ FrameCount(Len(data)) = FrameCount(Len(rest)) + 1
               /\ \A j \in 1 .. Len(rest) : rest[j] = data[FrameCapacity + j]
<1> DEFINE data == RemainingData(transfer)
           rest == RemainingData(next)
           cap == FrameCapacity
<1>1. /\ cap \in Nat \ {0} /\ transfer.consumed \in Nat /\ next.consumed \in Nat
      /\ Len(transfer.payload) \in Nat
  BY CapacityType DEF TxTransfer
<1>2. /\ Len(rest) = Len(transfer.payload) - next.consumed
      /\ Len(data) = Len(transfer.payload) - transfer.consumed
      /\ Len(rest) > 0
  BY <1>1, RemainingDataType, SMTT(30) DEF Advanced
<1>3. Len(rest) \in Nat \ {0} /\ Len(data) = Len(rest) + cap /\ Len(data) > cap
  BY <1>1, <1>2, SMTT(30) DEF Advanced
<1>4. \A j \in 1 .. Len(rest) : rest[j] = data[cap + j]
  <2> SUFFICES ASSUME NEW j \in 1 .. Len(rest) PROVE rest[j] = data[cap + j]
    OBVIOUS
  <2>1. rest[j] = next.payload[next.consumed + j]
    BY RemainingDataAt
  <2>2. cap + j \in 1 .. Len(data)
    BY <1>1, <1>3
  <2>3. data[cap + j] = transfer.payload[transfer.consumed + (cap + j)]
    BY <2>2, RemainingDataAt
  <2>4. next.consumed + j = transfer.consumed + (cap + j)
    BY <1>1, <1>3 DEF Advanced
  <2> QED BY <2>1, <2>3, <2>4 DEF Advanced
<1>5. FrameCount(Len(data)) = FrameCount(Len(rest)) + 1
  <2> HIDE DEF data, rest
  <2>1. Len(data) \in Nat /\ Len(data) - cap = Len(rest)
    BY <1>1, <1>3
  <2>2. FrameCount(Len(data)) \in Nat
    BY <2>1, CountBounds
  <2> QED BY <1>3, <2>1, <2>2, CountNext
<1> QED BY <1>3, <1>4, <1>5

LEMMA AdvancedFrame ==
    ASSUME NEW transfer \in TxTransfer, NEW next \in TxTransfer, Advanced(transfer, next),
           NEW i \in 1 .. FrameCount(Len(RemainingData(next)))
    PROVE  FrameAt(next, i) = FrameAt(transfer, i + 1)
<1> DEFINE data == RemainingData(transfer)
           rest == RemainingData(next)
           cap == FrameCapacity
<1>1. data \in Seq(Byte) /\ rest \in Seq(Byte) /\ cap \in Nat \ {0}
  BY RemainingDataType, CapacityType
<1>2. /\ Len(rest) \in Nat /\ Len(data) = Len(rest) + cap
      /\ FrameCount(Len(data)) = FrameCount(Len(rest)) + 1
      /\ \A j \in 1 .. Len(rest) : rest[j] = data[cap + j]
  BY AdvancedData
<1>3. i \in 1 .. FrameCount(Len(rest)) /\ FrameCount(Len(rest)) \in Nat
  BY <1>2, CountBounds
<1>4. TransportAt(next.transport_metadata, i) =
          TransportAt(transfer.transport_metadata, i + 1)
  <2>1. /\ next.transport_metadata = TxMetadataNext(transfer.transport_metadata)
        /\ transfer.transport_metadata \in TxMetadata
    BY DEF Advanced, TxTransfer
  <2>2. i \in Nat /\ i + 1 # 1
    BY <1>3
  <2>3. (i + 1) % 2 = 1 <=> ~ (i % 2 = 1)
    BY <2>2
  <2>4. /\ next.transport_metadata.first_frame = FALSE
        /\ next.transport_metadata.toggle_bit = ~ transfer.transport_metadata.toggle_bit
        /\ transfer.transport_metadata.toggle_bit \in BOOLEAN
    BY <2>1 DEF TxMetadataNext, TxMetadata
  <2> QED BY <2>2, <2>3, <2>4 DEF TransportAt
<1> HIDE DEF data, rest, cap
<1>5. PieceAt(rest, i) = PieceAt(data, i + 1)
  <2>1. i + 1 \in 1 .. FrameCount(Len(data)) /\ i \in Nat \ {0}
    BY <1>2, <1>3
  <2>2. /\ PieceAt(rest, i) \in Seq(Byte)
        /\ Len(PieceAt(rest, i)) = Len(rest) - (i - 1) * cap
        /\ \A j \in 1 .. Len(PieceAt(rest, i)) :
              PieceAt(rest, i)[j] = rest[(i - 1) * cap + j]
    BY <1>1, <1>3, PieceType DEF cap
  <2>3. /\ PieceAt(data, i + 1) \in Seq(Byte)
        /\ Len(PieceAt(data, i + 1)) = Len(data) - ((i + 1) - 1) * cap
        /\ \A j \in 1 .. Len(PieceAt(data, i + 1)) :
              PieceAt(data, i + 1)[j] = data[((i + 1) - 1) * cap + j]
    BY <1>1, <2>1, PieceType DEF cap
  <2>4. /\ ((i + 1) - 1) * cap = (i - 1) * cap + cap
        /\ (i - 1) * cap \in Nat
    <3>1. i - 1 \in Nat /\ (i + 1) - 1 = (i - 1) + 1
      BY <2>1
    <3> QED BY <1>1, <3>1, TimesNext, TimesMonotonic
  <2>5. Len(PieceAt(rest, i)) = Len(PieceAt(data, i + 1))
    BY <1>1, <1>2, <2>2, <2>3, <2>4
  <2>6. ASSUME NEW j \in 1 .. Len(PieceAt(rest, i))
        PROVE  PieceAt(rest, i)[j] = PieceAt(data, i + 1)[j]
    <3>1. (i - 1) * cap + j \in 1 .. Len(rest)
      BY <1>2, <2>2, <2>4
    <3>2. cap + ((i - 1) * cap + j) = ((i + 1) - 1) * cap + j
      BY <1>1, <2>4
    <3> QED BY <1>2, <2>2, <2>3, <2>5, <3>1, <3>2
  <2> QED BY <2>2, <2>3, <2>5, <2>6, SeqEqual
<1> QED BY <1>4, <1>5 DEF FrameAt, Advanced, data, rest

LEMMA AdvancedFrames ==
    ASSUME NEW transfer \in TxTransfer, NEW next \in TxTransfer, Advanced(transfer, next)
    PROVE  /\ Len(RemainingFrames(transfer)) > 1
           /\ RemainingFrames(next) = Tail(RemainingFrames(transfer))
<1> DEFINE p == FrameCount(Len(RemainingData(next)))
           q == FrameCount(Len(RemainingData(transfer)))
           S == {FrameAt(transfer, i) : i \in 1 .. q}
<1>1. p \in Nat \ {0} /\ q = p + 1
  BY AdvancedData, CountBounds
<1>2. /\ RemainingFrames(transfer) = [i \in 1 .. q |-> FrameAt(transfer, i)]
      /\ RemainingFrames(next) = [i \in 1 .. p |-> FrameAt(next, i)]
      /\ Len(RemainingFrames(transfer)) = q
  BY RemainingFramesAre
<1>3. \A i \in 1 .. p : FrameAt(next, i) = FrameAt(transfer, i + 1)
  BY AdvancedFrame
<1> DEFINE all == RemainingFrames(transfer)
           rest == RemainingFrames(next)
<1> HIDE DEF p, q, all, rest
<1>4. all \in Seq(S) /\ Len(all) = q /\ all # << >>
  BY <1>1, <1>2, SeqDef DEF all
<1>5. /\ Tail(all) \in Seq(S) /\ Len(Tail(all)) = q - 1
      /\ \A i \in 1 .. Len(Tail(all)) : Tail(all)[i] = all[i + 1]
  BY <1>4, HeadTailProperties
<1>6. rest \in Seq(S) /\ Len(rest) = p /\ \A i \in 1 .. p : rest[i] = all[i + 1]
  <2>1. \A i \in 1 .. p : i + 1 \in 1 .. q
    BY <1>1
  <2>2. \A i \in 1 .. p : FrameAt(next, i) \in S
    BY <1>3, <2>1
  <2>3. rest \in [1 .. p -> S]
    BY <1>2, <2>2 DEF rest
  <2>4. rest \in Seq(S) /\ Len(rest) = p
    <3> HIDE DEF S
    <3> QED BY <1>1, <2>3, SeqDef
  <2> QED BY <1>2, <1>3, <2>1, <2>4 DEF rest, all
<1>7. rest = Tail(all)
  BY <1>1, <1>5, <1>6, SeqEqual
<1>8. Len(all) > 1
  BY <1>1, <1>4
<1> QED BY <1>7, <1>8 DEF rest, all

-----------------------------------------------------------------------------
(* Every step is one of TxFragmentation, or changes nothing it knows of.   *)

Sendable(k) == TxIsActive(k) /\ TxErrorOf(tx_transfers[k]) = "Ok"

LEMMA TodoIs ==
    /\ TxTodo = [k \in {x \in TxKeys : Sendable(x)} |-> RemainingFrames(tx_transfers[k])]
    /\ TxTodo' = [k \in {x \in TxKeys : Sendable(x)'} |-> RemainingFrames(tx_transfers'[k])]
BY DEF TxTodo, Sendable

LEMMA SendableTyped ==
    ASSUME TxTypeOK, NEW k \in TxKeys, Sendable(k)
    PROVE  tx_transfers[k] \in TxTransfer /\ k \in DOMAIN tx_transfers
BY ActiveTyped DEF Sendable, TxIsActive

(* Nothing new to send, and nothing sent: a step that gives up transfers,  *)
(* or none.                                                                *)
LEMMA GivesUp ==
    ASSUME tx_result'.kind # "Frame",
           \A k \in TxKeys :
               Sendable(k)' => Sendable(k) /\ tx_transfers'[k] = tx_transfers[k]
    PROVE  Fragmentation!GiveUp
<1>1. DOMAIN TxTodo' \subseteq DOMAIN TxTodo
  BY TodoIs
<1>2. TxTodo' = [k \in DOMAIN TxTodo' |-> TxTodo[k]]
  BY TodoIs
<1>3. TxOut' = None
  BY DEF TxOut
<1> QED BY <1>1, <1>2, <1>3 DEF Fragmentation!GiveUp, Fragmentation!Restrict

LEMMA NewTransferBeginsWhole ==
    ASSUME NEW metadata \in TransferMetadata, NEW use \in BufferUses, NEW d \in Data,
           use.claimed # None
    PROVE  LET payload == ProcessTxCrc(BufferAfterCallback(use, d), ClampedClaim(use))
               transfer == NewTxTransfer(metadata, payload)
           IN  Fragmentation!IsTransfer(RemainingFrames(transfer))
<1> DEFINE buffer == BufferAfterCallback(use, d)
           payload == ProcessTxCrc(buffer, ClampedClaim(use))
           transfer == NewTxTransfer(metadata, payload)
<1>1. payload \in Seq(Byte)
  BY PayloadType, NodeTxAssumption
<1>2. /\ buffer \in Seq(Byte) /\ ClampedClaim(use) \in Nat
      /\ ClampedClaim(use) <= Len(buffer)
  BY BufferType, NodeTxAssumption
<1>3. Len(payload) > FrameCapacity => Fragmentation!EndsWithCrc(payload)
  <2> HIDE DEF buffer
  <2> QED BY <1>2, PayloadEndsWithCrc
<1>4. /\ transfer \in TxTransfer /\ transfer.payload = payload
      /\ transfer.transport_metadata = TxMetadataDefault /\ transfer.consumed = 0
  <2> HIDE DEF payload
  <2> QED BY <1>1 DEF NewTxTransfer, TxTransfer, TxMetadataDefault, TxMetadata
<1> HIDE DEF transfer, payload
<1>5. Fragmentation!IsTransfer(RemainingFrames(transfer))
  BY <1>3, <1>4, NewTransferIsWhole
<1> QED BY <1>5 DEF transfer, payload

(* A transfer that is whole when it is put into the map begins, or, when   *)
(* transmit_frame is going to refuse it, is never seen.                    *)
LEMMA InsertImplements ==
    ASSUME NEW k \in TxKeys, NEW transfer, transfer.status = "Active",
           Fragmentation!IsTransfer(RemainingFrames(transfer)),
           k \notin DOMAIN tx_transfers,
           tx_transfers' = Insert(tx_transfers, k, transfer),
           tx_result'.kind # "Frame"
    PROVE  Fragmentation!Next
<1>1. tx_transfers'[k] = transfer
  BY DEF Insert
<1>2. ~ Sendable(k)
  BY DEF Sendable, TxIsActive
<1>3. ASSUME NEW other \in TxKeys, other # k
      PROVE  /\ Sendable(other)' <=> Sendable(other)
             /\ Sendable(other) => tx_transfers'[other] = tx_transfers[other]
  <2>1. /\ other \in DOMAIN tx_transfers' <=> other \in DOMAIN tx_transfers
        /\ other \in DOMAIN tx_transfers => tx_transfers'[other] = tx_transfers[other]
    BY <1>3 DEF Insert
  <2> QED BY <2>1 DEF Sendable, TxIsActive
<1>4. TxOut' = None
  BY DEF TxOut
<1>5. CASE Sendable(k)'
  <2>1. k \notin DOMAIN TxTodo /\ k \in DOMAIN TxTodo'
    BY <1>2, <1>5, TodoIs
  <2>2. TxTodo'[k] = RemainingFrames(transfer)
    BY <1>1, <1>5, TodoIs
  <2>3. DOMAIN TxTodo' = DOMAIN TxTodo \cup {k}
    BY <1>3, <1>5, TodoIs
  <2>4. \A other \in DOMAIN TxTodo : TxTodo'[other] = TxTodo[other]
    BY <1>2, <1>3, TodoIs
  <2>5. TxTodo' = Fragmentation!Insert(TxTodo, k, TxTodo'[k])
    <3>1. TxTodo' = [x \in DOMAIN TxTodo' |-> TxTodo'[x]]
      BY TodoIs
    <3> QED BY <2>1, <2>3, <2>4, <3>1 DEF Fragmentation!Insert
  <2>6. Fragmentation!Begin(k)
    BY <1>4, <2>1, <2>2, <2>5 DEF Fragmentation!Begin
  <2> QED BY <2>6 DEF Fragmentation!Next
<1>6. CASE ~ Sendable(k)'
  <2>1. Fragmentation!GiveUp
    BY <1>3, <1>6, GivesUp
  <2> QED BY <2>1 DEF Fragmentation!Next
<1> QED BY <1>5, <1>6

LEMMA StartImplements ==
    ASSUME TxTypeOK, NEW p \in Priorities, NEW port \in PortIds,
           NEW kind \in TransmissionTypes, NEW t \in TransferIds,
           NEW use \in BufferUses, NEW d \in Data,
           StartTxTransfer(p, port, kind, t, use, d)
    PROVE  Fragmentation!Next
<1> DEFINE metadata == TxMetadataOf(p, port, kind, t, now)
           key == HashMetadata(metadata)
           payload == ProcessTxCrc(BufferAfterCallback(use, d), ClampedClaim(use))
           transfer == NewTxTransfer(metadata, payload)
<1>1. CASE UNCHANGED tx_transfers /\ tx_result'.kind # "Frame"
  <2>1. Fragmentation!GiveUp
    BY <1>1, GivesUp DEF Sendable, TxIsActive
  <2> QED BY <2>1 DEF Fragmentation!Next
<1>2. CASE /\ key \notin DOMAIN tx_transfers /\ use.claimed # None
           /\ tx_transfers' = Insert(tx_transfers, key, transfer)
           /\ tx_result' = [kind |-> "Started", token |-> key]
  <2>1. metadata \in TransferMetadata /\ key \in TxKeys
    BY MetadataType DEF TxTypeOK
  <2>2. Fragmentation!IsTransfer(RemainingFrames(transfer))
    <3> HIDE DEF metadata
    <3> QED BY <1>2, <2>1, NewTransferBeginsWhole
  <2>3. transfer.status = "Active"
    BY DEF NewTxTransfer
  <2>4. tx_result'.kind # "Frame"
    BY <1>2
  <2> HIDE DEF key, transfer
  <2> QED BY <1>2, <2>1, <2>2, <2>3, <2>4, InsertImplements
<1> HIDE DEF transfer
<1>3. QED
  BY <1>1, <1>2 DEF StartTxTransfer, transfer

(* What transmit_frame takes from a transfer is its first remaining frame. *)
LEMMA OutIsFirst ==
    ASSUME TxTypeOK, NEW k \in TxKeys, TransmitOk(k)
    PROVE  Sendable(k) /\ TxOut' = RemainingFrames(tx_transfers[k])[1]
<1>1. Sendable(k)
  BY DEF TransmitOk, Sendable
<1>2. RemainingFrames(tx_transfers[k])[1] =
          TxFrame(tx_transfers[k].transfer_metadata, tx_transfers[k].transport_metadata,
                  RemainingData(tx_transfers[k]), id)
  BY <1>1, SendableTyped, FirstRemainingFrame
<1>3. tx_result'.kind = "Frame" /\ tx_result'.frame = RemainingFrames(tx_transfers[k])[1]
  BY <1>2 DEF TransmitOk
<1> QED BY <1>1, <1>3 DEF TxOut

(* The other transfers are not touched by it. *)
LEMMA OthersKept ==
    ASSUME TxTypeOK, NEW k \in TxKeys, TransmitOk(k), NEW other \in TxKeys, other # k
    PROVE  /\ Sendable(other)' <=> Sendable(other)
           /\ Sendable(other) => tx_transfers'[other] = tx_transfers[other]
<1>1. /\ other \in DOMAIN tx_transfers' <=> other \in DOMAIN tx_transfers
      /\ other \in DOMAIN tx_transfers => tx_transfers'[other] = tx_transfers[other]
  BY DEF TransmitOk, Remove, Restrict
<1> QED BY <1>1 DEF Sendable, TxIsActive

(* The last frame has been sent and the transfer is gone. *)
LEMMA LastFrameImplements ==
    ASSUME TxTypeOK, NEW k \in TxKeys, TransmitOk(k), k \notin DOMAIN tx_transfers'
    PROVE  Len(TxTodo[k]) = 1 /\ TxTodo' = Fragmentation!Remove(TxTodo, k)
<1> DEFINE transfer == tx_transfers[k]
           data == RemainingData(transfer)
           size == Len(transfer.payload)
<1>1. Sendable(k) /\ transfer \in TxTransfer /\ k \in DOMAIN tx_transfers
  BY OutIsFirst, SendableTyped
<1>2. ~ (transfer.consumed + ConsumeLen(data) < size)
  BY <1>1 DEF TransmitOk
<1>3. Len(RemainingFrames(transfer)) = 1
  <2>1. /\ transfer.consumed \in Nat /\ size \in Nat
        /\ Len(data) = IF transfer.consumed < size THEN size - transfer.consumed ELSE 0
    BY <1>1, RemainingDataType DEF TxTransfer
  <2>2. IsLastFrame(data)
    <3>1. SUFFICES ASSUME ~ IsLastFrame(data) PROVE FALSE
      OBVIOUS
    <3>2. ConsumeLen(data) = FrameCapacity /\ Len(data) > FrameCapacity
      BY <2>1, <3>1, CapacityType DEF ConsumeLen, IsLastFrame
    <3> HIDE DEF data, transfer, size
    <3> QED BY <1>2, <2>1, <3>2, CapacityType
  <2>3. Len(data) <= FrameCapacity
    BY <2>2 DEF IsLastFrame
  <2>4. FrameCount(Len(data)) = 1
    BY <2>3 DEF FrameCount
  <2> QED BY <1>1, <2>4, RemainingFramesAre
<1>4. TxTodo[k] = RemainingFrames(transfer)
  BY <1>1, TodoIs
<1>5. ~ Sendable(k)'
  BY DEF Sendable, TxIsActive
<1>6. DOMAIN TxTodo' = DOMAIN TxTodo \ {k}
  BY <1>5, OthersKept, TodoIs
<1>7. TxTodo' = [x \in DOMAIN TxTodo' |-> TxTodo[x]]
  BY <1>5, OthersKept, TodoIs
<1> QED BY <1>3, <1>4, <1>6, <1>7 DEF Fragmentation!Remove, Fragmentation!Restrict

(* A full frame has been sent: the first of the frames is taken off. *)
LEMMA FullFrameImplements ==
    ASSUME TxTypeOK, NEW k \in TxKeys, TransmitOk(k), k \in DOMAIN tx_transfers'
    PROVE  Len(TxTodo[k]) > 1 /\ TxTodo' = [TxTodo EXCEPT ![k] = Tail(@)]
<1> DEFINE old == tx_transfers[k]
           new == tx_transfers'[k]
<1>1. Sendable(k) /\ old \in TxTransfer /\ k \in DOMAIN tx_transfers
  BY OutIsFirst, SendableTyped
<1>2. SentFull(k)
  BY SentFullFrame
<1>3. Advanced(old, new)
  BY <1>2 DEF SentFull, Advanced
<1>4. new \in TxTransfer
  <2>1. ~ (k \notin DOMAIN tx_transfers')
    OBVIOUS
  <2>2. tx_transfers' =
          [tx_transfers EXCEPT
              ![k].transport_metadata = TxMetadataNext(@),
              ![k].consumed = old.consumed + ConsumeLen(RemainingData(old))]
    BY <2>1 DEF TransmitOk, Remove, Restrict
  <2>3. new = [old EXCEPT
                 !.transport_metadata = TxMetadataNext(@),
                 !.consumed = old.consumed + ConsumeLen(RemainingData(old))]
    BY <1>1, <2>2
  <2> QED BY <1>1, <2>3, SentFrameType
<1>5. Len(RemainingFrames(old)) > 1 /\ RemainingFrames(new) = Tail(RemainingFrames(old))
  BY <1>1, <1>3, <1>4, AdvancedFrames
<1>6. Sendable(k)'
  <2>1. TxErrorOf(new) = "Ok"
    BY <1>2 DEF SentFull, TxErrorOf, TxFrameError
  <2>2. new.status = "Active"
    BY <1>4 DEF TxTransfer
  <2> QED BY <2>1, <2>2 DEF Sendable, TxIsActive, TxErrorOf, RemainingData
<1>7. k \in DOMAIN TxTodo /\ TxTodo[k] = RemainingFrames(old)
  BY <1>1, TodoIs
<1>8. TxTodo'[k] = Tail(TxTodo[k])
  BY <1>5, <1>6, <1>7, TodoIs
<1>9. DOMAIN TxTodo' = DOMAIN TxTodo
  BY <1>1, <1>6, OthersKept, TodoIs
<1>10. \A x \in DOMAIN TxTodo : x # k => TxTodo'[x] = TxTodo[x]
  BY OthersKept, TodoIs
<1>11. TxTodo' = [x \in DOMAIN TxTodo' |-> TxTodo'[x]] /\ TxTodo = [x \in DOMAIN TxTodo |-> TxTodo[x]]
  BY TodoIs
<1> QED BY <1>5, <1>7, <1>8, <1>9, <1>10, <1>11

LEMMA TransmitImplements ==
    ASSUME TxTypeOK, NEW k \in TxKeys, TransmitOk(k)
    PROVE  Fragmentation!Next
<1>1. k \in DOMAIN TxTodo /\ TxOut' = TxTodo[k][1]
  BY OutIsFirst, TodoIs
<1>2. TxTodo' = IF Len(TxTodo[k]) > 1
                THEN [TxTodo EXCEPT ![k] = Tail(@)]
                ELSE Fragmentation!Remove(TxTodo, k)
  <2>1. CASE k \in DOMAIN tx_transfers'
    BY <2>1, FullFrameImplements
  <2>2. CASE k \notin DOMAIN tx_transfers'
    <3>1. Len(TxTodo[k]) = 1 /\ TxTodo' = Fragmentation!Remove(TxTodo, k)
      BY <2>2, LastFrameImplements
    <3>2. ~ (1 > 1)
      OBVIOUS
    <3> QED BY <3>1, <3>2
  <2> QED BY <2>1, <2>2
<1>3. Fragmentation!HandOut(k)
  BY <1>1, <1>2 DEF Fragmentation!HandOut
<1> QED BY <1>3 DEF Fragmentation!Next

LEMMA NextImplements ==
    TxTypeOK /\ [Next]_tx_vars => [Fragmentation!Next]_<< TxTodo, TxOut >>
<1> SUFFICES ASSUME TxTypeOK, [Next]_tx_vars
             PROVE  [Fragmentation!Next]_<< TxTodo, TxOut >>
  OBVIOUS
<1>1. ASSUME NEW p \in Priorities, NEW port \in PortIds,
             NEW kind \in TransmissionTypes, NEW t \in TransferIds,
             NEW use \in BufferUses, NEW d \in Data,
             StartTxTransfer(p, port, kind, t, use, d)
      PROVE  Fragmentation!Next
  BY <1>1, StartImplements
<1>2. ASSUME NEW k \in TxKeys, TransmitOk(k) PROVE Fragmentation!Next
  BY <1>2, TransmitImplements
<1>3. ASSUME NEW k \in TxKeys,
             TransmitTxError(k) \/ TransmitTokenError(k) \/ CancelTxTransfer(k)
      PROVE  Fragmentation!Next
  <2>1. tx_result'.kind # "Frame"
    BY <1>3 DEF TransmitTxError, TransmitTokenError, CancelTxTransfer
  <2>2. ASSUME NEW x \in TxKeys, Sendable(x)'
        PROVE  Sendable(x) /\ tx_transfers'[x] = tx_transfers[x]
    <3>1. /\ x \in DOMAIN tx_transfers' => x \in DOMAIN tx_transfers
          /\ x \in DOMAIN tx_transfers' => tx_transfers'[x] = tx_transfers[x]
      BY <1>3 DEF TransmitTxError, TransmitTokenError, CancelTxTransfer, Remove, Restrict
    <3> QED BY <2>2, <3>1 DEF Sendable, TxIsActive
  <2> QED BY <2>1, <2>2, GivesUp DEF Fragmentation!Next
<1>4. CASE UpdateTxTransfers
  <2>1. tx_result'.kind # "Frame"
    BY <1>4 DEF UpdateTxTransfers, Unit
  <2>2. ASSUME NEW x \in TxKeys, Sendable(x)'
        PROVE  Sendable(x) /\ tx_transfers'[x] = tx_transfers[x]
    <3>1. x \in DOMAIN tx_transfers /\ tx_transfers'[x] \in {TimedOut, tx_transfers[x]}
      BY <1>4, <2>2 DEF UpdateTxTransfers, Sendable, TxIsActive
    <3>2. tx_transfers'[x].status = "Active"
      BY <2>2 DEF Sendable, TxIsActive
    <3> QED BY <2>2, <3>1, <3>2 DEF Sendable, TxIsActive, TimedOut
  <2> QED BY <2>1, <2>2, GivesUp DEF Fragmentation!Next
<1>5. CASE UNCHANGED << tx_transfers, tx_result >>
  BY <1>5 DEF TxTodo, TxOut, TxIsActive, TxErrorOf, RemainingFrames, RemainingData
<1> QED
  BY <1>1, <1>2, <1>3, <1>4, <1>5 DEF Next, StartSome, TransmitFrame, Tick, tx_vars

(* The sending half (Node::transmit_frame, node.rs:181-226, over           *)
(* process_tx_crc and transmit_frame of legacy.rs) implements              *)
(* TxFragmentation, for payloads of every length and any number of         *)
(* transfers at a time: every transfer it begins is a well-formed sequence *)
(* of frames that carries the payload and its CRC, and every frame it      *)
(* hands out is the next one of its transfer.                              *)
THEOREM TransfersAreFragmented == Spec => FragmentsTransfers
<1>1. Init => Fragmentation!Init
  BY DEF Init, TxTodo, TxOut, TxIsActive, EmptyMap, Unit, Fragmentation!Init,
         Fragmentation!EmptyMap
<1>2. TxTypeOK /\ [Next]_tx_vars => [Fragmentation!Next]_<< TxTodo, TxOut >>
  BY NextImplements
<1>3. Spec => []TxTypeOK
  BY TxTypeCorrect
<1> QED BY <1>1, <1>2, <1>3, PTL DEF Spec, FragmentsTransfers, Fragmentation!Spec
=============================================================================
