---------------------------- MODULE CanLinkProofs -----------------------------
(***************************************************************************)
(* Proofs about two nodes and a bus that loses and repeats frames, for     *)
(* every value of the constants: that no wrong payload passes the CRC and  *)
(* the toggle, and that nothing is delivered twice.                        *)
(*                                                                         *)
(* What NodeTxProofs proves of the sending half is used here of the node   *)
(* that sends (TxP).                                                       *)
(***************************************************************************)
EXTENDS CanLink, CanTransportProofs

TxP == INSTANCE NodeTxProofs WITH
        id <- SenderId,
        Priorities <- {PriorityUsed},
        PortIds <- {t.port_id : t \in Planned},
        TransferIds <- {t.transfer_id : t \in Planned},
        TransmissionTypes <- {t.tx_kind : t \in Planned},
        BufferUses <- {t.use : t \in Planned}

-----------------------------------------------------------------------------
(* The invariant. *)

(* Where the receiving node keeps what a frame belongs to, and what the    *)
(* frames of an entry of the sending node will belong to.                  *)
FrameKey(f) == HashMetadata(RxMetadataOf(f.id, f.tail.transfer_id, 0))
EntryKey(e) ==
    HashMetadata(RxMetadataOf(TxCanId(e.transfer_metadata, SenderId),
                              e.transfer_metadata.transfer_id % 32, 0))

(* All that a multi-frame transfer sends, its CRC included. *)
Whole(t) == PayloadOf(t) \o Crc(PayloadOf(t))

(* The entry of the sending node that a transfer has. *)
EntryOf(t, e) ==
    /\ t.use.claimed # None
    /\ EntryKey(e) = BusKey(t)
    /\ e.payload = IF Multi(t) THEN Whole(t) ELSE PayloadOf(t)

(* A frame on the bus is of the transfer: if it closes it, it ends as the  *)
(* transfer does; and it stands alone only if the transfer is no longer.   *)
FrameOf(t, f) ==
    /\ FrameKey(f) = BusKey(t)
    /\ ClosesMultiFrame(f) =>
          Multi(t) /\ \E c \in 0 .. Len(Whole(t)) :
                          f.data = SubSeq(Whole(t), c + 1, Len(Whole(t)))
    /\ f.tail.start /\ f.tail.end => ~ Multi(t)

LinkTyped ==
    /\ scenario \in Scenarios
    /\ plan \in Seq(Planned)
    /\ \A i \in DOMAIN plan : \E j \in DOMAIN scenario.sends : plan[i] = scenario.sends[j]
    /\ \A t \in begun : \E j \in DOMAIN scenario.sends : t = scenario.sends[j]
    /\ bus \in Seq(CanFrame)

TxEntriesBegun ==
    \A k \in DOMAIN tx_transfers :
        TxP!TxIsActive(k) => \E t \in begun : EntryOf(t, tx_transfers[k])

BusFramesBegun == \A i \in DOMAIN bus : \E t \in begun : FrameOf(t, bus[i])

(* A key that multi-frame transfers have. *)
MultiKey(k) == \E j \in DOMAIN scenario.sends :
                  Multi(scenario.sends[j]) /\ BusKey(scenario.sends[j]) = k

(* The running CRC of an entry has digested the payload that is kept, or   *)
(* what no transfer begins with and no frame can make good.                *)
CrcTells(e) ==
    \/ e.transport_metadata.crc = e.payload
    \/ /\ e.transport_metadata.crc # << >>
       /\ ~ IsWritten(e.transport_metadata.crc)

RxTransfer ==
    [status : {"Active"}, transfer_metadata : TransferMetadata,
     transport_metadata : RxMetadata, payload : Seq(Byte)]

RxIsActive(k) == k \in DOMAIN rx_transfers /\ rx_transfers[k].status = "Active"

RxTyped == \A k \in DOMAIN rx_transfers : RxIsActive(k) => rx_transfers[k] \in RxTransfer

RxCrcTells ==
    \A k \in DOMAIN rx_transfers :
        RxIsActive(k) /\ MultiKey(k) => CrcTells(rx_transfers[k])

LinkInv ==
    /\ TxP!TxTypeOK /\ TxP!TxEntriesSound /\ TxP!NoPanic
    /\ LinkTyped /\ TxEntriesBegun /\ BusFramesBegun /\ RxTyped

IntactInv == LinkInv /\ (SinglesApart => RxCrcTells)

-----------------------------------------------------------------------------
PlanDistinct ==
    /\ \A i, j \in DOMAIN plan : BusKey(plan[i]) = BusKey(plan[j]) => i = j
    /\ \A i \in DOMAIN plan : \A t \in begun : BusKey(plan[i]) # BusKey(t)

EntriesDistinct ==
    \A k, l \in DOMAIN tx_transfers :
        /\ TxP!TxIsActive(k) /\ TxP!TxIsActive(l)
        /\ EntryKey(tx_transfers[k]) = EntryKey(tx_transfers[l])
        => k = l

(* No more frames come under k. *)
Over(k) ==
    \A l \in DOMAIN tx_transfers :
        TxP!TxIsActive(l) => EntryKey(tx_transfers[l]) # k

EndsAreLast ==
    \A i \in DOMAIN bus : bus[i].tail.end =>
        /\ Over(FrameKey(bus[i]))
        /\ \A j \in DOMAIN bus :
              j > i /\ FrameKey(bus[j]) = FrameKey(bus[i])
                  => bus[j].tail.toggle = bus[i].tail.toggle

(* What has been given stays, and its toggle refuses all that comes.       *)
GivenStays ==
    \A k \in DOMAIN given :
        /\ given[k] \in {0, 1}
        /\ given[k] = 1 =>
              /\ \E t \in begun : BusKey(t) = k
              /\ Over(k)
              /\ k \in DOMAIN rx_transfers
              /\ RxIsActive(k) =>
                    \A i \in DOMAIN bus :
                        FrameKey(bus[i]) = k =>
                            bus[i].tail.toggle
                                = rx_transfers[k].transport_metadata.toggle_bit

OnceInv ==
    LinkInv /\ (IdsUsedOnce /\ ~ scenario.receiver_cancels =>
                    PlanDistinct /\ EntriesDistinct /\ EndsAreLast /\ GivenStays)


-----------------------------------------------------------------------------
(* What the instances of the two halves call the same, and the assumptions *)
(* they make.                                                              *)

LEMMA TxTypes ==
    /\ TxP!NodeId = NodeId /\ TxP!PortId = PortId /\ TxP!TransferId = TransferId
    /\ TxP!Priority = Priority /\ TxP!Duration = Nat /\ TxP!Timestamp = Nat
    /\ TxP!TransmissionType = Tx!TransmissionType /\ TxP!BufferUse = Tx!BufferUse
    /\ TxP!Byte = Byte /\ TxP!FrameCapacity = FrameCapacity
<1>1. TxP!NodeId = NodeId /\ Tx!NodeId = TxP!NodeId
  BY DEF TxP!NodeId, NodeId, Tx!NodeId
<1>2. TxP!TransmissionType = Tx!TransmissionType
  BY <1>1 DEF TxP!TransmissionType, Tx!TransmissionType
<1> QED BY <1>1, <1>2
        DEF TxP!PortId, PortId, TxP!TransferId, TransferId, TxP!Priority, Priority,
            TxP!Duration, TxP!Timestamp, TxP!BufferUse, Tx!BufferUse, TxP!Byte, Byte,
            TxP!FrameCapacity, FrameCapacity

LEMMA PlannedIsSendable == \A t \in Planned : Sendable(t)
<1> SUFFICES ASSUME NEW s \in Scenarios, NEW i \in DOMAIN s.sends
             PROVE  Sendable(s.sends[i])
  BY DEF Planned
<1>1. s.sends \in Seq({t \in Planned : Sendable(t)})
  BY ScenariosAssumption DEF Scenario
<1>2. s.sends[i] \in {t \in Planned : Sendable(t)}
  BY <1>1
<1> QED BY <1>2

LEMMA TxAssumption ==
    /\ TxP!NodeTxAssumption /\ TxP!CanAssumption
    /\ TxP!NoneAssumption /\ TxP!NoCrcAssumption /\ TxP!NoTailAssumption
<1>1. /\ {t.port_id : t \in Planned} \subseteq PortId
      /\ {t.transfer_id : t \in Planned} \subseteq TransferId
      /\ {t.tx_kind : t \in Planned} \subseteq Tx!TransmissionType
      /\ {t.use : t \in Planned} \subseteq Tx!BufferUse
  BY PlannedIsSendable DEF Sendable
<1>2. PriorityUsed \in Priority
  BY DEF PriorityUsed, Priority
<1>3. Timeout \in Nat
  BY LinkAssumption DEF Duration
<1>4. TxP!NodeTxAssumption
  BY <1>1, <1>2, <1>3, TxTypes, LinkAssumption DEF TxP!NodeTxAssumption
<1>5. TxP!CanAssumption
  BY CanAssumption DEF TxP!CanAssumption
<1>6. TxP!NoneAssumption
  BY NoneAssumption, TxTypes DEF TxP!NoneAssumption
<1>7. TxP!NoCrcAssumption
  BY NoCrcAssumption, TxTypes DEF TxP!NoCrcAssumption
<1>8. TxP!NoTailAssumption
  BY NoTailAssumption DEF TxP!NoTailAssumption, TxP!TailByte, TailByte,
         TxP!TransferIdField, TransferIdField
<1> QED BY <1>4, <1>5, <1>6, <1>7, <1>8


(* The calls of the sending node are those that NodeTxProofs is about. *)
LEMMA TxStart ==
    ASSUME NEW p, NEW port, NEW kind, NEW id, NEW use, NEW d,
           Tx!StartTxTransfer(p, port, kind, id, use, d)
    PROVE  TxP!StartTxTransfer(p, port, kind, id, use, d)
BY ZenonT(60) DEF Tx!StartTxTransfer, TxP!StartTxTransfer, Tx!TxMetadataOf,
       TxP!TxMetadataOf, Tx!HashMetadata, TxP!HashMetadata, Tx!Optional,
       TxP!Optional, Tx!KindOrdinal, TxP!KindOrdinal, Tx!BufferAfterCallback,
       TxP!BufferAfterCallback, Tx!GetCrcPaddedSize, TxP!GetCrcPaddedSize,
       Tx!Written, TxP!Written, Tx!ZeroByte, TxP!ZeroByte, Tx!CrcOverruns,
       TxP!CrcOverruns, Tx!ClampedClaim, TxP!ClampedClaim, Tx!FrameCapacity,
       TxP!FrameCapacity, Tx!Insert, TxP!Insert, Tx!NewTxTransfer,
       TxP!NewTxTransfer, Tx!TxMetadataDefault, TxP!TxMetadataDefault,
       Tx!ProcessTxCrc, TxP!ProcessTxCrc, Tx!Crc, TxP!Crc, Tx!IsWritten,
       TxP!IsWritten, Tx!GainToken, TxP!GainToken

LEMMA TxTransmit ==
    ASSUME NEW k, Tx!TransmitFrame(k) PROVE TxP!TransmitFrame(k)
BY ZenonT(60) DEF Tx!TransmitFrame, TxP!TransmitFrame, Tx!TransmitOk, TxP!TransmitOk,
       Tx!TransmitTxError, TxP!TransmitTxError, Tx!TransmitTokenError,
       TxP!TransmitTokenError, Tx!RemainingData, TxP!RemainingData,
       Tx!ConsumeLen, TxP!ConsumeLen, Tx!IsLastFrame, TxP!IsLastFrame,
       Tx!FrameCapacity, TxP!FrameCapacity, Tx!TxErrorOf, TxP!TxErrorOf,
       Tx!TxFrameError, TxP!TxFrameError, Tx!TxFrame, TxP!TxFrame, Tx!TxCanId,
       TxP!TxCanId, Tx!CanMessageIdNew, TxP!CanMessageIdNew,
       Tx!CanServiceIdNew, TxP!CanServiceIdNew, Tx!TailByteNew,
       TxP!TailByteNew, Tx!TxIsActive, TxP!TxIsActive, Tx!TxIsTimedOut,
       TxP!TxIsTimedOut, Tx!TxMetadataNext, TxP!TxMetadataNext, Tx!Remove,
       TxP!Remove, Tx!Restrict, TxP!Restrict, Tx!LoseToken, TxP!LoseToken

LEMMA TxCancel ==
    ASSUME NEW k, Tx!CancelTxTransfer(k) PROVE TxP!CancelTxTransfer(k)
BY DEF Tx!CancelTxTransfer, TxP!CancelTxTransfer, Tx!LoseToken, TxP!LoseToken, Tx!Remove,
       TxP!Remove, Tx!Restrict, TxP!Restrict

LEMMA TxUpdate == Tx!UpdateTxTransfers => TxP!UpdateTxTransfers
BY DEF Tx!UpdateTxTransfers, TxP!UpdateTxTransfers, Tx!TxExpired,
       TxP!TxExpired, Tx!TxIsActive, TxP!TxIsActive, Tx!TimestampExpired,
       TxP!TimestampExpired, Tx!TimedOut, TxP!TimedOut, Tx!Unit, TxP!Unit

LEMMA TxKeysSame == Tx!TxKeys = TxP!TxKeys
BY DEF Tx!TxKeys, TxP!TxKeys, Tx!TxMetadataOf, TxP!TxMetadataOf,
       Tx!HashMetadata, TxP!HashMetadata, Tx!Optional, TxP!Optional,
       Tx!KindOrdinal, TxP!KindOrdinal

LEMMA TxInit == Tx!Init => TxP!Init
BY TxKeysSame DEF Tx!Init, TxP!Init, Tx!EmptyMap, TxP!EmptyMap, Tx!Unit, TxP!Unit

(* The transport of the sending node is the one both nodes have. *)
LEMMA TxTransport ==
    /\ TxP!TransferMetadata = TransferMetadata
    /\ TxP!TxMetadata = TxMetadata
    /\ TxP!CanFrame = CanFrame
    /\ \A s : TxP!IsLastFrame(s) <=> IsLastFrame(s)
    /\ \A s : TxP!ConsumeLen(s) = ConsumeLen(s)
    /\ \A b, n : TxP!ProcessTxCrc(b, n) = ProcessTxCrc(b, n)
<1>1. TxP!TransferMetadata = TransferMetadata
  BY TxTypes DEF TxP!TransferMetadata, TransferMetadata, Timestamp, TxP!TransferKind,
                 TransferKind
<1>2. TxP!TxMetadata = TxMetadata
  BY DEF TxP!TxMetadata, TxMetadata
<1>3. TxP!CanFrame = CanFrame
  BY TxTypes DEF TxP!CanFrame, CanFrame, TxP!CanMessageId, CanMessageId,
         TxP!CanServiceId, CanServiceId, TxP!TailByte, TailByte, TxP!SubjectIdField,
         SubjectIdField, TxP!ServiceIdField, ServiceIdField, TxP!NodeIdField, NodeIdField,
         TxP!TransferIdField, TransferIdField
<1>4. \A s : TxP!IsLastFrame(s) <=> IsLastFrame(s)
  BY TxTypes DEF TxP!IsLastFrame, IsLastFrame
<1>5. \A s : TxP!ConsumeLen(s) = ConsumeLen(s)
  BY <1>4, TxTypes DEF TxP!ConsumeLen, ConsumeLen
<1>6. \A b, n : TxP!ProcessTxCrc(b, n) = ProcessTxCrc(b, n)
  <2>1. \A s : TxP!Crc(s) = Crc(s)
    BY ZenonT(30) DEF TxP!Crc, Crc, TxP!IsWritten, IsWritten, TxP!Written, Written
  <2> QED BY <2>1, TxTypes DEF TxP!ProcessTxCrc, ProcessTxCrc
<1> QED BY <1>1, <1>2, <1>3, <1>4, <1>5, <1>6

LEMMA TxFrameSame ==
    ASSUME NEW metadata, NEW transport, NEW data, NEW node
    PROVE  TxP!TxFrame(metadata, transport, data, node)
               = TxFrame(metadata, transport, data, node)
BY TxTransport, ZenonT(60) DEF TxP!TxFrame, TxFrame, TxP!TxCanId, TxCanId, TxP!CanMessageIdNew,
      CanMessageIdNew, TxP!CanServiceIdNew, CanServiceIdNew, TxP!TailByteNew, TailByteNew

-----------------------------------------------------------------------------
(* The steps of the sending node. *)

LEMMA PlanHead ==
    ASSUME LinkTyped, plan # << >>
    PROVE  /\ Head(plan) \in Planned /\ Sendable(Head(plan))
           /\ Tail(plan) \in Seq(Planned)
           /\ Len(Tail(plan)) = Len(plan) - 1
           /\ \A i \in DOMAIN Tail(plan) :
                 i + 1 \in DOMAIN plan /\ Tail(plan)[i] = plan[i + 1]
           /\ 1 \in DOMAIN plan /\ Head(plan) = plan[1]
<1>1. plan \in Seq(Planned)
  BY DEF LinkTyped
<1>2. Head(plan) \in Planned /\ Head(plan) = plan[1] /\ 1 \in DOMAIN plan
  BY <1>1
<1>3. /\ Tail(plan) \in Seq(Planned)
      /\ Len(Tail(plan)) = Len(plan) - 1
      /\ \A i \in 1 .. Len(plan) - 1 : Tail(plan)[i] = plan[i + 1]
  BY <1>1
<1>4. ASSUME NEW i \in DOMAIN Tail(plan)
      PROVE  i + 1 \in DOMAIN plan /\ Tail(plan)[i] = plan[i + 1]
  BY <1>1, <1>3
<1> QED BY <1>1, <1>2, <1>3, <1>4, PlannedIsSendable

LEMMA PlannedInputs ==
    ASSUME NEW t \in Planned
    PROVE  /\ PriorityUsed \in {PriorityUsed}
           /\ t.port_id \in {u.port_id : u \in Planned}
           /\ t.tx_kind \in {u.tx_kind : u \in Planned}
           /\ t.transfer_id \in {u.transfer_id : u \in Planned}
           /\ t.use \in {u.use : u \in Planned}
           /\ t.of \in Data
BY PlannedIsSendable DEF Sendable

(* A frame that arrives leaves the sending node and the clock alone. *)
LEMMA ReceiveKeepsTime ==
    ASSUME NEW f, Rx!ReceiveFrame(f) PROVE now' = now
BY DEF Rx!ReceiveFrame, Rx!RejectFrame, Rx!IgnoreFrame, Rx!TakeFrame,
       Rx!AppendToTimedOut, Rx!AppendFrame, Rx!NewSessionNoStart, Rx!NewTransfer

(* Every step is one of the sending node, or none of its. *)
LEMMA TxStep ==
    ASSUME LinkTyped, TxP!NoPanic, [Next]_link_vars
    PROVE  [TxP!Next]_(TxP!tx_vars)
<1> USE DEF TxP!NoPanic, TxP!Next
<1>1. CASE Start
  <2>1. TxP!StartTxTransfer(PriorityUsed, Head(plan).port_id, Head(plan).tx_kind,
                            Head(plan).transfer_id, Head(plan).use, Head(plan).of)
    BY <1>1, TxStart DEF Start
  <2>2. Head(plan) \in Planned
    BY <1>1, PlanHead DEF Start
  <2>3. TxP!StartSome
    BY <2>1, <2>2, PlannedInputs DEF TxP!StartSome
  <2> QED BY <2>3
<1>2. ASSUME NEW k \in Tx!TxKeys, Transmit(k) PROVE TxP!Next
  BY <1>2, TxTransmit, TxKeysSame DEF Transmit
<1>3. ASSUME NEW k \in Tx!TxKeys, CancelTx(k) PROVE TxP!Next
  BY <1>3, TxCancel, TxKeysSame DEF CancelTx
<1>4. CASE UpdateTx
  BY <1>4, TxUpdate DEF UpdateTx
<1>5. CASE Tick
  BY <1>5 DEF Tick, TxP!Tick, tx_part
<1>6. CASE Deliver
  BY <1>6, ReceiveKeepsTime DEF Deliver, TxP!tx_vars, tx_part
<1>7. CASE Lose \/ Duplicate
  BY <1>7 DEF Lose, Duplicate, TxP!tx_vars, tx_part
<1>8. ASSUME NEW k \in Rx!RxKeys, Read(k) \/ CancelRx(k) PROVE UNCHANGED TxP!tx_vars
  BY <1>8 DEF Read, CancelRx, Rx!WithRxTransfer, Rx!CancelRxTransfer, TxP!tx_vars, tx_part
<1>9. CASE UpdateRx
  BY <1>9 DEF UpdateRx, Rx!UpdateRxTransfers, TxP!tx_vars, tx_part
<1>10. CASE UNCHANGED link_vars
  BY <1>10 DEF link_vars, TxP!tx_vars, tx_part
<1> QED BY <1>1, <1>2, <1>3, <1>4, <1>5, <1>6, <1>7, <1>8, <1>9, <1>10 DEF Next

LEMMA TxHonest == TxP!HonestCallbacks
BY PlannedIsSendable DEF Sendable, TxP!HonestCallbacks

(* So what is proved of every step of a sending node holds here. *)
LEMMA TxKept ==
    ASSUME LinkTyped, TxP!TxTypeOK, TxP!TxEntriesSound, TxP!NoPanic, [Next]_link_vars
    PROVE  TxP!TxTypeOK' /\ TxP!TxEntriesSound' /\ TxP!NoPanic'
<1>1. [TxP!Next]_(TxP!tx_vars)
  BY TxStep
<1>2. TxP!TxTypeOK'
  BY <1>1, TxAssumption, TxP!NextTyped
<1>3. TxP!TxEntriesSound'
  BY <1>1, TxAssumption, TxP!NextKeepsEntries
<1>4. TxP!NoPanic'
  BY <1>1, TxAssumption, TxHonest, TxP!NextKeepsCalm
<1> QED BY <1>2, <1>3, <1>4

(* The payload of an honest transfer, as its frames are cut from it. *)
LEMMA PayloadIs ==
    ASSUME NEW t \in Planned, t.use.claimed # None
    PROVE  /\ t.use.claimed \in Nat
           /\ TxP!ProcessTxCrc(TxP!BufferAfterCallback(t.use, t.of), TxP!ClampedClaim(t.use))
                 = IF Multi(t) THEN Whole(t) ELSE PayloadOf(t)
<1> DEFINE n == t.use.claimed
           size == t.use.requested + CRC_SIZE
           buffer == TxP!BufferAfterCallback(t.use, t.of)
<1>1. /\ t.use.requested \in Nat /\ n \in Nat /\ n <= t.use.requested
      /\ size \in Nat /\ n <= size
  BY PlannedIsSendable, CanAssumption DEF Sendable, Tx!BufferUse
<1>2. TxP!ClampedClaim(t.use) = n
  BY <1>1 DEF TxP!ClampedClaim, TxP!GetCrcPaddedSize
<1>3. buffer = [i \in 1 .. size |-> IF i <= t.use.requested /\ i <= n
                                    THEN TxP!Written(t.of, t.use.requested)[i]
                                    ELSE TxP!ZeroByte]
  BY DEF TxP!BufferAfterCallback, TxP!GetCrcPaddedSize
<1>4. SubSeq(buffer, 1, n) = PayloadOf(t)
  <2>1. \A i \in 1 .. n : buffer[i] = [of |-> t.of, part |-> "data", at |-> i]
    BY <1>1, <1>3 DEF TxP!Written
  <2>2. SubSeq(buffer, 1, n) = [i \in 1 .. n |-> buffer[i]]
    <3> HIDE DEF buffer
    <3> QED BY <1>1
  <2> QED BY <2>1, <2>2 DEF PayloadOf, Written
<1>5. FrameCapacity \in Nat
  BY CanAssumption DEF FrameCapacity
<1> HIDE DEF buffer, n
<1>6. TxP!ProcessTxCrc(buffer, n)
          = IF n <= FrameCapacity THEN PayloadOf(t) ELSE Whole(t)
  BY <1>4, TxTransport DEF ProcessTxCrc, Whole
<1>7. Multi(t) <=> ~ (n <= FrameCapacity)
  BY <1>1, <1>5 DEF Multi, n
<1> QED BY <1>1, <1>2, <1>6, <1>7 DEF buffer, n

(* The entry a transfer is started with is its own. *)
LEMMA NewEntryIs ==
    ASSUME NEW t \in Planned, t.use.claimed # None, NEW time, NEW e,
           e = TxP!NewTxTransfer(TxP!TxMetadataOf(PriorityUsed, t.port_id, t.tx_kind,
                                                  t.transfer_id, time),
                                 TxP!ProcessTxCrc(TxP!BufferAfterCallback(t.use, t.of),
                                                  TxP!ClampedClaim(t.use)))
    PROVE  EntryOf(t, e) /\ e.status = "Active"
<1> DEFINE payload == TxP!ProcessTxCrc(TxP!BufferAfterCallback(t.use, t.of),
                                       TxP!ClampedClaim(t.use))
<1>1. payload = IF Multi(t) THEN Whole(t) ELSE PayloadOf(t)
  BY PayloadIs
<1> HIDE DEF payload
<1>2. /\ e.status = "Active" /\ e.payload = payload
      /\ e.transfer_metadata = TxP!TxMetadataOf(PriorityUsed, t.port_id, t.tx_kind,
                                                t.transfer_id, time)
  BY DEF TxP!NewTxTransfer, payload
<1>3. EntryKey(e) = BusKey(t)
  <2> DEFINE m == e.transfer_metadata
             n == MetadataOf(t)
  <2>1. /\ m.priority = n.priority /\ m.transfer_kind = n.transfer_kind
        /\ m.port_id = n.port_id /\ m.destination_node_id = n.destination_node_id
        /\ m.transfer_id = t.transfer_id
    BY <1>2 DEF MetadataOf, TxP!TxMetadataOf, Tx!TxMetadataOf
  <2>2. TxCanId(m, SenderId) = TxCanId(n, SenderId)
    BY <2>1 DEF TxCanId
  <2> QED BY <2>1, <2>2 DEF EntryKey, BusKey
<1> QED BY <1>1, <1>2, <1>3 DEF EntryOf

(* Start either leaves the sending node and the plan alone, or begins the  *)
(* first transfer of the plan.                                             *)
Began(t, k, e) ==
    /\ k \notin DOMAIN tx_transfers
    /\ EntryOf(t, e) /\ e.status = "Active"
    /\ tx_transfers' =
          [x \in DOMAIN tx_transfers \cup {k} |-> IF x = k THEN e ELSE tx_transfers[x]]
    /\ plan' = Tail(plan)
    /\ begun' = begun \cup {t}

LEMMA StartBegins ==
    ASSUME LinkTyped, TxP!NoPanic', Start
    PROVE  \/ UNCHANGED << tx_transfers, plan, begun >>
           \/ \E k, e : Began(Head(plan), k, e)
<1> DEFINE t == Head(plan)
           metadata == TxP!TxMetadataOf(PriorityUsed, t.port_id, t.tx_kind,
                                        t.transfer_id, now)
           k == TxP!HashMetadata(metadata)
           e == TxP!NewTxTransfer(metadata,
                    TxP!ProcessTxCrc(TxP!BufferAfterCallback(t.use, t.of),
                                     TxP!ClampedClaim(t.use)))
<1>1. TxP!StartTxTransfer(PriorityUsed, t.port_id, t.tx_kind, t.transfer_id, t.use, t.of)
  BY TxStart DEF Start
<1>2. t \in Planned
  BY PlanHead DEF Start
<1>3. \/ tx_result'.kind = "StartError" /\ UNCHANGED tx_transfers
      \/ /\ k \notin DOMAIN tx_transfers /\ t.use.claimed # None
         /\ tx_result'.kind = "Started"
         /\ tx_transfers' = TxP!Insert(tx_transfers, k, e)
  BY <1>1 DEF TxP!StartTxTransfer, TxP!NoPanic
<1>4. CASE tx_result'.kind = "StartError" /\ UNCHANGED tx_transfers
  BY <1>4 DEF Start
<1>5. CASE /\ k \notin DOMAIN tx_transfers /\ t.use.claimed # None
           /\ tx_result'.kind = "Started"
           /\ tx_transfers' = TxP!Insert(tx_transfers, k, e)
  <2>1. EntryOf(t, e) /\ e.status = "Active"
    BY <1>2, <1>5, NewEntryIs
  <2>2. plan' = Tail(plan) /\ begun' = begun \cup {t}
    BY <1>5 DEF Start
  <2> HIDE DEF t, k, e
  <2> QED BY <1>5, <2>1, <2>2 DEF Began, TxP!Insert, t
<1> QED BY <1>3, <1>4, <1>5

(* A step that starts nothing leaves what an active entry sends as it was. *)
Continues(k) ==
    /\ TxP!TxIsActive(k)
    /\ EntryKey(tx_transfers'[k]) = EntryKey(tx_transfers[k])
    /\ tx_transfers'[k].payload = tx_transfers[k].payload

LEMMA EntriesContinue ==
    ASSUME TxP!TxTypeOK, NEW k \in TxP!TxKeys, TxP!TxIsActive(k)',
           \/ \E l \in TxP!TxKeys : TxP!TransmitFrame(l) \/ TxP!CancelTxTransfer(l)
           \/ TxP!UpdateTxTransfers
           \/ UNCHANGED tx_transfers
    PROVE  Continues(k)
<1>1. CASE TxP!TxIsActive(k) /\ tx_transfers'[k] = tx_transfers[k]
  BY <1>1 DEF Continues, EntryKey
<1>2. ASSUME NEW l \in TxP!TxKeys, TxP!TransmitOk(l) PROVE Continues(k)
  <2>1. CASE l = k
    <3>1. TxP!SentFull(k)
      BY <1>2, <2>1, TxAssumption, TxP!SentFullFrame DEF TxP!TxIsActive
    <3> QED BY <1>2, <2>1, <3>1 DEF TxP!SentFull, Continues, EntryKey, TxP!TransmitOk
  <2>2. CASE l # k
    BY <1>1, <1>2, <2>2 DEF TxP!TxIsActive, TxP!TransmitOk, TxP!Remove, TxP!Restrict
  <2> QED BY <2>1, <2>2
<1>3. ASSUME NEW l \in TxP!TxKeys,
             \/ TxP!TransmitTxError(l) \/ TxP!TransmitTokenError(l)
             \/ TxP!CancelTxTransfer(l)
      PROVE  Continues(k)
  BY <1>1, <1>3 DEF TxP!TransmitTxError, TxP!TransmitTokenError, TxP!CancelTxTransfer,
                    TxP!Remove, TxP!Restrict, TxP!TxIsActive
<1>4. CASE TxP!UpdateTxTransfers
  BY <1>1, <1>4 DEF TxP!UpdateTxTransfers, TxP!TxIsActive, TxP!TimedOut
<1>5. CASE UNCHANGED tx_transfers
  BY <1>1, <1>5 DEF TxP!TxIsActive
<1> QED BY <1>2, <1>3, <1>4, <1>5 DEF TxP!TransmitFrame

(* What a multi-frame transfer sends: its payload and two bytes of CRC. *)
LEMMA WholeIs ==
    ASSUME NEW t \in Planned, t.use.claimed # None
    PROVE  /\ PayloadOf(t) \in Seq(Byte) /\ Len(PayloadOf(t)) = t.use.claimed
           /\ Crc(PayloadOf(t)) \in Seq(Byte) /\ Len(Crc(PayloadOf(t))) = 2
           /\ Whole(t) \in Seq(Byte) /\ Len(Whole(t)) = t.use.claimed + 2
<1>1. t.use.claimed \in Nat
  BY PayloadIs
<1>2. \A i \in 1 .. t.use.claimed : [of |-> t.of, part |-> "data", at |-> i] \in Byte
  BY <1>1, PlannedIsSendable DEF Sendable, Byte
<1>3. PayloadOf(t) \in Seq(Byte) /\ Len(PayloadOf(t)) = t.use.claimed
  BY <1>1, <1>2 DEF PayloadOf, Written
<1>4. Crc(PayloadOf(t)) \in Seq(Byte) /\ Len(Crc(PayloadOf(t))) = 2
  BY <1>3, CrcType
<1>5. Whole(t) \in Seq(Byte) /\ Len(Whole(t)) = Len(PayloadOf(t)) + Len(Crc(PayloadOf(t)))
  BY <1>3, <1>4, Concat DEF Whole
<1> QED BY <1>3, <1>4, <1>5

(* The frame that transmit_frame makes of an entry. *)
LEMMA FrameMade ==
    ASSUME TxP!TxTypeOK, TxP!TxTypeOK', TxP!TxEntriesSound, NEW k \in TxP!TxKeys,
           TxP!TransmitFrame(k), tx_result'.kind = "Frame",
           NEW t, EntryOf(t, tx_transfers[k]), t \in Planned
    PROVE  /\ TxP!TxIsActive(k)
           /\ tx_result'.frame \in CanFrame
           /\ FrameOf(t, tx_result'.frame)
           /\ FrameKey(tx_result'.frame) = EntryKey(tx_transfers[k])
           /\ tx_result'.frame.tail.end => k \notin DOMAIN tx_transfers'
<1> DEFINE e == tx_transfers[k]
           f == tx_result'.frame
           data == TxP!RemainingData(e)
<1>1. TxP!TransmitOk(k)
  BY DEF TxP!TransmitFrame, TxP!TransmitTxError, TxP!TransmitTokenError
<1>2. TxP!TxIsActive(k) /\ e \in TxP!TxTransfer
  BY <1>1, TxAssumption, TxP!ActiveTyped DEF TxP!TransmitOk
<1>3. f \in CanFrame
  BY TxTransport DEF TxP!TxTypeOK, TxP!TxResult, TxP!Unit
<1>4. f = TxFrame(e.transfer_metadata, e.transport_metadata, data, SenderId)
  BY <1>1, TxFrameSame DEF TxP!TransmitOk
<1>5. /\ e.consumed \in Nat /\ e.payload \in Seq(Byte) /\ Len(e.payload) \in Nat
      /\ e.transport_metadata.first_frame \in BOOLEAN
  BY <1>2, TxTypes, TxTransport DEF TxP!TxTransfer, TxMetadata
<1>6. /\ data = SubSeq(e.payload, e.consumed + 1, Len(e.payload))
      /\ data \in Seq(Byte)
      /\ Len(data) = IF e.consumed < Len(e.payload) THEN Len(e.payload) - e.consumed ELSE 0
  BY <1>2, TxAssumption, TxTypes, TxP!RemainingDataType DEF TxP!RemainingData
<1>7. FrameCapacity \in Nat /\ FrameCapacity > 1
  BY CanAssumption DEF FrameCapacity
<1>8. /\ f.tail.start = e.transport_metadata.first_frame
      /\ f.tail.end <=> Len(data) <= FrameCapacity
      /\ f.data = SubSeq(data, 1, ConsumeLen(data))
      /\ f.tail.transfer_id = e.transfer_metadata.transfer_id % 32
      /\ f.id = TxCanId(e.transfer_metadata, SenderId)
  <2> HIDE DEF data, e, f
  <2>1. /\ f.tail.start = e.transport_metadata.first_frame
        /\ f.tail.end = IsLastFrame(data)
        /\ f.data = SubSeq(data, 1, ConsumeLen(data))
        /\ f.tail.transfer_id = e.transfer_metadata.transfer_id % 32
        /\ f.id = TxCanId(e.transfer_metadata, SenderId)
    BY <1>4 DEF TxFrame, TailByteNew
  <2>2. IsLastFrame(data) <=> Len(data) <= FrameCapacity
    BY DEF IsLastFrame
  <2> QED BY <2>1, <2>2
<1>9. FrameKey(f) = EntryKey(e)
  BY <1>8 DEF FrameKey, EntryKey
<1>10. f.tail.end => f.data = data
  <2> SUFFICES ASSUME f.tail.end PROVE f.data = data
    OBVIOUS
  <2> HIDE DEF data, e, f
  <2>1. ConsumeLen(data) = Len(data)
    BY <1>8 DEF ConsumeLen, IsLastFrame
  <2>2. SubSeq(data, 1, Len(data)) = data
    BY <1>6, AllOfSeq
  <2> QED BY <1>8, <2>1, <2>2
<1>11. /\ e.consumed > 0 => e.consumed < Len(e.payload) /\ e.consumed >= FrameCapacity
       /\ f.tail.start <=> e.consumed = 0
  <2> DEFINE sent == e.consumed \div FrameCapacity
  <2>1. /\ e.consumed = sent * FrameCapacity
        /\ e.consumed > 0 => e.consumed < Len(e.payload)
        /\ e.transport_metadata.first_frame <=> sent = 0
    BY <1>2, TxTypes DEF TxP!TxEntriesSound, TxP!TxEntrySound
  <2>2. sent \in Nat
    BY <1>5, <1>7
  <2> HIDE DEF sent, e, f
  <2>3. sent = 0 <=> e.consumed = 0
    BY <1>5, <1>7, <2>1, <2>2
  <2>4. sent > 0 => e.consumed >= FrameCapacity
    BY <1>5, <1>7, <2>1, <2>2
  <2> QED BY <1>5, <1>8, <2>1, <2>2, <2>3, <2>4
<1>12. f.tail.end => k \notin DOMAIN tx_transfers'
  <2>1. SUFFICES ASSUME f.tail.end, k \in DOMAIN tx_transfers' PROVE FALSE
    OBVIOUS
  <2>2. ~ TxP!IsLastFrame(data)
    BY <1>1, <2>1, TxAssumption, TxP!SentFullFrame DEF TxP!SentFull
  <2>3. ~ IsLastFrame(data)
    BY <2>2, TxTransport
  <2> HIDE DEF data, f, e
  <2> QED BY <1>8, <2>1, <2>3 DEF IsLastFrame
<1>13. t.use.claimed \in Nat /\ Len(PayloadOf(t)) = t.use.claimed
  BY PayloadIs DEF EntryOf, PayloadOf, Written
<1>14. Multi(t) => e.payload = Whole(t) /\ Len(Whole(t)) = t.use.claimed + 2
  BY WholeIs DEF EntryOf
<1>15. ~ Multi(t) => e.payload = PayloadOf(t) /\ t.use.claimed <= FrameCapacity
  BY <1>7, <1>13 DEF EntryOf, Multi
<1>16. ClosesMultiFrame(f) =>
          Multi(t) /\ \E c \in 0 .. Len(Whole(t)) :
                          f.data = SubSeq(Whole(t), c + 1, Len(Whole(t)))
  <2> SUFFICES ASSUME ClosesMultiFrame(f)
               PROVE  Multi(t) /\ \E c \in 0 .. Len(Whole(t)) :
                          f.data = SubSeq(Whole(t), c + 1, Len(Whole(t)))
    OBVIOUS
  <2>1. e.consumed >= FrameCapacity /\ e.consumed < Len(e.payload)
    BY <1>5, <1>11 DEF ClosesMultiFrame
  <2> HIDE DEF e, f, data
  <2>2. Multi(t)
    BY <1>5, <1>7, <1>13, <1>15, <2>1
  <2>3. e.consumed \in 0 .. Len(Whole(t))
    BY <1>5, <1>14, <2>1, <2>2
  <2>4. f.data = SubSeq(Whole(t), e.consumed + 1, Len(Whole(t)))
    BY <1>6, <1>10, <1>14, <2>2 DEF ClosesMultiFrame
  <2> QED BY <2>2, <2>3, <2>4
<1>17. f.tail.start /\ f.tail.end => ~ Multi(t)
  <2>1. SUFFICES ASSUME f.tail.start, f.tail.end, Multi(t) PROVE FALSE
    OBVIOUS
  <2>2. e.consumed = 0 /\ Len(data) <= FrameCapacity
    BY <1>8, <1>11, <2>1
  <2> HIDE DEF e, f, data
  <2>3. Len(data) = t.use.claimed + 2
    BY <1>5, <1>6, <1>13, <1>14, <2>1, <2>2
  <2>4. t.use.claimed > FrameCapacity
    BY <2>1 DEF Multi
  <2> QED BY <1>7, <1>13, <2>2, <2>3, <2>4
<1> QED BY <1>2, <1>3, <1>9, <1>12, <1>16, <1>17 DEF FrameOf, EntryOf

-----------------------------------------------------------------------------
(* The steps of the receiving node. *)

LEMMA RxTransport ==
    /\ \A f : Rx!RxProcessError(f) = RxProcessError(f)
    /\ \A f, time : Rx!RxTransferFrame(f, time) = RxTransferFrame(f, time)
    /\ \A f : Rx!RxFrameMetadata(f) = RxFrameMetadata(f)
    /\ \A m, g, h : Rx!UpdateRxMetadata(m, g, h) = UpdateRxMetadata(m, g, h)
    /\ \A m : Rx!HashMetadata(m) = HashMetadata(m)
    /\ Rx!RxMetadataDefault = RxMetadataDefault
<1>1. \A f : Rx!RxProcessError(f) = RxProcessError(f)
  BY DEF Rx!RxProcessError, RxProcessError, Rx!ClosesMultiFrame, ClosesMultiFrame,
         Rx!FrameLen, FrameLen
<1>2. \A f, time : Rx!RxTransferFrame(f, time) = RxTransferFrame(f, time)
  BY DEF Rx!RxTransferFrame, RxTransferFrame, Rx!ClosesMultiFrame, ClosesMultiFrame,
         Rx!RxMetadataOf, RxMetadataOf
<1>3. \A f : Rx!RxFrameMetadata(f) = RxFrameMetadata(f)
  BY DEF Rx!RxFrameMetadata, RxFrameMetadata, Rx!ClosesMultiFrame, ClosesMultiFrame
<1>4. \A m, g, h : Rx!UpdateRxMetadata(m, g, h) = UpdateRxMetadata(m, g, h)
  <2>1. \A s : Rx!Crc(s) = Crc(s)
    BY ZenonT(30) DEF Rx!Crc, Crc, Rx!IsWritten, IsWritten, Rx!Written, Written
  <2> QED BY <2>1, ZenonT(30) DEF Rx!UpdateRxMetadata, UpdateRxMetadata
<1>5. \A m : Rx!HashMetadata(m) = HashMetadata(m)
  BY DEF Rx!HashMetadata, HashMetadata, Rx!Optional, Optional, Rx!KindOrdinal, KindOrdinal
<1>6. Rx!RxMetadataDefault = RxMetadataDefault
  BY DEF Rx!RxMetadataDefault, RxMetadataDefault
<1> QED BY <1>1, <1>2, <1>3, <1>4, <1>5, <1>6

(* Where a frame goes does not depend on when it comes. *)
LEMMA FrameGoesTo ==
    ASSUME NEW f, NEW time
    PROVE  HashMetadata(RxTransferFrame(f, time).metadata) = FrameKey(f)
BY DEF RxTransferFrame, RxMetadataOf, FrameKey, HashMetadata

(* What a frame does to its entry: it is refused, appended, or the first.  *)
UpdateOf(f, metadata) ==
    UpdateRxMetadata(metadata, RxFrameMetadata(f), RxTransferFrame(f, now))

GivesToken(f) ==
    rx_result'.kind = "Token" => f.tail.end /\ rx_result'.token = FrameKey(f)

RefusedFrame(f, old, e) ==
    /\ UpdateOf(f, old.transport_metadata).error # "Ok"
    /\ e.transport_metadata = UpdateOf(f, old.transport_metadata).metadata
    /\ e.payload = old.payload
    /\ rx_result'.kind # "Token"

AppendedFrame(f, old, e) ==
    /\ UpdateOf(f, old.transport_metadata).error = "Ok"
    /\ e.transport_metadata = UpdateOf(f, old.transport_metadata).metadata
    /\ e.payload = old.payload \o RxTransferFrame(f, now).payload
    /\ GivesToken(f)

FirstFrame(f, e) ==
    /\ f.tail.start
    /\ e.transport_metadata = UpdateOf(f, RxMetadataDefault).metadata
    /\ e.payload = RxTransferFrame(f, now).payload
    /\ UpdateOf(f, RxMetadataDefault).error = "Ok"
    /\ GivesToken(f)

Received(f, k, e) ==
    /\ k = FrameKey(f)
    /\ RxProcessError(f) = "Ok"
    /\ e \in RxTransfer
    /\ rx_transfers' =
          [x \in DOMAIN rx_transfers \cup {k} |-> IF x = k THEN e ELSE rx_transfers[x]]
    /\ \/ RxIsActive(k) /\ RefusedFrame(f, rx_transfers[k], e)
       \/ RxIsActive(k) /\ AppendedFrame(f, rx_transfers[k], e)
       \/ k \notin DOMAIN rx_transfers /\ FirstFrame(f, e)

LEMMA AppendReceives ==
    ASSUME RxTyped, NEW f \in CanFrame, RxProcessError(f) = "Ok", now \in Nat,
           Rx!AppendFrame(FrameKey(f), RxFrameMetadata(f), RxTransferFrame(f, now))
    PROVE  \E e : Received(f, FrameKey(f), e)
<1> DEFINE k == FrameKey(f)
           old == rx_transfers[k]
           frame == RxTransferFrame(f, now)
           update == UpdateOf(f, old.transport_metadata)
<1>1. RxIsActive(k) /\ k \in DOMAIN rx_transfers /\ old \in RxTransfer
  BY DEF Rx!AppendFrame, Rx!RxIsActive, RxIsActive, RxTyped
<1>2. /\ frame.payload \in Seq(Byte) /\ f.tail \in TailByte
      /\ RxFrameMetadata(f).toggle_bit = f.tail.toggle
      /\ frame.last_frame = f.tail.end
  BY RxFrameType DEF Timestamp
<1>3. update.metadata \in RxMetadata
  <2>1. old.transport_metadata \in RxMetadata /\ f.tail.toggle \in BOOLEAN
    BY <1>1, <1>2 DEF RxTransfer, TailByte
  <2> HIDE DEF old
  <2> QED BY <1>2, <2>1, UpdateRxMetadataType DEF UpdateOf
<1>4. old.payload \o frame.payload \in Seq(Byte)
  BY <1>1, <1>2, Concat DEF RxTransfer
<1> HIDE DEF update
<1>5. CASE /\ update.error # "Ok"
           /\ rx_transfers' = [rx_transfers EXCEPT ![k].transport_metadata = update.metadata]
           /\ rx_result' = Rx!RxError(update.error)
  <2> DEFINE e == [old EXCEPT !.transport_metadata = update.metadata]
  <2>1. /\ e \in RxTransfer /\ e.transport_metadata = update.metadata
        /\ e.payload = old.payload
    BY <1>1, <1>3 DEF RxTransfer
  <2>2. rx_transfers' =
            [x \in DOMAIN rx_transfers \cup {k} |-> IF x = k THEN e ELSE rx_transfers[x]]
    BY <1>1, <1>5
  <2> HIDE DEF e, k, old
  <2>3. RefusedFrame(f, old, e)
    BY <1>5, <2>1 DEF RefusedFrame, update, Rx!RxError
  <2> QED BY <1>1, <2>1, <2>2, <2>3 DEF Received, k, old
<1>6. CASE /\ update.error = "Ok"
           /\ rx_transfers' = [rx_transfers EXCEPT
                                 ![k].transport_metadata = update.metadata,
                                 ![k].payload = @ \o frame.payload]
           /\ Rx!Accepted(k, frame)
  <2> DEFINE e == [old EXCEPT !.transport_metadata = update.metadata,
                              !.payload = old.payload \o frame.payload]
  <2> HIDE DEF frame
  <2>1. /\ e \in RxTransfer /\ e.transport_metadata = update.metadata
        /\ e.payload = old.payload \o frame.payload
    BY <1>1, <1>3, <1>4 DEF RxTransfer
  <2>2. rx_transfers' =
            [x \in DOMAIN rx_transfers \cup {k} |-> IF x = k THEN e ELSE rx_transfers[x]]
    BY <1>1, <1>6
  <2>3. GivesToken(f)
    BY <1>2, <1>6 DEF Rx!Accepted, GivesToken
  <2> HIDE DEF e, k, old
  <2>4. AppendedFrame(f, old, e)
    BY <1>6, <2>1, <2>3 DEF AppendedFrame, update, frame
  <2> QED BY <1>1, <2>1, <2>2, <2>4 DEF Received, k, old
<1>7. Rx!UpdateRxMetadata(old.transport_metadata, RxFrameMetadata(f), frame) = update
  BY RxTransport DEF update, UpdateOf
<1> HIDE DEF old, frame, k
<1>8. \/ /\ update.error # "Ok"
         /\ rx_transfers' = [rx_transfers EXCEPT ![k].transport_metadata = update.metadata]
         /\ rx_result' = Rx!RxError(update.error)
      \/ /\ update.error = "Ok"
         /\ rx_transfers' = [rx_transfers EXCEPT
                               ![k].transport_metadata = update.metadata,
                               ![k].payload = @ \o frame.payload]
         /\ Rx!Accepted(k, frame)
  BY <1>7 DEF Rx!AppendFrame, k, old, frame
<1> QED BY <1>5, <1>6, <1>8

LEMMA NewReceives ==
    ASSUME NEW f \in CanFrame, RxProcessError(f) = "Ok", now \in Nat,
           Rx!NewTransfer(FrameKey(f), RxFrameMetadata(f), RxTransferFrame(f, now)),
           rx_transfers' # rx_transfers \/ rx_result'.kind = "Token"
    PROVE  \E e : Received(f, FrameKey(f), e)
<1> DEFINE k == FrameKey(f)
           frame == RxTransferFrame(f, now)
           update == UpdateOf(f, RxMetadataDefault)
           e == Rx!NewRxTransfer(frame, update.metadata)
<1>1. /\ frame.payload \in Seq(Byte) /\ f.tail \in TailByte
      /\ frame.metadata \in TransferMetadata
      /\ RxFrameMetadata(f).toggle_bit = f.tail.toggle
      /\ frame.first_frame = f.tail.start /\ frame.last_frame = f.tail.end
  BY RxFrameType DEF Timestamp
<1>2. update.metadata \in RxMetadata
  <2>1. RxMetadataDefault \in RxMetadata /\ f.tail.toggle \in BOOLEAN
    BY <1>1 DEF RxMetadataDefault, RxMetadata, TailByte
  <2> QED BY <1>1, <2>1, UpdateRxMetadataType DEF UpdateOf
<1>3. Rx!UpdateRxMetadata(Rx!RxMetadataDefault, RxFrameMetadata(f), frame) = update
  BY RxTransport DEF UpdateOf
<1> HIDE DEF update, frame, k
<1>4. /\ e \in RxTransfer /\ e.transport_metadata = update.metadata
      /\ e.payload = frame.payload
  BY <1>1, <1>2 DEF Rx!NewRxTransfer, RxTransfer
<1>5. /\ k \notin DOMAIN rx_transfers /\ frame.first_frame
      /\ IF update.error # "Ok"
         THEN rx_result' = [kind |-> "Dropped"] /\ UNCHANGED rx_transfers
         ELSE /\ rx_transfers' = Rx!Insert(rx_transfers, k, e)
              /\ Rx!Accepted(k, frame)
  BY <1>3 DEF Rx!NewTransfer, k, frame
<1> HIDE DEF e
<1>6. /\ update.error = "Ok"
      /\ rx_transfers' = Rx!Insert(rx_transfers, k, e)
      /\ Rx!Accepted(k, frame)
  BY <1>5
<1>7. rx_transfers' =
          [x \in DOMAIN rx_transfers \cup {k} |-> IF x = k THEN e ELSE rx_transfers[x]]
  BY <1>6 DEF Rx!Insert
<1>8. GivesToken(f)
  BY <1>1, <1>6 DEF Rx!Accepted, GivesToken, k
<1>9. FirstFrame(f, e)
  BY <1>1, <1>4, <1>5, <1>6, <1>8 DEF FirstFrame, update, frame
<1> QED BY <1>4, <1>5, <1>7, <1>9 DEF Received, k

(* try_receive_frame changes the entry of the frame, or gives nothing.     *)
LEMMA ReceiveIs ==
    ASSUME RxTyped, now \in Nat, NEW f \in CanFrame, Rx!ReceiveFrame(f)
    PROVE  \/ UNCHANGED rx_transfers /\ rx_result'.kind # "Token"
           \/ \E e : Received(f, FrameKey(f), e)
<1> DEFINE frame == RxTransferFrame(f, now)
           quiet == UNCHANGED rx_transfers /\ rx_result'.kind # "Token"
<1>1. CASE Rx!RejectFrame(f)
  BY <1>1 DEF Rx!RejectFrame, Rx!RxError
<1>2. CASE Rx!IgnoreFrame(frame)
  BY <1>2 DEF Rx!IgnoreFrame
<1>3. CASE RxProcessError(f) = "Ok" /\ Rx!TakeFrame(RxFrameMetadata(f), frame)
  <2>1. Rx!HashMetadata(frame.metadata) = FrameKey(f)
    BY RxTransport, FrameGoesTo
  <2> HIDE DEF frame
  <2>2. \/ quiet
        \/ Rx!AppendFrame(FrameKey(f), RxFrameMetadata(f), frame)
        \/ Rx!NewTransfer(FrameKey(f), RxFrameMetadata(f), frame)
    BY <1>3, <2>1 DEF Rx!TakeFrame, Rx!AppendToTimedOut, Rx!NewSessionNoStart, Rx!RxError
  <2> QED BY <1>3, <2>2, AppendReceives, NewReceives DEF frame
<1> QED BY <1>1, <1>2, <1>3, RxTransport DEF Rx!ReceiveFrame

-----------------------------------------------------------------------------
(* What the CRC tells. *)

(* The last frame of a multi-frame transfer carries its CRC, behind bytes  *)
(* that end its payload.                                                   *)
LEMMA ClosingFrame ==
    ASSUME NEW t \in Planned, Multi(t), NEW f \in CanFrame, NEW time,
           ClosesMultiFrame(f), FrameOf(t, f), RxProcessError(f) = "Ok"
    PROVE  LET bytes == RxTransferFrame(f, time).payload
           IN  /\ RxFrameMetadata(f).crc_val = Crc(PayloadOf(t))
               /\ bytes \in Seq(Byte)
               /\ bytes # << >> =>
                     bytes[Len(bytes)]
                         = [of |-> t.of, part |-> "data", at |-> t.use.claimed]
<1> DEFINE n == t.use.claimed
           whole == Whole(t)
           bytes == SubSeq(f.data, 1, Len(f.data) - CRC_SIZE)
<1>1. /\ n \in Nat
      /\ PayloadOf(t) \in Seq(Byte) /\ Len(PayloadOf(t)) = n
      /\ Crc(PayloadOf(t)) \in Seq(Byte) /\ Len(Crc(PayloadOf(t))) = 2
      /\ whole \in Seq(Byte) /\ Len(whole) = n + 2
  BY WholeIs, PayloadIs DEF Multi
<1>2. PICK c \in 0 .. Len(whole) : f.data = SubSeq(whole, c + 1, Len(whole))
  BY DEF FrameOf
<1>3. /\ f.data \in Seq(Byte) /\ Len(f.data) \in Nat /\ Len(f.data) >= 2
  BY CanAssumption DEF CanFrame, RxProcessError, FrameLen, ClosesMultiFrame
<1>4. /\ \A i \in 1 .. n : whole[i] = PayloadOf(t)[i]
      /\ \A i \in 1 .. 2 : whole[n + i] = Crc(PayloadOf(t))[i]
  <2> DEFINE s == PayloadOf(t)
             u == Crc(PayloadOf(t))
  <2>1. s \in Seq(Byte) /\ u \in Seq(Byte) /\ Len(s) = n /\ Len(u) = 2
    BY <1>1
  <2>2. whole = s \o u
    BY DEF Whole
  <2> HIDE DEF s, u, whole, n
  <2>3. /\ \A i \in 1 .. Len(s) : (s \o u)[i] = s[i]
        /\ \A i \in 1 .. Len(u) : (s \o u)[Len(s) + i] = u[i]
    BY <2>1, Concat
  <2> QED BY <2>1, <2>2, <2>3 DEF s, u
<1> HIDE DEF whole, n, bytes
<1>5. /\ c \in Nat /\ Len(f.data) = n + 2 - c
      /\ \A i \in 1 .. Len(f.data) : f.data[i] = whole[c + i]
  <2> DEFINE w == whole
  <2> HIDE DEF w
  <2>1. c \in Nat /\ c <= Len(w) /\ w \in Seq(Byte) /\ Len(w) = n + 2 /\ n \in Nat
    BY <1>1, <1>2 DEF w
  <2>2. /\ Len(SubSeq(w, c + 1, Len(w))) = n + 2 - c
        /\ \A i \in 1 .. n + 2 - c : SubSeq(w, c + 1, Len(w))[i] = w[c + i]
    BY <2>1
  <2> QED BY <1>2, <2>1, <2>2 DEF w
<1>6. RxFrameMetadata(f).crc_val = SubSeq(f.data, Len(f.data) - 1, Len(f.data))
  <2>1. Len(f.data) - CRC_SIZE + 1 = Len(f.data) - 1
    BY <1>3, CanAssumption
  <2> QED BY <2>1 DEF RxFrameMetadata
<1>7. SubSeq(f.data, Len(f.data) - 1, Len(f.data)) = Crc(PayloadOf(t))
  <2> DEFINE end == SubSeq(f.data, Len(f.data) - 1, Len(f.data))
  <2>1. /\ end \in Seq(Byte) /\ Len(end) = 2
        /\ end[1] = f.data[Len(f.data) - 1] /\ end[2] = f.data[Len(f.data)]
    BY <1>3
  <2>2. /\ f.data[Len(f.data) - 1] = whole[n + 1]
        /\ f.data[Len(f.data)] = whole[n + 2]
    <3>1. /\ Len(f.data) - 1 \in 1 .. Len(f.data) /\ Len(f.data) \in 1 .. Len(f.data)
          /\ c + (Len(f.data) - 1) = n + 1 /\ c + Len(f.data) = n + 2
      BY <1>1, <1>3, <1>5
    <3> QED BY <1>5, <3>1
  <2>3. end[1] = Crc(PayloadOf(t))[1] /\ end[2] = Crc(PayloadOf(t))[2]
    BY <1>4, <2>1, <2>2
  <2> HIDE DEF end
  <2>4. end = Crc(PayloadOf(t))
    BY <1>1, <2>1, <2>3
  <2> QED BY <2>4 DEF end
<1>8. /\ bytes \in Seq(Byte) /\ Len(bytes) = Len(f.data) - 2
      /\ \A i \in 1 .. Len(bytes) : bytes[i] = f.data[i]
  BY <1>3, CanAssumption DEF bytes
<1>9. bytes # << >> =>
          bytes[Len(bytes)] = [of |-> t.of, part |-> "data", at |-> n]
  <2> SUFFICES ASSUME bytes # << >>
               PROVE  bytes[Len(bytes)] = [of |-> t.of, part |-> "data", at |-> n]
    OBVIOUS
  <2>1. Len(bytes) \in Nat /\ Len(bytes) > 0
    BY <1>8
  <2>2. /\ Len(bytes) \in 1 .. Len(f.data) /\ Len(bytes) \in 1 .. Len(bytes)
        /\ c + Len(bytes) = n /\ n \in 1 .. n
    BY <1>1, <1>3, <1>5, <1>8, <2>1
  <2>3. bytes[Len(bytes)] = PayloadOf(t)[n]
    BY <1>4, <1>5, <1>8, <2>2
  <2> QED BY <2>2, <2>3 DEF PayloadOf, Written, n
<1>10. RxTransferFrame(f, time).payload = bytes
  BY DEF RxTransferFrame, bytes
<1> QED BY <1>6, <1>7, <1>8, <1>9, <1>10 DEF n

(* update_metadata refuses a repeated toggle and takes over any other one; *)
(* the CRC takes in all frames but those that stand alone.                 *)
LEMMA UpdateIs ==
    ASSUME NEW f, NEW m
    PROVE  LET bytes == RxTransferFrame(f, now).payload
               crc_val == RxFrameMetadata(f).crc_val
               update == UpdateOf(f, m)
           IN  /\ f.tail.toggle = m.toggle_bit =>
                     update.metadata = m /\ update.error = "InvalidFrameOrdering"
               /\ f.tail.toggle # m.toggle_bit =>
                     /\ update.metadata.toggle_bit = f.tail.toggle
                     /\ ~ (f.tail.start /\ f.tail.end) =>
                           /\ update.metadata.crc = m.crc \o bytes
                           /\ update.error = IF crc_val \in {None, Crc(m.crc \o bytes)}
                                             THEN "Ok" ELSE "CrcError"
<1>1. /\ RxFrameMetadata(f).toggle_bit = f.tail.toggle
      /\ RxTransferFrame(f, now).first_frame = f.tail.start
      /\ RxTransferFrame(f, now).last_frame = f.tail.end
  BY DEF RxFrameMetadata, RxTransferFrame
<1> QED BY <1>1 DEF UpdateOf, UpdateRxMetadata

LEMMA UpdateOkIs ==
    ASSUME NEW f, NEW m, UpdateOf(f, m).error = "Ok"
    PROVE  /\ f.tail.toggle # m.toggle_bit
           /\ UpdateOf(f, m).metadata.toggle_bit = f.tail.toggle
           /\ ~ (f.tail.start /\ f.tail.end) =>
                 /\ UpdateOf(f, m).metadata.crc = m.crc \o RxTransferFrame(f, now).payload
                 /\ RxFrameMetadata(f).crc_val
                       \in {None, Crc(m.crc \o RxTransferFrame(f, now).payload)}
<1> DEFINE bytes == RxTransferFrame(f, now).payload
           crc_val == RxFrameMetadata(f).crc_val
           u == UpdateOf(f, m)
<1>1. /\ f.tail.toggle = m.toggle_bit => u.error = "InvalidFrameOrdering"
      /\ f.tail.toggle # m.toggle_bit =>
            /\ u.metadata.toggle_bit = f.tail.toggle
            /\ ~ (f.tail.start /\ f.tail.end) =>
                  /\ u.metadata.crc = m.crc \o bytes
                  /\ u.error = IF crc_val \in {None, Crc(m.crc \o bytes)}
                               THEN "Ok" ELSE "CrcError"
  BY UpdateIs
<1> HIDE DEF u, bytes, crc_val
<1>2. u.error = "Ok"
  BY DEF u
<1>3. /\ f.tail.toggle # m.toggle_bit
      /\ u.metadata.toggle_bit = f.tail.toggle
      /\ ~ (f.tail.start /\ f.tail.end) =>
            /\ u.metadata.crc = m.crc \o bytes
            /\ crc_val \in {None, Crc(m.crc \o bytes)}
  BY <1>1, <1>2
<1> QED BY <1>3 DEF u, bytes, crc_val

(* A frame that is refused for its CRC has spoilt it: it would have to end *)
(* as the transfer ends, and then the CRC would have been right.           *)
LEMMA SpoiltCrc ==
    ASSUME NEW t \in Planned, Multi(t), NEW crc \in Seq(Byte), NEW bytes \in Seq(Byte),
           bytes # << >>,
           bytes[Len(bytes)] = [of |-> t.of, part |-> "data", at |-> t.use.claimed],
           Crc(crc \o bytes) # Crc(PayloadOf(t))
    PROVE  crc \o bytes # << >> /\ ~ IsWritten(crc \o bytes)
<1> DEFINE w == crc \o bytes
<1>1. w \in Seq(Byte) /\ Len(w) = Len(crc) + Len(bytes)
  BY Concat
<1>2. Len(bytes) \in Nat /\ Len(bytes) > 0 /\ Len(crc) \in Nat
  OBVIOUS
<1>3. w[Len(w)] = bytes[Len(bytes)]
  <2>1. Len(bytes) \in 1 .. Len(bytes)
    BY <1>2
  <2>2. w[Len(crc) + Len(bytes)] = bytes[Len(bytes)]
    BY <2>1, Concat
  <2> QED BY <1>1, <2>2
<1>4. t.of \in Data /\ t.use.claimed \in Nat
  BY PlannedIsSendable, PayloadIs DEF Sendable, Multi
<1> HIDE DEF w
<1>5. IsWritten(w) => w = PayloadOf(t)
  BY <1>1, <1>3, <1>4, EndsLikePayload DEF PayloadOf
<1>6. w # << >>
  BY <1>1, <1>2
<1> QED BY <1>5, <1>6 DEF w

LEMMA ActiveIs ==
    ASSUME NEW old \in RxTransfer
    PROVE  old.transport_metadata.crc \in Seq(Byte) /\ old.payload \in Seq(Byte)
BY DEF RxTransfer, RxMetadata

LEMMA CrcStillTells ==
    ASSUME now \in Nat, NEW t \in Planned, Multi(t), NEW f \in CanFrame, FrameOf(t, f),
           NEW k, NEW e, Received(f, k, e),
           RxIsActive(k) => rx_transfers[k] \in RxTransfer /\ CrcTells(rx_transfers[k])
    PROVE  /\ CrcTells(e)
           /\ ClosesMultiFrame(f) /\ rx_result'.kind = "Token" => e.payload = PayloadOf(t)
<1> DEFINE old == rx_transfers[k]
           m == old.transport_metadata
           bytes == RxTransferFrame(f, now).payload
           crc_val == RxFrameMetadata(f).crc_val
<1>1. ~ (f.tail.start /\ f.tail.end)
  BY DEF FrameOf
<1>2. bytes \in Seq(Byte) /\ RxProcessError(f) = "Ok"
  BY RxFrameType DEF Received, Timestamp
<1>3. ~ ClosesMultiFrame(f) => crc_val = None
  BY DEF RxFrameMetadata
<1>4. ClosesMultiFrame(f) =>
          /\ crc_val = Crc(PayloadOf(t)) /\ crc_val # None
          /\ bytes # << >> =>
                bytes[Len(bytes)] = [of |-> t.of, part |-> "data", at |-> t.use.claimed]
  <2>1. Crc(PayloadOf(t)) \in Seq(Byte)
    BY WholeIs DEF Multi
  <2> QED BY <1>2, <2>1, ClosingFrame, NoCrcAssumption
<1>5. CASE RxIsActive(k) /\ RefusedFrame(f, old, e)
  <2>1. CrcTells(old) /\ m.crc \in Seq(Byte) /\ old.payload \in Seq(Byte)
    BY <1>5, ActiveIs
  <2>2. /\ e.transport_metadata = UpdateOf(f, m).metadata /\ e.payload = old.payload
        /\ UpdateOf(f, m).error # "Ok" /\ rx_result'.kind # "Token"
    BY <1>5 DEF RefusedFrame
  <2>3. CASE f.tail.toggle = m.toggle_bit
    <3>1. UpdateOf(f, m).metadata = m
      BY <2>3, UpdateIs
    <3> QED BY <2>1, <2>2, <3>1 DEF CrcTells
  <2>4. CASE f.tail.toggle # m.toggle_bit
    <3>1. /\ e.transport_metadata.crc = m.crc \o bytes
          /\ crc_val \notin {None, Crc(m.crc \o bytes)}
      <4> HIDE DEF m, bytes, crc_val, old
      <4>1. /\ UpdateOf(f, m).metadata.crc = m.crc \o bytes
            /\ UpdateOf(f, m).error = IF crc_val \in {None, Crc(m.crc \o bytes)}
                                      THEN "Ok" ELSE "CrcError"
        BY <1>1, <2>4, UpdateIs DEF bytes, crc_val
      <4> QED BY <2>2, <4>1
    <3>2. CASE bytes = << >>
      <4>1. m.crc \o bytes = m.crc
        BY <2>1, <3>2
      <4> QED BY <2>1, <2>2, <3>1, <4>1 DEF CrcTells
    <3>3. CASE bytes # << >>
      <4> HIDE DEF bytes, m, crc_val
      <4>1. m.crc \o bytes # << >> /\ ~ IsWritten(m.crc \o bytes)
        BY <1>2, <1>3, <1>4, <2>1, <3>1, <3>3, SpoiltCrc
      <4> QED BY <2>2, <3>1, <4>1 DEF CrcTells
    <3> QED BY <3>2, <3>3
  <2> QED BY <2>3, <2>4
<1>6. CASE RxIsActive(k) /\ AppendedFrame(f, old, e)
  <2>1. CrcTells(old) /\ m.crc \in Seq(Byte) /\ old.payload \in Seq(Byte)
    BY <1>6, ActiveIs
  <2>2. /\ e.transport_metadata = UpdateOf(f, m).metadata
        /\ e.payload = old.payload \o bytes
        /\ UpdateOf(f, m).error = "Ok"
    BY <1>6 DEF AppendedFrame
  <2>3. /\ e.transport_metadata.crc = m.crc \o bytes
        /\ crc_val \in {None, Crc(m.crc \o bytes)}
    <3> HIDE DEF m, old
    <3>1. /\ UpdateOf(f, m).metadata.crc = m.crc \o bytes
          /\ crc_val \in {None, Crc(m.crc \o bytes)}
      BY <1>1, <2>2, UpdateOkIs
    <3> HIDE DEF bytes, crc_val
    <3> QED BY <2>2, <3>1
  <2>4. CrcTells(e)
    <3>1. CASE m.crc = old.payload
      BY <2>2, <2>3, <3>1 DEF CrcTells
    <3>2. CASE m.crc # << >> /\ ~ IsWritten(m.crc)
      <4> HIDE DEF m, bytes
      <4>1. ~ IsWritten(m.crc \o bytes)
        BY <1>2, <2>1, <3>2, WrittenPrefix
      <4>2. m.crc \o bytes # << >>
        BY <1>2, <2>1, <3>2
      <4> QED BY <2>3, <4>1, <4>2 DEF CrcTells
    <3> QED BY <2>1, <3>1, <3>2 DEF CrcTells
  <2>5. ClosesMultiFrame(f) => e.payload = PayloadOf(t)
    <3> SUFFICES ASSUME ClosesMultiFrame(f) PROVE e.payload = PayloadOf(t)
      OBVIOUS
    <3> HIDE DEF m, bytes, crc_val
    <3>1. Crc(m.crc \o bytes) = Crc(PayloadOf(t)) /\ m.crc \o bytes \in Seq(Byte)
      BY <1>2, <1>4, <2>1, <2>3, Concat
    <3>2. t.of \in Data /\ t.use.claimed \in Nat \ {0}
      BY PlannedIsSendable, PayloadIs, CanAssumption DEF Sendable, Multi, FrameCapacity
    <3>3. m.crc \o bytes = PayloadOf(t)
      BY <3>1, <3>2, CrcIdentifies DEF PayloadOf
    <3>4. IsWritten(PayloadOf(t))
      BY <3>2 DEF IsWritten, PayloadOf, Written
    <3> QED BY <2>3, <2>4, <3>3, <3>4 DEF CrcTells
  <2> QED BY <2>4, <2>5
<1>7. CASE k \notin DOMAIN rx_transfers /\ FirstFrame(f, e)
  <2>1. /\ e.transport_metadata = UpdateOf(f, RxMetadataDefault).metadata
        /\ e.payload = bytes /\ f.tail.start
        /\ UpdateOf(f, RxMetadataDefault).error = "Ok"
    BY <1>7 DEF FirstFrame
  <2>2. e.transport_metadata.crc = RxMetadataDefault.crc \o bytes
    <3>1. PICK d : d = RxMetadataDefault
      OBVIOUS
    <3>2. UpdateOf(f, d).metadata.crc = d.crc \o bytes
      BY <1>1, <2>1, <3>1, UpdateOkIs
    <3> QED BY <2>1, <3>1, <3>2
  <2>3. RxMetadataDefault.crc \o bytes = bytes
    <3> HIDE DEF bytes
    <3> QED BY <1>2 DEF RxMetadataDefault
  <2> QED BY <2>1, <2>2, <2>3 DEF CrcTells, ClosesMultiFrame
<1> QED BY <1>5, <1>6, <1>7 DEF Received

-----------------------------------------------------------------------------
(* The steps of the two nodes and the bus together.                        *)

LEMMA BegunPlanned ==
    ASSUME LinkTyped, NEW t \in begun
    PROVE  t \in Planned
BY DEF LinkTyped, Planned

(* What becomes of the bus. *)
BusStep ==
    \/ bus' = bus
    \/ bus # << >> /\ bus' = Tail(bus)
    \/ bus # << >> /\ bus' = << Head(bus) >> \o bus
    \/ \E f \in CanFrame : (\E t \in begun : FrameOf(t, f)) /\ bus' = Append(bus, f)

LEMMA BusKept ==
    ASSUME bus \in Seq(CanFrame), BusFramesBegun, begun \subseteq begun', BusStep
    PROVE  bus' \in Seq(CanFrame) /\ BusFramesBegun'
<1>1. CASE bus' = bus
  BY <1>1 DEF BusFramesBegun
<1>2. CASE bus # << >> /\ bus' = Tail(bus)
  <2>1. /\ Tail(bus) \in Seq(CanFrame)
        /\ \A i \in DOMAIN Tail(bus) : i + 1 \in DOMAIN bus /\ Tail(bus)[i] = bus[i + 1]
    BY <1>2, TailIs
  <2> QED BY <1>2, <2>1 DEF BusFramesBegun
<1>3. CASE bus # << >> /\ bus' = << Head(bus) >> \o bus
  <2> DEFINE w == << Head(bus) >> \o bus
  <2>1. /\ w \in Seq(CanFrame) /\ 1 \in DOMAIN bus
        /\ \A i \in DOMAIN w :
              /\ i \in Nat /\ i >= 1
              /\ i = 1 => w[i] = bus[1]
              /\ i > 1 => i - 1 \in DOMAIN bus /\ w[i] = bus[i - 1]
    BY <1>3, RepeatIs, TailIs
  <2> HIDE DEF w
  <2>2. \A i \in DOMAIN w : \E j \in DOMAIN bus : w[i] = bus[j]
    BY <2>1
  <2>3. bus' = w
    BY <1>3 DEF w
  <2> QED BY <2>1, <2>2, <2>3 DEF BusFramesBegun
<1>4. ASSUME NEW f \in CanFrame, \E t \in begun : FrameOf(t, f), bus' = Append(bus, f)
      PROVE  bus' \in Seq(CanFrame) /\ BusFramesBegun'
  <2> DEFINE w == Append(bus, f)
  <2>1. /\ w \in Seq(CanFrame)
        /\ \A i \in DOMAIN w : (i \in DOMAIN bus /\ w[i] = bus[i]) \/ w[i] = f
    BY AppendIs
  <2> HIDE DEF w
  <2>2. bus' = w
    BY <1>4 DEF w
  <2> QED BY <1>4, <2>1, <2>2 DEF BusFramesBegun
<1> QED BY <1>1, <1>2, <1>3, <1>4 DEF BusStep

(* What becomes of the entries of the sending node, except at a start.     *)
TxEntriesStep ==
    \/ \E l \in TxP!TxKeys : TxP!TransmitFrame(l) \/ TxP!CancelTxTransfer(l)
    \/ TxP!UpdateTxTransfers
    \/ UNCHANGED tx_transfers

LEMMA NoStart ==
    ASSUME [Next]_link_vars
    PROVE  \/ Start
           \/ TxEntriesStep /\ UNCHANGED << scenario, plan, begun >>
<1> USE DEF TxEntriesStep
<1>1. ASSUME NEW k \in Tx!TxKeys, Transmit(k)
      PROVE  TxEntriesStep /\ UNCHANGED << scenario, plan, begun >>
  BY <1>1, TxTransmit, TxKeysSame DEF Transmit
<1>2. ASSUME NEW k \in Tx!TxKeys, CancelTx(k)
      PROVE  TxEntriesStep /\ UNCHANGED << scenario, plan, begun >>
  BY <1>2, TxCancel, TxKeysSame DEF CancelTx, link_part
<1>3. CASE UpdateTx
  BY <1>3, TxUpdate DEF UpdateTx, link_part
<1>4. CASE Deliver \/ Lose \/ Duplicate \/ Tick \/ UpdateRx
  BY <1>4 DEF Deliver, Lose, Duplicate, Tick, UpdateRx, tx_part, link_part
<1>5. ASSUME NEW k \in Rx!RxKeys, Read(k) \/ CancelRx(k)
      PROVE  TxEntriesStep /\ UNCHANGED << scenario, plan, begun >>
  BY <1>5 DEF Read, CancelRx, tx_part, link_part
<1>6. CASE UNCHANGED link_vars
  BY <1>6 DEF link_vars, tx_part, link_part
<1> QED BY <1>1, <1>2, <1>3, <1>4, <1>5, <1>6 DEF Next

LEMMA PlanKept ==
    ASSUME LinkTyped, TxP!NoPanic', [Next]_link_vars
    PROVE  /\ scenario' \in Scenarios /\ scenario' = scenario
           /\ plan' \in Seq(Planned)
           /\ \A i \in DOMAIN plan' : \E j \in DOMAIN scenario.sends :
                 plan'[i] = scenario.sends[j]
           /\ begun \subseteq begun'
           /\ \A t \in begun' : \E j \in DOMAIN scenario.sends : t = scenario.sends[j]
<1>1. CASE UNCHANGED << scenario, plan, begun >>
  BY <1>1 DEF LinkTyped
<1>2. CASE Start
  <2>1. scenario' = scenario
    BY <1>2 DEF Start
  <2>2. CASE UNCHANGED << plan, begun >>
    BY <1>1, <2>1, <2>2
  <2>3. CASE plan' = Tail(plan) /\ begun' = begun \cup {Head(plan)}
    <3>1. plan # << >>
      BY <1>2 DEF Start
    <3>2. /\ Tail(plan) \in Seq(Planned)
          /\ \A i \in DOMAIN Tail(plan) :
                i + 1 \in DOMAIN plan /\ Tail(plan)[i] = plan[i + 1]
          /\ 1 \in DOMAIN plan /\ Head(plan) = plan[1]
      BY <3>1, PlanHead
    <3> QED BY <2>1, <2>3, <3>2 DEF LinkTyped
  <2> QED BY <1>2, <2>2, <2>3, StartBegins DEF Began
<1> QED BY <1>1, <1>2, NoStart

LEMMA TxEntriesKept ==
    ASSUME LinkInv, TxP!TxTypeOK', TxP!NoPanic', [Next]_link_vars
    PROVE  TxEntriesBegun'
<1> SUFFICES ASSUME NEW k \in DOMAIN tx_transfers', TxP!TxIsActive(k)'
             PROVE  \E t \in begun' : EntryOf(t, tx_transfers'[k])
  BY DEF TxEntriesBegun
<1>1. LinkTyped /\ TxP!TxTypeOK /\ TxEntriesBegun /\ k \in TxP!TxKeys
  BY DEF LinkInv, TxP!TxTypeOK
<1>2. begun \subseteq begun'
  BY <1>1, PlanKept
<1>3. CASE TxEntriesStep
  <2>1. Continues(k)
    BY <1>1, <1>3, EntriesContinue DEF TxEntriesStep
  <2>2. PICK t \in begun : EntryOf(t, tx_transfers[k])
    BY <1>1, <2>1 DEF TxEntriesBegun, Continues, TxP!TxIsActive
  <2>3. EntryOf(t, tx_transfers'[k])
    BY <2>1, <2>2 DEF Continues, EntryOf
  <2> QED BY <1>2, <2>3
<1>4. ASSUME NEW l, NEW e, Began(Head(plan), l, e)
      PROVE  \E t \in begun' : EntryOf(t, tx_transfers'[k])
  <2>1. CASE k = l
    BY <1>4, <2>1 DEF Began
  <2>2. CASE k # l
    <3>1. tx_transfers'[k] = tx_transfers[k] /\ TxP!TxIsActive(k)
      BY <1>4, <2>2 DEF Began, TxP!TxIsActive
    <3> QED BY <1>1, <1>2, <3>1 DEF TxEntriesBegun, TxP!TxIsActive
  <2> QED BY <2>1, <2>2
<1> QED BY <1>1, <1>3, <1>4, NoStart, StartBegins DEF TxEntriesStep

(* Only transmit_frame puts something new on the bus.                      *)
FrameSent(l) ==
    /\ l \in TxP!TxKeys
    /\ TxP!TransmitFrame(l) /\ tx_result'.kind = "Frame"
    /\ bus' = Append(bus, tx_result'.frame)

LEMMA BusChanges ==
    ASSUME [Next]_link_vars
    PROVE  \/ bus' = bus
           \/ bus # << >> /\ bus' = Tail(bus)
           \/ bus # << >> /\ bus' = << Head(bus) >> \o bus
           \/ \E l : FrameSent(l)
<1>1. ASSUME NEW k \in Tx!TxKeys, Transmit(k) PROVE bus' = bus \/ FrameSent(k)
  BY <1>1, TxTransmit, TxKeysSame DEF Transmit, FrameSent
<1>2. ASSUME NEW k \in Tx!TxKeys, CancelTx(k) PROVE bus' = bus
  BY <1>2 DEF CancelTx, link_part
<1>3. CASE Start \/ UpdateTx \/ Tick \/ UpdateRx
  BY <1>3 DEF Start, UpdateTx, Tick, UpdateRx, link_part
<1>4. ASSUME NEW k \in Rx!RxKeys, Read(k) \/ CancelRx(k) PROVE bus' = bus
  BY <1>4 DEF Read, CancelRx, link_part
<1>5. CASE Deliver \/ Lose
  BY <1>5 DEF Deliver, Lose
<1>6. CASE Duplicate
  BY <1>6 DEF Duplicate
<1>7. CASE UNCHANGED link_vars
  BY <1>7 DEF link_vars, link_part
<1> QED BY <1>1, <1>2, <1>3, <1>4, <1>5, <1>6, <1>7 DEF Next

LEMMA SentIs ==
    ASSUME LinkInv, TxP!TxTypeOK', NEW l, FrameSent(l)
    PROVE  /\ TxP!TxIsActive(l) /\ l \in DOMAIN tx_transfers
           /\ tx_result'.frame \in CanFrame
           /\ \E t \in begun : FrameOf(t, tx_result'.frame)
           /\ FrameKey(tx_result'.frame) = EntryKey(tx_transfers[l])
           /\ tx_result'.frame.tail.end => l \notin DOMAIN tx_transfers'
<1>1. /\ LinkTyped /\ TxP!TxTypeOK /\ TxP!TxEntriesSound /\ TxEntriesBegun
      /\ l \in TxP!TxKeys /\ TxP!TransmitFrame(l) /\ tx_result'.kind = "Frame"
  BY DEF LinkInv, FrameSent
<1>2. TxP!TxIsActive(l) /\ l \in DOMAIN tx_transfers
  BY <1>1 DEF TxP!TransmitFrame, TxP!TransmitOk, TxP!TransmitTxError,
              TxP!TransmitTokenError, TxP!TxIsActive
<1>3. PICK t \in begun : EntryOf(t, tx_transfers[l])
  BY <1>1, <1>2 DEF TxEntriesBegun
<1>4. t \in Planned
  BY <1>1, BegunPlanned
<1> QED BY <1>1, <1>2, <1>3, <1>4, FrameMade

LEMMA BusSteps ==
    ASSUME LinkInv, TxP!TxTypeOK', [Next]_link_vars
    PROVE  BusStep
<1>1. ASSUME NEW l, FrameSent(l) PROVE BusStep
  BY <1>1, SentIs DEF BusStep, FrameSent
<1> QED BY <1>1, BusChanges DEF BusStep

(* What becomes of the entries of the receiving node. *)
RxStep ==
    \/ UNCHANGED rx_transfers
    \/ \E e : Deliver /\ Received(Head(bus), FrameKey(Head(bus)), e)
    \/ scenario.receiver_cancels /\ \E k : rx_transfers' = Rx!Remove(rx_transfers, k)
    \/ Rx!UpdateRxTransfers

LEMMA RxSteps ==
    ASSUME LinkInv, [Next]_link_vars
    PROVE  RxStep
<1> USE DEF RxStep
<1>1. CASE Deliver
  <2>1. bus # << >> /\ Rx!ReceiveFrame(Head(bus))
    BY <1>1 DEF Deliver
  <2>2. Head(bus) \in CanFrame /\ RxTyped /\ now \in Nat
    BY <2>1, TailIs, TxTypes DEF LinkInv, LinkTyped, TxP!TxTypeOK
  <2> QED BY <1>1, <2>1, <2>2, ReceiveIs
<1>2. ASSUME NEW k \in Rx!RxKeys, Read(k) PROVE RxStep
  BY <1>2 DEF Read, Rx!WithRxTransfer
<1>3. ASSUME NEW k \in Rx!RxKeys, CancelRx(k) PROVE RxStep
  BY <1>3 DEF CancelRx, Rx!CancelRxTransfer
<1>4. CASE UpdateRx
  BY <1>4 DEF UpdateRx
<1>5. CASE Start \/ UpdateTx \/ Tick \/ Lose \/ Duplicate
  BY <1>5 DEF Start, UpdateTx, Tick, Lose, Duplicate, rx_part
<1>6. ASSUME NEW k \in Tx!TxKeys, Transmit(k) \/ CancelTx(k) PROVE RxStep
  BY <1>6 DEF Transmit, CancelTx, rx_part
<1>7. CASE UNCHANGED link_vars
  BY <1>7 DEF link_vars, rx_part
<1> QED BY <1>1, <1>2, <1>3, <1>4, <1>5, <1>6, <1>7 DEF Next

(* An entry of the receiving node is active after a step because a frame   *)
(* has come for it, or because it was before.                              *)
LEMMA RxOrigin ==
    ASSUME RxStep, NEW k, RxIsActive(k)'
    PROVE  \/ RxIsActive(k) /\ rx_transfers'[k] = rx_transfers[k]
           \/ Deliver /\ k = FrameKey(Head(bus)) /\ Received(Head(bus), k, rx_transfers'[k])
<1>1. CASE UNCHANGED rx_transfers
  BY <1>1 DEF RxIsActive
<1>2. ASSUME NEW e, Deliver, Received(Head(bus), FrameKey(Head(bus)), e)
      PROVE  \/ RxIsActive(k) /\ rx_transfers'[k] = rx_transfers[k]
             \/ /\ Deliver /\ k = FrameKey(Head(bus))
                /\ Received(Head(bus), k, rx_transfers'[k])
  <2>1. CASE k = FrameKey(Head(bus))
    <3>1. rx_transfers'[k] = e
      BY <1>2, <2>1 DEF Received
    <3> QED BY <1>2, <2>1, <3>1
  <2>2. CASE k # FrameKey(Head(bus))
    BY <1>2, <2>2 DEF Received, RxIsActive
  <2> QED BY <2>1, <2>2
<1>3. ASSUME NEW l, rx_transfers' = Rx!Remove(rx_transfers, l)
      PROVE  RxIsActive(k) /\ rx_transfers'[k] = rx_transfers[k]
  BY <1>3 DEF Rx!Remove, Rx!Restrict, RxIsActive
<1>4. CASE Rx!UpdateRxTransfers
  BY <1>4 DEF Rx!UpdateRxTransfers, Rx!TimedOut, RxIsActive
<1> QED BY <1>1, <1>2, <1>3, <1>4 DEF RxStep

LEMMA RxTypedKept ==
    ASSUME RxTyped, RxStep PROVE RxTyped'
<1> SUFFICES ASSUME NEW k \in DOMAIN rx_transfers', RxIsActive(k)'
             PROVE  rx_transfers'[k] \in RxTransfer
  BY DEF RxTyped
<1> QED BY RxOrigin DEF RxTyped, RxIsActive, Received

LEMMA LinkKept ==
    ASSUME LinkInv, [Next]_link_vars PROVE LinkInv'
<1>1. TxP!TxTypeOK' /\ TxP!TxEntriesSound' /\ TxP!NoPanic'
  BY TxKept DEF LinkInv
<1>2. TxEntriesBegun'
  BY <1>1, TxEntriesKept
<1>3. /\ scenario' \in Scenarios /\ scenario' = scenario
      /\ plan' \in Seq(Planned)
      /\ \A i \in DOMAIN plan' : \E j \in DOMAIN scenario.sends :
            plan'[i] = scenario.sends[j]
      /\ begun \subseteq begun'
      /\ \A t \in begun' : \E j \in DOMAIN scenario.sends : t = scenario.sends[j]
  BY <1>1, PlanKept DEF LinkInv
<1>4. bus' \in Seq(CanFrame) /\ BusFramesBegun'
  BY <1>1, <1>3, BusSteps, BusKept DEF LinkInv, LinkTyped
<1>5. LinkTyped'
  BY <1>3, <1>4 DEF LinkTyped
<1>6. RxTyped'
  BY RxSteps, RxTypedKept DEF LinkInv
<1> QED BY <1>1, <1>2, <1>4, <1>5, <1>6 DEF LinkInv

LEMMA LinkInit == Init => LinkInv
<1> SUFFICES ASSUME Init PROVE LinkInv
  OBVIOUS
<1>1. TxP!Init
  BY TxInit DEF Init
<1>2. TxP!TxTypeOK
  BY <1>1, TxAssumption, TxP!InitTyped
<1>3. TxP!TxEntriesSound /\ TxP!NoPanic /\ TxEntriesBegun
  BY <1>1 DEF TxP!Init, TxP!TxEntriesSound, TxP!TxIsActive, TxP!EmptyMap, TxP!NoPanic,
              TxP!Unit, TxEntriesBegun
<1>4. RxTyped
  BY DEF Init, Rx!Init, RxTyped, Rx!EmptyMap
<1>5. LinkTyped
  <2>1. scenario \in Scenarios /\ plan = scenario.sends /\ bus = << >> /\ begun = {}
    BY DEF Init
  <2>2. plan \in Seq({t \in Planned : Sendable(t)})
    BY <2>1, ScenariosAssumption DEF Scenario
  <2>3. plan \in Seq(Planned)
    BY <2>2
  <2> QED BY <2>1, <2>3 DEF LinkTyped
<1>6. BusFramesBegun
  BY DEF Init, BusFramesBegun
<1> QED BY <1>2, <1>3, <1>4, <1>5, <1>6 DEF LinkInv

(* The frame that is delivered belongs to a transfer the sender started,   *)
(* one of the scenario.                                                    *)
LEMMA Delivered ==
    ASSUME LinkInv, Deliver
    PROVE  /\ Head(bus) \in CanFrame /\ now \in Nat
           /\ \E t \in begun : /\ t \in Planned /\ FrameOf(t, Head(bus))
                               /\ \E j \in DOMAIN scenario.sends : t = scenario.sends[j]
<1>1. LinkTyped /\ BusFramesBegun /\ bus # << >> /\ now \in Nat
  BY TxTypes DEF LinkInv, Deliver, TxP!TxTypeOK
<1>2. 1 \in DOMAIN bus /\ Head(bus) = bus[1] /\ Head(bus) \in CanFrame
  BY <1>1, TailIs DEF LinkTyped
<1>3. PICK t \in begun : FrameOf(t, Head(bus))
  BY <1>1, <1>2 DEF BusFramesBegun
<1> QED BY <1>1, <1>2, <1>3, BegunPlanned DEF LinkTyped

(* What a frame brings to a key of multi-frame transfers is of one.        *)
LEMMA MultiDelivered ==
    ASSUME SinglesApart, LinkInv, Deliver, MultiKey(FrameKey(Head(bus)))
    PROVE  \E t \in begun : t \in Planned /\ Multi(t) /\ FrameOf(t, Head(bus))
<1>1. PICK t \in begun : /\ t \in Planned /\ FrameOf(t, Head(bus))
                         /\ \E j \in DOMAIN scenario.sends : t = scenario.sends[j]
  BY Delivered
<1>2. PICK i \in DOMAIN scenario.sends :
          Multi(scenario.sends[i]) /\ BusKey(scenario.sends[i]) = FrameKey(Head(bus))
  BY DEF MultiKey
<1>3. PICK j \in DOMAIN scenario.sends : t = scenario.sends[j]
  BY <1>1
<1>4. BusKey(t) = FrameKey(Head(bus))
  BY <1>1 DEF FrameOf
<1>5. scenario \in Scenarios
  BY DEF LinkInv, LinkTyped
<1>6. Multi(t)
  BY <1>2, <1>3, <1>4, <1>5 DEF SinglesApart, SinglesApartIn
<1> QED BY <1>1, <1>6

LEMMA IntactKept ==
    ASSUME SinglesApart, LinkInv, RxCrcTells, [Next]_link_vars
    PROVE  RxCrcTells'
<1>1. scenario' = scenario
  BY LinkKept, PlanKept DEF LinkInv
<1> SUFFICES ASSUME NEW k \in DOMAIN rx_transfers', RxIsActive(k)', MultiKey(k)'
             PROVE  CrcTells(rx_transfers'[k])
  BY DEF RxCrcTells, CrcTells
<1>2. MultiKey(k)
  BY <1>1 DEF MultiKey
<1>3. RxIsActive(k) => rx_transfers[k] \in RxTransfer /\ CrcTells(rx_transfers[k])
  BY <1>2 DEF RxCrcTells, LinkInv, RxTyped, RxIsActive
<1>4. CASE RxIsActive(k) /\ rx_transfers'[k] = rx_transfers[k]
  BY <1>3, <1>4
<1>5. CASE Deliver /\ k = FrameKey(Head(bus)) /\ Received(Head(bus), k, rx_transfers'[k])
  <2>1. PICK t \in begun : t \in Planned /\ Multi(t) /\ FrameOf(t, Head(bus))
    BY <1>2, <1>5, MultiDelivered
  <2>2. Head(bus) \in CanFrame /\ now \in Nat
    BY <1>5, Delivered
  <2> QED BY <1>3, <1>5, <2>1, <2>2, CrcStillTells
<1> QED BY <1>4, <1>5, RxSteps, RxOrigin

LEMMA IntactGiven ==
    ASSUME SinglesApart, LinkInv, RxCrcTells, Deliver, ClosesMultiFrame(Head(bus)),
           rx_result'.kind = "Token"
    PROVE  Intact(rx_result.token)'
<1> DEFINE f == Head(bus)
           k == FrameKey(f)
<1>1. f \in CanFrame /\ now \in Nat
  BY Delivered
<1>2. PICK t \in begun : /\ t \in Planned /\ FrameOf(t, f)
                         /\ \E j \in DOMAIN scenario.sends : t = scenario.sends[j]
  BY Delivered
<1>3. Multi(t) /\ BusKey(t) = k
  BY <1>2 DEF FrameOf
<1>4. MultiKey(k)
  BY <1>2, <1>3 DEF MultiKey
<1>5. PICK e : Received(f, k, e)
  <2>1. RxTyped /\ Rx!ReceiveFrame(f)
    BY DEF LinkInv, Deliver
  <2> HIDE DEF f, k
  <2> QED BY <1>1, <2>1, ReceiveIs DEF k
<1>6. RxIsActive(k) => rx_transfers[k] \in RxTransfer /\ CrcTells(rx_transfers[k])
  BY <1>4 DEF RxCrcTells, LinkInv, RxTyped, RxIsActive
<1> HIDE DEF f, k
<1>7. e.payload = PayloadOf(t)
  BY <1>1, <1>2, <1>3, <1>5, <1>6, CrcStillTells DEF f
<1>8. rx_result'.token = k /\ rx_transfers'[k] = e
  BY <1>5 DEF Received, RefusedFrame, AppendedFrame, FirstFrame, GivesToken, k
<1>9. t \in begun'
  BY <1>2 DEF Deliver
<1> QED BY <1>3, <1>7, <1>8, <1>9 DEF Intact

(* For every plan in which no id is used by multi-frame and by single-     *)
(* frame transfers (SinglesApart), for any number of losses, repeats,      *)
(* interleavings, cancellations, timeouts and reuses of an id, a token     *)
(* that the last frame of a multi-frame transfer brings stands for the     *)
(* payload of one transfer the sender started: the toggle and the CRC of   *)
(* update_rx_metadata and the map of append_frame let nothing else pass.   *)
(* Without the hypothesis the frame of a single-frame transfer, whose CRC  *)
(* is not taken in, can be appended to what is there unnoticed.            *)
THEOREM MultiFramesAreIntact ==
    ASSUME SinglesApart PROVE Spec => MultiFrameIntact
<1>1. Init => LinkInv /\ RxCrcTells
  <2>1. Init => RxCrcTells
    BY DEF Init, Rx!Init, RxCrcTells, Rx!EmptyMap
  <2> QED BY <2>1, LinkInit
<1>2. LinkInv /\ RxCrcTells /\ [Next]_link_vars => (LinkInv /\ RxCrcTells)'
  BY LinkKept, IntactKept
<1>3. LinkInv /\ RxCrcTells /\ [Next]_link_vars
         => [Deliver /\ ClosesMultiFrame(Head(bus)) /\ rx_result'.kind = "Token"
                => Intact(rx_result.token)']_link_vars
  BY IntactGiven
<1> QED BY <1>1, <1>2, <1>3, PTL DEF Spec, MultiFrameIntact

-----------------------------------------------------------------------------
(* Nothing is delivered twice. *)

LEMMA PlanStaysDistinct ==
    ASSUME LinkTyped, PlanDistinct, TxP!NoPanic', [Next]_link_vars
    PROVE  PlanDistinct'
<1>1. CASE UNCHANGED << plan, begun >>
  BY <1>1 DEF PlanDistinct
<1>2. CASE plan # << >> /\ plan' = Tail(plan) /\ begun' = begun \cup {Head(plan)}
  <2>1. /\ Tail(plan) \in Seq(Planned)
        /\ 1 \in DOMAIN plan /\ Head(plan) = plan[1]
        /\ \A i \in DOMAIN Tail(plan) :
              i + 1 \in DOMAIN plan /\ Tail(plan)[i] = plan[i + 1]
    BY <1>2, PlanHead
  <2>2. \A i \in DOMAIN Tail(plan) : i \in Nat /\ i + 1 # 1
    BY <2>1
  <2>3. ASSUME NEW i \in DOMAIN plan', NEW j \in DOMAIN plan',
               BusKey(plan'[i]) = BusKey(plan'[j])
        PROVE  i = j
    <3>1. i + 1 = j + 1
      BY <1>2, <2>1, <2>3 DEF PlanDistinct
    <3> QED BY <1>2, <2>2, <3>1
  <2>4. ASSUME NEW i \in DOMAIN plan', NEW t \in begun'
        PROVE  BusKey(plan'[i]) # BusKey(t)
    BY <1>2, <2>1, <2>2 DEF PlanDistinct
  <2> QED BY <2>3, <2>4 DEF PlanDistinct, BusKey
<1> QED BY <1>1, <1>2, NoStart, StartBegins DEF Began, Start

(* Once a transfer that was started has no entry left, none comes.         *)
LEMMA OverStays ==
    ASSUME LinkInv, PlanDistinct, TxP!TxTypeOK', TxP!NoPanic', [Next]_link_vars,
           NEW t \in begun, Over(BusKey(t))
    PROVE  Over(BusKey(t))'
<1> DEFINE key == BusKey(t)
<1>1. Over(key)' = \A l \in DOMAIN tx_transfers' :
                      TxP!TxIsActive(l)' => EntryKey(tx_transfers'[l]) # key
  BY DEF Over, EntryKey, BusKey
<1>2. SUFFICES ASSUME NEW l \in DOMAIN tx_transfers', TxP!TxIsActive(l)'
               PROVE  EntryKey(tx_transfers'[l]) # key
  BY <1>1
<1>3. LinkTyped /\ TxP!TxTypeOK /\ l \in TxP!TxKeys
  BY DEF LinkInv, TxP!TxTypeOK
<1>4. CASE TxEntriesStep
  <2>1. Continues(l)
    BY <1>2, <1>3, <1>4, EntriesContinue DEF TxEntriesStep
  <2> QED BY <2>1 DEF Continues, Over, TxP!TxIsActive
<1>5. ASSUME plan # << >>, NEW m, NEW e, Began(Head(plan), m, e)
      PROVE  EntryKey(tx_transfers'[l]) # key
  <2>1. BusKey(Head(plan)) # key
    BY <1>3, <1>5, PlanHead DEF PlanDistinct
  <2>2. CASE l = m
    BY <1>5, <2>1, <2>2 DEF Began, EntryOf
  <2>3. CASE l # m
    BY <1>2, <1>5, <2>3 DEF Began, Over, TxP!TxIsActive
  <2> QED BY <2>2, <2>3
<1> QED BY <1>3, <1>4, <1>5, NoStart, StartBegins DEF TxEntriesStep, Start

LEMMA EntriesStayDistinct ==
    ASSUME LinkInv, PlanDistinct, EntriesDistinct, TxP!TxTypeOK', TxP!NoPanic',
           [Next]_link_vars
    PROVE  EntriesDistinct'
<1> SUFFICES ASSUME NEW k \in DOMAIN tx_transfers', NEW l \in DOMAIN tx_transfers',
                    TxP!TxIsActive(k)', TxP!TxIsActive(l)',
                    EntryKey(tx_transfers'[k]) = EntryKey(tx_transfers'[l])
             PROVE  k = l
  BY DEF EntriesDistinct, EntryKey
<1>1. LinkTyped /\ TxP!TxTypeOK /\ TxEntriesBegun /\ k \in TxP!TxKeys /\ l \in TxP!TxKeys
  BY DEF LinkInv, TxP!TxTypeOK
<1>2. CASE TxEntriesStep
  <2>1. Continues(k) /\ Continues(l)
    BY <1>1, <1>2, EntriesContinue DEF TxEntriesStep
  <2> QED BY <2>1 DEF Continues, EntriesDistinct, TxP!TxIsActive
<1>3. ASSUME plan # << >>, NEW m, NEW e, Began(Head(plan), m, e)
      PROVE  k = l
  <2>1. ASSUME NEW x \in DOMAIN tx_transfers', x # m, TxP!TxIsActive(x)'
        PROVE  /\ tx_transfers'[x] = tx_transfers[x] /\ TxP!TxIsActive(x)
               /\ x \in DOMAIN tx_transfers
               /\ EntryKey(tx_transfers'[x]) # EntryKey(e)
    <3>1. /\ tx_transfers'[x] = tx_transfers[x] /\ TxP!TxIsActive(x)
          /\ x \in DOMAIN tx_transfers
      BY <1>3, <2>1 DEF Began, TxP!TxIsActive
    <3>2. PICK t \in begun : EntryOf(t, tx_transfers[x])
      BY <1>1, <3>1 DEF TxEntriesBegun
    <3>3. BusKey(Head(plan)) # BusKey(t)
      BY <1>1, <1>3, PlanHead DEF PlanDistinct
    <3> QED BY <1>3, <3>1, <3>2, <3>3 DEF EntryOf, Began
  <2>2. tx_transfers'[m] = e
    BY <1>3 DEF Began
  <2> QED BY <2>1, <2>2 DEF EntriesDistinct
<1> QED BY <1>1, <1>2, <1>3, NoStart, StartBegins DEF TxEntriesStep, Start

(* The frame that is sent is not of a transfer that is over; and if it is  *)
(* an end, its transfer is over then.                                      *)
LEMMA SentEnds ==
    ASSUME LinkInv, EntriesDistinct, TxP!TxTypeOK', NEW l, FrameSent(l),
           NEW f, f = tx_result'.frame, NEW k, k = FrameKey(f)
    PROVE  ~ Over(k) /\ (f.tail.end => Over(k)')
<1>1. /\ TxP!TxIsActive(l) /\ l \in DOMAIN tx_transfers
      /\ k = EntryKey(tx_transfers[l])
      /\ f.tail.end => l \notin DOMAIN tx_transfers'
  BY SentIs
<1>2. ~ Over(k)
  BY <1>1 DEF Over
<1>3. ASSUME f.tail.end, NEW x \in DOMAIN tx_transfers', TxP!TxIsActive(x)'
      PROVE  EntryKey(tx_transfers'[x]) # k
  <2>1. TxP!TxTypeOK /\ x \in TxP!TxKeys
    BY DEF LinkInv, TxP!TxTypeOK
  <2>2. Continues(x)
    BY <1>3, <2>1, EntriesContinue DEF FrameSent
  <2>3. x # l
    BY <1>1, <1>3
  <2> QED BY <1>1, <2>2, <2>3 DEF Continues, EntriesDistinct, TxP!TxIsActive
<1>4. f.tail.end => \A x \in DOMAIN tx_transfers' :
          TxP!TxIsActive(x)' => EntryKey(tx_transfers'[x]) # k
  BY <1>3
<1> QED BY <1>2, <1>4 DEF Over, EntryKey

LEMMA EndsStayLast ==
    ASSUME LinkInv, PlanDistinct, EntriesDistinct, EndsAreLast,
           TxP!TxTypeOK', TxP!NoPanic', [Next]_link_vars
    PROVE  EndsAreLast'
<1> DEFINE same(w, i, j) ==
              FrameKey(w[j]) = FrameKey(w[i]) => w[j].tail.toggle = w[i].tail.toggle
<1>1. bus \in Seq(CanFrame) /\ BusFramesBegun
  BY DEF LinkInv, LinkTyped
<1>2. ASSUME NEW i \in DOMAIN bus, bus[i].tail.end, NEW f, f = bus[i]
      PROVE  Over(FrameKey(f))'
  <2>1. PICK t \in begun : FrameOf(t, f)
    BY <1>1, <1>2 DEF BusFramesBegun
  <2>2. Over(BusKey(t)) /\ FrameKey(f) = BusKey(t)
    BY <1>2, <2>1 DEF EndsAreLast, FrameOf
  <2>3. Over(BusKey(t))'
    BY <2>2, OverStays
  <2> QED BY <2>2, <2>3 DEF Over
<1>3. ASSUME NEW w, bus' = w,
             \A i \in DOMAIN w : w[i].tail.end =>
                 /\ \A f : f = w[i] => Over(FrameKey(f))'
                 /\ \A j \in DOMAIN w : j > i => same(w, i, j)
      PROVE  EndsAreLast'
  <2>1. \A i \in DOMAIN w : w[i].tail.end => Over(FrameKey(w[i]))'
    BY <1>3
  <2> QED BY <1>3, <2>1 DEF EndsAreLast, Over
<1>4. CASE bus' = bus
  <2>1. ASSUME NEW i \in DOMAIN bus, bus[i].tail.end
        PROVE  \A f : f = bus[i] => Over(FrameKey(f))'
    BY <1>2, <2>1
  <2> QED BY <1>3, <1>4, <2>1 DEF EndsAreLast
<1>5. CASE bus # << >> /\ bus' = Tail(bus)
  <2> DEFINE w == Tail(bus)
  <2>1. \A i \in DOMAIN w : i + 1 \in DOMAIN bus /\ w[i] = bus[i + 1] /\ i \in Nat
    BY <1>1, <1>5, TailIs
  <2> HIDE DEF w
  <2>2. ASSUME NEW i \in DOMAIN w, w[i].tail.end
        PROVE  \A f : f = w[i] => Over(FrameKey(f))'
    BY <1>2, <2>1, <2>2
  <2>3. ASSUME NEW i \in DOMAIN w, NEW j \in DOMAIN w, j > i, w[i].tail.end
        PROVE  same(w, i, j)
    <3>1. j + 1 > i + 1
      BY <2>1, <2>3
    <3> QED BY <2>1, <2>3, <3>1 DEF EndsAreLast
  <2> QED BY <1>3, <1>5, <2>2, <2>3 DEF w
<1>6. CASE bus # << >> /\ bus' = << Head(bus) >> \o bus
  <2> DEFINE w == << Head(bus) >> \o bus
  <2>1. /\ 1 \in DOMAIN bus
        /\ \A i \in DOMAIN w :
              /\ i \in Nat /\ i >= 1
              /\ i = 1 => w[i] = bus[1]
              /\ i > 1 => i - 1 \in DOMAIN bus /\ w[i] = bus[i - 1]
    BY <1>1, <1>6, RepeatIs, TailIs
  <2> HIDE DEF w
  <2>2. ASSUME NEW i \in DOMAIN w, w[i].tail.end
        PROVE  \A f : f = w[i] => Over(FrameKey(f))'
    BY <1>2, <2>1, <2>2
  <2>3. ASSUME NEW i \in DOMAIN w, NEW j \in DOMAIN w, j > i, w[i].tail.end
        PROVE  same(w, i, j)
    <3>1. j > 1 /\ j - 1 \in DOMAIN bus /\ w[j] = bus[j - 1]
      BY <2>1, <2>3
    <3>2. CASE i = 1
      <4>1. w[i] = bus[1] /\ (j - 1 = 1 \/ j - 1 > 1)
        BY <2>1, <2>3, <3>2
      <4> QED BY <2>1, <2>3, <3>1, <4>1 DEF EndsAreLast
    <3>3. CASE i > 1
      <4>1. i - 1 \in DOMAIN bus /\ w[i] = bus[i - 1] /\ j - 1 > i - 1
        BY <2>1, <2>3, <3>3
      <4> QED BY <2>3, <3>1, <4>1 DEF EndsAreLast
    <3> QED BY <2>1, <3>2, <3>3
  <2> QED BY <1>3, <1>6, <2>2, <2>3 DEF w
<1>7. ASSUME NEW l, FrameSent(l)
      PROVE  EndsAreLast'
  <2>1. PICK f : f = tx_result'.frame
    OBVIOUS
  <2> DEFINE w == Append(bus, f)
  <2>2. /\ ~ Over(FrameKey(f))
        /\ f.tail.end => Over(FrameKey(f))'
        /\ f \in CanFrame
    <3>1. PICK k : k = FrameKey(f)
      OBVIOUS
    <3>2. ~ Over(k) /\ (f.tail.end => Over(k)')
      BY <1>7, <2>1, <3>1, SentEnds
    <3> QED BY <1>7, <2>1, <3>1, <3>2, SentIs DEF Over
  <2>3. \A i \in DOMAIN w :
            /\ i \in Nat /\ i <= Len(bus) + 1
            /\ (i \in DOMAIN bus /\ w[i] = bus[i]) \/ (i = Len(bus) + 1 /\ w[i] = f)
    BY <1>1, <2>2, AppendIs
  <2>4. bus' = w /\ Len(bus) \in Nat /\ DOMAIN bus = 1 .. Len(bus)
    BY <1>1, <1>7, <2>1 DEF FrameSent
  <2> HIDE DEF w
  <2>5. ASSUME NEW i \in DOMAIN w, w[i].tail.end
        PROVE  \A g : g = w[i] => Over(FrameKey(g))'
    BY <1>2, <2>2, <2>3, <2>5
  <2>6. ASSUME NEW i \in DOMAIN w, NEW j \in DOMAIN w, j > i, w[i].tail.end
        PROVE  same(w, i, j)
    <3>1. i \in DOMAIN bus /\ w[i] = bus[i]
      BY <2>3, <2>4, <2>6
    <3>2. Over(FrameKey(w[i]))
      BY <2>6, <3>1 DEF EndsAreLast
    <3> QED BY <2>2, <2>3, <2>6, <3>1, <3>2 DEF EndsAreLast
  <2> QED BY <1>3, <2>4, <2>5, <2>6
<1> QED BY <1>4, <1>5, <1>6, <1>7, BusChanges

(* What was waiting on the bus, and what a frame that is sent cannot be,   *)
(* bounds what waits there after a step.                                   *)
LEMMA StillOnBus ==
    ASSUME LinkInv, EntriesDistinct, TxP!TxTypeOK', [Next]_link_vars,
           NEW k, Over(k), NEW i \in DOMAIN bus', FrameKey(bus'[i]) = k
    PROVE  \E j \in DOMAIN bus : bus'[i] = bus[j]
<1>1. bus \in Seq(CanFrame)
  BY DEF LinkInv, LinkTyped
<1>2. CASE bus # << >> /\ bus' = Tail(bus)
  <2>1. \A j \in DOMAIN Tail(bus) : j + 1 \in DOMAIN bus /\ Tail(bus)[j] = bus[j + 1]
    BY <1>1, <1>2, TailIs
  <2> QED BY <1>2, <2>1
<1>3. CASE bus # << >> /\ bus' = << Head(bus) >> \o bus
  <2> DEFINE w == << Head(bus) >> \o bus
  <2>1. /\ 1 \in DOMAIN bus
        /\ \A j \in DOMAIN w :
              /\ j \in Nat /\ j >= 1
              /\ j = 1 => w[j] = bus[1]
              /\ j > 1 => j - 1 \in DOMAIN bus /\ w[j] = bus[j - 1]
    BY <1>1, <1>3, RepeatIs, TailIs
  <2> HIDE DEF w
  <2>2. \A j \in DOMAIN w : \E x \in DOMAIN bus : w[j] = bus[x]
    BY <2>1
  <2> QED BY <1>3, <2>2 DEF w
<1>4. ASSUME NEW l, FrameSent(l)
      PROVE  \E j \in DOMAIN bus : bus'[i] = bus[j]
  <2>1. PICK f : f = tx_result'.frame
    OBVIOUS
  <2>2. FrameKey(f) # k
    BY <1>4, <2>1, SentEnds
  <2>3. bus' = Append(bus, f) /\ f \in CanFrame
    BY <1>4, <2>1, SentIs DEF FrameSent
  <2>4. (i \in DOMAIN bus /\ bus'[i] = bus[i]) \/ bus'[i] = f
    BY <1>1, <2>3, AppendIs
  <2> QED BY <2>2, <2>4
<1> QED BY <1>2, <1>3, <1>4, BusChanges

(* A frame with the toggle of its entry changes nothing and gives nothing; *)
(* one that gives a token leaves its toggle there.                         *)
LEMMA ToggleTells ==
    ASSUME NEW f, NEW k, NEW e, Received(f, k, e)
    PROVE  /\ RxIsActive(k)
              /\ f.tail.toggle = rx_transfers[k].transport_metadata.toggle_bit =>
                 /\ e.transport_metadata = rx_transfers[k].transport_metadata
                 /\ rx_result'.kind # "Token"
           /\ rx_result'.kind = "Token" =>
                 e.transport_metadata.toggle_bit = f.tail.toggle
<1> DEFINE old == rx_transfers[k]
<1>1. CASE RxIsActive(k) /\ RefusedFrame(f, old, e)
  BY <1>1, UpdateIs DEF RefusedFrame
<1>2. CASE RxIsActive(k) /\ AppendedFrame(f, old, e)
  <2>1. /\ UpdateOf(f, old.transport_metadata).error = "Ok"
        /\ e.transport_metadata = UpdateOf(f, old.transport_metadata).metadata
    BY <1>2 DEF AppendedFrame
  <2>2. PICK m : m = old.transport_metadata
    OBVIOUS
  <2>3. f.tail.toggle # m.toggle_bit /\ UpdateOf(f, m).metadata.toggle_bit = f.tail.toggle
    BY <2>1, <2>2, UpdateOkIs
  <2> QED BY <2>1, <2>2, <2>3
<1>3. CASE k \notin DOMAIN rx_transfers /\ FirstFrame(f, e)
  <2>1. /\ UpdateOf(f, RxMetadataDefault).error = "Ok"
        /\ e.transport_metadata = UpdateOf(f, RxMetadataDefault).metadata
    BY <1>3 DEF FirstFrame
  <2>2. PICK m : m = RxMetadataDefault
    OBVIOUS
  <2>3. UpdateOf(f, m).metadata.toggle_bit = f.tail.toggle
    BY <2>1, <2>2, UpdateOkIs
  <2>4. ~ RxIsActive(k)
    BY <1>3 DEF RxIsActive
  <2> QED BY <2>1, <2>2, <2>3, <2>4
<1> QED BY <1>1, <1>2, <1>3 DEF Received

LEMMA GivenChanges ==
    ASSUME [Next]_link_vars
    PROVE  \/ given' = given
           \/ /\ Deliver /\ rx_result'.kind = "Token"
              /\ given' = [given EXCEPT ![rx_result'.token] = @ + 1]
<1>1. ASSUME NEW k \in Tx!TxKeys, Transmit(k) \/ CancelTx(k) PROVE given' = given
  BY <1>1 DEF Transmit, CancelTx, link_part
<1>2. ASSUME NEW k \in Rx!RxKeys, Read(k) \/ CancelRx(k) PROVE given' = given
  BY <1>2 DEF Read, CancelRx, link_part
<1>3. CASE Start \/ UpdateTx \/ Tick \/ UpdateRx \/ Lose \/ Duplicate
  BY <1>3 DEF Start, UpdateTx, Tick, UpdateRx, Lose, Duplicate, link_part
<1>4. CASE Deliver
  BY <1>4 DEF Deliver
<1>5. CASE UNCHANGED link_vars
  BY <1>5 DEF link_vars, link_part
<1> QED BY <1>1, <1>2, <1>3, <1>4, <1>5 DEF Next

(* An application that does not cancel keeps its entries.                  *)
LEMMA EntryStays ==
    ASSUME RxStep, ~ scenario.receiver_cancels, NEW k, k \in DOMAIN rx_transfers
    PROVE  k \in DOMAIN rx_transfers'
BY DEF RxStep, Received, Rx!UpdateRxTransfers

LEMMA GivenStay ==
    ASSUME LinkInv, PlanDistinct, EntriesDistinct, EndsAreLast, GivenStays,
           ~ scenario.receiver_cancels,
           TxP!TxTypeOK', TxP!NoPanic', [Next]_link_vars
    PROVE  GivenStays'
<1> DEFINE Held(k) ==
              RxIsActive(k)' => \A i \in DOMAIN bus' :
                  FrameKey(bus'[i]) = k =>
                      bus'[i].tail.toggle = rx_transfers'[k].transport_metadata.toggle_bit
<1>1. /\ begun \subseteq begun' /\ DOMAIN given' = DOMAIN given
      /\ RxStep /\ LinkTyped /\ bus \in Seq(CanFrame)
  BY PlanKept, GivenChanges, RxSteps DEF LinkInv, LinkTyped
<1>2. SUFFICES ASSUME NEW k \in DOMAIN given
               PROVE  /\ given'[k] \in {0, 1}
                      /\ given'[k] = 1 =>
                            /\ \E t \in begun' : BusKey(t) = k
                            /\ Over(k)'
                            /\ k \in DOMAIN rx_transfers'
                            /\ Held(k)
  BY <1>1 DEF GivenStays, FrameKey, BusKey
<1>3. ASSUME given[k] = 1
      PROVE  /\ \E t \in begun' : BusKey(t) = k
             /\ Over(k)' /\ k \in DOMAIN rx_transfers' /\ Held(k)
  <2>1. PICK t \in begun : BusKey(t) = k
    BY <1>3 DEF GivenStays
  <2>2. Over(k) /\ k \in DOMAIN rx_transfers
    BY <1>3 DEF GivenStays
  <2>3. Over(k)'
    BY <2>1, <2>2, OverStays
  <2>4. k \in DOMAIN rx_transfers'
    BY <1>1, <2>2, EntryStays
  <2>5. ASSUME RxIsActive(k)', NEW i \in DOMAIN bus', FrameKey(bus'[i]) = k
        PROVE  bus'[i].tail.toggle = rx_transfers'[k].transport_metadata.toggle_bit
    <3>1. PICK j \in DOMAIN bus : bus'[i] = bus[j]
      BY <2>2, <2>5, StillOnBus
    <3>2. CASE RxIsActive(k) /\ rx_transfers'[k] = rx_transfers[k]
      BY <1>3, <2>5, <3>1, <3>2 DEF GivenStays
    <3>3. CASE Deliver /\ k = FrameKey(Head(bus)) /\ Received(Head(bus), k, rx_transfers'[k])
      <4>1. RxIsActive(k)
        BY <2>2, <3>3 DEF Received
      <4>2. 1 \in DOMAIN bus /\ Head(bus) = bus[1]
        BY <1>1, <3>3, TailIs DEF Deliver
      <4>3. Head(bus).tail.toggle = rx_transfers[k].transport_metadata.toggle_bit
        BY <1>3, <3>3, <4>1, <4>2 DEF GivenStays
      <4>4. rx_transfers'[k].transport_metadata = rx_transfers[k].transport_metadata
        BY <3>3, <4>1, <4>3, ToggleTells
      <4> QED BY <1>3, <2>5, <3>1, <4>1, <4>4 DEF GivenStays
    <3> QED BY <1>1, <2>5, <3>2, <3>3, RxOrigin
  <2> QED BY <1>1, <2>1, <2>3, <2>4, <2>5
<1>4. CASE given'[k] = given[k]
  BY <1>3, <1>4 DEF GivenStays
<1>5. CASE /\ Deliver /\ rx_result'.kind = "Token" /\ rx_result'.token = k
           /\ given'[k] = given[k] + 1
  <2> DEFINE f == Head(bus)
  <2>1. /\ f \in CanFrame /\ now \in Nat /\ RxTyped
        /\ Rx!ReceiveFrame(f) /\ bus # << >> /\ bus' = Tail(bus)
    BY <1>5, Delivered DEF LinkInv, Deliver
  <2>2. /\ 1 \in DOMAIN bus /\ f = bus[1]
        /\ \A i \in DOMAIN Tail(bus) : i + 1 \in DOMAIN bus /\ Tail(bus)[i] = bus[i + 1]
                                       /\ i + 1 > 1
    <3>1. \A i \in DOMAIN Tail(bus) : i \in Nat /\ i >= 1
      BY <1>1, <2>1
    <3> QED BY <1>1, <2>1, <3>1, TailIs
  <2> HIDE DEF f
  <2>3. PICK e : Received(f, FrameKey(f), e)
    BY <1>5, <2>1, ReceiveIs
  <2>4. FrameKey(f) = k /\ f.tail.end /\ Received(f, k, e) /\ rx_transfers'[k] = e
    BY <1>5, <2>3 DEF Received, RefusedFrame, AppendedFrame, FirstFrame, GivesToken
  <2>5. given[k] # 1
    <3>1. SUFFICES ASSUME given[k] = 1 PROVE FALSE
      OBVIOUS
    <3>2. RxIsActive(k)
      BY <2>4, <3>1 DEF Received, GivenStays
    <3>3. f.tail.toggle = rx_transfers[k].transport_metadata.toggle_bit
      BY <2>2, <2>4, <3>1, <3>2 DEF GivenStays
    <3> QED BY <1>5, <2>4, <3>2, <3>3, ToggleTells
  <2>6. given'[k] = 1
    BY <1>5, <2>5 DEF GivenStays
  <2>7. PICK t \in begun : FrameOf(t, f)
    BY <2>2 DEF LinkInv, BusFramesBegun
  <2>8. BusKey(t) = k /\ t \in begun'
    BY <1>1, <2>4, <2>7 DEF FrameOf
  <2>9. Over(k)'
    <3>1. Over(k)
      BY <2>2, <2>4 DEF EndsAreLast
    <3> QED BY <2>8, <3>1, OverStays
  <2>10. k \in DOMAIN rx_transfers' /\ e.transport_metadata.toggle_bit = f.tail.toggle
    <3>1. k \in DOMAIN rx_transfers'
      BY <2>4 DEF Received
    <3> QED BY <1>5, <2>4, <3>1, ToggleTells
  <2>11. Held(k)
    BY <2>1, <2>2, <2>4, <2>10 DEF EndsAreLast
  <2> QED BY <2>6, <2>8, <2>9, <2>10, <2>11
<1>6. \/ given'[k] = given[k]
      \/ /\ Deliver /\ rx_result'.kind = "Token" /\ rx_result'.token = k
         /\ given'[k] = given[k] + 1
  BY GivenChanges
<1> QED BY <1>4, <1>5, <1>6

LEMMA OnceKept ==
    ASSUME OnceInv, [Next]_link_vars PROVE OnceInv'
<1>1. LinkInv /\ LinkInv' /\ scenario' = scenario
  BY LinkKept, PlanKept DEF OnceInv, LinkInv
<1>2. LinkTyped /\ TxP!TxTypeOK' /\ TxP!NoPanic'
  BY <1>1 DEF LinkInv
<1> SUFFICES ASSUME IdsUsedOnce', ~ scenario'.receiver_cancels
             PROVE  PlanDistinct' /\ EntriesDistinct' /\ EndsAreLast' /\ GivenStays'
  BY <1>1 DEF OnceInv
<1>3. IdsUsedOnce /\ ~ scenario.receiver_cancels
  BY <1>1 DEF IdsUsedOnce, BusKey
<1>4. PlanDistinct /\ EntriesDistinct /\ EndsAreLast /\ GivenStays
  BY <1>3 DEF OnceInv
<1> QED BY <1>1, <1>2, <1>3, <1>4, PlanStaysDistinct, EntriesStayDistinct, EndsStayLast,
           GivenStay

LEMMA OnceInit == Init => OnceInv
<1> SUFFICES ASSUME Init, IdsUsedOnce
             PROVE  PlanDistinct /\ EntriesDistinct /\ EndsAreLast /\ GivenStays
  BY LinkInit DEF OnceInv
<1>1. /\ plan = scenario.sends /\ bus = << >> /\ begun = {}
      /\ given = [k \in Rx!RxKeys |-> 0]
  BY DEF Init
<1>2. PlanDistinct
  BY <1>1 DEF PlanDistinct, IdsUsedOnce, IsInjective
<1>3. EntriesDistinct
  BY TxInit DEF Init, EntriesDistinct, TxP!Init, TxP!EmptyMap
<1>4. EndsAreLast
  BY <1>1 DEF EndsAreLast
<1>5. GivenStays
  BY <1>1 DEF GivenStays
<1> QED BY <1>2, <1>3, <1>4, <1>5

(* However many frames the bus loses and repeats, whichever transfers the  *)
(* sender cancels or lets time out, in every scenario in which an id is    *)
(* used once and the receiving application reads what it gets, no transfer *)
(* is given a token for twice.  What stops a repeated last frame is the    *)
(* toggle that update_rx_metadata leaves in the entry of the transfer,     *)
(* which with_rx_transfer and update_transfers do not take out of the map; *)
(* what makes it enough is that the last frame is the last that comes.     *)
THEOREM NothingIsGivenTwice == Spec => []AtMostOnce
<1>1. Init => OnceInv
  BY OnceInit
<1>2. OnceInv /\ [Next]_link_vars => OnceInv'
  BY OnceKept
<1>3. OnceInv => AtMostOnce
  BY DEF OnceInv, GivenStays, AtMostOnce
<1> QED BY <1>1, <1>2, <1>3, PTL DEF Spec
===============================================================================
