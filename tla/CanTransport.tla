---------------------------- MODULE CanTransport -----------------------------
(***************************************************************************)
(* The classic CAN transport (transport/can/legacy.rs, bitfields.rs): how  *)
(* a transfer is cut into frames, and what a received frame means.  All of *)
(* it is pure: the operators take and return values.                       *)
(*                                                                         *)
(* A byte is known by where it came from: byte `at` of a payload, or one   *)
(* half of the CRC of the first `at` bytes of a payload.  The CRC is ideal *)
(* (two different payloads never share one).                               *)
(***************************************************************************)
EXTENDS Transfers

CONSTANTS
    Data,        \* payload contents an application may send
    MTU_SIZE,    \* 8 in the code: bytes of a frame, tail byte included
    CRC_SIZE     \* 2 in the code

ASSUME CanAssumption ==
    /\ None \notin Data
    /\ MTU_SIZE \in Nat /\ MTU_SIZE > CRC_SIZE
    /\ CRC_SIZE = 2

(* The constant 7 of the code: payload bytes that fit beside a tail byte. *)
FrameCapacity == MTU_SIZE - 1

Byte == [of : Data \cup {None}, part : {"data", "crc_hi", "crc_lo"}, at : Nat]

(* A frame without a CRC is not one with a CRC (FrameMetadata::crc_val). *)
ASSUME NoCrcAssumption == None \notin Seq(Byte)

ZeroByte == [of |-> None, part |-> "data", at |-> 0]
Written(d, n) == [i \in 1 .. n |-> [of |-> d, part |-> "data", at |-> i]]

IsWritten(s) == Len(s) > 0 /\ s[1].of \in Data /\ s = Written(s[1].of, Len(s))

(* CRC-16/CCITT-FALSE of a sequence of bytes, most significant byte first. *)
Crc(s) ==
    LET d == IF IsWritten(s) THEN s[1].of ELSE None
        n == IF IsWritten(s) THEN Len(s) ELSE 0
    IN  << [of |-> d, part |-> "crc_hi", at |-> n],
           [of |-> d, part |-> "crc_lo", at |-> n] >>

-----------------------------------------------------------------------------
(* Identifiers and tail bytes; the setters keep the bits of their field. *)

SubjectIdField == 0 .. 8191
ServiceIdField == 0 .. 511
NodeIdField == 0 .. 127
TransferIdField == 0 .. 31

TailByte ==
    [start : BOOLEAN, end : BOOLEAN, toggle : BOOLEAN, transfer_id : TransferIdField]

(* No tail byte at all is not one (TailByte in rx_process_frame). *)
ASSUME NoTailAssumption == None \notin TailByte

(* Faulty: the transfer id is not masked. *)
TailByteNewUnmasked(start, end, toggle, transfer_id) ==
    [start |-> start, end |-> end, toggle |-> toggle, transfer_id |-> transfer_id]

TailByteNew(start, end, toggle, transfer_id) ==
    [start |-> start, end |-> end, toggle |-> toggle, transfer_id |-> transfer_id % 32]

(* `rsvd` says that a reserved bit checked by valid() is set. *)
CanMessageId ==
    [svc : {FALSE}, priority : Priority, anon : BOOLEAN, subject_id : SubjectIdField,
     source_id : NodeIdField, rsvd : BOOLEAN]

CanServiceId ==
    [svc : {TRUE}, priority : Priority, req : BOOLEAN, service_id : ServiceIdField,
     destination_id : NodeIdField, source_id : NodeIdField, rsvd : BOOLEAN]

CanMessageIdNew(priority, subject_id, source_id) ==
    [svc |-> FALSE, priority |-> priority, anon |-> source_id = None,
     subject_id |-> subject_id % 8192,
     source_id |-> IF source_id = None THEN 4 ELSE source_id % 128,
     rsvd |-> FALSE]

CanServiceIdNew(priority, is_request, service_id, destination, source) ==
    [svc |-> TRUE, priority |-> priority, req |-> is_request,
     service_id |-> service_id % 512,
     destination_id |-> destination % 128, source_id |-> source % 128,
     rsvd |-> FALSE]

(* A frame with no tail byte is an empty frame. *)
CanFrame ==
    [id : CanMessageId \cup CanServiceId, data : Seq(Byte), tail : TailByte \cup {None}]

FrameLen(frame) == IF frame.tail = None THEN 0 ELSE Len(frame.data) + 1

-----------------------------------------------------------------------------
(* Reception. *)

(* The frame closes a transfer it did not open: its data ends with the CRC. *)
ClosesMultiFrame(frame) == ~ frame.tail.start /\ frame.tail.end

(* The checks of rx_process_frame, in the order in which they are made. *)
RxProcessError(frame) ==
    IF frame.tail = None THEN "FrameEmpty"
    ELSE IF ClosesMultiFrame(frame) /\ FrameLen(frame) < CRC_SIZE + 1
         THEN "InvalidPayload"
    ELSE IF frame.tail.start /\ ~ frame.tail.toggle
         THEN "TransferStartMissingToggle"
    ELSE IF ~ frame.tail.end /\ FrameLen(frame) < MTU_SIZE
         THEN "NonLastUnderUtilization"
    ELSE IF ~ frame.id.svc /\ frame.id.anon /\ ~ (frame.tail.start /\ frame.tail.end)
         THEN "AnonNotSingleFrame"
    ELSE IF frame.id.rsvd THEN "InvalidCanId"
    ELSE "Ok"

(* Faulty: requests and responses are exchanged. *)
RxMetadataOfExchanged(id, transfer_id, timestamp) ==
    [timestamp |-> timestamp,
     priority |-> id.priority,
     transfer_kind |-> IF ~ id.svc THEN "Message"
                       ELSE IF id.req THEN "Response" ELSE "Request",
     port_id |-> IF id.svc THEN id.service_id ELSE id.subject_id,
     source_node_id |-> id.source_id,
     destination_node_id |-> IF id.svc THEN id.destination_id ELSE None,
     transfer_id |-> transfer_id]

RxMetadataOf(id, transfer_id, timestamp) ==
    [timestamp |-> timestamp,
     priority |-> id.priority,
     transfer_kind |-> IF ~ id.svc THEN "Message"
                       ELSE IF id.req THEN "Request" ELSE "Response",
     port_id |-> IF id.svc THEN id.service_id ELSE id.subject_id,
     source_node_id |-> id.source_id,
     destination_node_id |-> IF id.svc THEN id.destination_id ELSE None,
     transfer_id |-> transfer_id]

(* The transfer::Frame that rx_process_frame makes of a correct frame. *)
RxTransferFrame(frame, timestamp) ==
    [metadata |-> RxMetadataOf(frame.id, frame.tail.transfer_id, timestamp),
     payload |-> IF ClosesMultiFrame(frame)
                 THEN SubSeq(frame.data, 1, Len(frame.data) - CRC_SIZE)
                 ELSE frame.data,
     first_frame |-> frame.tail.start,
     last_frame |-> frame.tail.end]

(* legacy.rs FrameMetadata of the same frame. *)
RxFrameMetadata(frame) ==
    [toggle_bit |-> frame.tail.toggle,
     crc_val |-> IF ClosesMultiFrame(frame)
                 THEN SubSeq(frame.data, Len(frame.data) - CRC_SIZE + 1, Len(frame.data))
                 ELSE None]

(* The running CRC is represented by the bytes it has digested. *)
RxMetadata == [crc : Seq(Byte), toggle_bit : BOOLEAN]

(* Faulty: the toggle is not inverted for the first frame. *)
RxMetadataDefaultToggled == [crc |-> << >>, toggle_bit |-> TRUE]

RxMetadataDefault == [crc |-> << >>, toggle_bit |-> FALSE]

(* Faulty: the order of the frames is not checked. *)
UpdateRxMetadataNoToggle(metadata, frame_metadata, frame) ==
    LET crc == IF frame.first_frame /\ frame.last_frame
               THEN metadata.crc
               ELSE metadata.crc \o frame.payload
    IN  [metadata |-> [crc |-> crc, toggle_bit |-> frame_metadata.toggle_bit],
         error |-> IF frame_metadata.crc_val \in {None, Crc(crc)} THEN "Ok" ELSE "CrcError"]

(* Faulty: the CRC is not checked. *)
UpdateRxMetadataNoCrc(metadata, frame_metadata, frame) ==
    [metadata |-> [metadata EXCEPT !.toggle_bit = frame_metadata.toggle_bit],
     error |-> IF frame_metadata.toggle_bit = metadata.toggle_bit
               THEN "InvalidFrameOrdering" ELSE "Ok"]

(* A CRC error is found after the metadata have been updated. *)
UpdateRxMetadata(metadata, frame_metadata, frame) ==
    LET crc == IF frame.first_frame /\ frame.last_frame
               THEN metadata.crc
               ELSE metadata.crc \o frame.payload
    IN  IF frame_metadata.toggle_bit = metadata.toggle_bit
        THEN [metadata |-> metadata, error |-> "InvalidFrameOrdering"]
        ELSE [metadata |-> [crc |-> crc, toggle_bit |-> frame_metadata.toggle_bit],
              error |-> IF frame_metadata.crc_val \in {None, Crc(crc)}
                        THEN "Ok" ELSE "CrcError"]

-----------------------------------------------------------------------------
(* Transmission. *)

(* Faulty: no room is made for the CRC. *)
GetCrcPaddedSizeWithoutCrc(requested_size) == requested_size

GetCrcPaddedSize(requested_size) == requested_size + CRC_SIZE

(* Writing the CRC behind `data_size` bytes indexes beyond the buffer. *)
CrcOverruns(buffer, data_size) ==
    data_size > FrameCapacity /\ data_size + CRC_SIZE > Len(buffer)

(* Faulty: a full single frame gets a CRC. *)
ProcessTxCrcFullFrame(buffer, data_size) ==
    LET payload == SubSeq(buffer, 1, data_size)
    IN  IF data_size < FrameCapacity THEN payload ELSE payload \o Crc(payload)

(* Faulty: the CRC is written least significant byte first. *)
ProcessTxCrcSwapped(buffer, data_size) ==
    LET payload == SubSeq(buffer, 1, data_size)
    IN  IF data_size <= FrameCapacity THEN payload
        ELSE payload \o << Crc(payload)[2], Crc(payload)[1] >>

(* The buffer cut to the length process_tx_crc returns. *)
ProcessTxCrc(buffer, data_size) ==
    LET payload == SubSeq(buffer, 1, data_size)
    IN  IF data_size <= FrameCapacity THEN payload ELSE payload \o Crc(payload)

TxMetadata == [first_frame : BOOLEAN, toggle_bit : BOOLEAN]
TxMetadataDefault == [first_frame |-> TRUE, toggle_bit |-> TRUE]

(* Faulty: every frame is taken for the first. *)
TxMetadataNextFirst(metadata) == [metadata EXCEPT !.toggle_bit = ~ @]

(* transmit_frame changes the metadata before it can fail. *)
TxMetadataNext(metadata) ==
    [first_frame |-> FALSE, toggle_bit |-> ~ metadata.toggle_bit]

IsLastFrame(data) == Len(data) <= FrameCapacity

(* Faulty: the bytes of a full frame are not counted. *)
ConsumeLenOfLast(data) == IF IsLastFrame(data) THEN Len(data) ELSE 0

ConsumeLen(data) == IF IsLastFrame(data) THEN Len(data) ELSE FrameCapacity

(* Faulty: an anonymous node is refused the last frame, not the others. *)
TxFrameErrorInverted(metadata, data, node_id) ==
    IF metadata.transfer_kind = "Message"
    THEN IF IsLastFrame(data) /\ node_id = None THEN "AnonNotSingleFrame" ELSE "Ok"
    ELSE IF node_id = None THEN "ServiceNoSourceID" ELSE "Ok"

TxFrameError(metadata, data, node_id) ==
    IF metadata.transfer_kind = "Message"
    THEN IF ~ IsLastFrame(data) /\ node_id = None THEN "AnonNotSingleFrame" ELSE "Ok"
    ELSE IF node_id = None THEN "ServiceNoSourceID"
    ELSE IF metadata.destination_node_id = None THEN "ServiceNoDestinationID"
    ELSE "Ok"

TxCanId(metadata, node_id) ==
    IF metadata.transfer_kind = "Message"
    THEN CanMessageIdNew(metadata.priority, metadata.port_id, node_id)
    ELSE CanServiceIdNew(metadata.priority, metadata.transfer_kind = "Request",
                         metadata.port_id, metadata.destination_node_id, node_id)

TxFrame(metadata, transport_metadata, data, node_id) ==
    [id |-> TxCanId(metadata, node_id),
     data |-> SubSeq(data, 1, ConsumeLen(data)),
     tail |-> TailByteNew(transport_metadata.first_frame, IsLastFrame(data),
                          transport_metadata.toggle_bit, metadata.transfer_id)]
==============================================================================
