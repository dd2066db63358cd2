------------------------- MODULE CanTransportProofs --------------------------
(***************************************************************************)
(* Lemmas about the operators of the transport, on which the proofs about  *)
(* both halves of a node rest: the types of frames, metadata and payloads. *)
(***************************************************************************)
EXTENDS CanTransport, TLAPS, SequenceTheorems

(* A map without one of its keys. *)
LEMMA RemoveIs ==
    ASSUME NEW map, NEW k
    PROVE  Remove(map, k) = [x \in DOMAIN map \ {k} |-> map[x]]
BY DEF Remove, Restrict

(* A part of a sequence is a sequence over the same elements. *)
LEMMA SubSeqType ==
    ASSUME NEW S, NEW s \in Seq(S), NEW m \in Nat \ {0}, NEW n \in Nat, n <= Len(s)
    PROVE  /\ SubSeq(s, m, n) \in Seq(S)
           /\ Len(SubSeq(s, m, n)) = IF m <= n THEN n - m + 1 ELSE 0
<1>1. CASE m <= n
  <2>1. m .. n \subseteq DOMAIN s
    BY <1>1
  <2> QED BY <1>1, <2>1
<1>2. CASE ~ (m <= n)
  BY <1>2
<1> QED BY <1>1, <1>2

(* The CRC of any bytes is two bytes. *)
LEMMA CrcType ==
    ASSUME NEW s \in Seq(Byte)
    PROVE  Crc(s) \in Seq(Byte) /\ Len(Crc(s)) = 2
<1> DEFINE d == IF IsWritten(s) THEN s[1].of ELSE None
           n == IF IsWritten(s) THEN Len(s) ELSE 0
<1>1. d \in Data \cup {None} /\ n \in Nat
  BY DEF IsWritten
<1>2. /\ [of |-> d, part |-> "crc_hi", at |-> n] \in Byte
      /\ [of |-> d, part |-> "crc_lo", at |-> n] \in Byte
  BY <1>1 DEF Byte
<1> QED BY <1>2 DEF Crc

(* What the setters of the identifiers and tail bytes keep. *)
LEMMA SubjectIdMasked == ASSUME NEW n \in Nat PROVE n % 8192 \in SubjectIdField
BY DEF SubjectIdField

LEMMA ServiceIdMasked == ASSUME NEW n \in Nat PROVE n % 512 \in ServiceIdField
BY DEF ServiceIdField

LEMMA NodeIdMasked == ASSUME NEW n \in Nat PROVE n % 128 \in NodeIdField
BY DEF NodeIdField

LEMMA TransferIdMasked == ASSUME NEW n \in Nat PROVE n % 32 \in TransferIdField
BY DEF TransferIdField

LEMMA IdsAreNumbers == NodeId \subseteq Nat /\ PortId \subseteq Nat /\ TransferId \subseteq Nat
BY DEF NodeId, PortId, TransferId

(* The identifiers that new() makes fit their fields. *)
LEMMA MessageIdType ==
    ASSUME NEW priority \in Priority, NEW subject \in Nat, NEW source \in Nat \cup {None}
    PROVE  CanMessageIdNew(priority, subject, source) \in CanMessageId
<1>1. subject % 8192 \in SubjectIdField
  BY SubjectIdMasked
<1>2. (IF source = None THEN 4 ELSE source % 128) \in NodeIdField
  <2>1. CASE source = None
    BY <2>1 DEF NodeIdField
  <2>2. CASE source # None
    BY <2>2, NodeIdMasked
  <2> QED BY <2>1, <2>2
<1> QED BY <1>1, <1>2 DEF CanMessageIdNew, CanMessageId

LEMMA ServiceIdType ==
    ASSUME NEW priority \in Priority, NEW is_request \in BOOLEAN, NEW service \in Nat,
           NEW destination \in Nat, NEW source \in Nat
    PROVE  CanServiceIdNew(priority, is_request, service, destination, source)
               \in CanServiceId
<1>1. service % 512 \in ServiceIdField
  BY ServiceIdMasked
<1>2. destination % 128 \in NodeIdField /\ source % 128 \in NodeIdField
  BY NodeIdMasked
<1> QED BY <1>1, <1>2 DEF CanServiceIdNew, CanServiceId

(* The identifier of a frame fits its fields when transmit_frame has found *)
(* the node ids it needs.                                                  *)
LEMMA CanIdType ==
    ASSUME NEW metadata \in TransferMetadata, NEW node \in NodeId \cup {None},
           metadata.transfer_kind # "Message" =>
               node # None /\ metadata.destination_node_id # None
    PROVE  TxCanId(metadata, node) \in CanMessageId \cup CanServiceId
<1>1. /\ metadata.priority \in Priority
      /\ metadata.port_id \in PortId
      /\ metadata.destination_node_id \in NodeId \cup {None}
  BY DEF TransferMetadata
<1>2. /\ metadata.port_id \in Nat
      /\ metadata.destination_node_id \in Nat \cup {None}
      /\ node \in Nat \cup {None}
  BY <1>1, IdsAreNumbers
<1>3. CASE metadata.transfer_kind = "Message"
  BY <1>1, <1>2, <1>3, MessageIdType DEF TxCanId
<1>4. CASE metadata.transfer_kind # "Message"
  <2>1. metadata.destination_node_id \in Nat /\ node \in Nat
    BY <1>2, <1>4
  <2>2. (metadata.transfer_kind = "Request") \in BOOLEAN
    OBVIOUS
  <2> QED BY <1>1, <1>2, <1>4, <2>1, <2>2, ServiceIdType DEF TxCanId
<1> QED BY <1>3, <1>4

LEMMA TailByteType ==
    ASSUME NEW start \in BOOLEAN, NEW end \in BOOLEAN, NEW toggle \in BOOLEAN,
           NEW transfer_id \in TransferId
    PROVE  TailByteNew(start, end, toggle, transfer_id) \in TailByte
<1>1. transfer_id % 32 \in TransferIdField
  BY TransferIdMasked, IdsAreNumbers
<1> QED BY <1>1 DEF TailByteNew, TailByte

(* A frame that transmit_frame makes without an error is a CAN frame: its  *)
(* identifier and tail byte fit their fields.                              *)
LEMMA FrameType ==
    ASSUME NEW metadata \in TransferMetadata, NEW transport \in TxMetadata,
           NEW data \in Seq(Byte), NEW node \in NodeId \cup {None},
           TxFrameError(metadata, data, node) = "Ok"
    PROVE  TxFrame(metadata, transport, data, node) \in CanFrame
<1>1. TxCanId(metadata, node) \in CanMessageId \cup CanServiceId
  <2>1. metadata.transfer_kind # "Message" =>
            node # None /\ metadata.destination_node_id # None
    BY DEF TxFrameError
  <2> QED BY <2>1, CanIdType
<1>2. TailByteNew(transport.first_frame, IsLastFrame(data), transport.toggle_bit,
                  metadata.transfer_id) \in TailByte
  <2>1. metadata.transfer_id \in TransferId
    BY DEF TransferMetadata
  <2>2. IsLastFrame(data) \in BOOLEAN
    BY DEF IsLastFrame
  <2>3. transport.first_frame \in BOOLEAN /\ transport.toggle_bit \in BOOLEAN
    BY DEF TxMetadata
  <2> QED BY <2>1, <2>2, <2>3, TailByteType
<1>3. SubSeq(data, 1, ConsumeLen(data)) \in Seq(Byte)
  <2>1. ConsumeLen(data) \in Nat /\ ConsumeLen(data) <= Len(data)
    BY CanAssumption DEF ConsumeLen, IsLastFrame, FrameCapacity
  <2> QED BY <2>1, SubSeqType
<1> QED BY <1>1, <1>2, <1>3 DEF TxFrame, CanFrame

-----------------------------------------------------------------------------
(* Reception. *)

(* The fields of a CAN identifier and a tail byte fit the types they are   *)
(* cast to.                                                                *)
LEMMA FieldsFitTypes ==
    /\ \A n \in SubjectIdField : n \in PortId
    /\ \A n \in ServiceIdField : n \in PortId
    /\ \A n \in NodeIdField : n \in NodeId
    /\ \A n \in TransferIdField : n \in TransferId
<1>1. ASSUME NEW n \in SubjectIdField PROVE n \in PortId
  BY SMTT(30) DEF SubjectIdField, PortId
<1>2. ASSUME NEW n \in ServiceIdField PROVE n \in PortId
  BY SMTT(30) DEF ServiceIdField, PortId
<1>3. ASSUME NEW n \in NodeIdField PROVE n \in NodeId
  BY DEF NodeIdField, NodeId
<1>4. ASSUME NEW n \in TransferIdField PROVE n \in TransferId
  BY DEF TransferIdField, TransferId
<1> QED BY <1>1, <1>2, <1>3, <1>4, SMTT(30)

(* The metadata of a received frame are of the type all transfer managers  *)
(* work with, and hash to a token that does not depend on the time.        *)
LEMMA RxMetadataOfType ==
    ASSUME NEW can_id \in CanMessageId \cup CanServiceId,
           NEW transfer_id \in TransferIdField, NEW time \in Timestamp
    PROVE  /\ RxMetadataOf(can_id, transfer_id, time) \in TransferMetadata
           /\ HashMetadata(RxMetadataOf(can_id, transfer_id, time)) =
                 HashMetadata(RxMetadataOf(can_id, transfer_id, 0))
<1>1. RxMetadataOf(can_id, transfer_id, time) \in TransferMetadata
  <2>1. CASE can_id \in CanMessageId
    BY <2>1, FieldsFitTypes DEF CanMessageId, RxMetadataOf, TransferMetadata, TransferKind
  <2>2. CASE can_id \in CanServiceId
    BY <2>2, FieldsFitTypes DEF CanServiceId, RxMetadataOf, TransferMetadata, TransferKind
  <2> QED BY <2>1, <2>2
<1> QED BY <1>1 DEF RxMetadataOf, HashMetadata

(* A correct frame has the bytes that are cut off it: the length check of  *)
(* rx_process_frame keeps the subtraction of CRC_SIZE from underflowing.   *)
LEMMA RxFrameType ==
    ASSUME NEW frame \in CanFrame, RxProcessError(frame) = "Ok", NEW time \in Timestamp
    PROVE  /\ frame.tail \in TailByte
           /\ RxTransferFrame(frame, time).metadata =
                 RxMetadataOf(frame.id, frame.tail.transfer_id, time)
           /\ RxTransferFrame(frame, time).metadata \in TransferMetadata
           /\ RxTransferFrame(frame, time).payload \in Seq(Byte)
           /\ RxTransferFrame(frame, time).first_frame = frame.tail.start
           /\ RxTransferFrame(frame, time).last_frame = frame.tail.end
           /\ RxFrameMetadata(frame).toggle_bit = frame.tail.toggle
<1>1. frame.tail \in TailByte /\ frame.data \in Seq(Byte)
  BY DEF RxProcessError, CanFrame
<1>2. frame.tail.transfer_id \in TransferIdField
  BY <1>1 DEF TailByte
<1>3. RxMetadataOf(frame.id, frame.tail.transfer_id, time) \in TransferMetadata
  BY <1>2, RxMetadataOfType DEF CanFrame
<1>4. ClosesMultiFrame(frame) =>
          SubSeq(frame.data, 1, Len(frame.data) - CRC_SIZE) \in Seq(Byte)
  <2> SUFFICES ASSUME ClosesMultiFrame(frame)
               PROVE  SubSeq(frame.data, 1, Len(frame.data) - CRC_SIZE) \in Seq(Byte)
    OBVIOUS
  <2>1. Len(frame.data) \in Nat /\ Len(frame.data) >= CRC_SIZE
    BY <1>1, CanAssumption DEF RxProcessError, FrameLen
  <2>2. /\ Len(frame.data) - CRC_SIZE \in Nat
        /\ Len(frame.data) - CRC_SIZE <= Len(frame.data)
    BY <2>1, CanAssumption
  <2> QED BY <1>1, <2>2, SubSeqType
<1> QED BY <1>1, <1>3, <1>4 DEF RxTransferFrame, RxFrameMetadata

(* What update_metadata makes of a frame. *)
LEMMA UpdateRxMetadataType ==
    ASSUME NEW metadata \in RxMetadata, NEW frame_metadata, NEW frame,
           frame_metadata.toggle_bit \in BOOLEAN, frame.payload \in Seq(Byte)
    PROVE  /\ UpdateRxMetadata(metadata, frame_metadata, frame).metadata \in RxMetadata
           /\ UpdateRxMetadata(metadata, frame_metadata, frame).error
                 \in {"Ok", "InvalidFrameOrdering", "CrcError"}
<1>1. metadata.crc \o frame.payload \in Seq(Byte)
  BY ConcatProperties DEF RxMetadata
<1>2. (IF frame.first_frame /\ frame.last_frame THEN metadata.crc
       ELSE metadata.crc \o frame.payload) \in Seq(Byte)
  BY <1>1 DEF RxMetadata
<1> QED BY <1>2 DEF UpdateRxMetadata, RxMetadata

(* A correct first frame is accepted by a new transfer: its toggle differs *)
(* from the one a transfer begins with, and it carries no CRC.             *)
LEMMA FirstFrameAccepted ==
    ASSUME NEW frame \in CanFrame, NEW time, RxProcessError(frame) = "Ok",
           frame.tail.start
    PROVE  UpdateRxMetadata(RxMetadataDefault, RxFrameMetadata(frame),
                            RxTransferFrame(frame, time)).error = "Ok"
<1>1. frame.tail.toggle = TRUE
  BY DEF RxProcessError, CanFrame, TailByte
<1>2. RxFrameMetadata(frame).crc_val = None /\ RxFrameMetadata(frame).toggle_bit = TRUE
  BY <1>1 DEF RxFrameMetadata, ClosesMultiFrame
<1> QED BY <1>2 DEF UpdateRxMetadata, RxMetadataDefault

-----------------------------------------------------------------------------
(* Sequences of bytes, and the queues frames wait in. *)

LEMMA Concat ==
    ASSUME NEW s \in Seq(Byte), NEW u \in Seq(Byte)
    PROVE  /\ s \o u \in Seq(Byte)
           /\ Len(s \o u) = Len(s) + Len(u)
           /\ \A i \in 1 .. Len(s) : (s \o u)[i] = s[i]
           /\ \A i \in 1 .. Len(u) : (s \o u)[Len(s) + i] = u[i]
OBVIOUS

LEMMA AllOfSeq == ASSUME NEW s \in Seq(Byte) PROVE SubSeq(s, 1, Len(s)) = s
OBVIOUS

LEMMA TailIs ==
    ASSUME NEW S, NEW s \in Seq(S), s # << >>
    PROVE  /\ Tail(s) \in Seq(S)
           /\ 1 \in DOMAIN s /\ Head(s) = s[1] /\ Head(s) \in S
           /\ \A i \in DOMAIN Tail(s) : i + 1 \in DOMAIN s /\ Tail(s)[i] = s[i + 1]
<1>1. /\ Tail(s) \in Seq(S) /\ Len(Tail(s)) = Len(s) - 1
      /\ \A i \in 1 .. Len(s) - 1 : Tail(s)[i] = s[i + 1]
  OBVIOUS
<1>2. ASSUME NEW i \in DOMAIN Tail(s) PROVE i + 1 \in DOMAIN s /\ Tail(s)[i] = s[i + 1]
  BY <1>1
<1> QED BY <1>1, <1>2

LEMMA RepeatIs ==
    ASSUME NEW S, NEW s \in Seq(S), s # << >>
    PROVE  /\ << Head(s) >> \o s \in Seq(S)
           /\ \A i \in DOMAIN (<< Head(s) >> \o s) :
                 /\ i \in Nat /\ i >= 1
                 /\ i = 1 => (<< Head(s) >> \o s)[i] = s[1]
                 /\ i > 1 => i - 1 \in DOMAIN s /\ (<< Head(s) >> \o s)[i] = s[i - 1]
<1> DEFINE w == << Head(s) >> \o s
<1>1. << Head(s) >> \in Seq(S) /\ Head(s) = s[1] /\ Len(s) \in Nat
  OBVIOUS
<1>2. /\ w \in Seq(S) /\ Len(w) = Len(s) + 1 /\ w[1] = s[1]
      /\ \A i \in 1 .. Len(s) : w[1 + i] = s[i]
  BY <1>1
<1> HIDE DEF w
<1>3. ASSUME NEW i \in DOMAIN w
      PROVE  /\ i \in Nat /\ i >= 1
             /\ i = 1 => w[i] = s[1]
             /\ i > 1 => i - 1 \in DOMAIN s /\ w[i] = s[i - 1]
  <2>1. i \in 1 .. Len(s) + 1
    BY <1>1, <1>2, <1>3
  <2>2. i > 1 => i - 1 \in 1 .. Len(s) /\ 1 + (i - 1) = i
    BY <1>1, <2>1
  <2> QED BY <1>1, <1>2, <2>1, <2>2
<1> QED BY <1>2, <1>3 DEF w

LEMMA AppendIs ==
    ASSUME NEW S, NEW s \in Seq(S), NEW x \in S
    PROVE  /\ Append(s, x) \in Seq(S)
           /\ \A i \in DOMAIN Append(s, x) :
                 /\ i \in Nat /\ i <= Len(s) + 1
                 /\ \/ i \in DOMAIN s /\ Append(s, x)[i] = s[i]
                    \/ i = Len(s) + 1 /\ Append(s, x)[i] = x
OBVIOUS

-----------------------------------------------------------------------------
(* What the CRC tells. *)

(* What is not the beginning of any payload stays so. *)
LEMMA WrittenPrefix ==
    ASSUME NEW s \in Seq(Byte), NEW u \in Seq(Byte), s # << >>, IsWritten(s \o u)
    PROVE  IsWritten(s)
<1> DEFINE w == s \o u
           d == w[1].of
<1>1. /\ Len(w) = Len(s) + Len(u) /\ Len(s) \in Nat /\ Len(s) > 0 /\ Len(u) \in Nat
      /\ \A i \in 1 .. Len(s) : w[i] = s[i]
  BY Concat
<1>2. d \in Data /\ w = Written(d, Len(w))
  BY DEF IsWritten
<1> HIDE DEF w
<1>3. \A i \in 1 .. Len(w) : w[i] = [of |-> d, part |-> "data", at |-> i]
  <2> HIDE DEF d
  <2> QED BY <1>1, <1>2 DEF Written
<1> HIDE DEF d
<1>4. \A i \in 1 .. Len(s) : s[i] = [of |-> d, part |-> "data", at |-> i]
  BY <1>1, <1>3
<1>5. s = [i \in 1 .. Len(s) |-> s[i]]
  OBVIOUS
<1>6. s = Written(d, Len(s))
  BY <1>4, <1>5 DEF Written
<1>7. s[1].of = d
  <2>1. 1 \in 1 .. Len(s)
    BY <1>1
  <2>2. s[1] = [of |-> d, part |-> "data", at |-> 1]
    BY <1>4, <2>1
  <2> QED BY <2>2
<1> QED BY <1>1, <1>2, <1>6, <1>7 DEF IsWritten

(* Bytes that begin as a payload and end where it ends are that payload.   *)
LEMMA EndsLikePayload ==
    ASSUME NEW s \in Seq(Byte), NEW d \in Data, NEW n \in Nat, IsWritten(s),
           s[Len(s)] = [of |-> d, part |-> "data", at |-> n]
    PROVE  s = Written(d, n)
<1> DEFINE c == s[1].of
<1>1. c \in Data /\ s = Written(c, Len(s)) /\ Len(s) \in Nat /\ Len(s) > 0
  BY DEF IsWritten
<1> HIDE DEF c
<1>2. s[Len(s)] = [of |-> c, part |-> "data", at |-> Len(s)]
  BY <1>1 DEF Written
<1>3. c = d /\ Len(s) = n
  BY <1>2
<1> QED BY <1>1, <1>3

(* The CRC of a payload is that of no other bytes. *)
LEMMA CrcIdentifies ==
    ASSUME NEW s \in Seq(Byte), NEW d \in Data, NEW n \in Nat \ {0},
           Crc(s) = Crc(Written(d, n))
    PROVE  s = Written(d, n)
<1> DEFINE w == Written(d, n)
<1>1. /\ Len(w) = n /\ w[1] = [of |-> d, part |-> "data", at |-> 1]
  BY DEF Written
<1>2. IsWritten(w) /\ w[1].of = d
  BY <1>1 DEF IsWritten
<1> HIDE DEF w
<1>3. Crc(w) = << [of |-> d, part |-> "crc_hi", at |-> n],
                  [of |-> d, part |-> "crc_lo", at |-> n] >>
  BY <1>1, <1>2 DEF Crc
<1>4. Crc(s)[1] = Crc(w)[1]
  BY DEF w
<1>5. CASE ~ IsWritten(s)
  <2>1. Crc(s)[1] = [of |-> None, part |-> "crc_hi", at |-> 0]
    BY <1>5 DEF Crc
  <2> QED BY <1>3, <1>4, <2>1, CanAssumption
<1>6. CASE IsWritten(s)
  <2>1. Crc(s)[1] = [of |-> s[1].of, part |-> "crc_hi", at |-> Len(s)]
    BY <1>6 DEF Crc
  <2>2. s[1].of = d /\ Len(s) = n
    BY <1>3, <1>4, <2>1
  <2> QED BY <1>6, <2>2 DEF IsWritten
<1> QED BY <1>5, <1>6

(* A payload, as the bytes of its content. *)
LEMMA WrittenIs ==
    ASSUME NEW d \in Data, NEW n \in Nat
    PROVE  /\ Written(d, n) \in Seq(Byte) /\ Len(Written(d, n)) = n
           /\ \A i \in 1 .. n : Written(d, n)[i] = [of |-> d, part |-> "data", at |-> i]
           /\ n > 0 => IsWritten(Written(d, n)) /\ Written(d, n)[1].of = d
<1>1. \A i \in 1 .. n : [of |-> d, part |-> "data", at |-> i] \in Byte
  BY DEF Byte
<1>2. /\ Written(d, n) \in Seq(Byte) /\ Len(Written(d, n)) = n
      /\ \A i \in 1 .. n : Written(d, n)[i] = [of |-> d, part |-> "data", at |-> i]
  BY <1>1 DEF Written
<1>3. ASSUME n > 0 PROVE IsWritten(Written(d, n)) /\ Written(d, n)[1].of = d
  BY <1>2, <1>3 DEF IsWritten
<1> QED BY <1>2, <1>3

(* What an application may send. *)
IsPayload(p) == p \in Seq(Byte) /\ (p = << >> \/ IsWritten(p))

LEMMA WrittenIsPayload ==
    ASSUME NEW d \in Data, NEW n \in Nat
    PROVE  IsPayload(Written(d, n))
<1>1. CASE n = 0
  BY <1>1, WrittenIs DEF IsPayload
<1>2. CASE n > 0
  BY <1>2, WrittenIs DEF IsPayload
<1> QED BY <1>1, <1>2

LEMMA PayloadBytes ==
    ASSUME NEW p, IsPayload(p), p # << >>
    PROVE  /\ p \in Seq(Byte) /\ Len(p) \in Nat \ {0}
           /\ p[1].of \in Data /\ p = Written(p[1].of, Len(p))
           /\ \A i \in 1 .. Len(p) : p[i] = [of |-> p[1].of, part |-> "data", at |-> i]
<1>1. p \in Seq(Byte) /\ IsWritten(p)
  BY DEF IsPayload
<1>2. PICK d : d = p[1].of
  OBVIOUS
<1>3. d \in Data /\ p = Written(d, Len(p)) /\ Len(p) \in Nat \ {0}
  BY <1>1, <1>2 DEF IsWritten
<1>4. \A i \in 1 .. Len(p) : p[i] = [of |-> d, part |-> "data", at |-> i]
  BY <1>3, WrittenIs
<1> QED BY <1>1, <1>2, <1>3, <1>4

LEMMA CrcOfPayload ==
    ASSUME NEW p, IsPayload(p), p # << >>, NEW s \in Seq(Byte), Crc(s) = Crc(p)
    PROVE  s = p
<1>1. PICK d, n : d = p[1].of /\ n = Len(p)
  OBVIOUS
<1>2. d \in Data /\ n \in Nat \ {0} /\ p = Written(d, n)
  BY <1>1, PayloadBytes
<1>3. Crc(s) = Crc(Written(d, n))
  BY <1>2
<1> QED BY <1>2, <1>3, CrcIdentifies

(* What is sent of a payload that does not fit into one frame. *)
WholeOf(p) == p \o Crc(p)

LEMMA WholeOfIs ==
    ASSUME NEW p, IsPayload(p), p # << >>
    PROVE  /\ WholeOf(p) \in Seq(Byte) /\ Len(WholeOf(p)) = Len(p) + 2
           /\ Crc(p) \in Seq(Byte) /\ Len(Crc(p)) = 2
           /\ \A i \in 1 .. Len(p) : WholeOf(p)[i] = p[i]
           /\ \A i \in 1 .. 2 : WholeOf(p)[Len(p) + i] = Crc(p)[i]
           /\ \A i \in 1 .. Len(p) + 2 : WholeOf(p)[i].of = p[1].of
<1>1. PICK d, n, u, w : d = p[1].of /\ n = Len(p) /\ u = Crc(p) /\ w = WholeOf(p)
  OBVIOUS
<1>2. /\ p \in Seq(Byte) /\ n \in Nat \ {0} /\ IsWritten(p)
      /\ \A i \in 1 .. n : p[i] = [of |-> d, part |-> "data", at |-> i]
  BY <1>1, PayloadBytes DEF IsPayload
<1>3. u \in Seq(Byte) /\ Len(u) = 2
  BY <1>1, <1>2, CrcType
<1>4. \A i \in 1 .. 2 : u[i].of = d
  <2>1. Crc(p) = << [of |-> d, part |-> "crc_hi", at |-> n],
                    [of |-> d, part |-> "crc_lo", at |-> n] >>
    BY <1>1, <1>2 DEF Crc
  <2>2. u[1].of = d /\ u[2].of = d
    BY <1>1, <2>1
  <2> QED BY <2>2
<1>5. /\ w \in Seq(Byte) /\ Len(w) = n + 2
      /\ \A i \in 1 .. n : w[i] = p[i]
      /\ \A i \in 1 .. 2 : w[n + i] = u[i]
  <2>1. w = p \o u
    BY <1>1 DEF WholeOf
  <2>2. /\ p \o u \in Seq(Byte) /\ Len(p \o u) = Len(p) + Len(u)
        /\ \A i \in 1 .. Len(p) : (p \o u)[i] = p[i]
        /\ \A i \in 1 .. Len(u) : (p \o u)[Len(p) + i] = u[i]
    BY <1>2, <1>3, Concat
  <2> QED BY <1>1, <1>3, <2>1, <2>2
<1>6. ASSUME NEW i \in 1 .. n + 2 PROVE w[i].of = d
  <2>1. CASE i \in 1 .. n
    <3>1. w[i] = p[i] /\ p[i] = [of |-> d, part |-> "data", at |-> i]
      BY <1>2, <1>5, <2>1
    <3> QED BY <3>1
  <2>2. CASE i \notin 1 .. n
    <3>1. i - n \in 1 .. 2 /\ n + (i - n) = i
      BY <1>2, <2>2
    <3> QED BY <1>4, <1>5, <3>1
  <2> QED BY <2>1, <2>2
<1> QED BY <1>1, <1>3, <1>5, <1>6

-----------------------------------------------------------------------------
(* The frames that are made of a payload. *)

LEMMA RestOf ==
    ASSUME NEW s \in Seq(Byte), NEW c \in Nat, c <= Len(s)
    PROVE  /\ SubSeq(s, c + 1, Len(s)) \in Seq(Byte)
           /\ Len(SubSeq(s, c + 1, Len(s))) = Len(s) - c
           /\ \A i \in 1 .. Len(s) - c :
                 c + i \in 1 .. Len(s) /\ SubSeq(s, c + 1, Len(s))[i] = s[c + i]
OBVIOUS

LEMMA PartOf ==
    ASSUME NEW s \in Seq(Byte), NEW n \in Nat, n <= Len(s)
    PROVE  /\ SubSeq(s, 1, n) \in Seq(Byte) /\ Len(SubSeq(s, 1, n)) = n
           /\ \A i \in 1 .. n : SubSeq(s, 1, n)[i] = s[i]
OBVIOUS

(* What is cut off the bytes that are left: all of them, if they fit.      *)
LEMMA CutOff ==
    ASSUME NEW s \in Seq(Byte), NEW c \in Nat, c <= Len(s)
    PROVE  LET data == SubSeq(s, c + 1, Len(s))
               cut == SubSeq(data, 1, ConsumeLen(data))
           IN  /\ data \in Seq(Byte)
               /\ IsLastFrame(data) <=> Len(s) - c <= FrameCapacity
               /\ IsLastFrame(data) => ConsumeLen(data) = Len(s) - c /\ cut = data
               /\ ~ IsLastFrame(data) => ConsumeLen(data) = FrameCapacity
               /\ cut \in Seq(Byte)
               /\ \A i \in DOMAIN cut : c + i \in 1 .. Len(s) /\ cut[i] = s[c + i]
<1>1. PICK data, l : data = SubSeq(s, c + 1, Len(s)) /\ l = Len(s) - c
  OBVIOUS
<1>2. /\ data \in Seq(Byte) /\ Len(data) = l /\ l \in Nat
      /\ \A i \in 1 .. l : c + i \in 1 .. Len(s) /\ data[i] = s[c + i]
  BY <1>1, RestOf
<1>3. FrameCapacity \in Nat
  BY CanAssumption DEF FrameCapacity
<1>4. PICK n, cut : n = ConsumeLen(data) /\ cut = SubSeq(data, 1, n)
  OBVIOUS
<1>5. /\ IsLastFrame(data) <=> l <= FrameCapacity
      /\ n = IF l <= FrameCapacity THEN l ELSE FrameCapacity
  BY <1>2, <1>4 DEF IsLastFrame, ConsumeLen
<1>6. n \in Nat /\ n <= l
  BY <1>2, <1>3, <1>5
<1>7. /\ cut \in Seq(Byte) /\ Len(cut) = n
      /\ \A i \in 1 .. n : cut[i] = data[i]
  BY <1>2, <1>4, <1>6, PartOf
<1>8. ASSUME NEW i \in DOMAIN cut PROVE c + i \in 1 .. Len(s) /\ cut[i] = s[c + i]
  <2>1. i \in 1 .. n /\ i \in 1 .. l
    BY <1>2, <1>6, <1>7
  <2> QED BY <1>2, <1>7, <2>1
<1>9. IsLastFrame(data) => n = l /\ cut = data
  BY <1>2, <1>4, <1>5, AllOfSeq
<1>10. /\ data \in Seq(Byte)
       /\ IsLastFrame(data) <=> l <= FrameCapacity
       /\ IsLastFrame(data) => n = l /\ cut = data
       /\ ~ IsLastFrame(data) => n = FrameCapacity
       /\ cut \in Seq(Byte)
       /\ \A i \in DOMAIN cut : c + i \in 1 .. Len(s) /\ cut[i] = s[c + i]
  BY <1>2, <1>5, <1>7, <1>8, <1>9
<1> QED BY <1>1, <1>4, <1>10, Zenon

(* How far the sending of payload p has come in an entry e. *)
SendsPayload(e, p) ==
    /\ e.payload = IF Len(p) > FrameCapacity THEN WholeOf(p) ELSE p
    /\ e.consumed \in Nat
    /\ e.consumed > 0 => e.consumed >= FrameCapacity /\ e.consumed < Len(e.payload)
    /\ e.transport_metadata \in TxMetadata
    /\ e.transport_metadata.first_frame <=> e.consumed = 0
    /\ e.consumed = 0 => e.transport_metadata.toggle_bit

(* A frame of payload p: it stands alone if the payload is no longer, and  *)
(* if it closes a transfer it ends as that does; all its bytes are of p.   *)
FrameIsOf(f, p) ==
    /\ ClosesMultiFrame(f) =>
          /\ Len(p) > FrameCapacity
          /\ \E c \in 0 .. Len(p) + 2 : f.data = SubSeq(WholeOf(p), c + 1, Len(p) + 2)
    /\ f.tail.start /\ f.tail.end => Len(p) <= FrameCapacity
    /\ Len(p) <= FrameCapacity =>
          f.tail.start /\ f.tail.end /\ f.tail.toggle /\ f.data = p
    /\ \A i \in DOMAIN f.data : Len(p) > 0 /\ f.data[i].of = p[1].of

(* transmit_frame makes frame f of the bytes `data` that are left of e.    *)
CutFrom(e, data, f) ==
    /\ data = SubSeq(e.payload, e.consumed + 1, Len(e.payload))
    /\ f.tail.start = e.transport_metadata.first_frame
    /\ f.tail.end = IsLastFrame(data)
    /\ f.tail.toggle = e.transport_metadata.toggle_bit
    /\ f.data = SubSeq(data, 1, ConsumeLen(data))

(* What is left of an entry goes into frames of its payload, of which the  *)
(* one that is marked as the last is the last.                             *)
LEMMA MadeFrame ==
    ASSUME NEW p, IsPayload(p), NEW e, SendsPayload(e, p), NEW f, NEW data,
           CutFrom(e, data, f)
    PROVE  /\ FrameIsOf(f, p)
           /\ f.data \in Seq(Byte) /\ data \in Seq(Byte)
           /\ e.consumed + ConsumeLen(data) < Len(e.payload) <=> ~ f.tail.end
           /\ ~ f.tail.end => ConsumeLen(data) = FrameCapacity
<1>1. FrameCapacity \in Nat /\ FrameCapacity > 1
  BY CanAssumption DEF FrameCapacity
<1>2. PICK n, w, c, cut, left :
          /\ n = Len(p) /\ w = e.payload /\ c = e.consumed /\ cut = f.data
          /\ left = ConsumeLen(data)
  OBVIOUS
<1>3. /\ n > FrameCapacity => w = WholeOf(p)
      /\ ~ (n > FrameCapacity) => w = p
      /\ c \in Nat
      /\ c > 0 => c >= FrameCapacity /\ c < Len(w)
      /\ f.tail.start <=> c = 0
      /\ c = 0 => f.tail.toggle
  BY <1>2 DEF SendsPayload, CutFrom
<1>4. /\ w \in Seq(Byte) /\ n \in Nat /\ p \in Seq(Byte)
      /\ Len(w) = IF n > FrameCapacity THEN n + 2 ELSE n
      /\ n > 0 => \A i \in 1 .. Len(w) : w[i].of = p[1].of
  <2>1. n \in Nat /\ p \in Seq(Byte) /\ (n > 0 => p # << >>)
    BY <1>2 DEF IsPayload
  <2>2. CASE n > FrameCapacity
    <3>1. p # << >>
      BY <1>1, <2>1, <2>2
    <3>2. /\ WholeOf(p) \in Seq(Byte) /\ Len(WholeOf(p)) = n + 2
          /\ \A i \in 1 .. n + 2 : WholeOf(p)[i].of = p[1].of
      BY <1>2, <3>1, WholeOfIs
    <3> QED BY <1>3, <2>1, <2>2, <3>2
  <2>3. CASE ~ (n > FrameCapacity)
    <3>1. n > 0 => \A i \in 1 .. n : p[i].of = p[1].of
      <4> SUFFICES ASSUME n > 0, NEW i \in 1 .. n PROVE p[i].of = p[1].of
        OBVIOUS
      <4>1. p[i] = [of |-> p[1].of, part |-> "data", at |-> i]
        BY <1>2, <2>1, PayloadBytes
      <4> QED BY <4>1
    <3>2. w = p /\ Len(w) = n
      BY <1>2, <1>3, <2>3
    <3> QED BY <2>1, <2>3, <3>1, <3>2
  <2> QED BY <2>2, <2>3
<1>5. c <= Len(w) /\ Len(w) \in Nat
  BY <1>3, <1>4
<1>6. /\ data \in Seq(Byte) /\ cut \in Seq(Byte)
      /\ f.tail.end <=> Len(w) - c <= FrameCapacity
      /\ f.tail.end => left = Len(w) - c /\ cut = data
      /\ ~ f.tail.end => left = FrameCapacity
      /\ \A i \in DOMAIN cut : c + i \in 1 .. Len(w) /\ cut[i] = w[c + i]
      /\ data = SubSeq(w, c + 1, Len(w))
  <2>1. /\ data = SubSeq(w, c + 1, Len(w)) /\ cut = SubSeq(data, 1, ConsumeLen(data))
        /\ f.tail.end = IsLastFrame(data)
    BY <1>2 DEF CutFrom
  <2>2. /\ data \in Seq(Byte)
        /\ IsLastFrame(data) <=> Len(w) - c <= FrameCapacity
        /\ IsLastFrame(data) => ConsumeLen(data) = Len(w) - c /\ cut = data
        /\ ~ IsLastFrame(data) => ConsumeLen(data) = FrameCapacity
        /\ cut \in Seq(Byte)
        /\ \A i \in DOMAIN cut : c + i \in 1 .. Len(w) /\ cut[i] = w[c + i]
    BY <1>3, <1>4, <1>5, <2>1, CutOff
  <2> QED BY <1>2, <2>1, <2>2
<1>7. c + left < Len(w) <=> ~ f.tail.end
  BY <1>1, <1>3, <1>5, <1>6
<1>8. ASSUME NEW i \in DOMAIN cut PROVE n > 0 /\ cut[i].of = p[1].of
  <2>1. cut[i] = w[c + i] /\ c + i \in 1 .. Len(w)
    BY <1>6
  <2>2. n > 0
    BY <1>1, <1>4, <2>1
  <2> QED BY <1>4, <2>1, <2>2
<1>9. ASSUME ~ f.tail.start, f.tail.end
       PROVE  n > FrameCapacity /\ \E x \in 0 .. n + 2 : cut = SubSeq(WholeOf(p), x + 1, n + 2)
  <2>1. c >= FrameCapacity /\ c < Len(w)
    BY <1>3, <1>9
  <2>2. n > FrameCapacity
    BY <1>1, <1>3, <1>4, <2>1
  <2>3. w = WholeOf(p) /\ Len(w) = n + 2
    BY <1>3, <1>4, <2>2
  <2>4. cut = SubSeq(WholeOf(p), c + 1, n + 2)
    BY <1>6, <1>9, <2>3, Zenon
  <2>5. c \in 0 .. n + 2
    BY <1>3, <1>4, <2>1, <2>3
  <2> QED BY <2>2, <2>4, <2>5
<1>10. ASSUME f.tail.start, f.tail.end PROVE n <= FrameCapacity
  BY <1>1, <1>3, <1>4, <1>6, <1>10
<1>11. ASSUME n <= FrameCapacity
       PROVE  f.tail.start /\ f.tail.end /\ f.tail.toggle /\ cut = p
  <2>1. ~ (n > FrameCapacity)
    BY <1>1, <1>4, <1>11
  <2>2. w = p /\ Len(w) = n /\ c = 0
    BY <1>1, <1>3, <1>4, <1>11, <2>1
  <2>3. data = p
    <3>1. data = SubSeq(w, 1, Len(w))
      BY <1>6, <2>2
    <3> QED BY <1>4, <2>2, <3>1, AllOfSeq
  <2>4. f.tail.start /\ f.tail.toggle /\ f.tail.end
    BY <1>1, <1>3, <1>4, <1>6, <1>11, <2>2
  <2> QED BY <1>6, <2>3, <2>4
<1>12. FrameIsOf(f, p)
  BY <1>2, <1>8, <1>9, <1>10, <1>11 DEF FrameIsOf, ClosesMultiFrame
<1> QED BY <1>2, <1>6, <1>7, <1>12

-----------------------------------------------------------------------------
(* What a frame does to the entry it is for. *)

(* An entry of a receiving node that has not timed out. *)
RxEntry ==
    [status : {"Active"}, transfer_metadata : TransferMetadata,
     transport_metadata : RxMetadata, payload : Seq(Byte)]

ActiveIn(map, k) == k \in DOMAIN map /\ map[k].status = "Active"

(* Where a frame goes, what it brings and what update_rx_metadata makes of *)
(* it, none of which depends on when it comes.                             *)
KeyOf(f) == HashMetadata(RxMetadataOf(f.id, f.tail.transfer_id, 0))
BytesOf(f) == RxTransferFrame(f, 0).payload
Updated(f, m) == UpdateRxMetadata(m, RxFrameMetadata(f), RxTransferFrame(f, 0))

(* It is refused, appended to what there is, or the first. *)
Refuses(f, old, e) ==
    /\ Updated(f, old.transport_metadata).error # "Ok"
    /\ e = [old EXCEPT !.transport_metadata = Updated(f, old.transport_metadata).metadata]

Appends(f, old, e) ==
    /\ Updated(f, old.transport_metadata).error = "Ok"
    /\ e = [old EXCEPT !.transport_metadata = Updated(f, old.transport_metadata).metadata,
                       !.payload = old.payload \o BytesOf(f)]

Opens(f, time, e) ==
    /\ f.tail.start
    /\ Updated(f, RxMetadataDefault).error = "Ok"
    /\ e = [status |-> "Active",
            transfer_metadata |-> RxMetadataOf(f.id, f.tail.transfer_id, time),
            transport_metadata |-> Updated(f, RxMetadataDefault).metadata,
            payload |-> BytesOf(f)]

(* A frame that comes at a node with the entries `map` makes e the one it  *)
(* is for; `kind` is what it returns: a token, or none.                        *)
Takes(f, time, map, e, kind) ==
    /\ RxProcessError(f) = "Ok"
    /\ \/ ActiveIn(map, KeyOf(f)) /\ Refuses(f, map[KeyOf(f)], e) /\ kind # "Token"
       \/ ActiveIn(map, KeyOf(f)) /\ Appends(f, map[KeyOf(f)], e) /\ (kind = "Token" <=> f.tail.end)
       \/ KeyOf(f) \notin DOMAIN map /\ Opens(f, time, e) /\ (kind = "Token" <=> f.tail.end)

LEMMA TimeIrrelevant ==
    ASSUME NEW f, NEW time, NEW m
    PROVE  /\ HashMetadata(RxTransferFrame(f, time).metadata) = KeyOf(f)
           /\ RxTransferFrame(f, time).payload = BytesOf(f)
           /\ RxTransferFrame(f, time).first_frame = f.tail.start
           /\ RxTransferFrame(f, time).last_frame = f.tail.end
           /\ UpdateRxMetadata(m, RxFrameMetadata(f), RxTransferFrame(f, time)) = Updated(f, m)
<1>1. HashMetadata(RxTransferFrame(f, time).metadata) = KeyOf(f)
  BY DEF RxTransferFrame, RxMetadataOf, KeyOf, HashMetadata
<1>2. /\ RxTransferFrame(f, time).payload = RxTransferFrame(f, 0).payload
      /\ RxTransferFrame(f, time).first_frame = f.tail.start
      /\ RxTransferFrame(f, time).last_frame = f.tail.end
      /\ RxTransferFrame(f, 0).first_frame = f.tail.start
      /\ RxTransferFrame(f, 0).last_frame = f.tail.end
  BY DEF RxTransferFrame
<1>3. UpdateRxMetadata(m, RxFrameMetadata(f), RxTransferFrame(f, time)) = Updated(f, m)
  BY <1>2 DEF UpdateRxMetadata, Updated
<1> QED BY <1>1, <1>2, <1>3 DEF BytesOf

LEMMA FrameBytesType ==
    ASSUME NEW f \in CanFrame, RxProcessError(f) = "Ok", NEW m \in RxMetadata
    PROVE  /\ BytesOf(f) \in Seq(Byte) /\ f.tail \in TailByte
           /\ Updated(f, m).metadata \in RxMetadata
<1>1. /\ BytesOf(f) \in Seq(Byte) /\ f.tail \in TailByte
      /\ RxFrameMetadata(f).toggle_bit = f.tail.toggle
  BY RxFrameType DEF BytesOf, Timestamp
<1>2. f.tail.toggle \in BOOLEAN
  BY <1>1 DEF TailByte
<1> QED BY <1>1, <1>2, UpdateRxMetadataType DEF Updated, BytesOf

LEMMA EntryParts ==
    ASSUME NEW e \in RxEntry
    PROVE  /\ e.status = "Active" /\ e.transfer_metadata \in TransferMetadata
           /\ e.transport_metadata \in RxMetadata /\ e.payload \in Seq(Byte)
           /\ e.transport_metadata.crc \in Seq(Byte)
           /\ e.transport_metadata.toggle_bit \in BOOLEAN
BY DEF RxEntry, RxMetadata

(* The parts of the entry a frame leaves. *)
Joined(s, bytes) == s \o bytes

LEMMA TakesActive ==
    ASSUME NEW f \in CanFrame, NEW time, NEW map, NEW e, NEW kind,
           Takes(f, time, map, e, kind),
           NEW old \in RxEntry, ActiveIn(map, KeyOf(f)), map[KeyOf(f)] = old,
           NEW u, u = Updated(f, old.transport_metadata)
    PROVE  /\ e \in RxEntry
           /\ e.transport_metadata = u.metadata
           /\ e.transfer_metadata = old.transfer_metadata
           /\ kind = "Token" => f.tail.end /\ u.error = "Ok"
           /\ u.error # "Ok" => e.payload = old.payload
           /\ u.error = "Ok" => e.payload = Joined(old.payload, BytesOf(f))
<1>1. PICK w : w = old.payload \o BytesOf(f)
  OBVIOUS
<1>2. u.metadata \in RxMetadata /\ w \in Seq(Byte)
  <2>1. BytesOf(f) \in Seq(Byte) /\ u.metadata \in RxMetadata
    BY FrameBytesType, EntryParts DEF Takes
  <2>2. w \in Seq(Byte)
    BY <1>1, <2>1, EntryParts, Concat
  <2> QED BY <2>1, <2>2
<1>3. \/ u.error # "Ok" /\ e = [old EXCEPT !.transport_metadata = u.metadata] /\ kind # "Token"
      \/ /\ u.error = "Ok" /\ (kind = "Token" <=> f.tail.end)
         /\ e = [old EXCEPT !.transport_metadata = u.metadata, !.payload = w]
  BY <1>1 DEF Takes, Refuses, Appends, ActiveIn
<1>4. /\ e \in RxEntry /\ e.transport_metadata = u.metadata
      /\ e.transfer_metadata = old.transfer_metadata
      /\ kind = "Token" => f.tail.end /\ u.error = "Ok"
      /\ u.error # "Ok" => e.payload = old.payload
      /\ u.error = "Ok" => e.payload = w
  BY <1>2, <1>3 DEF RxEntry
<1> QED BY <1>1, <1>4 DEF Joined

LEMMA TakesFirst ==
    ASSUME NEW f \in CanFrame, NEW time \in Nat, NEW map, NEW e, NEW kind,
           Takes(f, time, map, e, kind), ~ ActiveIn(map, KeyOf(f)),
           NEW u, u = Updated(f, RxMetadataDefault)
    PROVE  /\ KeyOf(f) \notin DOMAIN map /\ f.tail.start /\ u.error = "Ok"
           /\ e \in RxEntry
           /\ e.transport_metadata = u.metadata
           /\ e.transfer_metadata = RxMetadataOf(f.id, f.tail.transfer_id, time)
           /\ kind = "Token" <=> f.tail.end
           /\ e.payload = BytesOf(f)
<1>1. PICK m : m = RxMetadataOf(f.id, f.tail.transfer_id, time)
  OBVIOUS
<1>2. /\ KeyOf(f) \notin DOMAIN map /\ Opens(f, time, e) /\ (kind = "Token" <=> f.tail.end)
      /\ RxProcessError(f) = "Ok"
  BY DEF Takes
<1>3. u.metadata \in RxMetadata /\ BytesOf(f) \in Seq(Byte) /\ m \in TransferMetadata
  <2>1. RxMetadataDefault \in RxMetadata
    BY DEF RxMetadataDefault, RxMetadata
  <2>2. m \in TransferMetadata
    BY <1>1, <1>2, RxFrameType DEF Timestamp
  <2> QED BY <1>2, <2>1, <2>2, FrameBytesType
<1>4. /\ u.error = "Ok" /\ f.tail.start
      /\ e = [status |-> "Active", transfer_metadata |-> m,
              transport_metadata |-> u.metadata, payload |-> BytesOf(f)]
  BY <1>1, <1>2 DEF Opens
<1>5. /\ e \in RxEntry /\ e.transport_metadata = u.metadata
      /\ e.transfer_metadata = m /\ e.payload = BytesOf(f)
  BY <1>3, <1>4 DEF RxEntry
<1> QED BY <1>1, <1>2, <1>4, <1>5

(* update_rx_metadata refuses a repeated toggle and takes over any other   *)
(* one; the CRC takes in all frames but those that stand alone.            *)
LEMMA UpdatedIs ==
    ASSUME NEW f, NEW m
    PROVE  LET crc_val == RxFrameMetadata(f).crc_val
               update == Updated(f, m)
           IN  /\ f.tail.toggle = m.toggle_bit =>
                     update.metadata = m /\ update.error = "InvalidFrameOrdering"
               /\ f.tail.toggle # m.toggle_bit =>
                     /\ update.metadata.toggle_bit = f.tail.toggle
                     /\ ~ (f.tail.start /\ f.tail.end) =>
                           /\ update.metadata.crc = m.crc \o BytesOf(f)
                           /\ update.error = IF crc_val \in {None, Crc(m.crc \o BytesOf(f))}
                                             THEN "Ok" ELSE "CrcError"
<1>1. /\ RxFrameMetadata(f).toggle_bit = f.tail.toggle
      /\ RxTransferFrame(f, 0).first_frame = f.tail.start
      /\ RxTransferFrame(f, 0).last_frame = f.tail.end
  BY DEF RxFrameMetadata, RxTransferFrame
<1> QED BY <1>1 DEF Updated, UpdateRxMetadata, BytesOf

(* The last frame of a multi-frame transfer carries its CRC, behind bytes  *)
(* that end its payload.                                                   *)
LEMMA ClosingBytes ==
    ASSUME NEW f \in CanFrame, RxProcessError(f) = "Ok", ClosesMultiFrame(f),
           NEW p, IsPayload(p), FrameIsOf(f, p)
    PROVE  /\ p # << >> /\ Len(p) > FrameCapacity
           /\ RxFrameMetadata(f).crc_val = Crc(p)
           /\ RxFrameMetadata(f).crc_val # None
           /\ BytesOf(f) \in Seq(Byte)
           /\ BytesOf(f) # << >> =>
                 BytesOf(f)[Len(BytesOf(f))]
                     = [of |-> p[1].of, part |-> "data", at |-> Len(p)]
<1>1. PICK n, w, u, data :
          n = Len(p) /\ w = WholeOf(p) /\ u = Crc(p) /\ data = f.data
  OBVIOUS
<1>2. FrameCapacity \in Nat /\ n > FrameCapacity
  BY <1>1, CanAssumption DEF FrameIsOf, FrameCapacity
<1>3. p # << >> /\ n \in Nat
  BY <1>1, <1>2 DEF IsPayload
<1>4. /\ u \in Seq(Byte) /\ Len(u) = 2
      /\ w \in Seq(Byte) /\ Len(w) = n + 2
      /\ \A i \in 1 .. n : w[i] = p[i]
      /\ \A i \in 1 .. 2 : w[n + i] = u[i]
      /\ p[n] = [of |-> p[1].of, part |-> "data", at |-> n]
  <2>1. /\ u \in Seq(Byte) /\ Len(u) = 2
        /\ w \in Seq(Byte) /\ Len(w) = n + 2
        /\ \A i \in 1 .. n : w[i] = p[i]
        /\ \A i \in 1 .. 2 : w[n + i] = u[i]
    BY <1>1, <1>3, WholeOfIs
  <2>2. n \in 1 .. n
    BY <1>2, <1>3
  <2> QED BY <1>1, <1>3, <2>1, <2>2, PayloadBytes
<1>5. PICK c \in 0 .. n + 2 : data = SubSeq(w, c + 1, n + 2)
  BY <1>1 DEF FrameIsOf
<1>6. /\ data \in Seq(Byte) /\ Len(data) \in Nat /\ Len(data) >= 2
  BY <1>1, CanAssumption DEF CanFrame, RxProcessError, FrameLen, ClosesMultiFrame
<1>7. /\ c \in Nat /\ Len(data) = n + 2 - c
      /\ \A i \in 1 .. Len(data) : data[i] = w[c + i]
  <2>1. c \in Nat /\ c <= Len(w)
    BY <1>3, <1>4
  <2>2. /\ Len(SubSeq(w, c + 1, Len(w))) = Len(w) - c
        /\ \A i \in 1 .. Len(w) - c : SubSeq(w, c + 1, Len(w))[i] = w[c + i]
    BY <1>4, <2>1, RestOf
  <2>3. data = SubSeq(w, c + 1, Len(w))
    BY <1>4, <1>5
  <2>4. /\ Len(data) = Len(w) - c
        /\ \A i \in 1 .. Len(w) - c : data[i] = w[c + i]
    BY <2>2, <2>3, Zenon
  <2> QED BY <1>3, <1>4, <2>1, <2>4
<1>8. PICK end, bytes :
          /\ end = SubSeq(data, Len(data) - CRC_SIZE + 1, Len(data))
          /\ bytes = SubSeq(data, 1, Len(data) - CRC_SIZE)
  OBVIOUS
<1>9. end = u
  <2>1. /\ end \in Seq(Byte) /\ Len(end) = 2
        /\ end[1] = data[Len(data) - 1] /\ end[2] = data[Len(data)]
    BY <1>6, <1>8, CanAssumption
  <2>2. /\ data[Len(data) - 1] = w[n + 1] /\ data[Len(data)] = w[n + 2]
    <3>1. /\ Len(data) - 1 \in 1 .. Len(data) /\ Len(data) \in 1 .. Len(data)
          /\ c + (Len(data) - 1) = n + 1 /\ c + Len(data) = n + 2
      BY <1>3, <1>6, <1>7
    <3> QED BY <1>7, <3>1
  <2>3. end[1] = u[1] /\ end[2] = u[2]
    BY <1>4, <2>1, <2>2
  <2> QED BY <1>4, <2>1, <2>3
<1>10. /\ bytes \in Seq(Byte) /\ Len(bytes) = Len(data) - 2
       /\ \A i \in 1 .. Len(bytes) : bytes[i] = data[i]
  BY <1>6, <1>8, CanAssumption
<1>11. bytes # << >> =>
          bytes[Len(bytes)] = [of |-> p[1].of, part |-> "data", at |-> n]
  <2> SUFFICES ASSUME bytes # << >>
               PROVE  bytes[Len(bytes)] = p[n]
    BY <1>4
  <2>1. Len(bytes) \in Nat /\ Len(bytes) > 0
    BY <1>10
  <2>2. /\ Len(bytes) \in 1 .. Len(data) /\ Len(bytes) \in 1 .. Len(bytes)
        /\ c + Len(bytes) = n /\ n \in 1 .. n
    <3>1. PICK l, b : l = Len(data) /\ b = Len(bytes)
      OBVIOUS
    <3>2. l \in Nat /\ l = n + 2 - c /\ b = l - 2 /\ b \in Nat /\ b > 0
      BY <1>6, <1>7, <1>10, <2>1, <3>1
    <3>3. b \in 1 .. l /\ b \in 1 .. b /\ c + b = n /\ n \in 1 .. n
      BY <1>3, <1>7, <3>2
    <3> QED BY <3>1, <3>3
  <2> QED BY <1>4, <1>7, <1>10, <2>2
<1>12. BytesOf(f) = bytes /\ RxFrameMetadata(f).crc_val = end
  BY <1>1, <1>8 DEF BytesOf, RxTransferFrame, RxFrameMetadata
<1>13. u # None
  BY <1>4, NoCrcAssumption
<1> QED BY <1>1, <1>2, <1>3, <1>9, <1>10, <1>11, <1>12, <1>13

(* The running CRC of an entry has digested the payload that is kept, or   *)
(* what no payload begins with and no frame can make good.                 *)
CrcAgrees(e) ==
    \/ e.transport_metadata.crc = e.payload
    \/ /\ e.transport_metadata.crc # << >>
       /\ ~ IsWritten(e.transport_metadata.crc)

(* A frame that is refused for its CRC has spoilt it: it would have to end *)
(* as the payload ends, and then the CRC would have been right.            *)
LEMMA Spoils ==
    ASSUME NEW p, IsPayload(p), p # << >>, NEW crc \in Seq(Byte), NEW bytes \in Seq(Byte),
           bytes # << >>,
           bytes[Len(bytes)] = [of |-> p[1].of, part |-> "data", at |-> Len(p)],
           Crc(crc \o bytes) # Crc(p)
    PROVE  crc \o bytes # << >> /\ ~ IsWritten(crc \o bytes)
<1>1. PICK w : w = crc \o bytes
  OBVIOUS
<1>2. w \in Seq(Byte) /\ Len(w) = Len(crc) + Len(bytes)
  BY <1>1, Concat
<1>3. Len(bytes) \in Nat /\ Len(bytes) > 0 /\ Len(crc) \in Nat
  OBVIOUS
<1>4. w[Len(w)] = bytes[Len(bytes)]
  <2>1. Len(bytes) \in 1 .. Len(bytes)
    BY <1>3
  <2>2. (crc \o bytes)[Len(crc) + Len(bytes)] = bytes[Len(bytes)]
    BY <2>1, Concat
  <2> QED BY <1>1, <1>2, <2>2
<1>5. p[1].of \in Data /\ Len(p) \in Nat /\ p = Written(p[1].of, Len(p))
  BY PayloadBytes
<1>6. ASSUME IsWritten(w) PROVE w = p
  BY <1>2, <1>4, <1>5, <1>6, EndsLikePayload
<1>7. w # << >>
  BY <1>2, <1>3
<1> QED BY <1>1, <1>6, <1>7

(* Frames of transfers that do not fit into one keep the running CRC of    *)
(* their entry telling; and what such a frame completes is its payload.    *)
LEMMA CrcStillAgrees ==
    ASSUME NEW f \in CanFrame, NEW time \in Nat, NEW map, NEW e, NEW kind,
           Takes(f, time, map, e, kind),
           ActiveIn(map, KeyOf(f)) =>
               map[KeyOf(f)] \in RxEntry /\ CrcAgrees(map[KeyOf(f)]),
           NEW p, IsPayload(p), FrameIsOf(f, p), Len(p) > FrameCapacity
    PROVE  CrcAgrees(e) /\ (kind = "Token" => e.payload = p)
<1> DEFINE bytes == BytesOf(f)
           crc_val == RxFrameMetadata(f).crc_val
<1>1. ~ (f.tail.start /\ f.tail.end)
  BY CanAssumption DEF FrameIsOf, FrameCapacity, IsPayload
<1>2. bytes \in Seq(Byte) /\ RxProcessError(f) = "Ok"
  BY RxFrameType DEF Takes, Timestamp, BytesOf
<1>3. ~ ClosesMultiFrame(f) => crc_val = None
  BY DEF RxFrameMetadata
<1>4. ClosesMultiFrame(f) =>
          /\ crc_val = Crc(p) /\ crc_val # None /\ p # << >>
          /\ bytes # << >> =>
                bytes[Len(bytes)] = [of |-> p[1].of, part |-> "data", at |-> Len(p)]
  BY <1>2, ClosingBytes
<1>5. CASE ActiveIn(map, KeyOf(f))
  <2>1. PICK old : old = map[KeyOf(f)]
    OBVIOUS
  <2>2. PICK m : m = old.transport_metadata
    OBVIOUS
  <2>3. /\ CrcAgrees(old) /\ m.crc \in Seq(Byte) /\ old.payload \in Seq(Byte)
    BY <1>5, <2>1, <2>2, EntryParts
  <2>4. /\ e.transport_metadata = Updated(f, m).metadata
        /\ Updated(f, m).error # "Ok" => e.payload = old.payload
        /\ Updated(f, m).error = "Ok" => e.payload = old.payload \o bytes
        /\ kind = "Token" => f.tail.end /\ Updated(f, m).error = "Ok"
    <3>1. old \in RxEntry
      BY <1>5, <2>1
    <3>2. PICK u : u = Updated(f, old.transport_metadata)
      OBVIOUS
    <3>3. map[KeyOf(f)] = old
      BY <2>1
    <3>4. e.transport_metadata = u.metadata
      BY <1>5, <3>1, <3>2, <3>3, TakesActive
    <3>5. u.error # "Ok" => e.payload = old.payload
      BY <1>5, <3>1, <3>2, <3>3, TakesActive
    <3>6. u.error = "Ok" => e.payload = Joined(old.payload, BytesOf(f))
      BY <1>5, <3>1, <3>2, <3>3, TakesActive
    <3>7. kind = "Token" => f.tail.end /\ u.error = "Ok"
      BY <1>5, <3>1, <3>2, <3>3, TakesActive
    <3> QED BY <2>2, <3>2, <3>4, <3>5, <3>6, <3>7 DEF Joined
  <2>5. /\ f.tail.toggle = m.toggle_bit =>
              /\ Updated(f, m).metadata = m
              /\ Updated(f, m).error = "InvalidFrameOrdering"
        /\ f.tail.toggle # m.toggle_bit =>
              /\ Updated(f, m).metadata.crc = m.crc \o bytes
              /\ Updated(f, m).error = IF crc_val \in {None, Crc(m.crc \o bytes)}
                                       THEN "Ok" ELSE "CrcError"
    BY <1>1, UpdatedIs
  <2> HIDE DEF bytes, crc_val
  <2>6. CASE f.tail.toggle = m.toggle_bit
    BY <2>2, <2>3, <2>4, <2>5, <2>6 DEF CrcAgrees
  <2>7. CASE f.tail.toggle # m.toggle_bit /\ crc_val \notin {None, Crc(m.crc \o bytes)}
    <3>1. /\ e.transport_metadata.crc = m.crc \o bytes /\ e.payload = old.payload /\ kind # "Token"
      BY <2>4, <2>5, <2>7
    <3>2. CASE bytes = << >>
      <4>1. m.crc \o bytes = m.crc
        BY <2>3, <3>2
      <4> QED BY <2>2, <2>3, <3>1, <4>1 DEF CrcAgrees
    <3>3. CASE bytes # << >>
      <4>1. m.crc \o bytes # << >> /\ ~ IsWritten(m.crc \o bytes)
        BY <1>2, <1>3, <1>4, <2>3, <2>7, <3>3, Spoils
      <4> QED BY <3>1, <4>1 DEF CrcAgrees
    <3> QED BY <3>2, <3>3
  <2>8. CASE f.tail.toggle # m.toggle_bit /\ crc_val \in {None, Crc(m.crc \o bytes)}
    <3>1. /\ e.transport_metadata.crc = m.crc \o bytes /\ e.payload = old.payload \o bytes
      BY <2>4, <2>5, <2>8
    <3>2. CrcAgrees(e)
      <4>1. CASE m.crc = old.payload
        BY <3>1, <4>1 DEF CrcAgrees
      <4>2. CASE m.crc # << >> /\ ~ IsWritten(m.crc)
        <5>1. ~ IsWritten(m.crc \o bytes)
          BY <1>2, <2>3, <4>2, WrittenPrefix
        <5>2. m.crc \o bytes # << >>
          BY <1>2, <2>3, <4>2
        <5> QED BY <3>1, <5>1, <5>2 DEF CrcAgrees
      <4> QED BY <2>2, <2>3, <4>1, <4>2 DEF CrcAgrees
    <3>3. ASSUME kind = "Token" PROVE e.payload = p
      <4>1. ClosesMultiFrame(f)
        BY <1>1, <2>4, <3>3 DEF ClosesMultiFrame
      <4>2. Crc(m.crc \o bytes) = Crc(p) /\ m.crc \o bytes \in Seq(Byte) /\ p # << >>
        BY <1>2, <1>4, <2>3, <2>8, <4>1, Concat
      <4>3. m.crc \o bytes = p
        BY <4>2, CrcOfPayload
      <4>4. IsWritten(p)
        BY <4>2 DEF IsPayload
      <4> QED BY <3>1, <3>2, <4>3, <4>4 DEF CrcAgrees
    <3> QED BY <3>2, <3>3
  <2> QED BY <2>6, <2>7, <2>8
<1>6. CASE ~ ActiveIn(map, KeyOf(f))
  <2>1. PICK m : m = RxMetadataDefault
    OBVIOUS
  <2>2. /\ e.transport_metadata = Updated(f, m).metadata
        /\ Updated(f, m).error = "Ok" /\ e.payload = bytes /\ f.tail.start
        /\ kind = "Token" => f.tail.end
    BY <1>6, <2>1, TakesFirst
  <2>3. e.transport_metadata.crc = m.crc \o bytes
    <3>1. f.tail.toggle # m.toggle_bit
      BY <2>2, UpdatedIs
    <3> QED BY <1>1, <2>2, <3>1, UpdatedIs
  <2>4. m.crc \o bytes = bytes
    <3> HIDE DEF bytes
    <3> QED BY <1>2, <2>1 DEF RxMetadataDefault
  <2> QED BY <1>1, <2>2, <2>3, <2>4 DEF CrcAgrees
<1> QED BY <1>5, <1>6

(* A frame with the toggle of its entry changes nothing and gives nothing; *)
(* one that gives a token leaves its toggle there.                         *)
LEMMA ToggleRefuses ==
    ASSUME NEW f \in CanFrame, NEW time, NEW map, NEW e, NEW kind,
           Takes(f, time, map, e, kind), ActiveIn(map, KeyOf(f)),
           NEW old \in RxEntry, map[KeyOf(f)] = old,
           f.tail.toggle = old.transport_metadata.toggle_bit
    PROVE  /\ e.transport_metadata = old.transport_metadata
           /\ e.payload = old.payload /\ kind # "Token"
<1>1. PICK m, u : m = old.transport_metadata /\ u = Updated(f, m)
  OBVIOUS
<1>2. u.metadata = m /\ u.error # "Ok"
  BY <1>1, UpdatedIs
<1>3. u = Updated(f, old.transport_metadata)
  BY <1>1
<1>4. e.transport_metadata = u.metadata
  BY <1>3, TakesActive
<1>5. u.error # "Ok" => e.payload = old.payload
  BY <1>3, TakesActive
<1>6. kind = "Token" => u.error = "Ok"
  BY <1>3, TakesActive
<1> QED BY <1>1, <1>2, <1>4, <1>5, <1>6

LEMMA TokenToggle ==
    ASSUME NEW f \in CanFrame, NEW time \in Nat, NEW map, NEW e, NEW kind,
           Takes(f, time, map, e, kind), kind = "Token",
           ActiveIn(map, KeyOf(f)) => map[KeyOf(f)] \in RxEntry
    PROVE  f.tail.end /\ e.transport_metadata.toggle_bit = f.tail.toggle
<1>1. CASE ActiveIn(map, KeyOf(f))
  <2>1. PICK old, m, u : /\ old = map[KeyOf(f)] /\ m = old.transport_metadata
                         /\ u = Updated(f, m)
    OBVIOUS
  <2>2. old \in RxEntry /\ map[KeyOf(f)] = old /\ u = Updated(f, old.transport_metadata)
    BY <1>1, <2>1
  <2>3. e.transport_metadata = u.metadata
    BY <1>1, <2>2, TakesActive
  <2>4. f.tail.end /\ u.error = "Ok"
    BY <1>1, <2>2, TakesActive
  <2>5. f.tail.toggle # m.toggle_bit
    BY <2>1, <2>4, UpdatedIs
  <2>6. u.metadata.toggle_bit = f.tail.toggle
    BY <2>1, <2>5, UpdatedIs
  <2> QED BY <2>3, <2>4, <2>6
<1>2. CASE ~ ActiveIn(map, KeyOf(f))
  <2>1. PICK m, u : m = RxMetadataDefault /\ u = Updated(f, m)
    OBVIOUS
  <2>2. u = Updated(f, RxMetadataDefault)
    BY <2>1
  <2>3. e.transport_metadata = u.metadata /\ u.error = "Ok" /\ f.tail.end
    BY <1>2, <2>2, TakesFirst
  <2>4. f.tail.toggle # m.toggle_bit
    BY <2>1, <2>3, UpdatedIs
  <2>5. u.metadata.toggle_bit = f.tail.toggle
    BY <2>1, <2>4, UpdatedIs
  <2> QED BY <2>3, <2>5
<1> QED BY <1>1, <1>2

(* A frame that stands alone is all of its payload; where one has been, no *)
(* other one is appended.                                                  *)
LEMMA SingleFrame ==
    ASSUME NEW f \in CanFrame, NEW time \in Nat, NEW map, NEW e, NEW kind,
           Takes(f, time, map, e, kind),
           ActiveIn(map, KeyOf(f)) =>
               /\ map[KeyOf(f)] \in RxEntry
               /\ map[KeyOf(f)].transport_metadata.toggle_bit = TRUE,
           NEW p, FrameIsOf(f, p), Len(p) <= FrameCapacity
    PROVE  /\ e.transport_metadata.toggle_bit = TRUE
           /\ ActiveIn(map, KeyOf(f)) => e.payload = map[KeyOf(f)].payload
           /\ ~ ActiveIn(map, KeyOf(f)) => e.payload = p
<1>1. f.tail.start /\ f.tail.end /\ f.tail.toggle /\ f.data = p
  BY DEF FrameIsOf
<1>2. f.tail.toggle = TRUE
  <2>1. f.tail \in TailByte
    BY RxFrameType DEF Takes, Timestamp
  <2> QED BY <1>1, <2>1 DEF TailByte
<1>3. CASE ActiveIn(map, KeyOf(f))
  <2>1. PICK old : old = map[KeyOf(f)]
    OBVIOUS
  <2>2. /\ old \in RxEntry /\ map[KeyOf(f)] = old
        /\ f.tail.toggle = old.transport_metadata.toggle_bit
    BY <1>2, <1>3, <2>1
  <2>3. e.transport_metadata = old.transport_metadata /\ e.payload = old.payload
    BY <1>3, <2>2, ToggleRefuses
  <2> QED BY <1>2, <1>3, <2>2, <2>3
<1>4. CASE ~ ActiveIn(map, KeyOf(f))
  <2>1. PICK m, u : m = RxMetadataDefault /\ u = Updated(f, m)
    OBVIOUS
  <2>2. u = Updated(f, RxMetadataDefault)
    BY <2>1
  <2>3. e.transport_metadata = u.metadata /\ e.payload = BytesOf(f)
    BY <1>4, <2>2, TakesFirst
  <2>4. f.tail.toggle # m.toggle_bit
    BY <1>2, <2>1 DEF RxMetadataDefault
  <2>5. u.metadata.toggle_bit = f.tail.toggle
    BY <2>1, <2>4, UpdatedIs
  <2>6. BytesOf(f) = f.data
    BY <1>1 DEF BytesOf, RxTransferFrame, ClosesMultiFrame
  <2> QED BY <1>1, <1>2, <1>4, <2>3, <2>5, <2>6
<1> QED BY <1>3, <1>4

(* What bytes are about, if there are any. *)
ContentIn(s) == IF s = << >> THEN None ELSE s[1].of

(* What is kept under a key is about what its first bytes were about.      *)
LEMMA ContentKept ==
    ASSUME NEW f \in CanFrame, NEW time \in Nat, NEW map, NEW e, NEW kind,
           Takes(f, time, map, e, kind),
           ActiveIn(map, KeyOf(f)) => map[KeyOf(f)] \in RxEntry,
           NEW p, IsPayload(p), FrameIsOf(f, p)
    PROVE  /\ ActiveIn(map, KeyOf(f)) =>
                 ContentIn(e.payload) \in {ContentIn(map[KeyOf(f)].payload), ContentIn(p)}
           /\ ~ ActiveIn(map, KeyOf(f)) => ContentIn(e.payload) = ContentIn(p)
<1>1. PICK bytes, data : bytes = BytesOf(f) /\ data = f.data
  OBVIOUS
<1>2. /\ RxProcessError(f) = "Ok" /\ f.tail \in TailByte
      /\ bytes \in Seq(Byte) /\ data \in Seq(Byte) /\ p \in Seq(Byte)
  BY <1>1, RxFrameType DEF Takes, Timestamp, BytesOf, CanFrame, IsPayload
<1>3. \A i \in DOMAIN data : Len(p) > 0 /\ data[i].of = p[1].of
  BY <1>1 DEF FrameIsOf
<1>4. bytes # << >> => Len(data) > 0 /\ bytes[1] = data[1]
  <2>1. CASE ClosesMultiFrame(f)
    <3>1. bytes = SubSeq(data, 1, Len(data) - CRC_SIZE)
      BY <1>1, <2>1 DEF BytesOf, RxTransferFrame
    <3>2. Len(data) \in Nat /\ Len(data) >= 2 /\ CRC_SIZE = 2
      BY <1>1, <1>2, <2>1, CanAssumption DEF RxProcessError, FrameLen, ClosesMultiFrame
    <3>3. PICK n : n = Len(data) - CRC_SIZE
      OBVIOUS
    <3>4. n \in Nat /\ n <= Len(data)
      BY <3>2, <3>3
    <3>5. Len(bytes) = n /\ \A i \in 1 .. n : bytes[i] = data[i]
      BY <1>2, <3>1, <3>3, <3>4, PartOf
    <3> QED BY <1>2, <3>2, <3>4, <3>5
  <2>2. CASE ~ ClosesMultiFrame(f)
    <3>1. bytes = data
      BY <1>1, <2>2 DEF BytesOf, RxTransferFrame
    <3> QED BY <1>2, <3>1
  <2> QED BY <2>1, <2>2
<1>5. bytes # << >> => ContentIn(bytes) = ContentIn(p)
  <2> SUFFICES ASSUME bytes # << >> PROVE bytes[1].of = p[1].of /\ p # << >>
    BY DEF ContentIn
  <2>1. 1 \in DOMAIN data /\ bytes[1] = data[1]
    BY <1>2, <1>4
  <2> QED BY <1>2, <1>3, <2>1
<1>6. CASE ActiveIn(map, KeyOf(f))
  <2>1. PICK old, u : /\ old = map[KeyOf(f)]
                      /\ u = Updated(f, old.transport_metadata)
    OBVIOUS
  <2>2. old \in RxEntry /\ map[KeyOf(f)] = old
    BY <1>6, <2>1
  <2>3. u.error # "Ok" => e.payload = old.payload
    BY <1>6, <2>1, <2>2, TakesActive
  <2>4. u.error = "Ok" => e.payload = Joined(old.payload, BytesOf(f))
    BY <1>6, <2>1, <2>2, TakesActive
  <2>5. PICK s : s = old.payload
    OBVIOUS
  <2>6. s \in Seq(Byte)
    BY <2>2, <2>5, EntryParts
  <2>7. ContentIn(s \o bytes) \in {ContentIn(s), ContentIn(p)}
    <3>1. CASE s = << >>
      <4>1. s \o bytes = bytes
        BY <1>2, <3>1
      <4>2. CASE bytes = << >>
        BY <3>1, <4>1, <4>2
      <4>3. CASE bytes # << >>
        BY <1>5, <4>1, <4>3
      <4> QED BY <4>2, <4>3
    <3>2. CASE s # << >>
      <4>1. (s \o bytes)[1] = s[1] /\ s \o bytes # << >>
        BY <1>2, <2>6, <3>2
      <4> QED BY <3>2, <4>1 DEF ContentIn
    <3> QED BY <3>1, <3>2
  <2>8. ContentIn(e.payload) \in {ContentIn(s), ContentIn(p)}
    BY <1>1, <2>3, <2>4, <2>5, <2>7 DEF Joined
  <2> QED BY <1>6, <2>1, <2>5, <2>8
<1>7. CASE ~ ActiveIn(map, KeyOf(f))
  <2>1. PICK u : u = Updated(f, RxMetadataDefault)
    OBVIOUS
  <2>2. f.tail.start /\ e.payload = bytes
    BY <1>1, <1>7, <2>1, TakesFirst
  <2>3. CASE bytes # << >>
    BY <1>5, <1>7, <2>2, <2>3
  <2>4. CASE bytes = << >>
    <3>1. data = << >>
      BY <1>1, <2>2, <2>4 DEF BytesOf, RxTransferFrame, ClosesMultiFrame
    <3>2. f.tail.end
      <4>1. FrameLen(f) = 1
        BY <1>1, <1>2, <3>1 DEF FrameLen, RxProcessError
      <4> QED BY <1>2, <4>1, CanAssumption DEF RxProcessError
    <3>3. p = << >>
      <4>1. Len(p) <= FrameCapacity
        BY <2>2, <3>2 DEF FrameIsOf
      <4> QED BY <1>1, <3>1, <4>1 DEF FrameIsOf
    <3> QED BY <1>7, <2>2, <2>4, <3>3
  <2> QED BY <2>3, <2>4
<1> QED BY <1>6, <1>7
==============================================================================
