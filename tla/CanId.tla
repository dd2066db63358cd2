-------------------------------- MODULE CanId --------------------------------
(***************************************************************************)
(* Where the fields of CAN identifiers and tail bytes are (bitfields.rs),  *)
(* on numbers: what the setters of the bitfield! structures write and the  *)
(* getters read.  CanTransport knows identifiers and tail bytes as records *)
(* of their fields; the decoders of this module return those records.      *)
(***************************************************************************)
EXTENDS CanTransport

LOCAL SX == INSTANCE SequencesExt

(* What bitfield! makes of `field: msb, lsb` (or of a single bit). *)
GetBits(word, msb, lsb) == (word \div 2 ^ lsb) % 2 ^ (msb - lsb + 1)
GetBit(word, bit) == GetBits(word, bit, bit) = 1

(* A setter keeps the low bits of the value, and the bits beside its own.  *)
SetBits(word, msb, lsb, value) ==
    word - GetBits(word, msb, lsb) * 2 ^ lsb + (value % 2 ^ (msb - lsb + 1)) * 2 ^ lsb

Set(word, setter) == SetBits(word, setter[1], setter[2], setter[3])
SetAll(setters) == SX!FoldLeft(Set, 0, setters)

BoolBit(b) == IF b THEN 1 ELSE 0

-----------------------------------------------------------------------------
(* Faulty: the source id also covers the reserved bit above it. *)
CanMessageIdBitsWide(priority, subject_id, source_id) ==
    SetAll(<< << 28, 26, priority >>, << 25, 25, 0 >>,
              << 24, 24, BoolBit(source_id = None) >>, << 20, 8, subject_id >>,
              << 7, 0, IF source_id = None THEN 4 ELSE source_id >>,
              << 23, 23, 0 >>, << 22, 22, 1 >>, << 21, 21, 1 >> >>)

(* CanMessageId::new, setter by setter. *)
CanMessageIdBits(priority, subject_id, source_id) ==
    SetAll(<< << 28, 26, priority >>, << 25, 25, 0 >>,
              << 24, 24, BoolBit(source_id = None) >>, << 20, 8, subject_id >>,
              << 6, 0, IF source_id = None THEN 4 ELSE source_id >>,
              << 23, 23, 0 >>, << 22, 22, 1 >>, << 21, 21, 1 >>, << 7, 7, 0 >> >>)

(* CanServiceId::new. *)
CanServiceIdBits(priority, is_request, service_id, destination, source) ==
    SetAll(<< << 28, 26, priority >>, << 25, 25, 1 >>, << 24, 24, BoolBit(is_request) >>,
              << 23, 23, 0 >>, << 22, 14, service_id >>, << 13, 7, destination >>,
              << 6, 0, source >> >>)

(* TailByte::new. *)
TailByteBits(start, end, toggle, transfer_id) ==
    SetAll(<< << 7, 7, BoolBit(start) >>, << 6, 6, BoolBit(end) >>,
              << 5, 5, BoolBit(toggle) >>, << 4, 0, transfer_id >> >>)

(* The bits that ExtendedId::new accepts. *)
ExtendedId == 0 .. 2 ^ 29 - 1

-----------------------------------------------------------------------------
IsSvc(raw) == GetBit(raw, 25)

(* What valid() looks at. *)
CanMessageIdValid(raw) == ~ IsSvc(raw) /\ ~ GetBit(raw, 23) /\ ~ GetBit(raw, 7)

(* Faulty: the reserved bit is not looked at. *)
CanServiceIdValidAlways(raw) == TRUE

CanServiceIdValid(raw) == ~ GetBit(raw, 23)

DecodeMessageId(raw) ==
    [svc |-> FALSE, priority |-> GetBits(raw, 28, 26), anon |-> GetBit(raw, 24),
     subject_id |-> GetBits(raw, 20, 8), source_id |-> GetBits(raw, 6, 0),
     rsvd |-> ~ CanMessageIdValid(raw)]

DecodeServiceId(raw) ==
    [svc |-> TRUE, priority |-> GetBits(raw, 28, 26), req |-> GetBit(raw, 24),
     service_id |-> GetBits(raw, 22, 14), destination_id |-> GetBits(raw, 13, 7),
     source_id |-> GetBits(raw, 6, 0), rsvd |-> ~ CanServiceIdValid(raw)]

(* rx_process_frame takes an identifier by its service bit. *)
DecodeId(raw) == IF IsSvc(raw) THEN DecodeServiceId(raw) ELSE DecodeMessageId(raw)

DecodeTailByte(byte) ==
    [start |-> GetBit(byte, 7), end |-> GetBit(byte, 6), toggle |-> GetBit(byte, 5),
     transfer_id |-> GetBits(byte, 4, 0)]
==============================================================================
