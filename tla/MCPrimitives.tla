---------------------------- MODULE MCPrimitives -----------------------------
(* The parts the rest of the model abstracts from, each for itself: CanId    *)
(* and Crc16, which are functions, on the inputs of a small set, and Clock.  *)
EXTENDS CanId, Crc16, Clock

VARIABLE input           \* the arguments of a function, or what is not one

vars == << input, clock_vars >>

Arg(function, args) == [function |-> function, args |-> args]

-----------------------------------------------------------------------------
\* Inside, at the edge of, and beyond the fields.
NodeIds == {0, 4, 5, 127, 128, 300}
PortIds == {0, 1, 255, 511, 512, 7509, 8191, 8192, 65535}
Priorities == {0, 3, 7}

MessageIds == [priority : Priorities, port : PortIds, source : NodeIds \cup {None}]
ServiceIds == [priority : Priorities, request : BOOLEAN, port : PortIds,
               to : {0, 5, 127, 128}, source : {0, 4, 127, 300}]
TailBytes == [start : BOOLEAN, end : BOOLEAN, toggle : BOOLEAN, id : {0, 1, 31, 32, 255}]

\* Identifiers with up to three bits set.
Bit == {2 ^ i : i \in 0 .. 28}
RawIds == {raw \in {x + y : x, y \in Bit \cup {0}} \cup {2 ^ 25 + x + y : x, y \in Bit} :
              raw \in ExtendedId}

Bytes == {0, 1, 49, 255}
Payloads == {<< b >> : b \in U8} \cup {<< a, b, c >> : a \in Bytes, b \in U8, c \in Bytes}

\* Two neighbouring bytes of a payload changed: xor with a and b.
Changes == [at : 1 .. 7, a : {2 ^ i : i \in 0 .. 7} \cup {255}, b : U8]

Inputs ==
    {Arg("message id", x) : x \in MessageIds} \cup {Arg("service id", x) : x \in ServiceIds}
    \cup {Arg("tail byte", x) : x \in TailBytes} \cup {Arg("raw id", x) : x \in RawIds}
    \cup {Arg("crc", x) : x \in Payloads} \cup {Arg("change", x) : x \in Changes}

Given(function) == input # None /\ input.function = function

-----------------------------------------------------------------------------
\* A function is asked once, beside a clock that stands still.
Init ==
    /\ ClockInit
    /\ \/ input = None
       \/ input \in Inputs /\ ticks = 0 /\ timeout = 0

Next == input = None /\ ClockNext /\ UNCHANGED input

Spec == Init /\ [][Next]_vars

-----------------------------------------------------------------------------
(* Properties. *)

(* The fields of an identifier do not overlap and lie where they are read: *)
(* what is decoded from the bits of new() is the record that CanTransport  *)
(* works with, for every value, those too wide for their field included,   *)
(* and the identifier is an extended one and is accepted by valid().       *)
IdsRoundTrip ==
    LET x == input.args
    IN  /\ Given("message id") =>
             LET raw == CanMessageIdBits(x.priority, x.port, x.source)
             IN  /\ raw \in ExtendedId
                 /\ DecodeId(raw) = CanMessageIdNew(x.priority, x.port, x.source)
        /\ Given("service id") =>
             LET raw == CanServiceIdBits(x.priority, x.request, x.port, x.to, x.source)
             IN  /\ raw \in ExtendedId
                 /\ DecodeId(raw) = CanServiceIdNew(x.priority, x.request, x.port, x.to, x.source)
        /\ Given("tail byte") =>
             DecodeTailByte(TailByteBits(x.start, x.end, x.toggle, x.id))
               = TailByteNew(x.start, x.end, x.toggle, x.id)

(* No bit of an identifier that a node accepts is lost: with the fields    *)
(* read from it new() makes the identifier again, but for the two reserved *)
(* bits of a message that valid() does not look at and, of an anonymous    *)
(* one, the source.                                                        *)
AcceptedIdsAreWhole ==
    Given("raw id") =>
      LET id == DecodeId(input.args)
          Normal(raw) == SetBits(SetBits(raw, 22, 22, 1), 21, 21, 1)
      IN  ~ id.rsvd =>
            IF id.svc
            THEN input.args = CanServiceIdBits(id.priority, id.req, id.service_id,
                                               id.destination_id, id.source_id)
            ELSE IF id.anon
            THEN SetBits(Normal(input.args), 6, 0, 4)
                   = CanMessageIdBits(id.priority, id.subject_id, None)
            ELSE Normal(input.args)
                   = CanMessageIdBits(id.priority, id.subject_id, id.source_id)

(* The 256 entries of the table, and the way digest goes through it, are   *)
(* those of the polynomial that the doc comment of Crc16 names.            *)
TableIsPolynomial ==
    Given("crc") => Digest(CrcInit, input.args) = Remainder(CrcInit, input.args)

(* What the ideal CRC of CanTransport rests on: no change to one byte of a *)
(* payload, or to two neighbouring ones, leaves the CRC as it was.         *)
ChangesAreDetected ==
    Given("change") =>
      LET x == input.args
          payload == << 1, 2, 3, 4, 5, 6, 7, 8 >>
          changed == [payload EXCEPT ![x.at] = @ ^^ x.a, ![x.at + 1] = @ ^^ x.b]
      IN  Digest(CrcInit, changed) # Digest(CrcInit, payload)
===============================================================================
