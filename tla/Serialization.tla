---------------------------- MODULE Serialization ----------------------------
(***************************************************************************)
(* The code that #[derive(UavcanStruct)] generates for a struct            *)
(* (uavcan-derive/src/lib.rs): serialize and deserialize, which stop when  *)
(* the buffer of a frame is full, or empty, and go on in the next call     *)
(* from (flattened_field, bit).  Both bodies walk through the fields in    *)
(* the same way, so Walk stands for both; bits have no values, a bit is    *)
(* known by its place in the struct.                                       *)
(*                                                                         *)
(* A type is a leaf, which is what the generated code hands on to its      *)
(* library (a primitive type, or an array of `count` elements), or a       *)
(* struct, whose code is again generated; a struct names its fields' types.*)
(***************************************************************************)
EXTENDS Integers, SequencesExt

CONSTANTS
    Types,               \* the types: for each name, a Leaf or a StructOf
    Structs,             \* names of the structs to be sent
    Capacities           \* bits that a buffer may have room for

(* classify_type. *)
LeafClasses == {"PrimitiveType", "StaticArray", "DynamicArray"}

Leaf(class, width, count) == [class |-> class, width |-> width, count |-> count]
StructOf(fields) == [class |-> "Struct", fields |-> fields]
IsLeaf(type) == Types[type].class \in LeafClasses
FieldsOf(type) == Types[type].fields

ASSUME TypesAssumption ==
    /\ Structs \subseteq DOMAIN Types
    /\ \A type \in Structs : ~ IsLeaf(type)
    /\ \A type \in DOMAIN Types :
         Types[type].class = "PrimitiveType" => Types[type].count = 1
    /\ Capacities \subseteq Nat \ {0}

(* FLATTENED_FIELDS_NUMBER. *)
FlattenedFieldsNumber[type \in DOMAIN Types] ==
    IF IsLeaf(type) THEN Types[type].count
    ELSE LET first[i \in 1 .. Len(FieldsOf(type)) + 1] ==
               IF i = 1 THEN 0 ELSE first[i - 1] + FlattenedFieldsNumber[FieldsOf(type)[i - 1]]
         IN  first[Len(FieldsOf(type)) + 1]

(* Faulty: every field counts for one. *)
FieldLengthOne(type) == 1

FieldLength(type) ==
    IF Types[type].class = "PrimitiveType" THEN 1 ELSE FlattenedFieldsNumber[type]

(* field_index: the flattened fields before field i. *)
FieldIndex(type, i) ==
    LET first[j \in 1 .. i] ==
          IF j = 1 THEN 0 ELSE first[j - 1] + FieldLength(FieldsOf(type)[j - 1])
    IN  first[i]

(* The arms of the if-else chain that flattened_field falls into.          *)
Arms(type, flattened_field) ==
    {i \in DOMAIN FieldsOf(type) :
       /\ FieldIndex(type, i) <= flattened_field
       /\ flattened_field < FieldIndex(type, i) + FieldLength(FieldsOf(type)[i])}

-----------------------------------------------------------------------------
(***************************************************************************)
(* A call in progress: flattened_field and bit; last_field; the room left  *)
(* in the buffer; the bits that have passed through it, each a place in    *)
(* the struct with what its field was told of last_field; and the result,  *)
(* with which the call ends.                                               *)
(***************************************************************************)
Call(flattened_field, bit, room) ==
    [flattened_field |-> flattened_field, bit |-> bit, last_field |-> TRUE,
     room |-> room, passed |-> << >>, result |-> "Called"]

CallResults == {"Called", "Looping", "Finished", "Buffer", "Panic", "Hang"}
CallRecord ==
    [flattened_field : Nat, bit : Nat, last_field : BOOLEAN, room : Nat,
     passed : Seq([path : Seq(Nat), at : Nat, last : BOOLEAN]), result : CallResults]

(* serialize and deserialize of a leaf, at `path` in the struct.  It stops *)
(* where the room ends, and leaves the bit it has come to for its caller   *)
(* to reset.                                                               *)
WalkLeaf(leaf, path, call) ==
    LET from == call.flattened_field * leaf.width + call.bit
        size == leaf.count * leaf.width
        to == IF call.room < size - from THEN from + call.room ELSE size
        done == [call EXCEPT
                   !.room = @ - (to - from),
                   !.passed = @ \o [i \in 1 .. to - from |->
                                      [path |-> path, at |-> from + i, last |-> call.last_field]]]
    IN  IF to = size
        THEN [done EXCEPT !.flattened_field = leaf.count, !.bit = leaf.width,
                          !.result = "Finished"]
        ELSE [done EXCEPT !.flattened_field = to \div leaf.width, !.bit = to % leaf.width,
                          !.result = "Buffer"]

(* Faulty: the last field of an inner struct is told that it is the last.  *)
IsLastOfItsOwn(type, i, last_field) == i = Len(FieldsOf(type))

(* #last_field && last_field *)
IsLastField(type, i, last_field) == i = Len(FieldsOf(type)) /\ last_field

(* Faulty: the next field starts at the bit where this one ended. *)
AfterFieldNoReset(call) == [call EXCEPT !.result = "Looping"]

(* A field is finished: *bit = 0, and the loop goes on. *)
AfterField(call) == [call EXCEPT !.bit = 0, !.result = "Looping"]

(* serialize or deserialize of any type.  For a struct: the asserts, which *)
(* panic, and the `while`, whose every round is one more application; a    *)
(* flattened_field that no arm takes makes it loop for ever.               *)
Walk[type \in DOMAIN Types, path \in Seq(Nat), call \in CallRecord] ==
    IF IsLeaf(type) THEN WalkLeaf(Types[type], path, call)
    ELSE LET field == call.flattened_field
             number == FlattenedFieldsNumber[type]
             arms == Arms(type, field)
             i == CHOOSE i \in arms : \A j \in arms : i <= j
             index == FieldIndex(type, i)
             inner == Walk[FieldsOf(type)[i], Append(path, i),
                           [call EXCEPT !.flattened_field = field - index, !.result = "Called",
                                        !.last_field = IsLastField(type, i, call.last_field)]]
             back == [inner EXCEPT !.flattened_field = index + @, !.last_field = call.last_field]
         IN  IF field = number /\ call.result = "Looping"
             THEN [call EXCEPT !.result = "Finished"]
             ELSE IF field >= number THEN [call EXCEPT !.result = "Panic"]
             ELSE IF arms = {} THEN [call EXCEPT !.result = "Hang"]
             ELSE IF inner.result = "Finished" THEN Walk[type, path, AfterField(back)]
             ELSE back

-----------------------------------------------------------------------------
VARIABLES
    struct,              \* the struct that is sent
    writer, reader,      \* how far the sender and the receiver have come
    wire,                \* the bits that have been sent, in order
    read                 \* the bits that have been read: wire to place

ser_vars == << struct, writer, reader, wire, read >>

(* What the caller keeps between two calls. *)
Position(call) ==
    [flattened_field |-> call.flattened_field, bit |-> call.bit, result |-> call.result]
Begin == [flattened_field |-> 0, bit |-> 0, result |-> "Buffer"]
Goes(position) == position.result = "Buffer"

(* A struct all of whose fields are empty cannot be sent: the first assert *)
(* of its code fails.                                                      *)
ASSUME StructsAssumption == \A type \in Structs : FlattenedFieldsNumber[type] > 0

Init ==
    /\ struct \in Structs
    /\ writer = Begin
    /\ reader = Begin
    /\ wire = << >>
    /\ read = << >>

(* serialize with the buffer of another frame. *)
Serialize(capacity) ==
    /\ Goes(writer)
    /\ \E call \in {Walk[struct, << >>, Call(writer.flattened_field, writer.bit, capacity)]} :
         /\ writer' = Position(call)
         /\ wire' = wire \o call.passed
    /\ UNCHANGED << struct, reader, read >>

(* deserialize with the next bits of what has been sent so far, however it *)
(* was divided.                                                            *)
Deserialize(capacity) ==
    /\ Goes(reader)
    /\ Len(read) < Len(wire)
    /\ LET rest == Len(wire) - Len(read)
           bits == IF capacity < rest THEN capacity ELSE rest
       IN  \E call \in {Walk[struct, << >>, Call(reader.flattened_field, reader.bit, bits)]} :
             /\ reader' = Position(call)
             /\ read' = read \o call.passed
    /\ UNCHANGED << struct, writer, wire >>

Next == \E capacity \in Capacities : Serialize(capacity) \/ Deserialize(capacity)

(* The sender and the receiver go on as long as they are not finished.     *)
Spec == Init /\ [][Next]_ser_vars /\ WF_ser_vars(Next)

-----------------------------------------------------------------------------
(* Properties. *)

(* What a struct is to look like: the bits of its leaves, one after the    *)
(* other, and of these only those of the very last leaf told so.           *)
Layout[type \in DOMAIN Types, path \in Seq(Nat), last \in BOOLEAN] ==
    IF IsLeaf(type)
    THEN [i \in 1 .. Types[type].count * Types[type].width |->
            [path |-> path, at |-> i, last |-> last]]
    ELSE LET fields == FieldsOf(type)
             upTo[i \in 0 .. Len(fields)] ==
               IF i = 0 THEN << >>
               ELSE upTo[i - 1] \o Layout[fields[i], Append(path, i), last /\ i = Len(fields)]
         IN  upTo[Len(fields)]

(* Whatever room the frames have, and wherever in an inner struct one is   *)
(* full, the frames together hold every bit of the struct once, in order.  *)
Places(bits) == [i \in DOMAIN bits |-> << bits[i].path, bits[i].at >>]
SentInOrder ==
    LET layout == Places(Layout[struct, << >>, TRUE])
    IN  /\ IsPrefix(Places(wire), layout)
        /\ writer.result = "Finished" => Places(wire) = layout

(* The receiver puts every bit where the sender took it from, although its *)
(* buffers are divided otherwise.                                          *)
ReadAsSent == IsPrefix(Places(read), Places(wire))

(* Only the last leaf of the whole struct is told that it is the last      *)
(* field (which lets an array leave out its length), also when it is deep  *)
(* in an inner struct, and also by the call that goes on with it.          *)
OnlyLastIsTold == IsPrefix(wire, Layout[struct, << >>, TRUE])

(* Both come to their end: no assert fails, no loop goes on for ever, and  *)
(* no call stops without having moved on.                                  *)
BothFinish == <>(writer.result = "Finished" /\ reader.result = "Finished")
==============================================================================
