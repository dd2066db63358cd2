------------------------------ MODULE Transfers ------------------------------
(***************************************************************************)
(* The transport-agnostic description of a transfer (transfer/mod.rs) and  *)
(* what every transfer manager does with it: the key under which a         *)
(* transfer is stored, and the test for its expiry (transfer/manager.rs).  *)
(***************************************************************************)
EXTENDS Integers, Sequences, Functions

CONSTANT None            \* Option::None

(* Integer types of types.rs and the Priority enumeration of lib.rs. *)
NodeId == 0 .. 65535
PortId == 0 .. 65535
TransferId == 0 .. 255
Priority == 0 .. 7

ASSUME NoneAssumption == None \notin NodeId

TransferKind == {"Message", "Response", "Request"}

(* Timestamps are ticks of the node's clock, durations numbers of ticks. *)
Timestamp == Nat
Duration == Nat

TransferMetadata ==
    [timestamp : Timestamp,
     priority : Priority,
     transfer_kind : TransferKind,
     port_id : PortId,
     source_node_id : NodeId \cup {None},
     destination_node_id : NodeId \cup {None},
     transfer_id : TransferId]

(* The discriminant `transfer_kind as u8`. *)
KindOrdinal == [Message |-> 0, Response |-> 1, Request |-> 2]

Optional(x) == IF x = None THEN << >> ELSE << x >>

(* Faulty: the timestamp is hashed too. *)
HashMetadataWithTime(metadata) ==
    << metadata.timestamp, metadata.priority, KindOrdinal[metadata.transfer_kind] >>
    \o Optional(metadata.source_node_id) \o Optional(metadata.destination_node_id)
    \o << metadata.port_id, metadata.transfer_id >>

(***************************************************************************)
(* What is written to the hasher, in order: the timestamp is left out, and *)
(* an absent node id leaves no trace.  The 64-bit hash itself is taken to  *)
(* have no collisions, so this sequence stands for the token.              *)
(***************************************************************************)
HashMetadata(metadata) ==
    << metadata.priority, KindOrdinal[metadata.transfer_kind] >>
    \o Optional(metadata.source_node_id)
    \o Optional(metadata.destination_node_id)
    \o << metadata.port_id, metadata.transfer_id >>

Token == Seq(Nat)

(* Faulty: the operands are swapped. *)
TimestampExpiredSwapped(timeout, now, then) == then - now > timeout

(* A transfer expires when strictly more than the timeout has passed. *)
TimestampExpired(timeout, now, then) == now - then > timeout

(* HashMap::insert and HashMap::remove on a map from tokens. *)
Insert(map, k, v) == [x \in DOMAIN map \cup {k} |-> IF x = k THEN v ELSE map[x]]
Remove(map, k) == Restrict(map, DOMAIN map \ {k})
EmptyMap == [x \in {} |-> x]
==============================================================================
