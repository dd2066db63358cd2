------------------------------ MODULE MCNetwork -------------------------------
(* Three nodes for TLC, with 3 payload bytes to a frame. *)
EXTENDS Network

CONSTANTS d1, d2, r1, r2

AnyNode == [type |-> "Broadcast"]
Request(node) == [type |-> "Request", node |-> node]

Send(tx_kind, size, d) ==
    [tx_kind |-> tx_kind, port_id |-> 100, transfer_id |-> 0,
     use |-> [requested |-> size, claimed |-> size], of |-> d]

\* 3 bytes are a single frame, 4 are two frames.
\* All use one port and one transfer id: both peers as client and as server,
\* with an anonymous publication between; and a request among publications.
Crossing ==
    [a |-> << Send(Request(IdB), 4, d1) >>,
     b |-> << Send(Request(IdA), 3, d2) >>,
     c |-> << Send(AnyNode, 3, d1) >>]

Publishing ==
    [a |-> << Send(AnyNode, 4, d1), Send(Request(IdB), 3, d2) >>,
     b |-> << Send(AnyNode, 3, d2) >>,
     c |-> << Send(AnyNode, 2, d1) >>]

\* For a bus that is not calm.
Requests ==
    [a |-> << Send(Request(IdB), 4, d1) >>, b |-> << Send(Request(IdA), 3, d2) >>, c |-> << >>]

Single ==
    [a |-> << Send(Request(IdB), 4, d1) >>, b |-> << >>, c |-> << Send(AnyNode, 3, d2) >>]

Under(condition, p) == [a |-> p.a, b |-> p.b, c |-> p.c, conditions |-> condition]

MCPlans ==
    {Under("calm", Crossing), Under("calm", Publishing),
     Under("faulty", Requests), Under("slow", Single)}

(* No plan uses its ids twice: what DeliversTransfers needs is so. *)
ASSUME MCPlansUseIdsOnce == PlansUseIdsOnce

(* Nor does any payload divide its CRC: what CalmBusAccepts needs is so. *)
ASSUME MCUndividedCrcs == UndividedCrcs

MCReplyUse == [requested |-> 4, claimed |-> 4]
MCReplyTo == [d \in Data \cup {None} |-> IF d = d1 THEN r1 ELSE r2]
===============================================================================
