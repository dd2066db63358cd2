------------------------------ MODULE MCCanLink -------------------------------
(* Small instances of CanLink for TLC, with 3 payload bytes to a frame.      *)
EXTENDS CanLink

CONSTANTS d1, d2

Broadcast == [type |-> "Broadcast"]
Request == [type |-> "Request", node |-> ReceiverId]

Send(tx_kind, port_id, transfer_id, size, d) ==
    [tx_kind |-> tx_kind, port_id |-> port_id, transfer_id |-> transfer_id,
     use |-> [requested |-> size, claimed |-> size], of |-> d]

\* Sizes: 3 is a single frame, 4 gives 2 frames, 6 gives 3 frames, 9 gives 4.
\* 5 gives 3 frames, the last of which holds half of the CRC.

\* Ids used once; the sender breaks transfers off.
Lossy(sends) ==
    [sends |-> sends, losses |-> 1, repeats |-> 1,
     sender_cancels |-> TRUE, receiver_cancels |-> FALSE]

\* Ids used again; the receiving application throws away what it likes.
Reuse(sends) ==
    [sends |-> sends, losses |-> 2, repeats |-> 1,
     sender_cancels |-> FALSE, receiver_cancels |-> TRUE]

Clean(sends) ==
    [sends |-> sends, losses |-> 0, repeats |-> 0,
     sender_cancels |-> FALSE, receiver_cancels |-> FALSE]

\* 1 and 33 are two ids for the sending node and one on the bus.
LossyAndReuse ==
    {Lossy(<< Send(Broadcast, 100, 0, 9, d1), Send(Broadcast, 100, 1, 3, d2) >>),
     Lossy(<< Send(Broadcast, 100, 0, 4, d1), Send(Request, 100, 0, 6, d2) >>),
     Reuse(<< Send(Broadcast, 100, 1, 9, d1), Send(Broadcast, 100, 33, 9, d2) >>),
     Reuse(<< Send(Broadcast, 100, 1, 4, d1), Send(Broadcast, 100, 33, 6, d2),
              Send(Broadcast, 100, 1, 4, d1) >>)}

ASSUME LossyAndReuseApart == \A s \in LossyAndReuse : SinglesApartIn(s)

SplitCrc == {Clean(<< Send(Broadcast, 100, 0, 5, d1), Send(Broadcast, 100, 1, 4, d2) >>)}
SingleReuse == {Clean(<< Send(Broadcast, 100, 1, 4, d1), Send(Broadcast, 100, 33, 3, d2) >>)}
===============================================================================
