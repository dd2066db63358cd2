------------------------------- MODULE MCNodeRx -------------------------------
(* A small instance of NodeRx for TLC: node 1 and frames a correct or an     *)
(* incorrect node may put on the bus, with 3 payload bytes to a frame.       *)
EXTENDS NodeRx

CONSTANT d1

\* A message and a request from node 2, and what must not reach the manager.
MessageId == CanMessageIdNew(4, 100, 2)
RequestId == CanServiceIdNew(4, TRUE, 10, 1, 2)
AnonymousId == CanMessageIdNew(4, 100, None)
OtherRequestId == CanServiceIdNew(4, TRUE, 10, 3, 2)
ReservedId == [CanMessageIdNew(4, 100, 2) EXCEPT !.rsvd = TRUE]

TailOf(start, end, toggle) == TailByteNew(start, end, toggle, 0)
AnyTail == {TailOf(s, e, t) : s \in BOOLEAN, e \in BOOLEAN, t \in BOOLEAN}
Single == TailOf(TRUE, TRUE, TRUE)
Start == TailOf(TRUE, FALSE, TRUE)

\* The frames of a 4-byte transfer: 3 bytes, then the fourth and the CRC.
Front == Written(d1, 3)
Back == SubSeq(Written(d1, 4), 4, 4) \o Crc(Written(d1, 4))

Frame(i, data, tail) == [id |-> i, data |-> data, tail |-> tail]

MCFrames ==
    {Frame(MessageId, data, tail) : data \in {Front, Back}, tail \in AnyTail}
    \cup {Frame(MessageId, SubSeq(Front, 1, 1), tail) : tail \in {Start, TailOf(FALSE, TRUE, FALSE)}}
    \cup {Frame(RequestId, Front, Single), Frame(OtherRequestId, Front, Single),
          Frame(ReservedId, Front, Single), Frame(AnonymousId, Front, Start)}
    \cup {Frame(MessageId, << >>, None)}
===============================================================================
