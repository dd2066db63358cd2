--------------------------- MODULE MCSessionManager ---------------------------
(* A small instance of the two session managers: two nodes send transfers of *)
(* one, two and four frames, one byte of data to a frame, on one port, and a *)
(* third, without an id, may send to another.                                *)
EXTENDS HeapSessionManager

TailOctet == 0

Sub(port_id, extent, timeout) ==
    [transfer_kind |-> "Message", port_id |-> port_id, extent |-> extent, timeout |-> timeout]

\* The i-th frame of a transfer of Len(whole) bytes.
FrameOf(port_id, node, transfer_id, whole, i) ==
    [transfer_kind |-> "Message", port_id |-> port_id, source_node_id |-> node,
     transfer_id |-> transfer_id, start_of_transfer |-> i = 1,
     end_of_transfer |-> i = Len(whole), toggle |-> i % 2 = 1,
     payload |-> << whole[i], TailOctet >>, len |-> 1, whole |-> whole]

FramesOf(port_id, node, transfer_id, whole) ==
    {FrameOf(port_id, node, transfer_id, whole, i) : i \in DOMAIN whole}

MCSubscriptions == {Sub(100, 4, 1), Sub(100, 2, 0), Sub(101, 3, 1)}

\* The third frame of node 2 (the fourth has the CRC) begins like its first.
MCFrames ==
    FramesOf(100, 2, 1, << 0, 0, 0, 9 >>)
    \cup FramesOf(100, 2, 2, << 21 >>)
    \cup FramesOf(100, 3, 1, << 31, 32 >>)
    \cup FramesOf(101, None, 1, << 41 >>)

ASSUME MCFramesAssumption == SinglesAreWhole
===============================================================================
