--------------------------- MODULE TxFragmentation ---------------------------
(***************************************************************************)
(* What the sending half of a node promises: each transfer it begins is a  *)
(* well-formed sequence of CAN frames, and the frames it hands out for a   *)
(* transfer are those of the sequence, each once and in order, whatever    *)
(* else is begun, sent or given up in between.                             *)
(*                                                                         *)
(* This is the promise, not the mechanism: there are no buffers, offsets   *)
(* or toggles to keep up to date here.                                     *)
(***************************************************************************)
EXTENDS CanTransport

CONSTANT Keys            \* names of the transfers

VARIABLES
    todo,                \* the frames still to be handed out, by transfer
    out                  \* the frame handed out by the last step, or None

(* All bytes of a sequence of frames of which all but the last are full.   *)
Reassembled(frames) ==
    [j \in 1 .. FrameCapacity * (Len(frames) - 1) + Len(frames[Len(frames)].data) |->
        frames[(j - 1) \div FrameCapacity + 1].data[((j - 1) % FrameCapacity) + 1]]

EndsWithCrc(bytes) ==
    LET n == Len(bytes) - CRC_SIZE
    IN  n > FrameCapacity /\ SubSeq(bytes, n + 1, Len(bytes)) = Crc(SubSeq(bytes, 1, n))

(* A whole transfer, as the receiving node must find it on the bus.        *)
IsTransfer(frames) ==
    LET last == Len(frames)
    IN  /\ last >= 1
        /\ \A i \in 1 .. last :
             /\ frames[i].id = frames[1].id
             /\ frames[i].tail.transfer_id = frames[1].tail.transfer_id
             /\ frames[i].tail.start <=> i = 1
             /\ frames[i].tail.end <=> i = last
             /\ frames[i].tail.toggle <=> i % 2 = 1
             /\ i < last => Len(frames[i].data) = FrameCapacity
        /\ Len(frames[last].data) <= FrameCapacity
        /\ last > 1 => EndsWithCrc(Reassembled(frames))

Init == todo = EmptyMap /\ out = None

Begin(k) ==
    /\ k \notin DOMAIN todo
    /\ k \in DOMAIN todo'
    /\ IsTransfer(todo'[k])
    /\ todo' = Insert(todo, k, todo'[k])
    /\ out' = None

HandOut(k) ==
    /\ k \in DOMAIN todo
    /\ out' = todo[k][1]
    /\ todo' = IF Len(todo[k]) > 1
               THEN [todo EXCEPT ![k] = Tail(@)]
               ELSE Remove(todo, k)

(* Transfers are given up when cancelled or timed out; none is a case too. *)
GiveUp ==
    /\ DOMAIN todo' \subseteq DOMAIN todo
    /\ todo' = Restrict(todo, DOMAIN todo')
    /\ out' = None

Next == (\E k \in Keys : Begin(k) \/ HandOut(k)) \/ GiveUp

Spec == Init /\ [][Next]_<< todo, out >>
==============================================================================
