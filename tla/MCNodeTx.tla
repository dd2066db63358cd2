------------------------------- MODULE MCNodeTx -------------------------------
(* Small instances of NodeTx for TLC: a node that has an id and one that has *)
(* none, each for itself.                                                    *)
EXTENDS NodeTx

VARIABLES anon_transfers, anon_tokens, anon_result, anon_now

anon_vars == << anon_transfers, anon_tokens, anon_result, anon_now >>

Anonymous ==
    INSTANCE NodeTx WITH id <- None, tx_transfers <- anon_transfers,
                         tx_tokens <- anon_tokens, tx_result <- anon_result, now <- anon_now

\* Nominal priority on one port.
MCPriorities == {4}
MCPortIds == {100}

\* An id beyond the 5 bits it has on the bus.
MCTransferIds == {33}

MCTransmissionTypes == {[type |-> "Broadcast"], [type |-> "Request", node |-> 2]}

\* With 3 payload bytes to a frame: an empty transfer, one and a full frame,
\* 2 and 4 frames (the second with its CRC split over the last two, from a
\* callback that writes less than it asked for), and a callback that fails.
MCBufferUses ==
    {[requested |-> 0, claimed |-> 0], [requested |-> 3, claimed |-> 3],
     [requested |-> 4, claimed |-> 4], [requested |-> 9, claimed |-> 8],
     [requested |-> 4, claimed |-> None]}

\* Callbacks that claim more than they were given.
MCOverClaims ==
    {[requested |-> 1, claimed |-> 9], [requested |-> 4, claimed |-> 5]}

-----------------------------------------------------------------------------
\* They share nothing, so that one stands still while the other does its steps.
MCInit == Init /\ Anonymous!Init

MCNext ==
    \/ Next /\ Anonymous!Init /\ UNCHANGED anon_vars
    \/ Anonymous!Next /\ Init /\ UNCHANGED tx_vars

MCSpec == MCInit /\ [][MCNext]_<< tx_vars, anon_vars >>

MCFairSpec == MCSpec /\ \A k \in TxKeys : WF_tx_vars(TransmitFrame(k))

-----------------------------------------------------------------------------
(* What holds of the tokens of a node with an id holds of those of one     *)
(* without: the transfers that transmit_frame refuses for want of an id    *)
(* are cancelled inside it (node.rs:209), the token and the entry together.*)
AnonymousTokensSound == Anonymous!TxTokensSound

(* A node without an id has its transfers refused at their first frame     *)
(* (legacy.rs:264-280) or not at all: nothing is broken off with some of   *)
(* its frames on the bus.                                                  *)
AnonymousErrorsFirst == Anonymous!NoErrorMidTransfer
===============================================================================
