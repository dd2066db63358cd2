-------------------------------- MODULE Node ---------------------------------
(***************************************************************************)
(* A whole node (node.rs): its sending half (NodeTx) and its receiving     *)
(* half (NodeRx) over one transfer manager, which keeps both maps and goes *)
(* through both of them in one call of update_transfers.                   *)
(***************************************************************************)
EXTENDS CanTransport

CONSTANTS
    id,                                     \* Node::id
    Priorities, PortIds, TransferIds, TransmissionTypes, BufferUses,  \* see NodeTx
    Frames, MaxBytes,                       \* see NodeRx
    Timeout, MaxTime

VARIABLES
    tx_transfers, tx_tokens, tx_result,     \* the sending half
    rx_transfers, rx_tokens, rx_result,     \* the receiving half
    now

tx_part == << tx_transfers, tx_tokens, tx_result >>
rx_part == << rx_transfers, rx_tokens, rx_result >>
node_vars == << tx_part, rx_part >>

Tx == INSTANCE NodeTx
Rx == INSTANCE NodeRx

NodeInit == Tx!Init /\ Rx!Init

StartTxTransfer(priority, port_id, tx_kind, transfer_id, use, d) ==
    /\ Tx!StartTxTransfer(priority, port_id, tx_kind, transfer_id, use, d)
    /\ UNCHANGED rx_part

TransmitFrame(k) == Tx!TransmitFrame(k) /\ UNCHANGED rx_part

TryReceiveFrame(can_frame) == Rx!ReceiveFrame(can_frame) /\ UNCHANGED tx_part

WithRxTransfer(k) == Rx!WithRxTransfer(k) /\ UNCHANGED tx_part

(* Both loops of update_transfers, with one timestamp and one timeout. *)
UpdateTransfers == Tx!UpdateTxTransfers /\ Rx!UpdateRxTransfers
==============================================================================
