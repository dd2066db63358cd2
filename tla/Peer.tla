-------------------------------- MODULE Peer ---------------------------------
(***************************************************************************)
(* A node and the application that drives it.  The application starts the  *)
(* transfers of its plan and sends them, one after the other; it takes the *)
(* frames that have arrived, and reads a transfer as soon as it has a      *)
(* token of it; and it answers every request it has read: with a response  *)
(* on the request's port, under its transfer id, to the node it came from. *)
(* Frames may arrive between any two frames it sends.                      *)
(*                                                                         *)
(* The application is what the crate is made for, and no part of it.       *)
(***************************************************************************)
EXTENDS Node

CONSTANTS
    ReplyUse,            \* the buffer the application uses for responses
    ReplyTo              \* its response to a payload content, as a function

PriorityUsed == 4        \* Nominal

VARIABLES
    plan,                \* transfers still to be started, in order
    answers,             \* responses still to be started, in order
    inbox                \* frames the CAN controller has received, in order

app_vars == << plan, answers, inbox >>
peer_vars == << node_vars, app_vars >>

(* The metadata of a transfer that is to be sent. *)
MetadataToSend(t) ==
    Tx!TxMetadataOf(PriorityUsed, t.port_id, t.tx_kind, t.transfer_id, 0)

(* A transfer as an application sees it that reads it.  `from` is the node *)
(* id the frames carry, and to the one they are for.                       *)
Seen(metadata, payload) ==
    [kind |-> metadata.transfer_kind, port_id |-> metadata.port_id,
     from |-> metadata.source_node_id, to |-> metadata.destination_node_id,
     transfer_id |-> metadata.transfer_id, payload |-> payload]

(* A transfer to be sent, as it is to be seen. *)
ToBeSeen(t) ==
    Seen(RxMetadataOf(TxCanId(MetadataToSend(t), id), t.transfer_id % 32, 0),
         Written(t.of, t.use.claimed))

(* What a payload is about. *)
ContentOf(payload) == IF payload = << >> THEN None ELSE payload[1].of

(* The answer to a request. *)
AnswerTo(metadata, payload) ==
    [tx_kind |-> [type |-> "Response", node |-> metadata.source_node_id],
     port_id |-> metadata.port_id, transfer_id |-> metadata.transfer_id,
     use |-> ReplyUse, of |-> ReplyTo[ContentOf(payload)]]

(* The frames a transfer is made of. *)
FramesOf(t) ==
    Tx!RemainingFrames(
        Tx!NewTxTransfer(MetadataToSend(t),
            ProcessTxCrc(Tx!BufferAfterCallback(t.use, t.of), t.use.claimed)))

-----------------------------------------------------------------------------
PeerInit(planned) ==
    /\ NodeInit
    /\ plan = planned
    /\ answers = << >>
    /\ inbox = << >>

Sending == \E k \in DOMAIN tx_tokens : tx_tokens[k] > 0
HasUnread == \E k \in DOMAIN rx_tokens : rx_tokens[k] > 0

StartTransfer(t) ==
    /\ ~ Sending
    /\ StartTxTransfer(PriorityUsed, t.port_id, t.tx_kind, t.transfer_id, t.use, t.of)

Started == tx_result'.kind = "Started"

(* A start that is refused is tried again later. *)
StartPlanned ==
    /\ plan # << >>
    /\ StartTransfer(Head(plan))
    /\ plan' = IF Started THEN Tail(plan) ELSE plan
    /\ UNCHANGED << answers, inbox >>

StartAnswer ==
    /\ answers # << >>
    /\ StartTransfer(Head(answers))
    /\ answers' = IF Started THEN Tail(answers) ELSE answers
    /\ UNCHANGED << plan, inbox >>

(* The frame goes to the bus. *)
Transmit(k) == TransmitFrame(k) /\ UNCHANGED app_vars

Receive ==
    /\ inbox # << >>
    /\ ~ HasUnread
    /\ TryReceiveFrame(Head(inbox))
    /\ inbox' = Tail(inbox)
    /\ UNCHANGED << plan, answers >>

(* The callback of with_rx_transfer notes the answer to a request. *)
Read(k) ==
    /\ WithRxTransfer(k)
    /\ answers' = IF rx_result'.kind = "Read"
                     /\ rx_result'.metadata.transfer_kind = "Request"
                  THEN Append(answers, AnswerTo(rx_result'.metadata, rx_result'.payload))
                  ELSE answers
    /\ UNCHANGED << plan, inbox >>

Update == UpdateTransfers /\ UNCHANGED app_vars
==============================================================================
