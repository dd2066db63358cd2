------------------------------- MODULE CanLink --------------------------------
(***************************************************************************)
(* Two nodes and the bus between them: the sending half of one (NodeTx),   *)
(* the receiving half of the other (NodeRx), and their applications.       *)
(*                                                                         *)
(* The sending application starts the transfers it is to send, in order,   *)
(* and sends their frames in any order its tokens allow, so that transfers *)
(* interleave.  The bus keeps the order of the frames; it may lose some,   *)
(* and repeat some (a CAN receiver gets a frame again when the sender sees *)
(* an error in its very last bit).                                         *)
(***************************************************************************)
EXTENDS CanTransport

CONSTANTS
    SenderId, ReceiverId,
    Scenarios,           \* what may happen: see Scenario
    Timeout, MaxTime     \* as in NodeTx and NodeRx

ASSUME LinkAssumption ==
    /\ SenderId \in NodeId \cup {None}
    /\ ReceiverId \in NodeId \cup {None}
    /\ Timeout \in Duration
    /\ MaxTime \in Nat

PriorityUsed == 4        \* Nominal

VARIABLES
    tx_transfers, tx_tokens, tx_result,     \* the sending node
    rx_transfers, rx_tokens, rx_result,     \* the receiving node
    now,                 \* the clock both nodes read
    scenario,            \* the one that happens, for good
    plan,                \* the transfers still to be started
    bus,                 \* the frames on their way
    losses, duplicates,  \* numbers of frames lost and repeated
    begun,               \* history: the transfers started
    given                \* history: the number of tokens given, by key

tx_part == << tx_transfers, tx_tokens, tx_result >>
rx_part == << rx_transfers, rx_tokens, rx_result >>
link_part == << scenario, plan, bus, losses, duplicates, begun, given >>
link_vars == << tx_part, rx_part, now, link_part >>

-----------------------------------------------------------------------------
Planned == UNION {{s.sends[i] : i \in DOMAIN s.sends} : s \in Scenarios}

Tx == INSTANCE NodeTx WITH
        id <- SenderId,
        Priorities <- {PriorityUsed},
        PortIds <- {t.port_id : t \in Planned},
        TransferIds <- {t.transfer_id : t \in Planned},
        TransmissionTypes <- {t.tx_kind : t \in Planned},
        BufferUses <- {t.use : t \in Planned}

(* A transfer of the plan.  Its callback keeps to the buffer it is given:  *)
(* what happens if it does not, NodeTx shows.                              *)
Sendable(t) ==
    /\ t.tx_kind \in Tx!TransmissionType
    /\ t.port_id \in PortId
    /\ t.transfer_id \in TransferId
    /\ t.use \in Tx!BufferUse
    /\ t.use.claimed = None \/ t.use.claimed <= t.use.requested
    /\ t.of \in Data

(***************************************************************************)
(* sends: the transfers the sending application sets out to send;          *)
(* losses, repeats: bounds on the frames the bus loses and repeats;        *)
(* sender_cancels, receiver_cancels: whether the application of that node  *)
(* cancels transfers.                                                      *)
(***************************************************************************)
Scenario(s) ==
    /\ DOMAIN s = {"sends", "losses", "repeats", "sender_cancels", "receiver_cancels"}
    /\ s.sends \in Seq({t \in Planned : Sendable(t)})
    /\ s.losses \in Nat /\ s.repeats \in Nat
    /\ s.sender_cancels \in BOOLEAN /\ s.receiver_cancels \in BOOLEAN

ASSUME ScenariosAssumption == \A s \in Scenarios : Scenario(s)

MetadataOf(t) == Tx!TxMetadataOf(PriorityUsed, t.port_id, t.tx_kind, t.transfer_id, 0)
PayloadOf(t) == Written(t.of, t.use.claimed)

(* Where the receiving node keeps a transfer of the plan. *)
BusKey(t) ==
    HashMetadata(RxMetadataOf(TxCanId(MetadataOf(t), SenderId), t.transfer_id % 32, 0))

BusFrames ==
    UNION {LET frames == Tx!RemainingFrames(
                            Tx!NewTxTransfer(MetadataOf(t),
                                ProcessTxCrc(Tx!BufferAfterCallback(t.use, t.of),
                                             t.use.claimed)))
           IN  {frames[i] : i \in DOMAIN frames} : t \in Planned}

Rx == INSTANCE NodeRx WITH
        id <- ReceiverId,
        Frames <- BusFrames,
        MaxBytes <- 0

-----------------------------------------------------------------------------
Init ==
    /\ Tx!Init
    /\ Rx!Init
    /\ scenario \in Scenarios
    /\ plan = scenario.sends
    /\ bus = << >>
    /\ losses = 0
    /\ duplicates = 0
    /\ begun = {}
    /\ given = [k \in Rx!RxKeys |-> 0]

(* The sending application starts the next transfer, if the id is free. *)
Start ==
    /\ plan # << >>
    /\ LET t == Head(plan)
       IN  /\ Tx!StartTxTransfer(PriorityUsed, t.port_id, t.tx_kind, t.transfer_id,
                                 t.use, t.of)
           /\ IF tx_result'.kind = "Started"
              THEN /\ plan' = Tail(plan)
                   /\ begun' = begun \cup {t}
              ELSE UNCHANGED << plan, begun >>
    /\ UNCHANGED << rx_part, scenario, bus, losses, duplicates, given >>

(* It sends one frame of a transfer. *)
Transmit(k) ==
    /\ Tx!TransmitFrame(k)
    /\ bus' = IF tx_result'.kind = "Frame" THEN Append(bus, tx_result'.frame) ELSE bus
    /\ UNCHANGED << rx_part, scenario, plan, losses, duplicates, begun, given >>

CancelTx(k) ==
    /\ scenario.sender_cancels
    /\ Tx!CancelTxTransfer(k)
    /\ UNCHANGED << rx_part, link_part >>

Deliver ==
    /\ bus # << >>
    /\ Rx!ReceiveFrame(Head(bus))
    /\ bus' = Tail(bus)
    /\ given' = IF rx_result'.kind = "Token"
                THEN [given EXCEPT ![rx_result'.token] = @ + 1] ELSE given
    /\ UNCHANGED << tx_part, scenario, plan, losses, duplicates, begun >>

Lose ==
    /\ bus # << >>
    /\ losses < scenario.losses
    /\ bus' = Tail(bus)
    /\ losses' = losses + 1
    /\ UNCHANGED << tx_part, rx_part, now, scenario, plan, duplicates, begun, given >>

Duplicate ==
    /\ bus # << >>
    /\ duplicates < scenario.repeats
    /\ bus' = << Head(bus) >> \o bus
    /\ duplicates' = duplicates + 1
    /\ UNCHANGED << tx_part, rx_part, now, scenario, plan, losses, begun, given >>

(* The receiving application reads, or throws away, what it has a token of. *)
Read(k) ==
    /\ Rx!WithRxTransfer(k)
    /\ UNCHANGED << tx_part, link_part >>

CancelRx(k) ==
    /\ scenario.receiver_cancels
    /\ Rx!CancelRxTransfer(k)
    /\ UNCHANGED << tx_part, link_part >>

(* Both applications call update_transfers, each when it likes. *)
UpdateTx ==
    /\ Tx!UpdateTxTransfers
    /\ UNCHANGED << rx_part, link_part >>

UpdateRx ==
    /\ Rx!UpdateRxTransfers
    /\ UNCHANGED << tx_part, link_part >>

Tick ==
    /\ now < MaxTime
    /\ now' = now + 1
    /\ UNCHANGED << tx_part, rx_part, link_part >>

Next ==
    \/ Start
    \/ \E k \in Tx!TxKeys : Transmit(k)
    \/ \E k \in Tx!TxKeys : CancelTx(k)
    \/ Deliver
    \/ Lose
    \/ Duplicate
    \/ \E k \in Rx!RxKeys : Read(k)
    \/ \E k \in Rx!RxKeys : CancelRx(k)
    \/ UpdateTx
    \/ UpdateRx
    \/ Tick

Spec == Init /\ [][Next]_link_vars

-----------------------------------------------------------------------------
(* Properties. *)

(* The payload the receiving node holds under k is that of one transfer    *)
(* started for k: whole, unmixed, and without the CRC.                     *)
Intact(k) ==
    \E t \in begun : BusKey(t) = k /\ rx_transfers[k].payload = PayloadOf(t)

Multi(t) == t.use.claimed # None /\ t.use.claimed > FrameCapacity

(* The receiving node keeps under one key either single-frame or multi-    *)
(* frame transfers.                                                        *)
SinglesApartIn(s) ==
    \A i, j \in DOMAIN s.sends :
        BusKey(s.sends[i]) = BusKey(s.sends[j])
            => (Multi(s.sends[i]) <=> Multi(s.sends[j]))

SinglesApart == \A s \in Scenarios : SinglesApartIn(s)

(* When the last frame of a multi-frame transfer brings a token, the       *)
(* payload behind it is that of one transfer the sender started, whatever  *)
(* was lost, repeated, interleaved, cancelled, timed out or sent before    *)
(* under the same transfer id: toggle, CRC and the manager's map together  *)
(* (append_frame, update_rx_metadata) let nothing else through as long as  *)
(* no single-frame transfer, which has no CRC, comes under that id too     *)
(* (SinglesApart).                                                         *)
MultiFrameIntact ==
    [][Deliver /\ ClosesMultiFrame(Head(bus)) /\ rx_result'.kind = "Token"
         => Intact(rx_result.token)']_link_vars

(* The same of a token that a single-frame transfer brings: whatever the   *)
(* node still holds under its id, it is a transfer of its own.  The code   *)
(* appends its frame to what it holds (append_frame, map_manager.rs:81).   *)
SingleFrameIntact ==
    [][Deliver /\ Head(bus).tail.start /\ rx_result'.kind = "Token"
         => Intact(rx_result.token)']_link_vars

(* An application that reads what it gets is given no transfer twice, also *)
(* when the bus repeats frames and the sender breaks transfers off: the    *)
(* toggle kept in the entry tells them, as long as an id is used once.     *)
IdsUsedOnce ==
    IsInjective([i \in DOMAIN scenario.sends |-> BusKey(scenario.sends[i])])
AtMostOnce ==
    IdsUsedOnce /\ ~ scenario.receiver_cancels => \A k \in DOMAIN given : given[k] <= 1

(* What transmit_frame makes try_receive_frame accepts, on a bus that      *)
(* keeps every frame and for ids used once.  It fails for payloads whose   *)
(* CRC does not fit into the last frame (rx_process_frame, legacy.rs:147). *)
AcceptsOwnFrames == rx_result.kind # "RxError"
===============================================================================
