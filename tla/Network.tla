------------------------------- MODULE Network -------------------------------
(***************************************************************************)
(* Three nodes on one CAN bus: two peers, a and b, that publish, request   *)
(* and respond, and an anonymous node c that publishes.  A frame that one  *)
(* node sends reaches every other one; each node takes the frames it has   *)
(* received when its application polls it.                                 *)
(*                                                                         *)
(* The conditions are calm, faulty or slow for good.  On a calm bus every  *)
(* frame arrives and the timeout is never reached: the clock stands still. *)
(* On a faulty one a bounded number of frames is lost or repeated on their *)
(* way into one node; on a slow one time passes.                           *)
(***************************************************************************)
EXTENDS CanTransport, Bags, BagsExt

CONSTANTS
    IdA, IdB,            \* node ids of the peers
    Plans,               \* what the nodes set out to send, and the conditions
    ReplyUse, ReplyTo,   \* see Peer
    Timeout, MaxTime,    \* see NodeTx
    MaxFaults            \* bound on the frames lost and repeated

VARIABLES
    a_tx_transfers, a_tx_tokens, a_rx_transfers, a_rx_tokens,
    a_plan, a_answers, a_inbox,          \* peer a
    b_tx_transfers, b_tx_tokens, b_rx_transfers, b_rx_tokens,
    b_plan, b_answers, b_inbox,          \* peer b
    c_tx_transfers, c_tx_tokens, c_plan, \* the anonymous node
    tx_result, rx_result,                \* what the last calls returned, of any node
    now,                 \* the clock they all read
    conditions,          \* "calm", "faulty" or "slow"
    faults,              \* the number of frames lost and repeated
    sent,                \* history: the transfers sent
    received             \* history: by peer, the bag of transfers read

a_vars == << a_tx_transfers, a_tx_tokens, a_rx_transfers, a_rx_tokens, a_plan, a_answers >>
b_vars == << b_tx_transfers, b_tx_tokens, b_rx_transfers, b_rx_tokens, b_plan, b_answers >>
c_vars == << c_tx_transfers, c_tx_tokens, c_plan >>
results == << tx_result, rx_result >>
inboxes == << a_inbox, b_inbox >>
bus_vars == << conditions, faults >>
history == << sent, received >>
network_vars == << a_vars, b_vars, c_vars, results, inboxes, now, bus_vars, history >>

-----------------------------------------------------------------------------
ToSend == UNION {{p[n][i] : i \in DOMAIN p[n]} : p \in Plans, n \in {"a", "b", "c"}}

Responses ==
    {[type |-> "Response", node |-> n] : n \in {IdA % 128, IdB % 128}}

NetworkUses == {t.use : t \in ToSend} \cup {ReplyUse}

(* The constants of the instances that all three nodes share; Frames only  *)
(* serves to know the keys under which a node may receive.  A response has *)
(* the ids of its request as the frames of that carry them.                *)
NetworkPriorities == {4}
NetworkPortIds == UNION {{t.port_id, t.port_id % 512} : t \in ToSend}
NetworkTransferIds == UNION {{t.transfer_id, t.transfer_id % 32} : t \in ToSend}
NetworkTypes == {t.tx_kind : t \in ToSend} \cup Responses

KeyFrame(can_id, transfer_id) ==
    [id |-> can_id, data |-> << >>, tail |-> TailByteNew(TRUE, TRUE, TRUE, transfer_id)]

NetworkFrames ==
    {KeyFrame(CanMessageIdNew(4, p, n), t) :
        p \in NetworkPortIds, n \in {IdA, IdB, None}, t \in NetworkTransferIds}
    \cup {KeyFrame(CanServiceIdNew(4, r, p, to, n), t) :
            r \in BOOLEAN, p \in NetworkPortIds, to \in {IdA, IdB}, n \in {IdA, IdB},
            t \in NetworkTransferIds}

A == INSTANCE Peer WITH
        id <- IdA, Priorities <- NetworkPriorities, PortIds <- NetworkPortIds,
        TransferIds <- NetworkTransferIds, TransmissionTypes <- NetworkTypes,
        BufferUses <- NetworkUses, Frames <- NetworkFrames, MaxBytes <- 0,
        tx_transfers <- a_tx_transfers, tx_tokens <- a_tx_tokens,
        rx_transfers <- a_rx_transfers, rx_tokens <- a_rx_tokens,
        plan <- a_plan, answers <- a_answers, inbox <- a_inbox

B == INSTANCE Peer WITH
        id <- IdB, Priorities <- NetworkPriorities, PortIds <- NetworkPortIds,
        TransferIds <- NetworkTransferIds, TransmissionTypes <- NetworkTypes,
        BufferUses <- NetworkUses, Frames <- NetworkFrames, MaxBytes <- 0,
        tx_transfers <- b_tx_transfers, tx_tokens <- b_tx_tokens,
        rx_transfers <- b_rx_transfers, rx_tokens <- b_rx_tokens,
        plan <- b_plan, answers <- b_answers, inbox <- b_inbox

(* The anonymous node does not poll its CAN controller. *)
C == INSTANCE NodeTx WITH
        id <- None, Priorities <- NetworkPriorities, PortIds <- NetworkPortIds,
        TransferIds <- NetworkTransferIds, TransmissionTypes <- NetworkTypes,
        BufferUses <- NetworkUses,
        tx_transfers <- c_tx_transfers, tx_tokens <- c_tx_tokens

(* A transfer the anonymous node sends, as others are to see it. *)
SeenFromC(t) ==
    A!Seen(RxMetadataOf(TxCanId(C!TxMetadataOf(4, t.port_id, t.tx_kind, t.transfer_id, 0),
                                None), t.transfer_id % 32, 0),
           Written(t.of, t.use.claimed))

SeenFrom(n, t) ==
    CASE n = "a" -> A!ToBeSeen(t)
      [] n = "b" -> B!ToBeSeen(t)
      [] n = "c" -> SeenFromC(t)

-----------------------------------------------------------------------------
(* Callbacks keep to the buffers they are given: what happens if they do   *)
(* not, NodeTx shows.                                                      *)
Honest(use) ==
    /\ use \in C!BufferUse
    /\ use.claimed = None \/ use.claimed <= use.requested

(* Responses are not planned: they answer requests. *)
Sendable(t) ==
    /\ t.tx_kind \in C!TransmissionType /\ t.tx_kind.type # "Response"
    /\ t.port_id \in PortId
    /\ t.transfer_id \in TransferId
    /\ Honest(t.use)
    /\ t.of \in Data

ASSUME NetworkAssumption ==
    /\ IdA \in NodeId /\ IdB \in NodeId /\ IdA # IdB
    /\ Honest(ReplyUse)
    /\ ReplyTo \in [Data \cup {None} -> Data]
    /\ Timeout \in Duration
    /\ MaxTime \in Nat /\ MaxFaults \in Nat

ASSUME PlansAssumption ==
    \A p \in Plans :
        /\ \A n \in {"a", "b", "c"} : p[n] \in Seq({t \in ToSend : Sendable(t)})
        /\ \A i \in DOMAIN p.c : p.c[i].tx_kind.type = "Broadcast"
        /\ p.conditions \in {"calm", "faulty", "slow"}

(* What tells the transfers on the bus from each other. *)
Ids(t) == << t.kind, t.from, t.to, t.port_id, t.transfer_id >>

PlansUseIdsOnce ==
    \A p \in Plans : \A n, m \in {"a", "b", "c"} :
        \A i \in DOMAIN p[n], j \in DOMAIN p[m] :
            Ids(SeenFrom(n, p[n][i])) = Ids(SeenFrom(m, p[m][j])) => n = m /\ i = j

(* No payload leaves room for just one byte of its CRC in a frame: the last *)
(* frame would hold the other alone, which rx_process_frame refuses.        *)
UndividedCrcs ==
    \A use \in NetworkUses :
        use.claimed # None /\ use.claimed > FrameCapacity =>
            \A i \in 1 .. use.claimed : use.claimed + 1 # i * FrameCapacity

-----------------------------------------------------------------------------
Init ==
    \E p \in Plans :
        /\ A!PeerInit(p.a)
        /\ B!PeerInit(p.b)
        /\ C!Init /\ c_plan = p.c
        /\ conditions = p.conditions
        /\ faults = 0
        /\ sent = {}
        /\ received = [n \in {"a", "b"} |-> EmptyBag]

Sent(t) == sent' = sent \cup {t}

WasRead(n) ==
    /\ received' =
         IF rx_result'.kind = "Read"
         THEN [received EXCEPT ![n] = BagAdd(@, A!Seen(rx_result'.metadata, rx_result'.payload))]
         ELSE received
    /\ UNCHANGED sent

(* What a call of transmit_frame adds to the inbox of another node. *)
Broadcast(box) == IF tx_result'.kind = "Frame" THEN Append(box, tx_result'.frame) ELSE box

-----------------------------------------------------------------------------
(* Peer a. *)

StartA ==
    /\ A!StartPlanned
    /\ IF A!Started THEN Sent(A!ToBeSeen(Head(a_plan))) ELSE UNCHANGED sent
    /\ UNCHANGED << b_vars, b_inbox, c_vars, bus_vars, received >>

AnswerA ==
    /\ A!StartAnswer
    /\ IF A!Started THEN Sent(A!ToBeSeen(Head(a_answers))) ELSE UNCHANGED sent
    /\ UNCHANGED << b_vars, b_inbox, c_vars, bus_vars, received >>

TransmitA(k) ==
    /\ A!Transmit(k)
    /\ b_inbox' = Broadcast(b_inbox)
    /\ UNCHANGED << b_vars, c_vars, bus_vars, history >>

ReceiveA ==
    /\ A!Receive
    /\ UNCHANGED << b_vars, b_inbox, c_vars, bus_vars, history >>

ReadA(k) ==
    /\ A!Read(k)
    /\ WasRead("a")
    /\ UNCHANGED << b_vars, b_inbox, c_vars, bus_vars >>

UpdateA ==
    /\ A!Update
    /\ UNCHANGED << b_vars, b_inbox, c_vars, bus_vars, history >>

-----------------------------------------------------------------------------
(* Peer b. *)

StartB ==
    /\ B!StartPlanned
    /\ IF B!Started THEN Sent(B!ToBeSeen(Head(b_plan))) ELSE UNCHANGED sent
    /\ UNCHANGED << a_vars, a_inbox, c_vars, bus_vars, received >>

AnswerB ==
    /\ B!StartAnswer
    /\ IF B!Started THEN Sent(B!ToBeSeen(Head(b_answers))) ELSE UNCHANGED sent
    /\ UNCHANGED << a_vars, a_inbox, c_vars, bus_vars, received >>

TransmitB(k) ==
    /\ B!Transmit(k)
    /\ a_inbox' = Broadcast(a_inbox)
    /\ UNCHANGED << a_vars, c_vars, bus_vars, history >>

ReceiveB ==
    /\ B!Receive
    /\ UNCHANGED << a_vars, a_inbox, c_vars, bus_vars, history >>

ReadB(k) ==
    /\ B!Read(k)
    /\ WasRead("b")
    /\ UNCHANGED << a_vars, a_inbox, c_vars, bus_vars >>

UpdateB ==
    /\ B!Update
    /\ UNCHANGED << a_vars, a_inbox, c_vars, bus_vars, history >>

-----------------------------------------------------------------------------
(* The anonymous node. *)

StartC ==
    /\ c_plan # << >>
    /\ LET t == Head(c_plan)
       IN  /\ C!StartTxTransfer(4, t.port_id, t.tx_kind, t.transfer_id, t.use, t.of)
           /\ tx_result'.kind = "Started"
           /\ Sent(SeenFromC(t))
    /\ c_plan' = Tail(c_plan)
    /\ UNCHANGED << a_vars, b_vars, rx_result, inboxes, bus_vars, received >>

TransmitC(k) ==
    /\ C!TransmitFrame(k)
    /\ a_inbox' = Broadcast(a_inbox)
    /\ b_inbox' = Broadcast(b_inbox)
    /\ UNCHANGED << a_vars, b_vars, rx_result, c_plan, bus_vars, history >>

-----------------------------------------------------------------------------
(* The bus and the clock. *)

Fault ==
    /\ conditions = "faulty"
    /\ faults < MaxFaults
    /\ faults' = faults + 1
    /\ UNCHANGED << a_vars, b_vars, c_vars, results, now, conditions, history >>

Lose ==
    /\ Fault
    /\ \/ a_inbox # << >> /\ a_inbox' = Tail(a_inbox) /\ UNCHANGED b_inbox
       \/ b_inbox # << >> /\ b_inbox' = Tail(b_inbox) /\ UNCHANGED a_inbox

Duplicate ==
    /\ Fault
    /\ \/ a_inbox # << >> /\ a_inbox' = << Head(a_inbox) >> \o a_inbox /\ UNCHANGED b_inbox
       \/ b_inbox # << >> /\ b_inbox' = << Head(b_inbox) >> \o b_inbox /\ UNCHANGED a_inbox

Tick ==
    /\ conditions = "slow"
    /\ now < MaxTime
    /\ now' = now + 1
    /\ UNCHANGED << a_vars, b_vars, c_vars, results, inboxes, bus_vars, history >>

(* One turn of each application's loop. *)
StepA ==
    \/ StartA \/ AnswerA \/ ReceiveA
    \/ \E k \in DOMAIN a_tx_tokens : TransmitA(k)
    \/ \E k \in DOMAIN a_rx_tokens : ReadA(k)

StepB ==
    \/ StartB \/ AnswerB \/ ReceiveB
    \/ \E k \in DOMAIN b_tx_tokens : TransmitB(k)
    \/ \E k \in DOMAIN b_rx_tokens : ReadB(k)

StepC == StartC \/ \E k \in DOMAIN c_tx_tokens : TransmitC(k)

Next ==
    \/ StepA \/ UpdateA
    \/ StepB \/ UpdateB
    \/ StepC
    \/ Lose \/ Duplicate \/ Tick

Spec == Init /\ [][Next]_network_vars

(* Some application goes on with its loop while there is anything to do in *)
(* any of them.  Nothing is assumed of update_transfers, nor of the bus.   *)
FairSpec == Spec /\ WF_network_vars(StepA \/ StepB \/ StepC)

-----------------------------------------------------------------------------
(* Properties. *)

(* Every application is only given what some node sent to it or to all,    *)
(* whole, and once, whatever the bus loses and repeats, whatever times out *)
(* and however the frames of three nodes, one of them anonymous and all    *)
(* using the same port and transfer ids, alternate.                        *)
ReaderAddresses == [a |-> {None, IdA}, b |-> {None, IdB}]
TransferDelivery ==
    INSTANCE Delivery WITH
        Readers <- {"a", "b"}, Addresses <- ReaderAddresses

DeliversTransfers == TransferDelivery!Spec

(* A response that an application is given answers a request that it made: *)
(* of that node, on that port, under that transfer id, and with what that  *)
(* node replies to that payload.  Ids are all there is to match them by    *)
(* (Node has no notion of a pending request).                              *)
Answers(response, request) ==
    /\ request.kind = "Request"
    /\ request.from = response.to /\ request.to = response.from
    /\ request.port_id = response.port_id
    /\ request.transfer_id = response.transfer_id
    /\ response.payload = Written(ReplyTo[A!ContentOf(request.payload)], ReplyUse.claimed)

ResponsesMatch ==
    \A n \in {"a", "b"} : \A response \in BagToSet(received[n]) :
        response.kind = "Response" => \E request \in sent : Answers(response, request)

(* On a calm bus no node answers a frame of another one with an error.     *)
CalmBusAccepts ==
    conditions = "calm" => rx_result.kind # "RxError"

(* On a calm bus every transfer of every plan is read by all it is for,    *)
(* every request is answered, and the answer is read: no application waits *)
(* for ever on another one, or on an entry of an earlier transfer.         *)
EverythingSent == a_plan = << >> /\ b_plan = << >> /\ c_plan = << >>
DeliveredTo(n, node) ==
    \A t \in sent : t.from # node /\ t.to \in {None, node} => BagIn(t, received[n])
Answered == \A request \in sent : request.kind = "Request" =>
                \E response \in sent : response.kind = "Response" /\ Answers(response, request)
AllDelivered ==
    conditions = "calm" => <>[](/\ EverythingSent /\ Answered
                 /\ DeliveredTo("a", IdA) /\ DeliveredTo("b", IdB))
==============================================================================
