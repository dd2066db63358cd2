---------------------------- MODULE NetworkProofs -----------------------------
(***************************************************************************)
(* Proofs about three nodes on one bus, for every value of the constants:  *)
(* that what an application is given as a response answers a request of    *)
(* its own, and that the bus, the nodes and their applications together    *)
(* implement Delivery.                                                     *)
(*                                                                         *)
(* The three nodes are instances of the same modules.  Their steps are     *)
(* first brought into one form, by node (NetStep); all that follows is     *)
(* said and proved of any node.                                            *)
(***************************************************************************)
EXTENDS Network, CanTransportProofs

-----------------------------------------------------------------------------
(* The state, by node. *)

Nodes == {"a", "b", "c"}
Peers == {"a", "b"}

IdOf(n) == IF n = "a" THEN IdA ELSE IF n = "b" THEN IdB ELSE None

TxMap(n) ==
    IF n = "a" THEN a_tx_transfers ELSE IF n = "b" THEN b_tx_transfers ELSE c_tx_transfers

RxMap(n) == IF n = "a" THEN a_rx_transfers ELSE b_rx_transfers
Tokens(n) == IF n = "a" THEN a_rx_tokens ELSE b_rx_tokens
Inbox(n) == IF n = "a" THEN a_inbox ELSE b_inbox
Plan(n) == IF n = "a" THEN a_plan ELSE IF n = "b" THEN b_plan ELSE c_plan
AnswersOf(n) == IF n = "a" THEN a_answers ELSE IF n = "b" THEN b_answers ELSE << >>

(* What a node that has id i makes of the transfer t that it is to send:   *)
(* its metadata, its payload, its entry; and what others see.              *)
MetadataFrom(i, t, time) ==
    [timestamp |-> time, priority |-> 4,
     transfer_kind |-> IF t.tx_kind.type = "Broadcast" THEN "Message" ELSE t.tx_kind.type,
     port_id |-> t.port_id, source_node_id |-> i,
     destination_node_id |-> IF t.tx_kind.type = "Broadcast" THEN None ELSE t.tx_kind.node,
     transfer_id |-> t.transfer_id]

KeyFrom(i, t) == HashMetadata(MetadataFrom(i, t, 0))

SentBytes(p) == IF Len(p) > FrameCapacity THEN WholeOf(p) ELSE p

EntryFrom(i, t, time) ==
    [status |-> "Active", transfer_metadata |-> MetadataFrom(i, t, time),
     transport_metadata |-> TxMetadataDefault, consumed |-> 0,
     payload |-> SentBytes(Written(t.of, t.use.claimed))]

SeenAs(m, p) ==
    [kind |-> m.transfer_kind, port_id |-> m.port_id, from |-> m.source_node_id,
     to |-> m.destination_node_id, transfer_id |-> m.transfer_id, payload |-> p]

SeenMetadata(i, t) ==
    RxMetadataOf(TxCanId(MetadataFrom(i, t, 0), i), t.transfer_id % 32, 0)

AsSeen(i, t) == SeenAs(SeenMetadata(i, t), Written(t.of, t.use.claimed))

-----------------------------------------------------------------------------
(* What the calls of a node make of its maps. *)

(* transmit_frame makes the next frame f of the entry under k.             *)
Advanced(e, consumed) ==
    [e EXCEPT !.transport_metadata = TxMetadataNext(e.transport_metadata),
              !.consumed = consumed]

Cuts(i, map, new, k, f) ==
    LET e == map[k]
        data == SubSeq(e.payload, e.consumed + 1, Len(e.payload))
        consumed == e.consumed + ConsumeLen(data)
    IN  /\ k \in DOMAIN map /\ e.status = "Active"
        /\ TxFrameError(e.transfer_metadata, data, i) = "Ok"
        /\ f = TxFrame(e.transfer_metadata, e.transport_metadata, data, i)
        /\ new = IF consumed < Len(e.payload)
                 THEN [map EXCEPT ![k] = Advanced(e, consumed)]
                 ELSE Remove(map, k)

(* Entries go or time out; what stays active stays as it is.               *)
Thins(map, new) ==
    /\ DOMAIN new \subseteq DOMAIN map
    /\ \A k \in DOMAIN new : new[k].status = "Active" => new[k] = map[k]

(* Entries time out, and none goes.                                        *)
Ages(map, new) ==
    /\ DOMAIN new = DOMAIN map
    /\ \A k \in DOMAIN new : new[k].status = "Active" => new[k] = map[k]

(* try_receive_frame makes an entry of frame f, and gives a token or none. *)
TakesUp(i, map, new, tokens, newer, f, time) ==
    \E e, kind :
        /\ RxMetadataOf(f.id, f.tail.transfer_id, 0).destination_node_id \in {None, i}
        /\ new = Insert(map, KeyOf(f), e)
        /\ Takes(f, time, map, e, kind)
        /\ newer = IF kind = "Token" THEN [tokens EXCEPT ![KeyOf(f)] = @ + 1] ELSE tokens

(* The answer to a request. *)
ReplyFrom(m, p) ==
    [tx_kind |-> [type |-> "Response", node |-> m.source_node_id],
     port_id |-> m.port_id, transfer_id |-> m.transfer_id,
     use |-> ReplyUse, of |-> ReplyTo[ContentIn(p)]]

-----------------------------------------------------------------------------
(* The steps, of any node. *)

Queues == {"plan", "answers"}
Waiting(n, q) == IF q = "plan" THEN Plan(n) ELSE AnswersOf(n)

(* What may wait there to be started. *)
Replies ==
    [tx_kind : [type : {"Response"}, node : NodeId], port_id : PortId,
     transfer_id : TransferId, use : {ReplyUse}, of : Data]

Awaited(n, q) ==
    IF q = "plan"
    THEN {t \in ToSend : Sendable(t) /\ (n = "c" => t.tx_kind.type = "Broadcast")}
    ELSE IF n = "c" THEN {} ELSE Replies

QueuesTyped == \A n \in Nodes, q \in Queues : Waiting(n, q) \in Seq(Awaited(n, q))

SameQueues == \A m \in Nodes, r \in Queues : Waiting(m, r)' = Waiting(m, r)
SameTx == \A m \in Nodes : TxMap(m)' = TxMap(m)
SameRx == \A m \in Peers : RxMap(m)' = RxMap(m) /\ Tokens(m)' = Tokens(m)
SameBus == \A m \in Peers : Inbox(m)' = Inbox(m)
SameHistory == sent' = sent /\ received' = received

Begins(n, q) ==
    LET t == Head(Waiting(n, q))
        k == KeyFrom(IdOf(n), t)
    IN  /\ Waiting(n, q) # << >> /\ Waiting(n, q)' = Tail(Waiting(n, q))
        /\ \A m \in Nodes, r \in Queues :
              m # n \/ r # q => Waiting(m, r)' = Waiting(m, r)
        /\ t.use.claimed # None
        /\ k \notin DOMAIN TxMap(n)
        /\ TxMap(n)' = Insert(TxMap(n), k, EntryFrom(IdOf(n), t, now))
        /\ \A m \in Nodes \ {n} : TxMap(m)' = TxMap(m)
        /\ sent' = sent \cup {AsSeen(IdOf(n), t)} /\ received' = received
        /\ SameRx /\ SameBus

Sends(n) ==
    /\ \E k, f :
          /\ Cuts(IdOf(n), TxMap(n), TxMap(n)', k, f)
          /\ \A m \in Peers :
                Inbox(m)' = IF m = n THEN Inbox(m) ELSE Append(Inbox(m), f)
    /\ \A m \in Nodes \ {n} : TxMap(m)' = TxMap(m)
    /\ SameQueues /\ SameRx /\ SameHistory

Passes ==
    /\ \A m \in Nodes : Thins(TxMap(m), TxMap(m)')
    /\ \A m \in Peers : Ages(RxMap(m), RxMap(m)') /\ Tokens(m)' = Tokens(m)
    /\ SameQueues /\ SameBus /\ SameHistory

Receives(n) ==
    /\ Inbox(n) # << >> /\ Inbox(n)' = Tail(Inbox(n))
    /\ \A k \in DOMAIN Tokens(n) : ~ (Tokens(n)[k] > 0)
    /\ TakesUp(IdOf(n), RxMap(n), RxMap(n)', Tokens(n), Tokens(n)', Head(Inbox(n)), now)
    /\ \A m \in Peers \ {n} :
          RxMap(m)' = RxMap(m) /\ Tokens(m)' = Tokens(m) /\ Inbox(m)' = Inbox(m)
    /\ SameQueues /\ SameTx /\ SameHistory

(* What the application reads, and what it is to answer. *)
ReadUnder(n, k) == SeenAs(RxMap(n)[k].transfer_metadata, RxMap(n)[k].payload)
AnswerUnder(n, k) == ReplyFrom(RxMap(n)[k].transfer_metadata, RxMap(n)[k].payload)

Reads(n) ==
    /\ \E k \in DOMAIN Tokens(n) :
          /\ Tokens(n)[k] > 0
          /\ Tokens(n)' = [Tokens(n) EXCEPT ![k] = @ - 1]
          /\ received' = IF ActiveIn(RxMap(n), k)
                         THEN [received EXCEPT ![n] = BagAdd(@, ReadUnder(n, k))]
                         ELSE received
          /\ Waiting(n, "answers")' =
                IF ActiveIn(RxMap(n), k) /\ ReadUnder(n, k).kind = "Request"
                THEN Append(Waiting(n, "answers"), AnswerUnder(n, k))
                ELSE Waiting(n, "answers")
    /\ \A m \in Nodes, r \in Queues :
          m # n \/ r # "answers" => Waiting(m, r)' = Waiting(m, r)
    /\ \A m \in Peers : RxMap(m)' = RxMap(m)
    /\ \A m \in Peers \ {n} : Tokens(m)' = Tokens(m)
    /\ sent' = sent /\ SameTx /\ SameBus

(* A frame is lost, or answered with an error, or given up. *)
Loses(n) ==
    /\ Inbox(n) # << >> /\ Inbox(n)' = Tail(Inbox(n))
    /\ \A m \in Peers \ {n} : Inbox(m)' = Inbox(m)
    /\ SameQueues /\ SameTx /\ SameRx /\ SameHistory

Repeats(n) ==
    /\ Inbox(n) # << >> /\ Inbox(n)' = << Head(Inbox(n)) >> \o Inbox(n)
    /\ \A m \in Peers \ {n} : Inbox(m)' = Inbox(m)
    /\ SameQueues /\ SameTx /\ SameRx /\ SameHistory

NetStep ==
    \/ \E n \in Nodes, q \in Queues : Begins(n, q)
    \/ \E n \in Nodes : Sends(n)
    \/ \E n \in Peers : Receives(n) \/ Reads(n) \/ Loses(n) \/ Repeats(n)
    \/ Passes

-----------------------------------------------------------------------------
(* What the instances call the same. *)

(* The buffer a callback leaves, and how much of it is sent. *)
Buffer(use, d) ==
    [i \in 1 .. GetCrcPaddedSize(use.requested) |->
        IF i <= use.requested /\ i <= use.claimed
        THEN Written(d, use.requested)[i] ELSE ZeroByte]

Claim(use) ==
    IF use.claimed < GetCrcPaddedSize(use.requested)
    THEN use.claimed ELSE GetCrcPaddedSize(use.requested)

(* What an honest callback leaves to be sent is its payload. *)
LEMMA HonestPayload ==
    ASSUME NEW use, Honest(use), use.claimed # None, NEW d \in Data
    PROVE  /\ use.claimed \in Nat
           /\ ProcessTxCrc(Buffer(use, d), Claim(use)) = SentBytes(Written(d, use.claimed))
<1> DEFINE n == use.claimed
           size == use.requested + CRC_SIZE
           buffer == Buffer(use, d)
<1>1. /\ use.requested \in Nat /\ n \in Nat /\ n <= use.requested
      /\ size \in Nat /\ n <= size
  BY CanAssumption DEF Honest, C!BufferUse
<1>2. Claim(use) = n
  BY <1>1 DEF Claim, GetCrcPaddedSize
<1>3. buffer = [i \in 1 .. size |-> IF i <= use.requested /\ i <= n
                                    THEN Written(d, use.requested)[i] ELSE ZeroByte]
  BY DEF Buffer, GetCrcPaddedSize
<1>4. SubSeq(buffer, 1, n) = Written(d, n)
  <2>1. \A i \in 1 .. n : buffer[i] = [of |-> d, part |-> "data", at |-> i]
    BY <1>1, <1>3 DEF Written
  <2>2. SubSeq(buffer, 1, n) = [i \in 1 .. n |-> buffer[i]]
    <3> HIDE DEF buffer
    <3> QED BY <1>1
  <2> QED BY <2>1, <2>2 DEF Written
<1>5. FrameCapacity \in Nat
  BY CanAssumption DEF FrameCapacity
<1>6. Len(Written(d, n)) = n
  BY <1>1, WrittenIs
<1> HIDE DEF buffer, n
<1>7. ProcessTxCrc(buffer, n) = SentBytes(Written(d, n))
  <2>1. PICK w : w = Written(d, n)
    OBVIOUS
  <2>2. SubSeq(buffer, 1, n) = w /\ Len(w) = n
    BY <1>4, <1>6, <2>1
  <2>3. CASE n <= FrameCapacity
    BY <1>1, <1>5, <2>1, <2>2, <2>3 DEF ProcessTxCrc, SentBytes
  <2>4. CASE ~ (n <= FrameCapacity)
    <3>1. ProcessTxCrc(buffer, n) = w \o Crc(w)
      BY <2>2, <2>4 DEF ProcessTxCrc
    <3>2. Len(w) > FrameCapacity
      BY <1>1, <1>5, <2>2, <2>4
    <3>3. SentBytes(w) = w \o Crc(w)
      BY <3>2, Zenon DEF SentBytes, WholeOf
    <3> QED BY <2>1, <3>1, <3>3
  <2> QED BY <2>3, <2>4
<1> QED BY <1>1, <1>2, <1>7 DEF buffer, n

LEMMA KeyIsTimeless ==
    ASSUME NEW i, NEW t, NEW time
    PROVE  HashMetadata(MetadataFrom(i, t, time)) = KeyFrom(i, t)
<1>1. PICK m : m = MetadataFrom(i, t, time)
  OBVIOUS
<1>2. PICK o : o = MetadataFrom(i, t, 0)
  OBVIOUS
<1>3. /\ m.priority = o.priority /\ m.transfer_kind = o.transfer_kind
      /\ m.source_node_id = o.source_node_id
      /\ m.destination_node_id = o.destination_node_id
      /\ m.port_id = o.port_id /\ m.transfer_id = o.transfer_id
  BY <1>1, <1>2 DEF MetadataFrom
<1>4. HashMetadata(m) = HashMetadata(o)
  BY <1>3 DEF HashMetadata
<1> QED BY <1>1, <1>2, <1>4 DEF KeyFrom

-----------------------------------------------------------------------------
(* The sending half of peer a. *)

LEMMA TxSameA ==
    /\ \A s : A!Tx!IsLastFrame(s) <=> IsLastFrame(s)
    /\ \A s : A!Tx!ConsumeLen(s) = ConsumeLen(s)
    /\ \A b, n : A!Tx!ProcessTxCrc(b, n) = ProcessTxCrc(b, n)
    /\ \A m : A!Tx!HashMetadata(m) = HashMetadata(m)
    /\ \A m, x, d, n : A!Tx!TxFrame(m, x, d, n) = TxFrame(m, x, d, n)
    /\ \A m, d, n : A!Tx!TxFrameError(m, d, n) = TxFrameError(m, d, n)
    /\ \A use, d : A!Tx!BufferAfterCallback(use, d) = Buffer(use, d)
    /\ \A use : A!Tx!ClampedClaim(use) = Claim(use)
<1>0. A!Tx!FrameCapacity = FrameCapacity
  BY DEF A!Tx!FrameCapacity, FrameCapacity
<1>1. \A s : A!Tx!IsLastFrame(s) <=> IsLastFrame(s)
  BY <1>0 DEF A!Tx!IsLastFrame, IsLastFrame
<1>2. \A s : A!Tx!ConsumeLen(s) = ConsumeLen(s)
  BY <1>0, <1>1 DEF A!Tx!ConsumeLen, ConsumeLen
<1>3. \A b, n : A!Tx!ProcessTxCrc(b, n) = ProcessTxCrc(b, n)
  <2>1. \A s : A!Tx!Crc(s) = Crc(s)
    BY ZenonT(30) DEF A!Tx!Crc, Crc, A!Tx!IsWritten, IsWritten, A!Tx!Written, Written
  <2> QED BY <1>0, <2>1 DEF A!Tx!ProcessTxCrc, ProcessTxCrc
<1>4. \A m : A!Tx!HashMetadata(m) = HashMetadata(m)
  BY DEF A!Tx!HashMetadata, HashMetadata, A!Tx!Optional, Optional, A!Tx!KindOrdinal,
         KindOrdinal
<1>5. ASSUME NEW m, NEW x, NEW d, NEW n PROVE A!Tx!TxFrame(m, x, d, n) = TxFrame(m, x, d, n)
  BY <1>1, <1>2, ZenonT(60)
     DEF A!Tx!TxFrame, TxFrame, A!Tx!TxCanId, TxCanId, A!Tx!CanMessageIdNew, CanMessageIdNew,
         A!Tx!CanServiceIdNew, CanServiceIdNew, A!Tx!TailByteNew, TailByteNew
<1>6. ASSUME NEW m, NEW d, NEW n PROVE A!Tx!TxFrameError(m, d, n) = TxFrameError(m, d, n)
  BY <1>1 DEF A!Tx!TxFrameError, TxFrameError
<1>7. \A use, d : A!Tx!BufferAfterCallback(use, d) = Buffer(use, d)
  BY ZenonT(30) DEF A!Tx!BufferAfterCallback, Buffer, A!Tx!GetCrcPaddedSize,
         GetCrcPaddedSize, A!Tx!Written, Written, A!Tx!ZeroByte, ZeroByte
<1>8. \A use : A!Tx!ClampedClaim(use) = Claim(use)
  BY DEF A!Tx!ClampedClaim, Claim, A!Tx!GetCrcPaddedSize, GetCrcPaddedSize
<1> QED BY <1>1, <1>2, <1>3, <1>4, <1>5, <1>6, <1>7, <1>8

LEMMA StartsA ==
    ASSUME NEW t, Honest(t.use), t.of \in Data, A!StartTransfer(t)
    PROVE  LET k == KeyFrom(IdA, t)
           IN  /\ UNCHANGED << a_rx_transfers, a_rx_tokens, now >>
               /\ \/ /\ tx_result'.kind = "Started" /\ t.use.claimed # None
                     /\ k \notin DOMAIN a_tx_transfers
                     /\ a_tx_transfers' = Insert(a_tx_transfers, k, EntryFrom(IdA, t, now))
                  \/ tx_result'.kind # "Started" /\ UNCHANGED a_tx_transfers
<1> DEFINE m == A!Tx!TxMetadataOf(4, t.port_id, t.tx_kind, t.transfer_id, now)
           buffer == A!Tx!BufferAfterCallback(t.use, t.of)
           e == A!Tx!NewTxTransfer(m, A!Tx!ProcessTxCrc(buffer, A!Tx!ClampedClaim(t.use)))
           k == KeyFrom(IdA, t)
<1>1. /\ A!Tx!StartTxTransfer(4, t.port_id, t.tx_kind, t.transfer_id, t.use, t.of)
      /\ UNCHANGED << a_rx_transfers, a_rx_tokens >>
  BY DEF A!StartTransfer, A!StartTxTransfer, A!PriorityUsed, A!rx_part
<1>2. m = MetadataFrom(IdA, t, now)
  BY DEF A!Tx!TxMetadataOf, MetadataFrom
<1>3. A!Tx!HashMetadata(m) = k
  BY <1>2, TxSameA, KeyIsTimeless
<1>4. ASSUME t.use.claimed # None PROVE e = EntryFrom(IdA, t, now)
  <2>1. A!Tx!ProcessTxCrc(buffer, A!Tx!ClampedClaim(t.use))
            = SentBytes(Written(t.of, t.use.claimed))
    BY <1>4, HonestPayload, TxSameA
  <2> QED BY <1>2, <2>1 DEF A!Tx!NewTxTransfer, EntryFrom, A!Tx!TxMetadataDefault,
                            TxMetadataDefault
<1> HIDE DEF e, k
<1>5. /\ UNCHANGED now
      /\ \/ /\ tx_result'.kind = "Started" /\ t.use.claimed # None
            /\ k \notin DOMAIN a_tx_transfers
            /\ a_tx_transfers' = A!Tx!Insert(a_tx_transfers, k, e)
         \/ tx_result'.kind # "Started" /\ UNCHANGED a_tx_transfers
  BY <1>1, <1>3 DEF A!Tx!StartTxTransfer, e
<1>6. \A map, x, v : A!Tx!Insert(map, x, v) = Insert(map, x, v)
  BY DEF A!Tx!Insert, Insert
<1> QED BY <1>1, <1>4, <1>5, <1>6 DEF k

LEMMA SendsA ==
    ASSUME NEW k, A!Transmit(k)
    PROVE  /\ UNCHANGED << a_rx_transfers, a_rx_tokens, a_plan, a_answers, a_inbox, now >>
           /\ \/ tx_result'.kind = "Frame"
                 /\ Cuts(IdA, a_tx_transfers, a_tx_transfers', k, tx_result'.frame)
              \/ tx_result'.kind # "Frame" /\ Thins(a_tx_transfers, a_tx_transfers')
<1>1. /\ A!Tx!TransmitFrame(k)
      /\ UNCHANGED << a_rx_transfers, a_rx_tokens, a_plan, a_answers, a_inbox >>
  BY DEF A!Transmit, A!TransmitFrame, A!rx_part, A!app_vars
<1>2. \A map, x : A!Tx!Remove(map, x) = Remove(map, x)
  BY RemoveIs DEF A!Tx!Remove, A!Tx!Restrict
<1>3. CASE A!Tx!TransmitOk(k)
  <2> DEFINE e == a_tx_transfers[k]
             data == SubSeq(e.payload, e.consumed + 1, Len(e.payload))
             consumed == e.consumed + ConsumeLen(data)
  <2>1. A!Tx!RemainingData(e) = data
    BY DEF A!Tx!RemainingData
  <2>2. /\ k \in DOMAIN a_tx_transfers /\ e.status = "Active"
        /\ TxFrameError(e.transfer_metadata, data, IdA) = "Ok"
        /\ tx_result'.kind = "Frame"
        /\ tx_result'.frame = TxFrame(e.transfer_metadata, e.transport_metadata, data, IdA)
        /\ now' = now
    BY <1>3, <2>1, TxSameA DEF A!Tx!TransmitOk, A!Tx!TxIsActive, A!Tx!TxErrorOf
  <2>3. a_tx_transfers' =
            IF consumed < Len(e.payload)
            THEN [a_tx_transfers EXCEPT
                    ![k].transport_metadata = A!Tx!TxMetadataNext(@),
                    ![k].consumed = consumed]
            ELSE A!Tx!Remove(a_tx_transfers, k)
    BY <1>3, <2>1, TxSameA DEF A!Tx!TransmitOk
  <2> HIDE DEF consumed
  <2>4. [a_tx_transfers EXCEPT ![k].transport_metadata = A!Tx!TxMetadataNext(@),
                               ![k].consumed = consumed]
            = [a_tx_transfers EXCEPT ![k] = Advanced(e, consumed)]
    BY <2>2 DEF Advanced, A!Tx!TxMetadataNext, TxMetadataNext
  <2>5. Cuts(IdA, a_tx_transfers, a_tx_transfers', k, tx_result'.frame)
    BY <1>2, <2>2, <2>3, <2>4 DEF Cuts, consumed
  <2> QED BY <1>1, <2>2, <2>5
<1>4. CASE A!Tx!TransmitTxError(k) \/ A!Tx!TransmitTokenError(k)
  <2>1. /\ tx_result'.kind # "Frame" /\ now' = now
        /\ a_tx_transfers' = a_tx_transfers \/ a_tx_transfers' = Remove(a_tx_transfers, k)
    BY <1>2, <1>4 DEF A!Tx!TransmitTxError, A!Tx!TransmitTokenError
  <2>2. Thins(a_tx_transfers, a_tx_transfers')
    BY <2>1, RemoveIs DEF Thins
  <2> QED BY <1>1, <2>1, <2>2
<1> QED BY <1>1, <1>3, <1>4 DEF A!Tx!TransmitFrame

LEMMA UpdatesA ==
    ASSUME A!Update
    PROVE  /\ UNCHANGED << a_rx_tokens, a_plan, a_answers, a_inbox, now >>
           /\ Thins(a_tx_transfers, a_tx_transfers')
           /\ Ages(a_rx_transfers, a_rx_transfers')
<1>1. A!Tx!UpdateTxTransfers /\ A!Rx!UpdateRxTransfers
      /\ UNCHANGED << a_plan, a_answers, a_inbox >>
  BY DEF A!Update, A!UpdateTransfers, A!app_vars
<1>2. Thins(a_tx_transfers, a_tx_transfers')
  BY <1>1 DEF Thins, A!Tx!UpdateTxTransfers, A!Tx!TimedOut
<1>3. Ages(a_rx_transfers, a_rx_transfers')
  BY <1>1 DEF Ages, A!Rx!UpdateRxTransfers, A!Rx!TimedOut
<1> QED BY <1>1, <1>2, <1>3 DEF A!Rx!UpdateRxTransfers

(* The receiving half of peer a. *)
LEMMA RxSameA ==
    /\ \A f : A!Rx!RxProcessError(f) = RxProcessError(f)
    /\ \A f, time : A!Rx!RxTransferFrame(f, time) = RxTransferFrame(f, time)
    /\ \A f : A!Rx!RxFrameMetadata(f) = RxFrameMetadata(f)
    /\ \A m, g, h : A!Rx!UpdateRxMetadata(m, g, h) = UpdateRxMetadata(m, g, h)
    /\ \A m : A!Rx!HashMetadata(m) = HashMetadata(m)
    /\ A!Rx!RxMetadataDefault = RxMetadataDefault
    /\ \A map, x, v : A!Rx!Insert(map, x, v) = Insert(map, x, v)
<1>1. \A f : A!Rx!RxProcessError(f) = RxProcessError(f)
  BY DEF A!Rx!RxProcessError, RxProcessError, A!Rx!ClosesMultiFrame, ClosesMultiFrame,
         A!Rx!FrameLen, FrameLen
<1>2. \A f, time : A!Rx!RxTransferFrame(f, time) = RxTransferFrame(f, time)
  BY DEF A!Rx!RxTransferFrame, RxTransferFrame, A!Rx!ClosesMultiFrame, ClosesMultiFrame,
         A!Rx!RxMetadataOf, RxMetadataOf
<1>3. \A f : A!Rx!RxFrameMetadata(f) = RxFrameMetadata(f)
  BY DEF A!Rx!RxFrameMetadata, RxFrameMetadata, A!Rx!ClosesMultiFrame, ClosesMultiFrame
<1>4. \A m, g, h : A!Rx!UpdateRxMetadata(m, g, h) = UpdateRxMetadata(m, g, h)
  <2>1. \A s : A!Rx!Crc(s) = Crc(s)
    BY ZenonT(30) DEF A!Rx!Crc, Crc, A!Rx!IsWritten, IsWritten, A!Rx!Written, Written
  <2> QED BY <2>1, ZenonT(30) DEF A!Rx!UpdateRxMetadata, UpdateRxMetadata
<1>5. \A m : A!Rx!HashMetadata(m) = HashMetadata(m)
  BY DEF A!Rx!HashMetadata, HashMetadata, A!Rx!Optional, Optional, A!Rx!KindOrdinal,
         KindOrdinal
<1>6. A!Rx!RxMetadataDefault = RxMetadataDefault
  BY DEF A!Rx!RxMetadataDefault, RxMetadataDefault
<1>7. \A map, x, v : A!Rx!Insert(map, x, v) = Insert(map, x, v)
  BY DEF A!Rx!Insert, Insert
<1> QED BY <1>1, <1>2, <1>3, <1>4, <1>5, <1>6, <1>7

(* What comes behind the tests of try_receive_frame. *)
LEMMA AppendsA ==
    ASSUME NEW f, RxProcessError(f) = "Ok",
           A!Rx!AppendFrame(KeyOf(f), RxFrameMetadata(f), RxTransferFrame(f, now))
    PROVE  \E e, kind :
              /\ a_rx_transfers' = Insert(a_rx_transfers, KeyOf(f), e)
              /\ Takes(f, now, a_rx_transfers, e, kind)
              /\ a_rx_tokens' = IF kind = "Token"
                                THEN [a_rx_tokens EXCEPT ![KeyOf(f)] = @ + 1]
                                ELSE a_rx_tokens
<1> DEFINE k == KeyOf(f)
           old == a_rx_transfers[k]
           frame == RxTransferFrame(f, now)
           update == Updated(f, old.transport_metadata)
           bytes == BytesOf(f)
<1>1. ActiveIn(a_rx_transfers, k)
  BY DEF A!Rx!AppendFrame, A!Rx!RxIsActive, ActiveIn
<1>2. frame.payload = bytes /\ frame.last_frame = f.tail.end
  BY TimeIrrelevant
<1>3. A!Rx!UpdateRxMetadata(old.transport_metadata, RxFrameMetadata(f), frame) = update
  BY RxSameA, TimeIrrelevant
<1> HIDE DEF frame, update, k, bytes
<1>4. \/ /\ update.error # "Ok"
         /\ a_rx_transfers' =
               [a_rx_transfers EXCEPT ![k].transport_metadata = update.metadata]
         /\ UNCHANGED a_rx_tokens
      \/ /\ update.error = "Ok"
         /\ a_rx_transfers' = [a_rx_transfers EXCEPT
                                 ![k].transport_metadata = update.metadata,
                                 ![k].payload = @ \o frame.payload]
         /\ A!Rx!Accepted(k, frame)
  BY <1>3 DEF A!Rx!AppendFrame, k, frame
<1>5. CASE /\ update.error # "Ok"
           /\ a_rx_transfers' =
                 [a_rx_transfers EXCEPT ![k].transport_metadata = update.metadata]
           /\ UNCHANGED a_rx_tokens
  <2> DEFINE e == [old EXCEPT !.transport_metadata = update.metadata]
  <2>1. a_rx_transfers' = Insert(a_rx_transfers, k, e)
    BY <1>1, <1>5 DEF Insert, ActiveIn
  <2>2. Refuses(f, a_rx_transfers[k], e)
    BY <1>5 DEF Refuses, update
  <2> HIDE DEF e, old
  <2>3. Takes(f, now, a_rx_transfers, e, "Nothing")
    BY <1>1, <2>2 DEF Takes, k
  <2> QED BY <1>5, <2>1, <2>3 DEF k
<1>6. CASE /\ update.error = "Ok"
           /\ a_rx_transfers' = [a_rx_transfers EXCEPT
                                   ![k].transport_metadata = update.metadata,
                                   ![k].payload = @ \o frame.payload]
           /\ A!Rx!Accepted(k, frame)
  <2> DEFINE e == [old EXCEPT !.transport_metadata = update.metadata,
                              !.payload = old.payload \o bytes]
             kind == IF f.tail.end THEN "Token" ELSE "Nothing"
  <2>1. a_rx_transfers' = Insert(a_rx_transfers, k, e)
    BY <1>1, <1>2, <1>6 DEF Insert, ActiveIn
  <2>2. Appends(f, a_rx_transfers[k], e)
    BY <1>6 DEF Appends, update, bytes
  <2> HIDE DEF e, old
  <2>3. Takes(f, now, a_rx_transfers, e, kind)
    BY <1>1, <2>2 DEF Takes, k
  <2>4. a_rx_tokens' = IF kind = "Token" THEN [a_rx_tokens EXCEPT ![k] = @ + 1]
                       ELSE a_rx_tokens
    BY <1>2, <1>6 DEF A!Rx!Accepted, A!Rx!GainToken
  <2> HIDE DEF kind
  <2> QED BY <2>1, <2>3, <2>4 DEF k
<1> QED BY <1>4, <1>5, <1>6

LEMMA OpensA ==
    ASSUME NEW f, RxProcessError(f) = "Ok",
           A!Rx!NewTransfer(KeyOf(f), RxFrameMetadata(f), RxTransferFrame(f, now))
    PROVE  \/ UNCHANGED << a_rx_transfers, a_rx_tokens >>
           \/ \E e, kind :
                 /\ a_rx_transfers' = Insert(a_rx_transfers, KeyOf(f), e)
                 /\ Takes(f, now, a_rx_transfers, e, kind)
                 /\ a_rx_tokens' = IF kind = "Token"
                                   THEN [a_rx_tokens EXCEPT ![KeyOf(f)] = @ + 1]
                                   ELSE a_rx_tokens
<1> DEFINE k == KeyOf(f)
           frame == RxTransferFrame(f, now)
           update == Updated(f, RxMetadataDefault)
           e == A!Rx!NewRxTransfer(frame, update.metadata)
           kind == IF f.tail.end THEN "Token" ELSE "Nothing"
<1>1. A!Rx!UpdateRxMetadata(A!Rx!RxMetadataDefault, RxFrameMetadata(f), frame) = update
  BY RxSameA, TimeIrrelevant
<1>2. /\ frame.payload = BytesOf(f) /\ frame.first_frame = f.tail.start
      /\ frame.last_frame = f.tail.end
      /\ frame.metadata = RxMetadataOf(f.id, f.tail.transfer_id, now)
  BY TimeIrrelevant DEF RxTransferFrame
<1> HIDE DEF update, frame, k
<1>3. e = [status |-> "Active",
           transfer_metadata |-> RxMetadataOf(f.id, f.tail.transfer_id, now),
           transport_metadata |-> update.metadata, payload |-> BytesOf(f)]
  BY <1>2 DEF A!Rx!NewRxTransfer
<1>4. /\ k \notin DOMAIN a_rx_transfers /\ frame.first_frame
      /\ IF update.error # "Ok"
         THEN UNCHANGED << a_rx_transfers, a_rx_tokens >>
         ELSE /\ a_rx_transfers' = Insert(a_rx_transfers, k, e)
              /\ A!Rx!Accepted(k, frame)
  BY <1>1, RxSameA DEF A!Rx!NewTransfer, k, frame
<1> HIDE DEF e
<1>5. CASE update.error = "Ok"
  <2>1. Opens(f, now, e)
    BY <1>2, <1>3, <1>4, <1>5 DEF Opens, update
  <2>2. Takes(f, now, a_rx_transfers, e, kind)
    BY <1>4, <2>1 DEF Takes, k
  <2>3. a_rx_tokens' = IF kind = "Token" THEN [a_rx_tokens EXCEPT ![k] = @ + 1]
                       ELSE a_rx_tokens
    BY <1>2, <1>4, <1>5 DEF A!Rx!Accepted, A!Rx!GainToken
  <2> HIDE DEF kind
  <2> QED BY <1>4, <1>5, <2>2, <2>3 DEF k
<1> QED BY <1>4, <1>5

LEMMA ReceivesA ==
    ASSUME A!Receive
    PROVE  /\ UNCHANGED << a_tx_transfers, a_plan, a_answers, now >>
           /\ a_inbox # << >> /\ a_inbox' = Tail(a_inbox)
           /\ \A k \in DOMAIN a_rx_tokens : ~ (a_rx_tokens[k] > 0)
           /\ \/ UNCHANGED << a_rx_transfers, a_rx_tokens >>
              \/ TakesUp(IdA, a_rx_transfers, a_rx_transfers', a_rx_tokens, a_rx_tokens',
                         Head(a_inbox), now)
<1> DEFINE f == Head(a_inbox)
           frame == RxTransferFrame(f, now)
           quiet == UNCHANGED << a_rx_transfers, a_rx_tokens >>
<1>1. /\ A!Rx!ReceiveFrame(f)
      /\ UNCHANGED << a_tx_transfers, a_plan, a_answers >>
      /\ a_inbox # << >> /\ a_inbox' = Tail(a_inbox)
      /\ \A k \in DOMAIN a_rx_tokens : ~ (a_rx_tokens[k] > 0)
  BY DEF A!Receive, A!HasUnread, A!TryReceiveFrame, A!tx_part
<1> HIDE DEF f
<1>2. \/ A!Rx!RejectFrame(f)
      \/ RxProcessError(f) = "Ok" /\ A!Rx!IgnoreFrame(frame)
      \/ RxProcessError(f) = "Ok" /\ A!Rx!TakeFrame(RxFrameMetadata(f), frame)
  BY <1>1, RxSameA DEF A!Rx!ReceiveFrame
<1>3. CASE A!Rx!RejectFrame(f)
  BY <1>1, <1>3 DEF A!Rx!RejectFrame, f
<1>4. CASE A!Rx!IgnoreFrame(frame)
  <2> HIDE DEF frame
  <2> QED BY <1>1, <1>4 DEF A!Rx!IgnoreFrame, f
<1>5. CASE RxProcessError(f) = "Ok" /\ A!Rx!TakeFrame(RxFrameMetadata(f), frame)
  <2>1. A!Rx!HashMetadata(frame.metadata) = KeyOf(f)
    BY RxSameA, TimeIrrelevant
  <2>2. RxMetadataOf(f.id, f.tail.transfer_id, 0).destination_node_id \in {None, IdA}
    <3>1. ~ A!Rx!IsForOthers(frame.metadata)
      BY <1>5 DEF A!Rx!TakeFrame
    <3> QED BY <3>1 DEF A!Rx!IsForOthers, RxTransferFrame, RxMetadataOf
  <2> HIDE DEF frame
  <2>3. /\ now' = now
        /\ \/ quiet
           \/ A!Rx!AppendFrame(KeyOf(f), RxFrameMetadata(f), frame)
           \/ A!Rx!NewTransfer(KeyOf(f), RxFrameMetadata(f), frame)
    <3>1. \/ quiet /\ now' = now
          \/ A!Rx!AppendFrame(KeyOf(f), RxFrameMetadata(f), frame)
          \/ A!Rx!NewTransfer(KeyOf(f), RxFrameMetadata(f), frame)
      BY <1>5, <2>1 DEF A!Rx!TakeFrame, A!Rx!AppendToTimedOut, A!Rx!NewSessionNoStart
    <3> QED BY <3>1 DEF A!Rx!AppendFrame, A!Rx!NewTransfer
  <2>4. quiet \/ TakesUp(IdA, a_rx_transfers, a_rx_transfers', a_rx_tokens, a_rx_tokens', f, now)
    BY <1>5, <2>2, <2>3, AppendsA, OpensA DEF TakesUp, frame
  <2> QED BY <1>1, <2>3, <2>4 DEF f
<1> QED BY <1>2, <1>3, <1>4, <1>5

LEMMA ReadsA ==
    ASSUME NEW k, A!Read(k)
    PROVE  LET e == a_rx_transfers[k]
           IN  /\ UNCHANGED << a_tx_transfers, a_rx_transfers, a_plan, a_inbox, now >>
               /\ a_rx_tokens[k] > 0
               /\ a_rx_tokens' = [a_rx_tokens EXCEPT ![k] = @ - 1]
               /\ IF ActiveIn(a_rx_transfers, k)
                  THEN /\ rx_result'.kind = "Read"
                       /\ A!Seen(rx_result'.metadata, rx_result'.payload)
                             = SeenAs(e.transfer_metadata, e.payload)
                       /\ a_answers' = IF e.transfer_metadata.transfer_kind = "Request"
                                       THEN Append(a_answers,
                                                   ReplyFrom(e.transfer_metadata, e.payload))
                                       ELSE a_answers
                  ELSE rx_result'.kind # "Read" /\ a_answers' = a_answers
<1> DEFINE e == a_rx_transfers[k]
<1>1. /\ A!Rx!WithRxTransfer(k)
      /\ UNCHANGED << a_tx_transfers, a_plan, a_inbox >>
      /\ a_answers' = IF rx_result'.kind = "Read"
                         /\ rx_result'.metadata.transfer_kind = "Request"
                      THEN Append(a_answers,
                                  A!AnswerTo(rx_result'.metadata, rx_result'.payload))
                      ELSE a_answers
  BY DEF A!Read, A!WithRxTransfer, A!tx_part
<1>2. A!Rx!RxIsActive(k) <=> ActiveIn(a_rx_transfers, k)
  BY DEF A!Rx!RxIsActive, ActiveIn
<1>3. /\ UNCHANGED << a_rx_transfers, now >> /\ a_rx_tokens[k] > 0
      /\ a_rx_tokens' = [a_rx_tokens EXCEPT ![k] = @ - 1]
      /\ rx_result' =
            IF ActiveIn(a_rx_transfers, k)
            THEN [kind |-> "Read", metadata |-> e.transfer_metadata, payload |-> e.payload]
            ELSE [kind |-> "TokenError",
                  error |-> IF A!Rx!RxIsTimedOut(k) THEN "TransferTimeout" ELSE "InvalidToken"]
  BY <1>1, <1>2 DEF A!Rx!WithRxTransfer, A!Rx!LoseToken
<1>4. A!AnswerTo(e.transfer_metadata, e.payload) = ReplyFrom(e.transfer_metadata, e.payload)
  BY DEF A!AnswerTo, ReplyFrom, A!ContentOf, ContentIn
<1>5. A!Seen(e.transfer_metadata, e.payload) = SeenAs(e.transfer_metadata, e.payload)
  BY DEF A!Seen, SeenAs
<1>6. CASE ActiveIn(a_rx_transfers, k)
  BY <1>1, <1>3, <1>4, <1>5, <1>6
<1>7. CASE ~ ActiveIn(a_rx_transfers, k)
  BY <1>1, <1>3, <1>7
<1> QED BY <1>6, <1>7

(* What peer a sends, as others see it. *)
LEMMA SeenSameA == \A t : A!ToBeSeen(t) = AsSeen(IdA, t)
<1> TAKE t
<1>1. A!MetadataToSend(t) = MetadataFrom(IdA, t, 0)
  BY DEF A!MetadataToSend, A!PriorityUsed, A!Tx!TxMetadataOf, MetadataFrom
<1>2. \A m : A!TxCanId(m, IdA) = TxCanId(m, IdA)
  BY DEF A!TxCanId, TxCanId, A!CanMessageIdNew, CanMessageIdNew, A!CanServiceIdNew,
         CanServiceIdNew
<1>3. \A c, d : A!RxMetadataOf(c, d, 0) = RxMetadataOf(c, d, 0)
  BY DEF A!RxMetadataOf, RxMetadataOf
<1>4. \A d, n : A!Written(d, n) = Written(d, n)
  BY DEF A!Written, Written
<1>5. \A m, p : A!Seen(m, p) = SeenAs(m, p)
  BY DEF A!Seen, SeenAs
<1> QED BY <1>1, <1>2, <1>3, <1>4, <1>5, Zenon DEF A!ToBeSeen, AsSeen, SeenMetadata

(* The steps of peer a. *)
LEMMA BeginsA ==
    ASSUME QueuesTyped, StartA \/ AnswerA
    PROVE  (\E q \in Queues : Begins("a", q)) \/ Passes
<1>0. ASSUME NEW q \in Queues, Waiting("a", q) # << >>
      PROVE  Honest(Head(Waiting("a", q)).use) /\ Head(Waiting("a", q)).of \in Data
  <2>1. Waiting("a", q) \in Seq(Awaited("a", q))
    BY DEF QueuesTyped, Nodes
  <2>2. Head(Waiting("a", q)) \in Awaited("a", q)
    BY <1>0, <2>1, TailIs
  <2> QED BY <2>2, NetworkAssumption DEF Awaited, Sendable, Replies
<1>1. ASSUME NEW q \in Queues, NEW t, t = Head(Waiting("a", q)),
             Waiting("a", q) # << >>, A!StartTransfer(t),
             IF A!Started
             THEN Waiting("a", q)' = Tail(Waiting("a", q)) /\ sent' = sent \cup {A!ToBeSeen(t)}
             ELSE Waiting("a", q)' = Waiting("a", q) /\ sent' = sent,
             \A r \in Queues : r # q => Waiting("a", r)' = Waiting("a", r),
             UNCHANGED << b_vars, b_inbox, c_vars, received, a_inbox >>
      PROVE  Begins("a", q) \/ Passes
  <2>1. LET k == KeyFrom(IdA, t)
        IN  /\ UNCHANGED << a_rx_transfers, a_rx_tokens, now >>
            /\ \/ /\ A!Started /\ t.use.claimed # None
                  /\ k \notin DOMAIN a_tx_transfers
                  /\ a_tx_transfers' = Insert(a_tx_transfers, k, EntryFrom(IdA, t, now))
               \/ ~ A!Started /\ UNCHANGED a_tx_transfers
    BY <1>0, <1>1, StartsA DEF A!Started
  <2>2. /\ \A m \in Nodes, r \in Queues : m # "a" => Waiting(m, r)' = Waiting(m, r)
        /\ \A m \in Nodes \ {"a"} : TxMap(m)' = TxMap(m)
        /\ SameRx /\ SameBus /\ received' = received
    BY <1>1, <2>1 DEF Nodes, Peers, Queues, Waiting, Plan, AnswersOf, TxMap, SameRx, SameBus,
                      RxMap, Tokens, Inbox, b_vars, c_vars
  <2>3. TxMap("a") = a_tx_transfers /\ TxMap("a")' = a_tx_transfers' /\ IdOf("a") = IdA
    BY DEF TxMap, IdOf
  <2>4. CASE A!Started
    <3>1. sent' = sent \cup {AsSeen(IdA, t)}
      BY <1>1, <2>4, SeenSameA
    <3>2. /\ Waiting("a", q)' = Tail(Waiting("a", q))
          /\ t.use.claimed # None
          /\ KeyFrom(IdA, t) \notin DOMAIN TxMap("a")
          /\ TxMap("a")' = Insert(TxMap("a"), KeyFrom(IdA, t), EntryFrom(IdA, t, now))
      BY <1>1, <2>1, <2>3, <2>4
    <3> QED BY <1>1, <2>2, <2>3, <3>1, <3>2 DEF Begins
  <2>5. CASE ~ A!Started
    <3>1. SameQueues
      BY <1>1, <2>2, <2>5 DEF SameQueues
    <3>2. \A m \in Nodes : TxMap(m)' = TxMap(m)
      BY <2>1, <2>2, <2>3, <2>5
    <3>3. SameHistory
      BY <1>1, <2>2, <2>5 DEF SameHistory
    <3>4. \A m \in Nodes : Thins(TxMap(m), TxMap(m)')
      BY <3>2 DEF Thins
    <3>5. \A m \in Peers : Ages(RxMap(m), RxMap(m)') /\ Tokens(m)' = Tokens(m)
      BY <2>2 DEF SameRx, Ages
    <3> QED BY <2>2, <3>1, <3>3, <3>4, <3>5 DEF Passes
  <2> QED BY <2>4, <2>5
<1>2. CASE StartA
  <2>1. /\ Waiting("a", "plan") = a_plan /\ Waiting("a", "plan")' = a_plan'
        /\ Waiting("a", "answers") = a_answers /\ Waiting("a", "answers")' = a_answers'
    BY DEF Waiting, Plan, AnswersOf
  <2>2. /\ a_plan # << >> /\ A!StartTransfer(Head(a_plan))
        /\ a_plan' = IF A!Started THEN Tail(a_plan) ELSE a_plan
        /\ sent' = IF A!Started THEN sent \cup {A!ToBeSeen(Head(a_plan))} ELSE sent
        /\ UNCHANGED << b_vars, b_inbox, c_vars, received, a_inbox, a_answers >>
    BY <1>2 DEF StartA, A!StartPlanned, Sent
  <2> QED BY <1>1, <2>1, <2>2 DEF Queues
<1>3. CASE AnswerA
  <2>1. /\ Waiting("a", "plan") = a_plan /\ Waiting("a", "plan")' = a_plan'
        /\ Waiting("a", "answers") = a_answers /\ Waiting("a", "answers")' = a_answers'
    BY DEF Waiting, Plan, AnswersOf
  <2>2. /\ a_answers # << >> /\ A!StartTransfer(Head(a_answers))
        /\ a_answers' = IF A!Started THEN Tail(a_answers) ELSE a_answers
        /\ sent' = IF A!Started THEN sent \cup {A!ToBeSeen(Head(a_answers))} ELSE sent
        /\ UNCHANGED << b_vars, b_inbox, c_vars, received, a_inbox, a_plan >>
    BY <1>3 DEF AnswerA, A!StartAnswer, Sent
  <2> QED BY <1>1, <2>1, <2>2 DEF Queues
<1> QED BY <1>2, <1>3

LEMMA TransmitsA ==
    ASSUME NEW k, TransmitA(k)
    PROVE  Sends("a") \/ Passes
<1>1. /\ A!Transmit(k) /\ b_inbox' = Broadcast(b_inbox)
      /\ UNCHANGED << b_vars, c_vars, history >>
  BY DEF TransmitA
<1>2. /\ SameQueues /\ SameRx /\ SameHistory
      /\ \A m \in Nodes \ {"a"} : TxMap(m)' = TxMap(m)
      /\ a_inbox' = a_inbox
  BY <1>1, SendsA DEF Nodes, Peers, Queues, Waiting, Plan, AnswersOf, TxMap, SameQueues, SameRx,
                      RxMap, Tokens, b_vars, c_vars, SameHistory, history
<1>3. TxMap("a") = a_tx_transfers /\ TxMap("a")' = a_tx_transfers' /\ IdOf("a") = IdA
  BY DEF TxMap, IdOf
<1>4. CASE /\ tx_result'.kind = "Frame"
           /\ Cuts(IdA, a_tx_transfers, a_tx_transfers', k, tx_result'.frame)
  <2>1. \A m \in Peers :
           Inbox(m)' = IF m = "a" THEN Inbox(m) ELSE Append(Inbox(m), tx_result'.frame)
    BY <1>1, <1>2, <1>4 DEF Peers, Inbox, Broadcast
  <2>2. Cuts(IdOf("a"), TxMap("a"), TxMap("a")', k, tx_result'.frame)
    BY <1>3, <1>4
  <2> QED BY <1>2, <2>1, <2>2 DEF Sends
<1>5. CASE tx_result'.kind # "Frame" /\ Thins(a_tx_transfers, a_tx_transfers')
  <2>1. SameBus
    BY <1>1, <1>2, <1>5 DEF SameBus, Peers, Inbox, Broadcast
  <2>2. ASSUME NEW m \in Nodes PROVE Thins(TxMap(m), TxMap(m)')
    <3>1. CASE m = "a"
      BY <1>3, <1>5, <3>1
    <3>2. CASE m # "a"
      BY <1>2, <3>2 DEF Thins
    <3> QED BY <3>1, <3>2
  <2>3. \A m \in Peers : Ages(RxMap(m), RxMap(m)') /\ Tokens(m)' = Tokens(m)
    BY <1>2 DEF SameRx, Ages
  <2> QED BY <1>2, <2>1, <2>2, <2>3 DEF Passes
<1> QED BY <1>1, <1>4, <1>5, SendsA

LEMMA ArrivesA == ReceiveA => Receives("a") \/ Loses("a")
<1> SUFFICES ASSUME ReceiveA PROVE Receives("a") \/ Loses("a")
  OBVIOUS
<1>1. A!Receive /\ UNCHANGED << b_vars, b_inbox, c_vars, history >>
  BY DEF ReceiveA
<1>2. /\ SameQueues /\ SameTx /\ SameHistory
      /\ \A m \in Peers \ {"a"} :
            RxMap(m)' = RxMap(m) /\ Tokens(m)' = Tokens(m) /\ Inbox(m)' = Inbox(m)
  BY <1>1, ReceivesA DEF Nodes, Peers, Queues, Waiting, Plan, AnswersOf, TxMap, SameQueues,
        SameTx, RxMap, Tokens, Inbox, b_vars, c_vars, SameHistory, history
<1>3. /\ RxMap("a") = a_rx_transfers /\ RxMap("a")' = a_rx_transfers'
      /\ Tokens("a") = a_rx_tokens /\ Tokens("a")' = a_rx_tokens'
      /\ Inbox("a") = a_inbox /\ Inbox("a")' = a_inbox' /\ IdOf("a") = IdA
  BY DEF RxMap, Tokens, Inbox, IdOf
<1>4. CASE UNCHANGED << a_rx_transfers, a_rx_tokens >>
  <2>1. SameRx
    BY <1>2, <1>3, <1>4 DEF SameRx
  <2> QED BY <1>1, <1>2, <1>3, <2>1, ReceivesA DEF Loses
<1>5. CASE TakesUp(IdA, a_rx_transfers, a_rx_transfers', a_rx_tokens, a_rx_tokens',
                   Head(a_inbox), now)
  BY <1>1, <1>2, <1>3, <1>5, ReceivesA DEF Receives
<1> QED BY <1>1, <1>4, <1>5, ReceivesA

LEMMA GivesA ==
    ASSUME NEW k \in DOMAIN a_rx_tokens, ReadA(k)
    PROVE  Reads("a")
<1>1. A!Read(k) /\ WasRead("a") /\ UNCHANGED << b_vars, b_inbox, c_vars >>
  BY DEF ReadA
<1>2. /\ SameTx /\ SameBus /\ sent' = sent
      /\ \A m \in Peers : RxMap(m)' = RxMap(m)
      /\ \A m \in Peers \ {"a"} : Tokens(m)' = Tokens(m)
      /\ \A m \in Nodes, r \in Queues :
            m # "a" \/ r # "answers" => Waiting(m, r)' = Waiting(m, r)
  BY <1>1, ReadsA DEF Nodes, Peers, Queues, Waiting, Plan, AnswersOf, TxMap, SameTx, SameBus,
        RxMap, Tokens, Inbox, b_vars, c_vars, WasRead
<1>3. /\ RxMap("a") = a_rx_transfers
      /\ Tokens("a") = a_rx_tokens /\ Tokens("a")' = a_rx_tokens'
      /\ Waiting("a", "answers") = a_answers /\ Waiting("a", "answers")' = a_answers'
  BY DEF RxMap, Tokens, Waiting, AnswersOf
<1>4. /\ a_rx_tokens[k] > 0 /\ a_rx_tokens' = [a_rx_tokens EXCEPT ![k] = @ - 1]
      /\ received' = IF ActiveIn(a_rx_transfers, k)
                     THEN [received EXCEPT !["a"] = BagAdd(@, ReadUnder("a", k))]
                     ELSE received
      /\ a_answers' = IF ActiveIn(a_rx_transfers, k) /\ ReadUnder("a", k).kind = "Request"
                      THEN Append(a_answers, AnswerUnder("a", k)) ELSE a_answers
  BY <1>1, <1>3, ReadsA DEF WasRead, ReadUnder, AnswerUnder, SeenAs
<1> QED BY <1>2, <1>3, <1>4 DEF Reads

LEMMA AgesA == UpdateA => Passes
<1> SUFFICES ASSUME UpdateA PROVE Passes
  OBVIOUS
<1>1. A!Update /\ UNCHANGED << b_vars, b_inbox, c_vars, history >>
  BY DEF UpdateA
<1>2. SameQueues /\ SameBus /\ SameHistory
  BY <1>1, UpdatesA DEF Nodes, Peers, Queues, Waiting, Plan, AnswersOf, SameQueues, SameBus,
        Inbox, b_vars, c_vars, SameHistory, history
<1>3. ASSUME NEW m \in Nodes PROVE Thins(TxMap(m), TxMap(m)')
  <2>1. CASE m = "a"
    BY <1>1, <2>1, UpdatesA DEF TxMap
  <2>2. CASE m # "a"
    <3>1. TxMap(m)' = TxMap(m)
      BY <1>1, <2>2 DEF TxMap, b_vars, c_vars
    <3> QED BY <3>1 DEF Thins
  <2> QED BY <2>1, <2>2
<1>4. ASSUME NEW m \in Peers PROVE Ages(RxMap(m), RxMap(m)') /\ Tokens(m)' = Tokens(m)
  <2>1. CASE m = "a"
    BY <1>1, <2>1, UpdatesA DEF RxMap, Tokens
  <2>2. CASE m # "a"
    <3>1. RxMap(m)' = RxMap(m) /\ Tokens(m)' = Tokens(m)
      BY <1>1, <2>2 DEF RxMap, Tokens, b_vars
    <3> QED BY <3>1 DEF Ages
  <2> QED BY <2>1, <2>2
<1> QED BY <1>2, <1>3, <1>4 DEF Passes

-----------------------------------------------------------------------------
(* The sending half of peer b. *)

LEMMA TxSameB ==
    /\ \A s : B!Tx!IsLastFrame(s) <=> IsLastFrame(s)
    /\ \A s : B!Tx!ConsumeLen(s) = ConsumeLen(s)
    /\ \A b, n : B!Tx!ProcessTxCrc(b, n) = ProcessTxCrc(b, n)
    /\ \A m : B!Tx!HashMetadata(m) = HashMetadata(m)
    /\ \A m, x, d, n : B!Tx!TxFrame(m, x, d, n) = TxFrame(m, x, d, n)
    /\ \A m, d, n : B!Tx!TxFrameError(m, d, n) = TxFrameError(m, d, n)
    /\ \A use, d : B!Tx!BufferAfterCallback(use, d) = Buffer(use, d)
    /\ \A use : B!Tx!ClampedClaim(use) = Claim(use)
<1>0. B!Tx!FrameCapacity = FrameCapacity
  BY DEF B!Tx!FrameCapacity, FrameCapacity
<1>1. \A s : B!Tx!IsLastFrame(s) <=> IsLastFrame(s)
  BY <1>0 DEF B!Tx!IsLastFrame, IsLastFrame
<1>2. \A s : B!Tx!ConsumeLen(s) = ConsumeLen(s)
  BY <1>0, <1>1 DEF B!Tx!ConsumeLen, ConsumeLen
<1>3. \A b, n : B!Tx!ProcessTxCrc(b, n) = ProcessTxCrc(b, n)
  <2>1. \A s : B!Tx!Crc(s) = Crc(s)
    BY ZenonT(30) DEF B!Tx!Crc, Crc, B!Tx!IsWritten, IsWritten, B!Tx!Written, Written
  <2> QED BY <1>0, <2>1 DEF B!Tx!ProcessTxCrc, ProcessTxCrc
<1>4. \A m : B!Tx!HashMetadata(m) = HashMetadata(m)
  BY DEF B!Tx!HashMetadata, HashMetadata, B!Tx!Optional, Optional, B!Tx!KindOrdinal,
         KindOrdinal
<1>5. ASSUME NEW m, NEW x, NEW d, NEW n PROVE B!Tx!TxFrame(m, x, d, n) = TxFrame(m, x, d, n)
  BY <1>1, <1>2, ZenonT(60)
     DEF B!Tx!TxFrame, TxFrame, B!Tx!TxCanId, TxCanId, B!Tx!CanMessageIdNew, CanMessageIdNew,
         B!Tx!CanServiceIdNew, CanServiceIdNew, B!Tx!TailByteNew, TailByteNew
<1>6. ASSUME NEW m, NEW d, NEW n PROVE B!Tx!TxFrameError(m, d, n) = TxFrameError(m, d, n)
  BY <1>1 DEF B!Tx!TxFrameError, TxFrameError
<1>7. \A use, d : B!Tx!BufferAfterCallback(use, d) = Buffer(use, d)
  BY ZenonT(30) DEF B!Tx!BufferAfterCallback, Buffer, B!Tx!GetCrcPaddedSize,
         GetCrcPaddedSize, B!Tx!Written, Written, B!Tx!ZeroByte, ZeroByte
<1>8. \A use : B!Tx!ClampedClaim(use) = Claim(use)
  BY DEF B!Tx!ClampedClaim, Claim, B!Tx!GetCrcPaddedSize, GetCrcPaddedSize
<1> QED BY <1>1, <1>2, <1>3, <1>4, <1>5, <1>6, <1>7, <1>8

LEMMA StartsB ==
    ASSUME NEW t, Honest(t.use), t.of \in Data, B!StartTransfer(t)
    PROVE  LET k == KeyFrom(IdB, t)
           IN  /\ UNCHANGED << b_rx_transfers, b_rx_tokens, now >>
               /\ \/ /\ tx_result'.kind = "Started" /\ t.use.claimed # None
                     /\ k \notin DOMAIN b_tx_transfers
                     /\ b_tx_transfers' = Insert(b_tx_transfers, k, EntryFrom(IdB, t, now))
                  \/ tx_result'.kind # "Started" /\ UNCHANGED b_tx_transfers
<1> DEFINE m == B!Tx!TxMetadataOf(4, t.port_id, t.tx_kind, t.transfer_id, now)
           buffer == B!Tx!BufferAfterCallback(t.use, t.of)
           e == B!Tx!NewTxTransfer(m, B!Tx!ProcessTxCrc(buffer, B!Tx!ClampedClaim(t.use)))
           k == KeyFrom(IdB, t)
<1>1. /\ B!Tx!StartTxTransfer(4, t.port_id, t.tx_kind, t.transfer_id, t.use, t.of)
      /\ UNCHANGED << b_rx_transfers, b_rx_tokens >>
  BY DEF B!StartTransfer, B!StartTxTransfer, B!PriorityUsed, B!rx_part
<1>2. m = MetadataFrom(IdB, t, now)
  BY DEF B!Tx!TxMetadataOf, MetadataFrom
<1>3. B!Tx!HashMetadata(m) = k
  BY <1>2, TxSameB, KeyIsTimeless
<1>4. ASSUME t.use.claimed # None PROVE e = EntryFrom(IdB, t, now)
  <2>1. B!Tx!ProcessTxCrc(buffer, B!Tx!ClampedClaim(t.use))
            = SentBytes(Written(t.of, t.use.claimed))
    BY <1>4, HonestPayload, TxSameB
  <2> QED BY <1>2, <2>1 DEF B!Tx!NewTxTransfer, EntryFrom, B!Tx!TxMetadataDefault,
                            TxMetadataDefault
<1> HIDE DEF e, k
<1>5. /\ UNCHANGED now
      /\ \/ /\ tx_result'.kind = "Started" /\ t.use.claimed # None
            /\ k \notin DOMAIN b_tx_transfers
            /\ b_tx_transfers' = B!Tx!Insert(b_tx_transfers, k, e)
         \/ tx_result'.kind # "Started" /\ UNCHANGED b_tx_transfers
  BY <1>1, <1>3 DEF B!Tx!StartTxTransfer, e
<1>6. \A map, x, v : B!Tx!Insert(map, x, v) = Insert(map, x, v)
  BY DEF B!Tx!Insert, Insert
<1> QED BY <1>1, <1>4, <1>5, <1>6 DEF k

LEMMA SendsB ==
    ASSUME NEW k, B!Transmit(k)
    PROVE  /\ UNCHANGED << b_rx_transfers, b_rx_tokens, b_plan, b_answers, b_inbox, now >>
           /\ \/ tx_result'.kind = "Frame"
                 /\ Cuts(IdB, b_tx_transfers, b_tx_transfers', k, tx_result'.frame)
              \/ tx_result'.kind # "Frame" /\ Thins(b_tx_transfers, b_tx_transfers')
<1>1. /\ B!Tx!TransmitFrame(k)
      /\ UNCHANGED << b_rx_transfers, b_rx_tokens, b_plan, b_answers, b_inbox >>
  BY DEF B!Transmit, B!TransmitFrame, B!rx_part, B!app_vars
<1>2. \A map, x : B!Tx!Remove(map, x) = Remove(map, x)
  BY RemoveIs DEF B!Tx!Remove, B!Tx!Restrict
<1>3. CASE B!Tx!TransmitOk(k)
  <2> DEFINE e == b_tx_transfers[k]
             data == SubSeq(e.payload, e.consumed + 1, Len(e.payload))
             consumed == e.consumed + ConsumeLen(data)
  <2>1. B!Tx!RemainingData(e) = data
    BY DEF B!Tx!RemainingData
  <2>2. /\ k \in DOMAIN b_tx_transfers /\ e.status = "Active"
        /\ TxFrameError(e.transfer_metadata, data, IdB) = "Ok"
        /\ tx_result'.kind = "Frame"
        /\ tx_result'.frame = TxFrame(e.transfer_metadata, e.transport_metadata, data, IdB)
        /\ now' = now
    BY <1>3, <2>1, TxSameB DEF B!Tx!TransmitOk, B!Tx!TxIsActive, B!Tx!TxErrorOf
  <2>3. b_tx_transfers' =
            IF consumed < Len(e.payload)
            THEN [b_tx_transfers EXCEPT
                    ![k].transport_metadata = B!Tx!TxMetadataNext(@),
                    ![k].consumed = consumed]
            ELSE B!Tx!Remove(b_tx_transfers, k)
    BY <1>3, <2>1, TxSameB DEF B!Tx!TransmitOk
  <2> HIDE DEF consumed
  <2>4. [b_tx_transfers EXCEPT ![k].transport_metadata = B!Tx!TxMetadataNext(@),
                               ![k].consumed = consumed]
            = [b_tx_transfers EXCEPT ![k] = Advanced(e, consumed)]
    BY <2>2 DEF Advanced, B!Tx!TxMetadataNext, TxMetadataNext
  <2>5. Cuts(IdB, b_tx_transfers, b_tx_transfers', k, tx_result'.frame)
    BY <1>2, <2>2, <2>3, <2>4 DEF Cuts, consumed
  <2> QED BY <1>1, <2>2, <2>5
<1>4. CASE B!Tx!TransmitTxError(k) \/ B!Tx!TransmitTokenError(k)
  <2>1. /\ tx_result'.kind # "Frame" /\ now' = now
        /\ b_tx_transfers' = b_tx_transfers \/ b_tx_transfers' = Remove(b_tx_transfers, k)
    BY <1>2, <1>4 DEF B!Tx!TransmitTxError, B!Tx!TransmitTokenError
  <2>2. Thins(b_tx_transfers, b_tx_transfers')
    BY <2>1, RemoveIs DEF Thins
  <2> QED BY <1>1, <2>1, <2>2
<1> QED BY <1>1, <1>3, <1>4 DEF B!Tx!TransmitFrame

LEMMA UpdatesB ==
    ASSUME B!Update
    PROVE  /\ UNCHANGED << b_rx_tokens, b_plan, b_answers, b_inbox, now >>
           /\ Thins(b_tx_transfers, b_tx_transfers')
           /\ Ages(b_rx_transfers, b_rx_transfers')
<1>1. B!Tx!UpdateTxTransfers /\ B!Rx!UpdateRxTransfers
      /\ UNCHANGED << b_plan, b_answers, b_inbox >>
  BY DEF B!Update, B!UpdateTransfers, B!app_vars
<1>2. Thins(b_tx_transfers, b_tx_transfers')
  BY <1>1 DEF Thins, B!Tx!UpdateTxTransfers, B!Tx!TimedOut
<1>3. Ages(b_rx_transfers, b_rx_transfers')
  BY <1>1 DEF Ages, B!Rx!UpdateRxTransfers, B!Rx!TimedOut
<1> QED BY <1>1, <1>2, <1>3 DEF B!Rx!UpdateRxTransfers

(* The receiving half of peer b. *)
LEMMA RxSameB ==
    /\ \A f : B!Rx!RxProcessError(f) = RxProcessError(f)
    /\ \A f, time : B!Rx!RxTransferFrame(f, time) = RxTransferFrame(f, time)
    /\ \A f : B!Rx!RxFrameMetadata(f) = RxFrameMetadata(f)
    /\ \A m, g, h : B!Rx!UpdateRxMetadata(m, g, h) = UpdateRxMetadata(m, g, h)
    /\ \A m : B!Rx!HashMetadata(m) = HashMetadata(m)
    /\ B!Rx!RxMetadataDefault = RxMetadataDefault
    /\ \A map, x, v : B!Rx!Insert(map, x, v) = Insert(map, x, v)
<1>1. \A f : B!Rx!RxProcessError(f) = RxProcessError(f)
  BY DEF B!Rx!RxProcessError, RxProcessError, B!Rx!ClosesMultiFrame, ClosesMultiFrame,
         B!Rx!FrameLen, FrameLen
<1>2. \A f, time : B!Rx!RxTransferFrame(f, time) = RxTransferFrame(f, time)
  BY DEF B!Rx!RxTransferFrame, RxTransferFrame, B!Rx!ClosesMultiFrame, ClosesMultiFrame,
         B!Rx!RxMetadataOf, RxMetadataOf
<1>3. \A f : B!Rx!RxFrameMetadata(f) = RxFrameMetadata(f)
  BY DEF B!Rx!RxFrameMetadata, RxFrameMetadata, B!Rx!ClosesMultiFrame, ClosesMultiFrame
<1>4. \A m, g, h : B!Rx!UpdateRxMetadata(m, g, h) = UpdateRxMetadata(m, g, h)
  <2>1. \A s : B!Rx!Crc(s) = Crc(s)
    BY ZenonT(30) DEF B!Rx!Crc, Crc, B!Rx!IsWritten, IsWritten, B!Rx!Written, Written
  <2> QED BY <2>1, ZenonT(30) DEF B!Rx!UpdateRxMetadata, UpdateRxMetadata
<1>5. \A m : B!Rx!HashMetadata(m) = HashMetadata(m)
  BY DEF B!Rx!HashMetadata, HashMetadata, B!Rx!Optional, Optional, B!Rx!KindOrdinal,
         KindOrdinal
<1>6. B!Rx!RxMetadataDefault = RxMetadataDefault
  BY DEF B!Rx!RxMetadataDefault, RxMetadataDefault
<1>7. \A map, x, v : B!Rx!Insert(map, x, v) = Insert(map, x, v)
  BY DEF B!Rx!Insert, Insert
<1> QED BY <1>1, <1>2, <1>3, <1>4, <1>5, <1>6, <1>7

(* What comes behind the tests of try_receive_frame. *)
LEMMA AppendsB ==
    ASSUME NEW f, RxProcessError(f) = "Ok",
           B!Rx!AppendFrame(KeyOf(f), RxFrameMetadata(f), RxTransferFrame(f, now))
    PROVE  \E e, kind :
              /\ b_rx_transfers' = Insert(b_rx_transfers, KeyOf(f), e)
              /\ Takes(f, now, b_rx_transfers, e, kind)
              /\ b_rx_tokens' = IF kind = "Token"
                                THEN [b_rx_tokens EXCEPT ![KeyOf(f)] = @ + 1]
                                ELSE b_rx_tokens
<1> DEFINE k == KeyOf(f)
           old == b_rx_transfers[k]
           frame == RxTransferFrame(f, now)
           update == Updated(f, old.transport_metadata)
           bytes == BytesOf(f)
<1>1. ActiveIn(b_rx_transfers, k)
  BY DEF B!Rx!AppendFrame, B!Rx!RxIsActive, ActiveIn
<1>2. frame.payload = bytes /\ frame.last_frame = f.tail.end
  BY TimeIrrelevant
<1>3. B!Rx!UpdateRxMetadata(old.transport_metadata, RxFrameMetadata(f), frame) = update
  BY RxSameB, TimeIrrelevant
<1> HIDE DEF frame, update, k, bytes
<1>4. \/ /\ update.error # "Ok"
         /\ b_rx_transfers' =
               [b_rx_transfers EXCEPT ![k].transport_metadata = update.metadata]
         /\ UNCHANGED b_rx_tokens
      \/ /\ update.error = "Ok"
         /\ b_rx_transfers' = [b_rx_transfers EXCEPT
                                 ![k].transport_metadata = update.metadata,
                                 ![k].payload = @ \o frame.payload]
         /\ B!Rx!Accepted(k, frame)
  BY <1>3 DEF B!Rx!AppendFrame, k, frame
<1>5. CASE /\ update.error # "Ok"
           /\ b_rx_transfers' =
                 [b_rx_transfers EXCEPT ![k].transport_metadata = update.metadata]
           /\ UNCHANGED b_rx_tokens
  <2> DEFINE e == [old EXCEPT !.transport_metadata = update.metadata]
  <2>1. b_rx_transfers' = Insert(b_rx_transfers, k, e)
    BY <1>1, <1>5 DEF Insert, ActiveIn
  <2>2. Refuses(f, b_rx_transfers[k], e)
    BY <1>5 DEF Refuses, update
  <2> HIDE DEF e, old
  <2>3. Takes(f, now, b_rx_transfers, e, "Nothing")
    BY <1>1, <2>2 DEF Takes, k
  <2> QED BY <1>5, <2>1, <2>3 DEF k
<1>6. CASE /\ update.error = "Ok"
           /\ b_rx_transfers' = [b_rx_transfers EXCEPT
                                   ![k].transport_metadata = update.metadata,
                                   ![k].payload = @ \o frame.payload]
           /\ B!Rx!Accepted(k, frame)
  <2> DEFINE e == [old EXCEPT !.transport_metadata = update.metadata,
                              !.payload = old.payload \o bytes]
             kind == IF f.tail.end THEN "Token" ELSE "Nothing"
  <2>1. b_rx_transfers' = Insert(b_rx_transfers, k, e)
    BY <1>1, <1>2, <1>6 DEF Insert, ActiveIn
  <2>2. Appends(f, b_rx_transfers[k], e)
    BY <1>6 DEF Appends, update, bytes
  <2> HIDE DEF e, old
  <2>3. Takes(f, now, b_rx_transfers, e, kind)
    BY <1>1, <2>2 DEF Takes, k
  <2>4. b_rx_tokens' = IF kind = "Token" THEN [b_rx_tokens EXCEPT ![k] = @ + 1]
                       ELSE b_rx_tokens
    BY <1>2, <1>6 DEF B!Rx!Accepted, B!Rx!GainToken
  <2> HIDE DEF kind
  <2> QED BY <2>1, <2>3, <2>4 DEF k
<1> QED BY <1>4, <1>5, <1>6

LEMMA OpensB ==
    ASSUME NEW f, RxProcessError(f) = "Ok",
           B!Rx!NewTransfer(KeyOf(f), RxFrameMetadata(f), RxTransferFrame(f, now))
    PROVE  \/ UNCHANGED << b_rx_transfers, b_rx_tokens >>
           \/ \E e, kind :
                 /\ b_rx_transfers' = Insert(b_rx_transfers, KeyOf(f), e)
                 /\ Takes(f, now, b_rx_transfers, e, kind)
                 /\ b_rx_tokens' = IF kind = "Token"
                                   THEN [b_rx_tokens EXCEPT ![KeyOf(f)] = @ + 1]
                                   ELSE b_rx_tokens
<1> DEFINE k == KeyOf(f)
           frame == RxTransferFrame(f, now)
           update == Updated(f, RxMetadataDefault)
           e == B!Rx!NewRxTransfer(frame, update.metadata)
           kind == IF f.tail.end THEN "Token" ELSE "Nothing"
<1>1. B!Rx!UpdateRxMetadata(B!Rx!RxMetadataDefault, RxFrameMetadata(f), frame) = update
  BY RxSameB, TimeIrrelevant
<1>2. /\ frame.payload = BytesOf(f) /\ frame.first_frame = f.tail.start
      /\ frame.last_frame = f.tail.end
      /\ frame.metadata = RxMetadataOf(f.id, f.tail.transfer_id, now)
  BY TimeIrrelevant DEF RxTransferFrame
<1> HIDE DEF update, frame, k
<1>3. e = [status |-> "Active",
           transfer_metadata |-> RxMetadataOf(f.id, f.tail.transfer_id, now),
           transport_metadata |-> update.metadata, payload |-> BytesOf(f)]
  BY <1>2 DEF B!Rx!NewRxTransfer
<1>4. /\ k \notin DOMAIN b_rx_transfers /\ frame.first_frame
      /\ IF update.error # "Ok"
         THEN UNCHANGED << b_rx_transfers, b_rx_tokens >>
         ELSE /\ b_rx_transfers' = Insert(b_rx_transfers, k, e)
              /\ B!Rx!Accepted(k, frame)
  BY <1>1, RxSameB DEF B!Rx!NewTransfer, k, frame
<1> HIDE DEF e
<1>5. CASE update.error = "Ok"
  <2>1. Opens(f, now, e)
    BY <1>2, <1>3, <1>4, <1>5 DEF Opens, update
  <2>2. Takes(f, now, b_rx_transfers, e, kind)
    BY <1>4, <2>1 DEF Takes, k
  <2>3. b_rx_tokens' = IF kind = "Token" THEN [b_rx_tokens EXCEPT ![k] = @ + 1]
                       ELSE b_rx_tokens
    BY <1>2, <1>4, <1>5 DEF B!Rx!Accepted, B!Rx!GainToken
  <2> HIDE DEF kind
  <2> QED BY <1>4, <1>5, <2>2, <2>3 DEF k
<1> QED BY <1>4, <1>5

LEMMA ReceivesB ==
    ASSUME B!Receive
    PROVE  /\ UNCHANGED << b_tx_transfers, b_plan, b_answers, now >>
           /\ b_inbox # << >> /\ b_inbox' = Tail(b_inbox)
           /\ \A k \in DOMAIN b_rx_tokens : ~ (b_rx_tokens[k] > 0)
           /\ \/ UNCHANGED << b_rx_transfers, b_rx_tokens >>
              \/ TakesUp(IdB, b_rx_transfers, b_rx_transfers', b_rx_tokens, b_rx_tokens',
                         Head(b_inbox), now)
<1> DEFINE f == Head(b_inbox)
           frame == RxTransferFrame(f, now)
           quiet == UNCHANGED << b_rx_transfers, b_rx_tokens >>
<1>1. /\ B!Rx!ReceiveFrame(f)
      /\ UNCHANGED << b_tx_transfers, b_plan, b_answers >>
      /\ b_inbox # << >> /\ b_inbox' = Tail(b_inbox)
      /\ \A k \in DOMAIN b_rx_tokens : ~ (b_rx_tokens[k] > 0)
  BY DEF B!Receive, B!HasUnread, B!TryReceiveFrame, B!tx_part
<1> HIDE DEF f
<1>2. \/ B!Rx!RejectFrame(f)
      \/ RxProcessError(f) = "Ok" /\ B!Rx!IgnoreFrame(frame)
      \/ RxProcessError(f) = "Ok" /\ B!Rx!TakeFrame(RxFrameMetadata(f), frame)
  BY <1>1, RxSameB DEF B!Rx!ReceiveFrame
<1>3. CASE B!Rx!RejectFrame(f)
  BY <1>1, <1>3 DEF B!Rx!RejectFrame, f
<1>4. CASE B!Rx!IgnoreFrame(frame)
  <2> HIDE DEF frame
  <2> QED BY <1>1, <1>4 DEF B!Rx!IgnoreFrame, f
<1>5. CASE RxProcessError(f) = "Ok" /\ B!Rx!TakeFrame(RxFrameMetadata(f), frame)
  <2>1. B!Rx!HashMetadata(frame.metadata) = KeyOf(f)
    BY RxSameB, TimeIrrelevant
  <2>2. RxMetadataOf(f.id, f.tail.transfer_id, 0).destination_node_id \in {None, IdB}
    <3>1. ~ B!Rx!IsForOthers(frame.metadata)
      BY <1>5 DEF B!Rx!TakeFrame
    <3> QED BY <3>1 DEF B!Rx!IsForOthers, RxTransferFrame, RxMetadataOf
  <2> HIDE DEF frame
  <2>3. /\ now' = now
        /\ \/ quiet
           \/ B!Rx!AppendFrame(KeyOf(f), RxFrameMetadata(f), frame)
           \/ B!Rx!NewTransfer(KeyOf(f), RxFrameMetadata(f), frame)
    <3>1. \/ quiet /\ now' = now
          \/ B!Rx!AppendFrame(KeyOf(f), RxFrameMetadata(f), frame)
          \/ B!Rx!NewTransfer(KeyOf(f), RxFrameMetadata(f), frame)
      BY <1>5, <2>1 DEF B!Rx!TakeFrame, B!Rx!AppendToTimedOut, B!Rx!NewSessionNoStart
    <3> QED BY <3>1 DEF B!Rx!AppendFrame, B!Rx!NewTransfer
  <2>4. quiet \/ TakesUp(IdB, b_rx_transfers, b_rx_transfers', b_rx_tokens, b_rx_tokens', f, now)
    BY <1>5, <2>2, <2>3, AppendsB, OpensB DEF TakesUp, frame
  <2> QED BY <1>1, <2>3, <2>4 DEF f
<1> QED BY <1>2, <1>3, <1>4, <1>5

LEMMA ReadsB ==
    ASSUME NEW k, B!Read(k)
    PROVE  LET e == b_rx_transfers[k]
           IN  /\ UNCHANGED << b_tx_transfers, b_rx_transfers, b_plan, b_inbox, now >>
               /\ b_rx_tokens[k] > 0
               /\ b_rx_tokens' = [b_rx_tokens EXCEPT ![k] = @ - 1]
               /\ IF ActiveIn(b_rx_transfers, k)
                  THEN /\ rx_result'.kind = "Read"
                       /\ A!Seen(rx_result'.metadata, rx_result'.payload)
                             = SeenAs(e.transfer_metadata, e.payload)
                       /\ b_answers' = IF e.transfer_metadata.transfer_kind = "Request"
                                       THEN Append(b_answers,
                                                   ReplyFrom(e.transfer_metadata, e.payload))
                                       ELSE b_answers
                  ELSE rx_result'.kind # "Read" /\ b_answers' = b_answers
<1> DEFINE e == b_rx_transfers[k]
<1>1. /\ B!Rx!WithRxTransfer(k)
      /\ UNCHANGED << b_tx_transfers, b_plan, b_inbox >>
      /\ b_answers' = IF rx_result'.kind = "Read"
                         /\ rx_result'.metadata.transfer_kind = "Request"
                      THEN Append(b_answers,
                                  B!AnswerTo(rx_result'.metadata, rx_result'.payload))
                      ELSE b_answers
  BY DEF B!Read, B!WithRxTransfer, B!tx_part
<1>2. B!Rx!RxIsActive(k) <=> ActiveIn(b_rx_transfers, k)
  BY DEF B!Rx!RxIsActive, ActiveIn
<1>3. /\ UNCHANGED << b_rx_transfers, now >> /\ b_rx_tokens[k] > 0
      /\ b_rx_tokens' = [b_rx_tokens EXCEPT ![k] = @ - 1]
      /\ rx_result' =
            IF ActiveIn(b_rx_transfers, k)
            THEN [kind |-> "Read", metadata |-> e.transfer_metadata, payload |-> e.payload]
            ELSE [kind |-> "TokenError",
                  error |-> IF B!Rx!RxIsTimedOut(k) THEN "TransferTimeout" ELSE "InvalidToken"]
  BY <1>1, <1>2 DEF B!Rx!WithRxTransfer, B!Rx!LoseToken
<1>4. B!AnswerTo(e.transfer_metadata, e.payload) = ReplyFrom(e.transfer_metadata, e.payload)
  BY DEF B!AnswerTo, ReplyFrom, B!ContentOf, ContentIn
<1>5. A!Seen(e.transfer_metadata, e.payload) = SeenAs(e.transfer_metadata, e.payload)
  BY DEF A!Seen, SeenAs
<1>6. CASE ActiveIn(b_rx_transfers, k)
  BY <1>1, <1>3, <1>4, <1>5, <1>6
<1>7. CASE ~ ActiveIn(b_rx_transfers, k)
  BY <1>1, <1>3, <1>7
<1> QED BY <1>6, <1>7

(* What peer b sends, as others see it. *)
LEMMA SeenSameB == \A t : B!ToBeSeen(t) = AsSeen(IdB, t)
<1> TAKE t
<1>1. B!MetadataToSend(t) = MetadataFrom(IdB, t, 0)
  BY DEF B!MetadataToSend, B!PriorityUsed, B!Tx!TxMetadataOf, MetadataFrom
<1>2. \A m : B!TxCanId(m, IdB) = TxCanId(m, IdB)
  BY DEF B!TxCanId, TxCanId, B!CanMessageIdNew, CanMessageIdNew, B!CanServiceIdNew,
         CanServiceIdNew
<1>3. \A c, d : B!RxMetadataOf(c, d, 0) = RxMetadataOf(c, d, 0)
  BY DEF B!RxMetadataOf, RxMetadataOf
<1>4. \A d, n : B!Written(d, n) = Written(d, n)
  BY DEF B!Written, Written
<1>5. \A m, p : B!Seen(m, p) = SeenAs(m, p)
  BY DEF B!Seen, SeenAs
<1> QED BY <1>1, <1>2, <1>3, <1>4, <1>5, Zenon DEF B!ToBeSeen, AsSeen, SeenMetadata

(* The steps of peer b. *)
LEMMA BeginsB ==
    ASSUME QueuesTyped, StartB \/ AnswerB
    PROVE  (\E q \in Queues : Begins("b", q)) \/ Passes
<1>0. ASSUME NEW q \in Queues, Waiting("b", q) # << >>
      PROVE  Honest(Head(Waiting("b", q)).use) /\ Head(Waiting("b", q)).of \in Data
  <2>1. Waiting("b", q) \in Seq(Awaited("b", q))
    BY DEF QueuesTyped, Nodes
  <2>2. Head(Waiting("b", q)) \in Awaited("b", q)
    BY <1>0, <2>1, TailIs
  <2> QED BY <2>2, NetworkAssumption DEF Awaited, Sendable, Replies
<1>1. ASSUME NEW q \in Queues, NEW t, t = Head(Waiting("b", q)),
             Waiting("b", q) # << >>, B!StartTransfer(t),
             IF B!Started
             THEN Waiting("b", q)' = Tail(Waiting("b", q)) /\ sent' = sent \cup {B!ToBeSeen(t)}
             ELSE Waiting("b", q)' = Waiting("b", q) /\ sent' = sent,
             \A r \in Queues : r # q => Waiting("b", r)' = Waiting("b", r),
             UNCHANGED << a_vars, a_inbox, c_vars, received, b_inbox >>
      PROVE  Begins("b", q) \/ Passes
  <2>1. LET k == KeyFrom(IdB, t)
        IN  /\ UNCHANGED << b_rx_transfers, b_rx_tokens, now >>
            /\ \/ /\ B!Started /\ t.use.claimed # None
                  /\ k \notin DOMAIN b_tx_transfers
                  /\ b_tx_transfers' = Insert(b_tx_transfers, k, EntryFrom(IdB, t, now))
               \/ ~ B!Started /\ UNCHANGED b_tx_transfers
    BY <1>0, <1>1, StartsB DEF B!Started
  <2>2. /\ \A m \in Nodes, r \in Queues : m # "b" => Waiting(m, r)' = Waiting(m, r)
        /\ \A m \in Nodes \ {"b"} : TxMap(m)' = TxMap(m)
        /\ SameRx /\ SameBus /\ received' = received
    BY <1>1, <2>1 DEF Nodes, Peers, Queues, Waiting, Plan, AnswersOf, TxMap, SameRx, SameBus,
                      RxMap, Tokens, Inbox, a_vars, c_vars
  <2>3. TxMap("b") = b_tx_transfers /\ TxMap("b")' = b_tx_transfers' /\ IdOf("b") = IdB
    BY DEF TxMap, IdOf
  <2>4. CASE B!Started
    <3>1. sent' = sent \cup {AsSeen(IdB, t)}
      BY <1>1, <2>4, SeenSameB
    <3>2. /\ Waiting("b", q)' = Tail(Waiting("b", q))
          /\ t.use.claimed # None
          /\ KeyFrom(IdB, t) \notin DOMAIN TxMap("b")
          /\ TxMap("b")' = Insert(TxMap("b"), KeyFrom(IdB, t), EntryFrom(IdB, t, now))
      BY <1>1, <2>1, <2>3, <2>4
    <3> QED BY <1>1, <2>2, <2>3, <3>1, <3>2 DEF Begins
  <2>5. CASE ~ B!Started
    <3>1. SameQueues
      BY <1>1, <2>2, <2>5 DEF SameQueues
    <3>2. \A m \in Nodes : TxMap(m)' = TxMap(m)
      BY <2>1, <2>2, <2>3, <2>5
    <3>3. SameHistory
      BY <1>1, <2>2, <2>5 DEF SameHistory
    <3>4. \A m \in Nodes : Thins(TxMap(m), TxMap(m)')
      BY <3>2 DEF Thins
    <3>5. \A m \in Peers : Ages(RxMap(m), RxMap(m)') /\ Tokens(m)' = Tokens(m)
      BY <2>2 DEF SameRx, Ages
    <3> QED BY <2>2, <3>1, <3>3, <3>4, <3>5 DEF Passes
  <2> QED BY <2>4, <2>5
<1>2. CASE StartB
  <2>1. /\ Waiting("b", "plan") = b_plan /\ Waiting("b", "plan")' = b_plan'
        /\ Waiting("b", "answers") = b_answers /\ Waiting("b", "answers")' = b_answers'
    BY DEF Waiting, Plan, AnswersOf
  <2>2. /\ b_plan # << >> /\ B!StartTransfer(Head(b_plan))
        /\ b_plan' = IF B!Started THEN Tail(b_plan) ELSE b_plan
        /\ sent' = IF B!Started THEN sent \cup {B!ToBeSeen(Head(b_plan))} ELSE sent
        /\ UNCHANGED << a_vars, a_inbox, c_vars, received, b_inbox, b_answers >>
    BY <1>2 DEF StartB, B!StartPlanned, Sent
  <2> QED BY <1>1, <2>1, <2>2 DEF Queues
<1>3. CASE AnswerB
  <2>1. /\ Waiting("b", "plan") = b_plan /\ Waiting("b", "plan")' = b_plan'
        /\ Waiting("b", "answers") = b_answers /\ Waiting("b", "answers")' = b_answers'
    BY DEF Waiting, Plan, AnswersOf
  <2>2. /\ b_answers # << >> /\ B!StartTransfer(Head(b_answers))
        /\ b_answers' = IF B!Started THEN Tail(b_answers) ELSE b_answers
        /\ sent' = IF B!Started THEN sent \cup {B!ToBeSeen(Head(b_answers))} ELSE sent
        /\ UNCHANGED << a_vars, a_inbox, c_vars, received, b_inbox, b_plan >>
    BY <1>3 DEF AnswerB, B!StartAnswer, Sent
  <2> QED BY <1>1, <2>1, <2>2 DEF Queues
<1> QED BY <1>2, <1>3

LEMMA TransmitsB ==
    ASSUME NEW k, TransmitB(k)
    PROVE  Sends("b") \/ Passes
<1>1. /\ B!Transmit(k) /\ a_inbox' = Broadcast(a_inbox)
      /\ UNCHANGED << a_vars, c_vars, history >>
  BY DEF TransmitB
<1>2. /\ SameQueues /\ SameRx /\ SameHistory
      /\ \A m \in Nodes \ {"b"} : TxMap(m)' = TxMap(m)
      /\ b_inbox' = b_inbox
  BY <1>1, SendsB DEF Nodes, Peers, Queues, Waiting, Plan, AnswersOf, TxMap, SameQueues, SameRx,
                      RxMap, Tokens, a_vars, c_vars, SameHistory, history
<1>3. TxMap("b") = b_tx_transfers /\ TxMap("b")' = b_tx_transfers' /\ IdOf("b") = IdB
  BY DEF TxMap, IdOf
<1>4. CASE /\ tx_result'.kind = "Frame"
           /\ Cuts(IdB, b_tx_transfers, b_tx_transfers', k, tx_result'.frame)
  <2>1. \A m \in Peers :
           Inbox(m)' = IF m = "b" THEN Inbox(m) ELSE Append(Inbox(m), tx_result'.frame)
    BY <1>1, <1>2, <1>4 DEF Peers, Inbox, Broadcast
  <2>2. Cuts(IdOf("b"), TxMap("b"), TxMap("b")', k, tx_result'.frame)
    BY <1>3, <1>4
  <2> QED BY <1>2, <2>1, <2>2 DEF Sends
<1>5. CASE tx_result'.kind # "Frame" /\ Thins(b_tx_transfers, b_tx_transfers')
  <2>1. SameBus
    BY <1>1, <1>2, <1>5 DEF SameBus, Peers, Inbox, Broadcast
  <2>2. ASSUME NEW m \in Nodes PROVE Thins(TxMap(m), TxMap(m)')
    <3>1. CASE m = "b"
      BY <1>3, <1>5, <3>1
    <3>2. CASE m # "b"
      BY <1>2, <3>2 DEF Thins
    <3> QED BY <3>1, <3>2
  <2>3. \A m \in Peers : Ages(RxMap(m), RxMap(m)') /\ Tokens(m)' = Tokens(m)
    BY <1>2 DEF SameRx, Ages
  <2> QED BY <1>2, <2>1, <2>2, <2>3 DEF Passes
<1> QED BY <1>1, <1>4, <1>5, SendsB

LEMMA ArrivesB == ReceiveB => Receives("b") \/ Loses("b")
<1> SUFFICES ASSUME ReceiveB PROVE Receives("b") \/ Loses("b")
  OBVIOUS
<1>1. B!Receive /\ UNCHANGED << a_vars, a_inbox, c_vars, history >>
  BY DEF ReceiveB
<1>2. /\ SameQueues /\ SameTx /\ SameHistory
      /\ \A m \in Peers \ {"b"} :
            RxMap(m)' = RxMap(m) /\ Tokens(m)' = Tokens(m) /\ Inbox(m)' = Inbox(m)
  BY <1>1, ReceivesB DEF Nodes, Peers, Queues, Waiting, Plan, AnswersOf, TxMap, SameQueues,
        SameTx, RxMap, Tokens, Inbox, a_vars, c_vars, SameHistory, history
<1>3. /\ RxMap("b") = b_rx_transfers /\ RxMap("b")' = b_rx_transfers'
      /\ Tokens("b") = b_rx_tokens /\ Tokens("b")' = b_rx_tokens'
      /\ Inbox("b") = b_inbox /\ Inbox("b")' = b_inbox' /\ IdOf("b") = IdB
  BY DEF RxMap, Tokens, Inbox, IdOf
<1>4. CASE UNCHANGED << b_rx_transfers, b_rx_tokens >>
  <2>1. SameRx
    BY <1>2, <1>3, <1>4 DEF SameRx
  <2> QED BY <1>1, <1>2, <1>3, <2>1, ReceivesB DEF Loses
<1>5. CASE TakesUp(IdB, b_rx_transfers, b_rx_transfers', b_rx_tokens, b_rx_tokens',
                   Head(b_inbox), now)
  BY <1>1, <1>2, <1>3, <1>5, ReceivesB DEF Receives
<1> QED BY <1>1, <1>4, <1>5, ReceivesB

LEMMA GivesB ==
    ASSUME NEW k \in DOMAIN b_rx_tokens, ReadB(k)
    PROVE  Reads("b")
<1>1. B!Read(k) /\ WasRead("b") /\ UNCHANGED << a_vars, a_inbox, c_vars >>
  BY DEF ReadB
<1>2. /\ SameTx /\ SameBus /\ sent' = sent
      /\ \A m \in Peers : RxMap(m)' = RxMap(m)
      /\ \A m \in Peers \ {"b"} : Tokens(m)' = Tokens(m)
      /\ \A m \in Nodes, r \in Queues :
            m # "b" \/ r # "answers" => Waiting(m, r)' = Waiting(m, r)
  BY <1>1, ReadsB DEF Nodes, Peers, Queues, Waiting, Plan, AnswersOf, TxMap, SameTx, SameBus,
        RxMap, Tokens, Inbox, a_vars, c_vars, WasRead
<1>3. /\ RxMap("b") = b_rx_transfers
      /\ Tokens("b") = b_rx_tokens /\ Tokens("b")' = b_rx_tokens'
      /\ Waiting("b", "answers") = b_answers /\ Waiting("b", "answers")' = b_answers'
  BY DEF RxMap, Tokens, Waiting, AnswersOf
<1>4. /\ b_rx_tokens[k] > 0 /\ b_rx_tokens' = [b_rx_tokens EXCEPT ![k] = @ - 1]
      /\ received' = IF ActiveIn(b_rx_transfers, k)
                     THEN [received EXCEPT !["b"] = BagAdd(@, ReadUnder("b", k))]
                     ELSE received
      /\ b_answers' = IF ActiveIn(b_rx_transfers, k) /\ ReadUnder("b", k).kind = "Request"
                      THEN Append(b_answers, AnswerUnder("b", k)) ELSE b_answers
  BY <1>1, <1>3, ReadsB DEF WasRead, ReadUnder, AnswerUnder, SeenAs
<1> QED BY <1>2, <1>3, <1>4 DEF Reads

LEMMA AgesB == UpdateB => Passes
<1> SUFFICES ASSUME UpdateB PROVE Passes
  OBVIOUS
<1>1. B!Update /\ UNCHANGED << a_vars, a_inbox, c_vars, history >>
  BY DEF UpdateB
<1>2. SameQueues /\ SameBus /\ SameHistory
  BY <1>1, UpdatesB DEF Nodes, Peers, Queues, Waiting, Plan, AnswersOf, SameQueues, SameBus,
        Inbox, a_vars, c_vars, SameHistory, history
<1>3. ASSUME NEW m \in Nodes PROVE Thins(TxMap(m), TxMap(m)')
  <2>1. CASE m = "b"
    BY <1>1, <2>1, UpdatesB DEF TxMap
  <2>2. CASE m # "b"
    <3>1. TxMap(m)' = TxMap(m)
      BY <1>1, <2>2 DEF TxMap, a_vars, c_vars
    <3> QED BY <3>1 DEF Thins
  <2> QED BY <2>1, <2>2
<1>4. ASSUME NEW m \in Peers PROVE Ages(RxMap(m), RxMap(m)') /\ Tokens(m)' = Tokens(m)
  <2>1. CASE m = "b"
    BY <1>1, <2>1, UpdatesB DEF RxMap, Tokens
  <2>2. CASE m # "b"
    <3>1. RxMap(m)' = RxMap(m) /\ Tokens(m)' = Tokens(m)
      BY <1>1, <2>2 DEF Peers, RxMap, Tokens, a_vars
    <3> QED BY <3>1 DEF Ages
  <2> QED BY <2>1, <2>2
<1> QED BY <1>2, <1>3, <1>4 DEF Passes

-----------------------------------------------------------------------------
(* The anonymous node. *)

LEMMA TxSameC ==
    /\ \A s : C!IsLastFrame(s) <=> IsLastFrame(s)
    /\ \A s : C!ConsumeLen(s) = ConsumeLen(s)
    /\ \A b, n : C!ProcessTxCrc(b, n) = ProcessTxCrc(b, n)
    /\ \A m : C!HashMetadata(m) = HashMetadata(m)
    /\ \A m, x, d, n : C!TxFrame(m, x, d, n) = TxFrame(m, x, d, n)
    /\ \A m, d, n : C!TxFrameError(m, d, n) = TxFrameError(m, d, n)
    /\ \A use, d : C!BufferAfterCallback(use, d) = Buffer(use, d)
    /\ \A use : C!ClampedClaim(use) = Claim(use)
<1>0. C!FrameCapacity = FrameCapacity
  BY DEF C!FrameCapacity, FrameCapacity
<1>1. \A s : C!IsLastFrame(s) <=> IsLastFrame(s)
  BY <1>0 DEF C!IsLastFrame, IsLastFrame
<1>2. \A s : C!ConsumeLen(s) = ConsumeLen(s)
  BY <1>0, <1>1 DEF C!ConsumeLen, ConsumeLen
<1>3. \A b, n : C!ProcessTxCrc(b, n) = ProcessTxCrc(b, n)
  <2>1. \A s : C!Crc(s) = Crc(s)
    BY ZenonT(30) DEF C!Crc, Crc, C!IsWritten, IsWritten, C!Written, Written
  <2> QED BY <1>0, <2>1 DEF C!ProcessTxCrc, ProcessTxCrc
<1>4. \A m : C!HashMetadata(m) = HashMetadata(m)
  BY DEF C!HashMetadata, HashMetadata, C!Optional, Optional, C!KindOrdinal,
         KindOrdinal
<1>5. ASSUME NEW m, NEW x, NEW d, NEW n PROVE C!TxFrame(m, x, d, n) = TxFrame(m, x, d, n)
  BY <1>1, <1>2, ZenonT(60)
     DEF C!TxFrame, TxFrame, C!TxCanId, TxCanId, C!CanMessageIdNew, CanMessageIdNew,
         C!CanServiceIdNew, CanServiceIdNew, C!TailByteNew, TailByteNew
<1>6. ASSUME NEW m, NEW d, NEW n PROVE C!TxFrameError(m, d, n) = TxFrameError(m, d, n)
  BY <1>1 DEF C!TxFrameError, TxFrameError
<1>7. \A use, d : C!BufferAfterCallback(use, d) = Buffer(use, d)
  BY ZenonT(30) DEF C!BufferAfterCallback, Buffer, C!GetCrcPaddedSize,
         GetCrcPaddedSize, C!Written, Written, C!ZeroByte, ZeroByte
<1>8. \A use : C!ClampedClaim(use) = Claim(use)
  BY DEF C!ClampedClaim, Claim, C!GetCrcPaddedSize, GetCrcPaddedSize
<1> QED BY <1>1, <1>2, <1>3, <1>4, <1>5, <1>6, <1>7, <1>8

LEMMA SeenSameC == \A t : SeenFromC(t) = AsSeen(None, t)
<1> TAKE t
<1>1. C!TxMetadataOf(4, t.port_id, t.tx_kind, t.transfer_id, 0) = MetadataFrom(None, t, 0)
  BY DEF C!TxMetadataOf, MetadataFrom
<1> QED BY <1>1 DEF SeenFromC, AsSeen, SeenMetadata, A!Seen, SeenAs

LEMMA BeginsC ==
    ASSUME QueuesTyped, StartC
    PROVE  Begins("c", "plan")
<1> DEFINE t == Head(c_plan)
           m == C!TxMetadataOf(4, t.port_id, t.tx_kind, t.transfer_id, now)
           buffer == C!BufferAfterCallback(t.use, t.of)
           e == C!NewTxTransfer(m, C!ProcessTxCrc(buffer, C!ClampedClaim(t.use)))
           k == KeyFrom(None, t)
<1>1. /\ C!StartTxTransfer(4, t.port_id, t.tx_kind, t.transfer_id, t.use, t.of)
      /\ tx_result'.kind = "Started" /\ sent' = sent \cup {SeenFromC(t)}
      /\ c_plan # << >> /\ c_plan' = Tail(c_plan)
      /\ UNCHANGED << a_vars, b_vars, inboxes, received >>
  BY DEF StartC, Sent
<1>2. m = MetadataFrom(None, t, now)
  BY DEF C!TxMetadataOf, MetadataFrom
<1>3. C!HashMetadata(m) = k
  BY <1>2, TxSameC, KeyIsTimeless
<1>4. Honest(t.use) /\ t.of \in Data
  <2>1. c_plan \in Seq(Awaited("c", "plan"))
    BY DEF QueuesTyped, Nodes, Queues, Waiting, Plan
  <2>2. t \in Awaited("c", "plan")
    BY <1>1, <2>1, TailIs
  <2> QED BY <2>2 DEF Awaited, Sendable
<1>5. ASSUME t.use.claimed # None PROVE e = EntryFrom(None, t, now)
  <2>1. C!ProcessTxCrc(buffer, C!ClampedClaim(t.use))
            = SentBytes(Written(t.of, t.use.claimed))
    BY <1>4, <1>5, HonestPayload, TxSameC
  <2> QED BY <1>2, <2>1 DEF C!NewTxTransfer, EntryFrom, C!TxMetadataDefault,
                            TxMetadataDefault
<1>6. SeenFromC(t) = AsSeen(None, t)
  BY SeenSameC
<1> HIDE DEF e, k, t
<1>7. /\ t.use.claimed # None /\ k \notin DOMAIN c_tx_transfers
      /\ c_tx_transfers' = C!Insert(c_tx_transfers, k, e) /\ now' = now
  BY <1>1, <1>3 DEF C!StartTxTransfer, e
<1>8. \A map, x, v : C!Insert(map, x, v) = Insert(map, x, v)
  BY DEF C!Insert, Insert
<1>9. c_tx_transfers' = Insert(c_tx_transfers, k, EntryFrom(None, t, now))
  BY <1>5, <1>7, <1>8
<1>10. /\ SameRx /\ SameBus
       /\ \A x \in Nodes \ {"c"} : TxMap(x)' = TxMap(x)
       /\ \A x \in Nodes, r \in Queues :
             x # "c" \/ r # "plan" => Waiting(x, r)' = Waiting(x, r)
  BY <1>1 DEF Nodes, Peers, Queues, Waiting, Plan, AnswersOf, TxMap, SameRx, SameBus,
              RxMap, Tokens, Inbox, a_vars, b_vars, inboxes
<1>11. /\ TxMap("c") = c_tx_transfers /\ TxMap("c")' = c_tx_transfers'
       /\ Waiting("c", "plan") = c_plan /\ Waiting("c", "plan")' = c_plan'
       /\ IdOf("c") = None
  BY DEF TxMap, Waiting, Plan, IdOf
<1> QED BY <1>1, <1>6, <1>7, <1>9, <1>10, <1>11 DEF Begins, t, k

LEMMA SendsC ==
    ASSUME NEW k, C!TransmitFrame(k)
    PROVE  /\ now' = now
           /\ \/ tx_result'.kind = "Frame"
                 /\ Cuts(None, c_tx_transfers, c_tx_transfers', k, tx_result'.frame)
              \/ tx_result'.kind # "Frame" /\ Thins(c_tx_transfers, c_tx_transfers')
<1>2. \A map, x : C!Remove(map, x) = Remove(map, x)
  BY RemoveIs DEF C!Remove, C!Restrict
<1>3. CASE C!TransmitOk(k)
  <2> DEFINE e == c_tx_transfers[k]
             data == SubSeq(e.payload, e.consumed + 1, Len(e.payload))
             consumed == e.consumed + ConsumeLen(data)
  <2>1. C!RemainingData(e) = data
    BY DEF C!RemainingData
  <2>2. /\ k \in DOMAIN c_tx_transfers /\ e.status = "Active"
        /\ TxFrameError(e.transfer_metadata, data, None) = "Ok"
        /\ tx_result'.kind = "Frame"
        /\ tx_result'.frame = TxFrame(e.transfer_metadata, e.transport_metadata, data, None)
        /\ now' = now
    BY <1>3, <2>1, TxSameC DEF C!TransmitOk, C!TxIsActive, C!TxErrorOf
  <2>3. c_tx_transfers' =
            IF consumed < Len(e.payload)
            THEN [c_tx_transfers EXCEPT
                    ![k].transport_metadata = C!TxMetadataNext(@),
                    ![k].consumed = consumed]
            ELSE C!Remove(c_tx_transfers, k)
    BY <1>3, <2>1, TxSameC DEF C!TransmitOk
  <2> HIDE DEF consumed
  <2>4. [c_tx_transfers EXCEPT ![k].transport_metadata = C!TxMetadataNext(@),
                               ![k].consumed = consumed]
            = [c_tx_transfers EXCEPT ![k] = Advanced(e, consumed)]
    BY <2>2 DEF Advanced, C!TxMetadataNext, TxMetadataNext
  <2>5. Cuts(None, c_tx_transfers, c_tx_transfers', k, tx_result'.frame)
    BY <1>2, <2>2, <2>3, <2>4 DEF Cuts, consumed
  <2> QED BY <2>2, <2>5
<1>4. CASE C!TransmitTxError(k) \/ C!TransmitTokenError(k)
  <2>1. /\ tx_result'.kind # "Frame" /\ now' = now
        /\ c_tx_transfers' = c_tx_transfers \/ c_tx_transfers' = Remove(c_tx_transfers, k)
    BY <1>2, <1>4 DEF C!TransmitTxError, C!TransmitTokenError
  <2>2. Thins(c_tx_transfers, c_tx_transfers')
    BY <2>1, RemoveIs DEF Thins
  <2> QED BY <2>1, <2>2
<1> QED BY <1>3, <1>4 DEF C!TransmitFrame

LEMMA TransmitsC ==
    ASSUME NEW k, TransmitC(k)
    PROVE  Sends("c") \/ Passes
<1>1. /\ C!TransmitFrame(k)
      /\ a_inbox' = Broadcast(a_inbox) /\ b_inbox' = Broadcast(b_inbox)
      /\ UNCHANGED << a_vars, b_vars, c_plan, history >>
  BY DEF TransmitC
<1>2. /\ SameQueues /\ SameRx /\ SameHistory
      /\ \A m \in Nodes \ {"c"} : TxMap(m)' = TxMap(m)
  BY <1>1 DEF Nodes, Peers, Queues, Waiting, Plan, AnswersOf, TxMap, SameQueues, SameRx,
              RxMap, Tokens, a_vars, b_vars, SameHistory, history
<1>3. TxMap("c") = c_tx_transfers /\ TxMap("c")' = c_tx_transfers' /\ IdOf("c") = None
  BY DEF TxMap, IdOf
<1>4. CASE /\ tx_result'.kind = "Frame"
           /\ Cuts(None, c_tx_transfers, c_tx_transfers', k, tx_result'.frame)
  <2>1. \A m \in Peers :
           Inbox(m)' = IF m = "c" THEN Inbox(m) ELSE Append(Inbox(m), tx_result'.frame)
    BY <1>1, <1>2, <1>4 DEF Peers, Inbox, Broadcast
  <2>2. Cuts(IdOf("c"), TxMap("c"), TxMap("c")', k, tx_result'.frame)
    BY <1>3, <1>4
  <2> QED BY <1>2, <2>1, <2>2 DEF Sends
<1>5. CASE tx_result'.kind # "Frame" /\ Thins(c_tx_transfers, c_tx_transfers')
  <2>1. SameBus
    BY <1>1, <1>2, <1>5 DEF SameBus, Peers, Inbox, Broadcast
  <2>2. ASSUME NEW m \in Nodes PROVE Thins(TxMap(m), TxMap(m)')
    <3>1. CASE m = "c"
      BY <1>3, <1>5, <3>1
    <3>2. CASE m # "c"
      BY <1>2, <3>2 DEF Thins
    <3> QED BY <3>1, <3>2
  <2>3. \A m \in Peers : Ages(RxMap(m), RxMap(m)') /\ Tokens(m)' = Tokens(m)
    BY <1>2 DEF SameRx, Ages
  <2> QED BY <1>2, <2>1, <2>2, <2>3 DEF Passes
<1> QED BY <1>1, <1>4, <1>5, SendsC

-----------------------------------------------------------------------------
(* Every step is one of the forms. *)

LEMMA StayIsPassing ==
    ASSUME SameQueues, SameTx, SameRx, SameBus, SameHistory
    PROVE  Passes
BY DEF Passes, SameTx, SameRx, Thins, Ages

LEMMA FaultIs ==
    ASSUME Lose \/ Duplicate
    PROVE  \E n \in Peers : Loses(n) \/ Repeats(n)
<1>1. UNCHANGED << a_vars, b_vars, c_vars, history >>
  BY DEF Lose, Duplicate, Fault
<1>2. SameQueues /\ SameTx /\ SameRx /\ SameHistory
  BY <1>1 DEF Nodes, Peers, Queues, Waiting, Plan, AnswersOf, TxMap, SameQueues, SameTx,
        SameRx, RxMap, Tokens, a_vars, b_vars, c_vars, SameHistory, history
<1>3. CASE /\ UNCHANGED b_inbox /\ a_inbox # << >>
           /\ a_inbox' = Tail(a_inbox) \/ a_inbox' = << Head(a_inbox) >> \o a_inbox
  <2>1. Loses("a") \/ Repeats("a")
    BY <1>2, <1>3 DEF Loses, Repeats, Peers, Inbox
  <2> QED BY <2>1 DEF Peers
<1>4. CASE /\ UNCHANGED a_inbox /\ b_inbox # << >>
           /\ b_inbox' = Tail(b_inbox) \/ b_inbox' = << Head(b_inbox) >> \o b_inbox
  <2>1. Loses("b") \/ Repeats("b")
    BY <1>2, <1>4 DEF Loses, Repeats, Peers, Inbox
  <2> QED BY <2>1 DEF Peers
<1> QED BY <1>3, <1>4 DEF Lose, Duplicate

LEMMA StepIs == QueuesTyped /\ [Next]_network_vars => NetStep
<1> SUFFICES ASSUME QueuesTyped, [Next]_network_vars PROVE NetStep
  OBVIOUS
<1>1. CASE StepA \/ UpdateA
  <2>1. \/ \E q \in Queues : Begins("a", q)
        \/ Sends("a") \/ Receives("a") \/ Reads("a") \/ Loses("a") \/ Passes
    BY <1>1, BeginsA, TransmitsA, ArrivesA, GivesA, AgesA DEF StepA
  <2> QED BY <2>1 DEF NetStep, Nodes, Peers
<1>2. CASE StepB \/ UpdateB
  <2>1. \/ \E q \in Queues : Begins("b", q)
        \/ Sends("b") \/ Receives("b") \/ Reads("b") \/ Loses("b") \/ Passes
    BY <1>2, BeginsB, TransmitsB, ArrivesB, GivesB, AgesB DEF StepB
  <2> QED BY <2>1 DEF NetStep, Nodes, Peers
<1>3. CASE StepC
  <2>1. Begins("c", "plan") \/ Sends("c") \/ Passes
    BY <1>3, BeginsC, TransmitsC DEF StepC
  <2> QED BY <2>1 DEF NetStep, Nodes, Queues
<1>4. CASE Lose \/ Duplicate
  BY <1>4, FaultIs DEF NetStep
<1>5. CASE Tick \/ UNCHANGED network_vars
  <2>1. UNCHANGED << a_vars, b_vars, c_vars, inboxes, history >>
    BY <1>5 DEF Tick, network_vars
  <2>2. SameQueues /\ SameTx /\ SameRx /\ SameBus /\ SameHistory
    BY <2>1 DEF Nodes, Peers, Queues, Waiting, Plan, AnswersOf, TxMap, SameQueues, SameTx,
          SameRx, SameBus, RxMap, Tokens, Inbox, a_vars, b_vars, c_vars, inboxes,
          SameHistory, history
  <2> QED BY <2>2, StayIsPassing DEF NetStep
<1> QED BY <1>1, <1>2, <1>3, <1>4, <1>5 DEF Next

(* Only Tick moves the clock. *)
LEMMA TimeMoves == now \in Nat /\ [Next]_network_vars => now' \in Nat
<1> SUFFICES ASSUME now \in Nat, [Next]_network_vars PROVE now' \in Nat
  OBVIOUS
<1>1. CASE StepA \/ UpdateA
  <2>1. StartA \/ AnswerA => now' = now
    BY DEF StartA, AnswerA, A!StartPlanned, A!StartAnswer, A!StartTransfer,
           A!StartTxTransfer, A!Tx!StartTxTransfer
  <2> QED BY <1>1, <2>1, SendsA, ReceivesA, ReadsA, UpdatesA
          DEF StepA, UpdateA, TransmitA, ReceiveA, ReadA
<1>2. CASE StepB \/ UpdateB
  <2>1. StartB \/ AnswerB => now' = now
    BY DEF StartB, AnswerB, B!StartPlanned, B!StartAnswer, B!StartTransfer,
           B!StartTxTransfer, B!Tx!StartTxTransfer
  <2> QED BY <1>2, <2>1, SendsB, ReceivesB, ReadsB, UpdatesB
          DEF StepB, UpdateB, TransmitB, ReceiveB, ReadB
<1>3. CASE StepC
  <2>1. StartC => now' = now
    BY DEF StartC, C!StartTxTransfer
  <2> QED BY <1>3, <2>1, SendsC DEF StepC, TransmitC
<1>4. CASE Lose \/ Duplicate
  BY <1>4 DEF Lose, Duplicate, Fault
<1>5. CASE Tick \/ UNCHANGED network_vars
  BY <1>5 DEF Tick, network_vars
<1> QED BY <1>1, <1>2, <1>3, <1>4, <1>5 DEF Next

-----------------------------------------------------------------------------
(* The transfers on the bus. *)

Transfer ==
    [kind : TransferKind, port_id : SubjectIdField, from : NodeIdField,
     to : NodeIdField \cup {None}, transfer_id : TransferIdField, payload : Seq(Byte)]

(* A transfer as the frames of this transport can carry it. *)
Proper(u) ==
    /\ u \in Transfer
    /\ IsPayload(u.payload)
    /\ u.kind = "Message" => u.to = None
    /\ u.kind # "Message" => u.to # None /\ u.port_id \in ServiceIdField

MetadataSeen(u) ==
    [timestamp |-> 0, priority |-> 4, transfer_kind |-> u.kind, port_id |-> u.port_id,
     source_node_id |-> u.from, destination_node_id |-> u.to, transfer_id |-> u.transfer_id]

Key(u) == HashMetadata(MetadataSeen(u))

(* The fields of what others see of a transfer. *)
LEMMA AwaitedIs ==
    ASSUME NEW n \in Nodes, NEW q \in Queues, NEW t \in Awaited(n, q)
    PROVE  /\ t.port_id \in PortId /\ t.transfer_id \in TransferId
           /\ Honest(t.use) /\ t.of \in Data
           /\ t.tx_kind.type \in {"Broadcast", "Request", "Response"}
           /\ t.tx_kind.type = "Response" <=> q = "answers"
           /\ t.tx_kind.type # "Broadcast" => t.tx_kind.node \in NodeId /\ n # "c"
           /\ q = "answers" => t.use = ReplyUse /\ n \in Peers
<1>1. CASE q = "plan"
  <2>1. Sendable(t) /\ (n = "c" => t.tx_kind.type = "Broadcast")
    BY <1>1 DEF Awaited
  <2>2. /\ t.tx_kind.type \in {"Broadcast", "Request", "Response"}
        /\ t.tx_kind.type # "Broadcast" => t.tx_kind.node \in NodeId
    <3>1. PICK x : x = t.tx_kind
      OBVIOUS
    <3>2. \/ x \in [type : {"Request", "Response"}, node : C!NodeId]
          \/ x \in [type : {"Broadcast"}]
      BY <2>1, <3>1 DEF Sendable, C!TransmissionType
    <3>3. C!NodeId = NodeId
      BY DEF C!NodeId, NodeId
    <3> QED BY <3>1, <3>2, <3>3
  <2> QED BY <1>1, <2>1, <2>2 DEF Sendable
<1>2. CASE q = "answers"
  <2>1. n # "c" /\ t \in Replies
    BY <1>2 DEF Awaited
  <2> QED BY <1>2, <2>1, NetworkAssumption DEF Replies, Nodes, Peers
<1> QED BY <1>1, <1>2 DEF Queues

LEMMA SeenFields ==
    ASSUME NEW i, NEW t, t.tx_kind.type \in {"Broadcast", "Request", "Response"}
    PROVE  SeenMetadata(i, t) =
              IF t.tx_kind.type = "Broadcast"
              THEN [timestamp |-> 0, priority |-> 4, transfer_kind |-> "Message",
                    port_id |-> t.port_id % 8192,
                    source_node_id |-> IF i = None THEN 4 ELSE i % 128,
                    destination_node_id |-> None, transfer_id |-> t.transfer_id % 32]
              ELSE [timestamp |-> 0, priority |-> 4, transfer_kind |-> t.tx_kind.type,
                    port_id |-> t.port_id % 512, source_node_id |-> i % 128,
                    destination_node_id |-> t.tx_kind.node % 128,
                    transfer_id |-> t.transfer_id % 32]
<1>1. CASE t.tx_kind.type = "Broadcast"
  <2>1. TxCanId(MetadataFrom(i, t, 0), i) = CanMessageIdNew(4, t.port_id, i)
    BY <1>1 DEF MetadataFrom, TxCanId
  <2> QED BY <1>1, <2>1 DEF SeenMetadata, CanMessageIdNew, RxMetadataOf
<1>2. CASE t.tx_kind.type = "Request"
  <2>1. TxCanId(MetadataFrom(i, t, 0), i)
            = CanServiceIdNew(4, TRUE, t.port_id, t.tx_kind.node, i)
    BY <1>2 DEF MetadataFrom, TxCanId
  <2> QED BY <1>2, <2>1 DEF SeenMetadata, CanServiceIdNew, RxMetadataOf
<1>3. CASE t.tx_kind.type = "Response"
  <2>1. TxCanId(MetadataFrom(i, t, 0), i)
            = CanServiceIdNew(4, FALSE, t.port_id, t.tx_kind.node, i)
    BY <1>3 DEF MetadataFrom, TxCanId
  <2> QED BY <1>3, <2>1 DEF SeenMetadata, CanServiceIdNew, RxMetadataOf
<1> QED BY <1>1, <1>2, <1>3

LEMMA PeerIds == \A n \in Peers : IdOf(n) \in NodeId /\ IdOf(n) # None
BY NetworkAssumption, NoneAssumption DEF Peers, IdOf

LEMMA SeenIsProper ==
    ASSUME NEW n \in Nodes, NEW q \in Queues, NEW t \in Awaited(n, q), t.use.claimed # None
    PROVE  /\ Proper(AsSeen(IdOf(n), t))
           /\ MetadataSeen(AsSeen(IdOf(n), t)) = SeenMetadata(IdOf(n), t)
           /\ AsSeen(IdOf(n), t).kind = "Response" <=> q = "answers"
           /\ AsSeen(IdOf(n), t).payload = Written(t.of, t.use.claimed)
           /\ Len(AsSeen(IdOf(n), t).payload) = t.use.claimed
<1> DEFINE i == IdOf(n)
           m == SeenMetadata(i, t)
           p == Written(t.of, t.use.claimed)
<1>1. t.use.claimed \in Nat
  BY AwaitedIs, HonestPayload
<1>2. IsPayload(p) /\ p \in Seq(Byte) /\ Len(p) = t.use.claimed
  BY <1>1, AwaitedIs, WrittenIsPayload, WrittenIs DEF IsPayload
<1>3. /\ AsSeen(i, t) = [kind |-> m.transfer_kind, port_id |-> m.port_id,
                         from |-> m.source_node_id, to |-> m.destination_node_id,
                         transfer_id |-> m.transfer_id, payload |-> p]
      /\ AsSeen(i, t).payload = p
  BY DEF AsSeen, SeenAs
<1>4. t.port_id \in Nat /\ t.transfer_id \in Nat
  BY AwaitedIs, IdsAreNumbers
<1>5. t.transfer_id % 32 \in TransferIdField
  BY <1>4, TransferIdMasked
<1> HIDE DEF p
<1>6. CASE t.tx_kind.type = "Broadcast"
  <2>1. (IF i = None THEN 4 ELSE i % 128) \in NodeIdField
    <3>1. CASE i = None
      BY <3>1 DEF NodeIdField
    <3>2. CASE i # None
      <4>1. i \in Nat
        BY <3>2, PeerIds, IdsAreNumbers DEF IdOf, Nodes, Peers
      <4> QED BY <3>2, <4>1, NodeIdMasked
    <3> QED BY <3>1, <3>2
  <2>2. t.port_id % 8192 \in SubjectIdField
    BY <1>4, SubjectIdMasked
  <2> DEFINE s == IF i = None THEN 4 ELSE i % 128
  <2>3. m = [timestamp |-> 0, priority |-> 4, transfer_kind |-> "Message",
             port_id |-> t.port_id % 8192, source_node_id |-> s,
             destination_node_id |-> None, transfer_id |-> t.transfer_id % 32]
    BY <1>6, AwaitedIs, SeenFields
  <2> HIDE DEF m, s
  <2>4. q # "answers"
    BY <1>6, AwaitedIs
  <2> QED BY <1>2, <1>3, <1>5, <2>1, <2>2, <2>3, <2>4
          DEF Proper, Transfer, TransferKind, MetadataSeen, s, p, m
<1>7. CASE t.tx_kind.type # "Broadcast"
  <2>1. t.tx_kind.node \in Nat /\ i \in Nat
    BY <1>7, AwaitedIs, PeerIds, IdsAreNumbers DEF Nodes, Peers
  <2>2. /\ t.port_id % 512 \in ServiceIdField /\ i % 128 \in NodeIdField
        /\ t.tx_kind.node % 128 \in NodeIdField
    BY <1>4, <2>1, ServiceIdMasked, NodeIdMasked
  <2>3. t.port_id % 512 \in SubjectIdField
    <3>1. \A x \in ServiceIdField : x \in SubjectIdField
      BY SMTT(30) DEF ServiceIdField, SubjectIdField
    <3> QED BY <2>2, <3>1
  <2>4. t.tx_kind.node % 128 # None
    BY <2>2, FieldsFitTypes, NoneAssumption
  <2>5. /\ t.tx_kind.type \in {"Request", "Response"}
        /\ t.tx_kind.type = "Response" <=> q = "answers"
    BY <1>7, AwaitedIs
  <2>6. m = [timestamp |-> 0, priority |-> 4, transfer_kind |-> t.tx_kind.type,
             port_id |-> t.port_id % 512, source_node_id |-> i % 128,
             destination_node_id |-> t.tx_kind.node % 128,
             transfer_id |-> t.transfer_id % 32]
    BY <1>7, AwaitedIs, SeenFields
  <2> HIDE DEF m, i
  <2> QED BY <1>2, <1>3, <1>5, <2>2, <2>3, <2>4, <2>5, <2>6
          DEF Proper, Transfer, TransferKind, MetadataSeen, p, m, i
<1> QED BY <1>6, <1>7

(* The parts of what is hashed. *)
JoinedAs(z, x, y) ==
    /\ z \in Seq(Nat)
    /\ Len(z) = Len(x) + Len(y)
    /\ \A i \in 1 .. Len(x) : z[i] = x[i]
    /\ \A i \in 1 .. Len(y) : z[Len(x) + i] = y[i]

AllJoinedAs(s, a, b, c, e) ==
    /\ a \in Seq(Nat) /\ Len(a) = 2 /\ b \in Seq(Nat) /\ Len(b) = 1
    /\ c \in Seq(Nat) /\ Len(c) <= 1 /\ e \in Seq(Nat) /\ Len(e) = 2
    /\ \E x, y : JoinedAs(x, a, b) /\ JoinedAs(y, x, c) /\ JoinedAs(s, y, e)

PartsAre(s, a, b, c, e) ==
    /\ s[2] = a[2] /\ s[3] = b[1]
    /\ Len(c) = 0 => s[4] = e[1] /\ s[5] = e[2]
    /\ Len(c) = 1 => s[4] = c[1] /\ s[5] = e[1] /\ s[6] = e[2]

LEMMA Joining == \A x, y \in Seq(Nat) : JoinedAs(x \o y, x, y)
BY DEF JoinedAs

LEMMA AllJoining ==
    ASSUME NEW a \in Seq(Nat), NEW b \in Seq(Nat), NEW c \in Seq(Nat), NEW e \in Seq(Nat),
           Len(a) = 2, Len(b) = 1, Len(c) <= 1, Len(e) = 2
    PROVE  AllJoinedAs(a \o b \o c \o e, a, b, c, e)
<1>1. JoinedAs(a \o b, a, b)
  BY Joining, Zenon
<1>2. a \o b \in Seq(Nat)
  BY <1>1, Zenon DEF JoinedAs
<1>3. JoinedAs(a \o b \o c, a \o b, c)
  BY <1>2, Joining, Zenon
<1>4. a \o b \o c \in Seq(Nat)
  BY <1>3, Zenon DEF JoinedAs
<1>5. JoinedAs(a \o b \o c \o e, a \o b \o c, e)
  BY <1>4, Joining, Zenon
<1> QED BY <1>1, <1>3, <1>5, Zenon DEF AllJoinedAs

LEMMA PartsJoined ==
    ASSUME NEW s, NEW a, NEW b, NEW c, NEW e, AllJoinedAs(s, a, b, c, e)
    PROVE  PartsAre(s, a, b, c, e)
<1>1. PICK x, y : JoinedAs(x, a, b) /\ JoinedAs(y, x, c) /\ JoinedAs(s, y, e)
  BY DEF AllJoinedAs
<1>0. /\ a \in Seq(Nat) /\ Len(a) = 2 /\ b \in Seq(Nat) /\ Len(b) = 1
      /\ c \in Seq(Nat) /\ Len(c) <= 1 /\ e \in Seq(Nat) /\ Len(e) = 2
  BY DEF AllJoinedAs
<1>2. x \in Seq(Nat) /\ Len(x) = 3 /\ x[2] = a[2] /\ x[2 + 1] = b[1]
  BY <1>0, <1>1 DEF JoinedAs
<1>3. y \in Seq(Nat) /\ Len(y) = 3 + Len(c) /\ y[2] = x[2] /\ y[3] = x[3]
  BY <1>0, <1>1, <1>2 DEF JoinedAs
<1>4. Len(c) = 1 => y[3 + 1] = c[1]
  BY <1>0, <1>1, <1>2 DEF JoinedAs
<1>5. PICK m, n : m = Len(y) /\ n = Len(c)
  OBVIOUS
<1>6. n \in Nat /\ m = 3 + n
  BY <1>0, <1>3, <1>5
<1>7. 2 \in 1 .. m /\ 3 \in 1 .. m /\ (n = 1 => 4 \in 1 .. m)
  BY <1>0, <1>6
<1>8. s[2] = y[2] /\ s[3] = y[3] /\ (Len(c) = 1 => s[4] = y[4])
  BY <1>0, <1>1, <1>5, <1>7 DEF JoinedAs
<1>9. s[Len(y) + 1] = e[1] /\ s[Len(y) + 2] = e[2]
  BY <1>0, <1>1 DEF JoinedAs
<1>10. Len(c) = 0 => s[4] = e[1] /\ s[5] = e[2]
  <2>1. n = 0 => m + 1 = 4 /\ m + 2 = 5
    BY <1>6
  <2> QED BY <1>5, <1>9, <2>1
<1>11. Len(c) = 1 => s[5] = e[1] /\ s[6] = e[2]
  <2>1. n = 1 => m + 1 = 5 /\ m + 2 = 6
    BY <1>6
  <2> QED BY <1>5, <1>9, <2>1
<1>12. Len(c) = 1 => s[4] = c[1]
  BY <1>4, <1>8
<1>13. s[2] = a[2] /\ s[3] = b[1]
  BY <1>2, <1>3, <1>8
<1> QED BY <1>10, <1>11, <1>12, <1>13 DEF PartsAre

HashIs(s, o, f, c, p, t) ==
    /\ o \in Nat /\ f \in Nat /\ c \in Seq(Nat) /\ Len(c) <= 1 /\ p \in Nat /\ t \in Nat
    /\ s = << 4, o >> \o << f >> \o c \o << p, t >>

LEMMA HashParts ==
    ASSUME NEW s, NEW o, NEW f, NEW c, NEW p, NEW t, HashIs(s, o, f, c, p, t)
    PROVE  /\ s[2] = o /\ s[3] = f
           /\ Len(c) = 0 => s[4] = p /\ s[5] = t
           /\ Len(c) = 1 => s[4] = c[1] /\ s[5] = p /\ s[6] = t
<1>0. o \in Nat /\ f \in Nat /\ c \in Seq(Nat) /\ Len(c) <= 1 /\ p \in Nat /\ t \in Nat
  BY DEF HashIs
<1>1. PICK a, b, e : a = << 4, o >> /\ b = << f >> /\ e = << p, t >>
  OBVIOUS
<1>2. /\ a \in Seq(Nat) /\ Len(a) = 2 /\ a[2] = o
      /\ b \in Seq(Nat) /\ Len(b) = 1 /\ b[1] = f
      /\ e \in Seq(Nat) /\ Len(e) = 2 /\ e[1] = p /\ e[2] = t
  BY <1>0, <1>1
<1>3. s = a \o b \o c \o e
  BY <1>1, Zenon DEF HashIs
<1>4. AllJoinedAs(s, a, b, c, e)
  BY <1>0, <1>2, <1>3, AllJoining, Zenon
<1>5. PartsAre(s, a, b, c, e)
  BY <1>4, PartsJoined, Zenon
<1> QED BY <1>2, <1>5 DEF PartsAre

(* The key of a transfer tells its kind, its port, its nodes and its id. *)
LEMMA KeyTells ==
    ASSUME NEW u, NEW v, Proper(u), Proper(v), Key(u) = Key(v)
    PROVE  MetadataSeen(u) = MetadataSeen(v)
<1>1. ASSUME NEW w, Proper(w)
      PROVE  /\ w.kind \in TransferKind /\ Key(w)[2] = KindOrdinal[w.kind]
             /\ Key(w)[3] = w.from
             /\ w.kind = "Message" =>
                   w.to = None /\ Key(w)[4] = w.port_id /\ Key(w)[5] = w.transfer_id
             /\ w.kind # "Message" =>
                   /\ Key(w)[4] = w.to /\ Key(w)[5] = w.port_id
                   /\ Key(w)[6] = w.transfer_id
  <2>1. /\ w.kind \in TransferKind /\ w.port_id \in Nat /\ w.transfer_id \in Nat
        /\ w.from \in Nat /\ w.from # None
        /\ w.kind = "Message" => w.to = None
        /\ w.kind # "Message" => w.to # None /\ w.to \in Nat
    <3>1. /\ w.kind \in TransferKind /\ w.port_id \in SubjectIdField
          /\ w.from \in NodeIdField /\ w.to \in NodeIdField \cup {None}
          /\ w.transfer_id \in TransferIdField
      BY <1>1 DEF Proper, Transfer
    <3> QED BY <1>1, <3>1, FieldsFitTypes, NoneAssumption, IdsAreNumbers DEF Proper
  <2>2. PICK o, f, d, p, t : /\ o = KindOrdinal[w.kind] /\ f = w.from /\ d = w.to
                             /\ p = w.port_id /\ t = w.transfer_id
    OBVIOUS
  <2>3. o \in Nat /\ f \in Nat /\ p \in Nat /\ t \in Nat
    BY <2>1, <2>2 DEF KindOrdinal, TransferKind
  <2>4. PICK s : s = Key(w)
    OBVIOUS
  <2>5. s = << 4, o >> \o << f >> \o Optional(d) \o << p, t >>
    <3>1. HashMetadata(MetadataSeen(w))
              = << 4, KindOrdinal[w.kind] >> \o Optional(w.from) \o Optional(w.to)
                  \o << w.port_id, w.transfer_id >>
      BY Zenon DEF HashMetadata, MetadataSeen
    <3>2. Optional(w.from) = << w.from >>
      BY <2>1 DEF Optional
    <3> QED BY <2>2, <2>4, <3>1, <3>2, Zenon DEF Key
  <2>6. PICK c : c = Optional(d)
    OBVIOUS
  <2>7. /\ c \in Seq(Nat) /\ Len(c) <= 1
        /\ w.kind = "Message" => Len(c) = 0
        /\ w.kind # "Message" => Len(c) = 1 /\ c[1] = d
    BY <2>1, <2>2, <2>6 DEF Optional
  <2>8. HashIs(s, o, f, c, p, t)
    BY <2>3, <2>5, <2>6, <2>7, Zenon DEF HashIs
  <2>9. /\ s[2] = o /\ s[3] = f
        /\ Len(c) = 0 => s[4] = p /\ s[5] = t
        /\ Len(c) = 1 => s[4] = c[1] /\ s[5] = p /\ s[6] = t
    BY <2>8, HashParts
  <2> QED BY <2>1, <2>2, <2>4, <2>7, <2>9
<1>2. u.kind = v.kind
  <2>1. KindOrdinal[u.kind] = KindOrdinal[v.kind] /\ u.kind \in TransferKind
        /\ v.kind \in TransferKind
    BY <1>1
  <2> QED BY <2>1 DEF KindOrdinal, TransferKind
<1>3. /\ u.from = v.from /\ u.to = v.to
      /\ u.port_id = v.port_id /\ u.transfer_id = v.transfer_id
  BY <1>1, <1>2
<1> QED BY <1>2, <1>3 DEF MetadataSeen

-----------------------------------------------------------------------------
(* What the entries and frames of the nodes are made of. *)

EntrySeen(n, e) ==
    RxMetadataOf(TxCanId(e.transfer_metadata, IdOf(n)), e.transfer_metadata.transfer_id % 32, 0)

(* An entry of node n that is sent as u. *)
EntryOf(n, u, e) ==
    /\ e.transfer_metadata \in TransferMetadata
    /\ EntrySeen(n, e) = MetadataSeen(u)
    /\ SendsPayload(e, u.payload)

(* A frame of u. *)
FrameOf(u, f) ==
    /\ f \in CanFrame /\ f.tail \in TailByte
    /\ RxMetadataOf(f.id, f.tail.transfer_id, 0) = MetadataSeen(u)
    /\ FrameIsOf(f, u.payload)

SentProper == \A u \in sent : Proper(u)

TxOk ==
    \A n \in Nodes : \A k \in DOMAIN TxMap(n) :
        TxMap(n)[k].status = "Active" => \E u \in sent : EntryOf(n, u, TxMap(n)[k])

InboxOk ==
    \A n \in Peers :
        /\ Inbox(n) \in Seq(CanFrame)
        /\ \A i \in DOMAIN Inbox(n) : \E u \in sent : FrameOf(u, Inbox(n)[i])

LEMMA InsertIs ==
    ASSUME NEW map, NEW k, NEW v
    PROVE  /\ DOMAIN Insert(map, k, v) = DOMAIN map \cup {k}
           /\ Insert(map, k, v)[k] = v
           /\ \A x \in DOMAIN map : x # k => Insert(map, k, v)[x] = map[x]
BY DEF Insert

(* A transfer that is started, as others see it, is what its entry sends.  *)
LEMMA EntryBegins ==
    ASSUME now \in Nat, NEW n \in Nodes, NEW q \in Queues, NEW t \in Awaited(n, q),
           t.use.claimed # None
    PROVE  EntryOf(n, AsSeen(IdOf(n), t), EntryFrom(IdOf(n), t, now))
<1>1. PICK e, u, m, p : /\ e = EntryFrom(IdOf(n), t, now) /\ u = AsSeen(IdOf(n), t)
                        /\ m = MetadataFrom(IdOf(n), t, now)
                        /\ p = Written(t.of, t.use.claimed)
  OBVIOUS
<1>2. /\ e.transfer_metadata = m /\ e.payload = SentBytes(p) /\ e.consumed = 0
      /\ e.transport_metadata = TxMetadataDefault
  BY <1>1 DEF EntryFrom
<1>3. MetadataSeen(u) = SeenMetadata(IdOf(n), t) /\ u.payload = p
  BY <1>1, SeenIsProper
<1>4. m \in TransferMetadata
  <2>1. /\ t.port_id \in PortId /\ t.transfer_id \in TransferId
        /\ t.tx_kind.type \in {"Broadcast", "Request", "Response"}
        /\ t.tx_kind.type # "Broadcast" => t.tx_kind.node \in NodeId
    BY AwaitedIs
  <2>2. IdOf(n) \in NodeId \cup {None}
    BY PeerIds DEF IdOf, Nodes, Peers
  <2>3. 4 \in Priority
    BY DEF Priority
  <2> QED BY <1>1, <2>1, <2>2, <2>3 DEF MetadataFrom, TransferMetadata, TransferKind, Timestamp
<1>5. EntrySeen(n, e) = SeenMetadata(IdOf(n), t)
  <2>1. TxCanId(MetadataFrom(IdOf(n), t, now), IdOf(n))
           = TxCanId(MetadataFrom(IdOf(n), t, 0), IdOf(n))
    BY DEF TxCanId, MetadataFrom
  <2>2. m.transfer_id = t.transfer_id
    BY <1>1 DEF MetadataFrom
  <2> QED BY <1>1, <1>2, <2>1, <2>2 DEF EntrySeen, SeenMetadata
<1>6. SendsPayload(e, p)
  BY <1>2 DEF SendsPayload, SentBytes, TxMetadataDefault, TxMetadata
<1> QED BY <1>1, <1>2, <1>3, <1>4, <1>5, <1>6 DEF EntryOf

(* What transmit_frame makes of an entry. *)
LEMMA FrameMade ==
    ASSUME NEW n \in Nodes, NEW map, NEW new, NEW k, NEW f, Cuts(IdOf(n), map, new, k, f),
           NEW u, Proper(u), EntryOf(n, u, map[k])
    PROVE  /\ k \in DOMAIN map /\ map[k].status = "Active"
           /\ FrameOf(u, f)
           /\ DOMAIN new \subseteq DOMAIN map
           /\ \A x \in DOMAIN new : x # k => new[x] = map[x]
           /\ k \in DOMAIN new => EntryOf(n, u, new[k])
           /\ f.tail.end => k \notin DOMAIN new
<1>1. PICK e, data, c, p, m :
          /\ e = map[k] /\ data = SubSeq(e.payload, e.consumed + 1, Len(e.payload))
          /\ c = e.consumed + ConsumeLen(data) /\ p = u.payload /\ m = e.transfer_metadata
  OBVIOUS
<1>2. /\ k \in DOMAIN map /\ e.status = "Active"
      /\ TxFrameError(m, data, IdOf(n)) = "Ok"
      /\ f = TxFrame(m, e.transport_metadata, data, IdOf(n))
      /\ new = IF c < Len(e.payload) THEN [map EXCEPT ![k] = Advanced(e, c)]
               ELSE Remove(map, k)
  BY <1>1 DEF Cuts
<1>3. /\ m \in TransferMetadata /\ EntrySeen(n, e) = MetadataSeen(u) /\ SendsPayload(e, p)
      /\ IsPayload(p)
  BY <1>1 DEF EntryOf, Proper
<1>4. CutFrom(e, data, f)
  BY <1>1, <1>2 DEF CutFrom, TxFrame, TailByteNew
<1>5. /\ FrameIsOf(f, p)
      /\ f.data \in Seq(Byte) /\ data \in Seq(Byte)
      /\ c < Len(e.payload) <=> ~ f.tail.end
      /\ ~ f.tail.end => ConsumeLen(data) = FrameCapacity
  BY <1>1, <1>3, <1>4, MadeFrame
<1>6. f \in CanFrame
  <2>1. IdOf(n) \in NodeId \cup {None} /\ e.transport_metadata \in TxMetadata
    BY <1>3, PeerIds DEF IdOf, Nodes, Peers, SendsPayload
  <2> QED BY <1>2, <1>3, <1>5, <2>1, FrameType
<1>7. f.id = TxCanId(m, IdOf(n)) /\ f.tail.transfer_id = m.transfer_id % 32
  BY <1>2 DEF TxFrame, TailByteNew
<1>8. RxMetadataOf(f.id, f.tail.transfer_id, 0) = MetadataSeen(u)
  BY <1>1, <1>3, <1>7 DEF EntrySeen
<1>9. f.tail \in TailByte
  <2>1. f.tail = TailByteNew(e.transport_metadata.first_frame, IsLastFrame(data),
                             e.transport_metadata.toggle_bit, m.transfer_id)
    BY <1>2 DEF TxFrame
  <2>2. m.transfer_id \in TransferId
    BY <1>3 DEF TransferMetadata
  <2>3. /\ e.transport_metadata.first_frame \in BOOLEAN
        /\ e.transport_metadata.toggle_bit \in BOOLEAN
        /\ IsLastFrame(data) \in BOOLEAN
    BY <1>3 DEF SendsPayload, TxMetadata, IsLastFrame
  <2> QED BY <2>1, <2>2, <2>3, TailByteType
<1>10. FrameOf(u, f)
  BY <1>1, <1>5, <1>6, <1>8, <1>9 DEF FrameOf
<1>11. CASE c < Len(e.payload)
  <2>1. /\ DOMAIN new = DOMAIN map /\ new[k] = Advanced(e, c)
        /\ \A x \in DOMAIN new : x # k => new[x] = map[x]
    BY <1>2, <1>11
  <2>2. PICK d : d = Advanced(e, c)
    OBVIOUS
  <2>3. /\ d.transfer_metadata = m /\ d.payload = e.payload /\ d.consumed = c
        /\ d.transport_metadata = TxMetadataNext(e.transport_metadata)
    <3>1. e.transfer_metadata = m
      BY <1>1
    <3>2. d = [e EXCEPT !.transport_metadata = TxMetadataNext(e.transport_metadata),
                        !.consumed = c]
      BY <2>2 DEF Advanced
    <3> QED BY <3>1, <3>2
  <2>4. EntrySeen(n, d) = MetadataSeen(u)
    BY <1>1, <1>3, <2>3 DEF EntrySeen
  <2>5. SendsPayload(d, p)
    <3>1. FrameCapacity \in Nat /\ FrameCapacity > 0
      BY CanAssumption DEF FrameCapacity
    <3>2. c \in Nat /\ c >= FrameCapacity /\ c > 0
      BY <1>1, <1>3, <1>5, <1>11, <3>1 DEF SendsPayload
    <3>3. /\ TxMetadataNext(e.transport_metadata) \in TxMetadata
          /\ ~ TxMetadataNext(e.transport_metadata).first_frame
      BY <1>3 DEF SendsPayload, TxMetadata, TxMetadataNext
    <3> QED BY <1>3, <1>11, <2>3, <3>2, <3>3 DEF SendsPayload
  <2>6. EntryOf(n, u, d)
    BY <1>1, <1>3, <2>3, <2>4, <2>5 DEF EntryOf
  <2> QED BY <1>1, <1>2, <1>5, <1>10, <1>11, <2>1, <2>2, <2>6
<1>12. CASE ~ (c < Len(e.payload))
  <2>1. new = [x \in DOMAIN map \ {k} |-> map[x]]
    BY <1>2, <1>12, RemoveIs
  <2> QED BY <1>1, <1>2, <1>10, <2>1
<1> QED BY <1>11, <1>12

(* A transfer that is started has been waiting. *)
LEMMA BeginsIs ==
    ASSUME QueuesTyped, now \in Nat, NEW n \in Nodes, NEW q \in Queues, Begins(n, q)
    PROVE  \E t, u, k, e :
              /\ Waiting(n, q) # << >> /\ t = Head(Waiting(n, q))
              /\ t \in Awaited(n, q) /\ t.use.claimed # None
              /\ u = AsSeen(IdOf(n), t) /\ sent' = sent \cup {u}
              /\ Proper(u) /\ EntryOf(n, u, e)
              /\ k \notin DOMAIN TxMap(n) /\ TxMap(n)' = Insert(TxMap(n), k, e)
<1>1. PICK t : t = Head(Waiting(n, q))
  OBVIOUS
<1>2. t \in Awaited(n, q) /\ Waiting(n, q) # << >>
  <2>1. Waiting(n, q) \in Seq(Awaited(n, q))
    BY DEF QueuesTyped
  <2>2. Waiting(n, q) # << >>
    BY DEF Begins
  <2> QED BY <1>1, <2>1, <2>2, TailIs
<1>3. PICK u, k, e : /\ u = AsSeen(IdOf(n), t) /\ k = KeyFrom(IdOf(n), t)
                     /\ e = EntryFrom(IdOf(n), t, now)
  OBVIOUS
<1>4. /\ t.use.claimed # None /\ sent' = sent \cup {u}
      /\ k \notin DOMAIN TxMap(n) /\ TxMap(n)' = Insert(TxMap(n), k, e)
  BY <1>1, <1>3 DEF Begins
<1>5. Proper(u) /\ EntryOf(n, u, e)
  BY <1>2, <1>3, <1>4, SeenIsProper, EntryBegins
<1> QED BY <1>1, <1>2, <1>3, <1>4, <1>5

LEMMA SentGrows ==
    ASSUME QueuesTyped, NetStep
    PROVE  /\ sent \subseteq sent'
           /\ sent' # sent => \E n \in Nodes, q \in Queues : Begins(n, q)
BY DEF NetStep, Begins, Sends, Receives, Reads, Loses, Repeats, Passes, SameHistory

LEMMA SentStaysProper ==
    ASSUME QueuesTyped, now \in Nat, SentProper, NetStep
    PROVE  SentProper'
<1>1. CASE sent' = sent
  BY <1>1 DEF SentProper
<1>2. ASSUME NEW n \in Nodes, NEW q \in Queues, Begins(n, q) PROVE SentProper'
  <2>1. PICK u : Proper(u) /\ sent' = sent \cup {u}
    BY <1>2, BeginsIs
  <2> QED BY <2>1 DEF SentProper
<1> QED BY <1>1, <1>2, SentGrows

(* The active entries of a sending node stay what they were, or begin. *)
Continues(n, k) ==
    /\ k \in DOMAIN TxMap(n) /\ TxMap(n)[k].status = "Active"
    /\ \A u \in sent : EntryOf(n, u, TxMap(n)[k]) => EntryOf(n, u, TxMap(n)'[k])

BeginsEntry(n, k) ==
    \E q \in Queues :
        /\ Begins(n, q)
        /\ \E u : /\ u = AsSeen(IdOf(n), Head(Waiting(n, q))) /\ Proper(u)
                   /\ sent' = sent \cup {u} /\ EntryOf(n, u, TxMap(n)'[k])

LEMMA TxOrigin ==
    ASSUME QueuesTyped, now \in Nat, SentProper, TxOk, NetStep,
           NEW n \in Nodes, NEW k \in DOMAIN TxMap(n)', TxMap(n)'[k].status = "Active"
    PROVE  Continues(n, k) \/ BeginsEntry(n, k)
<1>1. ASSUME k \in DOMAIN TxMap(n), TxMap(n)'[k] = TxMap(n)[k] PROVE Continues(n, k)
  BY <1>1 DEF Continues
<1>2. ASSUME NEW m \in Nodes, NEW q \in Queues, Begins(m, q)
      PROVE  Continues(n, k) \/ BeginsEntry(n, k)
  <2>1. CASE m # n
    BY <1>1, <1>2, <2>1 DEF Begins
  <2>2. CASE m = n
    <3>1. PICK u, l, e :
              /\ u = AsSeen(IdOf(n), Head(Waiting(n, q))) /\ sent' = sent \cup {u}
              /\ Proper(u) /\ EntryOf(n, u, e)
              /\ l \notin DOMAIN TxMap(n) /\ TxMap(n)' = Insert(TxMap(n), l, e)
      BY <1>2, <2>2, BeginsIs
    <3>2. PICK map, new : map = TxMap(n) /\ new = TxMap(n)'
      OBVIOUS
    <3>3. /\ DOMAIN new = DOMAIN map \cup {l} /\ new[l] = e
          /\ \A x \in DOMAIN map : x # l => new[x] = map[x]
      <4>1. new = Insert(map, l, e)
        BY <3>1, <3>2
      <4> QED BY <4>1 DEF Insert
    <3>4. CASE k = l
      <4>1. TxMap(n)'[k] = e
        BY <3>2, <3>3, <3>4
      <4> QED BY <1>2, <2>2, <3>1, <4>1 DEF BeginsEntry
    <3>5. CASE k # l
      BY <1>1, <3>2, <3>3, <3>5
    <3> QED BY <3>4, <3>5
  <2> QED BY <2>1, <2>2
<1>3. ASSUME NEW m \in Nodes, Sends(m) PROVE Continues(n, k)
  <2>1. CASE m # n
    BY <1>1, <1>3, <2>1 DEF Sends
  <2>2. CASE m = n
    <3>1. PICK l, f : Cuts(IdOf(n), TxMap(n), TxMap(n)', l, f)
      BY <1>3, <2>2 DEF Sends
    <3>2. l \in DOMAIN TxMap(n) /\ TxMap(n)[l].status = "Active"
      BY <3>1 DEF Cuts
    <3>3. \A u \in sent : Proper(u)
      BY DEF SentProper
    <3>4. ASSUME NEW u \in sent, EntryOf(n, u, TxMap(n)[l])
          PROVE  /\ DOMAIN TxMap(n)' \subseteq DOMAIN TxMap(n)
                 /\ \A x \in DOMAIN TxMap(n)' : x # l => TxMap(n)'[x] = TxMap(n)[x]
                 /\ l \in DOMAIN TxMap(n)' => EntryOf(n, u, TxMap(n)'[l])
      BY <3>1, <3>3, <3>4, FrameMade
    <3>5. PICK u \in sent : EntryOf(n, u, TxMap(n)[l])
      BY <3>2 DEF TxOk
    <3>6. CASE k = l
      BY <3>2, <3>4, <3>6 DEF Continues
    <3>7. CASE k # l
      BY <1>1, <3>4, <3>5, <3>7
    <3> QED BY <3>6, <3>7
  <2> QED BY <2>1, <2>2
<1>4. CASE \E m \in Peers : Receives(m) \/ Reads(m) \/ Loses(m) \/ Repeats(m)
  <2>1. TxMap(n)' = TxMap(n)
    BY <1>4 DEF Receives, Reads, Loses, Repeats, SameTx
  <2> QED BY <1>1, <2>1
<1>5. CASE Passes
  BY <1>1, <1>5 DEF Passes, Thins
<1> QED BY <1>2, <1>3, <1>4, <1>5 DEF NetStep

LEMMA TxStaysOk ==
    ASSUME QueuesTyped, now \in Nat, SentProper, TxOk, NetStep
    PROVE  TxOk'
<1> SUFFICES ASSUME NEW n \in Nodes, NEW k \in DOMAIN TxMap(n)',
                    TxMap(n)'[k].status = "Active"
             PROVE  \E u \in sent' : EntryOf(n, u, TxMap(n)'[k])
  BY DEF TxOk, EntryOf, EntrySeen
<1>1. CASE Continues(n, k)
  <2>1. PICK u \in sent : EntryOf(n, u, TxMap(n)[k])
    BY <1>1 DEF Continues, TxOk
  <2> QED BY <1>1, <2>1, SentGrows DEF Continues
<1>2. CASE BeginsEntry(n, k)
  BY <1>2 DEF BeginsEntry
<1> QED BY <1>1, <1>2, TxOrigin

(* What comes to an inbox: nothing, or a frame of what was sent. *)
Arrives(n, f) ==
    /\ \E m \in Nodes : \E k :
          /\ Sends(m) /\ Cuts(IdOf(m), TxMap(m), TxMap(m)', k, f)
          /\ k \in DOMAIN TxMap(m) /\ TxMap(m)[k].status = "Active"
          /\ \E u \in sent : EntryOf(m, u, TxMap(m)[k]) /\ FrameOf(u, f)
    /\ Inbox(n)' = Append(Inbox(n), f)

Leaves(n) == Inbox(n) # << >> /\ Inbox(n)' = Tail(Inbox(n))
Doubles(n) == Inbox(n) # << >> /\ Inbox(n)' = << Head(Inbox(n)) >> \o Inbox(n)

LEMMA InboxChanges ==
    ASSUME QueuesTyped, now \in Nat, SentProper, TxOk, NetStep, NEW n \in Peers
    PROVE  \/ Inbox(n)' = Inbox(n)
           \/ \E f : Arrives(n, f)
           \/ Leaves(n) \/ Doubles(n)
<1>1. ASSUME NEW m \in Nodes, Sends(m)
      PROVE  Inbox(n)' = Inbox(n) \/ \E f : Arrives(n, f)
  <2>1. PICK k, f : /\ Cuts(IdOf(m), TxMap(m), TxMap(m)', k, f)
                    /\ Inbox(n)' = IF n = m THEN Inbox(n) ELSE Append(Inbox(n), f)
    BY <1>1 DEF Sends
  <2>2. k \in DOMAIN TxMap(m) /\ TxMap(m)[k].status = "Active"
    BY <2>1 DEF Cuts
  <2>3. PICK u \in sent : EntryOf(m, u, TxMap(m)[k])
    BY <2>2 DEF TxOk
  <2>4. Proper(u)
    BY DEF SentProper
  <2>5. FrameOf(u, f)
    BY <2>1, <2>3, <2>4, FrameMade
  <2> QED BY <1>1, <2>1, <2>2, <2>3, <2>5 DEF Arrives
<1>2. CASE \E m \in Nodes, q \in Queues : Begins(m, q)
  BY <1>2 DEF Begins, SameBus
<1>3. ASSUME NEW m \in Peers, Receives(m) \/ Loses(m) \/ Repeats(m)
      PROVE  Inbox(n)' = Inbox(n) \/ Leaves(n) \/ Doubles(n)
  <2>1. CASE m = n
    BY <1>3, <2>1 DEF Receives, Loses, Repeats, Leaves, Doubles
  <2>2. CASE m # n
    BY <1>3, <2>2 DEF Receives, Loses, Repeats
  <2> QED BY <2>1, <2>2
<1>4. CASE Passes \/ \E m \in Peers : Reads(m)
  BY <1>4 DEF Passes, Reads, SameBus
<1> QED BY <1>1, <1>2, <1>3, <1>4 DEF NetStep

LEMMA InboxStaysOk ==
    ASSUME QueuesTyped, now \in Nat, SentProper, TxOk, InboxOk, NetStep
    PROVE  InboxOk'
<1> SUFFICES ASSUME NEW n \in Peers
             PROVE  /\ Inbox(n)' \in Seq(CanFrame)
                    /\ \A i \in DOMAIN Inbox(n)' : \E u \in sent' : FrameOf(u, Inbox(n)'[i])
  BY DEF InboxOk, FrameOf
<1>1. PICK box, new : box = Inbox(n) /\ new = Inbox(n)'
  OBVIOUS
<1>2. /\ box \in Seq(CanFrame)
      /\ \A i \in DOMAIN box : \E u \in sent : FrameOf(u, box[i])
  BY <1>1 DEF InboxOk
<1>3. sent \subseteq sent'
  BY SentGrows
<1>4. CASE new = box
  BY <1>1, <1>2, <1>3, <1>4
<1>5. ASSUME NEW f, Arrives(n, f)
      PROVE  /\ new \in Seq(CanFrame)
             /\ \A i \in DOMAIN new : \E u \in sent' : FrameOf(u, new[i])
  <2>1. PICK u \in sent : FrameOf(u, f)
    BY <1>5 DEF Arrives
  <2>2. f \in CanFrame /\ new = Append(box, f)
    BY <1>1, <1>5, <2>1 DEF FrameOf, Arrives
  <2>3. /\ new \in Seq(CanFrame)
        /\ \A i \in DOMAIN new : (i \in DOMAIN box /\ new[i] = box[i]) \/ new[i] = f
    BY <1>2, <2>2, AppendIs
  <2> QED BY <1>2, <1>3, <2>1, <2>3
<1>6. CASE Leaves(n)
  <2>1. /\ new \in Seq(CanFrame)
        /\ \A i \in DOMAIN new : i + 1 \in DOMAIN box /\ new[i] = box[i + 1]
    BY <1>1, <1>2, <1>6, TailIs DEF Leaves
  <2> QED BY <1>1, <1>2, <1>3, <2>1
<1>7. CASE Doubles(n)
  <2>1. /\ new \in Seq(CanFrame) /\ 1 \in DOMAIN box
        /\ \A i \in DOMAIN new :
              /\ i \in Nat /\ i >= 1
              /\ i = 1 => new[i] = box[1]
              /\ i > 1 => i - 1 \in DOMAIN box /\ new[i] = box[i - 1]
    BY <1>1, <1>2, <1>7, RepeatIs, TailIs DEF Doubles
  <2>2. \A i \in DOMAIN new : \E j \in DOMAIN box : new[i] = box[j]
    BY <2>1
  <2> QED BY <1>1, <1>2, <1>3, <2>1, <2>2
<1> QED BY <1>1, <1>4, <1>5, <1>6, <1>7, InboxChanges

-----------------------------------------------------------------------------
(* What the entries of the receiving nodes hold. *)

(* Transfers that share a key may all be too long for one frame, or none.  *)
AllMulti(k) == \A u \in sent : Key(u) = k => Len(u.payload) > FrameCapacity
AllSingle(k) == \A u \in sent : Key(u) = k => Len(u.payload) <= FrameCapacity
Unmixed(k) == AllMulti(k) \/ AllSingle(k)

Timeless(m) == [m EXCEPT !.timestamp = 0]

(* p is what was sent under key k. *)
Whole(k, p) == \E u \in sent : Key(u) = k /\ p = u.payload

Known(n, k, e) ==
    /\ e \in RxEntry
    /\ e.transfer_metadata.destination_node_id \in {None, IdOf(n)}
    /\ \E u \in sent : /\ Key(u) = k /\ Timeless(e.transfer_metadata) = MetadataSeen(u)
                       /\ ContentIn(e.payload) = ContentIn(u.payload)
    /\ AllMulti(k) => CrcAgrees(e)
    /\ AllSingle(k) => e.transport_metadata.toggle_bit = TRUE /\ Whole(k, e.payload)

RxOk ==
    \A n \in Peers : \A k \in DOMAIN RxMap(n) :
        RxMap(n)[k].status = "Active" => Known(n, k, RxMap(n)[k])

(* What a token stands for.  No frame is taken while there is one. *)
HeldOk ==
    \A n \in Peers : \A k \in DOMAIN Tokens(n) :
        Tokens(n)[k] > 0 /\ ActiveIn(RxMap(n), k) /\ AllMulti(k) => Whole(k, RxMap(n)[k].payload)

(* Node n makes frame f, of key k, entry e. *)
TakenUp(n, f, k, e, kind) ==
    /\ Receives(n) /\ f = Head(Inbox(n)) /\ k = KeyOf(f)
    /\ RxMetadataOf(f.id, f.tail.transfer_id, 0).destination_node_id \in {None, IdOf(n)}
    /\ Takes(f, now, RxMap(n), e, kind)
    /\ RxMap(n)' = Insert(RxMap(n), k, e)
    /\ Tokens(n)' = IF kind = "Token" THEN [Tokens(n) EXCEPT ![k] = @ + 1] ELSE Tokens(n)

LEMMA ReceivesIs ==
    ASSUME NEW n \in Peers, Receives(n)
    PROVE  \E f, k, e, kind : TakenUp(n, f, k, e, kind)
BY DEF Receives, TakesUp, TakenUp

LEMMA RxOrigin ==
    ASSUME NetStep, NEW n \in Peers
    PROVE  /\ DOMAIN RxMap(n) \subseteq DOMAIN RxMap(n)'
           /\ \A k \in DOMAIN RxMap(n)' :
                 RxMap(n)'[k].status = "Active" =>
                    \/ k \in DOMAIN RxMap(n) /\ RxMap(n)'[k] = RxMap(n)[k]
                    \/ \E f, kind : TakenUp(n, f, k, RxMap(n)'[k], kind)
<1>1. PICK map, new : map = RxMap(n) /\ new = RxMap(n)'
  OBVIOUS
<1>2. CASE new = map
  BY <1>1, <1>2
<1>3. CASE Ages(map, new)
  BY <1>1, <1>3 DEF Ages
<1>4. ASSUME NEW f, NEW k, NEW e, NEW kind, TakenUp(n, f, k, e, kind)
      PROVE  /\ DOMAIN map \subseteq DOMAIN new
             /\ \A x \in DOMAIN new :
                   \/ x \in DOMAIN map /\ new[x] = map[x]
                   \/ TakenUp(n, f, x, new[x], kind)
  <2>1. /\ DOMAIN new = DOMAIN map \cup {k} /\ new[k] = e
        /\ \A x \in DOMAIN map : x # k => new[x] = map[x]
    <3>1. new = Insert(map, k, e)
      BY <1>1, <1>4 DEF TakenUp
    <3> QED BY <3>1 DEF Insert
  <2> QED BY <1>4, <2>1
<1>5. new = map \/ Ages(map, new) \/ Receives(n)
  BY <1>1 DEF NetStep, Begins, Sends, Receives, Reads, Loses, Repeats, Passes, SameRx
<1> QED BY <1>1, <1>2, <1>3, <1>4, <1>5, ReceivesIs

(* Whatever frame comes, what is kept of it is known. *)
LEMMA TakenIsKnown ==
    ASSUME now \in Nat, SentProper, InboxOk, RxOk,
           NEW n \in Peers, NEW f, NEW k, NEW e, NEW kind, TakenUp(n, f, k, e, kind)
    PROVE  /\ f \in CanFrame /\ \E u \in sent : FrameOf(u, f) /\ Key(u) = k
           /\ Known(n, k, e)
           /\ kind = "Token" /\ AllMulti(k) => Whole(k, e.payload)
<1>1. PICK map : map = RxMap(n)
  OBVIOUS
<1>2. Takes(f, now, map, e, kind) /\ k = KeyOf(f)
  BY <1>1 DEF TakenUp
<1>3. PICK u \in sent : FrameOf(u, f)
  <2>1. Inbox(n) # << >> /\ f = Head(Inbox(n))
    BY DEF TakenUp, Receives
  <2>2. Inbox(n) \in Seq(CanFrame)
    BY DEF InboxOk
  <2>3. 1 \in DOMAIN Inbox(n) /\ f = Inbox(n)[1]
    BY <2>1, <2>2, TailIs
  <2> QED BY <2>3 DEF InboxOk
<1>4. PICK p : p = u.payload
  OBVIOUS
<1>5. /\ f \in CanFrame /\ FrameIsOf(f, p) /\ Proper(u) /\ IsPayload(p)
      /\ RxMetadataOf(f.id, f.tail.transfer_id, 0) = MetadataSeen(u) /\ Key(u) = k
  BY <1>2, <1>3, <1>4 DEF FrameOf, SentProper, Proper, Key, KeyOf
<1>6. ActiveIn(map, k) => map[k] \in RxEntry /\ Known(n, k, map[k])
  BY <1>1 DEF RxOk, ActiveIn, Known
<1>7. /\ e \in RxEntry
      /\ e.transfer_metadata.destination_node_id \in {None, IdOf(n)}
      /\ Timeless(e.transfer_metadata) = MetadataSeen(u)
  <2>1. CASE ActiveIn(map, k)
    <3>1. PICK old, w : old = map[k] /\ w = Updated(f, old.transport_metadata)
      OBVIOUS
    <3>2. e \in RxEntry /\ e.transfer_metadata = old.transfer_metadata
      BY <1>2, <1>5, <1>6, <2>1, <3>1, TakesActive
    <3>3. PICK v \in sent : /\ Key(v) = k
                            /\ Timeless(old.transfer_metadata) = MetadataSeen(v)
      BY <1>6, <2>1, <3>1 DEF Known
    <3>4. MetadataSeen(v) = MetadataSeen(u)
      BY <1>5, <3>3, KeyTells DEF SentProper
    <3> QED BY <1>6, <2>1, <3>1, <3>2, <3>3, <3>4 DEF Known
  <2>2. CASE ~ ActiveIn(map, k)
    <3>1. PICK w, m : /\ w = Updated(f, RxMetadataDefault)
                      /\ m = RxMetadataOf(f.id, f.tail.transfer_id, now)
      OBVIOUS
    <3>2. e \in RxEntry /\ e.transfer_metadata = m
      BY <1>2, <1>5, <2>2, <3>1, TakesFirst
    <3>3. Timeless(m) = RxMetadataOf(f.id, f.tail.transfer_id, 0)
      BY <3>1 DEF Timeless, RxMetadataOf
    <3>4. m.destination_node_id
             = RxMetadataOf(f.id, f.tail.transfer_id, 0).destination_node_id
      BY <3>1 DEF RxMetadataOf
    <3> QED BY <1>5, <3>2, <3>3, <3>4 DEF TakenUp
  <2> QED BY <2>1, <2>2
<1>8. \E v \in sent : /\ Key(v) = k /\ Timeless(e.transfer_metadata) = MetadataSeen(v)
                      /\ ContentIn(e.payload) = ContentIn(v.payload)
  <2>1. CASE ContentIn(e.payload) = ContentIn(p)
    BY <1>4, <1>5, <1>7, <2>1
  <2>2. CASE ContentIn(e.payload) # ContentIn(p)
    <3>1. /\ ActiveIn(map, k) => ContentIn(e.payload) \in {ContentIn(map[k].payload), ContentIn(p)}
          /\ ~ ActiveIn(map, k) => ContentIn(e.payload) = ContentIn(p)
      BY <1>2, <1>5, <1>6, ContentKept
    <3>2. ActiveIn(map, k) /\ ContentIn(e.payload) = ContentIn(map[k].payload)
      BY <2>2, <3>1
    <3>3. PICK v \in sent : Key(v) = k /\ ContentIn(map[k].payload) = ContentIn(v.payload)
      BY <1>6, <3>2 DEF Known
    <3>4. MetadataSeen(v) = MetadataSeen(u)
      BY <1>5, <3>3, KeyTells DEF SentProper
    <3> QED BY <1>7, <3>2, <3>3, <3>4
  <2> QED BY <2>1, <2>2
<1>9. ASSUME AllMulti(k) PROVE CrcAgrees(e) /\ (kind = "Token" => Whole(k, e.payload))
  <2>1. Len(p) > FrameCapacity
    BY <1>4, <1>5, <1>9 DEF AllMulti
  <2>2. ActiveIn(map, k) => map[k] \in RxEntry /\ CrcAgrees(map[k])
    BY <1>6, <1>9 DEF Known
  <2>3. CrcAgrees(e) /\ (kind = "Token" => e.payload = p)
    BY <1>2, <1>5, <2>1, <2>2, CrcStillAgrees
  <2> QED BY <1>4, <1>5, <2>3 DEF Whole
<1>10. ASSUME AllSingle(k) PROVE e.transport_metadata.toggle_bit = TRUE /\ Whole(k, e.payload)
  <2>1. Len(p) <= FrameCapacity
    BY <1>4, <1>5, <1>10 DEF AllSingle
  <2>2. ActiveIn(map, KeyOf(f)) =>
           /\ map[KeyOf(f)] \in RxEntry
           /\ map[KeyOf(f)].transport_metadata.toggle_bit = TRUE
    BY <1>2, <1>6, <1>10 DEF Known
  <2>3. Len(p) <= FrameCapacity /\ f \in CanFrame /\ FrameIsOf(f, p)
    BY <1>5, <2>1
  <2>4. /\ e.transport_metadata.toggle_bit = TRUE
        /\ ActiveIn(map, KeyOf(f)) => e.payload = map[KeyOf(f)].payload
        /\ ~ ActiveIn(map, KeyOf(f)) => e.payload = p
    BY <1>2, <2>2, <2>3, SingleFrame
  <2>5. CASE ActiveIn(map, k)
    BY <1>2, <1>6, <1>10, <2>4, <2>5 DEF Known
  <2>6. CASE ~ ActiveIn(map, k)
    BY <1>2, <1>4, <1>5, <2>4, <2>6 DEF Whole
  <2> QED BY <2>5, <2>6
<1> QED BY <1>3, <1>5, <1>7, <1>8, <1>9, <1>10 DEF Known

(* What is known stays known: only more is sent. *)
LEMMA KnownStays ==
    ASSUME sent \subseteq sent', NEW n, NEW k, NEW e
    PROVE  /\ Known(n, k, e) => Known(n, k, e)'
           /\ AllMulti(k)' => AllMulti(k)
           /\ \A p : Whole(k, p) => Whole(k, p)'
<1>1. (AllMulti(k)' => AllMulti(k)) /\ (AllSingle(k)' => AllSingle(k))
  BY DEF AllMulti, AllSingle, Key, MetadataSeen
<1>2. \A p : Whole(k, p) => Whole(k, p)'
  BY DEF Whole, Key, MetadataSeen
<1>3. ASSUME NEW u \in sent, Key(u) = k, Timeless(e.transfer_metadata) = MetadataSeen(u),
             ContentIn(e.payload) = ContentIn(u.payload)
      PROVE  \E v \in sent' : /\ Key(v) = k
                              /\ Timeless(e.transfer_metadata) = MetadataSeen(v)
                              /\ ContentIn(e.payload) = ContentIn(v.payload)
  BY <1>3
<1> QED BY <1>1, <1>2, <1>3 DEF Known, IdOf

LEMMA RxStaysOk ==
    ASSUME QueuesTyped, now \in Nat, SentProper, InboxOk, RxOk, NetStep
    PROVE  RxOk'
<1> SUFFICES ASSUME NEW n \in Peers, NEW k \in DOMAIN RxMap(n)',
                    NEW e, e = RxMap(n)'[k], e.status = "Active"
             PROVE  Known(n, k, e)'
  <2>1. \A n \in Peers : \A k \in DOMAIN RxMap(n)' :
           RxMap(n)'[k].status = "Active" => Known(n, k, RxMap(n)[k])'
    OBVIOUS
  <2> QED BY <2>1 DEF RxOk
<1>1. Known(n, k, e)
  <2>1. CASE k \in DOMAIN RxMap(n) /\ RxMap(n)'[k] = RxMap(n)[k]
    BY <2>1 DEF RxOk
  <2>2. ASSUME NEW f, NEW kind, TakenUp(n, f, k, e, kind) PROVE Known(n, k, e)
    BY <2>2, TakenIsKnown
  <2> QED BY <2>1, <2>2, RxOrigin
<1> QED BY <1>1, SentGrows, KnownStays

(* A token is new, of the frame that was taken, or has been held.          *)
Holds(n, k) == k \in DOMAIN Tokens(n) /\ Tokens(n)[k] > 0

KeepsHeld(n, k) ==
    /\ Holds(n, k)
    /\ ActiveIn(RxMap(n)', k) => ActiveIn(RxMap(n), k) /\ RxMap(n)'[k] = RxMap(n)[k]

LEMMA TokenOrigin ==
    ASSUME NetStep, NEW n \in Peers, NEW k, Holds(n, k)'
    PROVE  KeepsHeld(n, k) \/ \E f, e : TakenUp(n, f, k, e, "Token")
<1>1. PICK map, new, tokens, newer : /\ map = RxMap(n) /\ new = RxMap(n)'
                                     /\ tokens = Tokens(n) /\ newer = Tokens(n)'
  OBVIOUS
<1>2. k \in DOMAIN newer /\ newer[k] > 0
  BY <1>1 DEF Holds
<1>3. CASE Receives(n)
  <2>1. PICK f, l, e, kind : TakenUp(n, f, l, e, kind)
    BY <1>3, ReceivesIs
  <2>2. /\ \A x \in DOMAIN tokens : ~ (tokens[x] > 0)
        /\ newer = IF kind = "Token" THEN [tokens EXCEPT ![l] = @ + 1] ELSE tokens
    BY <1>1, <1>3, <2>1 DEF Receives, TakenUp
  <2>3. kind = "Token" /\ k = l
    BY <1>2, <2>2
  <2> QED BY <2>1, <2>3
<1>4. CASE ~ Receives(n)
  <2>1. \/ newer = tokens
        \/ \E x \in DOMAIN tokens : tokens[x] > 0 /\ newer = [tokens EXCEPT ![x] = @ - 1]
    BY <1>1, <1>4 DEF NetStep, Begins, Sends, Receives, Reads, Loses, Repeats, Passes, SameRx
  <2>2. Holds(n, k)
    <3>1. k \in DOMAIN tokens /\ tokens[k] > 0
      BY <1>2, <2>1
    <3> QED BY <1>1, <3>1 DEF Holds
  <2>3. new = map \/ Ages(map, new)
    BY <1>1, <1>4 DEF NetStep, Begins, Sends, Receives, Reads, Loses, Repeats, Passes, SameRx
  <2>4. ActiveIn(new, k) => ActiveIn(map, k) /\ new[k] = map[k]
    BY <2>3 DEF Ages, ActiveIn
  <2> QED BY <1>1, <2>2, <2>4 DEF KeepsHeld
<1> QED BY <1>3, <1>4

LEMMA HeldStaysOk ==
    ASSUME QueuesTyped, now \in Nat, SentProper, InboxOk, RxOk, HeldOk, NetStep
    PROVE  HeldOk'
<1> SUFFICES ASSUME NEW n \in Peers, NEW k, Holds(n, k)', ActiveIn(RxMap(n)', k), AllMulti(k)',
                    NEW p, p = RxMap(n)'[k].payload
             PROVE  Whole(k, p)'
  <2>1. \A n \in Peers : \A k :
           Holds(n, k)' /\ ActiveIn(RxMap(n)', k) /\ AllMulti(k)'
              => Whole(k, RxMap(n)[k].payload)'
    OBVIOUS
  <2> QED BY <2>1 DEF HeldOk, Holds
<1>1. AllMulti(k)
  BY SentGrows, KnownStays
<1>2. Whole(k, p)
  <2>1. CASE KeepsHeld(n, k)
    BY <1>1, <2>1 DEF KeepsHeld, Holds, HeldOk
  <2>2. ASSUME NEW f, NEW e, TakenUp(n, f, k, e, "Token") PROVE Whole(k, p)
    <3>1. Whole(k, e.payload)
      BY <1>1, <2>2, TakenIsKnown
    <3>2. PICK map, new : map = RxMap(n) /\ new = RxMap(n)'
      OBVIOUS
    <3>3. new = Insert(map, k, e)
      BY <2>2, <3>2 DEF TakenUp
    <3>4. new[k] = e
      BY <3>3 DEF Insert
    <3> QED BY <3>1, <3>2, <3>4
  <2> QED BY <2>1, <2>2, TokenOrigin
<1> QED BY <1>2, SentGrows, KnownStays

-----------------------------------------------------------------------------
(* What an application is given, and what it answers. *)

(* Of an entry under k, node n gives its application u; v is known of it.  *)
GivenAs(n, k, u, v) ==
    /\ Holds(n, k) /\ ActiveIn(RxMap(n), k) /\ u = ReadUnder(n, k)
    /\ v \in sent /\ Key(v) = k /\ MetadataSeen(u) = MetadataSeen(v)
    /\ u.to \in {None, IdOf(n)}
    /\ ContentIn(u.payload) = ContentIn(v.payload)
    /\ Unmixed(k) => u \in sent

LEMMA SameTransfer ==
    ASSUME NEW m, NEW p, NEW v, v \in Transfer, Timeless(m) = MetadataSeen(v)
    PROVE  /\ MetadataSeen(SeenAs(m, p)) = MetadataSeen(v)
           /\ p = v.payload => SeenAs(m, p) = v
<1>1. /\ Timeless(m).transfer_kind = m.transfer_kind /\ Timeless(m).port_id = m.port_id
      /\ Timeless(m).source_node_id = m.source_node_id
      /\ Timeless(m).destination_node_id = m.destination_node_id
      /\ Timeless(m).transfer_id = m.transfer_id
  BY DEF Timeless
<1>2. /\ m.transfer_kind = v.kind /\ m.port_id = v.port_id /\ m.source_node_id = v.from
      /\ m.destination_node_id = v.to /\ m.transfer_id = v.transfer_id
  BY <1>1 DEF MetadataSeen
<1>3. v = [kind |-> v.kind, port_id |-> v.port_id, from |-> v.from, to |-> v.to,
           transfer_id |-> v.transfer_id, payload |-> v.payload]
  BY DEF Transfer
<1> QED BY <1>2, <1>3 DEF SeenAs, MetadataSeen

LEMMA ReadIsGiven ==
    ASSUME SentProper, RxOk, HeldOk, NEW n \in Peers, NEW k, Holds(n, k), ActiveIn(RxMap(n), k)
    PROVE  \E v : GivenAs(n, k, ReadUnder(n, k), v)
<1>1. PICK e, m, p, u : /\ e = RxMap(n)[k] /\ m = e.transfer_metadata /\ p = e.payload
                        /\ u = SeenAs(m, p)
  OBVIOUS
<1>2. u = ReadUnder(n, k)
  BY <1>1 DEF ReadUnder
<1>3. Known(n, k, e)
  BY <1>1 DEF RxOk, ActiveIn
<1>4. PICK v \in sent : /\ Key(v) = k /\ Timeless(m) = MetadataSeen(v)
                        /\ ContentIn(p) = ContentIn(v.payload)
  BY <1>1, <1>3 DEF Known
<1>5. \A w \in sent : w \in Transfer /\ Proper(w)
  BY DEF SentProper, Proper
<1>6. MetadataSeen(u) = MetadataSeen(v)
  BY <1>1, <1>4, <1>5, SameTransfer
<1>7. u.to \in {None, IdOf(n)} /\ u.payload = p
  BY <1>1, <1>3 DEF Known, SeenAs
<1>8. ASSUME Unmixed(k) PROVE u \in sent
  <2>1. Whole(k, p)
    <3>1. CASE AllMulti(k)
      BY <1>1, <3>1 DEF HeldOk, Holds
    <3>2. CASE AllSingle(k)
      BY <1>1, <1>3, <3>2 DEF Known
    <3> QED BY <1>8, <3>1, <3>2 DEF Unmixed
  <2>2. PICK w \in sent : Key(w) = k /\ p = w.payload
    BY <2>1 DEF Whole
  <2>3. MetadataSeen(w) = MetadataSeen(v)
    BY <1>4, <1>5, <2>2, KeyTells
  <2>4. u = w
    BY <1>1, <1>4, <1>5, <2>2, <2>3, SameTransfer
  <2> QED BY <2>4
<1> QED BY <1>2, <1>4, <1>6, <1>7, <1>8 DEF GivenAs

(* The answer to a request that was read answers one that was sent. *)
LEMMA AnswerIs ==
    ASSUME SentProper, NEW n \in Peers, NEW k, NEW v, GivenAs(n, k, ReadUnder(n, k), v),
           ReadUnder(n, k).kind = "Request"
    PROVE  /\ AnswerUnder(n, k) \in Replies
           /\ Answers(AsSeen(IdOf(n), AnswerUnder(n, k)), v)
<1>1. PICK m, p, t, i, o :
          /\ m = RxMap(n)[k].transfer_metadata /\ p = RxMap(n)[k].payload
          /\ t = AnswerUnder(n, k) /\ i = IdOf(n) /\ o = ReplyTo[ContentIn(v.payload)]
  OBVIOUS
<1>2. /\ m.transfer_kind = v.kind /\ m.port_id = v.port_id /\ m.source_node_id = v.from
      /\ m.destination_node_id = v.to /\ m.transfer_id = v.transfer_id
      /\ v.kind = "Request" /\ v.to \in {None, i} /\ ContentIn(p) = ContentIn(v.payload)
      /\ v \in sent
  BY <1>1 DEF GivenAs, ReadUnder, SeenAs, MetadataSeen
<1>3. /\ v \in Transfer /\ v.to # None /\ v.port_id \in ServiceIdField /\ IsPayload(v.payload)
  BY <1>2 DEF SentProper, Proper
<1>4. /\ v.port_id \in PortId /\ v.transfer_id \in TransferId /\ v.from \in NodeId
      /\ v.from \in NodeIdField /\ i \in NodeIdField /\ v.transfer_id \in TransferIdField
  BY <1>2, <1>3, FieldsFitTypes DEF Transfer
<1>5. t = [tx_kind |-> [type |-> "Response", node |-> v.from], port_id |-> v.port_id,
           transfer_id |-> v.transfer_id, use |-> ReplyUse, of |-> o]
  <2>1. t = ReplyFrom(m, p)
    BY <1>1 DEF AnswerUnder
  <2> QED BY <1>1, <1>2, <2>1 DEF ReplyFrom
<1>6. o \in Data
  <2>1. ContentIn(v.payload) \in Data \cup {None}
    BY <1>3 DEF ContentIn, IsPayload, IsWritten
  <2> QED BY <1>1, <2>1, NetworkAssumption
<1>7. t \in Replies
  BY <1>4, <1>5, <1>6 DEF Replies
<1>8. /\ v.port_id % 512 = v.port_id /\ i % 128 = i /\ v.from % 128 = v.from
      /\ v.transfer_id % 32 = v.transfer_id
  <2>1. \A x \in ServiceIdField : x % 512 = x
    BY DEF ServiceIdField
  <2>2. \A x \in NodeIdField : x % 128 = x
    BY DEF NodeIdField
  <2>3. \A x \in TransferIdField : x % 32 = x
    BY DEF TransferIdField
  <2> QED BY <1>3, <1>4, <2>1, <2>2, <2>3
<1>9. SeenMetadata(i, t)
         = [timestamp |-> 0, priority |-> 4, transfer_kind |-> "Response",
            port_id |-> v.port_id, source_node_id |-> i,
            destination_node_id |-> v.from, transfer_id |-> v.transfer_id]
  <2>1. /\ t.tx_kind.type = "Response" /\ t.tx_kind.node = v.from
        /\ t.port_id = v.port_id /\ t.transfer_id = v.transfer_id
    BY <1>5
  <2> QED BY <1>8, <2>1, SeenFields
<1>10. AsSeen(i, t)
         = [kind |-> "Response", port_id |-> v.port_id, from |-> i, to |-> v.from,
            transfer_id |-> v.transfer_id, payload |-> Written(o, ReplyUse.claimed)]
  <2>1. t.of = o /\ t.use = ReplyUse
    BY <1>5
  <2> QED BY <1>9, <2>1 DEF AsSeen, SeenAs
<1>11. A!ContentOf(v.payload) = ContentIn(v.payload)
  BY DEF A!ContentOf, ContentIn
<1>12. Answers(AsSeen(i, t), v)
  BY <1>1, <1>2, <1>3, <1>10, <1>11 DEF Answers
<1> QED BY <1>1, <1>7, <1>12

(* What comes to a queue: nothing, or the answer to a request.             *)
Notes(n, k) ==
    /\ Reads(n)
    /\ \E v : GivenAs(n, k, ReadUnder(n, k), v)
    /\ ReadUnder(n, k).kind = "Request"
    /\ received' = [received EXCEPT ![n] = BagAdd(@, ReadUnder(n, k))]
    /\ Waiting(n, "answers")' = Append(Waiting(n, "answers"), AnswerUnder(n, k))
    /\ sent' = sent

LEMMA QueueChanges ==
    ASSUME SentProper, RxOk, HeldOk, NetStep, NEW n \in Nodes, NEW q \in Queues
    PROVE  \/ Waiting(n, q)' = Waiting(n, q)
           \/ Begins(n, q) /\ Waiting(n, q) # << >> /\ Waiting(n, q)' = Tail(Waiting(n, q))
           \/ q = "answers" /\ n \in Peers /\ \E k : Notes(n, k)
<1>1. ASSUME NEW m \in Nodes, NEW r \in Queues, Begins(m, r)
      PROVE  \/ Waiting(n, q)' = Waiting(n, q)
             \/ Begins(n, q) /\ Waiting(n, q) # << >> /\ Waiting(n, q)' = Tail(Waiting(n, q))
  <2>1. CASE m = n /\ r = q
    BY <1>1, <2>1 DEF Begins
  <2>2. CASE ~ (m = n /\ r = q)
    BY <1>1, <2>2 DEF Begins
  <2> QED BY <2>1, <2>2
<1>2. ASSUME NEW m \in Peers, Reads(m)
      PROVE  \/ Waiting(n, q)' = Waiting(n, q)
             \/ q = "answers" /\ n \in Peers /\ \E k : Notes(n, k)
  <2>1. CASE m # n \/ q # "answers"
    BY <1>2, <2>1 DEF Reads
  <2>2. CASE m = n /\ q = "answers"
    <3>1. PICK k \in DOMAIN Tokens(n) :
             /\ Tokens(n)[k] > 0
             /\ received' = IF ActiveIn(RxMap(n), k)
                            THEN [received EXCEPT ![n] = BagAdd(@, ReadUnder(n, k))]
                            ELSE received
             /\ Waiting(n, "answers")' =
                   IF ActiveIn(RxMap(n), k) /\ ReadUnder(n, k).kind = "Request"
                   THEN Append(Waiting(n, "answers"), AnswerUnder(n, k))
                   ELSE Waiting(n, "answers")
      BY <1>2, <2>2 DEF Reads
    <3>2. CASE ActiveIn(RxMap(n), k) /\ ReadUnder(n, k).kind = "Request"
      <4>1. Holds(n, k) /\ n \in Peers
        BY <1>2, <2>2, <3>1 DEF Holds
      <4>2. \E v : GivenAs(n, k, ReadUnder(n, k), v)
        BY <3>2, <4>1, ReadIsGiven
      <4>3. sent' = sent
        BY <1>2 DEF Reads
      <4> QED BY <1>2, <2>2, <3>1, <3>2, <4>1, <4>2, <4>3 DEF Notes
    <3>3. CASE ~ (ActiveIn(RxMap(n), k) /\ ReadUnder(n, k).kind = "Request")
      BY <2>2, <3>1, <3>3
    <3> QED BY <3>2, <3>3
  <2> QED BY <2>1, <2>2
<1>3. CASE \/ \E m \in Nodes : Sends(m)
           \/ \E m \in Peers : Receives(m) \/ Loses(m) \/ Repeats(m)
           \/ Passes
  BY <1>3 DEF Sends, Receives, Loses, Repeats, Passes, SameQueues
<1> QED BY <1>1, <1>2, <1>3 DEF NetStep

LEMMA QueuesStayTyped ==
    ASSUME QueuesTyped, SentProper, RxOk, HeldOk, NetStep
    PROVE  QueuesTyped'
<1> SUFFICES ASSUME NEW n \in Nodes, NEW q \in Queues
             PROVE  Waiting(n, q)' \in Seq(Awaited(n, q))
  BY DEF QueuesTyped, Awaited
<1>1. Waiting(n, q) \in Seq(Awaited(n, q))
  BY DEF QueuesTyped
<1>2. CASE Waiting(n, q) # << >> /\ Waiting(n, q)' = Tail(Waiting(n, q))
  BY <1>1, <1>2, TailIs
<1>3. ASSUME q = "answers", n \in Peers, NEW k, Notes(n, k)
      PROVE  Waiting(n, q)' \in Seq(Awaited(n, q))
  <2>1. AnswerUnder(n, k) \in Replies
    BY <1>3, AnswerIs DEF Notes
  <2>2. Awaited(n, q) = Replies
    BY <1>3 DEF Awaited, Peers
  <2> QED BY <1>1, <1>3, <2>1, <2>2, AppendIs DEF Notes
<1> QED BY <1>1, <1>2, <1>3, QueueChanges

(* Every answer that waits, and every response sent, answers a request.    *)
AnswersOk ==
    \A n \in Peers : \A i \in DOMAIN Waiting(n, "answers") :
        \E request \in sent : Answers(AsSeen(IdOf(n), Waiting(n, "answers")[i]), request)

ResponsesOk ==
    \A u \in sent : u.kind = "Response" =>
        /\ Len(u.payload) = ReplyUse.claimed
        /\ \E request \in sent : Answers(u, request)

LEMMA AnswersStayOk ==
    ASSUME QueuesTyped, SentProper, RxOk, HeldOk, AnswersOk, NetStep
    PROVE  AnswersOk'
<1> SUFFICES ASSUME NEW n \in Peers, NEW i \in DOMAIN Waiting(n, "answers")',
                    NEW t, t = Waiting(n, "answers")'[i]
             PROVE  \E request \in sent' : Answers(AsSeen(IdOf(n), t), request)
  BY DEF AnswersOk
<1>1. PICK box, new : box = Waiting(n, "answers") /\ new = Waiting(n, "answers")'
  OBVIOUS
<1>2. box \in Seq(Awaited(n, "answers")) /\ n \in Nodes /\ "answers" \in Queues
  BY <1>1 DEF QueuesTyped, Peers, Nodes, Queues
<1>3. ASSUME NEW j \in DOMAIN box, t = box[j]
      PROVE  \E request \in sent' : Answers(AsSeen(IdOf(n), t), request)
  <2>1. PICK request \in sent : Answers(AsSeen(IdOf(n), t), request)
    BY <1>1, <1>3 DEF AnswersOk
  <2> QED BY <2>1, SentGrows
<1>4. CASE new = box
  BY <1>1, <1>3, <1>4
<1>5. CASE box # << >> /\ new = Tail(box)
  BY <1>1, <1>2, <1>3, <1>5, TailIs
<1>6. ASSUME NEW k, Notes(n, k)
      PROVE  \E request \in sent' : Answers(AsSeen(IdOf(n), t), request)
  <2>1. PICK v : GivenAs(n, k, ReadUnder(n, k), v)
    BY <1>6 DEF Notes
  <2>2. /\ AnswerUnder(n, k) \in Replies /\ v \in sent /\ sent' = sent
        /\ Answers(AsSeen(IdOf(n), AnswerUnder(n, k)), v)
    BY <1>6, <2>1, AnswerIs DEF Notes, GivenAs
  <2>3. Awaited(n, "answers") = Replies
    BY DEF Awaited, Peers
  <2>4. new = Append(box, AnswerUnder(n, k))
    BY <1>1, <1>6 DEF Notes
  <2>5. (\E j \in DOMAIN box : t = box[j]) \/ t = AnswerUnder(n, k)
    BY <1>1, <1>2, <2>2, <2>3, <2>4, AppendIs
  <2> QED BY <1>3, <2>2, <2>5
<1> QED BY <1>1, <1>2, <1>4, <1>5, <1>6, QueueChanges

LEMMA ResponsesStayOk ==
    ASSUME QueuesTyped, now \in Nat, SentProper, AnswersOk, ResponsesOk, NetStep
    PROVE  ResponsesOk'
<1>1. CASE sent' = sent
  BY <1>1 DEF ResponsesOk
<1>2. ASSUME NEW n \in Nodes, NEW q \in Queues, Begins(n, q) PROVE ResponsesOk'
  <2>1. PICK t, u : /\ Waiting(n, q) # << >> /\ t = Head(Waiting(n, q))
                    /\ t \in Awaited(n, q) /\ t.use.claimed # None
                    /\ u = AsSeen(IdOf(n), t) /\ sent' = sent \cup {u}
    BY <1>2, BeginsIs
  <2>2. ASSUME u.kind = "Response"
        PROVE  Len(u.payload) = ReplyUse.claimed /\ \E r \in sent : Answers(u, r)
    <3>1. q = "answers" /\ Len(u.payload) = t.use.claimed
      BY <2>1, <2>2, SeenIsProper
    <3>2. n \in Peers /\ t.use = ReplyUse
      BY <2>1, <3>1, AwaitedIs
    <3>3. Waiting(n, q) \in Seq(Awaited(n, q))
      BY DEF QueuesTyped
    <3>4. 1 \in DOMAIN Waiting(n, q) /\ t = Waiting(n, q)[1]
      BY <2>1, <3>3, TailIs
    <3>5. \E r \in sent : Answers(AsSeen(IdOf(n), t), r)
      BY <3>1, <3>2, <3>4 DEF AnswersOk
    <3> QED BY <2>1, <3>1, <3>2, <3>5
  <2> QED BY <2>1, <2>2 DEF ResponsesOk
<1> QED BY <1>1, <1>2, SentGrows

(* Node n gives its application what it has under k. *)
Gives(n, k) ==
    /\ Reads(n)
    /\ \E v : GivenAs(n, k, ReadUnder(n, k), v)
    /\ received' = [received EXCEPT ![n] = BagAdd(@, ReadUnder(n, k))]
    /\ Tokens(n)' = [Tokens(n) EXCEPT ![k] = @ - 1]

LEMMA ReceivedChanges ==
    ASSUME SentProper, RxOk, HeldOk, NetStep
    PROVE  received' = received \/ \E n \in Peers : \E k : Gives(n, k)
<1>1. ASSUME NEW n \in Peers, Reads(n)
      PROVE  received' = received \/ \E k : Gives(n, k)
  <2>1. PICK k \in DOMAIN Tokens(n) :
           /\ Tokens(n)[k] > 0
           /\ Tokens(n)' = [Tokens(n) EXCEPT ![k] = @ - 1]
           /\ received' = IF ActiveIn(RxMap(n), k)
                          THEN [received EXCEPT ![n] = BagAdd(@, ReadUnder(n, k))]
                          ELSE received
    BY <1>1 DEF Reads
  <2>2. CASE ActiveIn(RxMap(n), k)
    <3>1. Holds(n, k)
      BY <2>1 DEF Holds
    <3>2. \E v : GivenAs(n, k, ReadUnder(n, k), v)
      BY <2>2, <3>1, ReadIsGiven
    <3> QED BY <1>1, <2>1, <2>2, <3>2 DEF Gives
  <2> QED BY <2>1, <2>2
<1> QED BY <1>1 DEF NetStep, Begins, Sends, Receives, Loses, Repeats, Passes, SameHistory

LEMMA BagAddIs ==
    ASSUME NEW x, NEW bag
    PROVE  BagToSet(BagAdd(bag, x)) = BagToSet(bag) \cup {x}
BY DEF BagToSet, BagAdd

(* What an application has been given was sent, or is at least like it: if *)
(* transfers that share their key do not need the same number of frames.   *)
Given(n, u) ==
    /\ \E v \in sent : MetadataSeen(u) = MetadataSeen(v)
    /\ u.to \in {None, IdOf(n)}
    /\ Unmixed(Key(u)) => u \in sent

GivenOk ==
    /\ DOMAIN received = Peers
    /\ \A n \in Peers : \A u \in BagToSet(received[n]) : Given(n, u)

LEMMA GivenStaysOk ==
    ASSUME QueuesTyped, SentProper, RxOk, HeldOk, GivenOk, NetStep
    PROVE  GivenOk'
<1>1. ASSUME NEW n, NEW u, Given(n, u) PROVE Given(n, u)'
  <2>1. Unmixed(Key(u))' => Unmixed(Key(u))
    BY SentGrows DEF Unmixed, AllMulti, AllSingle, Key, MetadataSeen
  <2>2. \E v \in sent' : MetadataSeen(u) = MetadataSeen(v)
    BY <1>1, SentGrows DEF Given
  <2> QED BY <1>1, <2>1, <2>2, SentGrows DEF Given, IdOf, Key, MetadataSeen
<1>2. CASE received' = received
  BY <1>1, <1>2 DEF GivenOk
<1>3. ASSUME NEW n \in Peers, NEW k, Gives(n, k) PROVE GivenOk'
  <2>1. PICK u, v : u = ReadUnder(n, k) /\ GivenAs(n, k, u, v)
    BY <1>3 DEF Gives
  <2>2. Given(n, u)
    <3>1. Key(u) = k
      BY <2>1 DEF GivenAs, Key
    <3> QED BY <2>1, <3>1 DEF GivenAs, Given
  <2>3. received' = [received EXCEPT ![n] = BagAdd(@, u)]
    BY <1>3, <2>1 DEF Gives
  <2>4. DOMAIN received' = Peers
    BY <2>3 DEF GivenOk
  <2>5. ASSUME NEW m \in Peers, NEW w \in BagToSet(received'[m]) PROVE Given(m, w)
    <3>1. CASE m = n
      <4>1. received'[m] = BagAdd(received[m], u)
        BY <2>3, <3>1 DEF GivenOk
      <4>2. w \in BagToSet(received[m]) \/ w = u
        BY <2>5, <4>1, BagAddIs
      <4> QED BY <2>2, <3>1, <4>2 DEF GivenOk
    <3>2. CASE m # n
      <4>1. received'[m] = received[m]
        BY <2>3, <3>2
      <4> QED BY <2>5, <4>1 DEF GivenOk
    <3> QED BY <3>1, <3>2
  <2> QED BY <1>1, <2>4, <2>5 DEF GivenOk
<1> QED BY <1>2, <1>3, ReceivedChanges

-----------------------------------------------------------------------------
(* What is given as a response answers a request. *)

NetInv ==
    /\ now \in Nat /\ QueuesTyped /\ SentProper
    /\ TxOk /\ InboxOk /\ RxOk /\ HeldOk
    /\ AnswersOk /\ ResponsesOk /\ GivenOk

LEMMA InitIs ==
    ASSUME Init
    PROVE  \E p \in Plans :
              /\ \A n \in Nodes : Plan(n) = p[n] /\ DOMAIN TxMap(n) = {}
              /\ \A n \in Peers : /\ DOMAIN RxMap(n) = {} /\ Inbox(n) = << >>
                                  /\ \A k \in DOMAIN Tokens(n) : Tokens(n)[k] = 0
              /\ \A n \in Nodes : AnswersOf(n) = << >>
              /\ sent = {} /\ received = [n \in Peers |-> EmptyBag] /\ now = 0
<1>1. PICK p \in Plans :
         /\ A!PeerInit(p.a) /\ B!PeerInit(p.b) /\ C!Init /\ c_plan = p.c
         /\ sent = {} /\ received = [n \in {"a", "b"} |-> EmptyBag]
  BY DEF Init
<1>2. /\ a_plan = p.a /\ a_answers = << >> /\ a_inbox = << >>
      /\ DOMAIN a_tx_transfers = {} /\ DOMAIN a_rx_transfers = {}
      /\ \A k \in DOMAIN a_rx_tokens : a_rx_tokens[k] = 0
  BY <1>1 DEF A!PeerInit, A!NodeInit, A!Tx!Init, A!Rx!Init, A!Tx!EmptyMap, A!Rx!EmptyMap
<1>3. /\ b_plan = p.b /\ b_answers = << >> /\ b_inbox = << >>
      /\ DOMAIN b_tx_transfers = {} /\ DOMAIN b_rx_transfers = {}
      /\ \A k \in DOMAIN b_rx_tokens : b_rx_tokens[k] = 0
  BY <1>1 DEF B!PeerInit, B!NodeInit, B!Tx!Init, B!Rx!Init, B!Tx!EmptyMap, B!Rx!EmptyMap
<1>4. now = 0 /\ DOMAIN c_tx_transfers = {}
  BY <1>1 DEF C!Init, C!EmptyMap
<1> QED BY <1>1, <1>2, <1>3, <1>4
        DEF Nodes, Peers, Plan, TxMap, RxMap, Inbox, Tokens, AnswersOf

LEMMA EmptyQueue == ASSUME NEW S, NEW s, s = << >> PROVE s \in Seq(S) /\ DOMAIN s = {}
OBVIOUS

LEMMA NetInvInit == Init => NetInv
<1> SUFFICES ASSUME Init PROVE NetInv
  OBVIOUS
<1>1. PICK p \in Plans :
              /\ \A n \in Nodes : Plan(n) = p[n] /\ DOMAIN TxMap(n) = {}
              /\ \A n \in Peers : /\ DOMAIN RxMap(n) = {} /\ Inbox(n) = << >>
                                  /\ \A k \in DOMAIN Tokens(n) : Tokens(n)[k] = 0
              /\ \A n \in Nodes : AnswersOf(n) = << >>
              /\ sent = {} /\ received = [n \in Peers |-> EmptyBag] /\ now = 0
  BY InitIs
<1>2. QueuesTyped
  <2>1. /\ \A n \in Nodes : p[n] \in Seq({t \in ToSend : Sendable(t)})
        /\ \A i \in DOMAIN p["c"] : p["c"][i].tx_kind.type = "Broadcast"
    BY PlansAssumption DEF Nodes
  <2>2. ASSUME NEW n \in Nodes PROVE Waiting(n, "plan") \in Seq(Awaited(n, "plan"))
    <3>1. PICK s, S : s = p[n] /\ S = {t \in ToSend : Sendable(t)}
      OBVIOUS
    <3>2. s \in Seq(S) /\ (n = "c" => \A i \in DOMAIN s : s[i].tx_kind.type = "Broadcast")
      BY <2>1, <3>1
    <3>3. \A i \in DOMAIN s : s[i] \in Awaited(n, "plan")
      BY <3>1, <3>2 DEF Awaited
    <3>4. s \in Seq(Awaited(n, "plan"))
      BY <3>2, <3>3
    <3> QED BY <1>1, <3>1, <3>4 DEF Waiting
  <2>3. ASSUME NEW n \in Nodes PROVE Waiting(n, "answers") \in Seq(Awaited(n, "answers"))
    <3>1. Waiting(n, "answers") = << >>
      BY <1>1 DEF Waiting
    <3> QED BY <3>1, EmptyQueue, Zenon
  <2> QED BY <2>2, <2>3 DEF QueuesTyped, Queues
<1>3. TxOk /\ SentProper
  BY <1>1 DEF TxOk, SentProper
<1>4. InboxOk /\ RxOk /\ HeldOk
  <2>1. \A n \in Peers : \A k \in DOMAIN Tokens(n) : ~ (Tokens(n)[k] > 0)
    BY <1>1
  <2>2. \A n \in Peers : Inbox(n) \in Seq(CanFrame) /\ DOMAIN Inbox(n) = {}
    BY <1>1, EmptyQueue, Zenon
  <2> QED BY <1>1, <2>1, <2>2 DEF InboxOk, RxOk, HeldOk
<1>5. AnswersOk /\ ResponsesOk
  BY <1>1 DEF AnswersOk, ResponsesOk, Waiting, Peers, Nodes
<1>6. GivenOk
  BY <1>1 DEF GivenOk, BagToSet, EmptyBag, SetToBag
<1> QED BY <1>1, <1>2, <1>3, <1>4, <1>5, <1>6 DEF NetInv

LEMMA NetInvStays == NetInv /\ [Next]_network_vars => NetInv'
<1> SUFFICES ASSUME NetInv, [Next]_network_vars PROVE NetInv'
  OBVIOUS
<1>1. NetStep
  BY StepIs DEF NetInv
<1>2. now \in Nat /\ now' \in Nat
  BY TimeMoves DEF NetInv
<1>3. QueuesTyped' /\ SentProper' /\ TxOk' /\ InboxOk'
  BY <1>1, <1>2, QueuesStayTyped, SentStaysProper, TxStaysOk, InboxStaysOk DEF NetInv
<1>4. RxOk' /\ HeldOk'
  BY <1>1, <1>2, RxStaysOk, HeldStaysOk DEF NetInv
<1>5. AnswersOk' /\ ResponsesOk' /\ GivenOk'
  BY <1>1, <1>2, AnswersStayOk, ResponsesStayOk, GivenStaysOk DEF NetInv
<1> QED BY <1>2, <1>3, <1>4, <1>5 DEF NetInv

LEMMA NetInvMatches == NetInv => ResponsesMatch
<1> SUFFICES ASSUME NetInv, NEW n \in Peers, NEW u \in BagToSet(received[n]),
                    u.kind = "Response"
             PROVE  \E request \in sent : Answers(u, request)
  BY DEF ResponsesMatch, Peers
<1>1. Given(n, u)
  BY DEF NetInv, GivenOk
<1>2. PICK v \in sent : MetadataSeen(u) = MetadataSeen(v)
  BY <1>1 DEF Given
<1>3. ASSUME NEW w \in sent, Key(w) = Key(u) PROVE Len(w.payload) = ReplyUse.claimed
  <2>1. Proper(v) /\ Proper(w)
    BY DEF NetInv, SentProper
  <2>2. Key(w) = Key(v)
    BY <1>2, <1>3 DEF Key
  <2>3. MetadataSeen(w) = MetadataSeen(v)
    BY <2>1, <2>2, KeyTells
  <2>4. w.kind = "Response"
    BY <1>2, <2>3 DEF MetadataSeen
  <2> QED BY <2>4 DEF NetInv, ResponsesOk
<1>4. Unmixed(Key(u))
  <2>1. ReplyUse.claimed <= FrameCapacity \/ ReplyUse.claimed > FrameCapacity
    <3>1. ReplyUse.claimed \in Nat /\ FrameCapacity \in Int
      <4>1. Proper(v) /\ v.kind = "Response"
        BY <1>2 DEF NetInv, SentProper, MetadataSeen
      <4>2. ReplyUse.claimed = Len(v.payload)
        BY <4>1 DEF NetInv, ResponsesOk
      <4>3. v.payload \in Seq(Byte)
        BY <4>1 DEF Proper, Transfer
      <4> QED BY <4>2, <4>3, CanAssumption DEF FrameCapacity
    <3> QED BY <3>1
  <2> QED BY <1>3, <2>1 DEF Unmixed, AllMulti, AllSingle
<1>5. u \in sent
  BY <1>1, <1>4 DEF Given
<1> QED BY <1>5 DEF NetInv, ResponsesOk

(* Whatever an application of any node is given as a response, some node   *)
(* has asked for: on that port, under that transfer id, and the response   *)
(* holds what is replied to what was asked (the with_rx_transfer callback, *)
(* the session keys of HashMetadata and the frames of three nodes on one   *)
(* bus that loses, repeats and delays them).                               *)
THEOREM ResponsesAnswer == Spec => []ResponsesMatch
<1>1. Init => NetInv
  BY NetInvInit
<1>2. NetInv /\ [Next]_network_vars => NetInv'
  BY NetInvStays
<1>3. NetInv => ResponsesMatch
  BY NetInvMatches
<1> QED BY <1>1, <1>2, <1>3, PTL DEF Spec

-----------------------------------------------------------------------------
(* No two transfers are alike.                                             *)

(* What waits to be sent, as others are to see it. *)
Due(n, q, i) == AsSeen(IdOf(n), Waiting(n, q)[i])

Alike(u, v) == MetadataSeen(u) = MetadataSeen(v)

DueDistinct ==
    \A n, m \in Nodes, q, r \in Queues :
        \A i \in DOMAIN Waiting(n, q), j \in DOMAIN Waiting(m, r) :
            Alike(Due(n, q, i), Due(m, r, j)) => n = m /\ q = r /\ i = j

DueNotSent ==
    \A n \in Nodes, q \in Queues : \A i \in DOMAIN Waiting(n, q) : \A u \in sent :
        ~ Alike(Due(n, q, i), u)

SentDistinct == \A u, v \in sent : Alike(u, v) => u = v

(* The request that u answers has been read. *)
Justified(u) == \E m \in Peers : \E r \in BagToSet(received[m]) : Answers(u, r)

AllJustified ==
    /\ \A n \in Peers : \A i \in DOMAIN Waiting(n, "answers") :
          Justified(Due(n, "answers", i))
    /\ \A u \in sent : u.kind = "Response" => Justified(u)

LEMMA AlikeIs ==
    ASSUME NEW u, NEW v
    PROVE  Alike(u, v) <=> /\ u.kind = v.kind /\ u.port_id = v.port_id /\ u.from = v.from
                           /\ u.to = v.to /\ u.transfer_id = v.transfer_id
BY DEF Alike, MetadataSeen

LEMMA DueIs ==
    ASSUME QueuesTyped, NEW n \in Nodes, NEW q \in Queues, NEW i \in DOMAIN Waiting(n, q)
    PROVE  /\ Due(n, q, i).kind = "Response" <=> q = "answers"
           /\ q = "answers" => n \in Peers
<1>1. PICK t : t = Waiting(n, q)[i]
  OBVIOUS
<1>2. t \in Awaited(n, q)
  BY <1>1 DEF QueuesTyped
<1>3. /\ t.tx_kind.type \in {"Broadcast", "Request", "Response"}
      /\ t.tx_kind.type = "Response" <=> q = "answers"
      /\ q = "answers" => n \in Peers
  BY <1>2, AwaitedIs
<1>4. SeenMetadata(IdOf(n), t).transfer_kind
         = IF t.tx_kind.type = "Broadcast" THEN "Message" ELSE t.tx_kind.type
  BY <1>3, SeenFields
<1>5. Due(n, q, i).kind = SeenMetadata(IdOf(n), t).transfer_kind
  BY <1>1 DEF Due, AsSeen, SeenAs
<1> QED BY <1>3, <1>4, <1>5

(* As long as no two are alike, what an application is given was sent.     *)
LEMMA AllUnmixed ==
    ASSUME SentProper, SentDistinct, NEW k
    PROVE  Unmixed(k)
<1>1. CASE \E u \in sent : Key(u) = k
  <2>1. PICK u \in sent : Key(u) = k
    BY <1>1
  <2>2. \A v \in sent : Key(v) = k => v = u
    BY <2>1, KeyTells DEF SentProper, SentDistinct, Alike
  <2>3. Len(u.payload) \in Nat
    BY <2>1 DEF SentProper, Proper, Transfer
  <2>4. FrameCapacity \in Int
    BY CanAssumption DEF FrameCapacity
  <2>5. Len(u.payload) > FrameCapacity \/ Len(u.payload) <= FrameCapacity
    BY <2>3, <2>4
  <2> QED BY <2>2, <2>5 DEF Unmixed, AllMulti, AllSingle
<1>2. CASE ~ \E u \in sent : Key(u) = k
  BY <1>2 DEF Unmixed, AllMulti
<1> QED BY <1>1, <1>2

LEMMA GivenWasSent ==
    ASSUME SentProper, SentDistinct, GivenOk, NEW n \in Peers, NEW u \in BagToSet(received[n])
    PROVE  u \in sent /\ u.to \in {None, IdOf(n)}
BY AllUnmixed DEF GivenOk, Given

ReadBefore(n, k) == \E u \in BagToSet(received[n]) : Key(u) = k

HeldUnread == \A n \in Peers : \A k : Holds(n, k) => ~ ReadBefore(n, k)

(* What a request is answered with is unlike all that has been answered.   *)
LEMMA FreshAnswer ==
    ASSUME SentProper, SentDistinct, GivenOk, HeldUnread,
           NEW n \in Peers, NEW k, Notes(n, k), NEW y, Justified(y)
    PROVE  ~ Alike(AsSeen(IdOf(n), AnswerUnder(n, k)), y)
<1>1. PICK x, u : x = AsSeen(IdOf(n), AnswerUnder(n, k)) /\ u = ReadUnder(n, k)
  OBVIOUS
<1>2. PICK v : GivenAs(n, k, u, v)
  BY <1>1 DEF Notes
<1>3. Answers(x, v)
  BY <1>1, <1>2, AnswerIs DEF Notes
<1>4. v \in sent /\ u \in sent /\ Holds(n, k) /\ Key(u) = k /\ Alike(u, v)
  BY <1>2, AllUnmixed DEF GivenAs, Key, Alike
<1>5. u = v
  BY <1>4 DEF SentDistinct
<1>6. PICK m \in Peers : \E r \in BagToSet(received[m]) : Answers(y, r)
  BY DEF Justified
<1>7. PICK r \in BagToSet(received[m]) : Answers(y, r)
  BY <1>6
<1> SUFFICES ASSUME Alike(x, y) PROVE FALSE
  BY <1>1
<1>8. Alike(r, u)
  <2>1. /\ x.port_id = y.port_id /\ x.from = y.from /\ x.to = y.to
        /\ x.transfer_id = y.transfer_id
    BY AlikeIs
  <2>2. /\ r.kind = "Request" /\ r.from = y.to /\ r.to = y.from
        /\ r.port_id = y.port_id /\ r.transfer_id = y.transfer_id
    BY <1>7 DEF Answers
  <2>3. /\ v.kind = "Request" /\ v.from = x.to /\ v.to = x.from
        /\ v.port_id = x.port_id /\ v.transfer_id = x.transfer_id
    BY <1>3 DEF Answers
  <2> QED BY <1>5, <2>1, <2>2, <2>3, AlikeIs
<1>9. r \in sent /\ r.to \in {None, IdOf(m)}
  BY GivenWasSent
<1>10. r = u
  BY <1>4, <1>8, <1>9 DEF SentDistinct
<1>11. u.to # None /\ u.to \in {None, IdOf(n)}
  <2>1. u.kind = "Request"
    BY <1>1 DEF Notes
  <2>2. Proper(u)
    BY <1>4 DEF SentProper
  <2> QED BY <1>2, <2>1, <2>2 DEF Proper, GivenAs
<1>12. m = n
  BY <1>9, <1>10, <1>11, NetworkAssumption DEF IdOf, Peers
<1>13. ReadBefore(n, k)
  BY <1>4, <1>7, <1>10, <1>12 DEF ReadBefore
<1> QED BY <1>4, <1>13 DEF HeldUnread

(* Where what waits after a step was before it. *)
Shift(n, q) == IF Begins(n, q) THEN 1 ELSE 0

Stood(n, q, i) ==
    /\ i \in Nat /\ i + Shift(n, q) \in DOMAIN Waiting(n, q)
    /\ Due(n, q, i)' = Due(n, q, i + Shift(n, q))

Joins(n, q, i) ==
    /\ q = "answers" /\ n \in Peers /\ Reads(n) /\ i = Len(Waiting(n, q)) + 1
    /\ \E k : /\ Notes(n, k)
              /\ Due(n, q, i)' = AsSeen(IdOf(n), AnswerUnder(n, k))

LEMMA QueueOrigin ==
    ASSUME QueuesTyped, SentProper, RxOk, HeldOk, NetStep,
           NEW n \in Nodes, NEW q \in Queues, NEW i \in DOMAIN Waiting(n, q)'
    PROVE  Stood(n, q, i) \/ Joins(n, q, i)
<1>1. PICK box, new : box = Waiting(n, q) /\ new = Waiting(n, q)'
  OBVIOUS
<1>2. box \in Seq(Awaited(n, q)) /\ i \in DOMAIN new
  BY <1>1 DEF QueuesTyped
<1>3. ASSUME NEW j, j = i + Shift(n, q), i \in Nat, j \in DOMAIN box, new[i] = box[j]
      PROVE  Stood(n, q, i)
  <2>1. Due(n, q, i)' = AsSeen(IdOf(n), new[i])
    BY <1>1 DEF Due, IdOf
  <2>2. Due(n, q, j) = AsSeen(IdOf(n), box[j])
    BY <1>1 DEF Due
  <2> QED BY <1>1, <1>3, <2>1, <2>2 DEF Stood
<1>4. CASE Begins(n, q)
  <2>1. box # << >> /\ new = Tail(box)
    BY <1>1, <1>4 DEF Begins
  <2>2. i + 1 \in DOMAIN box /\ new[i] = box[i + 1]
    BY <1>2, <2>1, TailIs
  <2>3. i \in Nat
    BY <1>2, <2>1
  <2> QED BY <1>3, <1>4, <2>2, <2>3 DEF Shift
<1>5. CASE ~ Begins(n, q) /\ new = box
  <2>1. i \in Nat
    BY <1>2, <1>5
  <2>2. i + Shift(n, q) = i
    BY <1>5, <2>1 DEF Shift
  <2> QED BY <1>2, <1>3, <1>5, <2>1, <2>2
<1>6. ASSUME ~ Begins(n, q), q = "answers", n \in Peers, NEW k, Notes(n, k)
      PROVE  Stood(n, q, i) \/ Joins(n, q, i)
  <2>1. PICK t : t = AnswerUnder(n, k)
    OBVIOUS
  <2>2. t \in Awaited(n, q)
    BY <1>6, <2>1, AnswerIs DEF Notes, Awaited, Peers
  <2>3. new = Append(box, t)
    BY <1>1, <1>6, <2>1 DEF Notes
  <2>4. /\ i \in Nat
        /\ (i \in DOMAIN box /\ new[i] = box[i]) \/ (i = Len(box) + 1 /\ new[i] = t)
    BY <1>2, <2>2, <2>3, AppendIs
  <2>5. CASE i \in DOMAIN box /\ new[i] = box[i]
    <3>1. i + Shift(n, q) = i
      BY <1>6, <2>4 DEF Shift
    <3> QED BY <1>3, <2>4, <2>5, <3>1
  <2>6. CASE i = Len(box) + 1 /\ new[i] = t
    <3>1. Due(n, q, i)' = AsSeen(IdOf(n), t)
      BY <1>1, <2>6 DEF Due, IdOf
    <3> QED BY <1>1, <1>6, <2>1, <2>6, <3>1 DEF Joins, Notes
  <2> QED BY <2>4, <2>5, <2>6
<1> QED BY <1>1, <1>4, <1>5, <1>6, QueueChanges

LEMMA OldAndNew ==
    ASSUME QueuesTyped, SentProper, SentDistinct, GivenOk, HeldUnread, AllJustified,
           NEW n \in Nodes, NEW q \in Queues, NEW i, Joins(n, q, i)
    PROVE  /\ \A m \in Nodes, r \in Queues : \A j \in DOMAIN Waiting(m, r) :
                 ~ Alike(Due(n, q, i)', Due(m, r, j))
           /\ \A u \in sent : ~ Alike(Due(n, q, i)', u)
<1>1. PICK k : Notes(n, k) /\ Due(n, q, i)' = AsSeen(IdOf(n), AnswerUnder(n, k))
  BY DEF Joins
<1>2. PICK x, v : x = AsSeen(IdOf(n), AnswerUnder(n, k)) /\ GivenAs(n, k, ReadUnder(n, k), v)
  BY <1>1 DEF Notes
<1>3. n \in Peers
  BY DEF Joins
<1>4. x.kind = "Response"
  <2>1. AnswerUnder(n, k).tx_kind.type = "Response"
    BY DEF AnswerUnder, ReplyFrom
  <2>2. SeenMetadata(IdOf(n), AnswerUnder(n, k)).transfer_kind = "Response"
    BY <2>1, SeenFields
  <2> QED BY <1>2, <2>2 DEF AsSeen, SeenAs
<1>5. ASSUME NEW y, y.kind = "Response" => Justified(y) PROVE ~ Alike(x, y)
  <2>1. CASE y.kind = "Response"
    BY <1>1, <1>2, <1>3, <1>5, <2>1, FreshAnswer
  <2>2. CASE y.kind # "Response"
    BY <1>4, <2>2, AlikeIs
  <2> QED BY <2>1, <2>2
<1>6. ASSUME NEW m \in Nodes, NEW r \in Queues, NEW j \in DOMAIN Waiting(m, r)
      PROVE  ~ Alike(x, Due(m, r, j))
  <2>1. Due(m, r, j).kind = "Response" => r = "answers" /\ m \in Peers
    BY DueIs
  <2>2. Due(m, r, j).kind = "Response" => Justified(Due(m, r, j))
    BY <2>1 DEF AllJustified
  <2> QED BY <1>5, <2>2
<1>7. \A u \in sent : ~ Alike(x, u)
  BY <1>5 DEF AllJustified
<1> QED BY <1>1, <1>2, <1>6, <1>7

LEMMA JoinsOnce ==
    ASSUME NEW n \in Nodes, NEW m \in Nodes, NEW q \in Queues, NEW r \in Queues,
           NEW i, NEW j, Joins(n, q, i), Joins(m, r, j), QueuesTyped,
           j \in DOMAIN Waiting(m, r)'
    PROVE  n = m /\ q = r /\ i = j
<1>1. q = "answers" /\ r = "answers" /\ Reads(n) /\ j = Len(Waiting(m, r)) + 1
  BY DEF Joins
<1>2. CASE m # n
  <2>1. Waiting(m, r)' = Waiting(m, r)
    BY <1>1, <1>2 DEF Reads
  <2>2. PICK box : box = Waiting(m, r) /\ box \in Seq(Awaited(m, r))
    BY DEF QueuesTyped
  <2>3. Len(box) + 1 \notin DOMAIN box
    BY <2>2
  <2> QED BY <1>1, <2>1, <2>2, <2>3
<1>3. CASE m = n
  BY <1>1, <1>3 DEF Joins
<1> QED BY <1>2, <1>3

LEMMA DueStaysDistinct ==
    ASSUME QueuesTyped, SentProper, RxOk, HeldOk, SentDistinct, GivenOk, HeldUnread,
           AllJustified, DueDistinct, NetStep
    PROVE  DueDistinct'
<1> SUFFICES ASSUME NEW n \in Nodes, NEW m \in Nodes, NEW q \in Queues, NEW r \in Queues,
                    NEW i \in DOMAIN Waiting(n, q)', NEW j \in DOMAIN Waiting(m, r)',
                    NEW x, NEW y, x = Due(n, q, i)', y = Due(m, r, j)', Alike(x, y)
             PROVE  n = m /\ q = r /\ i = j
  <2>1. \A n, m \in Nodes, q, r \in Queues :
            \A i \in DOMAIN Waiting(n, q)', j \in DOMAIN Waiting(m, r)' :
                Alike(Due(n, q, i)', Due(m, r, j)') => n = m /\ q = r /\ i = j
    OBVIOUS
  <2> QED BY <2>1 DEF DueDistinct, Alike, MetadataSeen
<1>1. Alike(y, x)
  BY DEF Alike
<1>2. CASE Stood(n, q, i) /\ Stood(m, r, j)
  <2>1. PICK s, t : s = Shift(n, q) /\ t = Shift(m, r)
    OBVIOUS
  <2>2. /\ i \in Nat /\ j \in Nat
        /\ i + s \in DOMAIN Waiting(n, q) /\ j + t \in DOMAIN Waiting(m, r)
        /\ x = Due(n, q, i + s) /\ y = Due(m, r, j + t)
    BY <1>2, <2>1 DEF Stood
  <2>3. n = m /\ q = r /\ i + s = j + t
    BY <2>2 DEF DueDistinct
  <2>4. s = t /\ s \in Nat
    BY <2>1, <2>3 DEF Shift
  <2> QED BY <2>2, <2>3, <2>4
<1>3. CASE Joins(n, q, i) /\ Stood(m, r, j)
  <2>1. PICK t : t = j + Shift(m, r)
    OBVIOUS
  <2>2. t \in DOMAIN Waiting(m, r) /\ y = Due(m, r, t)
    BY <1>3, <2>1 DEF Stood
  <2> QED BY <1>3, <2>2, OldAndNew
<1>4. CASE Stood(n, q, i) /\ Joins(m, r, j)
  <2>1. PICK t : t = i + Shift(n, q)
    OBVIOUS
  <2>2. t \in DOMAIN Waiting(n, q) /\ x = Due(n, q, t)
    BY <1>4, <2>1 DEF Stood
  <2> QED BY <1>1, <1>4, <2>2, OldAndNew
<1>5. CASE Joins(n, q, i) /\ Joins(m, r, j)
  BY <1>5, JoinsOnce
<1> QED BY <1>2, <1>3, <1>4, <1>5, QueueOrigin

(* What is sent has been waiting. *)
LEMMA SentIsDue ==
    ASSUME QueuesTyped, now \in Nat, NetStep, NEW u \in sent'
    PROVE  \/ u \in sent
           \/ \E n \in Nodes, q \in Queues :
                 /\ Begins(n, q) /\ 1 \in DOMAIN Waiting(n, q) /\ u = Due(n, q, 1)
                 /\ sent' = sent \cup {u}
<1>1. ASSUME NEW n \in Nodes, NEW q \in Queues, Begins(n, q), u \notin sent
      PROVE  /\ 1 \in DOMAIN Waiting(n, q) /\ u = Due(n, q, 1)
             /\ sent' = sent \cup {u}
  <2>1. PICK t, v : /\ Waiting(n, q) # << >> /\ t = Head(Waiting(n, q))
                    /\ v = AsSeen(IdOf(n), t) /\ sent' = sent \cup {v}
    BY <1>1, BeginsIs
  <2>2. u = v
    BY <1>1, <2>1
  <2>3. Waiting(n, q) \in Seq(Awaited(n, q))
    BY DEF QueuesTyped
  <2>4. 1 \in DOMAIN Waiting(n, q) /\ t = Waiting(n, q)[1]
    BY <2>1, <2>3, TailIs
  <2> QED BY <2>1, <2>2, <2>4 DEF Due
<1> QED BY <1>1, SentGrows

LEMMA DueStaysUnsent ==
    ASSUME QueuesTyped, now \in Nat, SentProper, RxOk, HeldOk, SentDistinct, GivenOk,
           HeldUnread, AllJustified, DueDistinct, DueNotSent, NetStep
    PROVE  DueNotSent'
<1> SUFFICES ASSUME NEW n \in Nodes, NEW q \in Queues, NEW i \in DOMAIN Waiting(n, q)',
                    NEW u \in sent', Alike(Due(n, q, i), u)'
             PROVE  FALSE
  BY DEF DueNotSent
<1>0. PICK x : x = Due(n, q, i)' /\ Alike(x, u)
  BY DEF Alike, MetadataSeen
<1>1. CASE Stood(n, q, i)
  <2>1. PICK j : j = i + Shift(n, q)
    OBVIOUS
  <2>2. j \in DOMAIN Waiting(n, q) /\ x = Due(n, q, j)
    BY <1>0, <1>1, <2>1 DEF Stood
  <2>3. PICK m \in Nodes, r \in Queues : /\ Begins(m, r) /\ 1 \in DOMAIN Waiting(m, r)
                                         /\ u = Due(m, r, 1)
    BY <1>0, <2>2, SentIsDue DEF DueNotSent
  <2>4. n = m /\ q = r /\ j = 1
    BY <1>0, <2>2, <2>3 DEF DueDistinct
  <2>5. j = i + 1 /\ i \in Nat /\ i # 0
    <3>1. j = i + 1 /\ i \in Nat
      BY <1>1, <2>1, <2>3, <2>4 DEF Shift, Stood
    <3>2. Waiting(n, q)' \in Seq(Awaited(n, q))
      BY QueuesStayTyped DEF QueuesTyped, Awaited
    <3> QED BY <3>1, <3>2
  <2> QED BY <2>4, <2>5
<1>2. CASE Joins(n, q, i)
  <2>1. sent' = sent
    BY <1>2 DEF Joins, Notes
  <2> QED BY <1>0, <1>2, <2>1, OldAndNew
<1> QED BY <1>1, <1>2, QueueOrigin

LEMMA SentStaysDistinct ==
    ASSUME QueuesTyped, now \in Nat, SentDistinct, DueNotSent, NetStep
    PROVE  SentDistinct'
<1> SUFFICES ASSUME NEW u \in sent', NEW v \in sent', Alike(u, v) PROVE u = v
  BY DEF SentDistinct, Alike, MetadataSeen
<1>0. Alike(v, u)
  BY DEF Alike
<1>1. CASE u \in sent /\ v \in sent
  BY <1>1 DEF SentDistinct
<1>2. CASE u \notin sent
  <2>1. sent' = sent \cup {u} /\ (v \in sent => ~ Alike(u, v))
    BY <1>2, SentIsDue DEF DueNotSent
  <2> QED BY <2>1
<1>3. CASE v \notin sent
  <2>1. sent' = sent \cup {v} /\ (u \in sent => ~ Alike(v, u))
    BY <1>3, SentIsDue DEF DueNotSent
  <2> QED BY <1>0, <2>1
<1> QED BY <1>1, <1>2, <1>3

(* What has been read: nothing new, or what node n has under k.            *)
LEMMA ReadNext ==
    ASSUME DOMAIN received = Peers, NEW n \in Peers, NEW k, Gives(n, k), NEW m \in Peers
    PROVE  BagToSet(received'[m]) = IF m = n THEN BagToSet(received[m]) \cup {ReadUnder(n, k)}
                                    ELSE BagToSet(received[m])
<1>1. received' = [received EXCEPT ![n] = BagAdd(@, ReadUnder(n, k))]
  BY DEF Gives
<1>2. CASE m = n
  <2>1. received'[m] = BagAdd(received[m], ReadUnder(n, k))
    BY <1>1, <1>2
  <2> QED BY <1>2, <2>1, BagAddIs
<1>3. CASE m # n
  <2>1. received'[m] = received[m]
    BY <1>1, <1>3
  <2> QED BY <1>3, <2>1
<1> QED BY <1>2, <1>3

LEMMA ReceivedGrows ==
    ASSUME SentProper, RxOk, HeldOk, GivenOk, NetStep, NEW m \in Peers
    PROVE  BagToSet(received[m]) \subseteq BagToSet(received'[m])
<1>1. DOMAIN received = Peers
  BY DEF GivenOk
<1>2. ASSUME NEW n \in Peers, NEW k, Gives(n, k)
      PROVE  BagToSet(received[m]) \subseteq BagToSet(received'[m])
  BY <1>1, <1>2, ReadNext
<1> QED BY <1>2, ReceivedChanges

LEMMA JustifiedStay ==
    ASSUME QueuesTyped, now \in Nat, SentProper, RxOk, HeldOk, SentDistinct, GivenOk,
           AllJustified, NetStep
    PROVE  AllJustified'
<1>1. ASSUME NEW u, Justified(u) PROVE Justified(u)'
  <2>1. PICK m \in Peers : \E r \in BagToSet(received[m]) : Answers(u, r)
    BY <1>1 DEF Justified
  <2>2. PICK r \in BagToSet(received'[m]) : Answers(u, r)
    BY <2>1, ReceivedGrows
  <2>3. Answers(u, r)'
    BY <2>2 DEF Answers, A!ContentOf
  <2> QED BY <2>1, <2>2, <2>3 DEF Justified
<1>2. ASSUME NEW n \in Peers, NEW i \in DOMAIN Waiting(n, "answers")'
      PROVE  Justified(Due(n, "answers", i))'
  <2>1. n \in Nodes /\ "answers" \in Queues
    BY DEF Nodes, Peers, Queues
  <2>2. PICK x : x = Due(n, "answers", i)'
    OBVIOUS
  <2>3. CASE Stood(n, "answers", i)
    <3>1. PICK j : j = i + Shift(n, "answers")
      OBVIOUS
    <3>2. j \in DOMAIN Waiting(n, "answers") /\ x = Due(n, "answers", j)
      BY <2>2, <2>3, <3>1 DEF Stood
    <3>3. Justified(x)
      BY <3>2 DEF AllJustified
    <3>4. Justified(x)'
      BY <1>1, <3>3
    <3> QED BY <2>2, <3>4 DEF Justified
  <2>4. CASE Joins(n, "answers", i)
    <3>1. PICK k : Notes(n, k) /\ x = AsSeen(IdOf(n), AnswerUnder(n, k))
      BY <2>2, <2>4 DEF Joins
    <3>2. PICK u, v : u = ReadUnder(n, k) /\ GivenAs(n, k, u, v)
      BY <3>1 DEF Notes
    <3>3. Answers(x, v)
      BY <3>1, <3>2, AnswerIs DEF Notes
    <3>4. u = v
      BY <3>2, AllUnmixed DEF GivenAs, SentDistinct, Alike
    <3>5. /\ received' = [received EXCEPT ![n] = BagAdd(@, u)]
          /\ n \in DOMAIN received
      BY <3>1, <3>2 DEF Notes, GivenOk
    <3>6. received'[n] = BagAdd(received[n], u)
      BY <3>5
    <3>7. v \in BagToSet(received'[n])
      BY <3>4, <3>6, BagAddIs
    <3>8. Answers(x, v)'
      BY <3>3 DEF Answers, A!ContentOf
    <3> QED BY <2>2, <3>7, <3>8 DEF Justified
  <2> QED BY <2>1, <2>3, <2>4, QueueOrigin
<1>3. ASSUME NEW u \in sent', u.kind = "Response" PROVE Justified(u)'
  <2>1. Justified(u)
    <3>1. CASE u \in sent
      BY <1>3, <3>1 DEF AllJustified
    <3>2. ASSUME NEW n \in Nodes, NEW q \in Queues, 1 \in DOMAIN Waiting(n, q),
                 u = Due(n, q, 1)
          PROVE  Justified(u)
      <4>1. q = "answers" /\ n \in Peers
        BY <1>3, <3>2, DueIs
      <4> QED BY <3>2, <4>1 DEF AllJustified
    <3> QED BY <3>1, <3>2, SentIsDue
  <2> QED BY <1>1, <2>1
<1> QED BY <1>2, <1>3 DEF AllJustified

-----------------------------------------------------------------------------
(* The last frame of a transfer is the last that comes of it.              *)

EntryKey(n, e) == HashMetadata(EntrySeen(n, e))

(* Node n is still to send frames under k, of its entry under l. *)
Carries(n, l, k) ==
    /\ l \in DOMAIN TxMap(n) /\ TxMap(n)[l].status = "Active"
    /\ EntryKey(n, TxMap(n)[l]) = k

EntriesDistinct ==
    \A n, m \in Nodes : \A l, j, k :
        Carries(n, l, k) /\ Carries(m, j, k) => n = m /\ l = j

(* No frame is still to come under k. *)
Over(k) == \A n \in Nodes : \A l : ~ Carries(n, l, k)

(* Under l, node n begins the transfer that is first in its queue. *)
Fresh(n, l, k) ==
    \E q \in Queues :
        /\ Begins(n, q) /\ l = KeyFrom(IdOf(n), Head(Waiting(n, q)))
        /\ 1 \in DOMAIN Waiting(n, q) /\ k = Key(Due(n, q, 1))
        /\ Proper(Due(n, q, 1)) /\ sent' = sent \cup {Due(n, q, 1)}

LEMMA CarryOrigin ==
    ASSUME QueuesTyped, now \in Nat, SentProper, TxOk, NetStep,
           NEW n \in Nodes, NEW l, NEW k, Carries(n, l, k)'
    PROVE  Carries(n, l, k) \/ Fresh(n, l, k)
<1>1. PICK map, new : map = TxMap(n) /\ new = TxMap(n)'
  OBVIOUS
<1>2. l \in DOMAIN new /\ new[l].status = "Active" /\ EntryKey(n, new[l]) = k
  BY <1>1 DEF Carries, EntryKey, EntrySeen, IdOf
<1>3. CASE Continues(n, l)
  <2>1. l \in DOMAIN map /\ map[l].status = "Active"
    BY <1>1, <1>3 DEF Continues
  <2>2. PICK u \in sent : EntryOf(n, u, map[l])
    BY <1>1, <2>1 DEF TxOk
  <2>3. EntryOf(n, u, new[l])
    BY <1>1, <1>3, <2>2 DEF Continues
  <2>4. EntryKey(n, map[l]) = k
    BY <1>2, <2>2, <2>3 DEF EntryKey, EntryOf
  <2> QED BY <1>1, <2>1, <2>4 DEF Carries
<1>4. CASE BeginsEntry(n, l)
  <2>1. PICK q, u : /\ q \in Queues /\ Begins(n, q)
                    /\ u = AsSeen(IdOf(n), Head(Waiting(n, q)))
                    /\ Proper(u) /\ sent' = sent \cup {u} /\ EntryOf(n, u, new[l])
    BY <1>1, <1>4 DEF BeginsEntry
  <2>2. PICK l0, e0 : /\ l0 = KeyFrom(IdOf(n), Head(Waiting(n, q))) /\ l0 \notin DOMAIN map
                      /\ new = Insert(map, l0, e0)
    BY <1>1, <2>1 DEF Begins
  <2>3. CASE l \in DOMAIN map
    <3>1. new[l] = map[l]
      BY <2>2, <2>3 DEF Insert
    <3> QED BY <1>1, <1>2, <2>3, <3>1 DEF Carries
  <2>4. CASE l \notin DOMAIN map
    <3>1. l = l0
      BY <1>2, <2>2, <2>4 DEF Insert
    <3>2. Waiting(n, q) \in Seq(Awaited(n, q)) /\ Waiting(n, q) # << >>
      BY <2>1 DEF QueuesTyped, Begins
    <3>3. 1 \in DOMAIN Waiting(n, q) /\ u = Due(n, q, 1)
      BY <2>1, <3>2, TailIs DEF Due
    <3>4. EntryKey(n, new[l]) = Key(u)
      BY <2>1 DEF EntryKey, EntryOf, Key
    <3> QED BY <1>2, <2>1, <2>2, <3>1, <3>3, <3>4 DEF Fresh
  <2> QED BY <2>3, <2>4
<1> QED BY <1>1, <1>2, <1>3, <1>4, TxOrigin

LEMMA EntriesStayDistinct ==
    ASSUME QueuesTyped, now \in Nat, SentProper, TxOk, DueDistinct, DueNotSent,
           EntriesDistinct, NetStep
    PROVE  EntriesDistinct'
<1> SUFFICES ASSUME NEW n \in Nodes, NEW m \in Nodes, NEW l, NEW j, NEW k,
                    Carries(n, l, k)', Carries(m, j, k)'
             PROVE  n = m /\ l = j
  BY DEF EntriesDistinct
<1>1. ASSUME NEW x \in Nodes, NEW i, NEW y \in Nodes, NEW z, Carries(x, i, k), Fresh(y, z, k)
      PROVE  FALSE
  <2>1. PICK q \in Queues : /\ 1 \in DOMAIN Waiting(y, q) /\ k = Key(Due(y, q, 1))
                            /\ Proper(Due(y, q, 1))
    BY <1>1 DEF Fresh
  <2>2. PICK u \in sent : EntryOf(x, u, TxMap(x)[i])
    BY <1>1 DEF TxOk, Carries
  <2>3. Key(u) = k
    BY <1>1, <2>2 DEF Carries, EntryKey, EntryOf, Key
  <2>4. Alike(Due(y, q, 1), u)
    BY <2>1, <2>3, KeyTells DEF Alike, SentProper
  <2> QED BY <2>1, <2>4 DEF DueNotSent
<1>2. ASSUME Fresh(n, l, k), Fresh(m, j, k) PROVE n = m /\ l = j
  <2>1. PICK q \in Queues : /\ l = KeyFrom(IdOf(n), Head(Waiting(n, q)))
                            /\ 1 \in DOMAIN Waiting(n, q) /\ k = Key(Due(n, q, 1))
                            /\ Proper(Due(n, q, 1))
    BY <1>2 DEF Fresh
  <2>2. PICK r \in Queues : /\ j = KeyFrom(IdOf(m), Head(Waiting(m, r)))
                            /\ 1 \in DOMAIN Waiting(m, r) /\ k = Key(Due(m, r, 1))
                            /\ Proper(Due(m, r, 1))
    BY <1>2 DEF Fresh
  <2>3. Alike(Due(n, q, 1), Due(m, r, 1))
    BY <2>1, <2>2, KeyTells DEF Alike
  <2>4. n = m /\ q = r
    BY <2>1, <2>2, <2>3 DEF DueDistinct
  <2> QED BY <2>1, <2>2, <2>4
<1>3. Carries(n, l, k) /\ Carries(m, j, k) => n = m /\ l = j
  BY DEF EntriesDistinct
<1> QED BY <1>1, <1>2, <1>3, CarryOrigin

(* Once a transfer that was sent has no entry left, none comes.            *)
LEMMA OverStays ==
    ASSUME QueuesTyped, now \in Nat, SentProper, TxOk, DueNotSent, NetStep,
           NEW u \in sent, NEW k, Key(u) = k, Over(k)
    PROVE  Over(k)'
<1>1. ASSUME NEW n \in Nodes, NEW l, Carries(n, l, k)' PROVE FALSE
  <2>1. Fresh(n, l, k)
    BY <1>1, CarryOrigin DEF Over
  <2>2. PICK q \in Queues : /\ 1 \in DOMAIN Waiting(n, q) /\ k = Key(Due(n, q, 1))
                            /\ Proper(Due(n, q, 1))
    BY <2>1 DEF Fresh
  <2>3. Alike(Due(n, q, 1), u)
    BY <2>2, KeyTells DEF Alike, SentProper
  <2> QED BY <2>2, <2>3 DEF DueNotSent
<1> QED BY <1>1 DEF Over

(* The frame that is sent is not of a transfer that is over; and if it is  *)
(* an end, its transfer is over then.                                      *)
LEMMA SentEnds ==
    ASSUME QueuesTyped, now \in Nat, SentProper, TxOk, DueDistinct, DueNotSent,
           EntriesDistinct, NetStep,
           NEW n \in Peers, NEW f, Arrives(n, f), NEW k, k = KeyOf(f)
    PROVE  ~ Over(k) /\ (f.tail.end => Over(k)')
<1>1. PICK m \in Nodes : \E l : /\ Sends(m) /\ Cuts(IdOf(m), TxMap(m), TxMap(m)', l, f)
                                /\ l \in DOMAIN TxMap(m) /\ TxMap(m)[l].status = "Active"
                                /\ \E u \in sent : EntryOf(m, u, TxMap(m)[l]) /\ FrameOf(u, f)
  BY DEF Arrives
<1>2. PICK l, u : /\ Sends(m) /\ Cuts(IdOf(m), TxMap(m), TxMap(m)', l, f)
                  /\ l \in DOMAIN TxMap(m) /\ TxMap(m)[l].status = "Active"
                  /\ u \in sent /\ EntryOf(m, u, TxMap(m)[l]) /\ FrameOf(u, f)
  BY <1>1
<1>3. Carries(m, l, k)
  <2>1. EntryKey(m, TxMap(m)[l]) = k
    BY <1>2 DEF EntryKey, EntryOf, FrameOf, KeyOf
  <2> QED BY <1>2, <2>1 DEF Carries
<1>4. f.tail.end => l \notin DOMAIN TxMap(m)'
  <2>1. Proper(u)
    BY <1>2 DEF SentProper
  <2> QED BY <1>2, <2>1, FrameMade
<1>5. ASSUME f.tail.end, NEW x \in Nodes, NEW j, Carries(x, j, k)' PROVE FALSE
  <2>1. Carries(x, j, k)
    <3>1. \A q \in Queues : ~ Begins(x, q)
      <4>1. SUFFICES ASSUME NEW q \in Queues, Begins(x, q) PROVE FALSE
        OBVIOUS
      <4>2. /\ Waiting(x, q)' = Waiting(x, q) /\ Waiting(x, q) # << >>
            /\ Waiting(x, q)' = Tail(Waiting(x, q))
        BY <1>2, <4>1 DEF Sends, SameQueues, Begins
      <4>3. Waiting(x, q) \in Seq(Awaited(x, q))
        BY DEF QueuesTyped
      <4> QED BY <4>2, <4>3
    <3> QED BY <1>5, <3>1, CarryOrigin DEF Fresh
  <2>2. x = m /\ j = l
    BY <1>3, <2>1 DEF EntriesDistinct
  <2> QED BY <1>4, <1>5, <2>2 DEF Carries
<1> QED BY <1>3, <1>5 DEF Over

(* Behind the last frame of a transfer come only repetitions of it.        *)
EndsLastIn(box) ==
    \A i \in DOMAIN box : box[i].tail.end =>
        /\ Over(KeyOf(box[i]))
        /\ \A j \in DOMAIN box :
              j > i /\ KeyOf(box[j]) = KeyOf(box[i])
                 => box[j].tail.toggle = box[i].tail.toggle

EndsAreLast == \A n \in Peers : EndsLastIn(Inbox(n))

LEMMA EndsStayLast ==
    ASSUME QueuesTyped, now \in Nat, SentProper, TxOk, InboxOk, DueDistinct, DueNotSent,
           EntriesDistinct, EndsAreLast, NetStep
    PROVE  EndsAreLast'
<1> SUFFICES ASSUME NEW n \in Peers PROVE EndsLastIn(Inbox(n))'
  BY DEF EndsAreLast
<1> DEFINE same(w, i, j) ==
              KeyOf(w[j]) = KeyOf(w[i]) => w[j].tail.toggle = w[i].tail.toggle
<1>1. PICK box, new : box = Inbox(n) /\ new = Inbox(n)'
  OBVIOUS
<1>2. /\ box \in Seq(CanFrame) /\ EndsLastIn(box)
      /\ \A i \in DOMAIN box : \E u \in sent : FrameOf(u, box[i])
  BY <1>1 DEF InboxOk, EndsAreLast
<1>3. ASSUME NEW i \in DOMAIN box, box[i].tail.end, NEW k, k = KeyOf(box[i])
      PROVE  Over(k)'
  <2>1. PICK u \in sent : FrameOf(u, box[i])
    BY <1>2
  <2>2. Over(k) /\ Key(u) = k
    BY <1>2, <1>3, <2>1 DEF EndsLastIn, FrameOf, KeyOf, Key
  <2> QED BY <2>2, OverStays
<1>4. SUFFICES \A i \in DOMAIN new : new[i].tail.end =>
                  /\ \A k : k = KeyOf(new[i]) => Over(k)'
                  /\ \A j \in DOMAIN new : j > i => same(new, i, j)
  <2>1. \A i \in DOMAIN new : new[i].tail.end => Over(KeyOf(new[i]))'
    BY <1>4
  <2> QED BY <1>1, <1>4, <2>1 DEF EndsLastIn, Over
<1>5. CASE new = box
  BY <1>2, <1>3, <1>5 DEF EndsLastIn
<1>6. CASE Leaves(n)
  <2>1. box # << >> /\ new = Tail(box)
    BY <1>1, <1>6 DEF Leaves
  <2>2. \A i \in DOMAIN new : i + 1 \in DOMAIN box /\ new[i] = box[i + 1] /\ i \in Nat
    BY <1>2, <2>1, TailIs
  <2>3. ASSUME NEW i \in DOMAIN new, new[i].tail.end
        PROVE  \A k : k = KeyOf(new[i]) => Over(k)'
    BY <1>3, <2>2, <2>3
  <2>4. ASSUME NEW i \in DOMAIN new, NEW j \in DOMAIN new, j > i, new[i].tail.end
        PROVE  same(new, i, j)
    <3>1. j + 1 > i + 1
      BY <2>2, <2>4
    <3> QED BY <1>2, <2>2, <2>4, <3>1 DEF EndsLastIn
  <2> QED BY <2>3, <2>4
<1>7. CASE Doubles(n)
  <2>1. /\ 1 \in DOMAIN box
        /\ \A i \in DOMAIN new :
              /\ i \in Nat /\ i >= 1
              /\ i = 1 => new[i] = box[1]
              /\ i > 1 => i - 1 \in DOMAIN box /\ new[i] = box[i - 1]
    BY <1>1, <1>2, <1>7, RepeatIs, TailIs DEF Doubles
  <2>2. ASSUME NEW i \in DOMAIN new, new[i].tail.end
        PROVE  \A k : k = KeyOf(new[i]) => Over(k)'
    BY <1>3, <2>1, <2>2
  <2>3. ASSUME NEW i \in DOMAIN new, NEW j \in DOMAIN new, j > i, new[i].tail.end
        PROVE  same(new, i, j)
    <3>1. j > 1 /\ j - 1 \in DOMAIN box /\ new[j] = box[j - 1]
      BY <2>1, <2>3
    <3>2. CASE i = 1
      <4>1. new[i] = box[1] /\ (j - 1 = 1 \/ j - 1 > 1)
        BY <2>1, <2>3, <3>2
      <4> QED BY <1>2, <2>1, <2>3, <3>1, <4>1 DEF EndsLastIn
    <3>3. CASE i > 1
      <4>1. i - 1 \in DOMAIN box /\ new[i] = box[i - 1] /\ j - 1 > i - 1
        BY <2>1, <2>3, <3>3
      <4> QED BY <1>2, <2>3, <3>1, <4>1 DEF EndsLastIn
    <3> QED BY <2>1, <3>2, <3>3
  <2> QED BY <2>2, <2>3
<1>8. ASSUME NEW f, Arrives(n, f)
      PROVE  \A i \in DOMAIN new : new[i].tail.end =>
                  /\ \A k : k = KeyOf(new[i]) => Over(k)'
                  /\ \A j \in DOMAIN new : j > i => same(new, i, j)
  <2>1. PICK l : l = KeyOf(f)
    OBVIOUS
  <2>2. ~ Over(l) /\ (f.tail.end => Over(l)')
    BY <1>8, <2>1, SentEnds
  <2>3. f \in CanFrame /\ new = Append(box, f)
    BY <1>1, <1>8 DEF Arrives, FrameOf
  <2>4. \A i \in DOMAIN new :
            /\ i \in Nat /\ i <= Len(box) + 1
            /\ (i \in DOMAIN box /\ new[i] = box[i]) \/ (i = Len(box) + 1 /\ new[i] = f)
    BY <1>2, <2>3, AppendIs
  <2>5. Len(box) \in Nat /\ DOMAIN box = 1 .. Len(box)
    BY <1>2
  <2>6. ASSUME NEW i \in DOMAIN new, new[i].tail.end
        PROVE  \A k : k = KeyOf(new[i]) => Over(k)'
    BY <1>3, <2>1, <2>2, <2>4, <2>6
  <2>7. ASSUME NEW i \in DOMAIN new, NEW j \in DOMAIN new, j > i, new[i].tail.end
        PROVE  same(new, i, j)
    <3>1. i \in DOMAIN box /\ new[i] = box[i]
      BY <2>4, <2>5, <2>7
    <3>2. Over(KeyOf(new[i]))
      BY <1>2, <2>7, <3>1 DEF EndsLastIn
    <3>3. CASE j \in DOMAIN box /\ new[j] = box[j]
      BY <1>2, <2>7, <3>1, <3>3 DEF EndsLastIn
    <3>4. CASE new[j] = f
      BY <2>1, <2>2, <3>2, <3>4
    <3> QED BY <2>4, <3>3, <3>4
  <2> QED BY <2>6, <2>7
<1> QED BY <1>1, <1>5, <1>6, <1>7, <1>8, InboxChanges

-----------------------------------------------------------------------------
(* Nothing is given twice.                                                 *)

(* All frames under k have come to node n, or change nothing there.        *)
Settled(n, k) ==
    /\ \E u \in sent : Key(u) = k
    /\ Over(k)
    /\ k \in DOMAIN RxMap(n)
    /\ ActiveIn(RxMap(n), k) =>
          \A i \in DOMAIN Inbox(n) : KeyOf(Inbox(n)[i]) = k =>
              Inbox(n)[i].tail.toggle = RxMap(n)[k].transport_metadata.toggle_bit

GivenOnce ==
    \A n \in Peers :
        /\ \A k \in DOMAIN Tokens(n) : Tokens(n)[k] \in {0, 1}
        /\ \A k : Holds(n, k) \/ ReadBefore(n, k) => Settled(n, k)

(* What waits at a node under k, after a step, has waited there before.    *)
LEMMA StillWaits ==
    ASSUME QueuesTyped, now \in Nat, SentProper, TxOk, InboxOk, DueDistinct, DueNotSent,
           EntriesDistinct, NetStep, NEW n \in Peers, NEW k, Over(k),
           NEW i \in DOMAIN Inbox(n)', KeyOf(Inbox(n)'[i]) = k
    PROVE  \E j \in DOMAIN Inbox(n) : Inbox(n)'[i] = Inbox(n)[j]
<1>1. PICK box, new : box = Inbox(n) /\ new = Inbox(n)'
  OBVIOUS
<1>2. box \in Seq(CanFrame) /\ i \in DOMAIN new
  BY <1>1 DEF InboxOk
<1>3. CASE new = box
  BY <1>1, <1>2, <1>3
<1>4. CASE Leaves(n)
  BY <1>1, <1>2, <1>4, TailIs DEF Leaves
<1>5. CASE Doubles(n)
  <2>1. /\ 1 \in DOMAIN box
        /\ \A j \in DOMAIN new :
              /\ j \in Nat /\ j >= 1
              /\ j = 1 => new[j] = box[1]
              /\ j > 1 => j - 1 \in DOMAIN box /\ new[j] = box[j - 1]
    BY <1>1, <1>2, <1>5, RepeatIs, TailIs DEF Doubles
  <2>2. \E j \in DOMAIN box : new[i] = box[j]
    BY <1>2, <2>1
  <2> QED BY <1>1, <2>2
<1>6. ASSUME NEW f, Arrives(n, f)
      PROVE  \E j \in DOMAIN box : new[i] = box[j]
  <2>1. KeyOf(f) # k
    BY <1>6, SentEnds
  <2>2. f \in CanFrame /\ new = Append(box, f)
    BY <1>1, <1>6 DEF Arrives, FrameOf
  <2>3. (i \in DOMAIN box /\ new[i] = box[i]) \/ new[i] = f
    BY <1>2, <2>2, AppendIs
  <2> QED BY <1>1, <2>1, <2>3
<1> QED BY <1>1, <1>3, <1>4, <1>5, <1>6, InboxChanges

(* A frame of a key that is settled changes nothing that matters.          *)
LEMMA SettledRefuses ==
    ASSUME now \in Nat, SentProper, InboxOk, RxOk,
           NEW n \in Peers, NEW f, NEW k, NEW e, NEW kind, TakenUp(n, f, k, e, kind),
           Settled(n, k)
    PROVE  /\ ActiveIn(RxMap(n), k) /\ kind # "Token"
           /\ e.transport_metadata = RxMap(n)[k].transport_metadata
<1>1. PICK map : map = RxMap(n)
  OBVIOUS
<1>2. Takes(f, now, map, e, kind) /\ k = KeyOf(f) /\ f \in CanFrame
  BY <1>1, TakenIsKnown DEF TakenUp
<1>3. ActiveIn(map, k)
  BY <1>1, <1>2 DEF Takes, Settled
<1>4. PICK old : old = map[k]
  OBVIOUS
<1>5. old \in RxEntry
  BY <1>1, <1>3, <1>4 DEF RxOk, ActiveIn, Known
<1>6. f.tail.toggle = old.transport_metadata.toggle_bit
  <2>1. Inbox(n) # << >> /\ f = Head(Inbox(n)) /\ Inbox(n) \in Seq(CanFrame)
    BY DEF TakenUp, Receives, InboxOk
  <2>2. 1 \in DOMAIN Inbox(n) /\ f = Inbox(n)[1]
    BY <2>1, TailIs
  <2> QED BY <1>1, <1>2, <1>3, <1>4, <2>2 DEF Settled
<1>7. ActiveIn(map, KeyOf(f)) /\ map[KeyOf(f)] = old
  BY <1>2, <1>3, <1>4
<1>8. e.transport_metadata = old.transport_metadata /\ kind # "Token"
  BY <1>2, <1>5, <1>6, <1>7, ToggleRefuses
<1> QED BY <1>1, <1>3, <1>4, <1>8

LEMMA SettledStays ==
    ASSUME QueuesTyped, now \in Nat, SentProper, TxOk, InboxOk, RxOk, DueDistinct,
           DueNotSent, EntriesDistinct, NetStep, NEW n \in Peers, NEW k, Settled(n, k)
    PROVE  Settled(n, k)'
<1>1. PICK u \in sent : Key(u) = k
  BY DEF Settled
<1>2. Over(k) /\ Over(k)'
  BY <1>1, OverStays DEF Settled
<1>3. u \in sent' /\ Key(u)' = k
  BY <1>1, SentGrows DEF Key, MetadataSeen
<1>4. PICK map, new : map = RxMap(n) /\ new = RxMap(n)'
  OBVIOUS
<1>5. k \in DOMAIN new
  BY <1>4, RxOrigin DEF Settled
<1>6. ASSUME ActiveIn(new, k), NEW i \in DOMAIN Inbox(n)', KeyOf(Inbox(n)'[i]) = k
      PROVE  Inbox(n)'[i].tail.toggle = new[k].transport_metadata.toggle_bit
  <2>1. PICK j \in DOMAIN Inbox(n) : Inbox(n)'[i] = Inbox(n)[j]
    BY <1>2, <1>6, StillWaits
  <2>2. /\ ActiveIn(map, k)
        /\ new[k].transport_metadata = map[k].transport_metadata
    <3>1. CASE k \in DOMAIN map /\ new[k] = map[k]
      BY <1>6, <3>1 DEF ActiveIn
    <3>2. ASSUME NEW f, NEW kind, TakenUp(n, f, k, new[k], kind)
          PROVE  /\ ActiveIn(map, k)
                 /\ new[k].transport_metadata = map[k].transport_metadata
      BY <1>4, <3>2, SettledRefuses
    <3> QED BY <1>4, <1>6, <3>1, <3>2, RxOrigin DEF ActiveIn
  <2> QED BY <1>4, <1>6, <2>1, <2>2 DEF Settled
<1>7. Settled(n, k)' <=>
         /\ \E v \in sent' : Key(v)' = k
         /\ Over(k)' /\ k \in DOMAIN new
         /\ ActiveIn(new, k) =>
               \A i \in DOMAIN Inbox(n)' : KeyOf(Inbox(n)'[i]) = k =>
                   Inbox(n)'[i].tail.toggle = new[k].transport_metadata.toggle_bit
  BY <1>4 DEF Settled, ActiveIn, KeyOf, Key, MetadataSeen
<1> QED BY <1>2, <1>3, <1>5, <1>6, <1>7

(* The frame that gives a token settles its key.                           *)
LEMMA TokenSettles ==
    ASSUME QueuesTyped, now \in Nat, SentProper, TxOk, InboxOk, RxOk, DueNotSent,
           EndsAreLast, NetStep,
           NEW n \in Peers, NEW f, NEW k, NEW e, TakenUp(n, f, k, e, "Token")
    PROVE  Settled(n, k)'
<1>1. PICK map, new, box, rest : /\ map = RxMap(n) /\ new = RxMap(n)'
                                 /\ box = Inbox(n) /\ rest = Inbox(n)'
  OBVIOUS
<1>2. /\ Takes(f, now, map, e, "Token") /\ k = KeyOf(f) /\ f \in CanFrame
      /\ \E u \in sent : Key(u) = k
  BY <1>1, TakenIsKnown DEF TakenUp
<1>3. /\ box \in Seq(CanFrame) /\ box # << >> /\ f = Head(box) /\ rest = Tail(box)
      /\ new = Insert(map, k, e)
  BY <1>1 DEF TakenUp, Receives, InboxOk
<1>4. k \in DOMAIN new /\ new[k] = e
  BY <1>3 DEF Insert
<1>5. f.tail.end /\ e.transport_metadata.toggle_bit = f.tail.toggle
  <2>1. ActiveIn(map, KeyOf(f)) => map[KeyOf(f)] \in RxEntry
    BY <1>1 DEF RxOk, ActiveIn, Known
  <2> QED BY <1>2, <2>1, TokenToggle
<1>6. 1 \in DOMAIN box /\ f = box[1] /\ EndsLastIn(box)
  BY <1>1, <1>3, TailIs DEF EndsAreLast
<1>7. Over(k)'
  <2>1. Over(k)
    BY <1>2, <1>5, <1>6 DEF EndsLastIn
  <2> QED BY <1>2, <2>1, OverStays
<1>8. ASSUME NEW i \in DOMAIN rest, KeyOf(rest[i]) = k
      PROVE  rest[i].tail.toggle = e.transport_metadata.toggle_bit
  <2>1. i + 1 \in DOMAIN box /\ rest[i] = box[i + 1] /\ i \in Nat /\ i >= 1
    BY <1>3, <1>8, TailIs
  <2>2. i + 1 > 1
    BY <2>1
  <2> QED BY <1>2, <1>5, <1>6, <1>8, <2>1, <2>2 DEF EndsLastIn
<1>9. \E u \in sent' : Key(u)' = k
  BY <1>2, SentGrows DEF Key, MetadataSeen
<1>10. Settled(n, k)' <=>
          /\ \E v \in sent' : Key(v)' = k
          /\ Over(k)' /\ k \in DOMAIN new
          /\ ActiveIn(new, k) =>
                \A i \in DOMAIN rest : KeyOf(rest[i]) = k =>
                    rest[i].tail.toggle = new[k].transport_metadata.toggle_bit
  BY <1>1 DEF Settled, ActiveIn, KeyOf, Key, MetadataSeen
<1> QED BY <1>4, <1>7, <1>8, <1>9, <1>10

LEMMA TokensStay ==
    ASSUME NetStep, NEW n \in Peers, \A k \in DOMAIN Tokens(n) : Tokens(n)[k] \in {0, 1},
           NEW k \in DOMAIN Tokens(n)'
    PROVE  Tokens(n)'[k] \in {0, 1}
<1>1. PICK tokens, newer : tokens = Tokens(n) /\ newer = Tokens(n)'
  OBVIOUS
<1>2. CASE Receives(n)
  <2>1. PICK f, l, e, kind : TakenUp(n, f, l, e, kind)
    BY <1>2, ReceivesIs
  <2>2. /\ \A x \in DOMAIN tokens : ~ (tokens[x] > 0)
        /\ newer = IF kind = "Token" THEN [tokens EXCEPT ![l] = @ + 1] ELSE tokens
    BY <1>1, <1>2, <2>1 DEF Receives, TakenUp
  <2>3. \A x \in DOMAIN tokens : tokens[x] = 0
    BY <1>1, <2>2
  <2> QED BY <1>1, <2>2, <2>3
<1>3. CASE ~ Receives(n)
  <2>1. \/ newer = tokens
        \/ \E x \in DOMAIN tokens : tokens[x] > 0 /\ newer = [tokens EXCEPT ![x] = @ - 1]
    BY <1>1, <1>3 DEF NetStep, Begins, Sends, Receives, Reads, Loses, Repeats, Passes, SameRx
  <2> QED BY <1>1, <2>1
<1> QED BY <1>2, <1>3

(* What has been read after a step was before it, or has been held.        *)
LEMMA ReadOrigin ==
    ASSUME SentProper, RxOk, HeldOk, GivenOk, NetStep,
           NEW n \in Peers, NEW k, ReadBefore(n, k)'
    PROVE  ReadBefore(n, k) \/ Gives(n, k)
<1>1. PICK read, now_read : read = BagToSet(received[n]) /\ now_read = BagToSet(received'[n])
  OBVIOUS
<1>2. PICK u \in now_read : Key(u) = k
  <2>1. PICK u \in now_read : Key(u)' = k
    BY <1>1 DEF ReadBefore
  <2>2. Key(u) = k
    BY <2>1 DEF Key, MetadataSeen
  <2> QED BY <2>2
<1>3. DOMAIN received = Peers
  BY DEF GivenOk
<1>4. CASE u \in read
  BY <1>1, <1>2, <1>4 DEF ReadBefore
<1>5. CASE u \notin read
  <2>1. PICK m \in Peers : \E l : Gives(m, l)
    BY <1>1, <1>5, ReceivedChanges
  <2>2. PICK l : Gives(m, l)
    BY <2>1
  <2>3. m = n /\ u = ReadUnder(n, l)
    <3>1. now_read = IF n = m THEN read \cup {ReadUnder(m, l)} ELSE read
      BY <1>1, <1>3, <2>2, ReadNext, Zenon
    <3> QED BY <1>2, <1>5, <3>1
  <2>4. PICK v : GivenAs(n, l, ReadUnder(n, l), v)
    BY <2>2, <2>3 DEF Gives
  <2>5. Key(u) = l
    BY <2>3, <2>4 DEF GivenAs, Key
  <2> QED BY <1>2, <2>2, <2>3, <2>5
<1> QED BY <1>4, <1>5

LEMMA GivenOnceStays ==
    ASSUME QueuesTyped, now \in Nat, SentProper, TxOk, InboxOk, RxOk, HeldOk, GivenOk,
           DueDistinct, DueNotSent, EntriesDistinct, EndsAreLast, GivenOnce, NetStep
    PROVE  GivenOnce'
<1>1. ASSUME NEW n \in Peers, NEW k \in DOMAIN Tokens(n)'
      PROVE  Tokens(n)'[k] \in {0, 1}
  BY <1>1, TokensStay DEF GivenOnce
<1>2. ASSUME NEW n \in Peers, NEW k, Settled(n, k)
      PROVE  Settled(n, k)'
  BY <1>2, SettledStays
<1>3. ASSUME NEW n \in Peers, NEW k, Holds(n, k)'
      PROVE  Settled(n, k)'
  <2>1. CASE KeepsHeld(n, k)
    BY <1>2, <2>1 DEF KeepsHeld, GivenOnce
  <2>2. ASSUME NEW f, NEW e, TakenUp(n, f, k, e, "Token") PROVE Settled(n, k)'
    BY <2>2, TokenSettles
  <2> QED BY <1>3, <2>1, <2>2, TokenOrigin
<1>4. ASSUME NEW n \in Peers, NEW k, ReadBefore(n, k)'
      PROVE  Settled(n, k)'
  <2>1. ReadBefore(n, k) \/ Gives(n, k)
    BY <1>4, ReadOrigin
  <2>2. Gives(n, k) => Holds(n, k)
    BY DEF Gives, GivenAs
  <2>3. Settled(n, k)
    BY <2>1, <2>2 DEF GivenOnce
  <2> QED BY <1>2, <2>3
<1> QED BY <1>1, <1>3, <1>4 DEF GivenOnce

LEMMA HeldStaysUnread ==
    ASSUME now \in Nat, SentProper, InboxOk, RxOk, HeldOk, GivenOk,
           GivenOnce, HeldUnread, NetStep
    PROVE  HeldUnread'
<1> SUFFICES ASSUME NEW n \in Peers, NEW k, Holds(n, k)', ReadBefore(n, k)' PROVE FALSE
  BY DEF HeldUnread
<1>1. ReadBefore(n, k) \/ Gives(n, k)
  BY ReadOrigin
<1>2. CASE KeepsHeld(n, k)
  <2>1. Gives(n, k)
    BY <1>1, <1>2 DEF KeepsHeld, HeldUnread
  <2>2. PICK tokens, newer : tokens = Tokens(n) /\ newer = Tokens(n)'
    OBVIOUS
  <2>3. k \in DOMAIN tokens /\ tokens[k] = 1
    BY <1>2, <2>2 DEF KeepsHeld, Holds, GivenOnce
  <2>4. newer = [tokens EXCEPT ![k] = @ - 1]
    BY <2>1, <2>2 DEF Gives
  <2>5. newer[k] > 0
    BY <2>2 DEF Holds
  <2> QED BY <2>3, <2>4, <2>5
<1>3. ASSUME NEW f, NEW e, TakenUp(n, f, k, e, "Token") PROVE FALSE
  <2>1. ~ Holds(n, k)
    BY <1>3 DEF TakenUp, Receives, Holds
  <2>2. ReadBefore(n, k)
    BY <1>1, <2>1 DEF Gives, GivenAs
  <2> QED BY <1>3, <2>2, SettledRefuses DEF GivenOnce
<1> QED BY <1>2, <1>3, TokenOrigin

-----------------------------------------------------------------------------
(* Every node is given what was sent to it, and once.                      *)

OnceInv ==
    /\ NetInv
    /\ DueDistinct /\ DueNotSent /\ SentDistinct /\ AllJustified
    /\ EntriesDistinct /\ EndsAreLast
    /\ GivenOnce /\ HeldUnread

LEMMA SeenIs == \A n \in Nodes : \A t : SeenFrom(n, t) = AsSeen(IdOf(n), t)
<1>1. \A t : SeenFrom("a", t) = AsSeen(IdA, t)
  BY SeenSameA DEF SeenFrom
<1>2. \A t : SeenFrom("b", t) = AsSeen(IdB, t)
  BY SeenSameB DEF SeenFrom
<1>3. \A t : SeenFrom("c", t) = AsSeen(None, t)
  BY SeenSameC DEF SeenFrom
<1>4. IdOf("a") = IdA /\ IdOf("b") = IdB /\ IdOf("c") = None
  BY DEF IdOf
<1> QED BY <1>1, <1>2, <1>3, <1>4 DEF Nodes

LEMMA OnceInvInit == PlansUseIdsOnce /\ Init => OnceInv
<1> SUFFICES ASSUME PlansUseIdsOnce, Init PROVE OnceInv
  OBVIOUS
<1>1. PICK p \in Plans :
              /\ \A n \in Nodes : Plan(n) = p[n] /\ DOMAIN TxMap(n) = {}
              /\ \A n \in Peers : /\ DOMAIN RxMap(n) = {} /\ Inbox(n) = << >>
                                  /\ \A k \in DOMAIN Tokens(n) : Tokens(n)[k] = 0
              /\ \A n \in Nodes : AnswersOf(n) = << >>
              /\ sent = {} /\ received = [n \in Peers |-> EmptyBag] /\ now = 0
  BY InitIs
<1>2. /\ \A n \in Nodes : Waiting(n, "plan") = p[n] /\ DOMAIN Waiting(n, "answers") = {}
      /\ Peers \subseteq Nodes
  BY <1>1 DEF Waiting, Peers, Nodes
<1>3. DueDistinct
  <2> SUFFICES ASSUME NEW n \in Nodes, NEW m \in Nodes, NEW q \in Queues, NEW r \in Queues,
                      NEW i \in DOMAIN Waiting(n, q), NEW j \in DOMAIN Waiting(m, r),
                      Alike(Due(n, q, i), Due(m, r, j))
               PROVE  n = m /\ q = r /\ i = j
    BY DEF DueDistinct
  <2>1. q = "plan" /\ r = "plan" /\ i \in DOMAIN p[n] /\ j \in DOMAIN p[m]
    BY <1>2 DEF Queues
  <2>2. PICK u, v : u = SeenFrom(n, p[n][i]) /\ v = SeenFrom(m, p[m][j])
    OBVIOUS
  <2>3. u = Due(n, q, i) /\ v = Due(m, r, j)
    BY <1>2, <2>1, <2>2, SeenIs DEF Due
  <2>4. Ids(u) = Ids(v)
    BY <2>3, AlikeIs DEF Ids
  <2> QED BY <2>1, <2>2, <2>4 DEF PlansUseIdsOnce, Nodes
<1>4. DueNotSent /\ SentDistinct /\ AllJustified
  BY <1>1, <1>2 DEF DueNotSent, SentDistinct, AllJustified
<1>5. EntriesDistinct
  BY <1>1 DEF EntriesDistinct, Carries
<1>6. EndsAreLast
  <2>1. \A n \in Peers : DOMAIN Inbox(n) = {}
    BY <1>1, EmptyQueue, Zenon
  <2> QED BY <2>1 DEF EndsAreLast, EndsLastIn
<1>7. \A n \in Peers : \A k : ~ Holds(n, k) /\ ~ ReadBefore(n, k)
  BY <1>1 DEF Holds, ReadBefore, BagToSet, EmptyBag, SetToBag
<1>8. GivenOnce /\ HeldUnread
  BY <1>1, <1>7 DEF GivenOnce, HeldUnread
<1> QED BY <1>3, <1>4, <1>5, <1>6, <1>8, NetInvInit DEF OnceInv

LEMMA OnceInvStays == OnceInv /\ [Next]_network_vars => OnceInv'
<1> SUFFICES ASSUME OnceInv, [Next]_network_vars PROVE OnceInv'
  OBVIOUS
<1>1. NetInv /\ NetInv'
  BY NetInvStays DEF OnceInv
<1>2. NetStep
  BY <1>1, StepIs DEF NetInv
<1>3. DueDistinct' /\ DueNotSent'
  BY <1>1, <1>2, DueStaysDistinct, DueStaysUnsent DEF OnceInv, NetInv
<1>4. SentDistinct' /\ AllJustified'
  BY <1>1, <1>2, SentStaysDistinct, JustifiedStay DEF OnceInv, NetInv
<1>5. EntriesDistinct' /\ EndsAreLast'
  BY <1>1, <1>2, EntriesStayDistinct, EndsStayLast DEF OnceInv, NetInv
<1>6. GivenOnce' /\ HeldUnread'
  BY <1>1, <1>2, GivenOnceStays, HeldStaysUnread DEF OnceInv, NetInv
<1> QED BY <1>1, <1>3, <1>4, <1>5, <1>6 DEF OnceInv

(* A step of the nodes is a step of Delivery, or none.                     *)
LEMMA DeliversInit == Init => TransferDelivery!Init
BY InitIs
   DEF TransferDelivery!Init, Peers, EmptyBag, SetToBag,
       TransferDelivery!EmptyBag, TransferDelivery!SetToBag

LEMMA DeliversStep ==
    OnceInv /\ [Next]_network_vars => [TransferDelivery!Next]_<< sent, received >>
<1> SUFFICES ASSUME OnceInv, [Next]_network_vars
             PROVE  TransferDelivery!Next \/ UNCHANGED << sent, received >>
  OBVIOUS
<1>1. NetInv /\ NetStep
  BY StepIs DEF OnceInv, NetInv
<1>2. CASE received' = received
  <2>1. CASE sent' = sent
    BY <1>2, <2>1
  <2>2. ASSUME NEW n \in Nodes, NEW q \in Queues, Begins(n, q)
        PROVE  TransferDelivery!Next
    <3>1. PICK u : sent' = sent \cup {u}
      BY <2>2 DEF Begins
    <3>2. u \in sent' /\ TransferDelivery!Send(u)
      BY <1>2, <3>1 DEF TransferDelivery!Send
    <3> QED BY <3>2 DEF TransferDelivery!Next
  <2> QED BY <1>1, <2>1, <2>2
          DEF NetStep, Sends, Receives, Reads, Loses, Repeats, Passes, SameHistory
<1>3. ASSUME NEW n \in Peers, NEW k, Gives(n, k)
      PROVE  TransferDelivery!Next
  <2>1. PICK u : u = ReadUnder(n, k)
    OBVIOUS
  <2>2. PICK v : GivenAs(n, k, u, v)
    BY <1>3, <2>1 DEF Gives
  <2>3. u \in sent
    BY <1>1, <2>2, AllUnmixed DEF GivenAs, OnceInv, NetInv
  <2>4. u.to \in ReaderAddresses[n]
    <3>1. ReaderAddresses[n] = {None, IdOf(n)}
      BY DEF ReaderAddresses, Peers, IdOf
    <3> QED BY <2>2, <3>1 DEF GivenAs
  <2>5. ~ BagIn(u, received[n])
    <3>1. Key(u) = k /\ Holds(n, k)
      BY <2>2 DEF GivenAs, Key
    <3>2. u \notin BagToSet(received[n])
      BY <3>1 DEF OnceInv, HeldUnread, ReadBefore
    <3> QED BY <3>2 DEF BagIn
  <2>6. /\ received' = [received EXCEPT ![n] = BagAdd(@, u)]
        /\ sent' = sent
    BY <1>3, <2>1 DEF Gives, Reads
  <2>7. TransferDelivery!Receive(n, u)
    <3>1. TransferDelivery!BagAdd(received[n], u) = BagAdd(received[n], u)
      BY DEF TransferDelivery!BagAdd, BagAdd
    <3>2. ~ TransferDelivery!BagIn(u, received[n])
      BY <2>5 DEF BagIn, BagToSet, TransferDelivery!BagIn, TransferDelivery!BagToSet
    <3> QED BY <2>3, <2>4, <2>6, <3>1, <3>2 DEF TransferDelivery!Receive
  <2> QED BY <2>3, <2>7 DEF TransferDelivery!Next, Peers
<1> QED BY <1>1, <1>2, <1>3, ReceivedChanges DEF NetInv

(* The nodes, the bus and the applications implement Delivery, whatever    *)
(* the bus loses and repeats, whatever times out and however the frames of *)
(* the nodes alternate: an application is only given transfers that a node *)
(* sent to it or to all, whole, and each of them once (handle_frame, the   *)
(* keys of HashMetadata, the toggle bits and the tokens).  That is so of   *)
(* plans that use no ids twice: an entry is never freed by being read, so  *)
(* that a later transfer of the same ids is taken for a part of the first. *)
THEOREM NodesDeliver ==
    ASSUME PlansUseIdsOnce
    PROVE  Spec => DeliversTransfers
<1>1. Init => OnceInv /\ TransferDelivery!Init
  BY OnceInvInit, DeliversInit
<1>2. OnceInv /\ [Next]_network_vars => OnceInv'
  BY OnceInvStays
<1>3. OnceInv /\ [Next]_network_vars => [TransferDelivery!Next]_<< sent, received >>
  BY DeliversStep
<1> QED BY <1>1, <1>2, <1>3, PTL DEF Spec, DeliversTransfers, TransferDelivery!Spec
===============================================================================
