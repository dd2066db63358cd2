---------------------------- MODULE SessionManager ----------------------------
(***************************************************************************)
(* The earlier, subscription-based receiver StdVecSessionManager           *)
(* (transfer/std_vec.rs): a list of subscriptions, each with one session   *)
(* per sending node.                                                       *)
(*                                                                         *)
(* The transport's part (InternalRxFrame, SessionMetadata, matches_sub) is *)
(* not in the repository any more and is modelled from its use here: the   *)
(* metadata accept the frames whose toggle alternates, and find a transfer *)
(* valid if it is a single frame or if the data they have seen are those   *)
(* its CRC was made of.                                                    *)
(***************************************************************************)
EXTENDS Transfers

CONSTANTS
    Subscriptions,    \* what the application may subscribe to
    Frames,           \* frames that may arrive
    MaxTime           \* bound on the clock

Byte == 0 .. 255

Subscription ==
    [transfer_kind : TransferKind, port_id : PortId, extent : Nat, timeout : Duration]

(* `payload` is `len` bytes of data and the tail; `whole` is the payload   *)
(* of the transfer the frame is part of.                                   *)
InternalRxFrame ==
    [transfer_kind : TransferKind, port_id : PortId,
     source_node_id : NodeId \cup {None}, transfer_id : TransferId,
     start_of_transfer : BOOLEAN, end_of_transfer : BOOLEAN, toggle : BOOLEAN,
     payload : Seq(Byte), len : Nat, whole : Seq(Byte)]

ASSUME SessionManagerAssumption ==
    /\ Subscriptions \subseteq Subscription
    /\ Frames \subseteq InternalRxFrame
    /\ \A f \in Frames : f.len <= Len(f.payload)
    /\ MaxTime \in Nat
    /\ None \notin Timestamp

VARIABLES
    subscriptions,    \* the list of subscriptions
    result,           \* what the last call returned
    now               \* the clock

vars == << subscriptions, result, now >>

-----------------------------------------------------------------------------
(* SessionMetadata: new, update and is_valid. *)

MetadataNew == [toggle |-> TRUE, seen |-> << >>]

MetadataAccepts(md, frame) == frame.toggle = md.toggle

MetadataUpdate(md, frame) ==
    [toggle |-> ~ md.toggle,
     seen |-> md.seen \o SubSeq(frame.payload, 1, frame.len)]

MetadataIsValid(md, frame) ==
    \/ frame.start_of_transfer /\ frame.end_of_transfer
    \/ md.seen = frame.whole

-----------------------------------------------------------------------------
(* Sessions and subscriptions. *)

Session ==
    [timestamp : Timestamp \cup {None}, payload : Seq(Byte), transfer_id : TransferId,
     md : [toggle : BOOLEAN, seen : Seq(Byte)]]

SessionNew(transfer_id) ==
    [timestamp |-> None, payload |-> << >>, transfer_id |-> transfer_id,
     md |-> MetadataNew]

SubscriptionNew(sub) == [sub |-> sub, sessions |-> EmptyMap]

(* Faulty: subscriptions are equal only if all of their fields are. *)
SameSubscriptionInFull(sub, other) == sub = other

(* PartialEq of Subscription: neither extent nor timeout counts. *)
SameSubscription(sub, other) ==
    sub.transfer_kind = other.transfer_kind /\ sub.port_id = other.port_id

MatchesSub(sub, frame) ==
    sub.transfer_kind = frame.transfer_kind /\ sub.port_id = frame.port_id

First(positions) == CHOOSE i \in positions : \A j \in positions : i <= j

PositionsOf(sub) ==
    {i \in DOMAIN subscriptions : SameSubscription(subscriptions[i].sub, sub)}

Listeners(frame) ==
    {i \in DOMAIN subscriptions : MatchesSub(subscriptions[i].sub, frame)}

Expired(timeout, then) == then # None /\ TimestampExpired(timeout, now, then)

-----------------------------------------------------------------------------
(* What the calls return, or the panic that ends the program. *)

Ok == [kind |-> "Ok"]
Nothing == [kind |-> "Nothing"]
SubscriptionError(error) == [kind |-> "SubscriptionError", error |-> error]
SessionError(error) == [kind |-> "SessionError", error |-> error]
Panic(reason, frame) == [kind |-> "Panic", reason |-> reason, frame |-> frame]
Transfer(frame, timestamp, payload) ==
    [kind |-> "Transfer", frame |-> frame, timestamp |-> timestamp, payload |-> payload]

Return(value) == result' = value /\ UNCHANGED << subscriptions, now >>

Init ==
    /\ subscriptions = << >>
    /\ result = Ok
    /\ now = 0

-----------------------------------------------------------------------------
(* Calls on the list of subscriptions. *)

Subscribe(sub) ==
    \/ PositionsOf(sub) # {} /\ Return(SubscriptionError("SubscriptionExists"))
    \/ /\ PositionsOf(sub) = {}
       /\ subscriptions' = Append(subscriptions, SubscriptionNew(sub))
       /\ result' = Ok
       /\ UNCHANGED now

Missing(sub) ==
    PositionsOf(sub) = {} /\ Return(SubscriptionError("SubscriptionDoesNotExist"))

Unsubscribe(sub) ==
    \/ Missing(sub)
    \/ /\ PositionsOf(sub) # {}
       /\ LET pos == First(PositionsOf(sub))
          IN  subscriptions' = SubSeq(subscriptions, 1, pos - 1)
                               \o SubSeq(subscriptions, pos + 1, Len(subscriptions))
       /\ result' = Ok
       /\ UNCHANGED now

EditSubscription(sub) ==
    \/ Missing(sub)
    \/ /\ PositionsOf(sub) # {}
       /\ subscriptions' =
            [subscriptions EXCEPT ![First(PositionsOf(sub))] = SubscriptionNew(sub)]
       /\ result' = Ok
       /\ UNCHANGED now

-----------------------------------------------------------------------------
(* ingest: Subscription::update and accept_frame. *)

SetSession(pos, node, session) ==
    subscriptions' = [subscriptions EXCEPT ![pos].sessions = Insert(@, node, session)]

Begun(session, frame) ==
    IF frame.start_of_transfer THEN [session EXCEPT !.timestamp = now] ELSE session

(* What is copied of a frame that leaves the extent is what it has too     *)
(* much.                                                                   *)
PayloadToCopy(kept, len, extent) ==
    IF kept + len > extent THEN kept + len - extent ELSE len

Taken(session, frame, copied) ==
    [session EXCEPT !.md = MetadataUpdate(@, frame),
                    !.payload = @ \o SubSeq(frame.payload, 1, copied)]

Answer(session, frame) ==
    IF ~ frame.end_of_transfer THEN Nothing
    ELSE IF ~ MetadataIsValid(session.md, frame) THEN SessionError("BadMetadata")
    ELSE IF session.timestamp = None THEN Panic("NoTimestamp", frame)
    ELSE Transfer(frame, session.timestamp, session.payload)

AcceptFrame(pos, frame, session) ==
    LET begun == Begun(session, frame)
        copied == PayloadToCopy(Len(session.payload), frame.len,
                                subscriptions[pos].sub.extent)
    IN  \/ /\ ~ MetadataAccepts(session.md, frame)
           /\ SetSession(pos, frame.source_node_id, begun)
           /\ result' = SessionError("BadMetadata")
           /\ UNCHANGED now
        \/ /\ MetadataAccepts(session.md, frame)
           /\ copied > Len(frame.payload)
           /\ Return(Panic("SliceOutOfRange", frame))
        \/ /\ MetadataAccepts(session.md, frame)
           /\ copied <= Len(frame.payload)
           /\ SetSession(pos, frame.source_node_id, Taken(begun, frame, copied))
           /\ result' = Answer(Taken(begun, frame, copied), frame)
           /\ UNCHANGED now

Update(pos, frame) ==
    LET node == frame.source_node_id
        known == node \in DOMAIN subscriptions[pos].sessions
        session == subscriptions[pos].sessions[node]
        current == known /\ session.transfer_id = frame.transfer_id
        expired == current /\ Expired(subscriptions[pos].sub.timeout, session.timestamp)
    IN  \/ node = None /\ Return(Panic("NoSource", frame))
        \/ /\ node # None /\ ~ known /\ ~ frame.start_of_transfer
           /\ Return(SessionError("NewSessionNoStart"))
        \/ /\ node # None /\ ~ known /\ frame.start_of_transfer
           /\ AcceptFrame(pos, frame, SessionNew(frame.transfer_id))
        \/ /\ known /\ ~ current
           /\ AcceptFrame(pos, frame, SessionNew(frame.transfer_id))
        \/ /\ expired
           /\ SetSession(pos, node, SessionNew(session.transfer_id))
           /\ result' = SessionError("Timeout")
           /\ UNCHANGED now
        \/ /\ current /\ ~ expired
           /\ AcceptFrame(pos, frame, session)

Ingest(frame) ==
    \/ Listeners(frame) = {} /\ Return(Nothing)
    \/ Listeners(frame) # {} /\ Update(First(Listeners(frame)), frame)

-----------------------------------------------------------------------------

UpdateSessions ==
    /\ subscriptions' =
         [i \in DOMAIN subscriptions |->
            [subscriptions[i] EXCEPT !.sessions =
               [n \in DOMAIN @ |->
                  IF Expired(subscriptions[i].sub.timeout, @[n].timestamp)
                  THEN SessionNew(@[n].transfer_id) ELSE @[n]]]]
    /\ result' = Ok
    /\ UNCHANGED now

Tick ==
    /\ now < MaxTime
    /\ now' = now + 1
    /\ UNCHANGED << subscriptions, result >>

(* Calls that the two earlier managers have in common. *)
ManageSubscriptions ==
    \/ \E sub \in Subscriptions : Subscribe(sub)
    \/ \E sub \in Subscriptions : Unsubscribe(sub)
    \/ \E sub \in Subscriptions : EditSubscription(sub)

Running == result.kind # "Panic"

StdVecNext ==
    /\ Running
    /\ \/ ManageSubscriptions
       \/ \E frame \in Frames : Ingest(frame)
       \/ UpdateSessions
       \/ Tick

StdVecSpec == Init /\ [][StdVecNext]_vars

-----------------------------------------------------------------------------
(* What is known of the frames, the transport that made them being gone.   *)

(* Two frames that are of one transfer for all that a session can tell.    *)
SameTransfer(f, g) ==
    /\ f.transfer_kind = g.transfer_kind /\ f.port_id = g.port_id
    /\ f.source_node_id = g.source_node_id /\ f.transfer_id = g.transfer_id

IsSingle(f) == f.start_of_transfer /\ f.end_of_transfer

(* A frame that is a transfer by itself holds all of it and has the toggle *)
(* of a first frame, and its transfer id is not in use for a longer one.   *)
SinglesAreWhole ==
    \A f \in Frames :
        IsSingle(f) =>
            /\ f.toggle
            /\ SubSeq(f.payload, 1, f.len) = f.whole
            /\ \A g \in Frames : SameTransfer(f, g) => IsSingle(g)

(* The transfer seen begins with the data of f. *)
BeginsWith(seen, f) == f.len <= Len(seen) /\ \A i \in 1 .. f.len : seen[i] = f.payload[i]

-----------------------------------------------------------------------------
(* Properties. *)

(* No two subscriptions are to the same kind and port, whatever is         *)
(* subscribed to, edited and removed: ingest finds the one there is.       *)
SubscriptionsDistinct ==
    \A i, j \in DOMAIN subscriptions :
        /\ subscriptions[i].sub.transfer_kind = subscriptions[j].sub.transfer_kind
        /\ subscriptions[i].sub.port_id = subscriptions[j].sub.port_id
        => i = j

(* A transfer that fits the extent of its subscription is handed out as it *)
(* was sent, although frames are lost, repeated and reordered, time out,   *)
(* and belong to other transfers of the same node.                         *)
DeliveredIntact ==
    result.kind = "Transfer" =>
        \A i \in Listeners(result.frame) :
            Len(result.frame.whole) <= subscriptions[i].sub.extent
                => result.payload = result.frame.whole

(* The last frame of a transfer that is handed out came within the timeout *)
(* after its first one, the timeout being that of the subscription as it   *)
(* is then.                                                                *)
DeliveredInTime ==
    [][result' # result /\ result'.kind = "Transfer" =>
         \A i \in Listeners(result'.frame) :
             now - result'.timestamp <= subscriptions[i].sub.timeout]_vars

(* The panic of timestamp.unwrap(). *)
NoTimestamp(value) == value.kind = "Panic" /\ value.reason = "NoTimestamp"

(* timestamp.unwrap() (std_vec.rs:124, heap_manager.rs:132) panics when a  *)
(* transfer is found valid whose session has accepted no first frame since *)
(* it was made or reset.  It does so only for a transfer that begins like  *)
(* one of its later frames, one with the toggle of a first frame: nothing  *)
(* that is left of what came before makes up for the first frame.          *)
PanicMeansRepetition ==
    NoTimestamp(result) =>
        \E f \in Frames :
            /\ SameTransfer(f, result.frame)
            /\ ~ f.start_of_transfer /\ f.toggle
            /\ BeginsWith(result.frame.whole, f)

(* What the unwrap() asserts: a transfer that is found valid has the       *)
(* "timestamp of first frame" (std_vec.rs:20).  It does not hold: a        *)
(* session is made by any frame of another transfer id (std_vec.rs:77-81), *)
(* and one that has been reset after a timeout begins with any frame.      *)
ValidHasTimestamp == ~ NoTimestamp(result)
===============================================================================
