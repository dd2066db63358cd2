------------------------- MODULE SessionManagerProofs -------------------------
(***************************************************************************)
(* Proofs about the two earlier session managers, for any subscriptions    *)
(* and any frames: ingest finds the one subscription there is, resetting a *)
(* session is the same as making a new one, and what is handed out is      *)
(* whole and in time.                                                      *)
(***************************************************************************)
EXTENDS HeapSessionManager, TLAPS, SequenceTheorems

(* A part of a sequence, from its beginning. *)
LEMMA PrefixType ==
    ASSUME NEW S, NEW s \in Seq(S), NEW n \in Nat, n <= Len(s)
    PROVE  /\ SubSeq(s, 1, n) \in Seq(S)
           /\ Len(SubSeq(s, 1, n)) = n
           /\ \A i \in 1 .. n : SubSeq(s, 1, n)[i] = s[i]
<1>1. \A i \in 1 .. n : s[i] \in S
  OBVIOUS
<1>2. /\ SubSeq(s, 1, n) \in Seq(S)
      /\ Len(SubSeq(s, 1, n)) = IF 1 <= n THEN n - 1 + 1 ELSE 0
      /\ \A i \in 1 .. n - 1 + 1 : SubSeq(s, 1, n)[i] = s[1 + i - 1]
  BY <1>1, SubSeqProperties
<1>3. (IF 1 <= n THEN n - 1 + 1 ELSE 0) = n /\ n - 1 + 1 = n
  OBVIOUS
<1>4. \A i \in 1 .. n : 1 + i - 1 = i
  OBVIOUS
<1> QED BY <1>2, <1>3, <1>4

-----------------------------------------------------------------------------
(* The types of what is stored. *)

SessionMap == UNION {[nodes -> Session] : nodes \in SUBSET NodeId}
Entry == [sub : Subscription, sessions : SessionMap]

ManagerTypeOK ==
    /\ subscriptions \in Seq(Entry)
    /\ now \in Timestamp

(* The inductive invariant of both managers. *)
ManagerInv == ManagerTypeOK /\ SubscriptionsDistinct

LEMMA FrameTyped ==
    ASSUME NEW frame \in Frames
    PROVE  /\ frame.source_node_id \in NodeId \cup {None}
           /\ frame.transfer_id \in TransferId
           /\ frame.start_of_transfer \in BOOLEAN /\ frame.toggle \in BOOLEAN
           /\ frame.payload \in Seq(Byte) /\ frame.whole \in Seq(Byte)
           /\ frame.len \in Nat /\ frame.len <= Len(frame.payload)
BY SessionManagerAssumption DEF InternalRxFrame

LEMMA EntryTyped ==
    ASSUME ManagerTypeOK, NEW i \in DOMAIN subscriptions
    PROVE  /\ subscriptions[i] \in Entry
           /\ subscriptions[i].sub \in Subscription
           /\ subscriptions[i].sessions \in SessionMap
           /\ DOMAIN subscriptions[i].sessions \subseteq NodeId
           /\ \A n \in DOMAIN subscriptions[i].sessions :
                 subscriptions[i].sessions[n] \in Session
<1>1. subscriptions[i] \in Entry
  BY DEF ManagerTypeOK
<1> QED BY <1>1 DEF Entry, SessionMap

LEMMA InsertSession ==
    ASSUME NEW map \in SessionMap, NEW n \in NodeId, NEW session \in Session
    PROVE  Insert(map, n, session) \in SessionMap
<1>1. PICK nodes \in SUBSET NodeId : map \in [nodes -> Session]
  BY DEF SessionMap
<1>2. Insert(map, n, session) \in [nodes \cup {n} -> Session]
  BY <1>1 DEF Insert
<1>3. nodes \cup {n} \in SUBSET NodeId
  OBVIOUS
<1> QED BY <1>2, <1>3 DEF SessionMap

LEMMA SessionNewTyped ==
    ASSUME NEW t \in TransferId PROVE SessionNew(t) \in Session
<1>1. << >> \in Seq(Byte)
  OBVIOUS
<1> QED BY <1>1 DEF SessionNew, Session, MetadataNew

LEMMA SubscriptionNewTyped ==
    ASSUME NEW sub \in Subscription PROVE SubscriptionNew(sub) \in Entry
<1>1. EmptyMap \in [{} -> Session]
  BY DEF EmptyMap
<1>2. EmptyMap \in SessionMap
  BY <1>1 DEF SessionMap
<1> QED BY <1>2 DEF SubscriptionNew, Entry

(* What accept_frame makes of a session. *)
LEMMA BegunTyped ==
    ASSUME ManagerTypeOK, NEW frame \in Frames, NEW session \in Session
    PROVE  /\ Begun(session, frame) \in Session
           /\ Begun(session, frame).payload = session.payload
           /\ Begun(session, frame).transfer_id = session.transfer_id
           /\ Begun(session, frame).md = session.md
           /\ Begun(session, frame).timestamp =
                 IF frame.start_of_transfer THEN now ELSE session.timestamp
BY DEF ManagerTypeOK, Begun, Session

(* What a session has seen with one more frame. *)
SeenWith(session, frame) == session.md.seen \o SubSeq(frame.payload, 1, frame.len)

LEMMA TakenTyped ==
    ASSUME NEW frame \in Frames, NEW session \in Session,
           NEW copied \in Nat, copied <= Len(frame.payload)
    PROVE  /\ Taken(session, frame, copied) \in Session
           /\ Taken(session, frame, copied).payload =
                 session.payload \o SubSeq(frame.payload, 1, copied)
           /\ Taken(session, frame, copied).md.seen = SeenWith(session, frame)
           /\ Taken(session, frame, copied).md.toggle = ~ session.md.toggle
           /\ Taken(session, frame, copied).transfer_id = session.transfer_id
           /\ Taken(session, frame, copied).timestamp = session.timestamp
<1>1. /\ SubSeq(frame.payload, 1, copied) \in Seq(Byte)
      /\ SubSeq(frame.payload, 1, frame.len) \in Seq(Byte)
  BY FrameTyped, PrefixType
<1>2. session.payload \in Seq(Byte) /\ session.md.seen \in Seq(Byte)
  BY DEF Session
<1>3. /\ session.payload \o SubSeq(frame.payload, 1, copied) \in Seq(Byte)
      /\ session.md.seen \o SubSeq(frame.payload, 1, frame.len) \in Seq(Byte)
  BY <1>1, <1>2, ConcatProperties
<1> DEFINE more == SubSeq(frame.payload, 1, copied)
           data == SubSeq(frame.payload, 1, frame.len)
<1> HIDE DEF more, data
<1> QED BY <1>3 DEF Taken, MetadataUpdate, Session, SeenWith, more, data

LEMMA CopiedTyped ==
    ASSUME NEW kept \in Nat, NEW len \in Nat, NEW extent \in Nat
    PROVE  PayloadToCopy(kept, len, extent) \in Nat
BY DEF PayloadToCopy

-----------------------------------------------------------------------------
(* There is at most one subscription to a kind and port.                   *)

LEMMA TheOnlyOne ==
    ASSUME NEW positions, positions \subseteq Nat, positions # {},
           \A i, j \in positions : i = j
    PROVE  /\ First(positions) \in positions
           /\ \A i \in positions : i = First(positions)
<1>1. PICK p \in positions : TRUE
  OBVIOUS
<1>2. p \in positions /\ \A j \in positions : p <= j
  <2>1. \A j \in positions : j = p /\ j \in Nat
    OBVIOUS
  <2> QED BY <2>1
<1>3. First(positions) \in positions
  BY <1>2 DEF First
<1> QED BY <1>3

LEMMA PositionOf ==
    ASSUME ManagerInv, NEW sub \in Subscriptions, PositionsOf(sub) # {}
    PROVE  First(PositionsOf(sub)) \in PositionsOf(sub)
<1>1. PositionsOf(sub) \subseteq Nat
  BY DEF PositionsOf, ManagerInv, ManagerTypeOK
<1>2. \A i, j \in PositionsOf(sub) : i = j
  BY DEF PositionsOf, SameSubscription, ManagerInv, SubscriptionsDistinct
<1> QED BY <1>1, <1>2, TheOnlyOne

LEMMA ListenerOf ==
    ASSUME ManagerInv, NEW frame \in Frames, Listeners(frame) # {}
    PROVE  /\ First(Listeners(frame)) \in Listeners(frame)
           /\ \A i \in Listeners(frame) : i = First(Listeners(frame))
<1>1. Listeners(frame) \subseteq Nat
  BY DEF Listeners, ManagerInv, ManagerTypeOK
<1>2. \A i, j \in Listeners(frame) : i = j
  BY DEF Listeners, MatchesSub, ManagerInv, SubscriptionsDistinct
<1> QED BY <1>1, <1>2, TheOnlyOne

-----------------------------------------------------------------------------
(* The calls on the list of subscriptions. Each says where the entries of  *)
(* the new list come from.                                                 *)

(* An entry of the list after the call was in it before, or is new.        *)
KeptOrNew(i) ==
    \/ \E j \in DOMAIN subscriptions : subscriptions'[i] = subscriptions[j]
    \/ \E sub \in Subscriptions : subscriptions'[i] = SubscriptionNew(sub)

LEMMA SubscribeKeeps ==
    ASSUME ManagerInv, NEW sub \in Subscriptions, Subscribe(sub)
    PROVE  ManagerInv' /\ \A i \in DOMAIN subscriptions' : KeptOrNew(i)
<1>1. CASE UNCHANGED << subscriptions, now >>
  BY <1>1 DEF ManagerInv, ManagerTypeOK, SubscriptionsDistinct, KeptOrNew
<1>2. CASE /\ PositionsOf(sub) = {} /\ UNCHANGED now
           /\ subscriptions' = Append(subscriptions, SubscriptionNew(sub))
  <2> DEFINE n == Len(subscriptions)
  <2>1. subscriptions \in Seq(Entry) /\ SubscriptionNew(sub) \in Entry
    BY SubscriptionNewTyped, SessionManagerAssumption DEF ManagerInv, ManagerTypeOK
  <2>2. /\ subscriptions' \in Seq(Entry) /\ Len(subscriptions') = n + 1 /\ n \in Nat
        /\ \A i \in 1 .. n : subscriptions'[i] = subscriptions[i]
        /\ subscriptions'[n + 1] = SubscriptionNew(sub)
    BY <1>2, <2>1, AppendProperties
  <2>3. DOMAIN subscriptions' = 1 .. n + 1 /\ DOMAIN subscriptions = 1 .. n
    BY <2>1, <2>2
  <2> HIDE DEF n
  <2>4. \A i \in 1 .. n + 1 : i \in 1 .. n \/ i = n + 1
    BY <2>2
  <2>5. SubscriptionNew(sub).sub = sub
    BY DEF SubscriptionNew
  <2>6. \A i \in 1 .. n : ~ SameSubscription(subscriptions[i].sub, sub)
    BY <1>2, <2>3 DEF PositionsOf
  <2>7. SubscriptionsDistinct'
    BY <2>2, <2>3, <2>4, <2>5, <2>6
    DEF ManagerInv, SubscriptionsDistinct, SameSubscription
  <2>8. \A i \in DOMAIN subscriptions' : KeptOrNew(i)
    BY <2>2, <2>3, <2>4 DEF KeptOrNew
  <2> QED BY <1>2, <2>2, <2>7, <2>8 DEF ManagerInv, ManagerTypeOK
<1> QED BY <1>1, <1>2 DEF Subscribe, Return

LEMMA UnsubscribeKeeps ==
    ASSUME ManagerInv, NEW sub \in Subscriptions, Unsubscribe(sub)
    PROVE  ManagerInv' /\ \A i \in DOMAIN subscriptions' : KeptOrNew(i)
<1> DEFINE n == Len(subscriptions)
           pos == First(PositionsOf(sub))
           before == SubSeq(subscriptions, 1, pos - 1)
           after == SubSeq(subscriptions, pos + 1, n)
<1>1. CASE UNCHANGED << subscriptions, now >>
  BY <1>1 DEF ManagerInv, ManagerTypeOK, SubscriptionsDistinct, KeptOrNew
<1>2. CASE /\ PositionsOf(sub) # {} /\ UNCHANGED now
           /\ subscriptions' = before \o after
  <2>1. subscriptions \in Seq(Entry) /\ n \in Nat /\ DOMAIN subscriptions = 1 .. n
    BY DEF ManagerInv, ManagerTypeOK
  <2>2. pos \in 1 .. n
    BY <1>2, <2>1, PositionOf DEF PositionsOf
  <2> HIDE DEF pos, n
  <2>3. /\ before \in Seq(Entry) /\ Len(before) = pos - 1
        /\ \A i \in 1 .. pos - 1 : before[i] = subscriptions[i]
    <3>1. pos - 1 \in Nat /\ pos - 1 <= Len(subscriptions)
      BY <2>1, <2>2 DEF n
    <3> QED BY <2>1, <3>1, PrefixType
  <2>4. /\ after \in Seq(Entry) /\ Len(after) = n - pos
        /\ \A i \in 1 .. n - pos : after[i] = subscriptions[pos + i]
    <3>1. \A i \in pos + 1 .. n : subscriptions[i] \in Entry
      BY <2>1, <2>2, ElementOfSeq DEF n
    <3>2. /\ after \in Seq(Entry)
          /\ Len(after) = IF pos + 1 <= n THEN n - (pos + 1) + 1 ELSE 0
          /\ \A i \in 1 .. n - (pos + 1) + 1 :
                after[i] = subscriptions[pos + 1 + i - 1]
      BY <2>1, <2>2, <3>1, SubSeqProperties
    <3>3. (IF pos + 1 <= n THEN n - (pos + 1) + 1 ELSE 0) = n - pos
          /\ n - (pos + 1) + 1 = n - pos
      BY <2>1, <2>2
    <3>4. \A i \in 1 .. n - pos : pos + 1 + i - 1 = pos + i
      BY <2>1, <2>2
    <3> QED BY <3>2, <3>3, <3>4
  <2> HIDE DEF before, after
  <2>5. /\ subscriptions' \in Seq(Entry) /\ Len(subscriptions') = n - 1
        /\ \A i \in 1 .. n - 1 :
              subscriptions'[i] = IF i <= pos - 1 THEN before[i] ELSE after[i - (pos - 1)]
    <3>1. Len(before) + Len(after) = n - 1
      BY <2>1, <2>2, <2>3, <2>4
    <3>2. /\ before \o after \in Seq(Entry)
          /\ Len(before \o after) = Len(before) + Len(after)
          /\ \A i \in 1 .. Len(before) + Len(after) :
                (before \o after)[i] =
                    IF i <= Len(before) THEN before[i] ELSE after[i - Len(before)]
      BY <2>3, <2>4, ConcatProperties
    <3> QED BY <1>2, <2>3, <3>1, <3>2
  <2> DEFINE from(i) == IF i <= pos - 1 THEN i ELSE i + 1
  <2>6. DOMAIN subscriptions' = 1 .. n - 1
    BY <2>5
  <2>7. ASSUME NEW i \in 1 .. n - 1
        PROVE  from(i) \in 1 .. n /\ subscriptions'[i] = subscriptions[from(i)]
    <3>1. CASE i <= pos - 1
      BY <2>1, <2>2, <2>3, <2>5, <3>1
    <3>2. CASE ~ (i <= pos - 1)
      <4>1. i - (pos - 1) \in 1 .. n - pos /\ pos + (i - (pos - 1)) = i + 1
        BY <2>1, <2>2, <3>2
      <4>2. after[i - (pos - 1)] = subscriptions[i + 1]
        BY <2>4, <4>1
      <4> QED BY <2>1, <2>2, <2>5, <3>2, <4>2
    <3> QED BY <3>1, <3>2
  <2>8. \A i, j \in 1 .. n - 1 : from(i) = from(j) => i = j
    BY <2>1, <2>2
  <2> HIDE DEF from
  <2>9. SubscriptionsDistinct'
    BY <2>1, <2>6, <2>7, <2>8 DEF ManagerInv, SubscriptionsDistinct
  <2>10. \A i \in DOMAIN subscriptions' : KeptOrNew(i)
    BY <2>1, <2>6, <2>7 DEF KeptOrNew
  <2> QED BY <1>2, <2>5, <2>9, <2>10 DEF ManagerInv, ManagerTypeOK
<1> QED BY <1>1, <1>2 DEF Unsubscribe, Missing, Return

LEMMA EditKeeps ==
    ASSUME ManagerInv, NEW sub \in Subscriptions, EditSubscription(sub)
    PROVE  ManagerInv' /\ \A i \in DOMAIN subscriptions' : KeptOrNew(i)
<1> DEFINE pos == First(PositionsOf(sub))
<1>1. CASE UNCHANGED << subscriptions, now >>
  BY <1>1 DEF ManagerInv, ManagerTypeOK, SubscriptionsDistinct, KeptOrNew
<1>2. CASE /\ PositionsOf(sub) # {} /\ UNCHANGED now
           /\ subscriptions' = [subscriptions EXCEPT ![pos] = SubscriptionNew(sub)]
  <2>1. subscriptions \in Seq(Entry) /\ SubscriptionNew(sub) \in Entry
    BY SubscriptionNewTyped, SessionManagerAssumption DEF ManagerInv, ManagerTypeOK
  <2>2. pos \in DOMAIN subscriptions /\ SameSubscription(subscriptions[pos].sub, sub)
    BY <1>2, PositionOf DEF PositionsOf
  <2> HIDE DEF pos
  <2>3. /\ subscriptions' \in Seq(Entry) /\ DOMAIN subscriptions' = DOMAIN subscriptions
        /\ \A i \in DOMAIN subscriptions :
              subscriptions'[i] = IF i = pos THEN SubscriptionNew(sub) ELSE subscriptions[i]
    BY <1>2, <2>1, <2>2, ExceptSeq
  <2>4. SubscriptionNew(sub).sub = sub
    BY DEF SubscriptionNew
  <2>5. \A i \in DOMAIN subscriptions :
            SameSubscription(subscriptions'[i].sub, subscriptions[i].sub)
    BY <2>2, <2>3, <2>4 DEF SameSubscription
  <2>6. SubscriptionsDistinct'
    BY <2>3, <2>5 DEF ManagerInv, SubscriptionsDistinct, SameSubscription
  <2>7. \A i \in DOMAIN subscriptions' : KeptOrNew(i)
    BY <2>3 DEF KeptOrNew
  <2> QED BY <1>2, <2>3, <2>6, <2>7 DEF ManagerInv, ManagerTypeOK
<1> QED BY <1>1, <1>2 DEF EditSubscription, Missing, Return

-----------------------------------------------------------------------------
(* Sessions.  Every call that touches one leaves the subscriptions alone.  *)

SameSubs ==
    /\ DOMAIN subscriptions' = DOMAIN subscriptions
    /\ \A i \in DOMAIN subscriptions : subscriptions'[i].sub = subscriptions[i].sub

LEMMA SameSubsDistinct ==
    ASSUME SubscriptionsDistinct, SameSubs
    PROVE  SubscriptionsDistinct'
BY DEF SubscriptionsDistinct, SameSubs

LEMMA SetSessionKeeps ==
    ASSUME ManagerInv, NEW pos \in DOMAIN subscriptions, NEW node \in NodeId,
           NEW session \in Session, SetSession(pos, node, session), UNCHANGED now
    PROVE  /\ ManagerInv' /\ SameSubs
           /\ \A i \in DOMAIN subscriptions :
                 i # pos => subscriptions'[i] = subscriptions[i]
           /\ subscriptions'[pos].sessions =
                 Insert(subscriptions[pos].sessions, node, session)
<1> DEFINE sessions == Insert(subscriptions[pos].sessions, node, session)
           entry == [subscriptions[pos] EXCEPT !.sessions = sessions]
<1>1. subscriptions \in Seq(Entry) /\ subscriptions[pos] \in Entry
  BY EntryTyped DEF ManagerInv, ManagerTypeOK
<1>2. sessions \in SessionMap
  BY EntryTyped, InsertSession DEF ManagerInv
<1> HIDE DEF sessions
<1>3. /\ entry \in Entry /\ entry.sub = subscriptions[pos].sub
      /\ entry.sessions = sessions
  BY <1>1, <1>2 DEF Entry
<1>4. subscriptions' = [subscriptions EXCEPT ![pos] = entry]
  BY DEF SetSession, sessions
<1> HIDE DEF entry
<1>5. /\ subscriptions' \in Seq(Entry) /\ DOMAIN subscriptions' = DOMAIN subscriptions
      /\ \A i \in DOMAIN subscriptions :
            subscriptions'[i] = IF i = pos THEN entry ELSE subscriptions[i]
  BY <1>1, <1>3, <1>4, ExceptSeq
<1>6. SameSubs
  BY <1>3, <1>5 DEF SameSubs
<1>7. ManagerInv'
  BY <1>5, <1>6, SameSubsDistinct DEF ManagerInv, ManagerTypeOK
<1> QED BY <1>3, <1>5, <1>6, <1>7 DEF sessions

(* The session that update hands to accept_frame: the one there is, which  *)
(* is of the same transfer and has not expired, or a new one.              *)
Accepting(pos, frame, session) ==
    /\ pos \in DOMAIN subscriptions
    /\ MatchesSub(subscriptions[pos].sub, frame)
    /\ frame.source_node_id \in NodeId
    /\ session \in Session
    /\ session.transfer_id = frame.transfer_id
    /\ \/ session = SessionNew(frame.transfer_id)
       \/ /\ frame.source_node_id \in DOMAIN subscriptions[pos].sessions
          /\ session = subscriptions[pos].sessions[frame.source_node_id]
          /\ ~ Expired(subscriptions[pos].sub.timeout, session.timestamp)

(* What accept_frame puts in its place: it has the frame or, the frame     *)
(* having been refused, at most its timestamp.                             *)
Accepted(pos, frame, session) ==
    Taken(Begun(session, frame), frame,
          PayloadToCopy(Len(session.payload), frame.len, subscriptions[pos].sub.extent))

(* The three things that ingest may do. *)
Rejects ==
    /\ UNCHANGED << subscriptions, now >>
    /\ result'.kind # "Transfer" /\ ~ NoTimestamp(result')

Refuses(pos, frame, session) ==
    /\ Accepting(pos, frame, session)
    /\ SetSession(pos, frame.source_node_id, Begun(session, frame))
    /\ UNCHANGED now
    /\ result'.kind # "Transfer" /\ ~ NoTimestamp(result')

Renews(pos, node, t) ==
    /\ pos \in DOMAIN subscriptions /\ node \in NodeId /\ t \in TransferId
    /\ SetSession(pos, node, SessionNew(t))
    /\ UNCHANGED now
    /\ result'.kind # "Transfer" /\ ~ NoTimestamp(result')

Takes(pos, frame, session) ==
    /\ Accepting(pos, frame, session)
    /\ MetadataAccepts(session.md, frame)
    /\ PayloadToCopy(Len(session.payload), frame.len, subscriptions[pos].sub.extent)
          <= Len(frame.payload)
    /\ SetSession(pos, frame.source_node_id, Accepted(pos, frame, session))
    /\ UNCHANGED now
    /\ result' = Answer(Accepted(pos, frame, session), frame)

LEMMA AcceptFrameDoes ==
    ASSUME ManagerInv, NEW frame \in Frames, NEW pos, NEW session,
           Accepting(pos, frame, session), AcceptFrame(pos, frame, session)
    PROVE  Rejects \/ Refuses(pos, frame, session) \/ Takes(pos, frame, session)
<1>1. Begun(session, frame).payload = session.payload
  BY BegunTyped DEF Accepting, ManagerInv
<1> QED
  BY <1>1 DEF AcceptFrame, Rejects, Refuses, Takes, Accepted, Return, Panic, SessionError,
             NoTimestamp

LEMMA SessionKept ==
    ASSUME ManagerInv, NEW pos \in DOMAIN subscriptions,
           NEW n \in DOMAIN subscriptions[pos].sessions
    PROVE  /\ n \in NodeId /\ subscriptions[pos].sessions[n] \in Session
           /\ subscriptions[pos].sessions[n].transfer_id \in TransferId
BY EntryTyped DEF ManagerInv, Session

LEMMA UpdateDoes ==
    ASSUME ManagerInv, NEW frame \in Frames, NEW pos \in DOMAIN subscriptions,
           MatchesSub(subscriptions[pos].sub, frame), Update(pos, frame)
    PROVE  \/ Rejects
           \/ \E t \in TransferId : Renews(pos, frame.source_node_id, t)
           \/ \E session \in Session :
                 Refuses(pos, frame, session) \/ Takes(pos, frame, session)
<1> DEFINE node == frame.source_node_id
           known == node \in DOMAIN subscriptions[pos].sessions
           session == subscriptions[pos].sessions[node]
           fresh == SessionNew(frame.transfer_id)
<1>1. fresh \in Session /\ fresh.transfer_id = frame.transfer_id
  BY FrameTyped, SessionNewTyped DEF SessionNew
<1>2. node \in NodeId \cup {None}
  BY FrameTyped
<1>3. known => node \in NodeId /\ session \in Session /\ session.transfer_id \in TransferId
  BY SessionKept
<1>4. CASE Rejects
  BY <1>4
<1>5. CASE node # None /\ AcceptFrame(pos, frame, fresh)
  <2>1. Accepting(pos, frame, fresh)
    BY <1>1, <1>2, <1>5 DEF Accepting
  <2> QED BY <1>1, <1>5, <2>1, AcceptFrameDoes
<1>6. CASE /\ known /\ SetSession(pos, node, SessionNew(session.transfer_id))
           /\ result' = SessionError("Timeout") /\ UNCHANGED now
  <2>1. Renews(pos, node, session.transfer_id)
    BY <1>3, <1>6 DEF Renews, SessionError, NoTimestamp
  <2> QED BY <1>3, <1>6, <2>1
<1>7. CASE /\ known /\ session.transfer_id = frame.transfer_id
           /\ ~ Expired(subscriptions[pos].sub.timeout, session.timestamp)
           /\ AcceptFrame(pos, frame, session)
  <2>1. Accepting(pos, frame, session)
    BY <1>3, <1>7 DEF Accepting
  <2> QED BY <1>3, <1>7, <2>1, AcceptFrameDoes
<1>8. None \notin NodeId
  BY NoneAssumption
<1> QED
  BY <1>3, <1>4, <1>5, <1>6, <1>7, <1>8
  DEF Update, Rejects, Return, Panic, SessionError, NoTimestamp

LEMMA IngestDoes ==
    ASSUME ManagerInv, NEW frame \in Frames, Ingest(frame)
    PROVE  \/ Rejects
           \/ \E pos \in Listeners(frame), t \in TransferId :
                 Renews(pos, frame.source_node_id, t)
           \/ \E pos \in Listeners(frame), session \in Session :
                 Refuses(pos, frame, session) \/ Takes(pos, frame, session)
<1>1. CASE Listeners(frame) = {} /\ Return(Nothing)
  BY <1>1 DEF Rejects, Return, Nothing, NoTimestamp
<1>2. CASE Listeners(frame) # {} /\ Update(First(Listeners(frame)), frame)
  <2> DEFINE pos == First(Listeners(frame))
  <2>1. /\ pos \in Listeners(frame) /\ pos \in DOMAIN subscriptions
        /\ MatchesSub(subscriptions[pos].sub, frame)
    BY <1>2, ListenerOf DEF Listeners
  <2> HIDE DEF pos
  <2>2. Update(pos, frame)
    BY <1>2 DEF pos
  <2> QED BY <2>1, <2>2, UpdateDoes
<1> QED BY <1>1, <1>2 DEF Ingest

LEMMA AcceptedTyped ==
    ASSUME ManagerInv, NEW frame \in Frames, NEW pos, NEW session,
           Accepting(pos, frame, session)
    PROVE  /\ Begun(session, frame) \in Session
           /\ PayloadToCopy(Len(session.payload), frame.len, subscriptions[pos].sub.extent)
                 <= Len(frame.payload)
                => Accepted(pos, frame, session) \in Session
<1> DEFINE copied ==
             PayloadToCopy(Len(session.payload), frame.len, subscriptions[pos].sub.extent)
<1>1. Begun(session, frame) \in Session
  BY BegunTyped DEF Accepting, ManagerInv
<1>2. copied \in Nat
  <2>1. session.payload \in Seq(Byte)
    BY DEF Accepting, Session
  <2>2. Len(session.payload) \in Nat /\ frame.len \in Nat
    BY <2>1, FrameTyped
  <2>3. subscriptions[pos].sub.extent \in Nat
    BY EntryTyped DEF Accepting, ManagerInv, Subscription
  <2> QED BY <2>2, <2>3, CopiedTyped
<1>3. copied <= Len(frame.payload) => Accepted(pos, frame, session) \in Session
  <2> SUFFICES ASSUME copied <= Len(frame.payload)
               PROVE  Taken(Begun(session, frame), frame, copied) \in Session
    BY DEF Accepted
  <2> HIDE DEF copied
  <2> QED BY <1>1, <1>2, TakenTyped
<1> QED BY <1>1, <1>3

(* Where a session of the list after a step comes from. *)
ComesFrom(i, n) ==
    LET sub == subscriptions'[i].sub
        new == subscriptions'[i].sessions[n]
    IN  \/ \E t \in TransferId : new = SessionNew(t)
        \/ \E j \in DOMAIN subscriptions :
              /\ sub = subscriptions[j].sub
              /\ n \in DOMAIN subscriptions[j].sessions
              /\ new = subscriptions[j].sessions[n]
        \/ \E frame \in Frames, session \in Session :
              /\ sub = subscriptions[i].sub
              /\ n = frame.source_node_id
              /\ \/ Refuses(i, frame, session) /\ new = Begun(session, frame)
                 \/ Takes(i, frame, session) /\ new = Accepted(i, frame, session)

SessionsComeFrom ==
    \A i \in DOMAIN subscriptions' :
        \A n \in DOMAIN subscriptions'[i].sessions : ComesFrom(i, n)

LEMMA UnchangedKeeps ==
    ASSUME ManagerInv, UNCHANGED subscriptions, now' \in Timestamp
    PROVE  ManagerInv' /\ SessionsComeFrom
BY DEF ManagerInv, ManagerTypeOK, SubscriptionsDistinct, SessionsComeFrom, ComesFrom

LEMMA ManagingKeeps ==
    ASSUME ManagerInv, ManageSubscriptions
    PROVE  ManagerInv' /\ SessionsComeFrom
<1>1. ManagerInv' /\ \A i \in DOMAIN subscriptions' : KeptOrNew(i)
  BY SubscribeKeeps, UnsubscribeKeeps, EditKeeps DEF ManageSubscriptions
<1>2. SessionsComeFrom
  BY <1>1 DEF SessionsComeFrom, ComesFrom, KeptOrNew, SubscriptionNew, EmptyMap
<1> QED BY <1>1, <1>2

(* One session is replaced, by one of which it is known where it is from.  *)
LEMMA ReplacingKeeps ==
    ASSUME ManagerInv, NEW pos \in DOMAIN subscriptions, NEW node \in NodeId,
           NEW session \in Session, SetSession(pos, node, session), UNCHANGED now,
           subscriptions'[pos].sessions[node] = session
               /\ subscriptions'[pos].sub = subscriptions[pos].sub => ComesFrom(pos, node)
    PROVE  ManagerInv' /\ SessionsComeFrom
<1>1. /\ ManagerInv' /\ SameSubs
      /\ \A i \in DOMAIN subscriptions : i # pos => subscriptions'[i] = subscriptions[i]
      /\ subscriptions'[pos].sessions =
            Insert(subscriptions[pos].sessions, node, session)
  BY SetSessionKeeps
<1>2. ASSUME NEW i \in DOMAIN subscriptions', NEW n \in DOMAIN subscriptions'[i].sessions
      PROVE  ComesFrom(i, n)
  <2>1. i \in DOMAIN subscriptions /\ subscriptions'[i].sub = subscriptions[i].sub
    BY <1>1 DEF SameSubs
  <2>2. CASE i # pos
    BY <1>1, <2>1, <2>2 DEF ComesFrom
  <2>3. CASE i = pos /\ n # node
    <3>1. /\ n \in DOMAIN subscriptions[i].sessions
          /\ subscriptions'[i].sessions[n] = subscriptions[i].sessions[n]
      BY <1>1, <2>3 DEF Insert
    <3> QED BY <2>1, <3>1 DEF ComesFrom
  <2>4. CASE i = pos /\ n = node
    <3>1. subscriptions'[pos].sessions[node] = session
      BY <1>1 DEF Insert
    <3> QED BY <2>1, <2>4, <3>1
  <2> QED BY <2>2, <2>3, <2>4
<1> QED BY <1>1, <1>2 DEF SessionsComeFrom

LEMMA IngestKeeps ==
    ASSUME ManagerInv, NEW frame \in Frames, Ingest(frame)
    PROVE  ManagerInv' /\ SessionsComeFrom
<1> DEFINE node == frame.source_node_id
<1>1. CASE Rejects
  BY <1>1, UnchangedKeeps DEF Rejects, ManagerInv, ManagerTypeOK
<1>2. ASSUME NEW pos \in Listeners(frame), NEW t \in TransferId, Renews(pos, node, t)
      PROVE  ManagerInv' /\ SessionsComeFrom
  <2>1. /\ pos \in DOMAIN subscriptions /\ node \in NodeId
        /\ SetSession(pos, node, SessionNew(t)) /\ UNCHANGED now
    BY <1>2 DEF Renews
  <2>2. subscriptions'[pos].sessions[node] = SessionNew(t) => ComesFrom(pos, node)
    BY DEF ComesFrom
  <2>3. SessionNew(t) \in Session
    BY SessionNewTyped
  <2> QED BY <2>1, <2>2, <2>3, ReplacingKeeps
<1>3. ASSUME NEW pos, NEW session \in Session, Refuses(pos, frame, session)
      PROVE  ManagerInv' /\ SessionsComeFrom
  <2>1. /\ pos \in DOMAIN subscriptions /\ node \in NodeId
        /\ SetSession(pos, node, Begun(session, frame)) /\ UNCHANGED now
        /\ Begun(session, frame) \in Session
    BY <1>3, AcceptedTyped DEF Refuses, Accepting
  <2>2. subscriptions'[pos].sessions[node] = Begun(session, frame)
          /\ subscriptions'[pos].sub = subscriptions[pos].sub => ComesFrom(pos, node)
    BY <1>3 DEF ComesFrom
  <2> QED BY <2>1, <2>2, ReplacingKeeps
<1>4. ASSUME NEW pos, NEW session \in Session, Takes(pos, frame, session)
      PROVE  ManagerInv' /\ SessionsComeFrom
  <2>1. /\ pos \in DOMAIN subscriptions /\ node \in NodeId
        /\ SetSession(pos, node, Accepted(pos, frame, session)) /\ UNCHANGED now
        /\ Accepted(pos, frame, session) \in Session
    BY <1>4, AcceptedTyped DEF Takes, Accepting
  <2>2. subscriptions'[pos].sessions[node] = Accepted(pos, frame, session)
          /\ subscriptions'[pos].sub = subscriptions[pos].sub => ComesFrom(pos, node)
    BY <1>4 DEF ComesFrom
  <2> QED BY <2>1, <2>2, ReplacingKeeps
<1> QED BY <1>1, <1>2, <1>3, <1>4, IngestDoes

LEMMA UpdateSessionsKeeps ==
    ASSUME ManagerInv, UpdateSessions
    PROVE  ManagerInv' /\ SessionsComeFrom
<1> DEFINE updated(i) ==
             [n \in DOMAIN subscriptions[i].sessions |->
                IF Expired(subscriptions[i].sub.timeout,
                           subscriptions[i].sessions[n].timestamp)
                THEN SessionNew(subscriptions[i].sessions[n].transfer_id)
                ELSE subscriptions[i].sessions[n]]
           entry(i) == [subscriptions[i] EXCEPT !.sessions = updated(i)]
<1>1. subscriptions \in Seq(Entry)
  BY DEF ManagerInv, ManagerTypeOK
<1>2. ASSUME NEW i \in DOMAIN subscriptions
      PROVE  /\ entry(i) \in Entry /\ entry(i).sub = subscriptions[i].sub
             /\ entry(i).sessions = updated(i)
  <2>1. \A n \in DOMAIN subscriptions[i].sessions :
            /\ subscriptions[i].sessions[n] \in Session
            /\ SessionNew(subscriptions[i].sessions[n].transfer_id) \in Session
    BY SessionKept, SessionNewTyped
  <2>2. updated(i) \in [DOMAIN subscriptions[i].sessions -> Session]
    BY <2>1
  <2>3. updated(i) \in SessionMap
    BY <2>2, EntryTyped DEF ManagerInv, SessionMap
  <2> HIDE DEF updated
  <2> QED BY <2>3, EntryTyped DEF ManagerInv, Entry
<1>3. subscriptions' = [i \in DOMAIN subscriptions |-> entry(i)] /\ UNCHANGED now
  BY DEF UpdateSessions
<1>4. /\ DOMAIN subscriptions' = DOMAIN subscriptions
      /\ \A i \in DOMAIN subscriptions : subscriptions'[i] = entry(i)
  BY <1>3
<1> HIDE DEF entry
<1>5. subscriptions' \in Seq(Entry)
  <2>1. DOMAIN subscriptions = 1 .. Len(subscriptions) /\ Len(subscriptions) \in Nat
    BY <1>1
  <2>2. \A i \in DOMAIN subscriptions : entry(i) \in Entry
    BY <1>2
  <2>3. subscriptions' \in [1 .. Len(subscriptions) -> Entry]
    BY <1>3, <2>1, <2>2
  <2> QED BY <2>1, <2>3, SeqDef
<1>6. SameSubs
  BY <1>2, <1>4 DEF SameSubs
<1>7. ManagerInv'
  BY <1>3, <1>5, <1>6, SameSubsDistinct DEF ManagerInv, ManagerTypeOK
<1>8. ASSUME NEW i \in DOMAIN subscriptions', NEW n \in DOMAIN subscriptions'[i].sessions
      PROVE  ComesFrom(i, n)
  <2>1. i \in DOMAIN subscriptions /\ subscriptions'[i].sub = subscriptions[i].sub
    BY <1>6 DEF SameSubs
  <2>2. subscriptions'[i].sessions = updated(i)
    BY <1>2, <1>4, <2>1
  <2>3. n \in DOMAIN subscriptions[i].sessions
    BY <2>2
  <2>4. subscriptions[i].sessions[n].transfer_id \in TransferId
    BY <2>1, <2>3, SessionKept
  <2>5. \/ subscriptions'[i].sessions[n] =
              SessionNew(subscriptions[i].sessions[n].transfer_id)
        \/ subscriptions'[i].sessions[n] = subscriptions[i].sessions[n]
    BY <2>2, <2>3
  <2> QED BY <2>1, <2>3, <2>4, <2>5 DEF ComesFrom
<1> QED BY <1>7, <1>8 DEF SessionsComeFrom

LEMMA NextKeeps ==
    ASSUME ManagerInv, [StdVecNext]_vars
    PROVE  ManagerInv' /\ SessionsComeFrom
<1>1. CASE ManageSubscriptions
  BY <1>1, ManagingKeeps
<1>2. ASSUME NEW frame \in Frames, Ingest(frame)
      PROVE  ManagerInv' /\ SessionsComeFrom
  BY <1>2, IngestKeeps
<1>3. CASE UpdateSessions
  BY <1>3, UpdateSessionsKeeps
<1>4. CASE Tick
  BY <1>4, UnchangedKeeps DEF Tick, ManagerInv, ManagerTypeOK, Timestamp
<1>5. CASE UNCHANGED vars
  BY <1>5, UnchangedKeeps DEF vars, ManagerInv, ManagerTypeOK
<1> QED BY <1>1, <1>2, <1>3, <1>4, <1>5 DEF StdVecNext

LEMMA InitKeeps == Init => ManagerInv
<1> SUFFICES ASSUME Init PROVE ManagerInv
  OBVIOUS
<1>1. subscriptions \in Seq(Entry) /\ DOMAIN subscriptions = {}
  BY EmptySeq DEF Init
<1> QED BY <1>1 DEF Init, ManagerInv, ManagerTypeOK, SubscriptionsDistinct, Timestamp

LEMMA ManagerInvariant == StdVecSpec => []ManagerInv
<1>1. ManagerInv /\ [StdVecNext]_vars => ManagerInv'
  BY NextKeeps
<1> QED BY <1>1, InitKeeps, PTL DEF StdVecSpec

-----------------------------------------------------------------------------
(* HeapSessionManager does what StdVecSessionManager does.                 *)

LEMMA ResetIsNew ==
    ASSUME NEW session \in Session, NEW t \in TransferId
    PROVE  /\ Reset(session) = SessionNew(session.transfer_id)
           /\ ResetToNewTransferId(session, t) = SessionNew(t)
<1>1. Reset(session) = SessionNew(session.transfer_id)
  <2>1. Reset(session) =
            [x \in {"timestamp", "payload", "transfer_id", "md"} |->
               CASE x = "timestamp" -> None
                 [] x = "payload" -> << >>
                 [] x = "md" -> MetadataNew
                 [] x = "transfer_id" -> session.transfer_id]
    BY DEF Reset, Session
  <2> QED BY <2>1 DEF SessionNew
<1>2. [SessionNew(session.transfer_id) EXCEPT !.transfer_id = t] = SessionNew(t)
  BY DEF SessionNew
<1> QED BY <1>1, <1>2 DEF ResetToNewTransferId

LEMMA HeapUpdateIs ==
    ASSUME ManagerInv, NEW frame \in Frames, NEW pos \in DOMAIN subscriptions,
           HeapUpdate(pos, frame)
    PROVE  Update(pos, frame)
<1> DEFINE node == frame.source_node_id
           known == node \in DOMAIN subscriptions[pos].sessions
           session == subscriptions[pos].sessions[node]
<1>1. frame.transfer_id \in TransferId
  BY FrameTyped
<1>2. known => node \in NodeId /\ session \in Session
  BY SessionKept
<1>3. known => /\ Reset(session) = SessionNew(session.transfer_id)
               /\ ResetToNewTransferId(session, frame.transfer_id)
                     = SessionNew(frame.transfer_id)
  BY <1>1, <1>2, ResetIsNew
<1> QED BY <1>3 DEF HeapUpdate, Update

LEMMA HeapNextIs ==
    ManagerInv /\ [HeapNext]_vars => [StdVecNext]_vars
<1> SUFFICES ASSUME ManagerInv, NEW frame \in Frames, HeapIngest(frame)
             PROVE  Ingest(frame)
  BY DEF HeapNext, StdVecNext
<1>1. CASE Listeners(frame) # {} /\ HeapUpdate(First(Listeners(frame)), frame)
  <2>1. First(Listeners(frame)) \in DOMAIN subscriptions
    BY <1>1, ListenerOf DEF Listeners
  <2> QED BY <1>1, <2>1, HeapUpdateIs DEF Ingest
<1> QED BY <1>1 DEF HeapIngest, Ingest

(* HeapSessionManager implements StdVecSessionManager: resetting a session *)
(* in place (heap_manager.rs:48-63), after a timeout or for the next       *)
(* transfer id, leaves nothing in it that a new one would not have.        *)
THEOREM ResettingIsRenewing == HeapSpec => HeapImplementsStdVec
<1>1. ManagerInv /\ [StdVecNext]_vars => ManagerInv'
  BY NextKeeps
<1> QED BY <1>1, HeapNextIs, InitKeeps, PTL DEF HeapSpec, HeapImplementsStdVec, StdVecSpec

(* ingest finds the one subscription there is to a kind and a port: no     *)
(* sequence of subscribe, edit_subscription and unsubscribe (std_vec.rs    *)
(* 149-199) leaves two of them in the list.                                *)
THEOREM SubscriptionsStayDistinct == StdVecSpec \/ HeapSpec => []SubscriptionsDistinct
<1>1. ManagerInv => SubscriptionsDistinct
  BY DEF ManagerInv
<1> QED
  BY <1>1, ManagerInvariant, ResettingIsRenewing, PTL DEF HeapImplementsStdVec

-----------------------------------------------------------------------------
(* What is handed out.                                                     *)

LEMMA TransferIsTaken ==
    ASSUME ManagerInv, NEW frame \in Frames, Ingest(frame),
           result'.kind = "Transfer" \/ NoTimestamp(result')
    PROVE  \E pos \in Listeners(frame), session \in Session : Takes(pos, frame, session)
BY IngestDoes DEF Rejects, Renews, Refuses

LEMMA OnlyIngestAnswers ==
    ASSUME ManagerInv, [StdVecNext]_vars,
           result'.kind = "Transfer" \/ NoTimestamp(result')
    PROVE  \/ UNCHANGED << subscriptions, result >>
           \/ \E frame \in Frames : Ingest(frame)
BY DEF StdVecNext, ManageSubscriptions, Subscribe, Unsubscribe, EditSubscription, Missing,
       Return, UpdateSessions, Tick, vars, Ok, SubscriptionError, NoTimestamp

LEMMA AnswerIs ==
    ASSUME NEW session, NEW frame
    PROVE  /\ Answer(session, frame).kind = "Transfer" =>
                 /\ Answer(session, frame) =
                       Transfer(frame, session.timestamp, session.payload)
                 /\ session.timestamp # None /\ MetadataIsValid(session.md, frame)
           /\ NoTimestamp(Answer(session, frame)) =>
                 /\ Answer(session, frame).frame = frame
                 /\ session.timestamp = None /\ MetadataIsValid(session.md, frame)
BY SMTT(30) DEF Answer, Transfer, Nothing, SessionError, Panic, NoTimestamp

LEMMA AcceptedIs ==
    ASSUME ManagerInv, NEW frame \in Frames, NEW pos, NEW session, Takes(pos, frame, session)
    PROVE  LET new == Accepted(pos, frame, session)
               copied == PayloadToCopy(Len(session.payload), frame.len,
                                       subscriptions[pos].sub.extent)
           IN  /\ copied \in Nat /\ copied <= Len(frame.payload)
               /\ new.payload = session.payload \o SubSeq(frame.payload, 1, copied)
               /\ new.md.seen = SeenWith(session, frame)
               /\ new.md.toggle = ~ session.md.toggle
               /\ new.transfer_id = session.transfer_id
               /\ new.timestamp = IF frame.start_of_transfer THEN now ELSE session.timestamp
<1> DEFINE copied == PayloadToCopy(Len(session.payload), frame.len,
                                   subscriptions[pos].sub.extent)
           begun == Begun(session, frame)
<1>1. session \in Session /\ pos \in DOMAIN subscriptions
  BY DEF Takes, Accepting
<1>2. /\ begun \in Session /\ begun.payload = session.payload /\ begun.md = session.md
      /\ begun.transfer_id = session.transfer_id
      /\ begun.timestamp = IF frame.start_of_transfer THEN now ELSE session.timestamp
  BY <1>1, BegunTyped DEF ManagerInv
<1>3. copied \in Nat /\ copied <= Len(frame.payload)
  <2>1. session.payload \in Seq(Byte) /\ Len(session.payload) \in Nat
    BY <1>1 DEF Session
  <2>2. frame.len \in Nat /\ subscriptions[pos].sub.extent \in Nat
    BY <1>1, FrameTyped, EntryTyped DEF ManagerInv, Subscription
  <2> QED BY <2>1, <2>2, CopiedTyped DEF Takes
<1> HIDE DEF copied, begun
<1>4. Accepted(pos, frame, session) = Taken(begun, frame, copied)
  BY DEF Accepted, begun, copied
<1>5. begun \in Session
  BY <1>2
<1>6. /\ Taken(begun, frame, copied).payload =
             begun.payload \o SubSeq(frame.payload, 1, copied)
      /\ Taken(begun, frame, copied).md.seen = SeenWith(begun, frame)
      /\ Taken(begun, frame, copied).transfer_id = begun.transfer_id
      /\ Taken(begun, frame, copied).timestamp = begun.timestamp
  BY <1>3, <1>5, TakenTyped, ZenonT(30)
<1>7. Taken(begun, frame, copied).md.toggle = ~ begun.md.toggle
  BY <1>3, <1>5, TakenTyped, Zenon
<1> QED BY <1>2, <1>3, <1>4, <1>5, <1>6, <1>7 DEF copied, SeenWith

LEMMA TransferInTime ==
    ASSUME ManagerInv, NEW frame \in Frames, Ingest(frame), result'.kind = "Transfer",
           NEW i \in Listeners(result'.frame)
    PROVE  now - result'.timestamp <= subscriptions[i].sub.timeout
<1>1. PICK pos \in Listeners(frame), session \in Session : Takes(pos, frame, session)
  BY TransferIsTaken
<1>2. /\ result' = Transfer(frame, Accepted(pos, frame, session).timestamp,
                            Accepted(pos, frame, session).payload)
      /\ Accepted(pos, frame, session).timestamp # None
  BY <1>1, AnswerIs DEF Takes
<1>3. i = pos /\ pos \in DOMAIN subscriptions
  <2>1. i \in Listeners(frame)
    BY <1>2 DEF Transfer
  <2> QED BY <1>1, <2>1, ListenerOf DEF Listeners
<1>4. result'.timestamp = IF frame.start_of_transfer THEN now ELSE session.timestamp
  BY <1>1, <1>2, AcceptedIs DEF Transfer
<1>5. now \in Nat /\ subscriptions[pos].sub.timeout \in Nat
  BY <1>3, EntryTyped DEF ManagerInv, ManagerTypeOK, Timestamp, Subscription, Duration
<1>6. CASE frame.start_of_transfer
  BY <1>3, <1>4, <1>5, <1>6
<1>7. CASE ~ frame.start_of_transfer
  <2>1. session.timestamp # None /\ session.timestamp \in Nat
    BY <1>1, <1>2, <1>4, <1>7 DEF Transfer, Session, Timestamp
  <2>2. ~ Expired(subscriptions[pos].sub.timeout, session.timestamp)
    BY <1>1, <2>1 DEF Takes, Accepting, SessionNew
  <2>3. ~ (now - session.timestamp > subscriptions[pos].sub.timeout)
    BY <2>1, <2>2 DEF Expired, TimestampExpired
  <2> QED BY <1>3, <1>4, <1>5, <1>7, <2>1, <2>3
<1> QED BY <1>6, <1>7

(* The transfers that ingest (std_vec.rs:67-138) hands out were completed  *)
(* within the timeout their subscription has at that moment, also when it  *)
(* has been edited since their first frame came.                           *)
THEOREM DeliveryIsInTime == StdVecSpec \/ HeapSpec => DeliveredInTime
<1>1. ManagerInv /\ [StdVecNext]_vars =>
        [result' # result /\ result'.kind = "Transfer" =>
           \A i \in Listeners(result'.frame) :
             now - result'.timestamp <= subscriptions[i].sub.timeout]_vars
  BY OnlyIngestAnswers, TransferInTime
<1>2. StdVecSpec => DeliveredInTime
  BY <1>1, ManagerInvariant, PTL DEF StdVecSpec, DeliveredInTime
<1> QED BY <1>2, ResettingIsRenewing, PTL DEF HeapImplementsStdVec

-----------------------------------------------------------------------------
(* What a session keeps of the frames of its transfer.                     *)

(* The sessions that frame f may reach. *)
Reaches(f, sub, n, session) ==
    /\ f.transfer_kind = sub.transfer_kind /\ f.port_id = sub.port_id
    /\ f.source_node_id = n /\ f.transfer_id = session.transfer_id

(* Invariants of one session of node n under the subscription sub: it has  *)
(* kept all it has seen as long as that fits, and one that waits for a     *)
(* single frame has seen nothing.                                          *)
SessionIntact(sub, n, session) ==
    /\ Len(session.md.seen) <= sub.extent => session.payload = session.md.seen
    /\ session.md.toggle =>
          \A f \in Frames :
              IsSingle(f) /\ Reaches(f, sub, n, session) => session.md.seen = << >>

(* One without a timestamp has accepted no first frame: it is as new, or   *)
(* what it has seen begins with a later frame that has the toggle of one.  *)
BeginsLate(sub, n, session) ==
    \E f \in Frames :
        /\ Reaches(f, sub, n, session)
        /\ ~ f.start_of_transfer /\ f.toggle
        /\ BeginsWith(session.md.seen, f)

SessionHeadless(sub, n, session) ==
    session.timestamp = None => session.md = MetadataNew \/ BeginsLate(sub, n, session)

SessionsIntact ==
    \A i \in DOMAIN subscriptions :
        \A n \in DOMAIN subscriptions[i].sessions :
            SessionIntact(subscriptions[i].sub, n, subscriptions[i].sessions[n])

SessionsHeadless ==
    \A i \in DOMAIN subscriptions :
        \A n \in DOMAIN subscriptions[i].sessions :
            SessionHeadless(subscriptions[i].sub, n, subscriptions[i].sessions[n])

LEMMA NewIntact ==
    ASSUME NEW sub, NEW n, NEW t
    PROVE  SessionIntact(sub, n, SessionNew(t)) /\ SessionHeadless(sub, n, SessionNew(t))
BY DEF SessionIntact, SessionHeadless, SessionNew, MetadataNew

(* What accept_frame is given is intact, be it new or stored.              *)
LEMMA GivenIntact ==
    ASSUME NEW frame, NEW pos, NEW session, Accepting(pos, frame, session)
    PROVE  /\ SessionsIntact =>
                 SessionIntact(subscriptions[pos].sub, frame.source_node_id, session)
           /\ SessionsHeadless =>
                 SessionHeadless(subscriptions[pos].sub, frame.source_node_id, session)
BY NewIntact DEF Accepting, SessionsIntact, SessionsHeadless

LEMMA FrameReaches ==
    ASSUME NEW frame, NEW pos, NEW session, Accepting(pos, frame, session)
    PROVE  /\ Reaches(frame, subscriptions[pos].sub, frame.source_node_id, session)
           /\ \A f : Reaches(f, subscriptions[pos].sub, frame.source_node_id, session)
                        => SameTransfer(f, frame) /\ SameTransfer(frame, f)
BY DEF Accepting, MatchesSub, Reaches, SameTransfer

LEMMA TakenIntact ==
    ASSUME ManagerInv, SinglesAreWhole, SessionsIntact,
           NEW frame \in Frames, NEW pos, NEW session, Takes(pos, frame, session)
    PROVE  SessionIntact(subscriptions[pos].sub, frame.source_node_id,
                         Accepted(pos, frame, session))
<1> DEFINE sub == subscriptions[pos].sub
           node == frame.source_node_id
           new == Accepted(pos, frame, session)
           data == SubSeq(frame.payload, 1, frame.len)
           kept == Len(session.payload)
           copied == PayloadToCopy(kept, frame.len, sub.extent)
<1>1. /\ Accepting(pos, frame, session) /\ session \in Session
      /\ session.md.toggle = frame.toggle
  BY DEF Takes, Accepting, MetadataAccepts
<1>2. SessionIntact(sub, node, session)
  BY <1>1, GivenIntact
<1>3. /\ new.payload = session.payload \o SubSeq(frame.payload, 1, copied)
      /\ new.md.seen = session.md.seen \o data
      /\ new.md.toggle = ~ session.md.toggle
      /\ new.transfer_id = session.transfer_id
  <2>1. new.payload = session.payload \o SubSeq(frame.payload, 1, copied)
    BY AcceptedIs, SMTT(30)
  <2>2. new.md.seen = SeenWith(session, frame)
    BY AcceptedIs
  <2>3. new.md.toggle = ~ session.md.toggle /\ new.transfer_id = session.transfer_id
    BY AcceptedIs
  <2> QED BY <2>1, <2>2, <2>3 DEF SeenWith
<1>4. /\ session.payload \in Seq(Byte) /\ session.md.seen \in Seq(Byte)
      /\ data \in Seq(Byte) /\ Len(data) = frame.len /\ frame.len \in Nat
      /\ sub.extent \in Nat
  <2>1. sub \in Subscription
    BY <1>1, EntryTyped DEF ManagerInv, Accepting
  <2> QED BY <1>1, <2>1, FrameTyped, PrefixType DEF Session, Subscription
<1>5. ASSUME Len(new.md.seen) <= sub.extent
      PROVE  new.payload = new.md.seen
  <2>1. Len(session.md.seen) + frame.len <= sub.extent
    <3>1. Len(session.md.seen \o data) = Len(session.md.seen) + Len(data)
      BY <1>4, ConcatProperties
    <3> QED BY <1>3, <1>4, <1>5, <3>1
  <2>2. Len(session.md.seen) <= sub.extent
    BY <1>4, <2>1
  <2>3. session.payload = session.md.seen
    BY <1>2, <2>2 DEF SessionIntact
  <2>4. copied = frame.len
    BY <1>4, <2>1, <2>3 DEF PayloadToCopy
  <2> QED BY <1>3, <2>3, <2>4
<1>6. ASSUME new.md.toggle, NEW f \in Frames, IsSingle(f), Reaches(f, sub, node, new)
      PROVE  FALSE
  <2>1. Reaches(f, sub, node, session)
    BY <1>3, <1>6 DEF Reaches
  <2>2. SameTransfer(f, frame)
    BY <1>1, <2>1, FrameReaches
  <2>3. IsSingle(frame) /\ frame.toggle
    BY <1>6, <2>2 DEF SinglesAreWhole
  <2> HIDE DEF new
  <2> QED BY <1>1, <1>3, <1>6, <2>3
<1> HIDE DEF new, sub, node
<1>7. SessionIntact(sub, node, new)
  BY <1>5, <1>6 DEF SessionIntact
<1> QED BY <1>7 DEF new, sub, node

LEMMA LongerBeginsWith ==
    ASSUME NEW seen \in Seq(Byte), NEW data \in Seq(Byte), NEW f \in Frames,
           BeginsWith(seen, f)
    PROVE  BeginsWith(seen \o data, f)
<1>1. /\ Len(seen \o data) = Len(seen) + Len(data)
      /\ \A i \in 1 .. Len(seen) + Len(data) :
            (seen \o data)[i] = IF i <= Len(seen) THEN seen[i] ELSE data[i - Len(seen)]
  BY ConcatProperties
<1>2. Len(seen) \in Nat /\ Len(data) \in Nat /\ f.len \in Nat
  BY FrameTyped
<1>3. f.len <= Len(seen) /\ \A i \in 1 .. f.len : seen[i] = f.payload[i]
  BY DEF BeginsWith
<1>4. f.len <= Len(seen \o data)
  BY <1>1, <1>2, <1>3
<1>5. ASSUME NEW i \in 1 .. f.len PROVE (seen \o data)[i] = f.payload[i]
  <2>1. i \in 1 .. Len(seen) + Len(data) /\ i <= Len(seen)
    BY <1>2, <1>3
  <2> QED BY <1>1, <1>3, <2>1
<1> QED BY <1>4, <1>5 DEF BeginsWith

LEMMA TakenHeadless ==
    ASSUME ManagerInv, SessionsHeadless,
           NEW frame \in Frames, NEW pos, NEW session, Takes(pos, frame, session)
    PROVE  Accepted(pos, frame, session).timestamp = None =>
             BeginsLate(subscriptions[pos].sub, frame.source_node_id,
                        Accepted(pos, frame, session))
<1> DEFINE sub == subscriptions[pos].sub
           node == frame.source_node_id
           new == Accepted(pos, frame, session)
           data == SubSeq(frame.payload, 1, frame.len)
<1>1. Accepting(pos, frame, session) /\ session \in Session
  BY DEF Takes, Accepting
<1>2. SessionHeadless(sub, node, session)
  BY <1>1, GivenIntact
<1>3. /\ new.md.seen = session.md.seen \o data
      /\ new.transfer_id = session.transfer_id
      /\ new.timestamp = IF frame.start_of_transfer THEN now ELSE session.timestamp
  <2>1. /\ new.md.seen = SeenWith(session, frame)
        /\ new.transfer_id = session.transfer_id
        /\ new.timestamp = IF frame.start_of_transfer THEN now ELSE session.timestamp
    BY AcceptedIs
  <2> QED BY <2>1 DEF SeenWith
<1>4. /\ session.md.seen \in Seq(Byte) /\ data \in Seq(Byte) /\ Len(data) = frame.len
      /\ frame.len \in Nat /\ \A i \in 1 .. frame.len : data[i] = frame.payload[i]
  BY <1>1, FrameTyped, PrefixType DEF Session
<1>5. now # None
  BY SessionManagerAssumption DEF ManagerInv, ManagerTypeOK
<1>6. ASSUME new.timestamp = None
      PROVE  BeginsLate(sub, node, new)
  <2>1. ~ frame.start_of_transfer /\ session.timestamp = None
    BY <1>3, <1>5, <1>6
  <2>2. \A f : Reaches(f, sub, node, session) => Reaches(f, sub, node, new)
    BY <1>3 DEF Reaches
  <2>3. CASE session.md = MetadataNew
    <3>1. new.md.seen = data
      <4>1. session.md.seen = << >>
        BY <2>3 DEF MetadataNew
      <4> QED BY <1>3, <1>4, <4>1, ConcatEmptySeq
    <3>2. frame.toggle
      BY <2>3 DEF Takes, MetadataAccepts, MetadataNew
    <3>3. BeginsWith(data, frame)
      BY <1>4 DEF BeginsWith
    <3>4. Reaches(frame, sub, node, new)
      BY <1>1, <2>2, FrameReaches
    <3> HIDE DEF new, data, sub, node
    <3> QED BY <2>1, <3>1, <3>2, <3>3, <3>4 DEF BeginsLate
  <2>4. CASE session.md # MetadataNew
    <3>1. PICK f \in Frames :
             /\ Reaches(f, sub, node, session) /\ ~ f.start_of_transfer /\ f.toggle
             /\ BeginsWith(session.md.seen, f)
      BY <1>2, <2>1, <2>4 DEF SessionHeadless, BeginsLate
    <3>2. BeginsWith(new.md.seen, f)
      BY <1>3, <1>4, <3>1, FrameTyped, LongerBeginsWith
    <3> HIDE DEF new, sub, node
    <3> QED BY <2>2, <3>1, <3>2 DEF BeginsLate
  <2> QED BY <2>3, <2>4
<1> QED BY <1>6

LEMMA BegunIntact ==
    ASSUME ManagerInv, NEW frame \in Frames, NEW pos, NEW session,
           Accepting(pos, frame, session)
    PROVE  LET sub == subscriptions[pos].sub
               node == frame.source_node_id
               begun == Begun(session, frame)
           IN  /\ SessionsIntact => SessionIntact(sub, node, begun)
               /\ SessionsHeadless => SessionHeadless(sub, node, begun)
<1> DEFINE sub == subscriptions[pos].sub
           node == frame.source_node_id
           begun == Begun(session, frame)
<1>1. session \in Session
  BY DEF Accepting
<1>2. /\ begun.payload = session.payload /\ begun.md = session.md
      /\ begun.transfer_id = session.transfer_id
      /\ begun.timestamp = IF frame.start_of_transfer THEN now ELSE session.timestamp
  BY <1>1, BegunTyped DEF ManagerInv
<1>3. now # None
  BY SessionManagerAssumption DEF ManagerInv, ManagerTypeOK
<1>4. /\ SessionsIntact => SessionIntact(sub, node, session)
      /\ SessionsHeadless => SessionHeadless(sub, node, session)
  BY GivenIntact
<1> HIDE DEF begun, sub, node
<1>5. \A f : Reaches(f, sub, node, begun) <=> Reaches(f, sub, node, session)
  BY <1>2 DEF Reaches
<1>6. SessionsIntact => SessionIntact(sub, node, begun)
  BY <1>2, <1>4, <1>5 DEF SessionIntact
<1>7. SessionsHeadless => SessionHeadless(sub, node, begun)
  BY <1>2, <1>3, <1>4, <1>5 DEF SessionHeadless, BeginsLate
<1> QED BY <1>6, <1>7 DEF begun, sub, node

LEMMA NextIntact ==
    ASSUME ManagerInv, SinglesAreWhole, SessionsIntact, [StdVecNext]_vars
    PROVE  SessionsIntact'
<1> SUFFICES ASSUME NEW i \in DOMAIN subscriptions',
                    NEW n \in DOMAIN subscriptions'[i].sessions
             PROVE  SessionIntact(subscriptions'[i].sub, n, subscriptions'[i].sessions[n])
  BY DEF SessionsIntact, SessionIntact, Reaches
<1>1. ComesFrom(i, n)
  BY NextKeeps DEF SessionsComeFrom
<1>2. CASE \E t \in TransferId : subscriptions'[i].sessions[n] = SessionNew(t)
  BY <1>2, NewIntact
<1>3. ASSUME NEW j \in DOMAIN subscriptions,
             subscriptions'[i].sub = subscriptions[j].sub,
             n \in DOMAIN subscriptions[j].sessions,
             subscriptions'[i].sessions[n] = subscriptions[j].sessions[n]
      PROVE  SessionIntact(subscriptions'[i].sub, n, subscriptions'[i].sessions[n])
  BY <1>3 DEF SessionsIntact
<1>4. ASSUME NEW frame \in Frames, NEW session \in Session, Refuses(i, frame, session)
      PROVE  SessionIntact(subscriptions[i].sub, frame.source_node_id,
                           Begun(session, frame))
  BY <1>4, BegunIntact DEF Refuses
<1>5. ASSUME NEW frame \in Frames, NEW session \in Session, Takes(i, frame, session)
      PROVE  SessionIntact(subscriptions[i].sub, frame.source_node_id,
                           Accepted(i, frame, session))
  BY <1>5, TakenIntact
<1> QED BY <1>1, <1>2, <1>3, <1>4, <1>5 DEF ComesFrom

LEMMA NextHeadless ==
    ASSUME ManagerInv, SessionsHeadless, [StdVecNext]_vars
    PROVE  SessionsHeadless'
<1> SUFFICES ASSUME NEW i \in DOMAIN subscriptions',
                    NEW n \in DOMAIN subscriptions'[i].sessions
             PROVE  SessionHeadless(subscriptions'[i].sub, n, subscriptions'[i].sessions[n])
  BY DEF SessionsHeadless, SessionHeadless, BeginsLate, Reaches
<1>1. ComesFrom(i, n)
  BY NextKeeps DEF SessionsComeFrom
<1>2. CASE \E t \in TransferId : subscriptions'[i].sessions[n] = SessionNew(t)
  BY <1>2, NewIntact
<1>3. ASSUME NEW j \in DOMAIN subscriptions,
             subscriptions'[i].sub = subscriptions[j].sub,
             n \in DOMAIN subscriptions[j].sessions,
             subscriptions'[i].sessions[n] = subscriptions[j].sessions[n]
      PROVE  SessionHeadless(subscriptions'[i].sub, n, subscriptions'[i].sessions[n])
  BY <1>3 DEF SessionsHeadless
<1>4. ASSUME NEW frame \in Frames, NEW session \in Session, Refuses(i, frame, session)
      PROVE  SessionHeadless(subscriptions[i].sub, frame.source_node_id,
                             Begun(session, frame))
  BY <1>4, BegunIntact DEF Refuses
<1>5. ASSUME NEW frame \in Frames, NEW session \in Session, Takes(i, frame, session)
      PROVE  SessionHeadless(subscriptions[i].sub, frame.source_node_id,
                             Accepted(i, frame, session))
  BY <1>5, TakenHeadless DEF SessionHeadless
<1> QED BY <1>1, <1>2, <1>3, <1>4, <1>5 DEF ComesFrom

LEMMA TransferIntact ==
    ASSUME ManagerInv, SinglesAreWhole, SessionsIntact,
           NEW frame \in Frames, Ingest(frame), result'.kind = "Transfer"
    PROVE  DeliveredIntact'
<1>1. PICK pos \in Listeners(frame), session \in Session : Takes(pos, frame, session)
  BY TransferIsTaken
<1> DEFINE new == Accepted(pos, frame, session)
           sub == subscriptions[pos].sub
<1>2. /\ result' = Transfer(frame, new.timestamp, new.payload)
      /\ MetadataIsValid(new.md, frame)
  BY <1>1, AnswerIs DEF Takes
<1>3. new.md.seen = frame.whole
  <2>1. CASE new.md.seen = frame.whole
    BY <2>1
  <2>2. CASE IsSingle(frame)
    <3>1. frame.toggle /\ SubSeq(frame.payload, 1, frame.len) = frame.whole
      BY <2>2 DEF SinglesAreWhole
    <3>2. Accepting(pos, frame, session) /\ session.md.toggle
      BY <1>1, <3>1 DEF Takes, MetadataAccepts
    <3>3. /\ SessionIntact(sub, frame.source_node_id, session)
          /\ Reaches(frame, sub, frame.source_node_id, session)
      BY <3>2, GivenIntact, FrameReaches
    <3>4. session.md.seen = << >>
      BY <2>2, <3>2, <3>3 DEF SessionIntact
    <3>5. new.md.seen = SeenWith(session, frame)
      BY <1>1, AcceptedIs
    <3>6. SeenWith(session, frame) = << >> \o frame.whole
      BY <3>1, <3>4 DEF SeenWith
    <3>7. << >> \o frame.whole = frame.whole
      BY FrameTyped, ConcatEmptySeq
    <3> QED BY <3>5, <3>6, <3>7
  <2> QED BY <1>2, <2>1, <2>2 DEF MetadataIsValid, IsSingle
<1>4. SessionIntact(sub, frame.source_node_id, new)
  BY <1>1, TakenIntact
<1>5. pos \in DOMAIN subscriptions /\ frame.source_node_id \in NodeId
      /\ SetSession(pos, frame.source_node_id, new) /\ UNCHANGED now /\ new \in Session
  BY <1>1, AcceptedTyped DEF Takes, Accepting
<1> HIDE DEF new
<1>6. SameSubs
  BY <1>5, SetSessionKeeps
<1>7. ASSUME NEW i \in Listeners(result.frame)' PROVE i = pos
  <2>1. i \in DOMAIN subscriptions /\ MatchesSub(subscriptions[i].sub, frame)
    BY <1>2, <1>6, <1>7 DEF Listeners, MatchesSub, Transfer, SameSubs
  <2>2. i \in Listeners(frame)
    BY <2>1 DEF Listeners
  <2> QED BY <1>1, <2>2, ListenerOf
<1>8. ASSUME Len(frame.whole) <= sub.extent PROVE result'.payload = frame.whole
  BY <1>2, <1>3, <1>4, <1>8 DEF SessionIntact, Transfer
<1>9. subscriptions'[pos].sub = sub /\ result'.frame = frame
  BY <1>2, <1>5, <1>6 DEF SameSubs, Transfer
<1> HIDE DEF sub
<1> QED BY <1>7, <1>8, <1>9 DEF DeliveredIntact

LEMMA NextDeliversIntact ==
    ASSUME ManagerInv, SinglesAreWhole, SessionsIntact, DeliveredIntact, [StdVecNext]_vars
    PROVE  DeliveredIntact'
<1>1. CASE result'.kind # "Transfer"
  BY <1>1 DEF DeliveredIntact
<1>2. CASE UNCHANGED << subscriptions, result >>
  BY <1>2 DEF DeliveredIntact, Listeners, MatchesSub
<1>3. CASE result'.kind = "Transfer" /\ \E frame \in Frames : Ingest(frame)
  BY <1>3, TransferIntact
<1> QED BY <1>1, <1>2, <1>3, OnlyIngestAnswers

LEMMA NextPanics ==
    ASSUME ManagerInv, SessionsHeadless, PanicMeansRepetition, [StdVecNext]_vars
    PROVE  PanicMeansRepetition'
<1> SUFFICES ASSUME NoTimestamp(result')
             PROVE  \E f \in Frames :
                       /\ SameTransfer(f, result'.frame)
                       /\ ~ f.start_of_transfer /\ f.toggle
                       /\ BeginsWith(result'.frame.whole, f)
  BY DEF PanicMeansRepetition
<1>1. CASE UNCHANGED << subscriptions, result >>
  BY <1>1 DEF PanicMeansRepetition
<1>2. ASSUME NEW frame \in Frames, Ingest(frame)
      PROVE  \E f \in Frames :
                /\ SameTransfer(f, result'.frame)
                /\ ~ f.start_of_transfer /\ f.toggle
                /\ BeginsWith(result'.frame.whole, f)
  <2>1. PICK pos \in Listeners(frame), session \in Session : Takes(pos, frame, session)
    BY <1>2, TransferIsTaken
  <2> DEFINE new == Accepted(pos, frame, session)
             sub == subscriptions[pos].sub
  <2>2. /\ result'.frame = frame
        /\ new.timestamp = None /\ MetadataIsValid(new.md, frame)
    BY <2>1, AnswerIs DEF Takes
  <2>3. ~ frame.start_of_transfer /\ new.md.seen = frame.whole
    <3>1. new.timestamp = IF frame.start_of_transfer THEN now ELSE session.timestamp
      BY <2>1, AcceptedIs
    <3>2. now # None
      BY SessionManagerAssumption DEF ManagerInv, ManagerTypeOK
    <3> QED BY <2>2, <3>1, <3>2 DEF MetadataIsValid
  <2>4. BeginsLate(sub, frame.source_node_id, new)
    BY <2>1, <2>2, TakenHeadless
  <2>5. \A f : Reaches(f, sub, frame.source_node_id, new) => SameTransfer(f, frame)
    <3>1. new.transfer_id = session.transfer_id
      BY <2>1, AcceptedIs
    <3>2. \A f : Reaches(f, sub, frame.source_node_id, session) => SameTransfer(f, frame)
      BY <2>1, FrameReaches DEF Takes
    <3> QED BY <3>1, <3>2 DEF Reaches
  <2> HIDE DEF new, sub
  <2> QED BY <2>2, <2>3, <2>4, <2>5 DEF BeginsLate
<1> QED BY <1>1, <1>2, OnlyIngestAnswers

(* What ingest (std_vec.rs:67-138, heap_manager.rs:75-146) hands out is    *)
(* what was sent, if it fits the extent: sessions that expire, are edited, *)
(* refuse frames and meet those of other transfers never mix them up.      *)
THEOREM DeliveryIsIntact ==
    ASSUME SinglesAreWhole
    PROVE  StdVecSpec \/ HeapSpec => []DeliveredIntact
<1>1. Init => SessionsIntact /\ DeliveredIntact
  BY DEF Init, SessionsIntact, DeliveredIntact, Ok
<1>2. ManagerInv /\ SessionsIntact /\ DeliveredIntact /\ [StdVecNext]_vars
        => SessionsIntact' /\ DeliveredIntact'
  BY NextIntact, NextDeliversIntact
<1>3. StdVecSpec => []DeliveredIntact
  BY <1>1, <1>2, ManagerInvariant, PTL DEF StdVecSpec
<1> QED BY <1>3, ResettingIsRenewing, PTL DEF HeapImplementsStdVec

(* timestamp.unwrap() (std_vec.rs:124, heap_manager.rs:132) panics only    *)
(* for a transfer that begins as one of its own later frames does, for any *)
(* frames and subscriptions: a session without a timestamp has nothing     *)
(* left of what came before it was created or reset.                       *)
THEOREM OnlyRepetitionPanics == StdVecSpec \/ HeapSpec => []PanicMeansRepetition
<1>1. Init => SessionsHeadless /\ PanicMeansRepetition
  BY DEF Init, SessionsHeadless, PanicMeansRepetition, NoTimestamp, Ok
<1>2. ManagerInv /\ SessionsHeadless /\ PanicMeansRepetition /\ [StdVecNext]_vars
        => SessionsHeadless' /\ PanicMeansRepetition'
  BY NextHeadless, NextPanics
<1>3. StdVecSpec => []PanicMeansRepetition
  BY <1>1, <1>2, ManagerInvariant, PTL DEF StdVecSpec
<1> QED BY <1>3, ResettingIsRenewing, PTL DEF HeapImplementsStdVec
=============================================================================
