-------------------------- MODULE HeapSessionManager --------------------------
(***************************************************************************)
(* HeapSessionManager (transfer/heap_manager.rs), which resets the         *)
(* sessions it has where StdVecSessionManager makes new ones.  The calls   *)
(* on the list of subscriptions and accept_frame are the same.             *)
(***************************************************************************)
EXTENDS SessionManager

(* Faulty: keeps the metadata, as if a timeout were a pause. *)
ResetKeepsMetadata(session) == [session EXCEPT !.payload = << >>, !.timestamp = None]

Reset(session) ==
    [session EXCEPT !.payload = << >>, !.timestamp = None, !.md = MetadataNew]

(* Faulty: keeps what was received of the earlier transfer. *)
RenameTransfer(session, transfer_id) == [session EXCEPT !.transfer_id = transfer_id]

ResetToNewTransferId(session, transfer_id) ==
    [Reset(session) EXCEPT !.transfer_id = transfer_id]

(* The arms of the match in update, in their order. *)
HeapUpdate(pos, frame) ==
    LET node == frame.source_node_id
        sub == subscriptions[pos].sub
        known == node \in DOMAIN subscriptions[pos].sessions
        session == subscriptions[pos].sessions[node]
    IN  IF node = None THEN Return(Panic("NoSource", frame))
        ELSE IF ~ known /\ ~ frame.start_of_transfer
        THEN Return(SessionError("NewSessionNoStart"))
        ELSE IF ~ known THEN AcceptFrame(pos, frame, SessionNew(frame.transfer_id))
        ELSE IF session.transfer_id # frame.transfer_id
        THEN AcceptFrame(pos, frame, ResetToNewTransferId(session, frame.transfer_id))
        ELSE IF Expired(sub.timeout, session.timestamp)
        THEN /\ SetSession(pos, node, Reset(session))
             /\ result' = SessionError("Timeout")
             /\ UNCHANGED now
        ELSE AcceptFrame(pos, frame, session)

HeapIngest(frame) ==
    \/ Listeners(frame) = {} /\ Return(Nothing)
    \/ Listeners(frame) # {} /\ HeapUpdate(First(Listeners(frame)), frame)

HeapNext ==
    /\ Running
    /\ \/ ManageSubscriptions
       \/ \E frame \in Frames : HeapIngest(frame)
       \/ UpdateSessions
       \/ Tick

HeapSpec == Init /\ [][HeapNext]_vars

(* The two managers cannot be told apart: resetting a session in place     *)
(* leaves nothing that a new one would not have.                           *)
HeapImplementsStdVec == StdVecSpec
===============================================================================
