------------------------------ MODULE Delivery -------------------------------
(***************************************************************************)
(* What the nodes on one bus promise their applications: an application    *)
(* is only ever given transfers that some node has sent, whole, to it or   *)
(* to all, and each of them once.  Transfers may be lost, and may overtake *)
(* each other.                                                             *)
(*                                                                         *)
(* There are no frames here, no identifiers, tokens, CRCs or timeouts.     *)
(***************************************************************************)
EXTENDS BagsExt, Bags

CONSTANTS
    Readers,             \* the nodes whose applications read
    Addresses            \* for each of them, the values of `to` it listens to

VARIABLES
    sent,                \* the transfers sent so far: [to, ...], `to` being an address
    received             \* for each reader, the bag of transfers its application was given

Init ==
    /\ sent = {}
    /\ received = [n \in Readers |-> EmptyBag]

Send(t) ==
    /\ sent' = sent \cup {t}
    /\ UNCHANGED received

Receive(n, t) ==
    /\ t \in sent
    /\ t.to \in Addresses[n]
    /\ ~ BagIn(t, received[n])
    /\ received' = [received EXCEPT ![n] = BagAdd(@, t)]
    /\ UNCHANGED sent

Next ==
    \/ \E t \in sent' : Send(t)
    \/ \E n \in Readers, t \in sent : Receive(n, t)

Spec == Init /\ [][Next]_<< sent, received >>
==============================================================================
