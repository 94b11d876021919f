---------------------------- MODULE AtLeastOnce ----------------------------
(***************************************************************************)
(* What the outbox promises its producers (docs/adr/0001: at-least-once    *)
(* publication of committed events): an event reaches its topic only after *)
(* the transaction that wrote it has committed, it is given up as done     *)
(* only after it reached the topic, and every accepted event does reach    *)
(* the topic.                                                              *)
(***************************************************************************)
CONSTANT Events

VARIABLES
    accepted,   \* events whose transaction has committed
    delivered,  \* events on their topic
    settled     \* events nobody will try to deliver again

vars == <<accepted, delivered, settled>>

Init == accepted = {} /\ delivered = {} /\ settled = {}

Accept(e) ==
    /\ e \notin accepted
    /\ accepted' = accepted \cup {e}
    /\ UNCHANGED <<delivered, settled>>

Deliver(e) ==
    /\ e \in accepted \ delivered
    /\ delivered' = delivered \cup {e}
    /\ UNCHANGED <<accepted, settled>>

Settle(e) ==
    /\ e \in delivered \ settled
    /\ settled' = settled \cup {e}
    /\ UNCHANGED <<accepted, delivered>>

Next == \E e \in Events : Accept(e) \/ Deliver(e) \/ Settle(e)

Safety == Init /\ [][Next]_vars

Spec == Safety /\ \A e \in Events : WF_vars(Deliver(e))
=============================================================================
