------------------------------- MODULE MCEdge -------------------------------
(* The read and the auth tier count under the address of the client. *)
EXTENDS Edge

TwoSlots == {"blue", "green"}
SmallLimits == [read |-> 3, auth |-> 1, write |-> 1]
SourceKeys == [read |-> "ip", auth |-> "ip", write |-> "user"]
=============================================================================
