--------------------------- MODULE MCOutboxRelay ---------------------------
(* Two relays draining one aggregate. *)
EXTENDS OutboxRelay

CONSTANTS post1, relayA, relayB

OneAggregate == {post1}
OneRelay == {relayA}
TwoRelays == {relayA, relayB}
=============================================================================
