---------------------------- MODULE AtMostOnce ----------------------------
(***************************************************************************)
(* What a consumer group promises its handlers (docs/adr/0001: consumers   *)
(* are idempotent by event id): the effect of an event is committed only   *)
(* when the topic carries the event, at most once however often it is      *)
(* delivered, and in one step with the newest version of its subject; only *)
(* events of the topic are given up.  The versions of a subject may take   *)
(* effect in any order, and an event may take effect and be given up too.  *)
(***************************************************************************)
EXTENDS Naturals

CONSTANTS Subjects, MaxVersion

VARIABLES
    offered,    \* events the primary topic carries
    effects,    \* effects[e]: committed executions of e's handler
    newest,     \* newest[s]: the highest version applied, 0: none
    letters     \* events given up as dead letters

Events == Subjects \X (1..MaxVersion)

vars == <<offered, effects, newest, letters>>

Init ==
    /\ offered = {} /\ letters = {}
    /\ effects = [e \in Events |-> 0]
    /\ newest = [s \in Subjects |-> 0]

Offer(e) ==
    /\ e \notin offered
    /\ offered' = offered \cup {e}
    /\ UNCHANGED <<effects, newest, letters>>

Apply(e) ==
    /\ e \in offered
    /\ effects[e] = 0
    /\ effects' = [effects EXCEPT ![e] = 1]
    /\ newest' = [newest EXCEPT ![e[1]] = IF @ < e[2] THEN e[2] ELSE @]
    /\ UNCHANGED <<offered, letters>>

GiveUp(e) ==
    /\ e \in offered \ letters
    /\ letters' = letters \cup {e}
    /\ UNCHANGED <<offered, effects, newest>>

Next == \E e \in Events : Offer(e) \/ Apply(e) \/ GiveUp(e)

Spec == Init /\ [][Next]_vars
=============================================================================
