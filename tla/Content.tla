------------------------------ MODULE Content ------------------------------
(***************************************************************************)
(* Posts and files beside each other in the API processes; they share the  *)
(* bound on the requests that arrive.                                      *)
(***************************************************************************)
EXTENDS Posts, Files

CONSTANT MaxArrivals        \* bound on requests and list walks together

ASSUME ContentAssumption == MaxArrivals \in Nat

VARIABLE arrivals           \* requests and list walks so far

vars == <<postVars, fileVars, arrivals>>

Init == PostInit /\ FileInit /\ arrivals = 0

Arrive == arrivals < MaxArrivals /\ arrivals' = arrivals + 1

Next ==
    \/ PostArrival /\ Arrive /\ UNCHANGED fileVars
    \/ PostStep /\ UNCHANGED <<fileVars, arrivals>>
    \/ FileArrival /\ Arrive /\ UNCHANGED postVars
    \/ FileStep /\ UNCHANGED <<postVars, arrivals>>

\* The worker goes on: a try of its handler ends in success or failure.
Spec == Init /\ [][Next]_vars
FairSpec == Spec /\ WF_vars(\E u \in Uploads : HandleDeleted(u) /\ UNCHANGED <<postVars, arrivals>>)

\* The tables and the requests have their types.
TypeOK ==
    /\ posts \in Seq(Post) /\ postEvents \in Seq(PostEvent)
    /\ \A r \in Requests : call[r].step = "read" => call[r].row \in Post
    /\ walk.steady \subseteq DOMAIN posts
    /\ upload \in [Uploads -> UploadSteps]
    /\ replaced \in [Uploads -> Uploads \cup {NoFile}] /\ slot \in Uploads \cup {NoFile}
    /\ blobs \in [Uploads -> {"none", "partial", "whole"}]
    /\ rows \in [Uploads -> {"none", "live", "deleted", "retired"}]
    /\ \A u \in Uploads : attempts[u] \in 0..MaxAttempts /\ announced[u] \in Nat
    /\ handled \subseteq Uploads
    /\ arrivals \in 0..MaxArrivals

=============================================================================
