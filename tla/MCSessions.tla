---------------------------- MODULE MCSessions ----------------------------
(* Requests of one user that run at the same time. *)
EXTENDS Sessions, TLC

CONSTANTS req1, req2

TwoRequests == {req1, req2}

RequestSymmetry == Permutations(TwoRequests)
=============================================================================
