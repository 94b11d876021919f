-------------------------- MODULE MCInboxConsumer --------------------------
(* Two members of one group, one subject. *)
EXTENDS InboxConsumer, TLC

CONSTANTS post1, workerA, workerB

OneSubject == {post1}
TwoWorkers == {workerA, workerB}

NoPoison == {}
ThirdIsPoison == {<<post1, 3>>}

WorkerSymmetry == Permutations(TwoWorkers)
=============================================================================
