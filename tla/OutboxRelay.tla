---------------------------- MODULE OutboxRelay ----------------------------
(***************************************************************************)
(* The transactional outbox and the relays that drain it to Kafka:         *)
(* internal/platform/outbox/store.go and internal/platform/eventing/       *)
(* relay.go.                                                               *)
(*                                                                         *)
(* An event is the change of one aggregate at one version.  A row of       *)
(* event_outbox is spread over the variables below, one per column the     *)
(* relay reads or writes.  Clock readings are abstracted to the two        *)
(* comparisons Claim makes: "available_at <= NOW()" is membership in       *)
(* available, "locked_at < NOW() - lease" is lock[e] = "expired".          *)
(*                                                                         *)
(* Claim orders its candidates by (available_at, occurred_at), two stamps  *)
(* of one-second precision taken when the producing transaction starts,    *)
(* and UPDATE ... RETURNING hands the rows over in no particular order.    *)
(* The model lets a claim take any full batch of candidates and lets the   *)
(* relay publish the batch in any order.                                   *)
(*                                                                         *)
(* Everything that can go wrong (a failed publish, a failed UPDATE, a      *)
(* process that dies) spends one unit of the budget MaxFaults.  A relay    *)
(* that is merely slow spends none: its lease may expire at any time.      *)
(***************************************************************************)
EXTENDS Naturals, FiniteSets

CONSTANTS
    Aggregates,   \* aggregate ids: the key of the Kafka records
    MaxVersion,   \* highest aggregate version a behaviour reaches
    Relays,       \* relay processes (worker ids)
    BatchSize,    \* RelayConfig.BatchSize
    MaxAttempts,  \* event_outbox.max_attempts
    MaxFaults,    \* bound on injected faults
    NoEvent       \* "no event in hand"

Events == Aggregates \X (1..MaxVersion)

ASSUME OutboxRelayAssumption ==
    /\ IsFiniteSet(Relays)
    /\ MaxVersion \in Nat \ {0}
    /\ BatchSize \in Nat \ {0}
    /\ MaxAttempts \in Nat \ {0}
    /\ MaxFaults \in Nat
    /\ NoEvent \notin Events

VARIABLES
    rows,        \* ids of the committed rows of event_outbox
    available,   \* rows with available_at <= NOW()
    lock,        \* locked_at: "free" (NULL), "held" (within the lease) or "expired"
    attempts,    \* attempts column
    published,   \* rows with published_at set
    batch,       \* batch[r]: rows relay r claimed and has not published yet
    pc,          \* pc[r]: the statement of runBatch relay r is about to run
    cur,         \* cur[r]: the record of the current loop iteration
    sent,        \* sent[e]: copies of e appended to its Kafka topic
    faults,      \* faults injected so far
    overruns     \* overruns[e]: leases on e that expired under a working relay

rowVars == <<rows, available, lock, attempts, published>>
relayVars == <<batch, pc, cur>>
vars == <<rowVars, relayVars, sent, faults, overruns>>

OnTopic == {e \in Events : sent[e] > 0}

\* Relay r is between claiming e and finishing e.
Holds(r, e) == e \in batch[r] \/ cur[r] = e
Held(e) == \E r \in Relays : Holds(r, e)

TypeOK ==
    /\ rows \subseteq Events
    /\ available \subseteq rows
    /\ lock \in [Events -> {"free", "held", "expired"}]
    /\ attempts \in [Events -> 0..MaxAttempts]
    /\ published \subseteq rows
    /\ batch \in [Relays -> SUBSET rows]
    /\ pc \in [Relays -> {"next", "markPublished", "markFailed"}]
    /\ cur \in [Relays -> rows \cup {NoEvent}]
    /\ \A r \in Relays : pc[r] = "next" <=> cur[r] = NoEvent
    /\ sent \in [Events -> Nat]
    /\ faults \in 0..MaxFaults
    /\ overruns \in [Events -> Nat]

Init ==
    /\ rows = {}
    /\ available = {}
    /\ lock = [e \in Events |-> "free"]
    /\ attempts = [e \in Events |-> 0]
    /\ published = {}
    /\ batch = [r \in Relays |-> {}]
    /\ pc = [r \in Relays |-> "next"]
    /\ cur = [r \in Relays |-> NoEvent]
    /\ sent = [e \in Events |-> 0]
    /\ faults = 0
    /\ overruns = [e \in Events |-> 0]

Fault == faults < MaxFaults /\ faults' = faults + 1

-----------------------------------------------------------------------------
(* The producing transaction.                                              *)

\* A domain transaction commits the next version of an aggregate together
\* with its outbox row.  A rolled back transaction leaves no trace.
Enqueue(a, v) ==
    /\ <<a, v>> \notin rows
    /\ \A u \in 1..MaxVersion : u < v => <<a, u>> \in rows
    /\ rows' = rows \cup {<<a, v>>}
    /\ available' = available \cup {<<a, v>>}
    /\ UNCHANGED <<lock, attempts, published, relayVars, sent, faults, overruns>>

-----------------------------------------------------------------------------
(* Time.                                                                   *)

\* The delay MarkFailed wrote into available_at has passed.
BackoffElapses(e) ==
    /\ e \in rows \ available
    /\ available' = available \cup {e}
    /\ UNCHANGED <<rows, lock, attempts, published, relayVars, sent, faults, overruns>>

\* locked_at falls behind the lease, whether or not a relay still works on e.
LeaseExpires(e) ==
    /\ lock[e] = "held"
    /\ lock' = [lock EXCEPT ![e] = "expired"]
    /\ overruns' = IF Held(e) THEN [overruns EXCEPT ![e] = @ + 1] ELSE overruns
    /\ UNCHANGED <<rows, available, attempts, published, relayVars, sent, faults>>

-----------------------------------------------------------------------------
(* The relay: one runBatch after another.                                  *)

\* Mutants of the WHERE clause: without "attempts < max_attempts", without the
\* test of locked_at, and with "locked_at IS NULL" alone.
CandidatesUnlimited == {e \in rows \ published : e \in available /\ lock[e] # "held"}
CandidatesUnlocked ==
    {e \in rows \ published : e \in available /\ attempts[e] < MaxAttempts}
CandidatesNeverReclaimed ==
    {e \in rows \ published : /\ attempts[e] < MaxAttempts
                              /\ e \in available
                              /\ lock[e] = "free"}

\* The WHERE clause of Claim.
Candidates ==
    {e \in rows \ published : /\ attempts[e] < MaxAttempts
                              /\ e \in available
                              /\ lock[e] # "held"}

\* LIMIT: a full batch, or every candidate when there are fewer.
Batches ==
    {S \in SUBSET Candidates : /\ S # {}
                               /\ \/ S = Candidates /\ Cardinality(S) <= BatchSize
                                  \/ Cardinality(S) = BatchSize}

Idle(r) == pc[r] = "next" /\ batch[r] = {}

\* The UPDATE of Claim: stamps the lock and charges an attempt to every row.
Stamp(S) ==
    /\ lock' = [e \in Events |-> IF e \in S THEN "held" ELSE lock[e]]
    /\ attempts' = [e \in Events |-> IF e \in S THEN attempts[e] + 1 ELSE attempts[e]]
    /\ UNCHANGED <<rows, available, published>>

Claim(r) ==
    /\ Idle(r)
    /\ \E S \in Batches : Stamp(S) /\ batch' = [batch EXCEPT ![r] = S]
    /\ UNCHANGED <<pc, cur, sent, faults, overruns>>

\* Claim commits but its reply is lost: runBatch returns the error, the rows
\* stay locked and nobody works on them.
ClaimReplyLost(r) ==
    /\ Idle(r)
    /\ Fault
    /\ \E S \in Batches : Stamp(S)
    /\ UNCHANGED <<relayVars, sent, overruns>>

\* The loop of runBatch moves on to e and calls Publish, which leaves the
\* relay at statement s.
Take(r, e, s) ==
    /\ pc[r] = "next"
    /\ e \in batch[r]
    /\ batch' = [batch EXCEPT ![r] = @ \ {e}]
    /\ cur' = [cur EXCEPT ![r] = e]
    /\ pc' = [pc EXCEPT ![r] = s]

AppendToTopic(e) == sent' = [sent EXCEPT ![e] = @ + 1]

PublishOK(r) ==
    \E e \in Events :
        /\ Take(r, e, "markPublished")
        /\ AppendToTopic(e)
        /\ UNCHANGED <<rowVars, faults, overruns>>

\* Publish returns an error.  The broker may have appended the record all the
\* same, when only the acknowledgement was lost.
PublishError(r) ==
    \E e \in Events :
        /\ Take(r, e, "markFailed")
        /\ Fault
        /\ AppendToTopic(e) \/ UNCHANGED sent
        /\ UNCHANGED <<rowVars, overruns>>

NextRecord(r) ==
    /\ pc' = [pc EXCEPT ![r] = "next"]
    /\ cur' = [cur EXCEPT ![r] = NoEvent]
    /\ UNCHANGED batch

\* UPDATE by id alone: neither the lock owner nor published_at is compared.
MarkPublished(r) ==
    /\ pc[r] = "markPublished"
    /\ published' = published \cup {cur[r]}
    /\ lock' = [lock EXCEPT ![cur[r]] = "free"]
    /\ NextRecord(r)
    /\ UNCHANGED <<rows, available, attempts, sent, faults, overruns>>

\* Mutant: the failure path also resets published_at.
MarkFailedReopens(r) ==
    /\ pc[r] = "markFailed"
    /\ available' = available \ {cur[r]}
    /\ published' = published \ {cur[r]}
    /\ lock' = [lock EXCEPT ![cur[r]] = "free"]
    /\ NextRecord(r)
    /\ UNCHANGED <<rows, attempts, sent, faults, overruns>>

\* UPDATE by id alone: clears whatever lock the row has by now.
MarkFailed(r) ==
    /\ pc[r] = "markFailed"
    /\ available' = available \ {cur[r]}
    /\ lock' = [lock EXCEPT ![cur[r]] = "free"]
    /\ NextRecord(r)
    /\ UNCHANGED <<rows, attempts, published, sent, faults, overruns>>

\* runBatch is left early, with the rest of the batch still locked: one of
\* the two UPDATEs failed, the context was cancelled, or the process died.
Abandon(r) ==
    /\ ~ Idle(r)
    /\ Fault
    /\ batch' = [batch EXCEPT ![r] = {}]
    /\ pc' = [pc EXCEPT ![r] = "next"]
    /\ cur' = [cur EXCEPT ![r] = NoEvent]
    /\ UNCHANGED <<rowVars, sent, overruns>>

-----------------------------------------------------------------------------
RelayStep(r) == PublishOK(r) \/ MarkPublished(r) \/ MarkFailed(r)

Next ==
    \/ \E a \in Aggregates, v \in 1..MaxVersion : Enqueue(a, v)
    \/ \E e \in Events : BackoffElapses(e) \/ LeaseExpires(e)
    \/ \E r \in Relays :
          \/ Claim(r)
          \/ ClaimReplyLost(r)
          \/ PublishOK(r)
          \/ PublishError(r)
          \/ MarkPublished(r)
          \/ MarkFailed(r)
          \/ Abandon(r)

Spec == Init /\ [][Next]_vars

\* Run polls on a ticker and its loop body never blocks for ever (every call
\* carries a timeout or a context), so each relay keeps claiming and keeps
\* working through its batch; time passes.
Fairness ==
    /\ \A r \in Relays : WF_vars(Claim(r)) /\ WF_vars(RelayStep(r))
    /\ \A e \in Events : WF_vars(BackoffElapses(e)) /\ WF_vars(LeaseExpires(e))

FairSpec == Spec /\ Fairness
-----------------------------------------------------------------------------
(* Properties.                                                             *)

\* A row is marked published only once its event is on the topic: no order
\* of slow relays, late updates and crashes sets published_at first
\* (relay.go runBatch publishes, then marks).  PublishesAtLeastOnce implies it; it
\* is the part of the proofs' invariant that says so.
PublishedOnTopic == published \subseteq OnTopic

\* A published row is never claimed again and never becomes unpublished, not
\* even when a relay that lost its lease reports a failure for it afterwards
\* (store.go MarkFailed updates by id alone).
PublishedIsFinal ==
    [][\A e \in published : e \in published' /\ attempts'[e] = attempts[e]]_vars

\* Every copy of an event beyond the first is the trace of one fault or of one
\* lease that ran out under a working relay: FOR UPDATE SKIP LOCKED and the
\* lease never hand a row to two relays otherwise.
DuplicatesAccounted ==
    \A e \in Events : sent[e] <= 1 + faults + overruns[e]

\* Why DuplicatesAccounted is inductive: the relays that may still append e or
\* hand it back, plus the next claim of e when nothing stands in its way, are
\* already paid for.
Workers(e) ==
    {r \in Relays : e \in batch[r] \/ (pc[r] = "markFailed" /\ cur[r] = e)}
NextClaim(e) == IF e \notin published /\ (lock[e] # "held" \/ ~ Held(e)) THEN 1 ELSE 0

WithinBudget(e) ==
    sent[e] + Cardinality(Workers(e)) + NextClaim(e) <= 1 + faults + overruns[e]

DuplicateBudget == \A e \in Events : WithinBudget(e)

\* What a relay has in its hand: a record it is about to mark published is on
\* the topic, and it will not meet that record again in its batch.
InHand ==
    \A r \in Relays :
        /\ cur[r] \notin batch[r]
        /\ pc[r] = "markPublished" => cur[r] \in OnTopic

\* The outbox implements at-least-once publication: a committed event reaches
\* the topic although relays crash and publishes fail, as long as it meets
\* fewer faults than max_attempts.
Promise == INSTANCE AtLeastOnce WITH
    accepted <- rows, delivered <- OnTopic, settled <- published

PublishesAtLeastOnce == Promise!Spec

\* docs/eventing/topic-catalog.md: "Preserve outbox order for each aggregate."
\* Here: while a row that was tried and failed waits for its next attempt, no
\* later version of the same aggregate is published for the first time.
WaitsForRetry(e) ==
    /\ e \in rows \ (published \cup OnTopic)
    /\ attempts[e] > 0
    /\ lock[e] = "free"

OutboxOrderPreserved ==
    [][\A a \in Aggregates, u, v \in 1..MaxVersion :
          /\ u < v
          /\ WaitsForRetry(<<a, u>>)
          /\ sent[<<a, v>>] = 0
          => sent'[<<a, v>>] = 0]_vars
=============================================================================
