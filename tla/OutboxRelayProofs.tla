------------------------- MODULE OutboxRelayProofs -------------------------
(***************************************************************************)
(* Proofs about the outbox and its relays, for every set of aggregates and *)
(* relays and every value of the bounds.                                   *)
(***************************************************************************)
EXTENDS OutboxRelay, FiniteSetTheorems, TLAPS

\* Every value the variables take is of its type; in particular a claim never
\* pushes attempts beyond max_attempts (store.go Claim).
THEOREM TypeCorrect == Spec => []TypeOK
<1>1. Init => TypeOK
  BY OutboxRelayAssumption DEF Init, TypeOK
<1>2. TypeOK /\ [Next]_vars => TypeOK'
  <2> SUFFICES ASSUME TypeOK, [Next]_vars PROVE TypeOK'
    OBVIOUS
  <2> USE OutboxRelayAssumption DEF TypeOK, Fault, rowVars, relayVars
  <2>1. ASSUME NEW a \in Aggregates, NEW v \in 1..MaxVersion, Enqueue(a, v) PROVE TypeOK'
    BY <2>1 DEF Enqueue, Events
  <2>2. ASSUME NEW e \in Events, BackoffElapses(e) PROVE TypeOK'
    BY <2>2 DEF BackoffElapses
  <2>3. ASSUME NEW e \in Events, LeaseExpires(e) PROVE TypeOK'
    BY <2>3 DEF LeaseExpires
  <2>4. ASSUME NEW S \in Batches, Stamp(S)
        PROVE  /\ S \in SUBSET rows
               /\ lock' \in [Events -> {"free", "held", "expired"}]
               /\ attempts' \in [Events -> 0..MaxAttempts]
    BY <2>4 DEF Stamp, Batches, Candidates
  <2>5. ASSUME NEW r \in Relays, Claim(r) PROVE TypeOK'
    <3>1. PICK S \in Batches : Stamp(S) /\ batch' = [batch EXCEPT ![r] = S]
      BY <2>5 DEF Claim
    <3>2. QED BY <2>4, <2>5, <3>1 DEF Claim, Stamp
  <2>6. ASSUME NEW r \in Relays, ClaimReplyLost(r) PROVE TypeOK'
    <3>1. PICK S \in Batches : Stamp(S)
      BY <2>6 DEF ClaimReplyLost
    <3>2. QED BY <2>4, <2>6, <3>1 DEF ClaimReplyLost, Stamp
  <2>7. ASSUME NEW r \in Relays, NEW e \in Events, NEW s \in {"markPublished", "markFailed"},
               Take(r, e, s)
        PROVE  /\ batch' \in [Relays -> SUBSET rows]
               /\ pc' \in [Relays -> {"next", "markPublished", "markFailed"}]
               /\ cur' \in [Relays -> rows \cup {NoEvent}]
               /\ \A q \in Relays : pc'[q] = "next" <=> cur'[q] = NoEvent
    BY <2>7 DEF Take
  <2>8. ASSUME NEW r \in Relays, PublishOK(r) PROVE TypeOK'
    <3>1. PICK e \in Events : Take(r, e, "markPublished") /\ AppendToTopic(e)
                              /\ UNCHANGED <<rowVars, faults, overruns>>
      BY <2>8 DEF PublishOK
    <3>2. QED BY <2>7, <3>1 DEF AppendToTopic
  <2>9. ASSUME NEW r \in Relays, PublishError(r) PROVE TypeOK'
    <3>1. PICK e \in Events : /\ Take(r, e, "markFailed")
                              /\ Fault
                              /\ AppendToTopic(e) \/ UNCHANGED sent
                              /\ UNCHANGED <<rowVars, overruns>>
      BY <2>9 DEF PublishError
    <3>2. sent' \in [Events -> Nat]
      BY <3>1 DEF AppendToTopic
    <3>3. QED BY <2>7, <3>1, <3>2
  <2>10. ASSUME NEW r \in Relays, MarkPublished(r) PROVE TypeOK'
    BY <2>10 DEF MarkPublished, NextRecord
  <2>11. ASSUME NEW r \in Relays, MarkFailed(r) PROVE TypeOK'
    BY <2>11 DEF MarkFailed, NextRecord
  <2>12. ASSUME NEW r \in Relays, Abandon(r) PROVE TypeOK'
    BY <2>12 DEF Abandon
  <2>13. CASE UNCHANGED vars
    BY <2>13 DEF vars
  <2>14. QED
    BY <2>1, <2>2, <2>3, <2>5, <2>6, <2>8, <2>9, <2>10, <2>11, <2>12, <2>13 DEF Next
<1>3. QED BY <1>1, <1>2, PTL DEF Spec

-----------------------------------------------------------------------------
(* Publish first, mark second.                                             *)

IInv == TypeOK /\ InHand /\ PublishedOnTopic

LEMMA IInvInitially == Init => IInv
  BY OutboxRelayAssumption DEF Init, IInv, TypeOK, InHand, PublishedOnTopic

LEMMA NoEventIsNoEvent == TypeOK => NoEvent \notin rows
  BY OutboxRelayAssumption DEF TypeOK

\* The topic is append-only: a step never removes an event from it.
LEMMA TopicGrows == ASSUME TypeOK, [Next]_vars PROVE OnTopic \subseteq OnTopic'
<1>1. ASSUME NEW e \in Events, AppendToTopic(e) PROVE OnTopic \subseteq OnTopic'
  BY <1>1 DEF AppendToTopic, OnTopic, TypeOK
<1>2. UNCHANGED sent => OnTopic \subseteq OnTopic'
  BY DEF OnTopic
<1>3. QED
  BY <1>1, <1>2 DEF Next, vars, Enqueue, BackoffElapses, LeaseExpires, Claim, ClaimReplyLost,
     PublishOK, PublishError, MarkPublished, MarkFailed, Abandon, Stamp

LEMMA IInvPreserved == IInv /\ TypeOK' /\ [Next]_vars => IInv'
<1> SUFFICES ASSUME IInv, TypeOK', [Next]_vars PROVE InHand' /\ PublishedOnTopic'
  BY DEF IInv
<1>0. OnTopic \subseteq OnTopic' /\ NoEvent \notin rows
  BY TopicGrows, NoEventIsNoEvent DEF IInv
<1> USE DEF IInv, TypeOK, InHand, PublishedOnTopic, rowVars, relayVars
<1>1. ASSUME NEW a \in Aggregates, NEW v \in 1..MaxVersion, Enqueue(a, v)
      PROVE InHand' /\ PublishedOnTopic'
  BY <1>0, <1>1 DEF Enqueue
<1>2. ASSUME NEW e \in Events, BackoffElapses(e) \/ LeaseExpires(e)
      PROVE InHand' /\ PublishedOnTopic'
  BY <1>0, <1>2 DEF BackoffElapses, LeaseExpires
<1>3. ASSUME NEW r \in Relays, Claim(r) PROVE InHand' /\ PublishedOnTopic'
  <2>1. PICK S \in Batches : Stamp(S) /\ batch' = [batch EXCEPT ![r] = S]
    BY <1>3 DEF Claim
  <2>2. S \subseteq rows
    BY DEF Batches, Candidates
  <2>3. NoEvent \notin S
    BY <1>0, <2>2
  <2>4. QED BY <1>0, <1>3, <2>1, <2>3 DEF Claim, Stamp, Idle
<1>4. ASSUME NEW r \in Relays, ClaimReplyLost(r) PROVE InHand' /\ PublishedOnTopic'
  BY <1>0, <1>4 DEF ClaimReplyLost, Stamp
<1>5. ASSUME NEW r \in Relays, PublishOK(r) PROVE InHand' /\ PublishedOnTopic'
  <2>1. PICK e \in Events : Take(r, e, "markPublished") /\ AppendToTopic(e) /\ UNCHANGED rowVars
    BY <1>5 DEF PublishOK
  <2>2. e \in OnTopic'
    BY <2>1 DEF AppendToTopic, OnTopic
  <2>3. QED BY <1>0, <2>1, <2>2 DEF Take
<1>6. ASSUME NEW r \in Relays, PublishError(r) PROVE InHand' /\ PublishedOnTopic'
  <2>1. PICK e \in Events : Take(r, e, "markFailed") /\ UNCHANGED rowVars
    BY <1>6 DEF PublishError
  <2>2. QED BY <1>0, <2>1 DEF Take
<1>7. ASSUME NEW r \in Relays, MarkPublished(r) PROVE InHand' /\ PublishedOnTopic'
  BY <1>0, <1>7 DEF MarkPublished, NextRecord
<1>8. ASSUME NEW r \in Relays, MarkFailed(r) PROVE InHand' /\ PublishedOnTopic'
  BY <1>0, <1>8 DEF MarkFailed, NextRecord
<1>9. ASSUME NEW r \in Relays, Abandon(r) PROVE InHand' /\ PublishedOnTopic'
  BY <1>0, <1>9 DEF Abandon
<1>10. CASE UNCHANGED vars
  BY <1>0, <1>10 DEF vars
<1>11. QED
  BY <1>1, <1>2, <1>3, <1>4, <1>5, <1>6, <1>7, <1>8, <1>9, <1>10 DEF Next

LEMMA IInvCorrect == Spec => []IInv
<1>1. Spec => []TypeOK
  BY TypeCorrect
<1>2. QED BY <1>1, IInvInitially, IInvPreserved, PTL DEF Spec

\* published_at is set only for events that are on the topic (relay.go
\* runBatch), in every interleaving of relays, slow or crashed.
THEOREM PublishedOnTopicCorrect == Spec => []PublishedOnTopic
  BY IInvCorrect, PTL DEF IInv

\* A published row is final: the claim filters it out and no late MarkFailed
\* reopens it (store.go Claim, MarkFailed).
THEOREM PublishedIsFinalCorrect == Spec => PublishedIsFinal
<1> DEFINE Final == \A e \in published : e \in published' /\ attempts'[e] = attempts[e]
<1>1. ASSUME TypeOK, [Next]_vars PROVE Final
  <2> USE <1>1 DEF TypeOK, rowVars
  <2>1. ASSUME NEW S \in Batches, Stamp(S) PROVE Final
    BY <2>1 DEF Stamp, Batches, Candidates
  <2>2. UNCHANGED <<published, attempts>> => Final
    OBVIOUS
  <2>3. QED
    BY <1>1, <2>1, <2>2 DEF Next, vars, Enqueue, BackoffElapses, LeaseExpires, Claim,
       ClaimReplyLost, PublishOK, PublishError, MarkPublished, MarkFailed, Abandon
<1>2. TypeOK /\ [Next]_vars => [Final]_vars
  BY <1>1
<1>3. Spec => [][Final]_vars
  BY <1>2, TypeCorrect, PTL DEF Spec
<1>4. QED BY <1>3 DEF PublishedIsFinal

-----------------------------------------------------------------------------
(* The outbox implements the promise of AtLeastOnce, safety part.          *)

LEMMA PromiseInitially == Init => Promise!Init
  BY DEF Init, Promise!Init, OnTopic

LEMMA PromiseStep == ASSUME IInv, TypeOK', [Next]_vars
                     PROVE  [Promise!Next]_(Promise!vars)
<1> DEFINE Mapped == <<rows, OnTopic, published>>
           Step == Promise!Next \/ UNCHANGED Mapped
<1> USE DEF IInv, TypeOK, rowVars, relayVars
<1>0. UNCHANGED sent => OnTopic' = OnTopic
  BY DEF OnTopic
<1>1. ASSUME NEW a \in Aggregates, NEW v \in 1..MaxVersion, Enqueue(a, v) PROVE Step
  <2>1. <<a, v>> \in Events
    BY DEF Events
  <2>2. Promise!Accept(<<a, v>>)
    BY <1>0, <1>1 DEF Enqueue, Promise!Accept
  <2>3. QED BY <2>1, <2>2 DEF Promise!Next
<1>2. ASSUME NEW e \in Events, BackoffElapses(e) \/ LeaseExpires(e) PROVE Step
  BY <1>0, <1>2 DEF BackoffElapses, LeaseExpires
<1>3. ASSUME NEW r \in Relays, Claim(r) \/ ClaimReplyLost(r) PROVE Step
  BY <1>0, <1>3 DEF Claim, ClaimReplyLost, Stamp
<1>4. ASSUME NEW e \in rows, AppendToTopic(e), UNCHANGED rowVars PROVE Step
  <2>1. OnTopic' = OnTopic \cup {e}
    BY <1>4 DEF AppendToTopic, OnTopic
  <2>2. CASE e \in OnTopic
    BY <1>4, <2>1, <2>2
  <2>3. CASE e \notin OnTopic
    <3>1. Promise!Deliver(e)
      BY <1>4, <2>1, <2>3 DEF Promise!Deliver
    <3>2. QED BY <3>1 DEF Promise!Next
  <2>4. QED BY <2>2, <2>3
<1>5. ASSUME NEW r \in Relays, PublishOK(r) PROVE Step
  <2>1. PICK e \in Events : /\ Take(r, e, "markPublished")
                            /\ AppendToTopic(e)
                            /\ UNCHANGED <<rowVars, faults, overruns>>
    BY <1>5 DEF PublishOK
  <2>2. QED BY <1>4, <2>1 DEF Take
<1>6. ASSUME NEW r \in Relays, PublishError(r) PROVE Step
  <2>1. PICK e \in Events : /\ Take(r, e, "markFailed")
                            /\ AppendToTopic(e) \/ UNCHANGED sent
                            /\ UNCHANGED <<rowVars, overruns>>
    BY <1>6 DEF PublishError
  <2>2. QED BY <1>0, <1>4, <2>1 DEF Take
<1>7. ASSUME NEW r \in Relays, MarkPublished(r) PROVE Step
  <2>1. /\ UNCHANGED <<rows, OnTopic>>
        /\ published' = published \cup {cur[r]}
        /\ cur[r] \in OnTopic
    BY <1>0, <1>7 DEF MarkPublished, InHand
  <2>2. CASE cur[r] \in published
    BY <2>1, <2>2
  <2>3. CASE cur[r] \notin published
    <3>1. Promise!Settle(cur[r]) /\ cur[r] \in Events
      BY <2>1, <2>3 DEF Promise!Settle, OnTopic
    <3>2. QED BY <3>1 DEF Promise!Next
  <2>4. QED BY <2>2, <2>3
<1>8. ASSUME NEW r \in Relays, MarkFailed(r) \/ Abandon(r) PROVE Step
  BY <1>0, <1>8 DEF MarkFailed, Abandon
<1>9. ASSUME UNCHANGED vars PROVE Step
  BY <1>0, <1>9 DEF vars
<1>10. Step
  BY <1>1, <1>2, <1>3, <1>5, <1>6, <1>7, <1>8, <1>9 DEF Next
<1>11. QED BY <1>10 DEF Promise!vars

\* Refinement: only committed events reach the topic, and only events that
\* reached it are ever settled.
THEOREM ImplementsPromise == Spec => Promise!Safety
<1>1. IInv /\ IInv' /\ [Next]_vars => [Promise!Next]_(Promise!vars)
  BY PromiseStep DEF IInv
<1>2. QED BY <1>1, PromiseInitially, IInvCorrect, PTL DEF Spec, Promise!Safety

-----------------------------------------------------------------------------
(* No copy without a cause.                                                *)

LEMMA WorkersFinite ==
    ASSUME NEW e \in Events
    PROVE  IsFiniteSet(Workers(e)) /\ Cardinality(Workers(e)) \in Nat
  BY OutboxRelayAssumption, FS_Subset, FS_CardinalityType DEF Workers

LEMMA BudgetInitially == Init => DuplicateBudget
<1> SUFFICES ASSUME Init, NEW e \in Events PROVE WithinBudget(e)
  BY DEF DuplicateBudget
<1>1. Workers(e) = {}
  BY DEF Init, Workers
<1>2. Cardinality(Workers(e)) = 0
  BY <1>1, FS_EmptySet
<1>3. QED BY <1>2 DEF Init, NextClaim, WithinBudget

\* The number of workers when relay r may take up e, and when it lets go of e.
LEMMA WorkersChange ==
    ASSUME NEW e \in Events, NEW r \in Relays
    PROVE  /\ Workers(e)' \subseteq Workers(e) \cup {r}
                 => Cardinality(Workers(e)') <= Cardinality(Workers(e)) + 1
           /\ Workers(e)' \subseteq Workers(e)
                 => Cardinality(Workers(e)') <= Cardinality(Workers(e))
           /\ r \in Workers(e) /\ Workers(e)' = Workers(e) \ {r}
                 => Cardinality(Workers(e)') = Cardinality(Workers(e)) - 1
           /\ Cardinality(Workers(e)') \in Nat
<1> DEFINE W == Workers(e)
           V == Workers(e)'
<1>1. IsFiniteSet(W) /\ Cardinality(W) \in Nat
  BY WorkersFinite
<1>2. IsFiniteSet(V) /\ Cardinality(V) \in Nat
  <2>1. V \in SUBSET Relays
    BY DEF Workers
  <2>2. QED BY <2>1, OutboxRelayAssumption, FS_Subset, FS_CardinalityType
<1> HIDE DEF W, V
<1>3. V \subseteq W => Cardinality(V) <= Cardinality(W)
  BY <1>1, FS_Subset
<1>4. IsFiniteSet(W \cup {r}) /\ Cardinality(W \cup {r}) <= Cardinality(W) + 1
  BY <1>1, FS_AddElement
<1>5. V \subseteq W \cup {r} => Cardinality(V) <= Cardinality(W \cup {r})
  BY <1>4, FS_Subset
<1>6. Cardinality(W \cup {r}) \in Nat
  BY <1>4, FS_CardinalityType
<1>7. r \in W /\ V = W \ {r} => Cardinality(V) = Cardinality(W) - 1
  BY <1>1, FS_RemoveElement
<1>8. V \subseteq W \cup {r} => Cardinality(V) <= Cardinality(W) + 1
  BY <1>1, <1>2, <1>4, <1>5, <1>6
<1>9. QED BY <1>2, <1>3, <1>7, <1>8 DEF W, V

\* A step that leaves e alone, or that spends a unit of budget on it.
LEMMA BudgetKept ==
    ASSUME TypeOK, TypeOK', NEW e \in Events, WithinBudget(e),
           Workers(e)' \subseteq Workers(e),
           \/ /\ sent'[e] = sent[e]
              /\ NextClaim(e)' = NextClaim(e)
              /\ faults' >= faults
              /\ overruns'[e] >= overruns[e]
           \/ /\ sent'[e] = sent[e]
              /\ faults' + overruns'[e] = faults + overruns[e] + 1
           \/ /\ sent'[e] <= sent[e] + 1
              /\ NextClaim(e)' = NextClaim(e)
              /\ faults' + overruns'[e] = faults + overruns[e] + 1
    PROVE  WithinBudget(e)'
<1>1. /\ Cardinality(Workers(e)) \in Nat
      /\ Cardinality(Workers(e)') \in Nat
      /\ Cardinality(Workers(e)') <= Cardinality(Workers(e))
  <2>1. CASE Relays = {}
    <3>1. Workers(e) = {} /\ Workers(e)' = {}
      BY <2>1 DEF Workers
    <3>2. QED BY <3>1, FS_EmptySet
  <2>2. CASE \E r \in Relays : TRUE
    BY <2>2, WorkersChange, WorkersFinite
  <2>3. QED BY <2>1, <2>2
<1>2. NextClaim(e) \in {0, 1} /\ NextClaim(e)' \in {0, 1}
  BY DEF NextClaim
<1>3. /\ sent[e] \in Nat /\ sent'[e] \in Nat /\ faults \in Nat /\ faults' \in Nat
      /\ overruns[e] \in Nat /\ overruns'[e] \in Nat
  BY OutboxRelayAssumption DEF TypeOK
<1>4. QED BY <1>1, <1>2, <1>3 DEF WithinBudget

LEMMA BudgetPreserved ==
    ASSUME IInv, TypeOK', DuplicateBudget, [Next]_vars PROVE DuplicateBudget'
<1> SUFFICES ASSUME NEW e \in Events, WithinBudget(e) PROVE WithinBudget(e)'
  BY DEF DuplicateBudget
<1>0. TypeOK /\ InHand /\ NoEvent \notin rows /\ e # NoEvent
  BY NoEventIsNoEvent, OutboxRelayAssumption DEF IInv
<1>a. /\ sent[e] \in Nat /\ faults \in Nat /\ overruns[e] \in Nat
      /\ NextClaim(e) \in {0, 1} /\ NextClaim(e)' \in {0, 1}
  BY <1>0, OutboxRelayAssumption DEF TypeOK, NextClaim
<1> USE DEF rowVars, relayVars
<1>1. ASSUME UNCHANGED <<lock, published, relayVars, sent, faults, overruns>>
      PROVE  WithinBudget(e)'
  BY <1>1 DEF WithinBudget, Workers, NextClaim, Held, Holds
<1>2. ASSUME NEW x \in Events, LeaseExpires(x) PROVE WithinBudget(e)'
  <2>1. Workers(e)' = Workers(e) /\ Held(e)' = Held(e)
    BY <1>2 DEF LeaseExpires, Workers, Held, Holds
  <2>2. CASE x = e /\ Held(e)
    <3>1. overruns'[e] = overruns[e] + 1
      BY <1>0, <1>2, <2>2 DEF LeaseExpires, TypeOK
    <3>2. QED BY <1>0, <1>2, <1>a, <2>1, <3>1, BudgetKept DEF LeaseExpires
  <2>3. CASE x # e \/ ~ Held(e)
    <3>1. overruns'[e] = overruns[e] /\ NextClaim(e)' = NextClaim(e)
      BY <1>0, <1>2, <2>1, <2>3 DEF LeaseExpires, TypeOK, NextClaim
    <3>2. QED BY <1>0, <1>2, <1>a, <2>1, <3>1, BudgetKept DEF LeaseExpires
  <2>4. QED BY <2>2, <2>3
<1>3. ASSUME NEW r \in Relays, Claim(r) PROVE WithinBudget(e)'
  <2>1. PICK S \in Batches : Stamp(S) /\ batch' = [batch EXCEPT ![r] = S]
    BY <1>3 DEF Claim
  <2>2. CASE e \in S
    <3>1. NextClaim(e) = 1
      BY <2>2 DEF Batches, Candidates, NextClaim
    <3>2. lock'[e] = "held" /\ Holds(r, e)'
      BY <1>0, <2>1, <2>2 DEF Stamp, Holds, TypeOK
    <3>3. NextClaim(e)' = 0
      BY <3>2 DEF NextClaim, Held
    <3>4. Workers(e)' \subseteq Workers(e) \cup {r}
      BY <1>0, <1>3, <2>1 DEF Claim, Workers, TypeOK
    <3>5. QED BY <1>3, <1>a, <3>1, <3>3, <3>4, WorkersChange, WorkersFinite DEF Claim, WithinBudget
  <2>3. CASE e \notin S
    <3>1. lock'[e] = lock[e] /\ published' = published
      BY <2>1, <2>3 DEF Stamp
    <3>2. \A q \in Relays : e \in batch'[q] <=> e \in batch[q]
      BY <1>0, <1>3, <2>1, <2>3 DEF Claim, Idle, TypeOK
    <3>3. Workers(e)' = Workers(e) /\ NextClaim(e)' = NextClaim(e)
      BY <1>3, <3>1, <3>2 DEF Claim, Workers, NextClaim, Held, Holds
    <3>4. QED BY <1>0, <1>3, <1>a, <3>3, BudgetKept DEF Claim
  <2>4. QED BY <2>2, <2>3
<1>4. ASSUME NEW r \in Relays, ClaimReplyLost(r) PROVE WithinBudget(e)'
  <2>1. Workers(e)' = Workers(e) /\ faults' = faults + 1 /\ overruns' = overruns /\ sent' = sent
    BY <1>4 DEF ClaimReplyLost, Workers, Fault
  <2>2. QED BY <1>0, <1>a, <2>1, BudgetKept
\* Taking a record moves e within the hands of r, or does not touch it.
<1>5. ASSUME NEW r \in Relays, NEW x \in Events, NEW s \in {"markPublished", "markFailed"},
             Take(r, x, s), UNCHANGED <<lock, published>>
      PROVE  /\ NextClaim(e)' = NextClaim(e)
             /\ x # e => Workers(e)' = Workers(e)
             /\ x = e => r \in Workers(e)
             /\ x = e /\ s = "markPublished" => Workers(e)' = Workers(e) \ {r}
             /\ x = e /\ s = "markFailed" => Workers(e)' = Workers(e)
  <2>1. \A q \in Relays : Holds(q, e)' <=> Holds(q, e)
    BY <1>0, <1>5 DEF Take, Holds, TypeOK
  <2>2. QED BY <1>0, <1>5, <2>1 DEF Take, Workers, NextClaim, Held, TypeOK
<1>6. ASSUME NEW r \in Relays, PublishOK(r) PROVE WithinBudget(e)'
  <2>1. PICK x \in Events : /\ Take(r, x, "markPublished")
                            /\ AppendToTopic(x)
                            /\ UNCHANGED <<rowVars, faults, overruns>>
    BY <1>6 DEF PublishOK
  <2>2. CASE x = e
    <3>1. sent'[e] = sent[e] + 1
      BY <1>0, <2>1, <2>2 DEF AppendToTopic, TypeOK
    <3>2. QED
      BY <1>5, <1>a, <2>1, <2>2, <3>1, WorkersChange, WorkersFinite DEF WithinBudget
  <2>3. CASE x # e
    <3>1. sent'[e] = sent[e]
      BY <1>0, <2>1, <2>3 DEF AppendToTopic, TypeOK
    <3>2. QED BY <1>0, <1>5, <1>a, <2>1, <2>3, <3>1, BudgetKept
  <2>4. QED BY <2>2, <2>3
<1>7. ASSUME NEW r \in Relays, PublishError(r) PROVE WithinBudget(e)'
  <2>1. PICK x \in Events : /\ Take(r, x, "markFailed")
                            /\ Fault
                            /\ AppendToTopic(x) \/ UNCHANGED sent
                            /\ UNCHANGED <<rowVars, overruns>>
    BY <1>7 DEF PublishError
  <2>2. Workers(e)' = Workers(e) /\ NextClaim(e)' = NextClaim(e)
    BY <1>5, <2>1
  <2>3. sent'[e] <= sent[e] + 1 /\ faults' = faults + 1
    BY <1>0, <1>a, <2>1 DEF AppendToTopic, Fault, TypeOK
  <2>4. QED BY <1>0, <1>a, <2>1, <2>2, <2>3, BudgetKept
<1>8. ASSUME NEW r \in Relays, MarkPublished(r) PROVE WithinBudget(e)'
  <2>1. Workers(e)' = Workers(e)
    BY <1>0, <1>8 DEF MarkPublished, NextRecord, Workers, TypeOK
  <2>2. CASE cur[r] = e
    <3>1. NextClaim(e)' = 0
      BY <1>8, <2>2 DEF MarkPublished, NextClaim
    <3>2. QED BY <1>8, <1>a, <2>1, <3>1, WorkersFinite DEF MarkPublished, WithinBudget
  <2>3. CASE cur[r] # e
    <3>1. NextClaim(e)' = NextClaim(e)
      BY <1>0, <1>8, <2>3 DEF MarkPublished, NextRecord, NextClaim, Held, Holds, TypeOK
    <3>2. QED BY <1>0, <1>8, <1>a, <2>1, <3>1, BudgetKept DEF MarkPublished
  <2>4. QED BY <2>2, <2>3
<1>9. ASSUME NEW r \in Relays, MarkFailed(r) PROVE WithinBudget(e)'
  <2>1. CASE cur[r] = e
    <3>1. r \in Workers(e) /\ Workers(e)' = Workers(e) \ {r}
      BY <1>0, <1>9, <2>1 DEF MarkFailed, NextRecord, Workers, InHand, TypeOK
    <3>2. /\ Cardinality(Workers(e)) \in Nat
          /\ Cardinality(Workers(e)') = Cardinality(Workers(e)) - 1
      BY <3>1, WorkersChange, WorkersFinite
    <3>3. sent'[e] = sent[e] /\ faults' = faults /\ overruns'[e] = overruns[e]
      BY <1>9 DEF MarkFailed
    <3>4. QED BY <1>a, <3>2, <3>3 DEF WithinBudget
  <2>2. CASE cur[r] # e
    <3>1. Workers(e)' = Workers(e)
      BY <1>0, <1>9, <2>2 DEF MarkFailed, NextRecord, Workers, TypeOK
    <3>2. NextClaim(e)' = NextClaim(e)
      BY <1>0, <1>9, <2>2 DEF MarkFailed, NextRecord, NextClaim, Held, Holds, TypeOK
    <3>3. QED BY <1>0, <1>9, <1>a, <3>1, <3>2, BudgetKept DEF MarkFailed
  <2>3. QED BY <2>1, <2>2
<1>10. ASSUME NEW r \in Relays, Abandon(r) PROVE WithinBudget(e)'
  <2>1. Workers(e)' \subseteq Workers(e)
    BY <1>0, <1>10 DEF Abandon, Workers, TypeOK
  <2>2. faults' = faults + 1 /\ overruns' = overruns /\ sent' = sent
    BY <1>10 DEF Abandon, Fault
  <2>3. QED BY <1>0, <1>a, <2>1, <2>2, BudgetKept
<1>11. QED
  BY <1>1, <1>2, <1>3, <1>4, <1>6, <1>7, <1>8, <1>9, <1>10
  DEF Next, vars, Enqueue, BackoffElapses

\* Duplicates on the topic are bounded by the faults and the overrun leases:
\* a healthy pair of relays publishes every event exactly once.
THEOREM DuplicatesAccountedCorrect == Spec => []DuplicatesAccounted
<1>1. IInv /\ IInv' /\ DuplicateBudget /\ [Next]_vars => DuplicateBudget'
  BY BudgetPreserved DEF IInv
<1>2. Spec => [](IInv /\ DuplicateBudget)
  BY <1>1, BudgetInitially, IInvCorrect, PTL DEF Spec
<1>3. IInv /\ DuplicateBudget => DuplicatesAccounted
  <2> SUFFICES ASSUME IInv, NEW e \in Events, WithinBudget(e)
               PROVE  sent[e] <= 1 + faults + overruns[e]
    BY DEF DuplicateBudget, DuplicatesAccounted
  <2>1. /\ sent[e] \in Nat /\ faults \in Nat /\ overruns[e] \in Nat /\ NextClaim(e) \in {0, 1}
    BY OutboxRelayAssumption DEF IInv, TypeOK, NextClaim
  <2>2. QED BY <2>1, WorkersFinite DEF WithinBudget
<1>4. QED BY <1>2, <1>3, PTL
=============================================================================
