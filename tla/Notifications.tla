--------------------------- MODULE Notifications ---------------------------
(***************************************************************************)
(* The delivery queue of internal/modules/notification and its readers,    *)
(* on top of the rows that NotificationRequests inserts: every API process *)
(* runs a dispatcher (dispatch.go) that claims due rows under a lease of   *)
(* 60 s, sends them one after the other and records the result.  A batch   *)
(* can take longer than the lease, and Finish does not ask who holds it.   *)
(* Time is not modelled: a pending row may be due, a lease may run out.    *)
(***************************************************************************)
EXTENDS NotificationRequests

CONSTANTS
    Dispatchers,    \* API processes
    BatchSize,      \* limit of one claim
    MaxAttempts     \* max_attempts of every row

ASSUME QueueAssumption ==
    /\ IsFiniteSet(Dispatchers)
    /\ BatchSize \in Nat \ {0}
    /\ MaxAttempts \in Nat \ {0}

VARIABLE work       \* work[w]: the claimed rows and the one in hand

vars == <<requestVars, deliveries, attemptLog, events, work>>

Claimed == [row : Nat, attempt : Nat]
Idle == [batch |-> {}, step |-> "next", claim |-> [row |-> 0, attempt |-> 0], status |-> "sent"]

Init == RequestInit /\ work = [w \in Dispatchers |-> Idle]

Holding(w) == work[w].batch \cup (IF work[w].step = "finish" THEN {work[w].claim} ELSE {})
Holders(d) == {w \in Dispatchers : \E e \in Holding(w) : e.row = d}

-----------------------------------------------------------------------------

\* Mutants of the WHERE clause: without the lease, and without the reclaim.
ClaimableUnlocked == {d \in DOMAIN deliveries : deliveries[d].status \in {"pending", "sending"}}
ClaimablePending == {d \in DOMAIN deliveries : deliveries[d].status = "pending"}

\* Pending rows, and rows in sending whose lease has run out.
Claimable == {d \in DOMAIN deliveries :
                 \/ deliveries[d].status = "pending"
                 \/ deliveries[d].status = "sending" /\ ~deliveries[d].leased}

\* Claim: FOR UPDATE SKIP LOCKED and the update are one statement.
Claim(w) ==
    /\ work[w].step = "next" /\ work[w].batch = {}
    /\ \E S \in SUBSET Claimable \ {{}} :
        /\ Cardinality(S) <= BatchSize
        /\ deliveries' = [d \in DOMAIN deliveries |->
               IF d \in S THEN [deliveries[d] EXCEPT !.status = "sending", !.leased = TRUE,
                                                     !.attempts = @ + 1]
               ELSE deliveries[d]]
        /\ work' = [work EXCEPT ![w].batch =
               {[row |-> d, attempt |-> deliveries[d].attempts + 1] : d \in S}]
    /\ UNCHANGED <<requestVars, attemptLog, events>>

\* Mutants: one attempt too few, and a status that the table does not know.
OutcomeEarly(result, attempt) ==
    IF result = "taken" THEN "sent"
    ELSE IF result = "refused" \/ attempt + 1 >= MaxAttempts THEN "failed" ELSE "pending"
OutcomeUnknown(result, attempt) ==
    IF result = "taken" THEN "sent"
    ELSE IF result = "refused" \/ attempt >= MaxAttempts THEN "failed" ELSE "retry"

\* deliver, the part after Send: what becomes of the row.
Outcome(result, attempt) ==
    IF result = "taken" THEN "sent"
    ELSE IF result = "refused" \/ attempt >= MaxAttempts THEN "failed" ELSE "pending"

\* Mutant: in_app can fail.
ResultsInAppFails(c) == {"taken", "unreached"}

\* The senders.  in_app always succeeds; a provider takes the message, takes
\* it without its reply arriving, is not reached, or refuses it for good.
Results(c) ==
    IF c \notin Wired THEN {"refused"}
    ELSE IF c = "in_app" THEN {"taken"} ELSE {"taken", "unanswered", "unreached", "refused"}

\* deliver up to Send, for the next row of the batch.
Send(w) ==
    /\ work[w].step = "next"
    /\ \E e \in work[w].batch : \E result \in Results(deliveries[e.row].channel) :
        /\ deliveries' = [deliveries EXCEPT
               ![e.row].accepted = IF result \in {"taken", "unanswered"} THEN @ + 1 ELSE @,
               ![e.row].lost = IF result = "unanswered" THEN @ + 1 ELSE @,
               ![e.row].rejected = @ \/ result = "refused"]
        /\ work' = [work EXCEPT ![w] = [batch |-> @.batch \ {e}, step |-> "finish", claim |-> e,
                                        status |-> Outcome(result, e.attempt)]]
        /\ IF result = "taken" THEN UNCHANGED events ELSE Event
    /\ UNCHANGED <<requestVars, attemptLog>>

\* Finish: by id, whoever holds the row now; a failing call only logs.
Finish(w) ==
    LET d == work[w].claim.row IN
    /\ work[w].step = "finish"
    /\ work' = [work EXCEPT ![w].step = "log"]
    /\ \/ /\ deliveries' = [deliveries EXCEPT ![d].status = work[w].status, ![d].leased = FALSE]
          /\ UNCHANGED events
       \/ Event /\ UNCHANGED deliveries
    /\ UNCHANGED <<requestVars, attemptLog>>

\* AddAttempt; a failing call only logs.
LogAttempt(w) ==
    LET e == work[w].claim IN
    /\ work[w].step = "log"
    /\ work' = [work EXCEPT ![w] = [Idle EXCEPT !.batch = work[w].batch]]
    /\ \/ /\ attemptLog' = attemptLog \cup {<<e.row, e.attempt, work[w].status>>}
          /\ UNCHANGED events
       \/ Event /\ UNCHANGED attemptLog
    /\ UNCHANGED <<requestVars, deliveries>>

\* A process stops, also in an orderly way: from the cancellation on every
\* database call fails and the rows of its batch stay in sending.
Stop(w) ==
    /\ work[w] # Idle
    /\ Event
    /\ work' = [work EXCEPT ![w] = Idle]
    /\ UNCHANGED <<requestVars, deliveries, attemptLog>>

\* 60 s pass.  While a dispatcher still has the row this is an overrun.
LeaseEnds(d) ==
    /\ deliveries[d].status = "sending" /\ deliveries[d].leased
    /\ deliveries' = [deliveries EXCEPT ![d].leased = FALSE, ![d].lapses = @ + 1]
    /\ IF Holders(d) = {} THEN UNCHANGED events ELSE Event
    /\ UNCHANGED <<requestVars, attemptLog, work>>

\* What GET /notifications lists.
Inbox == {d \in DOMAIN deliveries :
             deliveries[d].channel = "in_app" /\ deliveries[d].status = "sent"}

Unread == {d \in Inbox : ~deliveries[d].read}

\* readHandler: MarkRead checks in its WHERE what was read before.
MarkRead(d) ==
    /\ d \in Unread
    /\ deliveries' = [deliveries EXCEPT ![d].read = TRUE]
    /\ UNCHANGED <<requestVars, attemptLog, events, work>>

DispatchStep(w) == Claim(w) \/ Send(w) \/ Finish(w) \/ LogAttempt(w)

QueueNext ==
    \/ \E w \in Dispatchers : DispatchStep(w) \/ Stop(w)
    \/ \E d \in DOMAIN deliveries : LeaseEnds(d) \/ MarkRead(d)

Next ==
    \/ RequestNext /\ UNCHANGED work
    \/ QueueNext

Spec == Init /\ [][Next]_vars

\* A request runs until it is answered, time passes, and a dispatcher that is
\* stopped starts again: as long as there is work, some dispatcher goes on.
Fairness ==
    /\ WF_vars(\E r \in Requests : SendStep(r) /\ UNCHANGED work)
    /\ WF_vars(\E w \in Dispatchers : DispatchStep(w))
    /\ WF_vars(\E d \in DOMAIN deliveries : LeaseEnds(d))

FairSpec == Spec /\ Fairness

-----------------------------------------------------------------------------
(* Properties.                                                             *)

\* The rows of every table have their types.
TypeOK ==
    /\ templates \in [Channels -> Template]
    /\ raced \subseteq Patched /\ changed \in [Channels -> SUBSET Fields]
    /\ preferences \in [Channels -> Preferences]
    /\ offSince \in [Channels -> 0..puts] /\ puts \in 0..MaxEvents
    /\ deliveries \in Seq(Delivery)
    /\ queued \subseteq DOMAIN deliveries
    /\ attemptLog \subseteq AttemptRow /\ \A l \in attemptLog : l[1] \in DOMAIN deliveries
    /\ \A r \in Requests : send[r].answer \in Answers
    /\ events \in 0..MaxEvents
    /\ \A w \in Dispatchers : \A e \in Holding(w) : e.row \in DOMAIN deliveries

RowsOf(r) == {d \in DOMAIN deliveries : deliveries[d].request = r}

\* Enqueue (events.go): whatever fails, a request has stored one delivery with
\* its event for every channel it asked for, or none; it answers "created" only
\* in the first case, and with another request's set when it is replayed.
AllOrNothing ==
    \A r \in Requests :
        /\ Cardinality(RowsOf(r)) \in {0, Len(send[r].list)}
        /\ RowsOf(r) \subseteq queued
        /\ send[r].answer = "created" => RowsOf(r) # {}
        /\ send[r].answer \in {"replayed", "refused"} => RowsOf(r) = {}

\* The idempotency key (events.go, the index of migration 000007): one key
\* never has two deliveries of a channel, and a replay is empty only if the
\* request named a channel twice.
KeyUsedOnce ==
    /\ \A c \in Channels : Cardinality(Keyed(c)) <= 1
    /\ \A r \in Requests : send[r].met =>
           \E m, n \in DOMAIN send[r].list : m < n /\ send[r].list[m] = send[r].list[n]

\* gate (policy.go): a channel that was switched off before a request arrived,
\* and has been off since, gets nothing but skipped deliveries from it.
OptOutHonoured ==
    \A d \in DOMAIN deliveries :
        LET e == deliveries[d] IN
        e.status # "skipped" /\ offSince[e.channel] # 0
            => offSince[e.channel] > send[e.request].seen

\* patchTemplateHandler against itself and against build: a field that does not
\* hold what was last written to it was undone by a patch that had read the row
\* before.  And a request that is refused for its template asked for a channel
\* whose subject or format was patched, which nothing tries, or whose body was
\* and which does not render on the data of this request: a patch of the body
\* alone never breaks the requests with plain data.
PatchLossesExplained ==
    /\ \A c \in Channels : fresh[c] # Fields => c \in raced
    /\ \A r \in Requests : send[r].answer = "refused" =>
           \E n \in DOMAIN send[r].list :
               \/ changed[send[r].list[n]] \cap {"subject", "format"} # {}
               \/ send[r].odd /\ "body" \in changed[send[r].list[n]]

\* Claim and Finish: leases that run out and replies that are lost are the only
\* reasons for a second message and for more attempts than max_attempts, and
\* only a lease that ran out gives a row a second holder.
DuplicatesExplained ==
    \A d \in DOMAIN deliveries :
        LET e == deliveries[d] IN
        /\ e.accepted <= 1 + e.lapses + e.lost
        /\ e.attempts <= MaxAttempts + e.lapses
        /\ Cardinality(Holders(d)) <= 1 + e.lapses

\* deliver: a row says "sent" only if a sender took the message, and "failed"
\* only if one refused it for good or the attempts were used up.
OutcomeIsTrue ==
    \A d \in DOMAIN deliveries :
        /\ deliveries[d].status = "sent" => deliveries[d].accepted > 0
        /\ deliveries[d].status = "failed" =>
               deliveries[d].rejected \/ deliveries[d].attempts >= MaxAttempts

\* MarkRead against a dispatcher that still has the row: a notification that
\* was read stays in the inbox and stays read.
ReadStaysListed ==
    [][\A d \in DOMAIN deliveries :
          d \in Inbox /\ deliveries[d].read => d \in Inbox' /\ deliveries'[d].read]_vars

\* Run (dispatch.go): every delivery that is not skipped is in the end sent or
\* failed for good, though processes stop and calls fail.
Settled(d) == deliveries[d].status \in {"sent", "failed", "skipped"}
EveryDeliverySettles == <>[](\A d \in DOMAIN deliveries : Settled(d))

=============================================================================
