--------------------------- MODULE InboxConsumer ---------------------------
(***************************************************************************)
(* The idempotent consumers of one consumer group: internal/platform/      *)
(* eventing/consumer.go (poll, handle, forward, commit the offset),        *)
(* internal/platform/inbox/store.go (the transaction around a handler) and *)
(* cmd/replay (dead letters back to the primary topic).                    *)
(*                                                                         *)
(* One primary topic and its retry topic, one partition each: all records  *)
(* of a subject have the same key, so they share a partition of each       *)
(* topic.  The two partitions are assigned independently, so a primary and *)
(* a retry record of one subject may be in two consumers' hands at once;   *)
(* after a rebalance the previous owner still works on the record it had   *)
(* polled.  A poll that returns records of both topics is two polls.       *)
(*                                                                         *)
(* waitUntilReady only delays a retry record (and every record behind it), *)
(* so it is not a step.  A transaction is four steps, those at which READ  *)
(* COMMITTED makes it wait for or see another one.                         *)
(***************************************************************************)
EXTENDS Naturals, Sequences

CONSTANTS
    Subjects,     \* aggregate ids, the CloudEvents subject
    MaxVersion,   \* highest aggregate version a behaviour reaches
    Consumers,    \* members of the consumer group (worker processes)
    Poison,       \* events that are undecodable, invalid or of unknown type
    MaxAttempts,  \* ConsumerConfig.MaxAttempts
    MaxPrimary,   \* bound on the length of the primary topic
    MaxFaults,    \* bound on injected faults
    NoOne         \* "not locked"

Events == Subjects \X (1..MaxVersion)
Topics == {"primary", "retry"}

ASSUME InboxConsumerAssumption ==
    /\ MaxVersion \in Nat \ {0}
    /\ Poison \subseteq Events
    /\ MaxAttempts \in Nat \ {0}
    /\ MaxPrimary \in Nat
    /\ MaxFaults \in Nat
    /\ NoOne \notin Consumers

VARIABLES
    log,        \* log[t]: the records of topic t
    committed,  \* committed[t]: the group's committed offset, records below are done
    fetched,    \* fetched[t]: records the current owner of t has polled
    owner,      \* owner[t]: the member t is assigned to
    dlq,        \* the dead-letter topic
    replayed,   \* dead letters whose offset cmd/replay has committed
    replaying,  \* cmd/replay has produced a dead letter and not committed it yet
    inbox,      \* committed rows of event_inbox
    watermark,  \* last_version per subject in event_inbox_watermarks, 0: no row
    rowLock,    \* rowLock[s]: the transaction that has locked or inserted that row
    effects,    \* effects[e]: committed executions of e's handler
    pc,         \* pc[c]: what member c does next with the record in its hand
    hand,       \* hand[c]: topic and position of that record, last position polled
    sawRow,     \* sawRow[c]: rejectStale found a watermark row
    faults      \* faults injected so far

brokerVars == <<log, committed, fetched, owner, dlq, replayed, replaying>>
storeVars == <<inbox, watermark, rowLock, effects>>
memberVars == <<pc, hand, sawRow>>
vars == <<brokerVars, storeVars, memberVars, faults>>

\* A record on its attempt'th retry.
Records(attempts) == [event : Events, attempt : attempts]
Steps == {"poll", "handle", "insert", "advance", "handler", "retry", "dlq", "commit"}

LogOK ==
    /\ DOMAIN log = Topics
    /\ log["primary"] \in Seq(Records({0})) /\ Len(log["primary"]) <= MaxPrimary
    /\ log["retry"] \in Seq(Records(1..MaxAttempts - 1))
    /\ dlq \in Seq(Records(1..MaxAttempts))

GroupOK ==
    /\ committed \in [Topics -> Nat]
    /\ fetched \in [Topics -> Nat]
    /\ owner \in [Topics -> Consumers]
    /\ replayed \in Nat
    /\ replaying \in BOOLEAN

StoreOK ==
    /\ inbox \subseteq Events
    /\ watermark \in [Subjects -> 0..MaxVersion]
    /\ rowLock \in [Subjects -> Consumers \cup {NoOne}]
    /\ effects \in [Events -> Nat]

MemberOK ==
    /\ pc \in [Consumers -> Steps]
    /\ hand \in [Consumers -> [topic : Topics, at : Nat, upto : Nat]]
    /\ sawRow \in [Consumers -> BOOLEAN]
    /\ faults \in 0..MaxFaults

\* The types; a record is retried fewer than MaxAttempts times, then it is a
\* dead letter (consumer.go handle).
TypeOK == LogOK /\ GroupOK /\ StoreOK /\ MemberOK

Nothing == [topic |-> "primary", at |-> 0, upto |-> 0]

Init ==
    /\ log = [t \in Topics |-> <<>>]
    /\ committed = [t \in Topics |-> 0]
    /\ fetched = [t \in Topics |-> 0]
    /\ owner \in [Topics -> Consumers]
    /\ dlq = <<>>
    /\ replayed = 0
    /\ replaying = FALSE
    /\ inbox = {}
    /\ watermark = [s \in Subjects |-> 0]
    /\ rowLock = [s \in Subjects |-> NoOne]
    /\ effects = [e \in Events |-> 0]
    /\ pc = [c \in Consumers |-> "poll"]
    /\ hand = [c \in Consumers |-> Nothing]
    /\ sawRow = [c \in Consumers |-> FALSE]
    /\ faults = 0

Fault == faults < MaxFaults /\ faults' = faults + 1

Record(c) == log[hand[c].topic][hand[c].at]
Event(c) == Record(c).event
Subject(c) == Event(c)[1]
Version(c) == Event(c)[2]

\* event.go IsStale.
IsStale(incoming, lastSeen) == lastSeen > 0 /\ incoming < lastSeen

Goto(c, s) == pc' = [pc EXCEPT ![c] = s]

-----------------------------------------------------------------------------
(* The primary topic: relays and cmd/replay append to it.                  *)

\* A relay publishes an event.  It may publish one twice and two out of order.
Produce(e) ==
    /\ Len(log["primary"]) < MaxPrimary
    /\ log' = [log EXCEPT !["primary"] = Append(@, [event |-> e, attempt |-> 0])]
    /\ UNCHANGED <<committed, fetched, owner, dlq, replayed, replaying>>
    /\ UNCHANGED <<storeVars, memberVars, faults>>

\* cmd/replay: the next dead letter, its attempt header stripped, goes back to
\* its source topic; its offset is committed in a second step.
ReplayProduce ==
    /\ ~ replaying
    /\ replayed < Len(dlq)
    /\ Len(log["primary"]) < MaxPrimary
    /\ log' = [log EXCEPT !["primary"] =
                  Append(@, [event |-> dlq[replayed + 1].event, attempt |-> 0])]
    /\ replaying' = TRUE
    /\ UNCHANGED <<committed, fetched, owner, dlq, replayed>>
    /\ UNCHANGED <<storeVars, memberVars, faults>>

ReplayCommit ==
    /\ replaying
    /\ replaying' = FALSE
    /\ replayed' = replayed + 1
    /\ UNCHANGED <<log, committed, fetched, owner, dlq, storeVars, memberVars, faults>>

\* The command ends, interrupted or not, and is run again: in the same group it
\* resumes at the committed offset, in a new one (the default) at the beginning.
ReplayAgain ==
    /\ replaying' = FALSE
    /\ replayed' \in {0, replayed}
    /\ UNCHANGED <<log, committed, fetched, owner, dlq, storeVars, memberVars, faults>>

-----------------------------------------------------------------------------
(* The consumer group.                                                     *)

\* Mutant: the client commits what it polls (kgo.DisableAutoCommit dropped).
PollAutoCommits(c, t) ==
    /\ pc[c] = "poll"
    /\ owner[t] = c
    /\ \E upto \in fetched[t] + 1 .. Len(log[t]) :
          /\ fetched' = [fetched EXCEPT ![t] = upto]
          /\ committed' = [committed EXCEPT ![t] = upto]
          /\ hand' = [hand EXCEPT ![c] =
                         [topic |-> t, at |-> fetched[t] + 1, upto |-> upto]]
    /\ Goto(c, "handle")
    /\ UNCHANGED <<log, owner, dlq, replayed, replaying>>
    /\ UNCHANGED <<storeVars, sawRow, faults>>

\* PollFetches: some of the records c's client has not seen yet.
Poll(c, t) ==
    /\ pc[c] = "poll"
    /\ owner[t] = c
    /\ \E upto \in fetched[t] + 1 .. Len(log[t]) :
          /\ fetched' = [fetched EXCEPT ![t] = upto]
          /\ hand' = [hand EXCEPT ![c] =
                         [topic |-> t, at |-> fetched[t] + 1, upto |-> upto]]
    /\ Goto(c, "handle")
    /\ UNCHANGED <<log, committed, owner, dlq, replayed, replaying>>
    /\ UNCHANGED <<storeVars, sawRow, faults>>

\* Partition t moves to member c, which resumes at the committed offset.  The
\* previous owner keeps the records it has in hand.
Rebalance(c, t) ==
    /\ Fault
    /\ owner[t] # c
    /\ owner' = [owner EXCEPT ![t] = c]
    /\ fetched' = [fetched EXCEPT ![t] = committed[t]]
    /\ UNCHANGED <<log, committed, dlq, replayed, replaying, storeVars, memberVars>>

\* CommitRecords, then the next record of the poll, or the next poll.  The
\* offset is the record's, also when another member has committed a later one.
CommitOffset(c) ==
    /\ pc[c] = "commit"
    /\ committed' = [committed EXCEPT ![hand[c].topic] = hand[c].at]
    /\ IF hand[c].at < hand[c].upto
       THEN hand' = [hand EXCEPT ![c].at = @ + 1] /\ Goto(c, "handle")
       ELSE hand' = [hand EXCEPT ![c] = Nothing] /\ Goto(c, "poll")
    /\ UNCHANGED <<log, fetched, owner, dlq, replayed, replaying>>
    /\ UNCHANGED <<storeVars, sawRow, faults>>

Unlock(c) == rowLock' = [s \in Subjects |-> IF rowLock[s] = c THEN NoOne ELSE rowLock[s]]

\* Mutant: a restarted member resumes behind the records it had polled.
CrashResumesBehind(c) ==
    /\ pc[c] # "poll"
    /\ Fault
    /\ Unlock(c)
    /\ hand' = [hand EXCEPT ![c] = Nothing]
    /\ Goto(c, "poll")
    /\ UNCHANGED <<brokerVars, inbox, watermark, effects, sawRow>>

\* The worker exits (publishFailure or CommitRecords failed) or is killed.
\* Its transaction rolls back and it restarts at the committed offsets.
Crash(c) ==
    /\ pc[c] # "poll"
    /\ Fault
    /\ Unlock(c)
    /\ hand' = [hand EXCEPT ![c] = Nothing]
    /\ Goto(c, "poll")
    /\ fetched' = [t \in Topics |-> IF owner[t] = c THEN committed[t] ELSE fetched[t]]
    /\ UNCHANGED <<log, committed, owner, dlq, replayed, replaying>>
    /\ UNCHANGED <<inbox, watermark, effects, sawRow>>

-----------------------------------------------------------------------------
(* inbox.Store.Process: one transaction.                                   *)

\* rejectStale, no watermark row: SELECT ... FOR UPDATE locks nothing.
BeginWithoutRow(c) ==
    /\ pc[c] = "handle"
    /\ Event(c) \notin Poison
    /\ watermark[Subject(c)] = 0
    /\ sawRow' = [sawRow EXCEPT ![c] = FALSE]
    /\ Goto(c, "insert")
    /\ UNCHANGED <<brokerVars, storeVars, hand, faults>>

\* Mutant: SELECT without FOR UPDATE.
BeginWithRowUnlocked(c) ==
    /\ pc[c] = "handle"
    /\ Event(c) \notin Poison
    /\ watermark[Subject(c)] > 0
    /\ ~ IsStale(Version(c), watermark[Subject(c)])
    /\ sawRow' = [sawRow EXCEPT ![c] = TRUE]
    /\ Goto(c, "insert")
    /\ UNCHANGED <<brokerVars, storeVars, hand, faults>>

\* rejectStale, watermark row: waits for its lock, then compares.
BeginWithRow(c) ==
    /\ pc[c] = "handle"
    /\ Event(c) \notin Poison
    /\ watermark[Subject(c)] > 0
    /\ rowLock[Subject(c)] = NoOne
    /\ ~ IsStale(Version(c), watermark[Subject(c)])
    /\ rowLock' = [rowLock EXCEPT ![Subject(c)] = c]
    /\ sawRow' = [sawRow EXCEPT ![c] = TRUE]
    /\ Goto(c, "insert")
    /\ UNCHANGED <<brokerVars, inbox, watermark, effects, hand, faults>>

\* ErrStale: a successful no-op.
Stale(c) ==
    /\ pc[c] = "handle"
    /\ Event(c) \notin Poison
    /\ rowLock[Subject(c)] = NoOne
    /\ IsStale(Version(c), watermark[Subject(c)])
    /\ Goto(c, "commit")
    /\ UNCHANGED <<brokerVars, storeVars, hand, sawRow, faults>>

\* Transaction d has inserted the inbox row of e and is still open.
HasInserted(d, e) == pc[d] \in {"advance", "handler"} /\ Event(d) = e

InsertBlocked(c) == \E d \in Consumers \ {c} : HasInserted(d, Event(c))

\* Mutant: RowsAffected is not looked at.
InsertUnchecked(c) ==
    /\ pc[c] = "insert"
    /\ ~ InsertBlocked(c)
    /\ Goto(c, "advance")
    /\ UNCHANGED <<brokerVars, storeVars, hand, sawRow, faults>>

\* INSERT INTO event_inbox ON CONFLICT DO NOTHING waits for an open insert of
\* the same key.
Insert(c) ==
    /\ pc[c] = "insert"
    /\ ~ InsertBlocked(c)
    /\ Event(c) \notin inbox
    /\ Goto(c, "advance")
    /\ UNCHANGED <<brokerVars, storeVars, hand, sawRow, faults>>

\* No row inserted: ErrDuplicate, a successful no-op.
Duplicate(c) ==
    /\ pc[c] = "insert"
    /\ ~ InsertBlocked(c)
    /\ Event(c) \in inbox
    /\ Unlock(c)
    /\ Goto(c, "commit")
    /\ UNCHANGED <<brokerVars, inbox, watermark, effects, hand, sawRow, faults>>

AdvanceBlocked(c) == rowLock[Subject(c)] \notin {c, NoOne}

\* advanceWatermark: the upsert takes the row's lock; its value is visible to
\* the others when the transaction commits.
Advance(c) ==
    /\ pc[c] = "advance"
    /\ ~ AdvanceBlocked(c)
    /\ rowLock' = [rowLock EXCEPT ![Subject(c)] = c]
    /\ Goto(c, "handler")
    /\ UNCHANGED <<brokerVars, inbox, watermark, effects, hand, sawRow, faults>>

\* Mutant: DO UPDATE without its WHERE.
NewWatermarkAlways(old, version) == version

\* DO UPDATE ... WHERE last_version < EXCLUDED.last_version.
NewWatermark(old, version) == IF old < version THEN version ELSE old

\* The handler returns nil and the transaction commits.
CommitTx(c) ==
    /\ pc[c] = "handler"
    /\ inbox' = inbox \cup {Event(c)}
    /\ watermark' = [watermark EXCEPT ![Subject(c)] = NewWatermark(@, Version(c))]
    /\ effects' = [effects EXCEPT ![Event(c)] = @ + 1]
    /\ Unlock(c)
    /\ UNCHANGED <<brokerVars, hand, sawRow>>

Handled(c) == CommitTx(c) /\ Goto(c, "commit") /\ UNCHANGED faults

-----------------------------------------------------------------------------
(* Consumer.handle: the failure paths.                                     *)

\* Mutant: attempt > MaxAttempts.
AfterFailureOnceMore(c) == IF Record(c).attempt + 1 > MaxAttempts THEN "dlq" ELSE "retry"

\* attempt >= MaxAttempts goes to the dead-letter topic.
AfterFailure(c) == IF Record(c).attempt + 1 >= MaxAttempts THEN "dlq" ELSE "retry"

\* Decode or validator reject the event, or its type has no handler:
\* event.Permanent.
Reject(c) ==
    /\ pc[c] = "handle"
    /\ Event(c) \in Poison
    /\ Goto(c, "dlq")
    /\ UNCHANGED <<brokerVars, storeVars, hand, sawRow, faults>>

\* Mutant: the handler writes through the pool and not through its transaction.
FailKeepsEffect(c) ==
    /\ pc[c] \in {"handle", "insert", "advance", "handler"}
    /\ Event(c) \notin Poison
    /\ Fault
    /\ Unlock(c)
    /\ effects' = [effects EXCEPT ![Event(c)] = IF pc[c] = "handler" THEN @ + 1 ELSE @]
    /\ Goto(c, AfterFailure(c))
    /\ UNCHANGED <<brokerVars, inbox, watermark, hand, sawRow>>

\* An error before the commit rolls the transaction back.  It is transient,
\* except that the handler may also reject the event for good.
Fail(c) ==
    /\ pc[c] \in {"handle", "insert", "advance", "handler"}
    /\ Event(c) \notin Poison
    /\ Fault
    /\ Unlock(c)
    /\ \/ Goto(c, AfterFailure(c))
       \/ pc[c] = "handler" /\ Goto(c, "dlq")
    /\ UNCHANGED <<brokerVars, inbox, watermark, effects, hand, sawRow>>

\* The commit succeeds and its reply is lost: handle takes it for a failure.
CommitReplyLost(c) == CommitTx(c) /\ Goto(c, AfterFailure(c)) /\ Fault

\* Two transactions wait for each other; PostgreSQL makes one of them fail.
Deadlocked(c, d) ==
    /\ c # d
    /\ pc[c] = "insert" /\ HasInserted(d, Event(c))
    /\ pc[d] = "advance" /\ rowLock[Subject(d)] = c

DeadlockVictim(c) ==
    /\ \E d \in Consumers : Deadlocked(c, d) \/ Deadlocked(d, c)
    /\ Unlock(c)
    /\ Goto(c, AfterFailure(c))
    /\ UNCHANGED <<brokerVars, inbox, watermark, effects, hand, sawRow, faults>>

Failed(c) == [event |-> Event(c), attempt |-> Record(c).attempt + 1]

\* publishFailure to the retry topic or to the dead-letter topic.
Retry(c) ==
    /\ pc[c] = "retry"
    /\ log' = [log EXCEPT !["retry"] = Append(@, Failed(c))]
    /\ Goto(c, "commit")
    /\ UNCHANGED <<committed, fetched, owner, dlq, replayed, replaying>>
    /\ UNCHANGED <<storeVars, hand, sawRow, faults>>

DeadLetter(c) ==
    /\ pc[c] = "dlq"
    /\ dlq' = Append(dlq, Failed(c))
    /\ Goto(c, "commit")
    /\ UNCHANGED <<log, committed, fetched, owner, replayed, replaying>>
    /\ UNCHANGED <<storeVars, hand, sawRow, faults>>

-----------------------------------------------------------------------------
Transaction(c) ==
    \/ BeginWithoutRow(c) \/ BeginWithRow(c) \/ Stale(c)
    \/ Insert(c) \/ Duplicate(c) \/ Advance(c) \/ Handled(c)

Forward(c) == Reject(c) \/ DeadlockVictim(c) \/ Retry(c) \/ DeadLetter(c)

\* What Consumer.Run does when nothing goes wrong.
MemberStep(c) ==
    \/ \E t \in Topics : Poll(c, t)
    \/ Transaction(c)
    \/ Forward(c)
    \/ CommitOffset(c)

Next ==
    \/ \E e \in Events : Produce(e)
    \/ ReplayProduce \/ ReplayCommit \/ ReplayAgain
    \/ \E c \in Consumers :
          \/ MemberStep(c)
          \/ Fail(c) \/ CommitReplyLost(c) \/ Crash(c)
          \/ \E t \in Topics : Rebalance(c, t)

Spec == Init /\ [][Next]_vars

\* Run is a loop that only waits for records and for the database; a worker that
\* exits is restarted by its supervisor.
Fairness == \A c \in Consumers : WF_vars(MemberStep(c))

FairSpec == Spec /\ Fairness

-----------------------------------------------------------------------------
(* Properties.                                                             *)

\* However often an event is delivered, retried or replayed, and whoever
\* delivers it, at most one execution of its handler commits: the inbox row and
\* the handler are one transaction (inbox/store.go Process), and two
\* transactions of an event meet at the row's key.
AppliedOnce == \A e \in Events : effects[e] <= 1

Versions(s) == {v \in 1..MaxVersion : <<s, v>> \in inbox}

\* The watermark is the highest version applied, also when the first two events
\* of a subject are applied at once in either order and neither finds a row to
\* lock (advanceWatermark's WHERE).
WatermarkIsHighest ==
    \A s \in Subjects :
        /\ watermark[s] > 0 => watermark[s] \in Versions(s)
        /\ \A v \in Versions(s) : v <= watermark[s]

DeadLettered(e) == \E i \in 1..Len(dlq) : dlq[i].event = e

\* Nothing is left to do for e: it was applied, overtaken, or dead-lettered.
Done(e) == e \in inbox \/ IsStale(e[2], watermark[e[1]]) \/ DeadLettered(e)

RetryPending(e) ==
    \E i \in committed["retry"] + 1 .. Len(log["retry"]) : log["retry"][i].event = e

\* A committed offset never covers a record whose event is not done and not
\* waiting in the retry topic, whatever the members, their crashes and
\* rebalances: topic-catalog.md:71.
NothingSkipped ==
    \A t \in Topics : \A i \in 1..committed[t] :
        Done(log[t][i].event) \/ RetryPending(log[t][i].event)

\* A version is applied after a higher one only by a transaction that found no
\* watermark row, that is among the first of a subject: everywhere else the row
\* lock of rejectStale keeps compare and advance together.
OvertakenOnlyAtFirst ==
    [][\A e \in inbox' \ inbox :
         e[2] < watermark[e[1]] =>
             \E c \in Consumers : pc[c] = "handler" /\ Event(c) = e /\ ~ sawRow[c]]_vars

Produced(e) == \E i \in 1..Len(log["primary"]) : log["primary"][i].event = e

Offered == {e \in Events : Produced(e)}
GivenUp == {e \in Events : DeadLettered(e)}

\* The group implements at-most-once effects: a step of a member, of cmd/replay
\* or of the broker changes the tables and the dead-letter topic by one effect of
\* one event of the primary topic, by one dead letter, or not at all (runbook.md:48:
\* "Idempotency protects already-completed effects").
Promise == INSTANCE AtMostOnce WITH
    offered <- Offered, newest <- watermark, letters <- GivenUp

AppliesAtMostOnce == Promise!Spec

\* Why retried records and replayed dead letters change nothing in what the topic
\* offers: both are copies of records of the primary topic.
OfPrimary ==
    /\ \A t \in Topics : \A i \in 1..Len(log[t]) : Produced(log[t][i].event)
    /\ \A i \in 1..Len(dlq) : Produced(dlq[i].event)

\* Every event of the primary topic is eventually done with, whatever members
\* crash, lose their partition or meet each other in a transaction
\* (consumer.go Run).
EveryEventDone == \A e \in Events : Produced(e) ~> Done(e)

\* The primary topic carries d, and carries it before e.
ProducedBefore(d, e) ==
    \E i \in 1..Len(log["primary"]) :
        /\ log["primary"][i].event = d
        /\ \A j \in 1..i : log["primary"][j].event # e

\* docs/eventing/runbook.md:11: "a gap should trigger bounded retry or
\* reconciliation rather than applying events out of order".  The inbox compares
\* with the watermark for staleness only: when the predecessor fails once and
\* waits in the retry topic, the next version is applied before it.
NoGapApplied ==
    \A e \in inbox : LET before == <<e[1], e[2] - 1>> IN
        ProducedBefore(before, e) => before \in inbox \/ DeadLettered(before)
=============================================================================
