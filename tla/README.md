# Verification of golang-template

TLA+ models of the parts of this repository whose correctness depends on what
happens in which order: the transactional outbox and the idempotent consumers of
its events, the sessions, account and roles of a user, notifications, posts,
files, the rate limiter and the deployment script. TLC checks them on small
instances; the most important safety properties are also proved with TLAPS, for
any number of processes and requests and every value of the bounds.
`PROJECT.json` maps each definition to the lines it is translated from.

## 1. The system

A Go API (`cmd/api`), a background worker (`cmd/worker`) and a few commands
(`cmd/migrate`, `cmd/seed`, `cmd/replay`) around PostgreSQL, Redis, Kafka, a
blob store and SMTP. The API writes domain rows and, in the same transaction,
rows of `event_outbox`. A relay publishes these to Kafka; consumer groups in the
worker handle the records under an inbox that makes them idempotent, retry them
through retry topics and end at a dead-letter topic.

### Inventory

| Component | State | Operations | Interacts with | Hard behaviour | Correct when |
|---|---|---|---|---|---|
| Outbox, `platform/outbox` | `event_outbox`: `available_at`, `locked_at`, `attempts`, `published_at` | `Enqueue`, `Claim`, `MarkPublished`, `MarkFailed` | producing transactions, relays | leases that run out under slow work; updates that compare no owner | nothing is published before it is committed or settled before it is published; a published row stays so |
| Relay, `eventing/relay.go` | the claimed batch | `Run`, `runBatch` | outbox, Kafka | crash between publish and mark; failures; several relays | every event reaches its topic; every extra copy has a cause |
| Inbox, `platform/inbox` | `event_inbox`, `event_inbox_watermarks` | `Process` | a handler, inside its transaction | READ COMMITTED; a first event finds no row to lock; deadlocks; lost commit replies | an event's handler commits once; the watermark is the highest version |
| Consumer, `eventing/consumer.go` | polled records, offsets | `Run`, `handle`, `publishFailure`, `waitUntilReady` | Kafka, inbox | rebalances, restarts in a batch, half-done forwarding | no committed offset covers a record that is neither done nor forwarded; every event is done with eventually |
| Dead-letter replay, `cmd/replay` | offsets of a replay group | produce, commit | dead-letter and primary topic | interrupted, run twice | replays apply nothing twice |
| User sessions, `user/auth.go`, `refresh_store.go`, `authn/blocklist.go`, `authz/authz.go` | `refresh_tokens`, `users.token_version`, banned jtis in Redis | login, refresh, logout, logout-all, guard | password handlers, role changes | handlers that read, then write; discarded errors; Redis failing | sessions do not fork; what ends all sessions ends them all |
| Account, `user/account.go`, `token_store.go`, `events.go` | `users`, `user_tokens` | register, issue, resend, verify, forgot, reset, change | mail, sessions, outbox | invalidate and create in two statements; a consumed token whose effect failed | a token is spent once, and for something unless the request ends in an error; event versions rise |
| Users store, `user/store.go`, `platform/refid` | `users`, reference ids | create, update, activate, assign a role | outbox, notifications | retry on a collision in an aborted transaction | row and event commit together; no version is announced twice |
| Roles, `user/roles*.go` | `roles` | create, patch, delete, assign | account | read-then-write; count, then delete | the admin role stays; names are unique; the account's role exists; a lost patch has a cause |
| Notification enqueue, `notification/events.go`, `policy.go` | `notification_deliveries`, their events | enqueue by key | templates, preferences | two requests with one key; a conflict inside the transaction | all channels or none; one delivery per key and channel; an opt-out holds |
| Notification delivery, `notification/dispatch.go`, `store.go` | a delivery's status, lease, attempts; the attempt log | `Claim`, send, `Finish`, `MarkRead` | channels, readers | a batch outlasts the lease; a late `Finish`; lost replies | every delivery settles, as what really happened; every duplicate has a cause |
| Templates and preferences, `notification/handler.go` | two tables | patch, put | enqueue | read-then-write; the body is tried with the old format, the subject not at all | a lost patch and a template that fails a request have a cause |
| Posts, `modules/post`, list in `platform/query` | `posts`, versions | create, update, soft delete, list | outbox | optimistic versions; deletion keeps the version; pages while the list changes | no lost update; the events tell the post; a walk by cursor is complete |
| Files, `modules/file`, `platform/blob` | `file_objects`, blobs, the record's reference | upload, replace, delete | worker | blob and row are not one transaction; a blob removed inside the inbox transaction | a live file has its bytes; every orphan has a cause; a deletion is announced once |
| Rate limiter, `platform/ratelimiter` | counters in Redis, a map in each process | allow | every route | two tiers on one key; bucket boundaries; fallback when Redis fails | logins of a window stay bounded |
| Blue-green deployment, `deploy/scripts/deploy.sh` | slots, proxy, upstream file, schema | deploy, again after an interruption | containers, rate limiter memory | stopped between any two commands | a run never stops or replaces the slot that serves |
| Kafka client, `WithTx`, event envelope, worker | - | publish, begin and commit, validate | all of the above | replies lost after the effect | modelled where they are used |
| Release script, API wiring, HTTP helpers, mail, audit, metrics, configuration, seeding | - | - | - | sequential, stateless or best effort | not modelled; reasons in `PROJECT.json` |

`PROJECT.json` lists under `hazards` the lines where these behaviours bite and
the properties that would catch them; a hazard that no property catches has a
note that says why.

## 2. Modules

| Module | Models | Notes |
|---|---|---|
| `OutboxRelay` | outbox and relays | one variable per column that the relay reads or writes |
| `AtLeastOnce` | what the outbox promises its producers | abstract; `OutboxRelay` implements it with `accepted <- rows, delivered <- OnTopic, settled <- published` |
| `InboxConsumer` | one consumer group, its primary, retry and dead-letter topic, the inbox, replay | a transaction is the steps at which another one can make it wait |
| `AtMostOnce` | what a consumer group promises its handlers | abstract; `InboxConsumer` implements it with `offered <- Offered, newest <- watermark, letters <- GivenUp` |
| `Sessions` | the sessions of one user | a request is a program counter and what it has read |
| `NotificationRequests` | enqueue, template patches, preferences | one user and one category; an open transaction keeps its rows to itself |
| `Notifications` | the delivery queue and the in-app list | extends `NotificationRequests` |
| `Posts` | posts, their events, a client that walks the list | a field holds the request that wrote it |
| `Files` | uploads, deletions and the worker's removal | a file is known by the upload that stored it |
| `Content` | posts and files in one API | composes `Posts` and `Files` |
| `Roles` | the roles | a request and the row it has read |
| `Accounts` | one account with its tokens and events, and the roles | extends `Roles` |
| `RateLimiter` | the limiter, for one client | the script of Redis, and the memory of each process |
| `Deployment` | `deploy.sh`, slots, proxy, schema | one action per command |
| `Edge` | a client's requests through proxy and limiter while slots are replaced | composes `RateLimiter` and `Deployment` |
| `MCOutboxRelay`, `MCInboxConsumer`, `MCSessions`, `MCNotifications`, `MCContent`, `MCAccounts`, `MCEdge` | instances for TLC | |
| `OutboxRelayProofs`; `InboxConsumerProofs`, `InboxDeliveryProofs`; `SessionsProofs`; `NotificationsProofs`; `ContentProofs`; `AccountsProofs`; `EdgeProofs` | theorems | section 5 |

**OutboxRelay.** The clock appears only in the comparisons that `Claim` makes:
`available_at <= NOW()` is membership in `available`; `locked_at` is free, held
or expired. `Claim` is one statement and one action, with its `WHERE` in
`Candidates` and its `LIMIT` in `Batches`. `ORDER BY` sorts by stamps rounded to
the second, and `UPDATE ... RETURNING` promises no order, so any full batch may
be taken and is worked through in any order. `runBatch` is `Take` (publish),
then `MarkPublished` or `MarkFailed`; an error of either leaves the batch
(`Abandon`). `PublishError` appends the record or does not: the acknowledgement
may be what was lost. `LeaseExpires` may come at any time.

**InboxConsumer.** `Process` is: begin and `rejectStale` (`BeginWithRow` takes
the row lock, `BeginWithoutRow` has nothing to lock), insert the inbox row
(waits for another open transaction of the same key), advance the watermark
(waits for the row), run the handler and commit. A transaction that waits in a
circle is aborted by PostgreSQL (`DeadlockVictim`). A rolled-back transaction
frees its locks; `CommitReplyLost` commits and reports an error. `handle` then
forwards to the retry topic or, after `MaxAttempts`, to the dead-letter topic,
and `CommitOffset` commits. `Rebalance` hands a topic to another member while
the old one still works on its record, and lets polling start at the committed
offset; `Crash` is a worker that exits and is restarted. `waitUntilReady` sleeps
and changes nothing. All records of a subject share a partition, so one
partition of each topic is enough.

**Sessions.** A *pair* is an access and a refresh token issued together; `ver`
is the `token_version` the handler had read. Login reads the user, then inserts.
Refresh asks the blocklist, reads the user, locks the row (`RotateLocks`),
commits the rotation (`Rotate`) and bans the old jti. `RevokeAllForUser` is two
steps: the rows its statement sees, then its update, which waits for locked rows
and misses what others inserted. `ErrorDropped` is the `_ =` of reset, change
and reuse; logout-all reports the same error. The guard asks the blocklist (and
lets the request pass when Redis fails), then compares `ver`. `Abort` is a
reported error, a client that goes away or a process that dies, at any step; a
transaction rolls back. Logins are numbered when they read the user; `sealed`
records up to which login an answered kill answers for, counted when logout-all
passes the guard, when the new password is written, or when a reuse is detected.

**NotificationRequests.** `Enqueue` is one transaction, taken apart where
another one can come in: `SendLooksUp` (`ListByIdempotency`), per channel
`SendBuilds` (the preference and the template as they are then; one that does not
render answers `refused`) and `SendInserts`, at last `SendCommits`. An insert waits for the uncommitted row of the same
key and channel, and finds a conflict once that row is committed; the request
then reads the other's rows outside its transaction (`SendReloads`). Two
simultaneous requests that wait for each other are cut by PostgreSQL
(`SendDeadlocks`). A conflict of reference ids cannot be repaired inside the
transaction, because every further statement of it fails (25P02): it is
`SendFails`. `Gate` decides between pending and skipped. Templates are patched
by a read and a write of all fields; the body is tried on empty data and with the
format of the row, not with that of the patch, and the subject is not tried. A text
is known by where it renders (`Texts`): everywhere, only as text, only on the data
of some requests, nowhere.

**Notifications.** `Claim` is one statement. A dispatcher works through its batch
one row at a time: `Send`, `Finish` (by id, whoever holds the row now),
`LogAttempt`; each of the last two only logs its failure. `Stop` is a process
that ends with rows in `sending`. `LeaseEnds` counts in `lapses` what it gives
away. A message that a provider took and whose reply is lost is counted in
`lost`. The list shows in-app rows that are sent.

**Posts.** A handler reads the row in its middleware, merges, and writes row and
event in one transaction. The update compares versions; the deletion neither
compares nor raises one. The position of a post in the list is the start of its
transaction, so it may land behind what a client has seen. `CursorPage` compares
the whole position, `OffsetPage` only seconds, and rows of one second come in any
order. A first page by cursor starts from a cursor the client made: a page by
offset has no `next_cursor`. Without `sort_by` the parser's default is
`"created_a\tt"` (`post/query.go:37`), a column that does not exist: such a list
is answered with 500 by offset and with 400 by cursor, although
`post/handler.go:111` documents `created_at` as the default.

**Files.** `PutBlob` may leave nothing, half or all of the bytes when it fails.
`CommitUpload` is the transaction of row, reference and event; its reply may be
lost, and `CleanUp` then removes the bytes of a row that is there. `Retire` is
the second transaction for a replaced file, without an event, so its bytes stay;
the documentation in `file/handler.go:111` says they are deleted. No target that
is registered today replaces a file, the module is about what the handler does
for one that would. A second delete of the same file meets `Deletable` and is
answered 500. `HandleDeleted` is the worker's handler inside the inbox
transaction: the bytes can be gone and the transaction rolled back.

**Roles.** `ReadRole` and `WriteRole` (all columns) of an update, `CountUsers` and
`DeleteRole` of a deletion are separate statements. The unique index and the
foreign key answer where two requests meet.

**Accounts.** Each request is its statements: `Register` (row, event, role),
`Invalidate` and `CreateToken`, `Consume`, `Activate`, `UpdatePassword`,
`UpdateRole`. Each may fail before or after its effect, and a request then ends
in an error. Registration looks the role up by the name `user`, so it fails from
the moment an operator renames that role. A role assignment raises the row's
version and announces nothing. `AskChange` compares the old password, and
`UpdatePassword` overwrites whatever is there by then; it leaves reset tokens open.

**RateLimiter.** Every route passes the read tier first. Read and auth tier have
the same key, the client's address, so a login counts twice: about five of the
ten a minute of `docs/architecture.md` are possible, reads use them up, and a
login that is denied still counts for the read tier. The script compares before
it increments; the previous bucket counts by the part of it that is still in the
window. When Redis fails, read and write tiers let pass, and the auth tier counts
in the memory of its process.

**Deployment.** The script may be stopped anywhere (`Interrupt`) and runs again
later, one at a time. `InferSlot` takes the slot that runs, and of two the
one the proxy has loaded. A proxy that restarts reads the file of the host, which
`mv` has replaced under the running container. An interruption between removing
and starting the proxy leaves two slots and no proxy: each further run ends at
`InferSlot` until an operator starts the proxy. `strayed` marks the restart of a
proxy after a run that was stopped between file and proxy.

## 3. Runs

| Run | Checks | Result |
|---|---|---|
| `outbox_relay` | `TypeOK`, `DuplicatesAccounted`, `PublishedIsFinal`, `PublishesAtLeastOnce` | pass |
| `outbox_order` | `OutboxOrderPreserved` | violated |
| `inbox_consumer` | `TypeOK`, `AppliedOnce`, `WatermarkIsHighest`, `NothingSkipped`, `OvertakenOnlyAtFirst`, `AppliesAtMostOnce` | pass |
| `inbox_live` | `EveryEventDone` | pass |
| `inbox_gap` | `NoGapApplied` | violated |
| `sessions` | `TypeOK`, `KillsSessions`, `OneLiveRowPerLogin` | pass |
| `sessions_reuse` | `ReuseKills` | violated |
| `sessions_logout` | `LogoutEndsSession` | violated |
| `notifications` | `TypeOK`, `AllOrNothing`, `KeyUsedOnce`, `OptOutHonoured`, `PatchLossesExplained`, `DuplicatesExplained`, `OutcomeIsTrue`, `ReadStaysListed`, `EveryDeliverySettles` | pass |
| `content` | `TypeOK`, `EventsTellPost`, `WalksComplete`, `LiveFileHasBytes`, `OrphansExplained`, `DeletedOnce`, `NoLostUpdate`, `DeletedBytesGo` | pass |
| `accounts` | `TypeOK`, `OpenTokensExplained`, `TokensSpentOnce`, `UserEventsOrdered`, `RolesStand`, `RoleLossesExplained` | pass |
| `edge` | `TypeOK`, `LoginsBounded`, `TrafficKept` | pass |

What the four violations say of the code, each against a sentence of its
documentation:

- *Outbox order* (`docs/eventing/topic-catalog.md:70`): after a failed publish
  the row waits for its backoff and the relay publishes the next version of the
  same aggregate.
- *Gaps* (`docs/eventing/runbook.md:11`): the inbox compares versions for
  staleness only. A version that waits in the retry topic is overtaken by its
  successor, applied at once, and is itself dropped as stale afterwards.
- *Reuse* (`user/auth.go:134`, `docs/architecture.md:96`): a rotated or
  logged-out refresh token is in the blocklist, which answers 401 before
  `Rotate` can detect the reuse; no session is killed.
- *Logout* (`docs/architecture.md:97`): when a refresh of the session commits
  first, the logout revokes a row that is revoked already, answers 204, and the
  session lives on in the pair that the refresh issued.

What the passing properties say where the code has a gap they had to leave room
for; each names the cause that must be present:

- *Tokens* (`OpenTokensExplained`, `TokensSpentOnce`): two tokens of a purpose
  are open when their issues overlapped; a token is gone without an effect when
  its request ended in an error.
- *Roles, templates* (`RoleLossesExplained`, `PatchLossesExplained`): a field is
  taken back by an update that had read the row earlier. Templates that fail
  requests can be stored: by a patch of the subject, which is not tried, by one of the
  format, which is not tried with the body, or by a body that renders on empty data
  and not on the data of the request. A patch of the body alone never breaks a
  request with plain data.
- *Keys* (`KeyUsedOnce`): a request that names a channel twice under a key
  conflicts with itself and is answered 200 with nothing stored. Two
  simultaneous requests with one key and different channels may both be stored.
- *Deliveries* (`DuplicatesExplained`): a lease that ends under a dispatcher, or
  a lost reply, gives a second message; `Claim` does not compare `attempts`, so
  `max_attempts` is exceeded by the leases that ended. A late `Finish` may open a
  settled row again; it settles again (`EveryDeliverySettles`).
- *Files* (`OrphansExplained`): bytes stay after a failed upload, after the last
  try of the worker, and for every replaced file.
- *Pages* (`WalksComplete`): offset paging may repeat or skip posts when the list
  changes or two were created within a second.
- *Posts* (`EventsTellPost`): the deletion event carries the version the deleting
  request had read, which an update in between has already used.
- *Logins* (`LoginsBounded`): at a bucket boundary Redis admits more than the
  limit by what the weight has let go; a process without Redis, up to twice the
  limit.
- *Traffic* (`TrafficKept`): the guarantee ends when the proxy restarts by itself
  after a run that was stopped between the file and the proxy.

### Bounds

Every bound is a constant. They limit what the environment does, never what the
code may do next.

- Two processes of a kind. What can go wrong here is between two of them: two
  relays on one row, two transactions on one subject, two requests on one
  session. The theorems cover the other numbers.
- `outbox_relay`: two versions of one aggregate, batches of two (so that a batch
  holds a row behind the current one), two faults, `MaxAttempts = 3`. Liveness
  needs `MaxFaults < MaxAttempts`: attempts are charged at the claim, so an event
  that meets a fault per attempt stays unpublished for good. The code bounds
  attempts the same way; the property is about events that meet fewer.
- `inbox_consumer`: three versions of a subject (a first, one between, a last),
  three primary records (a duplicate or a replay fits in), two faults,
  `MaxAttempts = 2` (one retry, then the dead letter). `inbox_live` makes one
  event invalid for ever, and has two primary records and no symmetry, which is
  not sound for liveness. Subjects share no row and no lock, so one is enough.
- `sessions`: two logins, three pairs, three further requests of which two run at
  once, `token_version` up to 3 (two bumps), one fault. A kill that overlaps a
  login and a rotation, and another kill, fits.
- `notifications`: `MaxEvents = 3` bounds requests, patches, opt-outs, failures,
  crashes and overruns together, chosen freely among two clients, two
  administrators and two dispatchers. Two channels, so that requests can insert in
  opposite orders and deadlock. Patches are for the in-app template and of one field
  each: a broken subject, three bodies (one that the trial turns away), the format,
  the switch; one kind of request brings data on which a body may fail. A patch, and
  a request that it fails, leave one more event. `BatchSize = 2` and `MaxAttempts = 2`: an overrun
  with a second holder and a late `Finish` need two events.
- `content`: `MaxArrivals = 5` requests, freely among four to posts, two uploads,
  two deletions and a walk; pages of one post in a list of three places, of which
  two share a second; two tries of the worker. An update, a deletion and a
  creation fit between two pages of a walk.
- `accounts`: any four requests, of which up to two are for roles, with mail
  verification required (the theorems cover both settings); tokens expire
  at any time. A reset needs three (register, forgot, reset), so one more meets it.
- `edge`: a window of three ticks, three reads, one login and one write per
  window; five requests or deployments, of which up to three deployments, so that
  one is stopped, one starts from what it left, and one follows.
- Deadlock is not checked: with every row published, every record done with, every
  request answered, or the bounds used up, the model may stop. That nobody waits
  for ever is `EveryEventDone`, `PublishesAtLeastOnce`, `EveryDeliverySettles` and
  `DeletedBytesGo`.

### Fairness

Weak fairness only, in `OutboxRelay`, `InboxConsumer`, `Notifications` and
`Content`; `Sessions`, `Accounts` and `Edge` have none.

- A relay keeps claiming and keeps working through its batch: `Run` polls on a
  ticker and every call has a timeout or a context. Backoffs and leases run out,
  because time passes.
- A member keeps polling, handling and committing: `Consumer.Run` is a loop that
  waits only for records and for the database. A worker that exits is restarted
  by its supervisor, so `Crash` ends in polling.
- Some dispatcher goes on while there is work (`Run` of `dispatch.go` polls on a
  ticker), a request runs until it is answered, and leases run out. Fairness is
  for the dispatchers together: no single process has to live.
- The worker goes on with `HandleDeleted`; a try may fail.
- No fairness is asked of faults, crashes, rebalances, producers, clients or
  replays.

## 4. Mutants

For every property of a passing run, `PROJECT.json` names a plausible bug in a
definition (a dropped guard, a lock test left out, a row not revoked) under which
TLC finds the property violated with the same configuration. The mutated
definitions stand next to the originals, marked `Mutant`.

## 5. Proofs

All theorems are about `Spec`, for every value of the constants that satisfies
the `ASSUME` of the module (bounds that are natural numbers, a "nobody" value that is no
process, patches that name known fields and hold values of their kinds, and finitely
many relays and dispatchers where their steps are counted).

**Outbox** (`OutboxRelayProofs`). `TypeCorrect`. `PublishedOnTopicCorrect` needs
that a relay about to mark a record published has a record that is on the topic
(`InHand`); the two and the types are inductive (`IInv`). `PublishedIsFinalCorrect`
is an action property on the same invariant. `DuplicatesAccountedCorrect` counts:
copies sent, plus relays that may still send, plus one for the next claim where
nothing forbids it, never exceed one plus faults plus overrun leases
(`DuplicateBudget`). `ImplementsPromise` shows that every step is a step or a
stutter of `AtLeastOnce`.

**Inbox.** `InboxConsumerProofs` proves the types, among them that no record is
retried `MaxAttempts` times. It also has the invariant of the transactions: committed effects equal inbox rows (`AppliedInv`), one open
transaction per inserted key (`OpenInv`), and who holds the watermark row
(`LockInv`); from it `AppliedOnceCorrect`, `WatermarkIsHighestCorrect` and
`OvertakenOnlyAtFirstCorrect`. `AppliesAtMostOnceCorrect` is a refinement: with that
invariant, and with every retried record and dead letter being a copy of a record of
the primary topic (`OfPrimary`), a commit is `Apply` of one event not applied
before, a dead letter is `GiveUp` or nothing new, an append to the primary topic is
`Offer` or nothing new, and everything else, rollbacks and replays included, is a
stutter of `AtMostOnce`. `InboxDeliveryProofs` proves `NothingSkippedCorrect`:
all records below the committed offset, below the record in a member's hand, and
below what the owner has fetched (unless that record is in its hand) are done or
wait in the retry topic (`ResumeInv`).

**Sessions** (`SessionsProofs`). `TypeCorrect`, with what a request at each step
has read (`JobInv`) and what its pairs claim (`PairInv`). `KillsSessionsCorrect`:
`Ended(m)` says that no pair of the first `m` logins has the current
`token_version`, nor does any login of them that has still to insert. A bump
establishes it for everything so far, whatever other requests hold, no step
undoes it, and a kill comes to its answer without an error only through a bump
(`KillInv`). `RevokeAllForUser` plays no part in the argument: what it misses is
dead all the same. `OneLiveRowCorrect`: a rotation holds the lock of its row and
the row is live until it commits; a login under way has no pair yet (`LiveInv`).

**Notifications** (`NotificationsProofs`). `TypeCorrect`.
`PatchLossesExplainedCorrect` follows from what a patch under way has read: an
older row, or the one that is there (`TemplateInv`). A request was refused for a
template as it was then, and the fields ever patched only grow (`RefusedInv`,
`UnrenderableBroken`). `AllOrNothingCorrect` needs
that the n-th row of an open transaction is for the n-th channel of its list, and
that the committed rows of a request are none or as many as its list (`RequestInv`). `KeyUsedOnceCorrect`: open transactions
with the key hold different channels, none of them with a committed row (`KeyInv`).
The queue's invariant (`QueueInv`) says what a dispatcher knows of each claim it
holds, which is little, because its lease may have lapsed and another may hold the
row: that it has been claimed at least that often, and, before it writes `sent`,
that a provider took the message. `OutcomeIsTrueCorrect` rests on it.
`DuplicatesExplainedCorrect` counts in the way of the outbox, once for claims held,
once for messages sent and once for retries: what is spent, plus the next claim
where the row is free, plus the dispatchers that may still spend, never exceeds one
plus the lapses of the lease (plus lost answers, for messages); `Budget`.
`OptOutHonouredCorrect` needs the same of the rows of open transactions
(`AllowInv`). `ReadStaysListedCorrect` is an action property: what a dispatcher
records of an in-app row is `sent` (`InAppInv`).

**Posts and files** (`ContentProofs`). `LiveFileHasBytesCorrect`,
`OrphansExplainedCorrect` and `DeletedOnceCorrect` follow from one invariant
(`FilesInv`) that says what each step of an upload knows of its bytes and its
row, that a retired file was replaced, and that a deletion is announced with the
row. `NoLostUpdateCorrect` is an action property:
a request's copy either has a lower version than the row, or the same text
(`PostsInv`), so an update whose version is accepted changes only its own fields.
`EventsTellPostCorrect` adds what the outbox says of each row (`EventsInv`): no event
is ahead of its row, the last event of a post agrees with the row, and neighbours
chain. A deletion that carries an old version needs the copy's half of the story: a
copy below the row means that an update was answered (`CopyInv`).
`WalksCompleteCorrect` rests on `WalkInv`. By cursor, what was seen lies above the
cursor and the steady posts not yet seen below it, which no creation, update or
deletion changes, because a row keeps its place and no two rows share one
(`CursorInv`, `PlacesInv`). By offset, what was seen is the top of the list
(`OffsetInv`): without a shared second a list has one top of each size (`OneTop`), so
the rows an undisturbed page skips are those it has shown. `TypeCorrect` collects the
types. Events of a post are a set of places in the outbox (`EventsOf`), not a
filtered sequence, which keeps recursion out of the proof.

**Account and roles** (`AccountsProofs`). `AccountInv` has five parts, each
needing the others. `RolesInv`: a request about to write the admin role writes
the name it had; a copy with the row's write count has the row's fields.
`CallsInv`: an assignment holds a role that was there, and rows are never
forgotten. `TokensInv`: every token up to the mark of an issue is settled, which
is what a second statement still knows of the first. `SpentInv`: a used token has
one spender, of the kind that may spend it. `UserInv`: where a request of each
kind can be, what it has announced by then, and that a reset's event is paid for
(`Paid`). From it `RolesStandCorrect`, `RoleLossesExplainedCorrect`,
`OpenTokensExplainedCorrect`, `TokensSpentOnceCorrect`,
`UserEventsOrderedCorrect`, and `TypeCorrect`, which adds that an account never
lacks a role.

**Deployment and rate limiter** (`EdgeProofs`). `TrafficKeptCorrect`, for any
number of runs stopped anywhere: unless a proxy has strayed, the script's next
command never concerns the slot behind the proxy, and without a proxy both slots
run and the file names one that serves (`DeployInv`).

`LoginsBoundedCorrect`, for any window, limits and number of processes. A sum over
the window is the cardinality of a set of marks, one per login (`Marks`, `Count`),
so that it grows by one with a login (`CountAdmitted`), splits over disjoint ages
(`CountSplit`) and does not grow when time passes (`CountOlder`, an injection). In
Redis (`RedisInv`), the logins of the current bucket and of the previous one are at
most what the counters of their key say (other tiers and lost replies raise them as
well) and at most the limit each; the bound itself is inductive only with these: a
login is admitted when the weighted count is below the limit, and a new bucket
begins with what the old one held. In a process (`MemoryInv`), the logins since the
memory's bucket began are at most its count, those before it at most the limit of
one bucket, and a bucket that has run out had all of its logins within one window.
`TypeCorrect` needs that a tier that admits has room (`AdmitsBelow`) and that no
build is ahead of the runs (`BuildInv`).

Only model-checked: liveness under fairness (`PublishesAtLeastOnce` beyond its
safety part, `EveryEventDone`, `EveryDeliverySettles`, `DeletedBytesGo`), which the
prover's temporal backend does not cover, and the four violated properties. Every
invariant and every action property of a passing run is a theorem.

## 6. Not modelled

- Time: the length of backoffs, leases and delays. `waitUntilReady` sleeping in
  the only loop of a consumer delays other partitions; nothing here says how long.
  The rate limiter has ticks, and one clock for all processes.
- Expiry of sessions and blocklist entries. A ban lives as long as its token, so
  within a token's lifetime nothing is lost. The rate limiter's keys outlive their
  use, so their expiry is left out as well.
- Payloads, schemas, passwords, signatures, content types: a record is valid or
  not, a password is the right one, a token is genuine.
- `orchestrate.sh`, which restarts everything in one go, and the pruning of images;
  runs of `deploy.sh` that overlap, which the Jenkinsfile does not forbid; the exit
  codes of `docker ps | grep -q` under `pipefail`.
- The headers of the rate limiter's answers. `Retry-After` is the rest of the
  bucket, which is not always enough, because the weight of that bucket counts on.
- Creating and listing templates, role descriptions, avatars: single statements on
  rows that nothing here reads.
- Everything marked `not_modelled` in `PROJECT.json`, with its reason there.

## 7. Plan

Events out (`OutboxRelay`), events in (`InboxConsumer`) and who may act
(`Sessions`) were built first, because the rest builds on them; then what
requests do at once (`Notifications`, `Content`, `Accounts`) and what surrounds
them (`Edge`). What is left, in this order:

1. A composition of outbox and inbox: an event that takes effect was committed by
   its producer, and a committed event is applied, overtaken or a dead letter.
2. Overlapping runs of `deploy.sh`, and `orchestrate.sh` beside it.
