------------------------ MODULE NotificationRequests ------------------------
(***************************************************************************)
(* The write side of internal/modules/notification: Enqueue (events.go),   *)
(* the preferences and the template patch (handler.go), and the tables of  *)
(* migration 000007.  One user and one category; a template or preference  *)
(* row is known by its channel.  A transaction keeps its inserts to itself *)
(* until it commits; the unique index on (idempotency_key, channel) makes  *)
(* an insert wait for the uncommitted row of another transaction.          *)
(***************************************************************************)
EXTENDS Naturals, Sequences, FiniteSets

CONSTANTS
    Requests,       \* send requests, each arrives at most once
    Admins,         \* template patches, each arrives at most once
    Channels,       \* the channels in use
    Payloads,       \* what a request may ask for, and whether the account is active
    Patches,        \* template patches: functions from some of the fields
    Puts,           \* PUTs of the preferences: functions from some of the channels
    Patched,        \* channels whose template is patched
    Flagged,        \* channels whose flag is on
    Providers,      \* channels whose provider is configured
    MaxEvents       \* bound on requests, failures, crashes and overruns together

KnownChannels == {"email", "sms", "push", "in_app", "telegram"}
Statuses == {"pending", "sending", "sent", "failed", "skipped"}
\* textOnly parses as text and not as HTML, dataBound renders on the data of
\* some requests only, broken never does.
Texts == {"plain", "textOnly", "dataBound", "broken"}
Formats == {"text", "html", "markdown"}
Fields == {"subject", "body", "format", "active"}
Preferences == {"none", "off", "on", "unaddressed"}
Answers == {"none", "created", "replayed", "refused", "error"}

ASSUME RequestsAssumption ==
    /\ Channels \subseteq KnownChannels
    /\ Payloads \subseteq [list : Seq(Channels) \ {<<>>}, keyed : BOOLEAN, active : BOOLEAN,
                     odd : BOOLEAN]
    /\ \A p \in Patches : /\ DOMAIN p \subseteq Fields
                          /\ \A f \in DOMAIN p \cap {"subject", "body"} : p[f] \in Texts
                          /\ "format" \in DOMAIN p => p["format"] \in Formats
                          /\ "active" \in DOMAIN p => p["active"] \in BOOLEAN
    /\ \A items \in Puts : DOMAIN items \subseteq Channels /\ items \in [DOMAIN items -> Preferences]
    /\ Patched \subseteq Channels
    /\ Flagged \subseteq Channels /\ Providers \subseteq Channels
    /\ MaxEvents \in Nat

VARIABLES
    templates,    \* the template row of each channel
    fresh,        \* fields that hold what their last committed patch wrote
    changed,      \* changed[c]: the fields of the template that were ever patched
    raced,        \* channels patched from a row that another patch had changed
    admin,        \* admin[a]: a template patch between its SELECT and its UPDATE
    preferences,  \* "none": no row
    puts,         \* PUTs so far
    offSince,     \* the PUT after which the channel has been off, 0 if it is on
    send,         \* send[r]: a send request
    deliveries,   \* committed deliveries in the order of their inserts
    queued,       \* deliveries whose event is in the outbox
    attemptLog,   \* rows of notification_attempts
    events        \* requests, failures, crashes and overruns so far

templateVars == <<templates, fresh, changed, raced, admin>>
preferenceVars == <<preferences, puts, offSince>>
sendVars == <<send, queued>>
requestVars == <<templateVars, preferenceVars, sendVars>>

Template == [subject : Texts, body : Texts, format : Formats, active : BOOLEAN, version : Nat]

\* A row, and what has happened to it: leases that ran out, messages that a
\* provider took, those whose reply was lost, whether a sender gave it up.
Delivery == [request : Requests, channel : Channels, keyed : BOOLEAN, status : Statuses,
             attempts : Nat, leased : BOOLEAN, read : BOOLEAN,
             lapses : Nat, accepted : Nat, lost : Nat, rejected : BOOLEAN]

AttemptRow == Nat \X Nat \X Statuses

NewDelivery(r, c, keyed, status) ==
    [request |-> r, channel |-> c, keyed |-> keyed, status |-> status, attempts |-> 0,
     leased |-> FALSE, read |-> FALSE, lapses |-> 0, accepted |-> 0, lost |-> 0,
     rejected |-> FALSE]

NoSend == [step |-> "new", keyed |-> FALSE, list |-> <<>>, active |-> FALSE, odd |-> FALSE,
           seen |-> 0, rows |-> <<>>, met |-> FALSE, answer |-> "none"]
NoPatch == [step |-> "new", channel |-> "", patch |-> <<>>, row |-> <<>>]

Event == events < MaxEvents /\ events' = events + 1

-----------------------------------------------------------------------------
(* Templates.                                                              *)

\* renderBody on plain or on odd data: HTML goes through html/template, the
\* rest through text/template.
Renders(format, text, odd) ==
    /\ text # "broken"
    /\ format = "html" => text # "textOnly"
    /\ odd => text # "dataBound"

Shipped(c) == [subject |-> "plain", body |-> "plain",
               format |-> CASE c = "email" -> "html"
                            [] c = "telegram" -> "markdown"
                            [] OTHER -> "text",
               active |-> TRUE, version |-> 1]

\* The row with the fields of the patch.
Merge(row, p) == [row EXCEPT !.subject = IF "subject" \in DOMAIN p THEN p["subject"] ELSE @,
                             !.body = IF "body" \in DOMAIN p THEN p["body"] ELSE @,
                             !.format = IF "format" \in DOMAIN p THEN p["format"] ELSE @,
                             !.active = IF "active" \in DOMAIN p THEN p["active"] ELSE @]

\* Mutant: the body is not tried.
PatchReadsUntried(a) ==
    /\ admin[a].step = "new"
    /\ Event
    /\ \E c \in Patched, p \in Patches :
        admin' = [admin EXCEPT ![a] = [step |-> "read", channel |-> c, patch |-> p,
                                       row |-> templates[c]]]
    /\ UNCHANGED <<templates, fresh, changed, raced, preferenceVars, sendVars, deliveries,
                   attemptLog>>

\* patchTemplateHandler up to GetTemplate and the trial of the body, on no data
\* and with the format of the row, not that of the patch.  The subject is not
\* tried.
PatchReads(a) ==
    /\ admin[a].step = "new"
    /\ Event
    /\ \E c \in Patched, p \in Patches :
        /\ "body" \in DOMAIN p => Renders(templates[c].format, p["body"], FALSE)
        /\ admin' = [admin EXCEPT ![a] = [step |-> "read", channel |-> c, patch |-> p,
                                          row |-> templates[c]]]
    /\ UNCHANGED <<templates, fresh, changed, raced, preferenceVars, sendVars, deliveries,
                   attemptLog>>

\* UpdateTemplate writes every field of the row that was read.
PatchWrites(a) ==
    LET c == admin[a].channel
        p == admin[a].patch
        old == admin[a].row
        new == [Merge(old, p) EXCEPT !.version = templates[c].version + 1]
    IN  /\ admin[a].step = "read"
        /\ templates' = [templates EXCEPT ![c] = new]
        /\ fresh' = [fresh EXCEPT ![c] =
                        DOMAIN p \cup {f \in @ : new[f] = templates[c][f]}]
        /\ changed' = [changed EXCEPT ![c] = @ \cup DOMAIN p]
        /\ raced' = raced \cup (IF old.version # templates[c].version THEN {c} ELSE {})
        /\ admin' = [admin EXCEPT ![a].step = "done"]
        /\ UNCHANGED <<preferenceVars, sendVars, deliveries, attemptLog, events>>

-----------------------------------------------------------------------------
(* Preferences.                                                            *)

\* putPreferencesHandler: every item is upserted in one transaction.
PutPreferences ==
    /\ Event
    /\ puts' = puts + 1
    /\ \E items \in Puts :
        /\ preferences' = [c \in Channels |->
                              IF c \in DOMAIN items THEN items[c] ELSE preferences[c]]
        /\ offSince' = [c \in Channels |->
                           IF c \notin DOMAIN items THEN offSince[c]
                           ELSE IF items[c] # "off" THEN 0
                           ELSE IF preferences[c] = "off" THEN offSince[c] ELSE puts + 1]
    /\ UNCHANGED <<templateVars, sendVars, deliveries, attemptLog>>

OptedOut(c) == preferences[c] = "off"

Wired == Flagged \cap (Providers \cup {"in_app"})
ChannelOn(c) == c \in Flagged /\ c \in Wired

\* The destination: the one of the preference, else the address of the account
\* for mail and the user id for in_app.
HasDestination(c) == preferences[c] = "on" \/ c \in {"email", "in_app"}

\* Mutant: without the preference.
GateAlwaysOpen(active, c) ==
    IF active /\ ChannelOn(c) /\ HasDestination(c) THEN "pending" ELSE "skipped"

\* gate: the status of a new delivery.
Gate(active, c) ==
    IF active /\ ChannelOn(c) /\ ~OptedOut(c) /\ HasDestination(c)
    THEN "pending" ELSE "skipped"

-----------------------------------------------------------------------------
(* Enqueue.                                                                *)

Answer(r, a) == send' = [send EXCEPT ![r].step = "done", ![r].answer = a, ![r].rows = <<>>]

Keyed(c) == {d \in DOMAIN deliveries : deliveries[d].keyed /\ deliveries[d].channel = c}

\* The request is decoded and the account is read.
SendArrives(r) ==
    /\ send[r].step = "new"
    /\ Event
    /\ \E p \in Payloads :
        send' = [send EXCEPT ![r] = [NoSend EXCEPT !.step = "lookup", !.list = p.list,
                                        !.keyed = p.keyed, !.active = p.active, !.odd = p.odd,
                                        !.seen = puts]]
    /\ UNCHANGED <<templateVars, preferenceVars, deliveries, queued, attemptLog>>

\* The transaction begins with ListByIdempotency.
SendLooksUp(r) ==
    /\ send[r].step = "lookup"
    /\ IF send[r].keyed /\ \E c \in Channels : Keyed(c) # {}
       THEN Answer(r, "replayed")
       ELSE send' = [send EXCEPT ![r].step = "build"]
    /\ UNCHANGED <<templateVars, preferenceVars, deliveries, queued, attemptLog, events>>

HasMore(r) == Len(send[r].rows) < Len(send[r].list)

\* At step "insert" the last row is built and not yet in its table.
InTable(r) == IF send[r].step = "insert" THEN 1..Len(send[r].rows) - 1 ELSE DOMAIN send[r].rows
Held(r) == {send[r].rows[n].channel : n \in InTable(r)}
NextChannel(r) == send[r].rows[Len(send[r].rows)].channel

\* Another open transaction has inserted this key and channel.
Open(r) == send[r].step \in {"build", "insert"}
WaitsFor(r, q) ==
    /\ send[r].step = "insert" /\ q # r /\ Open(q)
    /\ send[r].keyed /\ send[q].keyed /\ NextChannel(r) \in Held(q)

Blocked(r) == \E q \in Requests : WaitsFor(r, q)

\* The subject is rendered as text; the template of the code, which renders on
\* any data, takes the place of one that is switched off.
Stored(c) == templates[c].active
Builds(c, odd) ==
    Stored(c) => /\ Renders("text", templates[c].subject, odd)
                 /\ Renders(templates[c].format, templates[c].body, odd)

\* build for the next channel, from the preference and the template as they
\* are now; a template that does not render fails the request.
SendBuilds(r) ==
    LET c == send[r].list[Len(send[r].rows) + 1] IN
    /\ send[r].step = "build" /\ HasMore(r)
    /\ IF ~Builds(c, send[r].odd) THEN Answer(r, "refused")
       ELSE send' = [send EXCEPT ![r].step = "insert", ![r].rows =
                        Append(@, NewDelivery(r, c, send[r].keyed, Gate(send[r].active, c)))]
    /\ UNCHANGED <<templateVars, preferenceVars, deliveries, queued, attemptLog, events>>

\* Mutant: without the unique index on (idempotency_key, channel).
SendInsertsUnindexed(r) ==
    /\ send[r].step = "insert"
    /\ send' = [send EXCEPT ![r].step = "build"]
    /\ UNCHANGED <<templateVars, preferenceVars, deliveries, queued, attemptLog, events>>

\* CreateDeliveryTx of the row that was built, which may have to wait.
SendInserts(r) ==
    /\ send[r].step = "insert"
    /\ ~Blocked(r)
    /\ IF send[r].keyed /\ (Keyed(NextChannel(r)) # {} \/ NextChannel(r) \in Held(r))
       THEN send' = [send EXCEPT ![r].step = "reload", ![r].rows = <<>>]
       ELSE send' = [send EXCEPT ![r].step = "build"]
    /\ UNCHANGED <<templateVars, preferenceVars, deliveries, queued, attemptLog, events>>

\* Mutant: every insert commits, Enqueue without WithTx.
SendFailsHalfway(r) ==
    /\ send[r].step = "build"
    /\ Event
    /\ deliveries' = deliveries \o send[r].rows
    /\ Answer(r, "error")
    /\ UNCHANGED <<templateVars, preferenceVars, queued, attemptLog>>

\* A unique violation of the reference id ends the transaction: the second
\* try fails too, as every statement does in a failed transaction.  Any other
\* failing call of the transaction has the same effect.
SendFails(r) ==
    /\ send[r].step \in {"lookup", "build", "insert", "reload"}
    /\ Event
    /\ Answer(r, "error")
    /\ UNCHANGED <<templateVars, preferenceVars, deliveries, queued, attemptLog>>

\* PostgreSQL ends one of two transactions that wait for each other.
SendDeadlocks(r) ==
    /\ \E q \in Requests : WaitsFor(r, q) /\ WaitsFor(q, r)
    /\ Answer(r, "error")
    /\ UNCHANGED <<templateVars, preferenceVars, deliveries, queued, attemptLog, events>>

\* The commit makes deliveries, their events and the log of the skipped ones
\* visible; its reply may be lost.
SendCommits(r) ==
    LET new == Len(deliveries) + 1 .. Len(deliveries) + Len(send[r].rows) IN
    /\ send[r].step = "build" /\ ~HasMore(r)
    /\ deliveries' = deliveries \o send[r].rows
    /\ queued' = queued \cup new
    /\ attemptLog' = attemptLog \cup
            {<<d, 0, "skipped">> : d \in {n \in new : deliveries'[n].status = "skipped"}}
    /\ \/ Answer(r, "created") /\ UNCHANGED events
       \/ Answer(r, "error") /\ Event
    /\ UNCHANGED <<templateVars, preferenceVars>>

\* After a conflict of the key: ListByIdempotency outside the transaction.
SendReloads(r) ==
    /\ send[r].step = "reload"
    /\ send' = [send EXCEPT ![r].step = "done", ![r].answer = "replayed",
                            ![r].met = \A c \in Channels : Keyed(c) = {}]
    /\ UNCHANGED <<templateVars, preferenceVars, deliveries, queued, attemptLog, events>>

SendStep(r) ==
    \/ SendLooksUp(r)
    \/ SendBuilds(r)
    \/ SendInserts(r)
    \/ SendDeadlocks(r)
    \/ SendCommits(r)
    \/ SendReloads(r)

-----------------------------------------------------------------------------

RequestInit ==
    /\ templates = [c \in Channels |-> Shipped(c)]
    /\ fresh = [c \in Channels |-> Fields]
    /\ changed = [c \in Channels |-> {}]
    /\ raced = {}
    /\ admin = [a \in Admins |-> NoPatch]
    /\ preferences = [c \in Channels |-> "none"]
    /\ puts = 0
    /\ offSince = [c \in Channels |-> 0]
    /\ send = [r \in Requests |-> NoSend]
    /\ deliveries = <<>>
    /\ queued = {} /\ attemptLog = {}
    /\ events = 0

RequestNext ==
    \/ \E a \in Admins : PatchReads(a) \/ PatchWrites(a)
    \/ PutPreferences
    \/ \E r \in Requests : SendArrives(r) \/ SendStep(r) \/ SendFails(r)

=============================================================================
