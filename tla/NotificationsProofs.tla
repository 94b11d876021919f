------------------------ MODULE NotificationsProofs ------------------------
(***************************************************************************)
(* Proofs about notification requests and the delivery queue, for every    *)
(* set of requests, patches and API processes and every value of the       *)
(* bounds.                                                                 *)
(***************************************************************************)
EXTENDS Notifications, FiniteSetTheorems, TLAPS

-----------------------------------------------------------------------------
(* Who changes what.                                                       *)

Arriving(r) == SendArrives(r) \/ SendStep(r) \/ SendFails(r)

LEMMA TemplatesMove ==
    ASSUME [Next]_vars
    PROVE  UNCHANGED templateVars \/ \E a \in Admins : PatchReads(a) \/ PatchWrites(a)
<1>1. ASSUME NEW r \in Requests, Arriving(r) PROVE UNCHANGED templateVars
  BY <1>1 DEF Arriving, SendArrives, SendStep, SendFails, SendLooksUp, SendBuilds, SendInserts,
              SendDeadlocks, SendCommits, SendReloads
<1>2. ASSUME QueueNext PROVE UNCHANGED templateVars
  BY <1>2 DEF QueueNext, DispatchStep, Claim, Send, Finish, LogAttempt, Stop, LeaseEnds,
              MarkRead, requestVars
<1>3. ASSUME PutPreferences PROVE UNCHANGED templateVars
  BY <1>3 DEF PutPreferences
<1>4. ASSUME UNCHANGED vars PROVE UNCHANGED templateVars
  BY <1>4 DEF vars, requestVars
<1>5. QED BY <1>1, <1>2, <1>3, <1>4 DEF Next, RequestNext, Arriving

LEMMA PreferencesMove ==
    ASSUME [Next]_vars
    PROVE  UNCHANGED preferenceVars \/ PutPreferences
<1>1. ASSUME NEW r \in Requests, Arriving(r) PROVE UNCHANGED preferenceVars
  BY <1>1 DEF Arriving, SendArrives, SendStep, SendFails, SendLooksUp, SendBuilds, SendInserts,
              SendDeadlocks, SendCommits, SendReloads
<1>2. ASSUME QueueNext PROVE UNCHANGED preferenceVars
  BY <1>2 DEF QueueNext, DispatchStep, Claim, Send, Finish, LogAttempt, Stop, LeaseEnds,
              MarkRead, requestVars
<1>3. ASSUME NEW a \in Admins, PatchReads(a) \/ PatchWrites(a) PROVE UNCHANGED preferenceVars
  BY <1>3 DEF PatchReads, PatchWrites
<1>4. ASSUME UNCHANGED vars PROVE UNCHANGED preferenceVars
  BY <1>4 DEF vars, requestVars
<1>5. QED BY <1>1, <1>2, <1>3, <1>4 DEF Next, RequestNext, Arriving

LEMMA SendsMove ==
    ASSUME [Next]_vars
    PROVE  \/ UNCHANGED sendVars
           \/ UNCHANGED work /\ \E r \in Requests : Arriving(r)
<1>1. ASSUME QueueNext PROVE UNCHANGED sendVars
  BY <1>1 DEF QueueNext, DispatchStep, Claim, Send, Finish, LogAttempt, Stop, LeaseEnds,
              MarkRead, requestVars
<1>2. ASSUME NEW a \in Admins, PatchReads(a) \/ PatchWrites(a) PROVE UNCHANGED sendVars
  BY <1>2 DEF PatchReads, PatchWrites
<1>3. ASSUME PutPreferences PROVE UNCHANGED sendVars
  BY <1>3 DEF PutPreferences
<1>4. ASSUME UNCHANGED vars PROVE UNCHANGED sendVars
  BY <1>4 DEF vars, requestVars
<1>5. QED BY <1>1, <1>2, <1>3, <1>4 DEF Next, RequestNext, Arriving

\* Nothing happens to the rows and their dispatchers but by these.
LEMMA RowsMove ==
    ASSUME [Next]_vars
    PROVE  \/ UNCHANGED <<deliveries, work, attemptLog>>
           \/ UNCHANGED work /\ \E r \in Requests : SendCommits(r)
           \/ QueueNext
<1>1. ASSUME NEW r \in Requests, Arriving(r), UNCHANGED work
      PROVE  UNCHANGED <<deliveries, work, attemptLog>> \/ SendCommits(r)
  BY <1>1 DEF Arriving, SendArrives, SendStep, SendFails, SendLooksUp, SendBuilds, SendInserts,
              SendDeadlocks, SendReloads
<1>2. ASSUME NEW a \in Admins, PatchReads(a) \/ PatchWrites(a)
      PROVE  UNCHANGED <<deliveries, attemptLog>>
  BY <1>2 DEF PatchReads, PatchWrites
<1>3. ASSUME PutPreferences PROVE UNCHANGED <<deliveries, attemptLog>>
  BY <1>3 DEF PutPreferences
<1>4. ASSUME UNCHANGED vars PROVE UNCHANGED <<deliveries, work, attemptLog>>
  BY <1>4 DEF vars
<1>5. QED BY <1>1, <1>2, <1>3, <1>4 DEF Next, RequestNext, Arriving

-----------------------------------------------------------------------------
(* Templates.                                                              *)

PatchCall == [step : {"new", "read", "done"}, channel : Channels \cup {""},
              patch : Patches \cup {<<>>}, row : Template \cup {<<>>}]

TemplateType ==
    /\ templates \in [Channels -> Template]
    /\ fresh \in [Channels -> SUBSET Fields]
    /\ raced \subseteq Patched /\ changed \in [Channels -> SUBSET Fields]
    /\ admin \in [Admins -> PatchCall]

\* What a row of c still has when no more than these fields were patched: a
\* body that was tried renders on plain data until the format is patched.
Untouched(c, row, patched) ==
    /\ "subject" \notin patched => row.subject = "plain"
    /\ "body" \notin patched => row.body = "plain"
    /\ "format" \notin patched => row.format = Shipped(c).format
                                 /\ Renders(row.format, row.body, FALSE)

\* A patch has read an earlier row of its channel, or the one that is there.
PatchInv(a) ==
    LET c == admin[a].channel
        row == admin[a].row
    IN  admin[a].step = "read" =>
            /\ c \in Patched /\ admin[a].patch \in Patches /\ row \in Template
            /\ row.version <= templates[c].version
            /\ row.version = templates[c].version => row = templates[c]
            /\ Untouched(c, row, changed[c])
            /\ "body" \in DOMAIN admin[a].patch /\ "format" \notin changed[c] =>
                   Renders(row.format, admin[a].patch["body"], FALSE)

TemplateInv ==
    /\ TemplateType
    /\ \A a \in Admins : PatchInv(a)
    /\ \A c \in Channels :
        /\ fresh[c] # Fields => c \in raced
        /\ Untouched(c, templates[c], changed[c])

LEMMA ShippedTyped ==
    ASSUME NEW c \in Channels PROVE Shipped(c) \in Template /\ Untouched(c, Shipped(c), {})
<1>1. Shipped(c).format \in Formats
  BY DEF Shipped, Formats
<1>2. QED BY <1>1 DEF Shipped, Template, Texts, Untouched, Renders

LEMMA TemplatesInitially == Init => TemplateInv
<1> SUFFICES ASSUME Init PROVE TemplateInv
  OBVIOUS
<1> USE RequestsAssumption DEF Init, RequestInit
<1>1. TemplateType
  BY ShippedTyped DEF TemplateType, NoPatch, PatchCall
<1>2. \A a \in Admins : PatchInv(a)
  BY DEF PatchInv, NoPatch
<1>3. QED BY <1>1, <1>2, ShippedTyped DEF TemplateInv

LEMMA MergeTyped ==
    ASSUME NEW row \in Template, NEW p \in Patches
    PROVE  /\ Merge(row, p) \in Template
           /\ Merge(row, p).version = row.version
           /\ \A f \in Fields \ DOMAIN p : Merge(row, p)[f] = row[f]
           /\ Merge(row, p).format = IF "format" \in DOMAIN p THEN p["format"] ELSE row.format
           /\ Merge(row, p).subject =
                  IF "subject" \in DOMAIN p THEN p["subject"] ELSE row.subject
           /\ Merge(row, p).body = IF "body" \in DOMAIN p THEN p["body"] ELSE row.body
  BY RequestsAssumption DEF Merge, Template, Fields

LEMMA PatchReadsKeeps ==
    ASSUME TemplateInv, NEW a \in Admins, PatchReads(a) PROVE TemplateInv'
<1>1. PICK c \in Patched, p \in Patches :
          /\ "body" \in DOMAIN p => Renders(templates[c].format, p["body"], FALSE)
          /\ admin' = [admin EXCEPT ![a] = [step |-> "read", channel |-> c, patch |-> p,
                                            row |-> templates[c]]]
  BY DEF PatchReads
<1>2. UNCHANGED <<templates, fresh, changed, raced>>
  BY DEF PatchReads
<1>3. c \in Channels /\ templates[c] \in Template
  BY RequestsAssumption DEF TemplateInv, TemplateType
<1>4. TemplateType'
  BY <1>1, <1>2, <1>3 DEF TemplateInv, TemplateType, PatchCall
<1>5. ASSUME NEW b \in Admins PROVE PatchInv(b)'
  <2>1. CASE b = a
    <3>1. /\ admin'[b].channel = c /\ admin'[b].patch = p /\ admin'[b].row = templates[c]
      BY <1>1, <2>1 DEF TemplateInv, TemplateType
    <3>2. templates[c].version \in Nat
      BY <1>3 DEF Template
    <3>3. Untouched(c, templates[c], changed[c])
      BY <1>3 DEF TemplateInv
    <3>4. "body" \in DOMAIN p /\ "format" \notin changed[c] =>
              Renders(templates[c].format, p["body"], FALSE)
      BY <1>1, <3>3 DEF Untouched
    <3>5. Untouched(admin'[b].channel, admin'[b].row, changed'[admin'[b].channel])
      BY <1>2, <3>1, <3>3
    <3>6. "body" \in DOMAIN admin'[b].patch /\ "format" \notin changed'[admin'[b].channel] =>
              Renders(admin'[b].row.format, admin'[b].patch["body"], FALSE)
      BY <1>2, <3>1, <3>4
    <3>7. /\ admin'[b].channel \in Patched /\ admin'[b].patch \in Patches
          /\ admin'[b].row \in Template
          /\ admin'[b].row = templates'[admin'[b].channel]
      BY <1>2, <1>3, <3>1
    <3>8. admin'[b].row.version <= templates'[admin'[b].channel].version
      BY <1>2, <3>1, <3>2
    <3>9. QED BY <3>5, <3>6, <3>7, <3>8 DEF PatchInv
  <2>2. CASE b # a
    <3>1. admin'[b] = admin[b]
      BY <1>1, <2>2 DEF TemplateInv, TemplateType
    <3>2. QED BY <1>2, <3>1 DEF TemplateInv, PatchInv
  <2>3. QED BY <2>1, <2>2
<1>6. QED BY <1>2, <1>4, <1>5 DEF TemplateInv, Untouched

LEMMA PatchWritesKeeps ==
    ASSUME TemplateInv, NEW a \in Admins, PatchWrites(a) PROVE TemplateInv'
<1> DEFINE c == admin[a].channel
           p == admin[a].patch
           old == admin[a].row
           new == [Merge(old, p) EXCEPT !.version = templates[c].version + 1]
<1>0. /\ templates' = [templates EXCEPT ![c] = new]
      /\ fresh' = [fresh EXCEPT ![c] = DOMAIN p \cup {f \in @ : new[f] = templates[c][f]}]
      /\ changed' = [changed EXCEPT ![c] = @ \cup DOMAIN p]
      /\ raced' = raced \cup (IF old.version # templates[c].version THEN {c} ELSE {})
      /\ admin' = [admin EXCEPT ![a].step = "done"]
      /\ admin[a].step = "read"
  BY DEF PatchWrites
<1>1. /\ c \in Patched /\ c \in Channels /\ p \in Patches /\ old \in Template
      /\ old.version = templates[c].version => old = templates[c]
      /\ Untouched(c, old, changed[c])
      /\ "body" \in DOMAIN p /\ "format" \notin changed[c] => Renders(old.format, p["body"], FALSE)
  BY <1>0, RequestsAssumption DEF TemplateInv, PatchInv
<1>2. /\ templates \in [Channels -> Template] /\ fresh \in [Channels -> SUBSET Fields]
      /\ admin \in [Admins -> PatchCall] /\ raced \subseteq Patched
      /\ changed \in [Channels -> SUBSET Fields]
  BY DEF TemplateInv, TemplateType
<1>3. /\ new \in Template /\ new.version = templates[c].version + 1
      /\ \A f \in Fields \ DOMAIN p : new[f] = old[f]
      /\ new.format = IF "format" \in DOMAIN p THEN p["format"] ELSE old.format
      /\ new.subject = IF "subject" \in DOMAIN p THEN p["subject"] ELSE old.subject
      /\ new.body = IF "body" \in DOMAIN p THEN p["body"] ELSE old.body
  <2>1. Merge(old, p) \in Template
    BY <1>1, MergeTyped
  <2>2. templates[c].version \in Nat
    BY <1>1, <1>2 DEF Template
  <2>3. /\ new \in Template /\ new.version = templates[c].version + 1
        /\ new.format = Merge(old, p).format /\ new.body = Merge(old, p).body
        /\ new.subject = Merge(old, p).subject
        /\ \A f \in Fields : new[f] = Merge(old, p)[f]
    BY <2>1, <2>2 DEF Template, Fields
  <2>4. QED BY <1>1, <2>3, MergeTyped
<1>4. DOMAIN p \subseteq Fields
  BY <1>1, RequestsAssumption
<1> HIDE DEF new
<1>5. TemplateType'
  <2>1. fresh'[c] \subseteq Fields
    BY <1>0, <1>1, <1>2, <1>4
  <2>2. fresh' \in [Channels -> SUBSET Fields]
    BY <1>0, <1>1, <1>2, <2>1
  <2>3. admin' \in [Admins -> PatchCall]
    BY <1>0, <1>2 DEF PatchCall
  <2>4. changed' \in [Channels -> SUBSET Fields]
    BY <1>0, <1>2, <1>4
  <2>5. QED BY <1>0, <1>1, <1>2, <1>3, <2>2, <2>3, <2>4 DEF TemplateType
<1>c. /\ changed'[c] = changed[c] \cup DOMAIN p
      /\ \A d \in Channels \ {c} : changed'[d] = changed[d]
  BY <1>0, <1>1, <1>2
<1>6. Untouched(c, new, changed'[c])
  BY <1>1, <1>3, <1>c DEF Untouched, Renders
<1>7. fresh'[c] # Fields => c \in raced'
  <2>1. CASE old.version # templates[c].version
    BY <1>0, <2>1
  <2>2. CASE old.version = templates[c].version /\ c \notin raced
    <3>1. fresh[c] = Fields
      BY <1>1, <2>2 DEF TemplateInv
    <3>2. \A f \in Fields \ DOMAIN p : new[f] = templates[c][f]
      BY <1>1, <1>3, <2>2
    <3>3. fresh'[c] = DOMAIN p \cup {f \in fresh[c] : new[f] = templates[c][f]}
      BY <1>0, <1>1, <1>2
    <3>4. QED BY <1>4, <3>1, <3>2, <3>3
  <2>3. QED BY <1>0, <2>1, <2>2
<1>8. \A d \in Channels : /\ fresh'[d] # Fields => d \in raced'
                          /\ Untouched(d, templates'[d], changed'[d])
  <2>1. ASSUME NEW d \in Channels, d # c
        PROVE  /\ fresh'[d] # Fields => d \in raced'
               /\ Untouched(d, templates'[d], changed'[d])
    <3>1. fresh'[d] = fresh[d] /\ templates'[d] = templates[d]
      BY <1>0, <1>2, <2>1
    <3>2. QED BY <1>0, <1>c, <2>1, <3>1 DEF TemplateInv, Untouched
  <2>2. templates'[c] = new
    BY <1>0, <1>1, <1>2
  <2>3. QED BY <1>6, <1>7, <2>1, <2>2
<1>9. ASSUME NEW b \in Admins PROVE PatchInv(b)'
  <2>1. CASE b = a
    BY <1>0, <1>2, <2>1 DEF PatchInv, PatchCall
  <2>2. CASE b # a
    <3>1. admin'[b] = admin[b]
      BY <1>0, <1>2, <2>2
    <3>2. CASE admin[b].channel = c
      <4>1. templates'[c] = new
        BY <1>0, <1>1, <1>2
      <4>2. templates[c].version \in Nat /\ (admin[b].row \in Template => admin[b].row.version \in Nat)
        BY <1>1, <1>2 DEF Template
      <4>3. PatchInv(b) /\ changed[c] \subseteq changed'[c]
        BY <1>c DEF TemplateInv
      <4>4. Untouched(c, admin[b].row, changed[c]) =>
                Untouched(c, admin[b].row, changed'[c])
        BY <4>3 DEF Untouched
      <4>5. admin[b].step = "read" =>
                Untouched(admin'[b].channel, admin'[b].row, changed'[admin'[b].channel])
        BY <3>1, <3>2, <4>3, <4>4 DEF PatchInv
      <4>6. /\ admin[b].step = "read"
            /\ "body" \in DOMAIN admin'[b].patch /\ "format" \notin changed'[admin'[b].channel]
            => Renders(admin'[b].row.format, admin'[b].patch["body"], FALSE)
        BY <3>1, <3>2, <4>3 DEF PatchInv
      <4>7. admin[b].step = "read" =>
                /\ admin'[b].channel \in Patched /\ admin'[b].patch \in Patches
                /\ admin'[b].row \in Template
                /\ admin'[b].row.version <= templates'[admin'[b].channel].version
                /\ admin'[b].row.version # templates'[admin'[b].channel].version
        BY <1>3, <3>1, <3>2, <4>1, <4>2, <4>3 DEF PatchInv
      <4>8. QED BY <3>1, <4>5, <4>6, <4>7 DEF PatchInv
    <3>3. CASE admin[b].channel # c
      <4>1. admin[b].channel \in Patched => templates'[admin[b].channel] = templates[admin[b].channel]
        BY <1>0, <1>2, <3>3, RequestsAssumption
      <4>2. admin[b].channel \in Patched => changed'[admin[b].channel] = changed[admin[b].channel]
        BY <1>c, <3>3, RequestsAssumption
      <4>3. PatchInv(b)
        BY DEF TemplateInv
      <4>4. QED BY <3>1, <4>1, <4>2, <4>3 DEF PatchInv
    <3>4. QED BY <3>2, <3>3
  <2>3. QED BY <2>1, <2>2
<1>10. QED BY <1>5, <1>8, <1>9 DEF TemplateInv

LEMMA TemplateNext == ASSUME TemplateInv, [Next]_vars PROVE TemplateInv'
<1>1. CASE UNCHANGED templateVars
  BY <1>1 DEF templateVars, TemplateInv, TemplateType, PatchInv, Untouched
<1>2. QED BY <1>1, TemplatesMove, PatchReadsKeeps, PatchWritesKeeps

-----------------------------------------------------------------------------
(* Types of the rest.                                                      *)

SendCall == [step : {"new", "lookup", "build", "insert", "reload", "done"}, keyed : BOOLEAN,
             list : Seq(Channels), active : BOOLEAN, odd : BOOLEAN, seen : Nat,
             rows : Seq(Delivery), met : BOOLEAN, answer : Answers]

CountType == events \in 0..MaxEvents /\ puts \in 0..events

PreferenceType ==
    /\ preferences \in [Channels -> Preferences]
    /\ offSince \in [Channels -> 0..puts]

SendType == send \in [Requests -> SendCall]

RowType ==
    /\ deliveries \in Seq(Delivery)
    /\ queued \subseteq DOMAIN deliveries
    /\ attemptLog \subseteq AttemptRow /\ \A l \in attemptLog : l[1] \in DOMAIN deliveries

Work == [batch : SUBSET Claimed, step : {"next", "finish", "log"}, claim : Claimed,
         status : {"sent", "failed", "pending"}]

WorkType ==
    /\ work \in [Dispatchers -> Work]
    /\ \A w \in Dispatchers :
        /\ \A e \in Holding(w) : e.row \in DOMAIN deliveries
        /\ work[w].step = "log" => work[w].claim.row \in DOMAIN deliveries

TypeInv == CountType /\ PreferenceType /\ SendType /\ RowType /\ WorkType

LEMMA TypesInitially == Init => TypeInv
<1> SUFFICES ASSUME Init PROVE TypeInv
  OBVIOUS
<1> USE RequestsAssumption DEF Init, RequestInit
<1>1. CountType /\ PreferenceType
  BY DEF CountType, PreferenceType, Preferences
<1>2. SendType
  BY DEF SendType, SendCall, NoSend, Answers
<1>3. RowType
  BY DEF RowType
<1>4. WorkType
  BY DEF WorkType, Work, Idle, Holding, Claimed
<1>5. QED BY <1>1, <1>2, <1>3, <1>4 DEF TypeInv

LEMMA CountNext == ASSUME CountType, [Next]_vars PROVE CountType'
<1> USE RequestsAssumption DEF CountType, Event
<1>1. CASE PutPreferences
  BY <1>1 DEF PutPreferences
<1>2. CASE UNCHANGED preferenceVars
  <2>1. UNCHANGED events \/ Event
    <3>1. ASSUME RequestNext PROVE UNCHANGED events \/ Event
      BY <3>1 DEF RequestNext, PatchReads, PatchWrites, PutPreferences, SendArrives, SendStep,
              SendFails, SendLooksUp, SendBuilds, SendInserts, SendDeadlocks, SendCommits, SendReloads
    <3>2. ASSUME QueueNext PROVE UNCHANGED events \/ Event
      <4>1. ASSUME NEW w \in Dispatchers, DispatchStep(w) PROVE UNCHANGED events \/ Event
        BY <4>1 DEF DispatchStep, Claim, Send, Finish, LogAttempt
      <4>2. QED BY <3>2, <4>1 DEF QueueNext, Stop, LeaseEnds, MarkRead
    <3>3. QED BY <3>1, <3>2 DEF Next, vars
  <2>2. QED BY <1>2, <2>1 DEF preferenceVars
<1>3. QED BY <1>1, <1>2, PreferencesMove

LEMMA PreferenceNext == ASSUME TypeInv, [Next]_vars PROVE PreferenceType'
<1>1. CASE UNCHANGED preferenceVars
  BY <1>1 DEF preferenceVars, TypeInv, PreferenceType
<1>2. CASE PutPreferences
  <2>1. PICK items \in Puts :
            /\ preferences' = [c \in Channels |->
                                  IF c \in DOMAIN items THEN items[c] ELSE preferences[c]]
            /\ offSince' = [c \in Channels |->
                               IF c \notin DOMAIN items THEN offSince[c]
                               ELSE IF items[c] # "off" THEN 0
                               ELSE IF preferences[c] = "off" THEN offSince[c] ELSE puts + 1]
    BY <1>2 DEF PutPreferences
  <2>2. items \in [DOMAIN items -> Preferences]
    BY RequestsAssumption
  <2>3. preferences' \in [Channels -> Preferences]
    BY <2>1, <2>2 DEF TypeInv, PreferenceType
  <2>4. puts \in Nat /\ puts' = puts + 1
    BY <1>2, RequestsAssumption DEF PutPreferences, TypeInv, CountType
  <2>5. ASSUME NEW c \in Channels PROVE offSince'[c] \in 0..puts'
    <3>1. offSince[c] \in 0..puts
      BY DEF TypeInv, PreferenceType
    <3>2. QED BY <2>1, <2>4, <3>1
  <2>6. offSince' \in [Channels -> 0..puts']
    BY <2>1, <2>5
  <2>7. QED BY <2>3, <2>6 DEF PreferenceType
<1>3. QED BY <1>1, <1>2, PreferencesMove

LEMMA NewDeliveryTyped ==
    ASSUME NEW r \in Requests, NEW c \in Channels, NEW k \in BOOLEAN, NEW s \in Statuses
    PROVE  NewDelivery(r, c, k, s) \in Delivery
  BY DEF NewDelivery, Delivery

LEMMA GateTyped ==
    ASSUME NEW active, NEW c PROVE Gate(active, c) \in {"pending", "skipped"}
  BY DEF Gate

\* The row that build returns.
BuiltRow(r) == LET c == send[r].list[Len(send[r].rows) + 1]
               IN  NewDelivery(r, c, send[r].keyed, Gate(send[r].active, c))

LEMMA BuiltTyped ==
    ASSUME SendType, NEW r \in Requests, HasMore(r)
    PROVE  /\ BuiltRow(r) \in Delivery /\ BuiltRow(r).request = r
           /\ send[r].list[Len(send[r].rows) + 1] \in Channels
           /\ BuiltRow(r).channel = send[r].list[Len(send[r].rows) + 1]
           /\ BuiltRow(r).keyed = send[r].keyed
<1> DEFINE c == send[r].list[Len(send[r].rows) + 1]
<1>1. send[r] \in SendCall /\ send[r].rows \in Seq(Delivery) /\ send[r].list \in Seq(Channels)
  BY DEF SendType, SendCall
<1>2. c \in Channels
  BY <1>1 DEF HasMore
<1>3. NewDelivery(r, c, send[r].keyed, Gate(send[r].active, c)) \in Delivery
  BY <1>1, <1>2, NewDeliveryTyped, GateTyped DEF SendCall, Statuses
<1>4. QED BY <1>2, <1>3 DEF BuiltRow, NewDelivery

\* build appends the row and leaves the rest of the request.
LEMMA BuildAppends ==
    ASSUME SendType, NEW r \in Requests, SendBuilds(r), ~Answer(r, "refused")
    PROVE  /\ send[r].step = "build" /\ send'[r].step = "insert"
           /\ send'[r].list = send[r].list /\ send'[r].keyed = send[r].keyed
           /\ send'[r].seen = send[r].seen /\ send'[r].met = send[r].met
           /\ send'[r].answer = send[r].answer
           /\ Len(send[r].rows) \in Nat /\ DOMAIN send[r].rows = 1..Len(send[r].rows)
           /\ Len(send'[r].rows) = Len(send[r].rows) + 1
           /\ DOMAIN send'[r].rows = 1..Len(send[r].rows) + 1
           /\ \A n \in DOMAIN send[r].rows : send'[r].rows[n] = send[r].rows[n]
           /\ send'[r].rows[Len(send[r].rows) + 1] = BuiltRow(r)
           /\ Len(send[r].rows) + 1 <= Len(send[r].list)
<1> DEFINE row == BuiltRow(r)
<1>1. /\ send \in [Requests -> SendCall] /\ send[r] \in SendCall
      /\ send[r].rows \in Seq(Delivery) /\ send[r].list \in Seq(Channels)
  BY DEF SendType, SendCall
<1>2. /\ send[r].step = "build" /\ HasMore(r)
      /\ send' = [send EXCEPT ![r].step = "insert", ![r].rows = Append(@, row)]
  BY DEF SendBuilds, BuiltRow
<1> HIDE DEF row
<1>3. /\ send'[r].step = "insert" /\ send'[r].rows = Append(send[r].rows, row)
      /\ send'[r].list = send[r].list /\ send'[r].keyed = send[r].keyed
      /\ send'[r].seen = send[r].seen /\ send'[r].met = send[r].met
      /\ send'[r].answer = send[r].answer
  BY <1>1, <1>2 DEF SendCall
<1>4. Append(send[r].rows, row) = [n \in 1..Len(send[r].rows) + 1 |->
          IF n = Len(send[r].rows) + 1 THEN row ELSE send[r].rows[n]]
  BY <1>1
<1>5. Len(send[r].rows) + 1 <= Len(send[r].list)
  BY <1>1, <1>2 DEF HasMore
<1>6. Len(Append(send[r].rows, row)) = Len(send[r].rows) + 1
  BY <1>1
<1>7. QED BY <1>1, <1>2, <1>3, <1>4, <1>5, <1>6 DEF row

\* What one step does to one request.
LEMMA SendMoves ==
    ASSUME TypeInv, NEW r \in Requests, Arriving(r)
    PROVE  /\ send' \in [Requests -> SendCall]
           /\ \A q \in Requests \ {r} : send'[q] = send[q]
<1>0. /\ send \in [Requests -> SendCall] /\ puts \in Nat
      /\ <<>> \in Seq(Delivery)
  BY RequestsAssumption DEF TypeInv, SendType, CountType
<1>1. CASE SendArrives(r)
  <2>1. PICK p \in Payloads :
            send' = [send EXCEPT ![r] = [NoSend EXCEPT !.step = "lookup", !.list = p.list,
                                        !.keyed = p.keyed, !.active = p.active, !.odd = p.odd,
                                        !.seen = puts]]
    BY <1>1 DEF SendArrives
  <2>2. p.list \in Seq(Channels) /\ p.keyed \in BOOLEAN /\ p.active \in BOOLEAN
        /\ p.odd \in BOOLEAN
    BY RequestsAssumption
  <2>3. [NoSend EXCEPT !.step = "lookup", !.list = p.list, !.keyed = p.keyed,
                       !.active = p.active, !.odd = p.odd, !.seen = puts] \in SendCall
    BY <1>0, <2>2 DEF NoSend, SendCall, Answers
  <2>4. QED BY <1>0, <2>1, <2>3
<1>2. ASSUME NEW a \in Answers, Answer(r, a)
      PROVE  /\ send' \in [Requests -> SendCall]
             /\ \A q \in Requests \ {r} : send'[q] = send[q]
  <2>1. [send[r] EXCEPT !.step = "done", !.answer = a, !.rows = <<>>] \in SendCall
    BY <1>0, <1>2 DEF SendCall
  <2>2. send' = [send EXCEPT ![r] = [send[r] EXCEPT !.step = "done", !.answer = a, !.rows = <<>>]]
    BY <1>0, <1>2 DEF Answer, SendCall
  <2>3. QED BY <1>0, <2>1, <2>2
<1>3. ASSUME send' = [send EXCEPT ![r].step = "build"]
      PROVE  /\ send' \in [Requests -> SendCall]
             /\ \A q \in Requests \ {r} : send'[q] = send[q]
  <2>1. [send[r] EXCEPT !.step = "build"] \in SendCall
    BY <1>0 DEF SendCall
  <2>2. send' = [send EXCEPT ![r] = [send[r] EXCEPT !.step = "build"]]
    BY <1>0, <1>3 DEF SendCall
  <2>3. QED BY <1>0, <2>1, <2>2
<1>4. CASE SendLooksUp(r)
  BY <1>2, <1>3, <1>4 DEF SendLooksUp, Answers
<1>5. CASE SendInserts(r)
  <2>1. CASE send' = [send EXCEPT ![r].step = "build"]
    BY <1>3, <2>1
  <2>2. CASE send' = [send EXCEPT ![r].step = "reload", ![r].rows = <<>>]
    <3>1. [send[r] EXCEPT !.step = "reload", !.rows = <<>>] \in SendCall
      BY <1>0 DEF SendCall
    <3>2. send' = [send EXCEPT ![r] = [send[r] EXCEPT !.step = "reload", !.rows = <<>>]]
      BY <1>0, <2>2 DEF SendCall
    <3>3. QED BY <1>0, <3>1, <3>2
  <2>3. QED BY <1>5, <2>1, <2>2 DEF SendInserts
<1>b. CASE SendBuilds(r)
  <2> DEFINE more == Append(send[r].rows, BuiltRow(r))
  <2>1. CASE Answer(r, "refused")
    BY <1>2, <2>1 DEF Answers
  <2>2. CASE send' = [send EXCEPT ![r].step = "insert", ![r].rows = Append(@, BuiltRow(r))]
    <3>1. BuiltRow(r) \in Delivery
      BY <1>b, BuiltTyped DEF SendBuilds, TypeInv
    <3>2. send[r] \in SendCall /\ send[r].rows \in Seq(Delivery)
      BY <1>0 DEF SendCall
    <3>3. more \in Seq(Delivery)
      BY <3>1, <3>2
    <3>4. send' = [send EXCEPT ![r] = [send[r] EXCEPT !.step = "insert", !.rows = more]]
      BY <1>0, <2>2 DEF SendCall
    <3> HIDE DEF more
    <3>5. [send[r] EXCEPT !.step = "insert", !.rows = more] \in SendCall
      BY <3>2, <3>3 DEF SendCall
    <3>6. QED BY <1>0, <3>4, <3>5
  <2>3. QED BY <1>b, <2>1, <2>2 DEF SendBuilds, BuiltRow
<1>6. CASE SendDeadlocks(r) \/ SendCommits(r) \/ SendFails(r)
  BY <1>2, <1>6 DEF SendDeadlocks, SendCommits, SendFails, Answers
<1>7. CASE SendReloads(r)
  <2>1. PICK b \in BOOLEAN :
            send' = [send EXCEPT ![r] = [send[r] EXCEPT !.step = "done", !.answer = "replayed",
                                                        !.met = b]]
    <3>1. (\A c \in Channels : Keyed(c) = {}) \in BOOLEAN
      OBVIOUS
    <3>2. QED BY <1>0, <1>7, <3>1 DEF SendReloads, SendCall
  <2>2. [send[r] EXCEPT !.step = "done", !.answer = "replayed", !.met = b] \in SendCall
    BY <1>0 DEF SendCall, Answers
  <2>3. QED BY <1>0, <2>1, <2>2
<1>8. QED BY <1>1, <1>4, <1>5, <1>b, <1>6, <1>7 DEF Arriving, SendStep

LEMMA SendNext == ASSUME TypeInv, [Next]_vars PROVE SendType'
  BY SendsMove, SendMoves DEF TypeInv, SendType, sendVars

LEMMA RowsTyped ==
    ASSUME NEW n \in Nat, NEW f \in [1..n -> Delivery]
    PROVE  f \in Seq(Delivery) /\ Len(f) = n
  OBVIOUS

LEMMA RowFields ==
    ASSUME TypeInv, NEW d \in DOMAIN deliveries
    PROVE  deliveries[d] \in Delivery /\ d \in Nat
  BY DEF TypeInv, RowType

\* What stays of a row whatever its dispatchers do.
SameRow(d) ==
    /\ deliveries'[d].request = deliveries[d].request
    /\ deliveries'[d].channel = deliveries[d].channel
    /\ deliveries'[d].keyed = deliveries[d].keyed
    /\ deliveries'[d].lapses >= deliveries[d].lapses
    /\ deliveries'[d].accepted >= deliveries[d].accepted
    /\ deliveries'[d].attempts >= deliveries[d].attempts
    /\ deliveries[d].rejected => deliveries'[d].rejected

\* d becomes row and nothing else changes.
OneRow(d, row) == deliveries' = [deliveries EXCEPT ![d] = row]

LEMMA OneRowKept ==
    ASSUME TypeInv, NEW d \in DOMAIN deliveries, NEW row \in Delivery, OneRow(d, row)
    PROVE  /\ deliveries' \in Seq(Delivery) /\ DOMAIN deliveries' = DOMAIN deliveries
           /\ deliveries'[d] = row
           /\ \A f \in DOMAIN deliveries : f # d => deliveries'[f] = deliveries[f]
  BY DEF TypeInv, RowType, OneRow

Grasped(row) == [row EXCEPT !.status = "sending", !.leased = TRUE, !.attempts = @ + 1]
Tried(row, result) ==
    [row EXCEPT !.accepted = IF result \in {"taken", "unanswered"} THEN @ + 1 ELSE @,
                !.lost = IF result = "unanswered" THEN @ + 1 ELSE @,
                !.rejected = @ \/ result = "refused"]
Finished(row, status) == [row EXCEPT !.status = status, !.leased = FALSE]
Lapsed(row) == [row EXCEPT !.leased = FALSE, !.lapses = @ + 1]
Opened(row) == [row EXCEPT !.read = TRUE]

LEMMA RowChanges ==
    ASSUME NEW row \in Delivery
    PROVE  /\ Grasped(row) \in Delivery
           /\ \A result : Tried(row, result) \in Delivery
           /\ \A status \in Statuses : Finished(row, status) \in Delivery
           /\ Lapsed(row) \in Delivery
           /\ Opened(row) \in Delivery
<1>1. Grasped(row) \in Delivery /\ Lapsed(row) \in Delivery /\ Opened(row) \in Delivery
  <2>0. row.attempts + 1 \in Nat /\ row.lapses + 1 \in Nat /\ "sending" \in Statuses
    BY DEF Delivery, Statuses
  <2>1. Grasped(row) \in Delivery
    BY <2>0 DEF Grasped, Delivery
  <2>2. Lapsed(row) \in Delivery
    BY <2>0 DEF Lapsed, Delivery
  <2>3. Opened(row) \in Delivery
    BY DEF Opened, Delivery
  <2>4. QED BY <2>1, <2>2, <2>3
<1>2. ASSUME NEW status \in Statuses PROVE Finished(row, status) \in Delivery
  BY DEF Finished, Delivery
<1>3. ASSUME NEW result PROVE Tried(row, result) \in Delivery
  <2>1. (IF result \in {"taken", "unanswered"} THEN row.accepted + 1 ELSE row.accepted) \in Nat
    BY DEF Delivery
  <2>2. (IF result = "unanswered" THEN row.lost + 1 ELSE row.lost) \in Nat
    BY DEF Delivery
  <2>3. (row.rejected \/ result = "refused") \in BOOLEAN
    OBVIOUS
  <2>4. QED BY <2>1, <2>2, <2>3 DEF Tried, Delivery
<1>4. QED BY <1>1, <1>2, <1>3

LEMMA OutcomeTyped ==
    ASSUME NEW result, NEW attempt
    PROVE  /\ Outcome(result, attempt) \in {"sent", "failed", "pending"}
           /\ Outcome(result, attempt) = "sent" <=> result = "taken"
           /\ Outcome(result, attempt) = "failed" =>
                  result = "refused" \/ attempt >= MaxAttempts
           /\ Outcome(result, attempt) = "pending" => ~(attempt >= MaxAttempts)
  BY DEF Outcome

\* The steps of a dispatcher, row by row.
ClaimsRows(w, S) ==
    /\ work[w].step = "next" /\ work[w].batch = {}
    /\ S \subseteq Claimable
    /\ deliveries' \in Seq(Delivery) /\ DOMAIN deliveries' = DOMAIN deliveries
    /\ \A d \in DOMAIN deliveries :
           deliveries'[d] = IF d \in S THEN Grasped(deliveries[d]) ELSE deliveries[d]
    /\ work'[w] = [work[w] EXCEPT !.batch =
                      {[row |-> d, attempt |-> deliveries[d].attempts + 1] : d \in S}]

SendsRow(w, e, result) ==
    /\ work[w].step = "next" /\ e \in work[w].batch /\ e.row \in DOMAIN deliveries
    /\ result \in Results(deliveries[e.row].channel)
    /\ OneRow(e.row, Tried(deliveries[e.row], result))
    /\ work'[w] = [batch |-> work[w].batch \ {e}, step |-> "finish", claim |-> e,
                   status |-> Outcome(result, e.attempt)]

FinishesRow(w) ==
    LET d == work[w].claim.row IN
    /\ work[w].step = "finish" /\ d \in DOMAIN deliveries
    /\ OneRow(d, Finished(deliveries[d], work[w].status)) \/ UNCHANGED deliveries
    /\ work'[w] = [work[w] EXCEPT !.step = "log"]

LetsGo(w) ==
    /\ UNCHANGED deliveries
    /\ \/ work'[w] = Idle
       \/ work[w].step = "log" /\ work'[w] = [Idle EXCEPT !.batch = work[w].batch]

RowStep(d) ==
    /\ UNCHANGED work
    /\ \/ /\ deliveries[d].status = "sending" /\ deliveries[d].leased
          /\ OneRow(d, Lapsed(deliveries[d]))
       \/ d \in Unread /\ OneRow(d, Opened(deliveries[d]))

DispatcherStep(w) ==
    /\ work' \in [Dispatchers -> Work]
    /\ \A v \in Dispatchers \ {w} : work'[v] = work[v]
    /\ \/ \E S : ClaimsRows(w, S)
       \/ \E e \in Claimed : \E result : SendsRow(w, e, result)
       \/ FinishesRow(w)
       \/ LetsGo(w)

LEMMA ClaimMoves ==
    ASSUME TypeInv, NEW w \in Dispatchers, Claim(w)
    PROVE  DispatcherStep(w) /\ UNCHANGED attemptLog
<1>0. work \in [Dispatchers -> Work] /\ deliveries \in Seq(Delivery)
  BY DEF TypeInv, WorkType, RowType
<1>1. PICK S \in SUBSET Claimable \ {{}} :
          /\ deliveries' = [d \in DOMAIN deliveries |->
                 IF d \in S THEN [deliveries[d] EXCEPT !.status = "sending", !.leased = TRUE,
                                                       !.attempts = @ + 1]
                 ELSE deliveries[d]]
          /\ work' = [work EXCEPT ![w].batch =
                 {[row |-> d, attempt |-> deliveries[d].attempts + 1] : d \in S}]
  BY DEF Claim
<1> DEFINE B == {[row |-> d, attempt |-> deliveries[d].attempts + 1] : d \in S}
<1>2. /\ work[w].step = "next" /\ work[w].batch = {} /\ UNCHANGED attemptLog
  BY DEF Claim
<1>3. S \subseteq DOMAIN deliveries /\ S \subseteq Nat
  BY <1>0 DEF Claimable
<1>4. \A d \in DOMAIN deliveries :
          /\ deliveries[d] \in Delivery
          /\ deliveries'[d] = IF d \in S THEN Grasped(deliveries[d]) ELSE deliveries[d]
  <2>1. ASSUME NEW d \in DOMAIN deliveries PROVE deliveries[d] \in Delivery
    BY <1>0
  <2>2. ASSUME NEW d \in DOMAIN deliveries
        PROVE  deliveries'[d] = IF d \in S THEN Grasped(deliveries[d]) ELSE deliveries[d]
    <3>1. deliveries'[d] = IF d \in S
              THEN [deliveries[d] EXCEPT !.status = "sending", !.leased = TRUE, !.attempts = @ + 1]
              ELSE deliveries[d]
      BY <1>1
    <3>2. QED BY <3>1 DEF Grasped
  <2>3. QED BY <2>1, <2>2
<1>5. deliveries' \in Seq(Delivery) /\ DOMAIN deliveries' = DOMAIN deliveries
  <2>1. PICK n \in Nat : DOMAIN deliveries = 1..n
    BY <1>0
  <2>2. deliveries' \in [1..n -> Delivery]
    BY <1>1, <1>4, <2>1, RowChanges
  <2>3. QED BY <2>1, <2>2, RowsTyped
<1>6. B \in SUBSET Claimed
  <2>1. ASSUME NEW d \in S PROVE [row |-> d, attempt |-> deliveries[d].attempts + 1] \in Claimed
    <3>1. deliveries[d].attempts \in Nat
      BY <1>3, <1>4 DEF Delivery
    <3>2. QED BY <1>3, <3>1 DEF Claimed
  <2>2. QED BY <2>1
<1>7. work' = [work EXCEPT ![w] = [work[w] EXCEPT !.batch = B]]
  BY <1>0, <1>1
<1> HIDE DEF B
<1>8. [work[w] EXCEPT !.batch = B] \in Work
  BY <1>0, <1>6 DEF Work
<1>9. /\ work' \in [Dispatchers -> Work]
      /\ \A v \in Dispatchers \ {w} : work'[v] = work[v]
      /\ work'[w] = [work[w] EXCEPT !.batch = B]
  BY <1>0, <1>7, <1>8
<1>10. ClaimsRows(w, S)
  BY <1>2, <1>4, <1>5, <1>9 DEF ClaimsRows, B
<1>11. QED BY <1>2, <1>9, <1>10 DEF DispatcherStep

LEMMA SendMovesRow ==
    ASSUME TypeInv, NEW w \in Dispatchers, Send(w)
    PROVE  DispatcherStep(w) /\ UNCHANGED attemptLog
<1>0. work \in [Dispatchers -> Work] /\ deliveries \in Seq(Delivery)
  BY DEF TypeInv, WorkType, RowType
<1>1. PICK e \in work[w].batch : \E result \in Results(deliveries[e.row].channel) :
        /\ deliveries' = [deliveries EXCEPT
               ![e.row].accepted = IF result \in {"taken", "unanswered"} THEN @ + 1 ELSE @,
               ![e.row].lost = IF result = "unanswered" THEN @ + 1 ELSE @,
               ![e.row].rejected = @ \/ result = "refused"]
        /\ work' = [work EXCEPT ![w] = [batch |-> @.batch \ {e}, step |-> "finish", claim |-> e,
                                        status |-> Outcome(result, e.attempt)]]
  BY DEF Send
<1>2. PICK result \in Results(deliveries[e.row].channel) :
        /\ deliveries' = [deliveries EXCEPT
               ![e.row].accepted = IF result \in {"taken", "unanswered"} THEN @ + 1 ELSE @,
               ![e.row].lost = IF result = "unanswered" THEN @ + 1 ELSE @,
               ![e.row].rejected = @ \/ result = "refused"]
        /\ work' = [work EXCEPT ![w] = [batch |-> @.batch \ {e}, step |-> "finish", claim |-> e,
                                        status |-> Outcome(result, e.attempt)]]
  BY <1>1
<1>3. work[w].step = "next" /\ UNCHANGED attemptLog
  BY DEF Send
<1>4. e.row \in DOMAIN deliveries /\ e \in Claimed
  BY <1>0 DEF TypeInv, WorkType, Holding, Work
<1>5. OneRow(e.row, Tried(deliveries[e.row], result))
  BY <1>0, <1>2, <1>4 DEF OneRow, Tried
<1> DEFINE W == [batch |-> work[w].batch \ {e}, step |-> "finish", claim |-> e,
                 status |-> Outcome(result, e.attempt)]
<1>6. W \in Work
  BY <1>0, <1>4, OutcomeTyped DEF Work
<1>7. work' = [work EXCEPT ![w] = W]
  BY <1>2
<1> HIDE DEF W
<1>8. /\ work' \in [Dispatchers -> Work] /\ work'[w] = W
      /\ \A v \in Dispatchers \ {w} : work'[v] = work[v]
  BY <1>0, <1>6, <1>7
<1>9. SendsRow(w, e, result)
  BY <1>3, <1>4, <1>5, <1>8 DEF SendsRow, W
<1>10. QED BY <1>3, <1>4, <1>8, <1>9 DEF DispatcherStep

LEMMA RestMoves ==
    ASSUME TypeInv, NEW w \in Dispatchers, Finish(w) \/ LogAttempt(w) \/ Stop(w)
    PROVE  DispatcherStep(w)
<1>0. work \in [Dispatchers -> Work] /\ deliveries \in Seq(Delivery)
  BY DEF TypeInv, WorkType, RowType
<1>1. CASE Finish(w)
  <2>1. [work[w] EXCEPT !.step = "log"] \in Work
    BY <1>0 DEF Work
  <2>2. work' = [work EXCEPT ![w] = [work[w] EXCEPT !.step = "log"]]
    BY <1>0, <1>1 DEF Finish
  <2>3. /\ work' \in [Dispatchers -> Work] /\ work'[w] = [work[w] EXCEPT !.step = "log"]
        /\ \A v \in Dispatchers \ {w} : work'[v] = work[v]
    BY <1>0, <2>1, <2>2
  <2>4. work[w].claim.row \in DOMAIN deliveries
    BY <1>1 DEF Finish, TypeInv, WorkType, Holding
  <2>5. FinishesRow(w)
    BY <1>0, <1>1, <2>3, <2>4 DEF Finish, FinishesRow, OneRow, Finished
  <2>6. QED BY <2>3, <2>5 DEF DispatcherStep
<1>2. CASE LogAttempt(w)
  <2>1. [Idle EXCEPT !.batch = work[w].batch] \in Work
    BY <1>0 DEF Work, Idle, Claimed
  <2>2. work' = [work EXCEPT ![w] = [Idle EXCEPT !.batch = work[w].batch]]
    BY <1>2 DEF LogAttempt
  <2>3. QED BY <1>0, <1>2, <2>1, <2>2 DEF DispatcherStep, LetsGo, LogAttempt
<1>3. CASE Stop(w)
  <2>1. Idle \in Work
    BY DEF Work, Idle, Claimed
  <2>2. QED BY <1>0, <1>3, <2>1 DEF DispatcherStep, LetsGo, Stop
<1>4. QED BY <1>1, <1>2, <1>3

LEMMA QueueMoves ==
    ASSUME TypeInv, QueueNext
    PROVE  (\E w \in Dispatchers : DispatcherStep(w)) \/ (\E d \in DOMAIN deliveries : RowStep(d))
<1>1. ASSUME NEW d \in DOMAIN deliveries, LeaseEnds(d) \/ MarkRead(d) PROVE RowStep(d)
  <2>1. deliveries \in Seq(Delivery)
    BY DEF TypeInv, RowType
  <2>2. QED BY <1>1, <2>1 DEF LeaseEnds, MarkRead, RowStep, OneRow, Lapsed, Opened
<1>2. QED BY <1>1, ClaimMoves, SendMovesRow, RestMoves DEF QueueNext, DispatchStep

\* The fields after each change.
LEMMA AfterGrasp ==
    ASSUME NEW row \in Delivery
    PROVE  /\ Grasped(row).status = "sending" /\ Grasped(row).leased
           /\ Grasped(row).attempts = row.attempts + 1
           /\ Grasped(row).accepted = row.accepted /\ Grasped(row).lost = row.lost
           /\ Grasped(row).lapses = row.lapses /\ Grasped(row).rejected = row.rejected
           /\ Grasped(row).read = row.read
  BY DEF Grasped, Delivery

LEMMA AfterTry ==
    ASSUME NEW row \in Delivery, NEW result
    PROVE  LET new == Tried(row, result) IN
           /\ new.status = row.status /\ new.leased = row.leased
           /\ new.attempts = row.attempts /\ new.lapses = row.lapses /\ new.read = row.read
           /\ new.accepted = IF result \in {"taken", "unanswered"} THEN row.accepted + 1
                             ELSE row.accepted
           /\ new.lost = IF result = "unanswered" THEN row.lost + 1 ELSE row.lost
           /\ new.rejected <=> (row.rejected \/ result = "refused")
  BY DEF Tried, Delivery

LEMMA AfterFinish ==
    ASSUME NEW row \in Delivery, NEW status
    PROVE  LET new == Finished(row, status) IN
           /\ new.status = status /\ ~new.leased
           /\ new.attempts = row.attempts /\ new.lapses = row.lapses /\ new.read = row.read
           /\ new.accepted = row.accepted /\ new.lost = row.lost /\ new.rejected = row.rejected
  BY DEF Finished, Delivery

LEMMA AfterLapse ==
    ASSUME NEW row \in Delivery
    PROVE  LET new == Lapsed(row) IN
           /\ new.status = row.status /\ ~new.leased
           /\ new.attempts = row.attempts /\ new.lapses = row.lapses + 1 /\ new.read = row.read
           /\ new.accepted = row.accepted /\ new.lost = row.lost /\ new.rejected = row.rejected
  BY DEF Lapsed, Delivery

LEMMA AfterOpening ==
    ASSUME NEW row \in Delivery
    PROVE  LET new == Opened(row) IN
           /\ new.status = row.status /\ new.leased = row.leased /\ new.read
           /\ new.attempts = row.attempts /\ new.lapses = row.lapses
           /\ new.accepted = row.accepted /\ new.lost = row.lost /\ new.rejected = row.rejected
  BY DEF Opened, Delivery

LEMMA ChangedRow ==
    ASSUME TypeInv, NEW d \in DOMAIN deliveries, NEW result, NEW status,
           \/ deliveries'[d] = deliveries[d]
           \/ deliveries'[d] = Grasped(deliveries[d])
           \/ deliveries'[d] = Tried(deliveries[d], result)
           \/ deliveries'[d] = Finished(deliveries[d], status)
           \/ deliveries'[d] = Lapsed(deliveries[d])
           \/ deliveries'[d] = Opened(deliveries[d])
    PROVE  SameRow(d)
<1>1. deliveries[d] \in Delivery
  BY RowFields
<1>2. CASE deliveries'[d] = deliveries[d]
  BY <1>1, <1>2 DEF SameRow, Delivery
<1>3. CASE deliveries'[d] = Grasped(deliveries[d])
  BY <1>1, <1>3 DEF SameRow, Grasped, Delivery
<1>4. CASE deliveries'[d] = Tried(deliveries[d], result)
  BY <1>1, <1>4 DEF SameRow, Tried, Delivery
<1>5. CASE deliveries'[d] = Finished(deliveries[d], status)
  BY <1>1, <1>5 DEF SameRow, Finished, Delivery
<1>6. CASE deliveries'[d] = Lapsed(deliveries[d])
  BY <1>1, <1>6 DEF SameRow, Lapsed, Delivery
<1>7. CASE deliveries'[d] = Opened(deliveries[d])
  BY <1>1, <1>7 DEF SameRow, Opened, Delivery
<1>8. QED BY <1>2, <1>3, <1>4, <1>5, <1>6, <1>7

LEMMA StatusTyped ==
    ASSUME TypeInv, NEW w \in Dispatchers PROVE work[w].status \in Statuses
  BY DEF TypeInv, WorkType, Work, Statuses

LEMMA OneRowSame ==
    ASSUME TypeInv, NEW d \in DOMAIN deliveries, NEW result, NEW status \in Statuses,
           \/ OneRow(d, Tried(deliveries[d], result))
           \/ OneRow(d, Finished(deliveries[d], status))
           \/ OneRow(d, Lapsed(deliveries[d]))
           \/ OneRow(d, Opened(deliveries[d]))
    PROVE  /\ deliveries' \in Seq(Delivery) /\ DOMAIN deliveries' = DOMAIN deliveries
           /\ \A f \in DOMAIN deliveries : SameRow(f)
<1>1. PICK row \in Delivery :
          /\ OneRow(d, row)
          /\ row \in {Tried(deliveries[d], result), Finished(deliveries[d], status),
                      Lapsed(deliveries[d]), Opened(deliveries[d])}
  BY RowFields, RowChanges
<1>2. /\ deliveries' \in Seq(Delivery) /\ DOMAIN deliveries' = DOMAIN deliveries
      /\ deliveries'[d] = row
      /\ \A f \in DOMAIN deliveries : f # d => deliveries'[f] = deliveries[f]
  BY <1>1, OneRowKept
<1>3. SameRow(d)
  BY <1>1, <1>2, ChangedRow
<1>4. \A f \in DOMAIN deliveries : f # d => SameRow(f)
  BY <1>2, ChangedRow
<1>5. QED BY <1>2, <1>3, <1>4

\* The queue keeps every row, what it is about and what it has gone through.
LEMMA RowsKept ==
    ASSUME TypeInv, QueueNext
    PROVE  /\ deliveries' \in Seq(Delivery) /\ DOMAIN deliveries' = DOMAIN deliveries
           /\ \A d \in DOMAIN deliveries : SameRow(d)
<1> DEFINE Goal == /\ deliveries' \in Seq(Delivery) /\ DOMAIN deliveries' = DOMAIN deliveries
                   /\ \A d \in DOMAIN deliveries : SameRow(d)
<1>1. ASSUME NEW d \in DOMAIN deliveries, RowStep(d) PROVE Goal
  BY <1>1, OneRowSame DEF RowStep, Statuses
<1>2. ASSUME UNCHANGED deliveries PROVE Goal
  BY <1>2, ChangedRow DEF TypeInv, RowType
<1>3. ASSUME NEW w \in Dispatchers, NEW S, ClaimsRows(w, S) PROVE Goal
  BY <1>3, ChangedRow DEF ClaimsRows
<1>4. ASSUME NEW w \in Dispatchers, NEW e, NEW result, SendsRow(w, e, result) PROVE Goal
  BY <1>4, OneRowSame DEF SendsRow, Statuses
<1>5. ASSUME NEW w \in Dispatchers, FinishesRow(w) PROVE Goal
  BY <1>2, <1>5, OneRowSame, StatusTyped DEF FinishesRow
<1>6. QED BY <1>1, <1>2, <1>3, <1>4, <1>5, QueueMoves DEF DispatcherStep, LetsGo

\* A commit appends the rows of the request.
LEMMA CommitAppends ==
    ASSUME TypeInv, NEW r \in Requests, SendCommits(r)
    PROVE  /\ deliveries' \in Seq(Delivery) /\ send[r].rows \in Seq(Delivery)
           /\ Len(deliveries) \in Nat /\ Len(send[r].rows) \in Nat
           /\ DOMAIN deliveries = 1..Len(deliveries)
           /\ DOMAIN deliveries' = 1..Len(deliveries) + Len(send[r].rows)
           /\ \A d \in DOMAIN deliveries :
                  d \in DOMAIN deliveries' /\ deliveries'[d] = deliveries[d]
           /\ \A n \in DOMAIN send[r].rows :
                  /\ Len(deliveries) + n \in DOMAIN deliveries'
                  /\ deliveries'[Len(deliveries) + n] = send[r].rows[n]
           /\ \A d \in DOMAIN deliveries' \ DOMAIN deliveries :
                  /\ d - Len(deliveries) \in DOMAIN send[r].rows
                  /\ deliveries'[d] = send[r].rows[d - Len(deliveries)]
<1>1. deliveries \in Seq(Delivery) /\ send[r].rows \in Seq(Delivery)
  BY DEF TypeInv, RowType, SendType, SendCall
<1>2. deliveries' = deliveries \o send[r].rows
  BY DEF SendCommits
<1>3. /\ deliveries' \in Seq(Delivery)
      /\ Len(deliveries) \in Nat /\ Len(send[r].rows) \in Nat
      /\ DOMAIN deliveries = 1..Len(deliveries)
      /\ DOMAIN send[r].rows = 1..Len(send[r].rows)
      /\ DOMAIN deliveries' = 1..Len(deliveries) + Len(send[r].rows)
  BY <1>1, <1>2
<1>4. \A d \in DOMAIN deliveries' :
          deliveries'[d] = IF d <= Len(deliveries) THEN deliveries[d]
                           ELSE send[r].rows[d - Len(deliveries)]
  BY <1>1, <1>2
<1>5. \A d \in DOMAIN deliveries : d \in DOMAIN deliveries' /\ deliveries'[d] = deliveries[d]
  BY <1>3, <1>4
<1>6. ASSUME NEW n \in DOMAIN send[r].rows
      PROVE  /\ Len(deliveries) + n \in DOMAIN deliveries'
             /\ deliveries'[Len(deliveries) + n] = send[r].rows[n]
  BY <1>3, <1>4
<1>7. ASSUME NEW d \in DOMAIN deliveries' \ DOMAIN deliveries
      PROVE  /\ d - Len(deliveries) \in DOMAIN send[r].rows
             /\ deliveries'[d] = send[r].rows[d - Len(deliveries)]
  BY <1>3, <1>4
<1>8. QED BY <1>1, <1>3, <1>5, <1>6, <1>7

LEMMA RowNext == ASSUME TypeInv, [Next]_vars PROVE RowType'
<1>0. deliveries \in Seq(Delivery) /\ queued \subseteq DOMAIN deliveries /\ attemptLog \subseteq AttemptRow
      /\ \A l \in attemptLog : l[1] \in DOMAIN deliveries
  BY DEF TypeInv, RowType
<1>1. ASSUME NEW r \in Requests, SendCommits(r) PROVE RowType'
  <2> DEFINE new == Len(deliveries) + 1 .. Len(deliveries) + Len(send[r].rows)
  <2>1. /\ queued' = queued \cup new
        /\ attemptLog' = attemptLog \cup
               {<<d, 0, "skipped">> : d \in {n \in new : deliveries'[n].status = "skipped"}}
    BY <1>1 DEF SendCommits
  <2>2. new \subseteq DOMAIN deliveries' /\ new \subseteq Nat
    BY <1>1, CommitAppends
  <2>3. \A d \in new : <<d, 0, "skipped">> \in AttemptRow
    BY <2>2 DEF AttemptRow, Statuses
  <2>4. DOMAIN deliveries \subseteq DOMAIN deliveries' /\ deliveries' \in Seq(Delivery)
    BY <1>1, CommitAppends
  <2> HIDE DEF new
  <2>5. QED BY <1>0, <2>1, <2>2, <2>3, <2>4 DEF RowType
<1>2. ASSUME QueueNext PROVE RowType'
  <2>1. UNCHANGED attemptLog \/ \E w \in Dispatchers : LogAttempt(w)
    BY <1>2 DEF QueueNext, DispatchStep, Claim, Send, Finish, Stop, LeaseEnds, MarkRead
  <2>2. UNCHANGED queued
    BY <1>2 DEF QueueNext, DispatchStep, Claim, Send, Finish, LogAttempt, Stop, LeaseEnds,
                MarkRead, requestVars, sendVars
  <2>3. ASSUME NEW w \in Dispatchers, LogAttempt(w)
        PROVE  attemptLog' \subseteq AttemptRow /\ \A l \in attemptLog' : l[1] \in DOMAIN deliveries
    <3>1. /\ work[w] \in Work /\ work[w].claim \in Claimed
          /\ work[w].claim.row \in DOMAIN deliveries
      BY <2>3 DEF LogAttempt, TypeInv, WorkType, Work
    <3>2. <<work[w].claim.row, work[w].claim.attempt, work[w].status>> \in AttemptRow
      BY <3>1 DEF AttemptRow, Work, Claimed, Statuses
    <3>3. attemptLog' \subseteq attemptLog \cup
              {<<work[w].claim.row, work[w].claim.attempt, work[w].status>>}
      BY <2>3 DEF LogAttempt
    <3>4. QED BY <1>0, <3>1, <3>2, <3>3
  <2>4. QED BY <1>0, <1>2, <2>1, <2>2, <2>3, RowsKept DEF RowType
<1>3. ASSUME UNCHANGED <<deliveries, work, attemptLog>> PROVE RowType'
  <2>1. UNCHANGED queued \/ \E r \in Requests : SendCommits(r)
    BY SendsMove DEF sendVars, Arriving, SendArrives, SendStep, SendFails, SendLooksUp,
                     SendBuilds, SendInserts, SendDeadlocks, SendReloads
  <2>2. QED BY <1>0, <1>1, <1>3, <2>1 DEF RowType
<1>4. QED BY <1>1, <1>2, <1>3, RowsMove

LEMMA WorkNext == ASSUME TypeInv, [Next]_vars PROVE WorkType'
<1>0. /\ work \in [Dispatchers -> Work]
      /\ \A w \in Dispatchers :
          /\ \A e \in Holding(w) : e.row \in DOMAIN deliveries
          /\ work[w].step = "log" => work[w].claim.row \in DOMAIN deliveries
  BY DEF TypeInv, WorkType
<1>1. ASSUME UNCHANGED work, DOMAIN deliveries \subseteq DOMAIN deliveries' PROVE WorkType'
  BY <1>0, <1>1 DEF WorkType, Holding
<1>2. ASSUME NEW w \in Dispatchers, DispatcherStep(w), DOMAIN deliveries' = DOMAIN deliveries
      PROVE  WorkType'
  <2>1. /\ \A e \in Holding(w)' : e.row \in DOMAIN deliveries
        /\ work'[w].step = "log" => work'[w].claim.row \in DOMAIN deliveries
    <3>1. CASE \E S : ClaimsRows(w, S)
      BY <1>0, <3>1 DEF ClaimsRows, Holding, Claimable, Work
    <3>2. CASE \E e \in Claimed : \E result : SendsRow(w, e, result)
      BY <1>0, <3>2 DEF SendsRow, Holding
    <3>3. CASE FinishesRow(w)
      BY <1>0, <3>3 DEF FinishesRow, Holding, Work
    <3>4. CASE LetsGo(w)
      BY <1>0, <3>4 DEF LetsGo, Holding, Idle
    <3>5. QED BY <1>2, <3>1, <3>2, <3>3, <3>4 DEF DispatcherStep
  <2>2. \A v \in Dispatchers \ {w} : work'[v] = work[v] /\ Holding(v)' = Holding(v)
    BY <1>2 DEF DispatcherStep, Holding
  <2>3. QED BY <1>0, <1>2, <2>1, <2>2 DEF WorkType, DispatcherStep
<1>3. CASE QueueNext
  BY <1>1, <1>2, <1>3, RowsKept, QueueMoves DEF RowStep
<1>4. CASE UNCHANGED work /\ \E r \in Requests : SendCommits(r)
  BY <1>1, <1>4, CommitAppends
<1>5. QED BY <1>1, <1>3, <1>4, RowsMove

LEMMA TypeNext == ASSUME TypeInv, [Next]_vars PROVE TypeInv'
  BY CountNext, PreferenceNext, SendNext, RowNext, WorkNext DEF TypeInv

\* The rows of every table have their types whatever arrives, fails or stops.
THEOREM TypeCorrect == Spec => []TypeOK
<1>1. TypeInv /\ TemplateInv => TypeOK
  BY RequestsAssumption DEF TypeInv, CountType, PreferenceType, SendType, SendCall, RowType,
     WorkType, TemplateInv, TemplateType, TypeOK
<1>2. TypeInv /\ [Next]_vars => TypeInv'
  BY TypeNext
<1>3. TemplateInv /\ [Next]_vars => TemplateInv'
  BY TemplateNext
<1>4. QED BY <1>1, <1>2, <1>3, TypesInitially, TemplatesInitially, PTL DEF Spec

-----------------------------------------------------------------------------
(* Requests refused for their template.                                    *)

\* The fields that can make the template of a channel fail on the data of r.
Breaks(r, c) == \/ changed[c] \cap {"subject", "format"} # {}
                \/ send[r].odd /\ "body" \in changed[c]

RefusedInv ==
    \A r \in Requests : send[r].answer = "refused" =>
        send[r].step = "done" /\ \E n \in DOMAIN send[r].list : Breaks(r, send[r].list[n])

LEMMA ChangedGrows ==
    ASSUME TemplateInv, [Next]_vars, NEW c \in Channels PROVE changed[c] \subseteq changed'[c]
<1>1. CASE UNCHANGED templateVars
  BY <1>1 DEF templateVars
<1>2. ASSUME NEW a \in Admins, PatchReads(a) PROVE changed[c] \subseteq changed'[c]
  BY <1>2 DEF PatchReads
<1>3. ASSUME NEW a \in Admins, PatchWrites(a) PROVE changed[c] \subseteq changed'[c]
  BY <1>3 DEF PatchWrites, TemplateInv, TemplateType
<1>4. QED BY <1>1, <1>2, <1>3, TemplatesMove

\* A template that does not render has a field that was patched.
LEMMA UnrenderableBroken ==
    ASSUME TypeInv, TemplateInv, NEW r \in Requests, NEW c \in Channels,
           ~Builds(c, send[r].odd)
    PROVE  Breaks(r, c)
<1> SUFFICES ASSUME ~Breaks(r, c) PROVE FALSE
  OBVIOUS
<1>1. send[r].odd \in BOOLEAN
  BY DEF TypeInv, SendType, SendCall
<1>2. templates[c].subject = "plain" /\ Renders(templates[c].format, templates[c].body, FALSE)
  BY DEF Breaks, TemplateInv, Untouched
<1>3. send[r].odd => templates[c].body = "plain"
  BY DEF Breaks, TemplateInv, Untouched
<1>4. QED BY <1>1, <1>2, <1>3 DEF Builds, Renders

LEMMA RefusedNext ==
    ASSUME TypeInv, TemplateInv, RefusedInv, [Next]_vars PROVE RefusedInv'
<1>0. send \in [Requests -> SendCall]
  BY DEF TypeInv, SendType
<1>1. ASSUME NEW r \in Requests, send'[r] = send[r], send[r].answer = "refused"
      PROVE  send'[r].step = "done" /\ \E n \in DOMAIN send'[r].list : Breaks(r, send[r].list[n])'
  <2>1. PICK n \in DOMAIN send[r].list : Breaks(r, send[r].list[n])
    BY <1>1 DEF RefusedInv
  <2>2. send[r].list[n] \in Channels
    BY <1>0, <2>1 DEF SendCall
  <2>3. Breaks(r, send[r].list[n])'
    BY <1>1, <2>1, <2>2, ChangedGrows DEF Breaks
  <2>4. QED BY <1>1, <2>1, <2>3 DEF RefusedInv
<1>2. ASSUME NEW r \in Requests, Arriving(r), send'[r].answer = "refused"
      PROVE  send'[r].step = "done" /\ \E n \in DOMAIN send'[r].list : Breaks(r, send[r].list[n])'
  <2>1. send[r].step # "done"
    BY <1>2 DEF Arriving, SendArrives, SendStep, SendFails, SendLooksUp, SendBuilds, SendInserts,
                SendDeadlocks, SendReloads, SendCommits, WaitsFor
  <2>2. send[r].answer # "refused"
    BY <2>1 DEF RefusedInv
  <2>3. SendBuilds(r) /\ Answer(r, "refused")
    <3>1. ASSUME NEW a \in Answers, Answer(r, a) PROVE send'[r].answer = a
      BY <1>0, <3>1 DEF Answer, SendCall
    <3>2. ~SendArrives(r)
      BY <1>0, <1>2 DEF SendArrives, NoSend
    <3>3. ASSUME send' = [send EXCEPT ![r].step = "build"] PROVE FALSE
      BY <1>0, <1>2, <2>2, <3>3 DEF SendCall
    <3>4. ~SendLooksUp(r)
      BY <1>2, <3>1, <3>3 DEF SendLooksUp, Answers
    <3>5. ASSUME send' = [send EXCEPT ![r].step = "reload", ![r].rows = <<>>] PROVE FALSE
      BY <1>0, <1>2, <2>2, <3>5 DEF SendCall
    <3>6. ~SendInserts(r)
      BY <3>3, <3>5 DEF SendInserts
    <3>7. ~SendReloads(r)
      BY <1>0, <1>2 DEF SendReloads, SendCall
    <3>8. ~SendDeadlocks(r) /\ ~SendCommits(r) /\ ~SendFails(r)
      BY <1>2, <3>1 DEF SendDeadlocks, SendCommits, SendFails, Answers
    <3>9. SendBuilds(r) /\ ~Answer(r, "refused") => send'[r].answer = send[r].answer
      BY BuildAppends DEF TypeInv
    <3>10. QED BY <1>2, <2>2, <3>2, <3>4, <3>6, <3>7, <3>8, <3>9 DEF Arriving, SendStep
  <2> DEFINE n == Len(send[r].rows) + 1
  <2>5. /\ n \in DOMAIN send[r].list /\ send[r].list[n] \in Channels
        /\ ~Builds(send[r].list[n], send[r].odd)
    <3>1. send[r].rows \in Seq(Delivery) /\ send[r].list \in Seq(Channels)
      BY <1>0 DEF SendCall
    <3>2. HasMore(r)
      BY <2>3 DEF SendBuilds
    <3>3. ~Builds(send[r].list[n], send[r].odd)
      <4>1. send'[r].step = "done"
        BY <1>0, <2>3 DEF Answer, SendCall
      <4>2. send' # [send EXCEPT ![r].step = "insert", ![r].rows = Append(@, BuiltRow(r))]
        BY <1>0, <4>1 DEF SendCall
      <4>3. QED BY <2>3, <4>2 DEF SendBuilds, BuiltRow
    <3>4. QED BY <3>1, <3>2, <3>3 DEF HasMore
  <2>6. Breaks(r, send[r].list[n])
    BY <2>5, UnrenderableBroken
  <2>7. send'[r].step = "done" /\ send'[r].list = send[r].list /\ send'[r].odd = send[r].odd
    BY <1>0, <2>3 DEF Answer, SendCall
  <2>8. UNCHANGED changed
    BY <2>3 DEF SendBuilds, templateVars
  <2>9. QED BY <2>5, <2>6, <2>7, <2>8 DEF Breaks
<1>3. ASSUME NEW r \in Requests
      PROVE  \/ send'[r] = send[r] \/ Arriving(r)
  BY SendsMove, SendMoves DEF sendVars
<1>4. QED BY <1>1, <1>2, <1>3 DEF RefusedInv

\* A field of a template loses what was last written to it only to a patch that
\* had read the row before; and a request is refused for a template only if the
\* subject or the format was patched, which nothing tries, or the body was and
\* the request brings data other than the trial (handler.go
\* patchTemplateHandler, store.go UpdateTemplate, events.go build).
THEOREM PatchLossesExplainedCorrect == Spec => []PatchLossesExplained
<1>1. TemplateInv /\ RefusedInv => PatchLossesExplained
  BY DEF TemplateInv, RefusedInv, Breaks, PatchLossesExplained
<1>2. TypeInv /\ [Next]_vars => TypeInv'
  BY TypeNext
<1>3. TemplateInv /\ [Next]_vars => TemplateInv'
  BY TemplateNext
<1>4. TypeInv /\ TemplateInv /\ RefusedInv /\ [Next]_vars => RefusedInv'
  BY RefusedNext
<1>5. Init => RefusedInv
  BY DEF Init, RequestInit, RefusedInv, NoSend
<1>6. QED BY <1>1, <1>2, <1>3, <1>4, <1>5, TypesInitially, TemplatesInitially, PTL DEF Spec

-----------------------------------------------------------------------------
(* Requests and the rows they store.                                       *)

\* What a request has inserted and not committed.
InsertedInv(r) ==
    LET s == send[r] IN
    /\ ~Open(r) => s.rows = <<>>
    /\ s.step = "insert" => s.rows # <<>>
    /\ s.step # "new" => s.list # <<>>
    /\ Len(s.rows) <= Len(s.list)
    /\ \A n \in DOMAIN s.rows : /\ s.rows[n].request = r
                                /\ s.rows[n].channel = s.list[n]
                                /\ s.rows[n].keyed = s.keyed

\* What it has committed.
StoredInv(r) ==
    LET s == send[r] IN
    /\ s.step # "done" => RowsOf(r) = {} /\ s.answer = "none"
    /\ RowsOf(r) # {} => Cardinality(RowsOf(r)) = Len(s.list)
    /\ RowsOf(r) \subseteq queued
    /\ s.answer = "created" => RowsOf(r) # {}
    /\ s.answer \in {"replayed", "refused"} => RowsOf(r) = {}

RequestInv == \A r \in Requests : InsertedInv(r) /\ StoredInv(r)

LEMMA RequestsInitially == Init => RequestInv
<1> SUFFICES ASSUME Init, NEW r \in Requests PROVE InsertedInv(r) /\ StoredInv(r)
  BY DEF RequestInv
<1>1. send[r] = NoSend /\ deliveries = <<>> /\ RowsOf(r) = {}
  BY DEF Init, RequestInit, RowsOf
<1>2. QED BY <1>1 DEF InsertedInv, StoredInv, NoSend

LEMMA InsertedNext == ASSUME TypeInv, RequestInv, [Next]_vars, NEW r \in Requests
                      PROVE  InsertedInv(r)'
<1>0. InsertedInv(r) /\ send \in [Requests -> SendCall] /\ send[r] \in SendCall
  BY DEF RequestInv, TypeInv, SendType
<1>1. CASE send'[r] = send[r]
  BY <1>0, <1>1 DEF InsertedInv, Open
<1>2. CASE Arriving(r)
  <2>1. CASE SendArrives(r)
    <3>1. PICK p \in Payloads :
            send' = [send EXCEPT ![r] = [NoSend EXCEPT !.step = "lookup", !.list = p.list,
                                        !.keyed = p.keyed, !.active = p.active, !.odd = p.odd,
                                        !.seen = puts]]
      BY <2>1 DEF SendArrives
    <3>2. p.list \in Seq(Channels) \ {<<>>}
      BY RequestsAssumption
    <3>3. send'[r].list = p.list /\ send'[r].rows = <<>> /\ send'[r].step = "lookup"
      BY <1>0, <3>1 DEF NoSend
    <3>4. QED BY <3>2, <3>3 DEF InsertedInv, Open
  <2>2. ASSUME NEW a, Answer(r, a), send[r].step # "new" PROVE InsertedInv(r)'
    <3>1. send'[r] = [send[r] EXCEPT !.step = "done", !.answer = a, !.rows = <<>>]
      BY <1>0, <2>2 DEF Answer
    <3>2. /\ send'[r].step = "done" /\ send'[r].rows = <<>> /\ send'[r].list = send[r].list
          /\ send'[r].list \in Seq(Channels)
      BY <1>0, <3>1 DEF SendCall
    <3>3. QED BY <1>0, <2>2, <3>2 DEF InsertedInv
  <2>3. CASE send' = [send EXCEPT ![r].step = "build"] /\ send[r].step = "lookup"
    <3>1. /\ send'[r].step = "build" /\ send'[r].rows = send[r].rows
          /\ send'[r].list = send[r].list /\ send'[r].keyed = send[r].keyed
      BY <1>0, <2>3 DEF SendCall
    <3>2. QED BY <1>0, <2>3, <3>1 DEF InsertedInv, Open
  <2>4. CASE SendInserts(r)
    <3>1. send[r].step = "insert"
      BY <2>4 DEF SendInserts
    <3>2. CASE send' = [send EXCEPT ![r].step = "reload", ![r].rows = <<>>]
      <4>1. send'[r] = [send[r] EXCEPT !.step = "reload", !.rows = <<>>]
        BY <1>0, <3>2
      <4>2. /\ send'[r].step = "reload" /\ send'[r].rows = <<>> /\ send'[r].list = send[r].list
            /\ send'[r].list \in Seq(Channels)
        BY <1>0, <4>1 DEF SendCall
      <4>3. QED BY <1>0, <3>1, <4>2 DEF InsertedInv
    <3>3. CASE send' = [send EXCEPT ![r].step = "build"]
      <4>1. /\ send'[r].step = "build" /\ send'[r].rows = send[r].rows
            /\ send'[r].list = send[r].list /\ send'[r].keyed = send[r].keyed
        BY <1>0, <3>3 DEF SendCall
      <4>2. QED BY <1>0, <3>1, <4>1 DEF InsertedInv, Open
    <3>4. QED BY <2>4, <3>2, <3>3 DEF SendInserts
  <2>b. CASE SendBuilds(r)
    <3>1. CASE Answer(r, "refused")
      BY <2>2, <2>b, <3>1 DEF SendBuilds
    <3>2. CASE ~Answer(r, "refused")
      <4>1. \A n \in DOMAIN send'[r].rows :
                \/ n \in DOMAIN send[r].rows /\ send'[r].rows[n] = send[r].rows[n]
                \/ n = Len(send[r].rows) + 1 /\ send'[r].rows[n] = BuiltRow(r)
        BY <2>b, <3>2, BuildAppends DEF TypeInv
      <4>2. /\ BuiltRow(r).request = r /\ BuiltRow(r).keyed = send[r].keyed
            /\ BuiltRow(r).channel = send[r].list[Len(send[r].rows) + 1]
        BY <2>b, BuiltTyped DEF TypeInv, SendBuilds
      <4>3. /\ send'[r].step = "insert" /\ send[r].step = "build"
            /\ send'[r].list = send[r].list /\ send'[r].keyed = send[r].keyed
            /\ Len(send'[r].rows) <= Len(send[r].list) /\ send'[r].rows # <<>>
        BY <2>b, <3>2, BuildAppends DEF TypeInv
      <4>4. QED BY <1>0, <4>1, <4>2, <4>3 DEF InsertedInv, Open
    <3>3. QED BY <3>1, <3>2
  <2>5. CASE SendReloads(r)
    <3>1. /\ send'[r].step = "done" /\ send'[r].rows = send[r].rows
          /\ send'[r].list = send[r].list /\ send'[r].keyed = send[r].keyed
      BY <1>0, <2>5 DEF SendReloads, SendCall
    <3>2. QED BY <1>0, <2>5, <3>1 DEF InsertedInv, SendReloads, Open
  <2>6. CASE SendLooksUp(r) \/ SendDeadlocks(r) \/ SendCommits(r) \/ SendFails(r)
    <3>1. SendDeadlocks(r) => send[r].step = "insert"
      BY DEF SendDeadlocks, WaitsFor
    <3>2. CASE SendLooksUp(r)
      BY <2>2, <2>3, <3>2 DEF SendLooksUp
    <3>3. CASE SendDeadlocks(r)
      BY <2>2, <3>1, <3>3 DEF SendDeadlocks
    <3>4. CASE SendCommits(r) \/ SendFails(r)
      <4>1. send[r].step # "new" /\ \E a : Answer(r, a)
        BY <3>4 DEF SendCommits, SendFails
      <4>2. QED BY <2>2, <4>1
    <3>5. QED BY <2>6, <3>2, <3>3, <3>4
  <2>7. QED BY <1>2, <2>1, <2>4, <2>b, <2>5, <2>6 DEF Arriving, SendStep
<1>3. QED BY <1>1, <1>2, SendsMove, SendMoves DEF sendVars

\* The rows of another request, and of every request under the queue.
LEMMA RowsStay ==
    ASSUME TypeInv, RequestInv, NEW q \in Requests, NEW r \in Requests, r # q,
           SendCommits(q)
    PROVE  RowsOf(r)' = RowsOf(r)
<1>1. \A d \in DOMAIN deliveries' \ DOMAIN deliveries : deliveries'[d].request = q
  BY CommitAppends DEF RequestInv, InsertedInv
<1>2. \A d \in DOMAIN deliveries : d \in DOMAIN deliveries' /\ deliveries'[d] = deliveries[d]
  BY CommitAppends
<1>3. QED BY <1>1, <1>2 DEF RowsOf

LEMMA RowsStored ==
    ASSUME TypeInv, RequestInv, NEW r \in Requests, SendCommits(r)
    PROVE  /\ RowsOf(r)' # {} /\ RowsOf(r)' \subseteq queued'
           /\ Cardinality(RowsOf(r)') = Len(send[r].list)
<1>1. /\ InsertedInv(r) /\ StoredInv(r) /\ send[r] \in SendCall
      /\ send[r].step = "build" /\ ~HasMore(r)
  BY DEF RequestInv, TypeInv, SendType, SendCommits
<1>2. /\ Len(send[r].rows) = Len(send[r].list) /\ Len(send[r].list) \in Nat \ {0}
      /\ Len(deliveries) \in Nat
  BY <1>1, CommitAppends DEF InsertedInv, HasMore, SendCall
<1>3. RowsOf(r) = {}
  BY <1>1 DEF StoredInv
<1>4. \A d \in DOMAIN deliveries' \ DOMAIN deliveries : deliveries'[d].request = r
  BY <1>1, CommitAppends DEF InsertedInv
<1>5. RowsOf(r)' = Len(deliveries) + 1 .. Len(deliveries) + Len(send[r].list)
  <2>1. /\ DOMAIN deliveries' = 1..Len(deliveries) + Len(send[r].list)
        /\ DOMAIN deliveries = 1..Len(deliveries)
    BY <1>2, CommitAppends
  <2>2. ASSUME NEW d \in DOMAIN deliveries'
        PROVE  deliveries'[d].request = r <=> d \notin DOMAIN deliveries
    <3>1. d \in DOMAIN deliveries => deliveries'[d] = deliveries[d]
      BY CommitAppends
    <3>2. QED BY <1>3, <1>4, <3>1 DEF RowsOf
  <2>3. RowsOf(r)' = DOMAIN deliveries' \ DOMAIN deliveries
    BY <2>2 DEF RowsOf
  <2>4. QED BY <1>2, <2>1, <2>3
<1>6. queued' = queued \cup (Len(deliveries) + 1 .. Len(deliveries) + Len(send[r].rows))
  BY DEF SendCommits
<1>7. Cardinality(Len(deliveries) + 1 .. Len(deliveries) + Len(send[r].list)) = Len(send[r].list)
  <2>1. ASSUME NEW a \in Nat, NEW n \in Nat \ {0} PROVE Cardinality(a + 1 .. a + n) = n
    <3>1. a + 1 \in Int /\ a + n \in Int /\ ~(a + 1 > a + n) /\ (a + n) - (a + 1) + 1 = n
      BY <2>1
    <3>2. QED BY <3>1, FS_Interval
  <2>2. QED BY <1>2, <2>1
<1>8. Len(deliveries) + 1 \in RowsOf(r)'
  BY <1>2, <1>5
<1>9. RowsOf(r)' \subseteq queued'
  BY <1>2, <1>5, <1>6
<1>10. QED BY <1>5, <1>7, <1>8, <1>9

LEMMA StoredNext == ASSUME TypeInv, RequestInv, [Next]_vars, NEW r \in Requests
                    PROVE  StoredInv(r)'
<1>0. StoredInv(r) /\ send \in [Requests -> SendCall] /\ send[r] \in SendCall
  BY DEF RequestInv, TypeInv, SendType
<1>1. ASSUME send'[r] = send[r], RowsOf(r)' = RowsOf(r), queued \subseteq queued'
      PROVE  StoredInv(r)'
  BY <1>0, <1>1 DEF StoredInv
<1>2. CASE UNCHANGED sendVars
  <2>1. ASSUME NEW q \in Requests PROVE ~SendCommits(q)
    <3>1. SUFFICES ASSUME SendCommits(q) PROVE FALSE
      OBVIOUS
    <3>2. send[q].step = "build" /\ send'[q].step = "done"
      BY <1>0, <3>1 DEF SendCommits, Answer, SendCall
    <3>3. QED BY <1>2, <3>2 DEF sendVars
  <2>2. CASE QueueNext
    <3>1. RowsOf(r)' = RowsOf(r)
      BY <2>2, RowsKept DEF RowsOf, SameRow
    <3>2. QED BY <1>1, <1>2, <3>1 DEF sendVars
  <2>3. CASE UNCHANGED deliveries
    BY <1>1, <1>2, <2>3 DEF sendVars, RowsOf
  <2>4. QED BY <2>1, <2>2, <2>3, RowsMove
<1>3. ASSUME NEW q \in Requests, Arriving(q), q # r PROVE StoredInv(r)'
  <2>1. send'[r] = send[r]
    BY <1>3, SendMoves
  <2>2. CASE SendCommits(q)
    BY <1>1, <1>3, <2>1, <2>2, RowsStay DEF SendCommits
  <2>3. CASE UNCHANGED <<deliveries, queued>>
    BY <1>1, <2>1, <2>3 DEF RowsOf
  <2>4. QED BY <1>3, <2>2, <2>3 DEF Arriving, SendArrives, SendStep, SendFails, SendLooksUp,
                                   SendBuilds, SendInserts, SendDeadlocks, SendReloads
<1>4. ASSUME Arriving(r) PROVE StoredInv(r)'
  <2>1. ASSUME NEW a \in Answers, Answer(r, a)
        PROVE  send'[r].step = "done" /\ send'[r].answer = a /\ send'[r].list = send[r].list
    BY <1>0, <2>1 DEF Answer, SendCall
  <2>2. CASE SendCommits(r)
    <3>1. send'[r].step = "done" /\ send'[r].answer \in {"created", "error"}
          /\ send'[r].list = send[r].list
      BY <2>1, <2>2 DEF SendCommits, Answers
    <3>2. QED BY <2>2, <3>1, RowsStored DEF StoredInv
  <2>3. CASE UNCHANGED <<deliveries, queued>> /\ send[r].step # "done"
    <3>1. RowsOf(r) = {} /\ RowsOf(r)' = {} /\ send[r].answer = "none"
      BY <1>0, <2>3 DEF StoredInv, RowsOf
    <3>2. ASSUME \/ Answer(r, "error") \/ Answer(r, "replayed") \/ Answer(r, "refused")
          PROVE  StoredInv(r)'
      BY <2>1, <3>1, <3>2 DEF StoredInv, Answers
    <3>3. ASSUME send'[r].answer = send[r].answer PROVE StoredInv(r)'
      BY <3>1, <3>3 DEF StoredInv
    <3>4. CASE SendArrives(r)
      <4>1. send'[r].answer = "none"
        BY <1>0, <3>4 DEF SendArrives, NoSend
      <4>2. QED BY <3>1, <3>3, <4>1
    <3>5. CASE SendLooksUp(r)
      <4>1. CASE send' = [send EXCEPT ![r].step = "build"]
        BY <1>0, <3>3, <4>1 DEF SendCall
      <4>2. QED BY <3>2, <3>5, <4>1 DEF SendLooksUp
    <3>6. CASE SendInserts(r)
      <4>1. send'[r].answer = send[r].answer
        BY <1>0, <3>6 DEF SendInserts, SendCall
      <4>2. QED BY <3>3, <4>1
    <3>b. CASE SendBuilds(r)
      <4>1. CASE ~Answer(r, "refused")
        BY <3>3, <3>b, <4>1, BuildAppends DEF TypeInv
      <4>2. QED BY <3>2, <4>1
    <3>7. CASE SendDeadlocks(r) \/ SendFails(r)
      BY <3>2, <3>7 DEF SendDeadlocks, SendFails
    <3>8. CASE SendReloads(r)
      <4>1. send'[r].answer = "replayed" /\ send'[r].step = "done"
        BY <1>0, <3>8 DEF SendReloads, SendCall
      <4>2. QED BY <3>1, <4>1 DEF StoredInv
    <3>9. QED BY <1>4, <2>2, <3>4, <3>5, <3>6, <3>b, <3>7, <3>8 DEF Arriving, SendStep
  <2>4. SendCommits(r) \/ UNCHANGED <<deliveries, queued>>
    BY <1>4 DEF Arriving, SendArrives, SendStep, SendFails, SendLooksUp, SendBuilds, SendInserts,
                SendDeadlocks, SendReloads
  <2>5. send[r].step # "done"
    BY <1>4 DEF Arriving, SendArrives, SendStep, SendFails, SendLooksUp, SendBuilds, SendInserts,
                SendDeadlocks, SendReloads, SendCommits, WaitsFor
  <2>6. QED BY <2>2, <2>3, <2>4, <2>5
<1>5. QED BY <1>2, <1>3, <1>4, SendsMove

LEMMA RequestNextKeeps == ASSUME TypeInv, RequestInv, [Next]_vars PROVE RequestInv'
  BY InsertedNext, StoredNext DEF RequestInv

\* A send request that fails at any point of its transaction leaves nothing,
\* one that commits leaves a delivery and an event for every channel, and the
\* answer tells which (events.go Enqueue).
THEOREM AllOrNothingCorrect == Spec => []AllOrNothing
<1>1. TypeInv /\ RequestInv => AllOrNothing
  BY FS_EmptySet DEF RequestInv, StoredInv, AllOrNothing
<1>2. TypeInv /\ [Next]_vars => TypeInv'
  BY TypeNext
<1>3. TypeInv /\ RequestInv /\ [Next]_vars => RequestInv'
  BY RequestNextKeeps
<1>4. QED BY <1>1, <1>2, <1>3, TypesInitially, RequestsInitially, PTL DEF Spec

-----------------------------------------------------------------------------
(* The idempotency key.                                                    *)

Twice(list) == \E m, n \in DOMAIN list : m < n /\ list[m] = list[n]

\* An open transaction with the key.
OpenKey(r) == Open(r) /\ send[r].keyed

KeyInv ==
    /\ \A c \in Channels : \A d, e \in Keyed(c) : d = e
    /\ \A r \in Requests :
        /\ OpenKey(r) =>
               /\ \A m, n \in InTable(r) :
                      send[r].rows[m].channel = send[r].rows[n].channel => m = n
               /\ \A c \in Held(r) : Keyed(c) = {}
               /\ \A q \in Requests : q # r /\ OpenKey(q) => Held(q) \cap Held(r) = {}
        /\ send[r].step = "reload" =>
               (\E c \in Channels : Keyed(c) # {}) \/ Twice(send[r].list)
        /\ send[r].met => Twice(send[r].list)

LEMMA KeysInitially == Init => KeyInv
  BY DEF Init, RequestInit, KeyInv, Keyed, OpenKey, Open, NoSend

\* What a step means to the committed rows with the key.
LEMMA KeyedNext ==
    ASSUME TypeInv, RequestInv, [Next]_vars
    PROVE  \/ \A c \in Channels : Keyed(c)' = Keyed(c)
           \/ \E r \in Requests : SendCommits(r)
<1>1. CASE QueueNext
  BY <1>1, RowsKept DEF Keyed, SameRow
<1>2. CASE UNCHANGED deliveries
  BY <1>2 DEF Keyed
<1>3. QED BY <1>1, <1>2, RowsMove

LEMMA KeyedGrows ==
    ASSUME TypeInv, RequestInv, NEW r \in Requests, SendCommits(r), NEW c \in Channels
    PROVE  /\ Keyed(c) \subseteq Keyed(c)'
           /\ c \notin Held(r) \/ ~send[r].keyed => Keyed(c)' = Keyed(c)
           /\ \A d \in Keyed(c)' \ Keyed(c) :
                  /\ d - Len(deliveries) \in DOMAIN send[r].rows
                  /\ send[r].rows[d - Len(deliveries)].channel = c
<1>1. InsertedInv(r)
  BY DEF RequestInv
<1>2. \A d \in DOMAIN deliveries : d \in DOMAIN deliveries' /\ deliveries'[d] = deliveries[d]
  BY CommitAppends
<1>3. ASSUME NEW d \in DOMAIN deliveries' \ DOMAIN deliveries
      PROVE  /\ d - Len(deliveries) \in DOMAIN send[r].rows
             /\ deliveries'[d].channel = send[r].rows[d - Len(deliveries)].channel
             /\ deliveries'[d].keyed = send[r].keyed
             /\ deliveries'[d].channel \in Held(r)
  BY <1>1, CommitAppends DEF InsertedInv, Held, InTable, SendCommits
<1>4. QED BY <1>2, <1>3 DEF Keyed

LEMMA HeldChannels ==
    ASSUME TypeInv, NEW r \in Requests PROVE Held(r) \subseteq Channels
<1>1. send[r].rows \in Seq(Delivery)
  BY DEF TypeInv, SendType, SendCall
<1>2. \A n \in DOMAIN send[r].rows : send[r].rows[n] \in Delivery
  BY <1>1
<1>3. InTable(r) \subseteq DOMAIN send[r].rows
  BY <1>1 DEF InTable
<1>4. QED BY <1>2, <1>3 DEF Held, Delivery

LEMMA HeldSame ==
    ASSUME NEW r \in Requests, send'[r] = send[r]
    PROVE  Held(r)' = Held(r) /\ InTable(r)' = InTable(r) /\ (OpenKey(r)' <=> OpenKey(r))
<1>1. InTable(r)' = InTable(r)
  BY DEF InTable
<1>2. QED BY <1>1 DEF Held, OpenKey, Open

\* Of one request's step, what it means to the other requests.
LEMMA KeyCommits ==
    ASSUME TypeInv, RequestInv, KeyInv, NEW r \in Requests, SendCommits(r) PROVE KeyInv'
<1>0. /\ send \in [Requests -> SendCall] /\ send[r].step = "build"
      /\ \A q \in Requests \ {r} : send'[q] = send[q]
  BY SendMoves DEF TypeInv, SendType, SendCommits, Arriving, SendStep
<1>1. send'[r].step = "done" /\ send'[r].list = send[r].list /\ send'[r].met = send[r].met
  BY <1>0 DEF SendCommits, Answer, SendCall
<1>2. ASSUME NEW c \in Channels, NEW d \in Keyed(c)', NEW e \in Keyed(c)' PROVE d = e
  <2>1. CASE d \in Keyed(c) /\ e \in Keyed(c)
    BY <2>1 DEF KeyInv
  <2>2. CASE d \notin Keyed(c) \/ e \notin Keyed(c)
    <3>1. send[r].keyed /\ c \in Held(r)
      BY <2>2, KeyedGrows
    <3>2. Keyed(c) = {} /\ OpenKey(r)
      BY <1>0, <3>1 DEF KeyInv, OpenKey, Open
    <3>3. /\ d - Len(deliveries) \in DOMAIN send[r].rows /\ e - Len(deliveries) \in DOMAIN send[r].rows
          /\ send[r].rows[d - Len(deliveries)].channel = c
          /\ send[r].rows[e - Len(deliveries)].channel = c
      BY <3>2, KeyedGrows
    <3>4. d - Len(deliveries) = e - Len(deliveries)
      BY <1>0, <3>2, <3>3 DEF KeyInv, InTable
    <3>5. d \in Nat /\ e \in Nat /\ Len(deliveries) \in Nat
      BY CommitAppends DEF Keyed
    <3>6. QED BY <3>4, <3>5
  <2>3. QED BY <2>1, <2>2
<1>3. ASSUME NEW q \in Requests, q # r, OpenKey(q), NEW c \in Held(q) PROVE Keyed(c)' = {}
  <2>1. c \in Channels
    BY <1>3, HeldChannels
  <2>2. Keyed(c) = {}
    BY <1>3 DEF KeyInv
  <2>3. c \notin Held(r) \/ ~send[r].keyed
    BY <1>0, <1>3 DEF KeyInv, OpenKey, Open
  <2>4. QED BY <2>1, <2>2, <2>3, KeyedGrows
<1>4. ASSUME NEW q \in Requests
      PROVE  /\ OpenKey(q)' =>
                    /\ \A m, n \in InTable(q) :
                          send[q].rows[m].channel = send[q].rows[n].channel => m = n
                    /\ \A c \in Held(q) : Keyed(c)' = {}
                    /\ \A p \in Requests : p # q /\ OpenKey(p)' => Held(p)' \cap Held(q) = {}
                    /\ send'[q] = send[q]
             /\ send'[q].step = "reload" =>
                    (\E c \in Channels : Keyed(c)' # {}) \/ Twice(send'[q].list)
             /\ send'[q].met => Twice(send'[q].list)
  <2>1. CASE q = r
    BY <1>1, <2>1 DEF KeyInv, OpenKey, Open
  <2>2. CASE q # r
    <3>1. send'[q] = send[q]
      BY <1>0, <2>2
    <3>2. ASSUME OpenKey(q)', NEW p \in Requests, p # q, OpenKey(p)'
          PROVE  Held(p)' \cap Held(q) = {}
      <4>1. p # r
        BY <1>1, <3>2 DEF OpenKey, Open
      <4>2. send'[p] = send[p]
        BY <1>0, <4>1
      <4>3. Held(p)' = Held(p) /\ OpenKey(p) /\ OpenKey(q)
        BY <3>1, <3>2, <4>2, HeldSame
      <4>4. QED BY <3>2, <4>3 DEF KeyInv
    <3>3. OpenKey(q)' => \A c \in Held(q) : Keyed(c)' = {}
      BY <1>3, <2>2, <3>1 DEF OpenKey, Open
    <3>4. send'[q].step = "reload" =>
              (\E c \in Channels : Keyed(c)' # {}) \/ Twice(send'[q].list)
      BY <3>1, KeyedGrows DEF KeyInv
    <3>5. QED BY <3>1, <3>2, <3>3, <3>4 DEF KeyInv, OpenKey, Open
  <2>3. QED BY <2>1, <2>2
<1>5. \A q \in Requests : OpenKey(q)' => Held(q)' = Held(q) /\ InTable(q)' = InTable(q)
  BY <1>4, HeldSame
<1>6. \A c \in Channels : \A d, e \in Keyed(c)' : d = e
  BY <1>2
<1>7. ASSUME NEW q \in Requests
      PROVE  /\ OpenKey(q)' =>
                    /\ \A m, n \in InTable(q)' :
                          send'[q].rows[m].channel = send'[q].rows[n].channel => m = n
                    /\ \A c \in Held(q)' : Keyed(c)' = {}
                    /\ \A p \in Requests : p # q /\ OpenKey(p)' => Held(p)' \cap Held(q)' = {}
             /\ send'[q].step = "reload" =>
                    (\E c \in Channels : Keyed(c)' # {}) \/ Twice(send'[q].list)
             /\ send'[q].met => Twice(send'[q].list)
  BY <1>4, <1>5
<1>8. QED BY <1>6, <1>7 DEF KeyInv

\* What r must see to while the committed rows stay.
KeyDone(r) ==
    /\ OpenKey(r)' =>
           /\ \A m, n \in InTable(r)' :
                  send'[r].rows[m].channel = send'[r].rows[n].channel => m = n
           /\ \A c \in Held(r)' : Keyed(c) = {}
           /\ \A q \in Requests : q # r /\ OpenKey(q) => Held(q) \cap Held(r)' = {}
    /\ send'[r].step = "reload" => (\E c \in Channels : Keyed(c) # {}) \/ Twice(send'[r].list)
    /\ send'[r].met => Twice(send'[r].list)

LEMMA KeyOthers ==
    ASSUME KeyInv, NEW r \in Requests, KeyDone(r), UNCHANGED deliveries,
           \A q \in Requests \ {r} : send'[q] = send[q]
    PROVE  KeyInv'
<1>1. \A c : Keyed(c)' = Keyed(c)
  BY DEF Keyed
<1>2. \A q \in Requests \ {r} : /\ Held(q)' = Held(q) /\ InTable(q)' = InTable(q)
                                /\ (OpenKey(q)' <=> OpenKey(q))
  BY HeldSame
<1>3. ASSUME NEW q \in Requests
      PROVE  /\ OpenKey(q)' =>
                    /\ \A m, n \in InTable(q)' :
                          send'[q].rows[m].channel = send'[q].rows[n].channel => m = n
                    /\ \A c \in Held(q)' : Keyed(c) = {}
                    /\ \A p \in Requests : p # q /\ OpenKey(p)' => Held(p)' \cap Held(q)' = {}
             /\ send'[q].step = "reload" =>
                    (\E c \in Channels : Keyed(c) # {}) \/ Twice(send'[q].list)
             /\ send'[q].met => Twice(send'[q].list)
  <2>1. CASE q = r
    BY <1>2, <2>1 DEF KeyDone
  <2>2. CASE q # r
    <3>1. ASSUME OpenKey(q)', NEW p \in Requests, p # q, OpenKey(p)'
          PROVE  Held(p)' \cap Held(q)' = {}
      <4>1. CASE p = r
        BY <1>2, <2>2, <3>1, <4>1 DEF KeyDone
      <4>2. CASE p # r
        BY <1>2, <2>2, <3>1, <4>2 DEF KeyInv
      <4>3. QED BY <4>1, <4>2
    <3>2. send'[q] = send[q]
      BY <2>2
    <3>3. QED BY <1>2, <2>2, <3>1, <3>2 DEF KeyInv
  <2>3. QED BY <2>1, <2>2
<1>4. \A c \in Channels : \A d, e \in Keyed(c) : d = e
  BY DEF KeyInv
<1>5. QED BY <1>1, <1>3, <1>4 DEF KeyInv

\* A row that is built is not in its table.
LEMMA KeyBuilds ==
    ASSUME TypeInv, RequestInv, KeyInv, NEW r \in Requests, SendBuilds(r) PROVE KeyDone(r)
<1>0. send \in [Requests -> SendCall] /\ send[r] \in SendCall
  BY DEF TypeInv, SendType
<1>1. CASE Answer(r, "refused")
  <2>1. send'[r].step = "done" /\ send'[r].met = send[r].met /\ send'[r].list = send[r].list
    BY <1>0, <1>1 DEF Answer, SendCall
  <2>2. QED BY <2>1 DEF KeyDone, KeyInv, OpenKey, Open
<1>2. CASE ~Answer(r, "refused")
  <2>1. /\ send[r].step = "build" /\ send'[r].step = "insert"
        /\ send'[r].keyed = send[r].keyed /\ send'[r].met = send[r].met
        /\ send'[r].list = send[r].list
        /\ \A n \in DOMAIN send[r].rows : send'[r].rows[n] = send[r].rows[n]
    BY <1>2, BuildAppends DEF TypeInv
  <2>2. InTable(r) = DOMAIN send[r].rows /\ InTable(r)' = DOMAIN send[r].rows
    BY <1>2, <2>1, BuildAppends DEF TypeInv, InTable
  <2>3. Held(r)' = Held(r)
    BY <2>1, <2>2 DEF Held
  <2>4. OpenKey(r)' <=> OpenKey(r)
    BY <2>1 DEF OpenKey, Open
  <2>5. QED BY <2>1, <2>2, <2>3, <2>4 DEF KeyDone, KeyInv
<1>3. QED BY <1>1, <1>2

\* A row is inserted where no committed row and no open transaction has the key
\* and the channel.
LEMMA KeyInserts ==
    ASSUME TypeInv, RequestInv, KeyInv, NEW r \in Requests, SendInserts(r) PROVE KeyDone(r)
<1> DEFINE c == NextChannel(r)
           last == Len(send[r].rows)
<1>0. /\ send \in [Requests -> SendCall] /\ send[r] \in SendCall /\ send[r].step = "insert"
      /\ send[r].rows \in Seq(Delivery) /\ send[r].list \in Seq(Channels)
      /\ ~Blocked(r) /\ InsertedInv(r)
  BY DEF TypeInv, SendType, SendCall, SendInserts, RequestInv
<1>1. /\ last \in Nat \ {0} /\ DOMAIN send[r].rows = 1..last /\ InTable(r) = 1..last - 1
      /\ c = send[r].rows[last].channel /\ c = send[r].list[last] /\ last <= Len(send[r].list)
  BY <1>0 DEF InsertedInv, NextChannel, InTable
<1>2. c \in Channels
  BY <1>0, <1>1
<1>3. CASE /\ send[r].keyed /\ (Keyed(c) # {} \/ c \in Held(r))
           /\ send' = [send EXCEPT ![r].step = "reload", ![r].rows = <<>>]
  <2>1. send'[r].step = "reload" /\ send'[r].met = send[r].met /\ send'[r].list = send[r].list
    BY <1>0, <1>3 DEF SendCall
  <2>2. ASSUME c \in Held(r) PROVE Twice(send[r].list)
    <3>1. PICK n \in 1..last - 1 : c = send[r].rows[n].channel
      BY <1>1, <2>2 DEF Held
    <3>2. c = send[r].list[n] /\ n < last
      BY <1>0, <1>1, <3>1 DEF InsertedInv
    <3>3. n \in DOMAIN send[r].list /\ last \in DOMAIN send[r].list
      BY <1>0, <1>1
    <3>4. QED BY <1>1, <3>2, <3>3 DEF Twice
  <2>3. QED BY <1>2, <1>3, <2>1, <2>2 DEF KeyDone, KeyInv, OpenKey, Open
<1>4. CASE /\ ~(send[r].keyed /\ (Keyed(c) # {} \/ c \in Held(r)))
           /\ send' = [send EXCEPT ![r].step = "build"]
  <2>1. /\ send'[r].step = "build" /\ send'[r].met = send[r].met
        /\ send'[r].list = send[r].list /\ send'[r].keyed = send[r].keyed
        /\ send'[r].rows = send[r].rows
    BY <1>0, <1>4 DEF SendCall
  <2>2. InTable(r)' = InTable(r) \cup {last}
    BY <1>1, <2>1 DEF InTable
  <2>3. Held(r)' = Held(r) \cup {c}
    BY <1>1, <2>1, <2>2 DEF Held
  <2>4. CASE ~send[r].keyed
    BY <2>1, <2>4 DEF KeyDone, OpenKey, KeyInv
  <2>5. CASE send[r].keyed
    <3>1. OpenKey(r) /\ Keyed(c) = {} /\ c \notin Held(r)
      BY <1>0, <1>4, <2>5 DEF OpenKey, Open
    <3>2. \A q \in Requests : q # r /\ OpenKey(q) => c \notin Held(q)
      BY <1>0, <2>5 DEF Blocked, WaitsFor, OpenKey
    <3>3. \A n \in InTable(r) : send[r].rows[n].channel # c
      BY <3>1 DEF Held
    <3>4. \A m, n \in InTable(r)' :
              send'[r].rows[m].channel = send'[r].rows[n].channel => m = n
      BY <1>1, <2>1, <2>2, <3>1, <3>3 DEF KeyInv
    <3>5. /\ \A b \in Held(r)' : Keyed(b) = {}
          /\ \A q \in Requests : q # r /\ OpenKey(q) => Held(q) \cap Held(r)' = {}
      BY <2>3, <3>1, <3>2 DEF KeyInv
    <3>6. QED BY <2>1, <3>4, <3>5 DEF KeyDone, KeyInv
  <2>6. QED BY <2>4, <2>5
<1>5. QED BY <1>3, <1>4 DEF SendInserts

LEMMA KeyRest ==
    ASSUME TypeInv, RequestInv, KeyInv, NEW r \in Requests,
           SendArrives(r) \/ SendLooksUp(r) \/ SendDeadlocks(r) \/ SendReloads(r) \/ SendFails(r)
    PROVE  KeyDone(r)
<1>0. send \in [Requests -> SendCall] /\ send[r] \in SendCall /\ InsertedInv(r)
  BY DEF TypeInv, SendType, RequestInv
<1>1. ASSUME NEW a, Answer(r, a) PROVE KeyDone(r)
  <2>1. send'[r].step = "done" /\ send'[r].met = send[r].met /\ send'[r].list = send[r].list
    BY <1>0, <1>1 DEF Answer, SendCall
  <2>2. QED BY <2>1 DEF KeyDone, KeyInv, OpenKey, Open
<1>2. CASE SendArrives(r)
  <2>1. send'[r].step = "lookup" /\ send'[r].met = FALSE
    BY <1>0, <1>2 DEF SendArrives, NoSend
  <2>2. QED BY <2>1 DEF KeyDone, OpenKey, Open
<1>3. CASE SendLooksUp(r) /\ send' = [send EXCEPT ![r].step = "build"]
  <2>1. /\ send'[r].step = "build" /\ send'[r].rows = <<>> /\ send'[r].met = send[r].met
        /\ send'[r].list = send[r].list
    BY <1>0, <1>3 DEF SendCall, SendLooksUp, InsertedInv, Open
  <2>2. Held(r)' = {} /\ InTable(r)' = {}
    BY <2>1 DEF Held, InTable
  <2>3. QED BY <2>1, <2>2 DEF KeyDone, KeyInv
<1>4. CASE SendReloads(r)
  <2>1. /\ send'[r].step = "done" /\ send[r].step = "reload" /\ send'[r].list = send[r].list
        /\ send'[r].met => \A c \in Channels : Keyed(c) = {}
    BY <1>0, <1>4 DEF SendReloads, SendCall
  <2>2. QED BY <2>1 DEF KeyDone, KeyInv, OpenKey, Open
<1>5. QED BY <1>1, <1>2, <1>3, <1>4 DEF SendLooksUp, SendDeadlocks, SendFails

LEMMA KeyNext == ASSUME TypeInv, RequestInv, KeyInv, [Next]_vars PROVE KeyInv'
<1>1. ASSUME NEW r \in Requests, SendCommits(r) PROVE KeyInv'
  BY <1>1, KeyCommits
<1>2. ASSUME NEW r \in Requests, Arriving(r) PROVE KeyInv'
  <2>1. CASE SendCommits(r)
    BY <1>1, <2>1
  <2>2. CASE /\ UNCHANGED deliveries
             /\ SendBuilds(r) \/ SendInserts(r) \/ SendArrives(r) \/ SendLooksUp(r)
                \/ SendDeadlocks(r) \/ SendReloads(r) \/ SendFails(r)
    BY <1>2, <2>2, KeyBuilds, KeyInserts, KeyRest, KeyOthers, SendMoves
  <2>3. QED BY <1>2, <2>1, <2>2 DEF Arriving, SendStep, SendBuilds, SendInserts, SendArrives, SendLooksUp,
                                   SendDeadlocks, SendReloads, SendFails
<1>3. CASE UNCHANGED sendVars /\ \A c \in Channels : Keyed(c)' = Keyed(c)
  <2>1. send' = send
    BY <1>3 DEF sendVars
  <2>2. \A r \in Requests : Held(r)' = Held(r) /\ InTable(r)' = InTable(r)
                               /\ (OpenKey(r)' <=> OpenKey(r))
    BY <2>1, HeldSame
  <2>3. \A r \in Requests : Held(r) \subseteq Channels
    BY HeldChannels
  <2>4. QED BY <1>3, <2>1, <2>2, <2>3 DEF KeyInv
<1>4. QED BY <1>1, <1>2, <1>3, SendsMove, KeyedNext

\* One idempotency key never stores two deliveries of a channel, however many
\* requests with it run at the same time, and a replay that returns nothing
\* comes from a request that names a channel twice (events.go Enqueue, the
\* unique index of migration 000007).
THEOREM KeyUsedOnceCorrect == Spec => []KeyUsedOnce
<1>1. ASSUME TypeInv, KeyInv, NEW c \in Channels PROVE Cardinality(Keyed(c)) <= 1
  <2>1. CASE Keyed(c) = {}
    BY <2>1, FS_EmptySet
  <2>2. CASE Keyed(c) # {}
    <3>1. PICK d : Keyed(c) = {d}
      BY <1>1, <2>2 DEF KeyInv
    <3>2. QED BY <3>1, FS_Singleton
  <2>3. QED BY <2>1, <2>2
<1>2. TypeInv /\ KeyInv => KeyUsedOnce
  BY <1>1 DEF KeyInv, KeyUsedOnce, Twice
<1>3. TypeInv /\ [Next]_vars => TypeInv'
  BY TypeNext
<1>4. TypeInv /\ RequestInv /\ [Next]_vars => RequestInv'
  BY RequestNextKeeps
<1>5. TypeInv /\ RequestInv /\ KeyInv /\ [Next]_vars => KeyInv'
  BY KeyNext
<1>6. QED BY <1>2, <1>3, <1>4, <1>5, TypesInitially, RequestsInitially, KeysInitially, PTL DEF Spec

-----------------------------------------------------------------------------
(* The queue.                                                              *)

\* A dispatcher holds each row once, and rows that are to be sent.
HoldInv(w) ==
    /\ \A e \in Holding(w) :
        /\ deliveries[e.row].status # "skipped"
        /\ e.attempt <= deliveries[e.row].attempts
        /\ \A f \in Holding(w) : f.row = e.row => f = e
    /\ work[w].step = "finish" =>
        LET e == work[w].claim IN
        /\ e \notin work[w].batch
        /\ work[w].status = "sent" => deliveries[e.row].accepted > 0
        /\ work[w].status = "failed" => deliveries[e.row].rejected \/ e.attempt >= MaxAttempts
        /\ work[w].status = "pending" => ~(e.attempt >= MaxAttempts)

TrueInv(d) ==
    /\ deliveries[d].status = "sent" => deliveries[d].accepted > 0
    /\ deliveries[d].status = "failed" =>
           deliveries[d].rejected \/ deliveries[d].attempts >= MaxAttempts

QueueInv ==
    /\ \A w \in Dispatchers : HoldInv(w)
    /\ \A d \in DOMAIN deliveries : TrueInv(d)
    /\ \A r \in Requests : \A n \in DOMAIN send[r].rows :
           /\ send[r].rows[n].status \in {"pending", "skipped"}
           /\ send[r].rows[n].attempts = 0 /\ send[r].rows[n].accepted = 0

LEMMA QueueInitially == Init => QueueInv
  BY DEF Init, RequestInit, QueueInv, HoldInv, Holding, Idle, NoSend

LEMMA Members ==
    ASSUME TypeInv, NEW w \in Dispatchers
    PROVE  /\ work[w] \in Work /\ Holding(w) \subseteq Claimed
           /\ \A e \in Holding(w) : e.row \in DOMAIN deliveries
  BY DEF TypeInv, WorkType, Work, Holding

\* A row that the queue has touched, compared with the one before.
LEMMA OneRowAt ==
    ASSUME TypeInv, NEW d \in DOMAIN deliveries, NEW row \in Delivery, OneRow(d, row),
           NEW f \in DOMAIN deliveries
    PROVE  deliveries'[f] = IF f = d THEN row ELSE deliveries[f]
  BY OneRowKept

LEMMA SkipKept ==
    ASSUME TypeInv, QueueInv, QueueNext, NEW d \in DOMAIN deliveries
    PROVE  deliveries'[d].status = "skipped" <=> deliveries[d].status = "skipped"
<1> DEFINE Goal == deliveries'[d].status = "skipped" <=> deliveries[d].status = "skipped"
<1>0. deliveries[d] \in Delivery
  BY RowFields
<1>1. ASSUME NEW f \in DOMAIN deliveries, RowStep(f) PROVE Goal
  <2>1. deliveries[f] \in Delivery /\ Lapsed(deliveries[f]) \in Delivery
        /\ Opened(deliveries[f]) \in Delivery
    BY RowFields, RowChanges
  <2>2. \/ deliveries'[d] = deliveries[d]
        \/ deliveries'[d] = Lapsed(deliveries[d]) \/ deliveries'[d] = Opened(deliveries[d])
    BY <1>1, <2>1, OneRowAt DEF RowStep
  <2>3. QED BY <1>0, <2>2 DEF Lapsed, Opened, Delivery
<1>2. ASSUME NEW w \in Dispatchers, NEW S, ClaimsRows(w, S) PROVE Goal
  <2>1. CASE d \in S
    <3>1. deliveries[d].status # "skipped" /\ deliveries'[d] = Grasped(deliveries[d])
      BY <1>2, <2>1 DEF ClaimsRows, Claimable
    <3>2. QED BY <1>0, <3>1, AfterGrasp
  <2>2. CASE d \notin S
    BY <1>2, <2>2 DEF ClaimsRows
  <2>3. QED BY <2>1, <2>2
<1>3. ASSUME NEW w \in Dispatchers, NEW e, NEW result, SendsRow(w, e, result) PROVE Goal
  <2>1. e.row \in DOMAIN deliveries /\ Tried(deliveries[e.row], result) \in Delivery
    BY <1>3, RowFields, RowChanges DEF SendsRow
  <2>2. deliveries'[d] = deliveries[d] \/ deliveries'[d] = Tried(deliveries[d], result)
    BY <1>3, <2>1, OneRowAt DEF SendsRow
  <2>3. QED BY <1>0, <2>2 DEF Tried, Delivery
<1>4. ASSUME NEW w \in Dispatchers, FinishesRow(w) PROVE Goal
  <2>1. CASE UNCHANGED deliveries
    BY <2>1
  <2>2. CASE OneRow(work[w].claim.row, Finished(deliveries[work[w].claim.row], work[w].status))
    <3>1. /\ work[w].claim.row \in DOMAIN deliveries
          /\ Finished(deliveries[work[w].claim.row], work[w].status) \in Delivery
      BY <1>4, RowFields, RowChanges, StatusTyped DEF FinishesRow
    <3>2. CASE d # work[w].claim.row
      BY <2>2, <3>1, <3>2, OneRowAt
    <3>3. CASE d = work[w].claim.row
      <4>1. deliveries'[d].status = work[w].status
        <5>1. deliveries'[d] = Finished(deliveries[d], work[w].status)
          BY <2>2, <3>1, <3>3, OneRowAt
        <5>2. QED BY <1>0, <5>1, AfterFinish
      <4>2. work[w].status # "skipped"
        BY Members DEF Work
      <4>3. deliveries[d].status # "skipped"
        BY <1>4, <3>3 DEF QueueInv, HoldInv, Holding, FinishesRow
      <4>4. QED BY <4>1, <4>2, <4>3
    <3>4. QED BY <3>2, <3>3
  <2>3. QED BY <1>4, <2>1, <2>2 DEF FinishesRow
<1>5. QED BY <1>1, <1>2, <1>3, <1>4, QueueMoves DEF DispatcherStep, LetsGo

\* What a dispatcher holds stays true whatever happens to the rows.
LEMMA HoldKept ==
    ASSUME TypeInv, QueueInv, NEW v \in Dispatchers, work'[v] = work[v],
           \A d \in DOMAIN deliveries :
               SameRow(d) /\ (deliveries'[d].status = "skipped" <=> deliveries[d].status = "skipped"),
           deliveries' \in Seq(Delivery), DOMAIN deliveries \subseteq DOMAIN deliveries'
    PROVE  HoldInv(v)'
<1>1. Holding(v)' = Holding(v)
  BY DEF Holding
<1>2. \A d \in DOMAIN deliveries : deliveries[d] \in Delivery /\ deliveries'[d] \in Delivery
  BY RowFields
<1>3. \A e \in Holding(v) : e.row \in DOMAIN deliveries /\ e.attempt \in Nat
  BY Members DEF Claimed
<1>4. ASSUME NEW e \in Holding(v)
      PROVE  /\ deliveries'[e.row].status # "skipped"
             /\ e.attempt <= deliveries'[e.row].attempts
  <2>1. /\ deliveries[e.row].status # "skipped" /\ e.attempt <= deliveries[e.row].attempts
        /\ e.row \in DOMAIN deliveries /\ e.attempt \in Nat
    BY <1>3 DEF QueueInv, HoldInv
  <2>2. deliveries'[e.row].attempts >= deliveries[e.row].attempts
    BY <2>1 DEF SameRow
  <2>3. deliveries[e.row].attempts \in Nat /\ deliveries'[e.row].attempts \in Nat
    BY <1>2, <2>1 DEF SameRow, Delivery
  <2>4. QED BY <2>1, <2>2, <2>3
<1>5. work[v].step = "finish" => work[v].claim \in Holding(v)
  BY DEF Holding
<1>6. ASSUME work[v].step = "finish"
      PROVE  LET e == work[v].claim IN
        /\ e \notin work[v].batch
        /\ work[v].status = "sent" => deliveries'[e.row].accepted > 0
        /\ work[v].status = "failed" => deliveries'[e.row].rejected \/ e.attempt >= MaxAttempts
        /\ work[v].status = "pending" => ~(e.attempt >= MaxAttempts)
  <2> DEFINE d == work[v].claim.row
  <2>1. d \in DOMAIN deliveries
    BY <1>3, <1>5, <1>6
  <2>2. /\ deliveries'[d].accepted >= deliveries[d].accepted
        /\ deliveries[d].rejected => deliveries'[d].rejected
    BY <2>1 DEF SameRow
  <2>3. deliveries'[d].accepted \in Nat /\ deliveries[d].accepted \in Nat
    BY <1>2, <2>1 DEF SameRow, Delivery
  <2>4. deliveries[d].accepted > 0 => deliveries'[d].accepted > 0
    BY <2>2, <2>3
  <2>5. QED BY <1>6, <2>2, <2>4 DEF QueueInv, HoldInv
<1>7. QED BY <1>1, <1>4, <1>6 DEF QueueInv, HoldInv

LEMMA HoldNext ==
    ASSUME TypeInv, QueueInv, NEW w \in Dispatchers, DispatcherStep(w), QueueNext
    PROVE  HoldInv(w)'
<1>0. /\ work[w] \in Work /\ \A e \in Holding(w) : e.row \in DOMAIN deliveries /\ e \in Claimed
      /\ \A d \in DOMAIN deliveries : deliveries[d] \in Delivery /\ deliveries'[d] \in Delivery
      /\ HoldInv(w)
  BY Members, RowsKept, RowFields DEF QueueInv
<1>1. \A d \in DOMAIN deliveries :
          /\ SameRow(d)
          /\ deliveries'[d].status = "skipped" <=> deliveries[d].status = "skipped"
  BY RowsKept, SkipKept
<1>2. \A e \in Holding(w) : /\ deliveries'[e.row].status # "skipped"
                            /\ e.attempt <= deliveries'[e.row].attempts
  BY <1>0, <1>1 DEF HoldInv, SameRow, Delivery, Claimed
<1>3. CASE FinishesRow(w) \/ LetsGo(w)
  <2>1. Holding(w)' \subseteq Holding(w) /\ work'[w].step # "finish"
    BY <1>0, <1>3 DEF FinishesRow, LetsGo, Holding, Idle, Work
  <2>2. QED BY <1>0, <1>2, <2>1 DEF HoldInv
<1>4. ASSUME NEW S, ClaimsRows(w, S) PROVE HoldInv(w)'
  <2>1. Holding(w)' = {[row |-> d, attempt |-> deliveries[d].attempts + 1] : d \in S}
        /\ work'[w].step # "finish"
    BY <1>0, <1>4 DEF ClaimsRows, Holding, Work
  <2>2. S \subseteq DOMAIN deliveries
    BY <1>4 DEF ClaimsRows, Claimable
  <2>3. \A d \in S : deliveries'[d].status # "skipped"
                     /\ deliveries'[d].attempts = deliveries[d].attempts + 1
                     /\ deliveries[d].attempts + 1 <= deliveries'[d].attempts
    <3>1. ASSUME NEW d \in S
          PROVE  deliveries'[d] = Grasped(deliveries[d]) /\ deliveries[d] \in Delivery
      BY <1>0, <1>4, <2>2 DEF ClaimsRows
    <3>2. ASSUME NEW d \in S PROVE deliveries[d].attempts \in Nat
      BY <3>1 DEF Delivery
    <3>3. QED BY <3>1, <3>2, AfterGrasp
  <2>4. QED BY <2>1, <2>3 DEF HoldInv
<1>5. ASSUME NEW e \in Claimed, NEW result, SendsRow(w, e, result) PROVE HoldInv(w)'
  <2>1. /\ e \in Holding(w) /\ Holding(w) = work[w].batch
        /\ work'[w].batch = work[w].batch \ {e} /\ work'[w].claim = e /\ work'[w].step = "finish"
        /\ work'[w].status = Outcome(result, e.attempt)
        /\ Holding(w)' = Holding(w)
    BY <1>5 DEF SendsRow, Holding
  <2>2. deliveries'[e.row] = Tried(deliveries[e.row], result)
    <3>1. e.row \in DOMAIN deliveries /\ Tried(deliveries[e.row], result) \in Delivery
      BY <1>0, <2>1, RowChanges
    <3>2. QED BY <1>5, <3>1, OneRowAt DEF SendsRow
  <2>3. /\ result = "taken" => deliveries'[e.row].accepted > 0
        /\ result = "refused" => deliveries'[e.row].rejected
    <3>1. deliveries[e.row] \in Delivery /\ deliveries[e.row].accepted \in Nat
      BY <1>0, <2>1 DEF Delivery
    <3>2. result = "taken" => Tried(deliveries[e.row], result).accepted = deliveries[e.row].accepted + 1
      BY <3>1, AfterTry
    <3>3. result = "refused" => Tried(deliveries[e.row], result).rejected
      BY <3>1, AfterTry
    <3>4. QED BY <2>2, <3>1, <3>2, <3>3
  <2>4. QED BY <1>0, <1>2, <2>1, <2>3, OutcomeTyped DEF HoldInv
<1>6. QED BY <1>3, <1>4, <1>5 DEF DispatcherStep

\* How one row comes out of a step of the queue.
LEMMA RowBecomes ==
    ASSUME TypeInv, QueueInv, QueueNext, NEW d \in DOMAIN deliveries
    PROVE  \/ deliveries'[d] = deliveries[d]
           \/ deliveries[d].status # "sent" /\ deliveries'[d] = Grasped(deliveries[d])
           \/ \E result : deliveries'[d] = Tried(deliveries[d], result)
           \/ \E w \in Dispatchers : /\ work[w].step = "finish" /\ work[w].claim.row = d
                                     /\ deliveries'[d] = Finished(deliveries[d], work[w].status)
           \/ deliveries'[d] = Lapsed(deliveries[d])
           \/ deliveries[d].status = "sent" /\ deliveries'[d] = Opened(deliveries[d])
<1> DEFINE Goal ==
           \/ deliveries'[d] = deliveries[d]
           \/ deliveries[d].status # "sent" /\ deliveries'[d] = Grasped(deliveries[d])
           \/ \E result : deliveries'[d] = Tried(deliveries[d], result)
           \/ \E w \in Dispatchers : /\ work[w].step = "finish" /\ work[w].claim.row = d
                                     /\ deliveries'[d] = Finished(deliveries[d], work[w].status)
           \/ deliveries'[d] = Lapsed(deliveries[d])
           \/ deliveries[d].status = "sent" /\ deliveries'[d] = Opened(deliveries[d])
<1>1. ASSUME NEW f \in DOMAIN deliveries, RowStep(f) PROVE Goal
  <2>1. Lapsed(deliveries[f]) \in Delivery /\ Opened(deliveries[f]) \in Delivery
    BY RowFields, RowChanges
  <2>2. QED BY <1>1, <2>1, OneRowAt DEF RowStep, Unread, Inbox
<1>2. ASSUME NEW w \in Dispatchers, NEW S, ClaimsRows(w, S) PROVE Goal
  BY <1>2 DEF ClaimsRows, Claimable
<1>3. ASSUME NEW w \in Dispatchers, NEW e, NEW result, SendsRow(w, e, result) PROVE Goal
  <2>1. e.row \in DOMAIN deliveries /\ Tried(deliveries[e.row], result) \in Delivery
    BY <1>3, RowFields, RowChanges DEF SendsRow
  <2>2. deliveries'[d] = deliveries[d] \/ deliveries'[d] = Tried(deliveries[d], result)
    BY <1>3, <2>1, OneRowAt DEF SendsRow
  <2>3. QED BY <2>2
<1>4. ASSUME NEW w \in Dispatchers, FinishesRow(w) PROVE Goal
  <2>1. CASE UNCHANGED deliveries
    BY <2>1
  <2>2. CASE OneRow(work[w].claim.row, Finished(deliveries[work[w].claim.row], work[w].status))
    <3>1. /\ work[w].claim.row \in DOMAIN deliveries
          /\ Finished(deliveries[work[w].claim.row], work[w].status) \in Delivery
      BY <1>4, RowFields, RowChanges, StatusTyped DEF FinishesRow
    <3>2. d # work[w].claim.row => deliveries'[d] = deliveries[d]
      BY <2>2, <3>1, OneRowAt
    <3>3. d = work[w].claim.row => deliveries'[d] = Finished(deliveries[d], work[w].status)
      BY <2>2, <3>1, OneRowAt
    <3>4. QED BY <1>4, <3>2, <3>3 DEF FinishesRow
  <2>3. QED BY <1>4, <2>1, <2>2 DEF FinishesRow
<1>5. ASSUME NEW w \in Dispatchers, DispatcherStep(w) PROVE Goal
  <2>1. CASE UNCHANGED deliveries
    BY <2>1
  <2>2. QED BY <1>2, <1>3, <1>4, <1>5, <2>1 DEF DispatcherStep, LetsGo
<1>6. QED BY <1>1, <1>5, QueueMoves

LEMMA TrueNext ==
    ASSUME TypeInv, QueueInv, QueueNext, NEW d \in DOMAIN deliveries
    PROVE  TrueInv(d)'
<1>0. deliveries[d] \in Delivery /\ TrueInv(d)
  BY RowFields DEF QueueInv
<1>1. CASE deliveries'[d] = deliveries[d]
  BY <1>0, <1>1 DEF TrueInv
<1>2. CASE deliveries'[d] = Grasped(deliveries[d])
  BY <1>0, <1>2, AfterGrasp DEF TrueInv
<1>3. ASSUME NEW result, deliveries'[d] = Tried(deliveries[d], result) PROVE TrueInv(d)'
  <2>1. /\ deliveries'[d].status = deliveries[d].status
        /\ deliveries'[d].attempts = deliveries[d].attempts
    BY <1>0, <1>3, AfterTry
  <2>2. deliveries[d].rejected => deliveries'[d].rejected
    BY <1>0, <1>3, AfterTry
  <2>3. deliveries'[d].accepted >= deliveries[d].accepted
    BY RowsKept DEF SameRow
  <2>4. deliveries'[d].accepted \in Nat /\ deliveries[d].accepted \in Nat
    BY <1>0, <1>3, RowChanges DEF Delivery
  <2>5. QED BY <1>0, <2>1, <2>2, <2>3, <2>4 DEF TrueInv
<1>4. ASSUME NEW w \in Dispatchers, work[w].step = "finish", work[w].claim.row = d,
             deliveries'[d] = Finished(deliveries[d], work[w].status)
      PROVE  TrueInv(d)'
  <2>1. /\ deliveries'[d].status = work[w].status
        /\ deliveries'[d].attempts = deliveries[d].attempts
        /\ deliveries'[d].accepted = deliveries[d].accepted
        /\ deliveries'[d].rejected = deliveries[d].rejected
    BY <1>0, <1>4, AfterFinish
  <2>2. /\ work[w].status = "sent" => deliveries[d].accepted > 0
        /\ work[w].status = "failed" =>
               deliveries[d].rejected \/ work[w].claim.attempt >= MaxAttempts
        /\ work[w].claim.attempt <= deliveries[d].attempts
    BY <1>4 DEF QueueInv, HoldInv, Holding
  <2>3. work[w].claim.attempt \in Nat /\ deliveries[d].attempts \in Nat /\ MaxAttempts \in Nat
    BY <1>0, Members, QueueAssumption DEF Work, Claimed, Delivery
  <2>4. QED BY <2>1, <2>2, <2>3 DEF TrueInv
<1>5. CASE deliveries'[d] = Lapsed(deliveries[d]) \/ deliveries'[d] = Opened(deliveries[d])
  BY <1>0, <1>5, AfterLapse, AfterOpening DEF TrueInv
<1>6. QED BY <1>1, <1>2, <1>3, <1>4, <1>5, RowBecomes

LEMMA InsertsNext ==
    ASSUME TypeInv, QueueInv, [Next]_vars, NEW r \in Requests, NEW n \in DOMAIN send'[r].rows
    PROVE  \/ /\ n \in DOMAIN send[r].rows /\ send'[r].rows[n] = send[r].rows[n]
              /\ send'[r].seen = send[r].seen
           \/ /\ SendBuilds(r) /\ send'[r].seen = send[r].seen
              /\ send'[r].rows[n] = BuiltRow(r)
<1> DEFINE Same == /\ n \in DOMAIN send[r].rows /\ send'[r].rows[n] = send[r].rows[n]
                   /\ send'[r].seen = send[r].seen
           New == /\ SendBuilds(r) /\ send'[r].seen = send[r].seen
                  /\ send'[r].rows[n] = BuiltRow(r)
<1>0. send \in [Requests -> SendCall] /\ send[r] \in SendCall /\ send[r].rows \in Seq(Delivery)
  BY DEF TypeInv, SendType, SendCall
<1>1. CASE send'[r] = send[r]
  BY <1>1
<1>2. CASE send'[r].rows = <<>>
  BY <1>2
<1>3. CASE send'[r].rows = send[r].rows /\ send'[r].seen = send[r].seen
  BY <1>3
<1>4. CASE SendBuilds(r) /\ ~Answer(r, "refused")
  BY <1>4, BuildAppends DEF TypeInv
<1>5. ASSUME Arriving(r)
      PROVE  \/ send'[r].rows = <<>>
             \/ send'[r].rows = send[r].rows /\ send'[r].seen = send[r].seen
             \/ SendBuilds(r) /\ ~Answer(r, "refused")
  <2>1. ASSUME NEW a, Answer(r, a) PROVE send'[r].rows = <<>>
    BY <1>0, <2>1 DEF Answer, SendCall
  <2>2. CASE SendArrives(r)
    BY <1>0, <2>2 DEF SendArrives, NoSend
  <2>3. CASE SendLooksUp(r) \/ SendReloads(r)
    <3>1. send' = [send EXCEPT ![r].step = "build"] =>
              send'[r].rows = send[r].rows /\ send'[r].seen = send[r].seen
      BY <1>0 DEF SendCall
    <3>2. SendReloads(r) => send'[r].rows = send[r].rows /\ send'[r].seen = send[r].seen
      BY <1>0 DEF SendReloads, SendCall
    <3>3. QED BY <2>1, <2>3, <3>1, <3>2 DEF SendLooksUp
  <2>4. CASE SendInserts(r)
    <3>1. send' = [send EXCEPT ![r].step = "reload", ![r].rows = <<>>] => send'[r].rows = <<>>
      BY <1>0 DEF SendCall
    <3>2. send' = [send EXCEPT ![r].step = "build"] =>
              send'[r].rows = send[r].rows /\ send'[r].seen = send[r].seen
      BY <1>0 DEF SendCall
    <3>3. QED BY <2>4, <3>1, <3>2 DEF SendInserts
  <2>b. CASE SendBuilds(r)
    BY <2>1, <2>b
  <2>5. CASE SendDeadlocks(r) \/ SendCommits(r) \/ SendFails(r)
    BY <2>1, <2>5 DEF SendDeadlocks, SendCommits, SendFails
  <2>6. QED BY <1>5, <2>2, <2>3, <2>4, <2>b, <2>5 DEF Arriving, SendStep
<1>6. send'[r] = send[r] \/ Arriving(r)
  BY SendsMove, SendMoves DEF sendVars
<1>7. QED BY <1>1, <1>2, <1>3, <1>4, <1>5, <1>6

LEMMA QueueNextKeeps == ASSUME TypeInv, QueueInv, [Next]_vars PROVE QueueInv'
<1>1. ASSUME NEW r \in Requests, NEW n \in DOMAIN send'[r].rows
      PROVE  /\ send'[r].rows[n].status \in {"pending", "skipped"}
             /\ send'[r].rows[n].attempts = 0 /\ send'[r].rows[n].accepted = 0
  <2>1. CASE n \in DOMAIN send[r].rows /\ send'[r].rows[n] = send[r].rows[n]
    BY <2>1 DEF QueueInv
  <2>2. CASE send'[r].rows[n] = BuiltRow(r)
    BY <2>2, GateTyped DEF BuiltRow, NewDelivery
  <2>3. QED BY <1>1, <2>1, <2>2, InsertsNext
<1>2. ASSUME UNCHANGED <<deliveries, work>>
      PROVE  (\A w \in Dispatchers : HoldInv(w)') /\ \A d \in DOMAIN deliveries' : TrueInv(d)'
  BY <1>2 DEF QueueInv, HoldInv, Holding, TrueInv
<1>3. ASSUME QueueNext
      PROVE  (\A w \in Dispatchers : HoldInv(w)') /\ \A d \in DOMAIN deliveries' : TrueInv(d)'
  <2>1. \A v \in Dispatchers : work'[v] = work[v] => HoldInv(v)'
    BY <1>3, RowsKept, SkipKept, HoldKept
  <2>2. \A v \in Dispatchers : HoldInv(v)'
    BY <1>3, <2>1, HoldNext, QueueMoves DEF RowStep, DispatcherStep
  <2>3. QED BY <1>3, <2>2, RowsKept, TrueNext
<1>4. ASSUME NEW r \in Requests, SendCommits(r), UNCHANGED work
      PROVE  (\A w \in Dispatchers : HoldInv(w)') /\ \A d \in DOMAIN deliveries' : TrueInv(d)'
  <2>1. \A d \in DOMAIN deliveries : deliveries'[d] = deliveries[d] /\ SameRow(d)
    BY <1>4, CommitAppends, ChangedRow
  <2>2. \A v \in Dispatchers : HoldInv(v)'
    BY <1>4, <2>1, CommitAppends, HoldKept
  <2>3. ASSUME NEW d \in DOMAIN deliveries' PROVE TrueInv(d)'
    <3>1. CASE d \in DOMAIN deliveries
      BY <2>1, <3>1 DEF QueueInv, TrueInv
    <3>2. CASE d \notin DOMAIN deliveries
      <4>1. PICK n \in DOMAIN send[r].rows : deliveries'[d] = send[r].rows[n]
        BY <1>4, <3>2, CommitAppends
      <4>2. deliveries'[d].status \in {"pending", "skipped"}
        BY <4>1 DEF QueueInv
      <4>3. QED BY <4>2 DEF TrueInv
    <3>3. QED BY <3>1, <3>2
  <2>4. QED BY <2>2, <2>3
<1>5. (\A w \in Dispatchers : HoldInv(w)') /\ \A d \in DOMAIN deliveries' : TrueInv(d)'
  BY <1>2, <1>3, <1>4, RowsMove
<1>6. QED BY <1>1, <1>5 DEF QueueInv

LEMMA QueueInvHolds == Spec => [](TypeInv /\ QueueInv)
<1>1. TypeInv /\ [Next]_vars => TypeInv'
  BY TypeNext
<1>2. TypeInv /\ QueueInv /\ [Next]_vars => QueueInv'
  BY QueueNextKeeps
<1>3. QED BY <1>1, <1>2, TypesInitially, QueueInitially, PTL DEF Spec

\* Late dispatchers overwrite each other's results, and yet a row says "sent"
\* only if a sender took the message, and "failed" only if one refused it or
\* the attempts were used up (dispatch.go deliver, store.go Finish).
THEOREM OutcomeIsTrueCorrect == Spec => []OutcomeIsTrue
<1>1. TypeInv /\ QueueInv => OutcomeIsTrue
  BY DEF QueueInv, TrueInv, OutcomeIsTrue
<1>2. QED BY <1>1, QueueInvHolds, PTL

-----------------------------------------------------------------------------
(* Duplicates.                                                             *)

\* Three things a row has a budget for: dispatchers that hold it, messages, and
\* attempts beyond the allowed ones.  Each lease that runs out adds to all.
Kinds == {"hold", "send", "retry"}

\* A claim of w that may still spend from the budget of its row.
Counts(k, w, e) ==
    /\ k = "send" => ~(work[w].step = "finish" /\ work[w].claim = e /\ work[w].status = "sent")
    /\ k = "retry" => ~(e.attempt >= MaxAttempts)

Group(k, d) == {w \in Dispatchers : \E e \in Holding(w) : e.row = d /\ Counts(k, w, e)}

\* The next claim, where the row can be claimed.
Free(row) == IF row.status = "pending" \/ (row.status = "sending" /\ ~row.leased) THEN 1 ELSE 0

Spent(k, row) ==
    IF k = "send" THEN row.accepted
    ELSE IF k = "retry" /\ row.attempts >= MaxAttempts THEN row.attempts - MaxAttempts + 1 ELSE 0

Given(k, row) == 1 + row.lapses + (IF k = "send" THEN row.lost ELSE 0)

Within(k, d) ==
    Spent(k, deliveries[d]) + Free(deliveries[d]) + Cardinality(Group(k, d))
        <= Given(k, deliveries[d])

Budget == \A k \in Kinds : \A d \in DOMAIN deliveries : Within(k, d)

LEMMA Budgeted ==
    ASSUME NEW row \in Delivery, NEW k
    PROVE  /\ Spent(k, row) \in Nat /\ Free(row) \in Nat /\ Given(k, row) \in Nat
           /\ row.attempts \in Nat /\ row.lapses \in Nat /\ row.lost \in Nat /\ row.accepted \in Nat
           /\ MaxAttempts \in Nat \ {0}
<1>1. /\ row.attempts \in Nat /\ row.lapses \in Nat /\ row.lost \in Nat /\ row.accepted \in Nat
      /\ MaxAttempts \in Nat \ {0}
  BY QueueAssumption DEF Delivery
<1>2. QED BY <1>1 DEF Spent, Free, Given

LEMMA FewerMembers ==
    ASSUME NEW S \in SUBSET Dispatchers, NEW T \in SUBSET Dispatchers, S \subseteq T
    PROVE  /\ Cardinality(S) \in Nat /\ Cardinality(T) \in Nat
           /\ Cardinality(S) <= Cardinality(T)
<1>1. IsFiniteSet(T)
  BY QueueAssumption, FS_Subset
<1>2. QED BY <1>1, FS_Subset, FS_CardinalityType

LEMMA OneMoreMember ==
    ASSUME NEW S \in SUBSET Dispatchers, NEW T \in SUBSET Dispatchers, NEW w \in Dispatchers,
           S \subseteq T \cup {w}
    PROVE  /\ Cardinality(S) \in Nat /\ Cardinality(T) \in Nat
           /\ Cardinality(S) <= Cardinality(T) + 1
<1>1. IsFiniteSet(T)
  BY QueueAssumption, FS_Subset
<1>2. Cardinality(T \cup {w}) \in {Cardinality(T), Cardinality(T) + 1}
  BY <1>1, FS_AddElement
<1>3. Cardinality(S) <= Cardinality(T \cup {w}) /\ Cardinality(S) \in Nat /\ Cardinality(T) \in Nat
  <2>1. T \cup {w} \in SUBSET Dispatchers
    OBVIOUS
  <2>2. QED BY <1>1, <2>1, FewerMembers, FS_CardinalityType
<1>4. QED BY <1>2, <1>3

LEMMA OneMemberLess ==
    ASSUME NEW S \in SUBSET Dispatchers, NEW T \in SUBSET Dispatchers, NEW w \in T,
           S \subseteq T \ {w}
    PROVE  /\ Cardinality(S) \in Nat /\ Cardinality(T) \in Nat
           /\ Cardinality(S) + 1 <= Cardinality(T)
<1>1. IsFiniteSet(T)
  BY QueueAssumption, FS_Subset
<1>2. Cardinality(T \ {w}) = Cardinality(T) - 1 /\ Cardinality(T) \in Nat
  BY <1>1, FS_RemoveElement, FS_CardinalityType
<1>3. Cardinality(S) <= Cardinality(T \ {w}) /\ Cardinality(S) \in Nat
  BY FewerMembers
<1>4. QED BY <1>2, <1>3

LEMMA GroupInDispatchers == \A k, d : Group(k, d) \in SUBSET Dispatchers
  BY DEF Group

LEMMA GroupNextInDispatchers == \A k, d : Group(k, d)' \in SUBSET Dispatchers
  BY DEF Group

\* The row stays, and nobody joins.
LEMMA BudgetStays ==
    ASSUME TypeInv, NEW k \in Kinds, NEW d \in DOMAIN deliveries, Within(k, d),
           deliveries'[d] = deliveries[d], Group(k, d)' \subseteq Group(k, d)
    PROVE  Within(k, d)'
<1>1. deliveries[d] \in Delivery
  BY RowFields
<1>2. /\ Cardinality(Group(k, d)') \in Nat /\ Cardinality(Group(k, d)) \in Nat
      /\ Cardinality(Group(k, d)') <= Cardinality(Group(k, d))
  BY FewerMembers, GroupInDispatchers, GroupNextInDispatchers
<1>3. QED BY <1>1, <1>2, Budgeted DEF Within

LEMMA OthersGroup ==
    ASSUME NEW w \in Dispatchers, DispatcherStep(w), NEW k, NEW d
    PROVE  /\ Group(k, d)' \subseteq Group(k, d) \cup {w}
           /\ w \notin Group(k, d)' => Group(k, d)' \subseteq Group(k, d) \ {w}
  BY DEF DispatcherStep, Group, Holding, Counts

LEMMA BudgetClaim ==
    ASSUME TypeInv, QueueInv, QueueNext, Budget, NEW w \in Dispatchers, DispatcherStep(w),
           NEW S, ClaimsRows(w, S), NEW k \in Kinds, NEW d \in DOMAIN deliveries
    PROVE  Within(k, d)'
<1>0. deliveries[d] \in Delivery /\ Within(k, d) /\ work[w] \in Work
  BY RowFields, Members DEF Budget
<1>1. /\ Holding(w) = {} /\ w \notin Group(k, d)
      /\ Holding(w)' = {[row |-> f, attempt |-> deliveries[f].attempts + 1] : f \in S}
      /\ work'[w].step = "next"
  BY <1>0 DEF ClaimsRows, Holding, Group, Work
<1>2. CASE d \notin S
  <2>1. deliveries'[d] = deliveries[d]
    BY <1>2 DEF ClaimsRows
  <2>2. w \notin Group(k, d)'
    BY <1>1, <1>2 DEF Group
  <2>3. QED BY <1>0, <2>1, <2>2, OthersGroup, BudgetStays
<1>3. CASE d \in S
  <2>1. deliveries'[d] = Grasped(deliveries[d]) /\ Grasped(deliveries[d]) \in Delivery
    BY <1>0, <1>3, RowChanges DEF ClaimsRows
  <2>2. Free(deliveries[d]) = 1
    BY <1>3 DEF ClaimsRows, Claimable, Free
  <2>3. Free(deliveries'[d]) = 0
    BY <1>0, <2>1, AfterGrasp DEF Free
  <2>4. /\ deliveries'[d].attempts = deliveries[d].attempts + 1
        /\ Given(k, deliveries'[d]) = Given(k, deliveries[d])
        /\ deliveries'[d].accepted = deliveries[d].accepted
    BY <1>0, <2>1, AfterGrasp DEF Given
  <2>5. /\ Cardinality(Group(k, d)') \in Nat /\ Cardinality(Group(k, d)) \in Nat
        /\ Cardinality(Group(k, d)') <= Cardinality(Group(k, d)) + 1
    BY OthersGroup, OneMoreMember, GroupInDispatchers, GroupNextInDispatchers
  <2>6. CASE k # "retry" \/ ~(deliveries[d].attempts + 1 >= MaxAttempts)
    <3>1. Spent(k, deliveries'[d]) = Spent(k, deliveries[d])
      BY <1>0, <2>4, <2>6, Budgeted DEF Spent
    <3>2. QED BY <1>0, <2>2, <2>3, <2>4, <2>5, <3>1, Budgeted DEF Within
  <2>7. CASE k = "retry" /\ deliveries[d].attempts + 1 >= MaxAttempts
    <3>1. Spent(k, deliveries'[d]) <= Spent(k, deliveries[d]) + 1
      BY <1>0, <2>1, <2>4, <2>7, Budgeted DEF Spent
    <3>2. \A e \in Holding(w)' : e.row = d => e.attempt = deliveries[d].attempts + 1
      BY <1>1
    <3>3. w \notin Group(k, d)'
      BY <2>7, <3>2 DEF Group, Counts
    <3>4. Cardinality(Group(k, d)') <= Cardinality(Group(k, d))
      BY <3>3, OthersGroup, FewerMembers, GroupInDispatchers, GroupNextInDispatchers
    <3>5. Spent(k, deliveries'[d]) \in Nat /\ Spent(k, deliveries[d]) \in Nat
          /\ Given(k, deliveries[d]) \in Nat
      BY <1>0, <2>1, Budgeted
    <3>6. QED BY <1>0, <2>2, <2>3, <2>4, <2>5, <3>1, <3>4, <3>5 DEF Within
  <2>8. QED BY <2>6, <2>7
<1>4. QED BY <1>2, <1>3

LEMMA BudgetSend ==
    ASSUME TypeInv, QueueInv, QueueNext, Budget, NEW w \in Dispatchers, DispatcherStep(w),
           NEW e \in Claimed, NEW result, SendsRow(w, e, result),
           NEW k \in Kinds, NEW d \in DOMAIN deliveries
    PROVE  Within(k, d)'
<1>0. deliveries[d] \in Delivery /\ Within(k, d) /\ HoldInv(w)
  BY RowFields DEF Budget, QueueInv
<1>1. /\ e \in Holding(w) /\ work[w].step = "next" /\ Holding(w)' = Holding(w)
      /\ work'[w].claim = e /\ work'[w].step = "finish"
      /\ work'[w].status = Outcome(result, e.attempt)
      /\ e.row \in DOMAIN deliveries
  BY DEF SendsRow, Holding
<1>2. w \in Group(k, d)' => w \in Group(k, d)
  BY <1>1 DEF Group, Counts
<1>3. Group(k, d)' \subseteq Group(k, d)
  BY <1>2, OthersGroup
<1>4. CASE d # e.row
  <2>1. deliveries'[d] = deliveries[d]
    <3>1. Tried(deliveries[e.row], result) \in Delivery
      BY <1>1, RowFields, RowChanges
    <3>2. QED BY <1>1, <1>4, <3>1, OneRowAt DEF SendsRow
  <2>2. QED BY <1>0, <1>3, <2>1, BudgetStays
<1>5. CASE d = e.row
  <2>1. deliveries'[d] = Tried(deliveries[d], result) /\ Tried(deliveries[d], result) \in Delivery
    BY <1>0, <1>1, <1>5, RowChanges, OneRowAt DEF SendsRow
  <2>2. /\ deliveries'[d].status = deliveries[d].status
        /\ deliveries'[d].leased = deliveries[d].leased
        /\ deliveries'[d].attempts = deliveries[d].attempts
        /\ deliveries'[d].lapses = deliveries[d].lapses
    BY <1>0, <2>1, AfterTry
  <2>3. /\ deliveries'[d].accepted = IF result \in {"taken", "unanswered"}
                                    THEN deliveries[d].accepted + 1 ELSE deliveries[d].accepted
        /\ deliveries'[d].lost = IF result = "unanswered" THEN deliveries[d].lost + 1
                                ELSE deliveries[d].lost
    <3>1. Tried(deliveries[d], result).accepted =
              IF result \in {"taken", "unanswered"}
              THEN deliveries[d].accepted + 1 ELSE deliveries[d].accepted
      BY <1>0, AfterTry
    <3>2. Tried(deliveries[d], result).lost =
              IF result = "unanswered" THEN deliveries[d].lost + 1 ELSE deliveries[d].lost
      BY <1>0, AfterTry
    <3>3. QED BY <2>1, <3>1, <3>2
  <2>4. Free(deliveries'[d]) = Free(deliveries[d])
    BY <2>2 DEF Free
  <2>5. /\ Cardinality(Group(k, d)') \in Nat /\ Cardinality(Group(k, d)) \in Nat
        /\ Cardinality(Group(k, d)') <= Cardinality(Group(k, d))
    BY <1>3, FewerMembers, GroupInDispatchers, GroupNextInDispatchers
  <2>6. CASE k # "send"
    <3>1. /\ Spent(k, deliveries'[d]) = Spent(k, deliveries[d])
          /\ Given(k, deliveries'[d]) = Given(k, deliveries[d])
      BY <2>2, <2>6 DEF Spent, Given
    <3>2. QED BY <1>0, <2>4, <2>5, <3>1, Budgeted DEF Within
  <2>7. CASE k = "send" /\ result # "taken"
    <3>1. Spent(k, deliveries'[d]) + Given(k, deliveries[d])
              = Spent(k, deliveries[d]) + Given(k, deliveries'[d])
      BY <1>0, <2>2, <2>3, <2>7, Budgeted DEF Spent, Given
    <3>2. Spent(k, deliveries'[d]) \in Nat /\ Given(k, deliveries'[d]) \in Nat
      BY <2>1, Budgeted
    <3>3. QED BY <1>0, <2>4, <2>5, <3>1, <3>2, Budgeted DEF Within
  <2>8. CASE k = "send" /\ result = "taken"
    <3>1. /\ Spent(k, deliveries'[d]) = Spent(k, deliveries[d]) + 1
          /\ Given(k, deliveries'[d]) = Given(k, deliveries[d])
      BY <1>0, <2>2, <2>3, <2>8, Budgeted DEF Spent, Given
    <3>2. w \in Group(k, d)
      BY <1>1, <1>5, <2>8 DEF Group, Counts
    <3>3. work'[w].status = "sent"
      BY <1>1, <2>8, OutcomeTyped
    <3>4. \A f \in Holding(w)' : f.row = d => f = e
      BY <1>0, <1>1, <1>5 DEF HoldInv
    <3>5. w \notin Group(k, d)'
      BY <1>1, <2>8, <3>3, <3>4 DEF Group, Counts
    <3>6. Cardinality(Group(k, d)') + 1 <= Cardinality(Group(k, d))
      BY <3>2, <3>5, OthersGroup, OneMemberLess, GroupInDispatchers, GroupNextInDispatchers
    <3>7. QED BY <1>0, <2>4, <2>5, <3>1, <3>6, Budgeted DEF Within
  <2>9. QED BY <2>6, <2>7, <2>8
<1>6. QED BY <1>4, <1>5

LEMMA BudgetFinish ==
    ASSUME TypeInv, QueueInv, QueueNext, Budget, NEW w \in Dispatchers, DispatcherStep(w),
           FinishesRow(w), NEW k \in Kinds, NEW d \in DOMAIN deliveries
    PROVE  Within(k, d)'
<1> DEFINE e == work[w].claim
<1>0. /\ deliveries[d] \in Delivery /\ Within(k, d) /\ HoldInv(w) /\ work[w] \in Work
      /\ work[w].status \in Statuses
  BY RowFields, Members, StatusTyped DEF Budget, QueueInv
<1>1. /\ work[w].step = "finish" /\ e \in Holding(w) /\ e.row \in DOMAIN deliveries
      /\ Holding(w)' = work[w].batch /\ e \notin work[w].batch
      /\ work'[w].step = "log" /\ work[w].batch \subseteq Holding(w)
  BY <1>0 DEF FinishesRow, Holding, HoldInv, Work
<1>2. w \in Group(k, d)' => w \in Group(k, d)
  BY <1>1 DEF Group, Counts
<1>3. Group(k, d)' \subseteq Group(k, d)
  BY <1>2, OthersGroup
<1>4. CASE d # e.row \/ UNCHANGED deliveries
  <2>1. deliveries'[d] = deliveries[d]
    BY <1>0, <1>1, <1>4, RowFields, RowChanges, OneRowAt DEF FinishesRow
  <2>2. QED BY <1>0, <1>3, <2>1, BudgetStays
<1>5. CASE d = e.row /\ OneRow(d, Finished(deliveries[d], work[w].status))
  <2>1. /\ deliveries'[d] = Finished(deliveries[d], work[w].status)
        /\ Finished(deliveries[d], work[w].status) \in Delivery
    <3>1. Finished(deliveries[d], work[w].status) \in Delivery
      BY <1>0, RowChanges
    <3>2. QED BY <1>5, <3>1, OneRowAt
  <2>2. /\ deliveries'[d].status = work[w].status /\ ~deliveries'[d].leased
        /\ deliveries'[d].attempts = deliveries[d].attempts
        /\ deliveries'[d].lapses = deliveries[d].lapses
        /\ deliveries'[d].accepted = deliveries[d].accepted
        /\ deliveries'[d].lost = deliveries[d].lost
    BY <1>0, <2>1, AfterFinish
  <2>3. /\ Spent(k, deliveries'[d]) = Spent(k, deliveries[d])
        /\ Given(k, deliveries'[d]) = Given(k, deliveries[d])
    BY <2>2 DEF Spent, Given
  <2>4. /\ Cardinality(Group(k, d)') \in Nat /\ Cardinality(Group(k, d)) \in Nat
        /\ Cardinality(Group(k, d)') <= Cardinality(Group(k, d))
    BY <1>3, FewerMembers, GroupInDispatchers, GroupNextInDispatchers
  <2>5. CASE work[w].status # "pending"
    <3>1. work[w].status # "sending"
      BY <1>0 DEF Work
    <3>2. Free(deliveries'[d]) = 0
      BY <2>2, <2>5, <3>1 DEF Free
    <3>3. QED BY <1>0, <2>3, <2>4, <3>2, Budgeted DEF Within
  <2>6. CASE work[w].status = "pending"
    <3>1. w \in Group(k, d)
      BY <1>0, <1>1, <1>5, <2>6 DEF Group, Counts, HoldInv
    <3>2. w \notin Group(k, d)'
      BY <1>0, <1>1, <1>5 DEF Group, HoldInv
    <3>3. Cardinality(Group(k, d)') + 1 <= Cardinality(Group(k, d))
      BY <3>1, <3>2, OthersGroup, OneMemberLess, GroupInDispatchers, GroupNextInDispatchers
    <3>4. Free(deliveries'[d]) <= 1 /\ Free(deliveries'[d]) \in Nat
      BY DEF Free
    <3>5. QED BY <1>0, <2>3, <2>4, <3>3, <3>4, Budgeted DEF Within
  <2>7. QED BY <2>5, <2>6
<1>6. QED BY <1>4, <1>5 DEF FinishesRow

LEMMA BudgetRow ==
    ASSUME TypeInv, Budget, NEW f \in DOMAIN deliveries, RowStep(f),
           NEW k \in Kinds, NEW d \in DOMAIN deliveries
    PROVE  Within(k, d)'
<1>0. /\ deliveries[d] \in Delivery /\ Within(k, d)
      /\ Lapsed(deliveries[f]) \in Delivery /\ Opened(deliveries[f]) \in Delivery
  BY RowFields, RowChanges DEF Budget
<1>1. Group(k, d)' = Group(k, d)
  BY DEF RowStep, Group, Holding, Counts
<1>2. CASE d # f
  BY <1>0, <1>1, <1>2, OneRowAt, BudgetStays DEF RowStep
<1>3. Cardinality(Group(k, d)) \in Nat
  BY FewerMembers, GroupInDispatchers
<1>4. CASE d = f /\ OneRow(d, Opened(deliveries[d]))
  <2>1. deliveries'[d] = Opened(deliveries[d])
    BY <1>0, <1>4, OneRowAt
  <2>3. /\ Spent(k, deliveries'[d]) = Spent(k, deliveries[d])
        /\ Free(deliveries'[d]) = Free(deliveries[d])
        /\ Given(k, deliveries'[d]) = Given(k, deliveries[d])
    BY <1>0, <2>1, AfterOpening DEF Spent, Free, Given
  <2>4. QED BY <1>0, <1>1, <2>3 DEF Within
<1>5. CASE /\ d = f /\ OneRow(d, Lapsed(deliveries[d]))
           /\ deliveries[d].status = "sending" /\ deliveries[d].leased
  <2>1. deliveries'[d] = Lapsed(deliveries[d])
    BY <1>0, <1>5, OneRowAt
  <2>2. /\ deliveries'[d].lapses = deliveries[d].lapses + 1
        /\ deliveries'[d].accepted = deliveries[d].accepted
        /\ deliveries'[d].attempts = deliveries[d].attempts
        /\ deliveries'[d].lost = deliveries[d].lost
    BY <1>0, <2>1, AfterLapse
  <2>3. /\ Spent(k, deliveries'[d]) = Spent(k, deliveries[d])
        /\ Given(k, deliveries'[d]) = Given(k, deliveries[d]) + 1
    BY <1>0, <2>2, Budgeted DEF Spent, Given
  <2>4. Free(deliveries[d]) = 0 /\ Free(deliveries'[d]) \in 0..1
    BY <1>5 DEF Free
  <2>5. QED BY <1>0, <1>1, <1>3, <2>3, <2>4, Budgeted DEF Within
<1>6. QED BY <1>2, <1>4, <1>5 DEF RowStep

LEMMA BudgetQueue ==
    ASSUME TypeInv, QueueInv, Budget, QueueNext, NEW k \in Kinds, NEW d \in DOMAIN deliveries
    PROVE  Within(k, d)'
<1>1. ASSUME NEW w \in Dispatchers, DispatcherStep(w), LetsGo(w) PROVE Within(k, d)'
  <2>1. w \in Group(k, d)' => w \in Group(k, d)
    BY <1>1 DEF LetsGo, Group, Holding, Counts, Idle
  <2>2. Group(k, d)' \subseteq Group(k, d)
    BY <1>1, <2>1, OthersGroup
  <2>3. QED BY <1>1, <2>2, BudgetStays DEF LetsGo, Budget
<1>2. ASSUME NEW w \in Dispatchers, DispatcherStep(w) PROVE Within(k, d)'
  BY <1>1, <1>2, BudgetClaim, BudgetSend, BudgetFinish DEF DispatcherStep
<1>3. QED BY <1>2, BudgetRow, QueueMoves

LEMMA BudgetCommit ==
    ASSUME TypeInv, QueueInv, Budget, NEW r \in Requests, SendCommits(r), UNCHANGED work,
           NEW k \in Kinds, NEW d \in DOMAIN deliveries'
    PROVE  Within(k, d)'
<1>1. Group(k, d)' = Group(k, d)
  BY DEF Group, Holding, Counts
<1>2. CASE d \in DOMAIN deliveries
  <2>1. deliveries'[d] = deliveries[d]
    BY <1>2, CommitAppends
  <2>2. QED BY <1>1, <1>2, <2>1, BudgetStays DEF Budget
<1>3. CASE d \notin DOMAIN deliveries
  <2>1. PICK n \in DOMAIN send[r].rows : deliveries'[d] = send[r].rows[n]
    BY <1>3, CommitAppends
  <2>2. deliveries'[d] \in Delivery
    BY CommitAppends
  <2>3. deliveries'[d].attempts = 0 /\ deliveries'[d].accepted = 0
    BY <2>1 DEF QueueInv
  <2>4. Spent(k, deliveries'[d]) = 0
    BY <2>2, <2>3, Budgeted DEF Spent
  <2>5. Group(k, d) = {}
    BY <1>3, Members DEF Group
  <2>6. Cardinality(Group(k, d)') = 0
    BY <1>1, <2>5, FS_EmptySet
  <2>7. Free(deliveries'[d]) <= 1 /\ Free(deliveries'[d]) \in Nat
    BY DEF Free
  <2>8. Given(k, deliveries'[d]) >= 1 /\ Given(k, deliveries'[d]) \in Nat
    BY <2>2, Budgeted DEF Given
  <2>9. QED BY <2>4, <2>6, <2>7, <2>8 DEF Within
<1>4. QED BY <1>2, <1>3

LEMMA BudgetNext == ASSUME TypeInv, QueueInv, Budget, [Next]_vars PROVE Budget'
<1>1. CASE QueueNext
  BY <1>1, BudgetQueue, RowsKept DEF Budget
<1>2. CASE UNCHANGED work /\ \E r \in Requests : SendCommits(r)
  BY <1>2, BudgetCommit DEF Budget
<1>3. CASE UNCHANGED <<deliveries, work>>
  <2>1. \A k, d : Group(k, d)' = Group(k, d)
    BY <1>3 DEF Group, Holding, Counts
  <2>2. QED BY <1>3, <2>1 DEF Budget, Within
<1>4. QED BY <1>1, <1>2, <1>3, RowsMove

\* The lease that ran out explains the second holder, and with the replies that
\* were lost the second message; a row is tried more often than max_attempts
\* only as often as its lease ran out (store.go Claim, Finish).
THEOREM DuplicatesExplainedCorrect == Spec => []DuplicatesExplained
<1>1. ASSUME TypeInv, Budget, NEW d \in DOMAIN deliveries
      PROVE  LET e == deliveries[d] IN
             /\ e.accepted <= 1 + e.lapses + e.lost
             /\ e.attempts <= MaxAttempts + e.lapses
             /\ Cardinality(Holders(d)) <= 1 + e.lapses
  <2>1. Within("hold", d) /\ Within("send", d) /\ Within("retry", d) /\ deliveries[d] \in Delivery
    BY <1>1, RowFields DEF Budget, Kinds
  <2>2. \A k : Cardinality(Group(k, d)) \in Nat
    BY FewerMembers, GroupInDispatchers
  <2>3. Group("hold", d) = Holders(d)
    BY DEF Group, Counts, Holders
  <2>4. deliveries[d].accepted <= 1 + deliveries[d].lapses + deliveries[d].lost
    BY <2>1, <2>2, Budgeted DEF Within, Spent, Given
  <2>5. Cardinality(Holders(d)) <= 1 + deliveries[d].lapses
    <3>1. Spent("hold", deliveries[d]) = 0 /\ Given("hold", deliveries[d]) = 1 + deliveries[d].lapses
      BY <2>1, Budgeted DEF Spent, Given
    <3>2. QED BY <2>1, <2>2, <2>3, <3>1, Budgeted DEF Within
  <2>6. deliveries[d].attempts <= MaxAttempts + deliveries[d].lapses
    <3>1. Given("retry", deliveries[d]) = 1 + deliveries[d].lapses
      BY <2>1, Budgeted DEF Given
    <3>2. Spent("retry", deliveries[d]) <= 1 + deliveries[d].lapses
      BY <2>1, <2>2, <3>1, Budgeted DEF Within
    <3>3. QED BY <2>1, <3>2, Budgeted DEF Spent
  <2>7. QED BY <2>4, <2>5, <2>6
<1>2. TypeInv /\ Budget => DuplicatesExplained
  BY <1>1 DEF DuplicatesExplained
<1>3. Init => Budget
  BY DEF Init, RequestInit, Budget
<1>4. TypeInv /\ QueueInv /\ Budget /\ [Next]_vars => Budget'
  BY BudgetNext
<1>5. QED BY <1>2, <1>3, <1>4, QueueInvHolds, PTL DEF Spec

-----------------------------------------------------------------------------
(* Preferences, and what was read.                                         *)

\* A row that is not skipped has a sender, and its channel was not switched off
\* before the request arrived.
Allowed(row) ==
    row.status # "skipped" =>
        /\ row.channel \in Wired
        /\ offSince[row.channel] # 0 => offSince[row.channel] > send[row.request].seen

AllowInv ==
    /\ \A c \in Channels : offSince[c] = 0 <=> preferences[c] # "off"
    /\ \A r \in Requests : send[r].seen <= puts
    /\ \A d \in DOMAIN deliveries : Allowed(deliveries[d])
    /\ \A r \in Requests : \A n \in DOMAIN send[r].rows : Allowed(send[r].rows[n])

LEMMA AllowInitially == Init => AllowInv
  BY RequestsAssumption DEF Init, RequestInit, AllowInv, NoSend

LEMMA OpenRows ==
    ASSUME TypeInv, RequestInv, NEW r \in Requests, NEW n \in DOMAIN send[r].rows
    PROVE  send[r].rows[n] \in Delivery /\ send[r].rows[n].request = r
<1>1. send[r].rows \in Seq(Delivery)
  BY DEF TypeInv, SendType, SendCall
<1>2. QED BY <1>1 DEF RequestInv, InsertedInv

LEMMA AllowPuts ==
    ASSUME TypeInv, RequestInv, AllowInv, PutPreferences, UNCHANGED <<send, deliveries>>
    PROVE  AllowInv'
<1>1. PICK items \in Puts :
          /\ preferences' = [c \in Channels |->
                                IF c \in DOMAIN items THEN items[c] ELSE preferences[c]]
          /\ offSince' = [c \in Channels |->
                             IF c \notin DOMAIN items THEN offSince[c]
                             ELSE IF items[c] # "off" THEN 0
                             ELSE IF preferences[c] = "off" THEN offSince[c] ELSE puts + 1]
  BY DEF PutPreferences
<1>2. puts \in Nat /\ puts' = puts + 1
  BY RequestsAssumption DEF PutPreferences, TypeInv, CountType
<1>3. \A c \in Channels : offSince'[c] \in {offSince[c], 0, puts + 1}
  BY <1>1
<1>4. \A c \in Channels : offSince'[c] = 0 <=> preferences'[c] # "off"
  BY <1>1, <1>2 DEF AllowInv
<1>5. \A r \in Requests : send[r].seen <= puts /\ send[r].seen \in Nat
  BY DEF AllowInv, TypeInv, SendType, SendCall
<1>6. ASSUME NEW row \in Delivery, Allowed(row) PROVE Allowed(row)'
  <2>1. row.channel \in Channels /\ row.request \in Requests
    BY DEF Delivery
  <2>2. send[row.request].seen < puts + 1
    BY <1>2, <1>5, <2>1
  <2>3. QED BY <1>3, <1>6, <2>1, <2>2 DEF Allowed
<1>7. \A d \in DOMAIN deliveries : Allowed(deliveries[d])'
  BY <1>6, RowFields DEF AllowInv
<1>8. ASSUME NEW r \in Requests, NEW n \in DOMAIN send[r].rows PROVE Allowed(send[r].rows[n])'
  BY <1>6, OpenRows DEF AllowInv
<1>9. \A r \in Requests : send'[r].seen <= puts'
  BY <1>2, <1>5
<1>10. QED BY <1>4, <1>7, <1>8, <1>9 DEF AllowInv, Allowed

\* A request notes the number of PUTs before it has any row.
LEMMA SeenNext ==
    ASSUME TypeInv, RequestInv, [Next]_vars, NEW r \in Requests
    PROVE  \/ send'[r].seen = send[r].seen
           \/ send[r].step = "new" /\ send'[r].seen = puts /\ send'[r].rows = <<>>
<1>0. send \in [Requests -> SendCall] /\ send[r] \in SendCall
  BY DEF TypeInv, SendType
<1>1. CASE SendArrives(r)
  <2>1. send'[r].seen = puts /\ send'[r].rows = <<>> /\ send[r].step = "new"
    BY <1>0, <1>1 DEF SendArrives, NoSend
  <2>2. QED BY <2>1
<1>2. ASSUME NEW a, Answer(r, a) PROVE send'[r].seen = send[r].seen
  BY <1>0, <1>2 DEF Answer, SendCall
<1>3. CASE SendLooksUp(r) \/ SendInserts(r) \/ SendReloads(r)
  <2>1. send'[r].seen = send[r].seen \/ \E a : Answer(r, a)
    BY <1>0, <1>3 DEF SendLooksUp, SendInserts, SendReloads, SendCall
  <2>2. QED BY <1>2, <2>1
<1>b. CASE SendBuilds(r)
  BY <1>2, <1>b, BuildAppends DEF TypeInv
<1>4. CASE SendDeadlocks(r) \/ SendCommits(r) \/ SendFails(r)
  BY <1>2, <1>4 DEF SendDeadlocks, SendCommits, SendFails
<1>5. send'[r] = send[r] \/ Arriving(r)
  BY SendsMove, SendMoves DEF sendVars
<1>6. QED BY <1>1, <1>3, <1>b, <1>4, <1>5 DEF Arriving, SendStep

\* While the preferences stay, a row stays allowed.
LEMMA AllowedStays ==
    ASSUME TypeInv, RequestInv, [Next]_vars, UNCHANGED preferenceVars,
           NEW d \in DOMAIN deliveries, Allowed(deliveries[d]),
           deliveries'[d].status = "skipped" <=> deliveries[d].status = "skipped",
           deliveries'[d].channel = deliveries[d].channel,
           deliveries'[d].request = deliveries[d].request
    PROVE  Allowed(deliveries[d])'
<1>1. deliveries[d].request \in Requests /\ d \in RowsOf(deliveries[d].request)
  BY RowFields DEF Delivery, RowsOf
<1>2. send[deliveries[d].request].step = "done"
  BY <1>1 DEF RequestInv, StoredInv
<1>3. send'[deliveries[d].request].seen = send[deliveries[d].request].seen
  BY <1>1, <1>2, SeenNext
<1>4. QED BY <1>3 DEF Allowed, preferenceVars

LEMMA GateAllows ==
    ASSUME TypeInv, AllowInv, NEW r \in Requests, NEW c \in Channels, NEW k, NEW active
    PROVE  Allowed(NewDelivery(r, c, k, Gate(active, c)))
<1>1. /\ NewDelivery(r, c, k, Gate(active, c)).status = Gate(active, c)
      /\ NewDelivery(r, c, k, Gate(active, c)).channel = c
  BY DEF NewDelivery
<1>2. Gate(active, c) # "skipped" => c \in Wired /\ offSince[c] = 0
  BY DEF Gate, ChannelOn, OptedOut, AllowInv
<1>3. QED BY <1>1, <1>2 DEF Allowed

LEMMA AllowNext == ASSUME TypeInv, RequestInv, QueueInv, AllowInv, [Next]_vars PROVE AllowInv'
<1>1. CASE PutPreferences
  <2>1. CASE UNCHANGED <<send, deliveries>>
    BY <1>1, <2>1, AllowPuts
  <2>2. UNCHANGED <<send, deliveries>>
    BY <1>1 DEF PutPreferences, sendVars
  <2>3. QED BY <2>1, <2>2
<1>2. CASE UNCHANGED preferenceVars
  <2>1. \A c \in Channels : offSince'[c] = 0 <=> preferences'[c] # "off"
    BY <1>2 DEF AllowInv, preferenceVars
  <2>2. \A r \in Requests : send'[r].seen <= puts'
    <3>1. puts \in Nat
      BY RequestsAssumption DEF TypeInv, CountType
    <3>2. QED BY <1>2, <3>1, SeenNext DEF AllowInv, preferenceVars
  <2>3. ASSUME NEW r \in Requests, NEW n \in DOMAIN send'[r].rows
        PROVE  Allowed(send[r].rows[n])'
    <3>1. CASE /\ n \in DOMAIN send[r].rows /\ send'[r].rows[n] = send[r].rows[n]
               /\ send'[r].seen = send[r].seen
      <4>1. send[r].rows[n].request = r /\ Allowed(send[r].rows[n])
        BY <3>1, OpenRows DEF AllowInv
      <4>2. QED BY <1>2, <3>1, <4>1 DEF Allowed, preferenceVars
    <3>2. CASE /\ SendBuilds(r) /\ send'[r].seen = send[r].seen
               /\ send'[r].rows[n] = BuiltRow(r)
      <4>1. /\ send[r].list[Len(send[r].rows) + 1] \in Channels
            /\ BuiltRow(r).request = r
        BY <3>2, BuiltTyped DEF SendBuilds, TypeInv
      <4>2. Allowed(send'[r].rows[n])
        BY <3>2, <4>1, GateAllows DEF BuiltRow
      <4>3. send'[r].rows[n].request = r
        BY <3>2, <4>1
      <4>4. QED BY <1>2, <3>2, <4>2, <4>3 DEF Allowed, preferenceVars
    <3>3. QED BY <3>1, <3>2, InsertsNext
  <2>4. ASSUME NEW d \in DOMAIN deliveries' PROVE Allowed(deliveries[d])'
    <3>1. CASE UNCHANGED deliveries
      BY <1>2, <2>4, <3>1, AllowedStays DEF AllowInv
    <3>2. CASE QueueNext
      BY <1>2, <2>4, <3>2, RowsKept, SkipKept, AllowedStays DEF AllowInv, SameRow
    <3>3. ASSUME NEW r \in Requests, SendCommits(r) PROVE Allowed(deliveries[d])'
      <4>1. CASE d \in DOMAIN deliveries
        BY <1>2, <3>3, <4>1, CommitAppends, AllowedStays DEF AllowInv
      <4>2. CASE d \notin DOMAIN deliveries
        <5>1. PICK n \in DOMAIN send[r].rows : deliveries'[d] = send[r].rows[n]
          BY <2>4, <3>3, <4>2, CommitAppends
        <5>2. send[r].rows[n].request = r /\ Allowed(send[r].rows[n])
          BY OpenRows DEF AllowInv
        <5>3. send'[r].seen = send[r].seen
          BY <3>3, SeenNext DEF SendCommits
        <5>4. QED BY <1>2, <5>1, <5>2, <5>3 DEF Allowed, preferenceVars
      <4>3. QED BY <4>1, <4>2
    <3>4. QED BY <3>1, <3>2, <3>3, RowsMove
  <2>5. QED BY <2>1, <2>2, <2>3, <2>4 DEF AllowInv
<1>3. QED BY <1>1, <1>2, PreferencesMove

LEMMA AllowInvHolds == Spec => [](TypeInv /\ QueueInv /\ AllowInv)
<1>1. TypeInv /\ [Next]_vars => TypeInv'
  BY TypeNext
<1>2. TypeInv /\ RequestInv /\ [Next]_vars => RequestInv'
  BY RequestNextKeeps
<1>3. TypeInv /\ RequestInv /\ QueueInv /\ AllowInv /\ [Next]_vars => AllowInv'
  BY AllowNext
<1>4. QED BY <1>1, <1>2, <1>3, QueueInvHolds, TypesInitially, RequestsInitially,
             AllowInitially, PTL DEF Spec

\* A channel that was switched off before a request arrived, and has been off
\* since, gets nothing but skipped deliveries from it (policy.go gate).
THEOREM OptOutHonouredCorrect == Spec => []OptOutHonoured
<1>1. AllowInv => OptOutHonoured
  BY DEF AllowInv, Allowed, OptOutHonoured
<1>2. QED BY <1>1, AllowInvHolds, PTL

\* A dispatcher that has tried an in_app row will record "sent".
InAppInv ==
    \A w \in Dispatchers :
        work[w].step = "finish" /\ deliveries[work[w].claim.row].channel = "in_app"
            => work[w].status = "sent"

LEMMA InAppNext ==
    ASSUME TypeInv, QueueInv, AllowInv, InAppInv, [Next]_vars PROVE InAppInv'
<1>0. \A w \in Dispatchers : work[w].step = "finish" => work[w].claim.row \in DOMAIN deliveries
  BY Members DEF Holding
<1>1. ASSUME UNCHANGED work,
             \A d \in DOMAIN deliveries : deliveries'[d].channel = deliveries[d].channel
      PROVE  InAppInv'
  BY <1>0, <1>1 DEF InAppInv
<1>2. ASSUME QueueNext, NEW w \in Dispatchers, DispatcherStep(w) PROVE InAppInv'
  <2>1. \A d \in DOMAIN deliveries : deliveries'[d].channel = deliveries[d].channel
    BY <1>2, RowsKept DEF SameRow
  <2>2. work[w] \in Work
    BY Members
  <2>3. ASSUME work'[w].step = "finish", deliveries'[work'[w].claim.row].channel = "in_app"
        PROVE  work'[w].status = "sent"
    <3>1. ~LetsGo(w) /\ ~FinishesRow(w) /\ \A S : ~ClaimsRows(w, S)
      BY <2>2, <2>3 DEF LetsGo, FinishesRow, ClaimsRows, Idle, Work
    <3>2. PICK e \in Claimed : \E result : SendsRow(w, e, result)
      BY <1>2, <3>1 DEF DispatcherStep
    <3>3. PICK result : SendsRow(w, e, result)
      BY <3>2
    <3>4. /\ e \in Holding(w) /\ e.row \in DOMAIN deliveries
          /\ result \in Results(deliveries[e.row].channel)
          /\ work'[w].claim = e /\ work'[w].status = Outcome(result, e.attempt)
      BY <3>3 DEF SendsRow, Holding
    <3>5. deliveries[e.row].channel = "in_app"
      BY <2>1, <2>3, <3>4
    <3>6. deliveries[e.row].status # "skipped"
      BY <3>4 DEF QueueInv, HoldInv
    <3>7. "in_app" \in Wired
      BY <3>4, <3>5, <3>6 DEF AllowInv, Allowed
    <3>8. result = "taken"
      BY <3>4, <3>5, <3>7 DEF Results
    <3>9. QED BY <3>4, <3>8, OutcomeTyped
  <2>4. ASSUME NEW v \in Dispatchers, v # w, work'[v].step = "finish",
               deliveries'[work'[v].claim.row].channel = "in_app"
        PROVE  work'[v].status = "sent"
    <3>1. work'[v] = work[v]
      BY <1>2, <2>4 DEF DispatcherStep
    <3>2. QED BY <1>0, <2>1, <2>4, <3>1 DEF InAppInv
  <2>5. QED BY <2>3, <2>4 DEF InAppInv
<1>3. CASE QueueNext
  BY <1>1, <1>2, <1>3, QueueMoves, RowsKept DEF RowStep, SameRow
<1>4. CASE UNCHANGED work /\ \E r \in Requests : SendCommits(r)
  BY <1>1, <1>4, CommitAppends
<1>5. CASE UNCHANGED <<deliveries, work>>
  BY <1>1, <1>5
<1>6. QED BY <1>3, <1>4, <1>5, RowsMove

\* A notification that was read stays in the inbox and stays read: a dispatcher
\* that still has the row can only record what it says already (handler.go
\* readHandler, store.go MarkRead and Finish).
THEOREM ReadStaysListedCorrect == Spec => ReadStaysListed
<1> DEFINE Stays == \A d \in DOMAIN deliveries :
               d \in Inbox /\ deliveries[d].read => d \in Inbox' /\ deliveries'[d].read
<1>1. ASSUME TypeInv, QueueInv, InAppInv, [Next]_vars PROVE Stays
  <2>1. SUFFICES ASSUME NEW d \in DOMAIN deliveries, d \in Inbox, deliveries[d].read
                 PROVE  d \in Inbox' /\ deliveries'[d].read
    OBVIOUS
  <2>2. deliveries[d] \in Delivery /\ deliveries[d].status = "sent"
        /\ deliveries[d].channel = "in_app"
    BY <1>1, <2>1, RowFields DEF Inbox
  <2>3. ASSUME deliveries'[d] = deliveries[d], d \in DOMAIN deliveries'
        PROVE  d \in Inbox' /\ deliveries'[d].read
    BY <2>1, <2>2, <2>3 DEF Inbox
  <2>4. CASE QueueNext
    <3>1. d \in DOMAIN deliveries' /\ deliveries'[d].channel = "in_app"
      BY <1>1, <2>2, <2>4, RowsKept DEF SameRow
    <3>2. deliveries'[d].status = "sent" /\ deliveries'[d].read
      <4>1. ASSUME NEW result, deliveries'[d] = Tried(deliveries[d], result)
            PROVE  deliveries'[d].status = "sent" /\ deliveries'[d].read
        BY <2>1, <2>2, <4>1, AfterTry
      <4>2. ASSUME NEW w \in Dispatchers, work[w].step = "finish", work[w].claim.row = d,
                   deliveries'[d] = Finished(deliveries[d], work[w].status)
            PROVE  deliveries'[d].status = "sent" /\ deliveries'[d].read
        <5>1. work[w].status = "sent"
          BY <1>1, <2>2, <4>2 DEF InAppInv
        <5>2. QED BY <2>1, <2>2, <4>2, <5>1, AfterFinish
      <4>3. CASE deliveries'[d] = Lapsed(deliveries[d])
        BY <2>1, <2>2, <4>3, AfterLapse
      <4>4. CASE deliveries'[d] = Opened(deliveries[d])
        BY <2>2, <4>4, AfterOpening
      <4>5. QED BY <1>1, <2>1, <2>2, <2>4, <4>1, <4>2, <4>3, <4>4, RowBecomes
    <3>3. QED BY <3>1, <3>2 DEF Inbox
  <2>5. CASE \E r \in Requests : SendCommits(r)
    BY <1>1, <2>3, <2>5, CommitAppends
  <2>6. CASE UNCHANGED deliveries
    BY <2>3, <2>6
  <2>7. QED BY <1>1, <2>4, <2>5, <2>6, RowsMove
<1>2. Init => InAppInv
  BY DEF Init, RequestInit, InAppInv, Idle
<1>3. TypeInv /\ QueueInv /\ AllowInv /\ InAppInv /\ [Next]_vars => InAppInv'
  BY InAppNext
<1>4. TypeInv /\ QueueInv /\ InAppInv /\ [Next]_vars => [Stays]_vars
  BY <1>1
<1>5. QED BY <1>2, <1>3, <1>4, AllowInvHolds, PTL DEF Spec, ReadStaysListed

=============================================================================
