------------------------ MODULE InboxDeliveryProofs ------------------------
(***************************************************************************)
(* No record is lost between a topic, the retry topic and the dead-letter  *)
(* topic, for every set of subjects and members, every number of attempts  *)
(* and every schedule of crashes and rebalances.                           *)
(***************************************************************************)
EXTENDS InboxConsumerProofs

\* A record of e lies behind position k of the retry topic.
Waiting(e, k) == \E i \in k + 1 .. Len(log["retry"]) : log["retry"][i].event = e

\* The first n records of topic t are done with, or waiting behind position k.
AllSettled(t, n, k) == \A i \in 1..n : Done(log[t][i].event) \/ Waiting(log[t][i].event, k)

\* A member that resumes topic t behind position n loses nothing.
UpTo(t, n) == AllSettled(t, n, IF t = "primary" THEN committed["retry"] ELSE n)

\* The records before, or at the offset commit including, the one in c's hand.
Before(c) == IF pc[c] = "commit" THEN hand[c].at ELSE hand[c].at - 1

Holding(c, t) == pc[c] # "poll" /\ hand[c].topic = t /\ fetched[t] <= hand[c].upto

\* Nothing is lost by resuming at a committed offset, behind what a member has
\* handled, or behind what the owner has polled, unless it has it in hand.
ResumeInv ==
    /\ \A t \in Topics : UpTo(t, committed[t])
    /\ \A c \in Consumers : pc[c] # "poll" => UpTo(hand[c].topic, Before(c))
    /\ \A t \in Topics : UpTo(t, fetched[t]) \/ Holding(owner[t], t)

LEMMA Typed ==
    ASSUME TInv
    PROVE  /\ \A t \in Topics : /\ Len(log[t]) \in Nat
                                /\ committed[t] \in 0..Len(log[t])
                                /\ fetched[t] \in 0..Len(log[t])
                                /\ owner[t] \in Consumers
           /\ pc \in [Consumers -> Steps]
           /\ hand \in [Consumers -> [topic : Topics, at : Nat, upto : Nat]]
           /\ committed \in [Topics -> Nat] /\ fetched \in [Topics -> Nat]
           /\ owner \in [Topics -> Consumers]
  BY DEF TInv, TypeOK, LogOK, GroupOK, MemberOK, InHand, Topics

LEMMA HandTyped ==
    ASSUME TInv, NEW c \in Consumers, pc[c] # "poll"
    PROVE  /\ hand[c].topic \in Topics /\ hand[c].at \in 1..Len(log[hand[c].topic])
           /\ hand[c].at \in 1..hand[c].upto /\ hand[c].upto \in 1..Len(log[hand[c].topic])
           /\ Before(c) \in 0..Len(log[hand[c].topic])
<1>1. hand[c].topic \in Topics /\ hand[c].at \in 1..hand[c].upto /\ hand[c].upto \in Nat
      /\ hand[c].upto <= Len(log[hand[c].topic])
  BY DEF TInv, TypeOK, MemberOK, InHand
<1>2. Len(log[hand[c].topic]) \in Nat
  BY <1>1, Typed
<1>3. QED BY <1>1, <1>2 DEF Before

LEMMA RecordEvent ==
    ASSUME TInv, NEW t \in Topics, NEW i \in 1..Len(log[t])
    PROVE  log[t][i].event \in Events
<1>1. PICK A : log[t] \in Seq(Records(A))
  BY DEF TInv, TypeOK, LogOK, Topics
<1> DEFINE R == Records(A)
<1>2. log[t][i] \in R
  <2>1. log[t] \in Seq(R)
    BY <1>1
  <2> HIDE DEF R
  <2>2. QED BY <2>1
<1>3. QED BY <1>2 DEF Records

\* What is done stays done: rows and dead letters are never deleted and the
\* watermark never goes back.
LEMMA DoneStays == ASSUME TInv, [Next]_vars, NEW e \in Events, Done(e) PROVE Done(e)'
<1>0. /\ watermark \in [Subjects -> 0..MaxVersion] /\ e[1] \in Subjects /\ e[2] \in 1..MaxVersion
      /\ MaxVersion \in Nat
  BY EventParts, InboxConsumerAssumption DEF TInv, TypeOK, StoreOK
<1>1. inbox \subseteq inbox'
  BY OnlyCommits DEF CommitTx
<1>2. watermark'[e[1]] \in Nat /\ watermark[e[1]] <= watermark'[e[1]]
  <2>1. ASSUME NEW c \in Consumers, CommitTx(c)
        PROVE  watermark'[e[1]] \in Nat /\ watermark[e[1]] <= watermark'[e[1]]
    <3>1. Version(c) \in Nat
      BY <2>1, RecordTyped, InboxConsumerAssumption DEF TInv, CommitTx
    <3>2. watermark'[e[1]] = watermark[e[1]] \/ watermark'[e[1]] = NewWatermark(watermark[e[1]], Version(c))
      BY <1>0, <2>1 DEF CommitTx
    <3>3. QED BY <1>0, <3>1, <3>2 DEF NewWatermark
  <2>2. QED BY <1>0, <2>1, OnlyCommits
<1>3. DeadLettered(e) => DeadLettered(e)'
  <2>1. dlq' = dlq \/ \E c \in Consumers : DeadLetter(c)
    <3>1. ASSUME NEW c \in Consumers, ActsAs(c), ~ DeadLetter(c) PROVE dlq' = dlq
      BY <3>1 DEF ActsAs, MemberStep, Transaction, Forward, BeginWithoutRow, BeginWithRow, Stale,
         Insert, Duplicate, Advance, Handled, CommitTx, Reject, DeadlockVictim, Retry,
         CommitOffset, Fail, CommitReplyLost, Crash, Poll, Rebalance, brokerVars
    <3>2. QED BY <3>1, NextSplit, NobodyActs
  <2>2. dlq \in Seq(Records(1..MaxAttempts))
    BY DEF TInv, TypeOK, LogOK
  <2>3. ASSUME NEW c \in Consumers, DeadLetter(c)
        PROVE  Len(dlq') = Len(dlq) + 1 /\ \A i \in 1..Len(dlq) : dlq'[i] = dlq[i]
    BY <2>2, <2>3 DEF DeadLetter
  <2>4. Len(dlq) \in Nat
    BY <2>2
  <2>5. QED BY <2>1, <2>3, <2>4 DEF DeadLettered
<1>4. IsStale(e[2], watermark[e[1]]) => IsStale(e[2], watermark'[e[1]])
  BY <1>0, <1>2 DEF IsStale
<1>5. QED BY <1>1, <1>3, <1>4 DEF Done

LEMMA WaitingStays ==
    ASSUME Grown, TInv, NEW e, NEW k \in Nat, Waiting(e, k) PROVE Waiting(e, k)'
<1>1. Len(log["retry"]) \in Nat /\ Len(log'["retry"]) \in Nat
      /\ Len(log["retry"]) <= Len(log'["retry"])
      /\ \A i \in 1..Len(log["retry"]) : log'["retry"][i] = log["retry"][i]
  BY Typed DEF Grown, Topics
<1>2. PICK i \in k + 1 .. Len(log["retry"]) : log["retry"][i].event = e
  BY DEF Waiting
<1>3. i \in 1..Len(log["retry"]) /\ i \in k + 1 .. Len(log'["retry"])
  BY <1>1
<1>4. QED BY <1>1, <1>2, <1>3 DEF Waiting

LEMMA AllSettledStays ==
    ASSUME TInv, [Next]_vars, NEW t \in Topics, NEW n \in 0..Len(log[t]), NEW k \in Nat,
           AllSettled(t, n, k)
    PROVE  AllSettled(t, n, k)'
<1>0. Grown /\ Len(log[t]) \in Nat
  BY LogGrows, Typed DEF TInv
<1>1. ASSUME NEW i \in 1..n, NEW e, e = log[t][i].event
      PROVE  log'[t][i].event = e /\ (Done(e)' \/ Waiting(e, k)')
  <2>1. i \in 1..Len(log[t]) /\ log'[t][i].event = e
    BY <1>0, <1>1 DEF Grown
  <2>2. e \in Events /\ (Done(e) \/ Waiting(e, k))
    BY <1>1, <2>1, RecordEvent DEF AllSettled
  <2>3. QED BY <1>0, <2>1, <2>2, DoneStays, WaitingStays
<1>2. ASSUME NEW i \in 1..n
      PROVE  Done(log[t][i].event)' \/ Waiting(log[t][i].event, k)'
  <2>1. PICK e : e = log[t][i].event
    OBVIOUS
  <2>2. e = log'[t][i].event /\ (Done(e)' \/ Waiting(e, k)')
    BY <1>1, <2>1
  <2>3. CASE Done(e)'
    BY <2>2, <2>3 DEF Done, DeadLettered
  <2>4. CASE Waiting(e, k)'
    BY <2>2, <2>4 DEF Waiting
  <2>5. QED BY <2>2, <2>3, <2>4
<1>3. QED BY <1>2 DEF AllSettled

LEMMA Weaker ==
    ASSUME NEW t \in Topics, NEW n \in Nat, NEW k \in Nat, NEW m \in 0..n, NEW j \in 0..k,
           AllSettled(t, n, k)
    PROVE  AllSettled(t, m, j)
  BY DEF AllSettled, Waiting

LEMMA UpToFewer ==
    ASSUME TInv, NEW t \in Topics, NEW n \in Nat, NEW m \in 0..n, UpTo(t, n)
    PROVE  UpTo(t, m)
<1>1. committed["retry"] \in Nat
  BY Typed DEF Topics
<1>2. QED BY <1>1, Weaker DEF UpTo

\* The committed offset of a topic changes only when a member commits that of
\* the record in its hand.
LEMMA OnlyMembersCommit ==
    ASSUME TInv, [Next]_vars, NEW t \in Topics
    PROVE  \/ committed'[t] = committed[t]
           \/ \E c \in Consumers : /\ pc[c] = "commit" /\ hand[c].topic = t
                                   /\ committed'[t] = hand[c].at
<1>1. ASSUME NEW c \in Consumers, CommitOffset(c)
      PROVE  \/ committed'[t] = committed[t]
             \/ pc[c] = "commit" /\ hand[c].topic = t /\ committed'[t] = hand[c].at
  BY <1>1, Typed DEF CommitOffset
<1>2. ASSUME NEW c \in Consumers, ActsAs(c), ~ CommitOffset(c) PROVE committed' = committed
  BY <1>2 DEF ActsAs, MemberStep, Transaction, Forward, BeginWithoutRow, BeginWithRow, Stale,
     Insert, Duplicate, Advance, Handled, CommitTx, Reject, DeadlockVictim, Retry, DeadLetter,
     Fail, CommitReplyLost, Crash, Poll, Rebalance, brokerVars
<1>3. QED BY <1>1, <1>2, NextSplit, NobodyActs

\* A retry record that a commit passes over was done with or forwarded again.
LEMMA UpToStays ==
    ASSUME TInv, ResumeInv, [Next]_vars, NEW t \in Topics, NEW n \in 0..Len(log[t]), UpTo(t, n)
    PROVE  UpTo(t, n)'
<1>0. "retry" \in Topics /\ Len(log[t]) \in Nat
  BY Typed DEF Topics
<1>1. CASE t # "primary"
  BY <1>0, <1>1, AllSettledStays DEF UpTo
<1>2. CASE t = "primary"
  <2> DEFINE old == committed["retry"]
  <2>1. old \in Nat /\ AllSettled(t, n, old)
    BY <1>0, <1>2, Typed DEF UpTo
  <2>2. CASE committed'["retry"] = committed["retry"]
    BY <1>0, <1>2, <2>1, <2>2, AllSettledStays DEF UpTo
  <2>3. ASSUME NEW c \in Consumers, pc[c] = "commit", hand[c].topic = "retry",
               committed'["retry"] = hand[c].at
        PROVE UpTo(t, n)'
    <3>1. PICK k \in 1..Len(log["retry"]) : k = hand[c].at
      BY <2>3, HandTyped
    <3>2. AllSettled("retry", k, k)
      BY <2>3, <3>1 DEF ResumeInv, UpTo, Before
    <3>3. AllSettled(t, n, k)
      <4>1. ASSUME NEW i \in 1..n PROVE Done(log[t][i].event) \/ Waiting(log[t][i].event, k)
        <5>1. CASE Done(log[t][i].event)
          BY <5>1
        <5>2. CASE Waiting(log[t][i].event, old)
          <6>1. PICK j \in old + 1 .. Len(log["retry"]) : log["retry"][j].event = log[t][i].event
            BY <5>2 DEF Waiting
          <6>2. CASE j <= k
            <7>1. j \in 1..k
              BY <2>1, <3>1, <6>2
            <7>2. QED BY <3>2, <6>1, <7>1 DEF AllSettled
          <6>3. CASE ~ (j <= k)
            <7>1. j \in k + 1 .. Len(log["retry"])
              BY <1>0, <2>1, <3>1, <6>1, <6>3, Typed
            <7>2. QED BY <6>1, <7>1 DEF Waiting
          <6>4. QED BY <6>2, <6>3
        <5>3. QED BY <2>1, <5>1, <5>2 DEF AllSettled
      <4>2. QED BY <4>1 DEF AllSettled
    <3>4. k \in Nat /\ AllSettled(t, n, k)'
      BY <1>0, <3>1, <3>3, AllSettledStays, Typed
    <3>5. QED BY <1>2, <2>3, <3>1, <3>4 DEF UpTo
  <2>4. QED BY <1>0, <2>2, <2>3, OnlyMembersCommit
<1>3. QED BY <1>1, <1>2

\* What becomes of member d and its record in one step.
Continues(d) ==
    /\ hand'[d] = hand[d]
    /\ pc'[d] = "poll" <=> pc[d] = "poll"
    /\ pc[d] = "commit" => pc'[d] = "commit"
    /\ pc[d] # "poll" /\ pc[d] # "commit" /\ pc'[d] = "commit" =>
           Stale(d) \/ Duplicate(d) \/ Handled(d) \/ Retry(d) \/ DeadLetter(d)

LEMMA MemberMoves ==
    ASSUME TInv, [Next]_vars, NEW d \in Consumers
    PROVE  Continues(d) \/ (\E t \in Topics : Poll(d, t)) \/ CommitOffset(d) \/ Crash(d)
<1>0. TypeOK /\ pc \in [Consumers -> Steps]
  BY Typed DEF TInv
<1>1. CASE NoMemberActs
  BY <1>1, NobodyActs DEF memberVars, Continues
<1>2. ASSUME NEW c \in Consumers, c # d, ActsAs(c) PROVE Continues(d)
  BY <1>0, <1>2, OthersStay DEF Continues
<1>3. ASSUME NEW t \in Topics, Rebalance(d, t) PROVE Continues(d)
  BY <1>3 DEF Rebalance, memberVars, Continues
<1>4. ASSUME Stale(d) \/ Duplicate(d) \/ Handled(d) \/ Retry(d) \/ DeadLetter(d)
      PROVE Continues(d)
  BY <1>0, <1>4 DEF Stale, Duplicate, Handled, CommitTx, Retry, DeadLetter, Goto, Continues
<1>5. ASSUME BeginWithoutRow(d) \/ BeginWithRow(d) \/ Insert(d) \/ Advance(d) \/ Reject(d)
      PROVE Continues(d)
  BY <1>0, <1>5 DEF BeginWithoutRow, BeginWithRow, Insert, Advance, Reject, Goto, Continues
<1>6. ASSUME Fail(d) \/ CommitReplyLost(d) \/ DeadlockVictim(d) PROVE Continues(d)
  <2>1. AfterFailure(d) \in {"retry", "dlq"}
    BY DEF AfterFailure
  <2>2. hand'[d] = hand[d] /\ pc[d] \in InTx \cup {"handle"} /\ pc'[d] \in {"retry", "dlq"}
    BY <1>0, <1>6, <2>1 DEF Fail, CommitReplyLost, CommitTx, DeadlockVictim, Deadlocked,
       HasInserted, Goto, InTx
  <2>3. QED BY <2>2 DEF Continues, InTx
<1>7. QED
  BY <1>1, <1>2, <1>3, <1>4, <1>5, <1>6, NextSplit DEF ActsAs, MemberStep, Transaction, Forward

\* A record that goes to "commit" is done with, or waits at the end of the retry topic.
LEMMA HandledOrWaiting ==
    ASSUME TInv, [Next]_vars, NEW d \in Consumers, NEW e, pc[d] # "poll", e = Event(d),
           Stale(d) \/ Duplicate(d) \/ Handled(d) \/ Retry(d) \/ DeadLetter(d),
           NEW k \in 0..Len(log["retry"])
    PROVE  Done(e)' \/ Waiting(e, k)'
<1>0. e \in Events /\ Len(log["retry"]) \in Nat
  BY RecordTyped, Typed DEF TInv, Topics
<1>1. CASE Stale(d)
  <2>1. Done(e)
    BY <1>1 DEF Stale, Done, Version, Subject
  <2>2. QED BY <1>0, <2>1, DoneStays
<1>2. CASE Duplicate(d)
  <2>1. Done(e)
    BY <1>2 DEF Duplicate, Done
  <2>2. QED BY <1>0, <2>1, DoneStays
<1>3. CASE Handled(d)
  BY <1>3 DEF Handled, CommitTx, Done
<1>4. CASE DeadLetter(d)
  <2>1. dlq \in Seq(Records(1..MaxAttempts)) /\ dlq' = Append(dlq, Failed(d))
    BY <1>4 DEF DeadLetter, TInv, TypeOK, LogOK
  <2>2. Len(dlq') \in 1..Len(dlq') /\ dlq'[Len(dlq')] = Failed(d)
    BY <2>1
  <2>3. dlq'[Len(dlq')].event = e
    BY <2>2 DEF Failed
  <2>4. QED BY <2>2, <2>3 DEF Done, DeadLettered
<1>5. CASE Retry(d)
  <2>1. log["retry"] \in Seq(Records(1..MaxAttempts - 1))
        /\ log'["retry"] = Append(log["retry"], Failed(d))
    BY <1>5 DEF Retry, TInv, TypeOK, LogOK, Topics
  <2>2. Len(log'["retry"]) = Len(log["retry"]) + 1 /\ log'["retry"][Len(log'["retry"])] = Failed(d)
    BY <2>1
  <2>3. log'["retry"][Len(log'["retry"])].event = e
    BY <2>2 DEF Failed
  <2>4. Len(log'["retry"]) \in k + 1 .. Len(log'["retry"])
    BY <1>0, <2>2
  <2>5. QED BY <2>3, <2>4 DEF Waiting
<1>6. QED BY <1>1, <1>2, <1>3, <1>4, <1>5

\* One more record is settled.
LEMMA LastSettled ==
    ASSUME NEW t, NEW at \in Nat, NEW n, n = at - 1, NEW k, NEW e,
           log'[t][at].event = e, Done(e)' \/ Waiting(e, k)',
           \A i \in 1..n : Done(log[t][i].event)' \/ Waiting(log[t][i].event, k)'
    PROVE  AllSettled(t, at, k)'
<1>1. ASSUME NEW i \in 1..at PROVE Done(log[t][i].event)' \/ Waiting(log[t][i].event, k)'
  <2>1. CASE i = at
    BY <2>1 DEF Done, DeadLettered, Waiting
  <2>2. CASE i # at
    <3>1. i \in 1..n
      BY <2>2
    <3>2. QED BY <3>1
  <2>3. QED BY <2>1, <2>2
<1>2. QED BY <1>1 DEF AllSettled

LEMMA CommittedNext ==
    ASSUME TInv, ResumeInv, [Next]_vars, NEW t \in Topics PROVE UpTo(t, committed[t])'
<1>1. PICK n \in 0..Len(log[t]) : n = committed'[t] /\ UpTo(t, n)
  <2>1. CASE committed'[t] = committed[t]
    BY <2>1, Typed DEF ResumeInv
  <2>2. ASSUME NEW c \in Consumers, pc[c] = "commit", hand[c].topic = t, committed'[t] = hand[c].at
        PROVE committed'[t] \in 0..Len(log[t]) /\ UpTo(t, committed'[t])
    BY <2>2, HandTyped DEF ResumeInv, Before
  <2>3. QED BY <2>1, <2>2, OnlyMembersCommit, Typed DEF ResumeInv
<1>2. UpTo(t, n)'
  BY <1>1, UpToStays
<1>3. QED BY <1>1, <1>2 DEF UpTo, AllSettled

LEMMA BeforeNext ==
    ASSUME TInv, ResumeInv, [Next]_vars, NEW d \in Consumers, pc'[d] # "poll"
    PROVE  UpTo(hand[d].topic, Before(d))'
<1> DEFINE Goal == UpTo(hand[d].topic, Before(d))'
<1>0. pc \in [Consumers -> Steps] /\ hand \in [Consumers -> [topic : Topics, at : Nat, upto : Nat]]
  BY Typed
\* The place in the topic stays the same.
<1>1. ASSUME NEW t \in Topics, NEW n \in 0..Len(log[t]), UpTo(t, n),
             hand'[d].topic = t, Before(d)' = n
      PROVE  Goal
  <2>1. UpTo(t, n)'
    BY <1>1, UpToStays
  <2>2. QED BY <1>1, <2>1 DEF UpTo, AllSettled
<1>2. ASSUME NEW t \in Topics, Poll(d, t) PROVE Goal
  <2>1. PICK upto \in fetched[t] + 1 .. Len(log[t]) :
          hand' = [hand EXCEPT ![d] = [topic |-> t, at |-> fetched[t] + 1, upto |-> upto]]
    BY <1>2 DEF Poll
  <2>2. hand'[d].topic = t /\ hand'[d].at = fetched[t] + 1 /\ pc'[d] = "handle"
    BY <1>0, <1>2, <2>1 DEF Poll, Goto
  <2>3. fetched[t] \in 0..Len(log[t]) /\ Len(log[t]) \in Nat
    BY Typed
  <2>4. Before(d)' = fetched[t]
    BY <2>2, <2>3 DEF Before
  <2>5. UpTo(t, fetched[t])
    BY <1>2 DEF Poll, ResumeInv, Holding
  <2>6. QED BY <1>1, <2>2, <2>3, <2>4, <2>5
<1>3. CASE CommitOffset(d)
  <2>1. pc[d] = "commit" /\ pc'[d] = "handle" /\ hand' = [hand EXCEPT ![d].at = @ + 1]
    BY <1>0, <1>3 DEF CommitOffset, Goto
  <2>2. hand'[d].topic = hand[d].topic /\ hand'[d].at = hand[d].at + 1 /\ hand[d].at \in Nat
    BY <1>0, <2>1
  <2>3. Before(d) = hand[d].at /\ Before(d)' = hand[d].at
    BY <2>1, <2>2 DEF Before
  <2>4. hand[d].topic \in Topics /\ Before(d) \in 0..Len(log[hand[d].topic])
        /\ UpTo(hand[d].topic, Before(d))
    BY <2>1, HandTyped DEF ResumeInv
  <2>5. QED BY <1>1, <2>2, <2>3, <2>4
<1>4. CASE Crash(d)
  BY <1>0, <1>4 DEF Crash, Goto
<1>5. CASE Continues(d)
  <2>1. pc[d] # "poll" /\ hand'[d] = hand[d]
    BY <1>5 DEF Continues
  <2>10. PICK t \in Topics : t = hand[d].topic
    BY <2>1, HandTyped
  <2>11. PICK n \in 0..Len(log[t]) : n = Before(d) /\ UpTo(t, n)
    BY <2>1, <2>10, HandTyped DEF ResumeInv
  <2>12. PICK at \in 1..Len(log[t]) : at = hand[d].at
    BY <2>1, <2>10, HandTyped
  <2>2. /\ t = hand[d].topic /\ n = Before(d) /\ UpTo(t, n) /\ at = hand[d].at
        /\ Len(log[t]) \in Nat
    BY <2>10, <2>11, <2>12, Typed
  <2>3. CASE Before(d)' = Before(d)
    BY <1>1, <2>1, <2>2, <2>3
  <2>4. CASE Before(d)' # Before(d)
    <3>1. pc[d] # "commit" /\ pc'[d] = "commit" /\ n = at - 1 /\ Before(d)' = at
      BY <1>5, <2>1, <2>2, <2>4 DEF Before, Continues
    <3>2. Stale(d) \/ Duplicate(d) \/ Handled(d) \/ Retry(d) \/ DeadLetter(d)
      BY <1>5, <2>1, <3>1 DEF Continues
    <3>3. UpTo(t, n)'
      BY <2>2, UpToStays
    <3>4. PICK e : e = Event(d)
      OBVIOUS
    <3>5. log'[t][at].event = e
      BY <2>1, <2>2, <3>4, SameRecord, LogGrows DEF TInv, Event, Record
    <3>6. committed'["retry"] \in 0..Len(log["retry"])
      <4>1. CASE committed'["retry"] = committed["retry"]
        BY <4>1, Typed DEF Topics
      <4>2. ASSUME NEW c \in Consumers, pc[c] = "commit", hand[c].topic = "retry",
                   committed'["retry"] = hand[c].at
            PROVE  committed'["retry"] \in 0..Len(log["retry"])
        BY <4>2, HandTyped
      <4>3. "retry" \in Topics
        BY DEF Topics
      <4>4. QED BY <4>1, <4>2, <4>3, OnlyMembersCommit
    <3>7. CASE t = "primary"
      <4>1. PICK k \in 0..Len(log["retry"]) : k = committed'["retry"]
        BY <3>6
      <4>2. Done(e)' \/ Waiting(e, k)'
        BY <2>1, <3>2, <3>4, HandledOrWaiting
      <4>3. \A i \in 1..n : Done(log[t][i].event)' \/ Waiting(log[t][i].event, k)'
        BY <3>3, <3>7, <4>1 DEF UpTo, AllSettled, Waiting
      <4>4. AllSettled(t, at, k)'
        <5>1. at \in Nat /\ n = at - 1
          BY <2>2, <3>1
        <5>2. QED BY <3>5, <4>2, <4>3, <5>1, LastSettled
      <4>5. QED BY <2>1, <2>2, <3>1, <3>7, <4>1, <4>4 DEF UpTo, AllSettled, Waiting
    <3>8. CASE t # "primary"
      <4>1. t = "retry" /\ at \in 0..Len(log["retry"])
        BY <2>2, <3>8 DEF Topics
      <4>2. Done(e)' \/ Waiting(e, at)'
        BY <2>1, <3>2, <3>4, <4>1, HandledOrWaiting
      <4>3. \A i \in 1..n : Done(log[t][i].event)' \/ Waiting(log[t][i].event, n)'
        BY <3>3, <3>8 DEF UpTo, AllSettled
      <4>4. \A i \in 1..n : Done(log[t][i].event)' \/ Waiting(log[t][i].event, at)'
        <5>1. SUFFICES ASSUME NEW i \in 1..n, NEW x, x = log'[t][i].event, Waiting(x, n)'
                       PROVE  Done(x)' \/ Waiting(x, at)'
          BY <4>3 DEF Waiting, Done, DeadLettered
        <5>2. PICK j \in n + 1 .. Len(log'["retry"]) : log'["retry"][j].event = x
          BY <5>1 DEF Waiting
        <5>3. CASE j = at
          <6>1. x = e
            BY <3>5, <4>1, <5>2, <5>3
          <6>2. QED BY <4>2, <6>1
        <5>4. CASE j # at
          <6>1. j \in at + 1 .. Len(log'["retry"])
            BY <2>2, <3>1, <5>2, <5>4
          <6>2. QED BY <5>2, <6>1 DEF Waiting
        <5>5. QED BY <5>3, <5>4
      <4>5. AllSettled(t, at, at)'
        <5>1. at \in Nat /\ n = at - 1
          BY <2>2, <3>1
        <5>2. QED BY <3>5, <4>2, <4>4, <5>1, LastSettled
      <4>6. QED BY <2>1, <2>2, <3>1, <3>8, <4>5 DEF UpTo, AllSettled
    <3>9. QED BY <3>7, <3>8
  <2>5. QED BY <2>3, <2>4
<1>6. QED BY <1>2, <1>3, <1>4, <1>5, MemberMoves

LEMMA FetchedNext ==
    ASSUME TInv, ResumeInv, [Next]_vars, NEW t \in Topics
    PROVE  UpTo(t, fetched[t])' \/ Holding(owner[t], t)'
<1> DEFINE Goal == UpTo(t, fetched[t])' \/ Holding(owner[t], t)'
<1>0. /\ pc \in [Consumers -> Steps] /\ hand \in [Consumers -> [topic : Topics, at : Nat, upto : Nat]]
      /\ fetched \in [Topics -> Nat] /\ owner \in [Topics -> Consumers]
      /\ committed[t] \in 0..Len(log[t]) /\ fetched[t] \in 0..Len(log[t]) /\ Len(log[t]) \in Nat
  BY Typed
<1>1. ASSUME NEW n \in 0..Len(log[t]), UpTo(t, n), fetched'[t] = n PROVE Goal
  <2>1. UpTo(t, n)'
    BY <1>1, UpToStays
  <2>2. QED BY <1>1, <2>1 DEF UpTo, AllSettled
\* The owner crashes, or the partition moves: back to the committed offset.
<1>2. ASSUME fetched'[t] = committed[t] PROVE Goal
  BY <1>0, <1>1, <1>2 DEF ResumeInv
<1>3. ASSUME NEW c \in Consumers, Poll(c, t) PROVE Goal
  <2>1. PICK upto \in fetched[t] + 1 .. Len(log[t]) :
          /\ fetched' = [fetched EXCEPT ![t] = upto]
          /\ hand' = [hand EXCEPT ![c] = [topic |-> t, at |-> fetched[t] + 1, upto |-> upto]]
    BY <1>3 DEF Poll
  <2>2. owner'[t] = c /\ pc'[c] = "handle" /\ fetched'[t] = upto /\ upto \in Nat
        /\ hand'[c].topic = t /\ hand'[c].upto = upto
    BY <1>0, <1>3, <2>1 DEF Poll, Goto
  <2>3. QED BY <2>2 DEF Holding
\* Otherwise the position stays, and the owner goes on with its records.
<1>4. ASSUME fetched'[t] = fetched[t], owner'[t] = owner[t] PROVE Goal
  <2>1. CASE UpTo(t, fetched[t])
    BY <1>0, <1>1, <1>4, <2>1
  <2>2. ASSUME NEW c \in Consumers, c = owner[t], Holding(c, t) PROVE Goal
    <3>1. pc[c] # "poll" /\ hand[c].topic = t /\ fetched[t] <= hand[c].upto
      BY <2>2 DEF Holding
    <3>2. CASE Continues(c)
      BY <1>4, <2>2, <3>1, <3>2 DEF Continues, Holding
    <3>3. CASE CommitOffset(c) /\ hand[c].at < hand[c].upto
      <4>0. c \in Consumers
        BY <1>0, <2>2
      <4>1. pc'[c] = "handle" /\ hand'[c].topic = hand[c].topic /\ hand'[c].upto = hand[c].upto
        <5>1. pc' = [pc EXCEPT ![c] = "handle"] /\ hand' = [hand EXCEPT ![c].at = @ + 1]
          BY <3>3 DEF CommitOffset, Goto
        <5>2. QED BY <1>0, <4>0, <5>1
      <4>2. QED BY <1>4, <2>2, <3>1, <4>1 DEF Holding
    <3>4. CASE CommitOffset(c) /\ ~ (hand[c].at < hand[c].upto)
      <4>1. hand[c].at = hand[c].upto /\ hand[c].at \in 0..Len(log[t]) /\ pc[c] = "commit"
        BY <3>1, <3>4, HandTyped DEF CommitOffset
      <4>2. UpTo(t, hand[c].at)
        BY <3>1, <4>1 DEF ResumeInv, Before
      <4>3. UpTo(t, fetched[t])
        BY <1>0, <3>1, <4>1, <4>2, UpToFewer
      <4>4. QED BY <1>0, <1>1, <1>4, <4>3
    <3>5. ~ \E u \in Topics : Poll(c, u)
      BY <3>1 DEF Poll
    <3>6. CASE Crash(c)
      <4>1. fetched'[t] = committed[t]
        BY <2>2, <3>6 DEF Crash
      <4>2. QED BY <1>2, <4>1
    <3>7. QED BY <1>0, <2>2, <3>2, <3>3, <3>4, <3>5, <3>6, MemberMoves
  <2>3. QED BY <1>0, <2>1, <2>2 DEF ResumeInv
<1>5. ASSUME NEW c \in Consumers, NEW u \in Topics, Poll(c, u) PROVE Goal
  <2>1. CASE u = t
    BY <1>3, <1>5, <2>1
  <2>2. CASE u # t
    BY <1>0, <1>4, <1>5, <2>2 DEF Poll
  <2>3. QED BY <2>1, <2>2
<1>6. ASSUME NEW c \in Consumers, NEW u \in Topics, Rebalance(c, u) PROVE Goal
  <2>1. CASE u = t
    BY <1>0, <1>2, <1>6, <2>1 DEF Rebalance
  <2>2. CASE u # t
    BY <1>0, <1>4, <1>6, <2>2 DEF Rebalance
  <2>3. QED BY <2>1, <2>2
<1>7. ASSUME NEW c \in Consumers, Crash(c) PROVE Goal
  BY <1>0, <1>2, <1>4, <1>7 DEF Crash
<1>8. ASSUME NEW c \in Consumers,
             CommitOffset(c) \/ Transaction(c) \/ Forward(c) \/ Fail(c) \/ CommitReplyLost(c)
      PROVE UNCHANGED <<fetched, owner>>
  BY <1>8 DEF CommitOffset, Transaction, BeginWithoutRow, BeginWithRow, Stale, Insert, Duplicate,
     Advance, Handled, CommitTx, Forward, Reject, DeadlockVictim, Retry, DeadLetter, Fail,
     CommitReplyLost, brokerVars
<1>9. QED
  BY <1>4, <1>5, <1>6, <1>7, <1>8, NextSplit, NobodyActs DEF ActsAs, MemberStep

LEMMA ResumeNext == TInv /\ ResumeInv /\ [Next]_vars => ResumeInv'
<1> SUFFICES ASSUME TInv, ResumeInv, [Next]_vars PROVE ResumeInv'
  OBVIOUS
<1>1. \A t \in Topics : UpTo(t, committed[t])'
  BY CommittedNext
<1>2. \A d \in Consumers : pc'[d] # "poll" => UpTo(hand[d].topic, Before(d))'
  BY BeforeNext
<1>3. \A t \in Topics : UpTo(t, fetched[t])' \/ Holding(owner[t], t)'
  BY FetchedNext
<1>4. QED BY <1>1, <1>2, <1>3 DEF ResumeInv

LEMMA ResumeInit == Init => ResumeInv
<1> SUFFICES ASSUME Init PROVE ResumeInv
  OBVIOUS
<1>1. \A t \in Topics : committed[t] = 0 /\ fetched[t] = 0
  BY DEF Init
<1>2. \A c \in Consumers : pc[c] = "poll"
  BY DEF Init
<1>3. ASSUME NEW t \in Topics PROVE UpTo(t, 0)
  BY DEF UpTo, AllSettled
<1>4. QED BY <1>1, <1>2, <1>3 DEF ResumeInv

\* topic-catalog.md:71: a committed offset never covers a record whose event is
\* neither done with nor waiting in the retry topic.
THEOREM NothingSkippedCorrect == Spec => []NothingSkipped
<1>1. Init => TInv /\ ResumeInv
  BY InitTyped, ResumeInit
<1>2. (TInv /\ ResumeInv) /\ [Next]_vars => (TInv /\ ResumeInv)'
  BY TInvNext, ResumeNext
<1>3. TInv /\ ResumeInv => NothingSkipped
  <2> SUFFICES ASSUME TInv, ResumeInv, NEW t \in Topics, NEW i \in 1..committed[t]
               PROVE  Done(log[t][i].event) \/ RetryPending(log[t][i].event)
    BY DEF NothingSkipped
  <2>1. AllSettled(t, committed[t], committed["retry"])
    BY DEF ResumeInv, UpTo, Topics
  <2>2. QED BY <2>1 DEF AllSettled, Waiting, RetryPending
<1>4. QED BY <1>1, <1>2, <1>3, PTL DEF Spec

=============================================================================
