------------------------ MODULE InboxConsumerProofs ------------------------
(***************************************************************************)
(* Proofs about the idempotent consumers, for every set of subjects and    *)
(* members and every value of the bounds.                                  *)
(***************************************************************************)
EXTENDS InboxConsumer, TLAPS

\* What a member works on, or has still to work on, is in its topic.
InHand ==
    /\ \A c \in Consumers : pc[c] # "poll" =>
           /\ hand[c].at \in 1..hand[c].upto
           /\ hand[c].upto <= Len(log[hand[c].topic])
    /\ \A t \in Topics : fetched[t] <= Len(log[t]) /\ committed[t] <= Len(log[t])
    /\ \A c \in Consumers : pc[c] = "retry" => Record(c).attempt + 1 < MaxAttempts

TInv == TypeOK /\ InHand

LEMMA EventParts ==
    ASSUME NEW e \in Events
    PROVE  e[1] \in Subjects /\ e[2] \in 1..MaxVersion /\ e = <<e[1], e[2]>>
  BY DEF Events

LEMMA RecordTyped ==
    ASSUME TypeOK, InHand, NEW c \in Consumers, pc[c] # "poll"
    PROVE  /\ hand[c].topic \in Topics /\ hand[c].at \in 1..Len(log[hand[c].topic])
           /\ Record(c) \in Records(0..MaxAttempts - 1)
           /\ hand[c].topic = "primary" => Record(c).attempt = 0
           /\ Event(c) \in Events /\ Subject(c) \in Subjects /\ Version(c) \in 1..MaxVersion
           /\ Event(c) = <<Subject(c), Version(c)>>
<1>1. hand[c].topic \in Topics /\ hand[c].at \in 1..Len(log[hand[c].topic])
  BY DEF TypeOK, MemberOK, InHand, Topics
<1>2. CASE hand[c].topic = "primary"
  <2> DEFINE R == Records({0})
  <2>0. log["primary"] \in Seq(R) /\ hand[c].at \in 1..Len(log["primary"])
        /\ Record(c) = log["primary"][hand[c].at]
    BY <1>1, <1>2 DEF TypeOK, LogOK, Record
  <2>1. Record(c) \in R
    <3> HIDE DEF R
    <3> QED BY <2>0
  <2>2. Record(c).event \in Events /\ Record(c).attempt = 0
    BY <2>1 DEF Records
  <2>3. Record(c) \in Records(0..MaxAttempts - 1)
    BY <2>1, InboxConsumerAssumption DEF Records
  <2>4. QED BY <1>1, <2>2, <2>3, EventParts DEF Event, Subject, Version
<1>3. CASE hand[c].topic = "retry"
  <2> DEFINE R == Records(1..MaxAttempts - 1)
  <2>0. log["retry"] \in Seq(R) /\ hand[c].at \in 1..Len(log["retry"])
        /\ Record(c) = log["retry"][hand[c].at]
    BY <1>1, <1>3 DEF TypeOK, LogOK, Record
  <2>1. Record(c) \in R
    <3> HIDE DEF R
    <3> QED BY <2>0
  <2>2. Record(c).event \in Events
    BY <2>1 DEF Records
  <2>3. Record(c) \in Records(0..MaxAttempts - 1)
    BY <2>1, InboxConsumerAssumption DEF Records
  <2>4. hand[c].topic # "primary"
    BY <1>3
  <2>5. QED BY <1>1, <2>2, <2>3, <2>4, EventParts DEF Event, Subject, Version
<1>4. QED BY <1>1, <1>2, <1>3 DEF Topics

\* log' is log, or log with one more record: old records stay where they are.
Grown == \A t \in Topics : /\ Len(log'[t]) \in Nat /\ Len(log[t]) <= Len(log'[t])
                           /\ \A i \in 1..Len(log[t]) : log'[t][i] = log[t][i]

LEMMA AppendGrows ==
    ASSUME TypeOK, NEW t \in Topics, NEW r, log' = [log EXCEPT ![t] = Append(@, r)]
    PROVE  Grown
<1>1. \A u \in Topics : log[u] \in Seq(Records(0..MaxAttempts))
  <2>1. Records({0}) \subseteq Records(0..MaxAttempts)
        /\ Records(1..MaxAttempts - 1) \subseteq Records(0..MaxAttempts)
    BY InboxConsumerAssumption DEF Records
  <2>2. QED BY <2>1 DEF TypeOK, LogOK, Topics
<1>2. Len(log[t]) \in Nat /\ Len(Append(log[t], r)) = Len(log[t]) + 1
      /\ \A i \in 1..Len(log[t]) : Append(log[t], r)[i] = log[t][i]
  BY <1>1
<1>3. log'[t] = Append(log[t], r) /\ \A u \in Topics \ {t} : log'[u] = log[u]
  BY DEF TypeOK, LogOK
<1>4. QED BY <1>1, <1>2, <1>3 DEF Grown

LEMMA LogGrows == ASSUME TypeOK, [Next]_vars PROVE Grown
<1>1. ASSUME NEW t \in Topics, NEW r, log' = [log EXCEPT ![t] = Append(@, r)] PROVE Grown
  BY <1>1, AppendGrows
<1>2. ASSUME UNCHANGED log PROVE Grown
  <2>1. \A u \in Topics : log[u] \in Seq(Records({0})) \/ log[u] \in Seq(Records(1..MaxAttempts - 1))
    BY DEF TypeOK, LogOK, Topics
  <2>2. QED BY <1>2, <2>1 DEF Grown
<1>3. ASSUME NEW e \in Events, Produce(e) PROVE Grown
  BY <1>1, <1>3 DEF Produce, Topics
<1>4. ASSUME ReplayProduce PROVE Grown
  BY <1>1, <1>4 DEF ReplayProduce, Topics
<1>5. ASSUME NEW c \in Consumers, Retry(c) PROVE Grown
  BY <1>1, <1>5 DEF Retry, Topics
<1>6. ASSUME NEW c \in Consumers, Transaction(c) \/ Reject(c) \/ DeadlockVictim(c) \/ DeadLetter(c)
      PROVE UNCHANGED log
  BY <1>6 DEF Transaction, BeginWithoutRow, BeginWithRow, Stale, Insert, Duplicate, Advance,
     Handled, CommitTx, Reject, DeadlockVictim, DeadLetter, brokerVars
<1>7. ASSUME NEW c \in Consumers, CommitOffset(c) \/ Fail(c) \/ CommitReplyLost(c) \/ Crash(c)
             \/ \E t \in Topics : Poll(c, t) \/ Rebalance(c, t)
      PROVE UNCHANGED log
  BY <1>7 DEF CommitOffset, Fail, CommitReplyLost, CommitTx, Crash, Poll, Rebalance, brokerVars
<1>8. ASSUME ReplayCommit \/ ReplayAgain PROVE UNCHANGED log
  BY <1>8 DEF ReplayCommit, ReplayAgain
<1>9. UNCHANGED vars => UNCHANGED log
  BY DEF vars, brokerVars
<1>10. QED
  BY <1>2, <1>3, <1>4, <1>5, <1>6, <1>7, <1>8, <1>9 DEF Next, MemberStep, Forward

LEMMA AppendTyped ==
    ASSUME NEW R, NEW q \in Seq(R), NEW r \in R
    PROVE  Append(q, r) \in Seq(R) /\ Len(Append(q, r)) = Len(q) + 1
  OBVIOUS

LEMMA LogSame == LogOK /\ UNCHANGED <<log, dlq>> => LogOK'
  BY DEF LogOK

\* One more record in topic t.
LEMMA LogAppended ==
    ASSUME LogOK, UNCHANGED dlq, NEW t \in Topics, NEW r,
           log' = [log EXCEPT ![t] = Append(@, r)],
           t = "primary" => r \in Records({0}) /\ Len(log[t]) < MaxPrimary,
           t = "retry" => r \in Records(1..MaxAttempts - 1)
    PROVE  LogOK'
<1>1. DOMAIN log' = Topics /\ log'[t] = Append(log[t], r)
      /\ \A u \in Topics : u # t => log'[u] = log[u]
  BY DEF LogOK
<1>2. dlq' \in Seq(Records(1..MaxAttempts))
  BY DEF LogOK
<1>3. CASE t = "primary"
  <2>1. log["primary"] \in Seq(Records({0})) /\ log'["retry"] = log["retry"]
    BY <1>1, <1>3 DEF LogOK, Topics
  <2>2. log'["primary"] \in Seq(Records({0})) /\ Len(log'["primary"]) = Len(log["primary"]) + 1
    BY <1>1, <1>3, <2>1, AppendTyped
  <2>3. Len(log'["primary"]) <= MaxPrimary
    BY <1>3, <2>1, <2>2, InboxConsumerAssumption
  <2>4. QED BY <1>1, <1>2, <2>1, <2>2, <2>3 DEF LogOK
<1>4. CASE t = "retry"
  <2>1. log["retry"] \in Seq(Records(1..MaxAttempts - 1)) /\ log'["primary"] = log["primary"]
    BY <1>1, <1>4 DEF LogOK, Topics
  <2>2. log'["retry"] \in Seq(Records(1..MaxAttempts - 1))
    BY <1>1, <1>4, <2>1, AppendTyped
  <2>3. QED BY <1>1, <1>2, <2>1, <2>2 DEF LogOK
<1>5. QED BY <1>3, <1>4 DEF Topics

LEMMA LogNext == ASSUME TInv, [Next]_vars PROVE LogOK'
<1> USE DEF TInv, TypeOK
<1>1. ASSUME NEW e \in Events, Produce(e) PROVE LogOK'
  <2>1. [event |-> e, attempt |-> 0] \in Records({0})
    BY DEF Records
  <2>2. QED BY <1>1, <2>1, LogAppended DEF Produce, Topics
<1>2. ASSUME ReplayProduce PROVE LogOK'
  <2> DEFINE R == Records(1..MaxAttempts)
  <2>1. dlq \in Seq(R) /\ replayed + 1 \in 1..Len(dlq)
    BY <1>2 DEF ReplayProduce, LogOK, GroupOK
  <2>2. dlq[replayed + 1] \in R
    <3> HIDE DEF R
    <3> QED BY <2>1
  <2>3. [event |-> dlq[replayed + 1].event, attempt |-> 0] \in Records({0})
    BY <2>2 DEF Records
  <2>4. QED BY <1>2, <2>3, LogAppended DEF ReplayProduce, Topics
<1>3. ASSUME NEW c \in Consumers, Retry(c) PROVE LogOK'
  <2>1. pc[c] # "poll" /\ Record(c).attempt + 1 < MaxAttempts
    BY <1>3 DEF Retry, InHand
  <2>2. Record(c) \in Records(0..MaxAttempts - 1) /\ Event(c) \in Events
    BY <2>1, RecordTyped
  <2>3. Record(c).attempt + 1 \in 1..MaxAttempts - 1
    BY <2>1, <2>2, InboxConsumerAssumption DEF Records
  <2>4. Failed(c) \in Records(1..MaxAttempts - 1)
    BY <2>2, <2>3 DEF Failed, Records
  <2>5. QED BY <1>3, <2>4, LogAppended DEF Retry, Topics
<1>4. ASSUME NEW c \in Consumers, DeadLetter(c) PROVE LogOK'
  <2>1. Record(c) \in Records(0..MaxAttempts - 1) /\ Event(c) \in Events
    BY <1>4, RecordTyped DEF DeadLetter
  <2>2. Record(c).attempt + 1 \in 1..MaxAttempts
    BY <2>1, InboxConsumerAssumption DEF Records
  <2>3. Failed(c) \in Records(1..MaxAttempts)
    BY <2>1, <2>2 DEF Failed, Records
  <2>4. dlq \in Seq(Records(1..MaxAttempts))
    BY DEF LogOK
  <2>5. dlq' \in Seq(Records(1..MaxAttempts)) /\ UNCHANGED log
    BY <1>4, <2>3, <2>4, AppendTyped DEF DeadLetter
  <2>6. QED BY <2>5 DEF LogOK
<1>5. ASSUME NEW c \in Consumers,
             Transaction(c) \/ Reject(c) \/ DeadlockVictim(c) \/ CommitOffset(c) \/ Fail(c)
             \/ CommitReplyLost(c) \/ Crash(c) \/ \E t \in Topics : Poll(c, t) \/ Rebalance(c, t)
      PROVE UNCHANGED <<log, dlq>>
  BY <1>5 DEF Transaction, BeginWithoutRow, BeginWithRow, Stale, Insert, Duplicate, Advance,
     Handled, CommitTx, Reject, DeadlockVictim, CommitOffset, Fail, CommitReplyLost, Crash,
     Poll, Rebalance, brokerVars
<1>6. ASSUME ReplayCommit \/ ReplayAgain \/ UNCHANGED vars PROVE UNCHANGED <<log, dlq>>
  BY <1>6 DEF ReplayCommit, ReplayAgain, vars, brokerVars
<1>7. QED
  BY <1>1, <1>2, <1>3, <1>4, <1>5, <1>6, LogSame DEF Next, MemberStep, Forward

LEMMA GroupNext == ASSUME TInv, [Next]_vars PROVE GroupOK'
<1> USE DEF TInv, TypeOK, GroupOK
<1>0. \A t \in Topics : Len(log[t]) \in Nat
  BY DEF LogOK, Topics
<1>1. ASSUME NEW c \in Consumers, NEW t \in Topics, Poll(c, t) PROVE GroupOK'
  <2>1. PICK upto \in fetched[t] + 1 .. Len(log[t]) : fetched' = [fetched EXCEPT ![t] = upto]
    BY <1>1 DEF Poll
  <2>2. upto \in Nat
    BY <1>0
  <2>3. fetched' \in [Topics -> Nat]
    BY <2>1, <2>2
  <2>4. QED BY <1>1, <2>3 DEF Poll
<1>2. ASSUME NEW c \in Consumers, NEW t \in Topics, Rebalance(c, t) PROVE GroupOK'
  BY <1>2 DEF Rebalance
<1>3. ASSUME NEW c \in Consumers, CommitOffset(c) PROVE GroupOK'
  <2>1. hand[c].at \in Nat
    BY DEF MemberOK
  <2>2. committed' \in [Topics -> Nat]
    BY <1>3, <2>1 DEF CommitOffset
  <2>3. QED BY <1>3, <2>2 DEF CommitOffset
<1>4. ASSUME NEW c \in Consumers, Crash(c) PROVE GroupOK'
  BY <1>4 DEF Crash
<1>5. ASSUME ReplayProduce \/ ReplayCommit \/ ReplayAgain PROVE GroupOK'
  <2>1. replaying' \in BOOLEAN
    BY <1>5 DEF ReplayProduce, ReplayCommit, ReplayAgain
  <2>2. replayed' \in Nat
    BY <1>5 DEF ReplayProduce, ReplayCommit, ReplayAgain
  <2>3. UNCHANGED <<committed, fetched, owner>>
    BY <1>5 DEF ReplayProduce, ReplayCommit, ReplayAgain
  <2>4. QED BY <2>1, <2>2, <2>3
<1>6. ASSUME NEW c \in Consumers,
             Transaction(c) \/ Forward(c) \/ Fail(c) \/ CommitReplyLost(c)
      PROVE UNCHANGED <<committed, fetched, owner, replayed, replaying>>
  BY <1>6 DEF Transaction, BeginWithoutRow, BeginWithRow, Stale, Insert, Duplicate, Advance,
     Handled, CommitTx, Forward, Reject, DeadlockVictim, Fail, CommitReplyLost, Retry,
     DeadLetter, brokerVars
<1>7. ASSUME (\E e \in Events : Produce(e)) \/ UNCHANGED vars
      PROVE UNCHANGED <<committed, fetched, owner, replayed, replaying>>
  BY <1>7 DEF Produce, vars, brokerVars
<1>8. UNCHANGED <<committed, fetched, owner, replayed, replaying>> => GroupOK'
  OBVIOUS
<1>9. QED
  BY <1>1, <1>2, <1>3, <1>4, <1>5, <1>6, <1>7, <1>8 DEF Next, MemberStep

LEMMA UnlockTyped == ASSUME StoreOK, NEW c \in Consumers, Unlock(c)
                     PROVE rowLock' \in [Subjects -> Consumers \cup {NoOne}]
  BY DEF StoreOK, Unlock

LEMMA StoreNext == ASSUME TInv, [Next]_vars PROVE StoreOK'
<1> USE DEF TInv, TypeOK
<1>1. ASSUME NEW c \in Consumers, CommitTx(c) PROVE StoreOK'
  <2>1. pc[c] # "poll"
    BY <1>1 DEF CommitTx
  <2>2. Event(c) \in Events /\ Subject(c) \in Subjects /\ Version(c) \in 0..MaxVersion
    BY <2>1, RecordTyped
  <2>3. inbox' \subseteq Events
    BY <1>1, <2>2 DEF CommitTx, StoreOK
  <2>4. watermark' \in [Subjects -> 0..MaxVersion]
    BY <1>1, <2>2 DEF CommitTx, StoreOK, NewWatermark
  <2>5. effects' \in [Events -> Nat]
    BY <1>1, <2>2 DEF CommitTx, StoreOK
  <2>6. rowLock' \in [Subjects -> Consumers \cup {NoOne}]
    BY <1>1, UnlockTyped DEF CommitTx
  <2>7. QED BY <2>3, <2>4, <2>5, <2>6 DEF StoreOK
<1>2. ASSUME NEW c \in Consumers, BeginWithRow(c) \/ Advance(c) PROVE StoreOK'
  BY <1>2 DEF BeginWithRow, Advance, StoreOK
<1>3. ASSUME NEW c \in Consumers, Duplicate(c) \/ Fail(c) \/ DeadlockVictim(c) \/ Crash(c)
      PROVE StoreOK'
  <2>1. Unlock(c) /\ UNCHANGED <<inbox, watermark, effects>>
    BY <1>3 DEF Duplicate, Fail, DeadlockVictim, Crash
  <2>2. QED BY <2>1, UnlockTyped DEF StoreOK
<1>4. ASSUME NEW c \in Consumers,
             BeginWithoutRow(c) \/ Stale(c) \/ Insert(c) \/ Reject(c) \/ Retry(c) \/ DeadLetter(c)
             \/ CommitOffset(c) \/ \E t \in Topics : Poll(c, t) \/ Rebalance(c, t)
      PROVE UNCHANGED storeVars
  BY <1>4 DEF BeginWithoutRow, Stale, Insert, Reject, Retry, DeadLetter, CommitOffset, Poll, Rebalance
<1>5. ASSUME (\E e \in Events : Produce(e)) \/ ReplayProduce \/ ReplayCommit \/ ReplayAgain
             \/ UNCHANGED vars
      PROVE UNCHANGED storeVars
  BY <1>5 DEF Produce, ReplayProduce, ReplayCommit, ReplayAgain, vars
<1>6. UNCHANGED storeVars => StoreOK'
  BY DEF StoreOK, storeVars
<1>7. QED
  BY <1>1, <1>2, <1>3, <1>4, <1>5, <1>6
     DEF Next, MemberStep, Transaction, Forward, Handled, CommitReplyLost

LEMMA GotoTyped == ASSUME MemberOK, NEW c \in Consumers, NEW s \in Steps, Goto(c, s)
                   PROVE pc' \in [Consumers -> Steps]
  BY DEF MemberOK, Goto

\* Steps that move one member to another statement of the code.
Moved(c) == \E s \in Steps : Goto(c, s)

LEMMA MemberNext == ASSUME TInv, [Next]_vars PROVE MemberOK'
<1> USE DEF TInv, TypeOK
<1>0. ASSUME NEW c \in Consumers PROVE AfterFailure(c) \in Steps
  BY DEF AfterFailure, Steps
<1>1. faults' \in 0..MaxFaults
  <2>1. faults' = faults \/ Fault
    BY DEF Next, Produce, ReplayProduce, ReplayCommit, ReplayAgain, MemberStep, Transaction,
       Forward, Poll, CommitOffset, BeginWithoutRow, BeginWithRow, Stale, Insert, Duplicate,
       Advance, Handled, Reject, DeadlockVictim, Retry, DeadLetter, Fail, CommitReplyLost,
       Crash, Rebalance, vars
  <2>2. QED BY <2>1, InboxConsumerAssumption DEF Fault, MemberOK
<1>2. ASSUME NEW c \in Consumers, NEW t \in Topics, Poll(c, t) PROVE MemberOK'
  <2>0. Len(log[t]) \in Nat /\ fetched[t] \in Nat
    BY DEF LogOK, GroupOK, Topics
  <2>1. PICK upto \in fetched[t] + 1 .. Len(log[t]) :
          hand' = [hand EXCEPT ![c] = [topic |-> t, at |-> fetched[t] + 1, upto |-> upto]]
    BY <1>2 DEF Poll
  <2>2. [topic |-> t, at |-> fetched[t] + 1, upto |-> upto] \in [topic : Topics, at : Nat, upto : Nat]
    BY <2>0
  <2>3. hand' \in [Consumers -> [topic : Topics, at : Nat, upto : Nat]]
    BY <2>1, <2>2 DEF MemberOK
  <2>4. pc' \in [Consumers -> Steps]
    BY <1>2, GotoTyped DEF Poll, Steps
  <2>5. QED BY <1>1, <1>2, <2>3, <2>4 DEF Poll, MemberOK
<1>3. ASSUME NEW c \in Consumers, CommitOffset(c) \/ Crash(c) PROVE MemberOK'
  <2>1. Nothing \in [topic : Topics, at : Nat, upto : Nat]
    BY DEF Nothing, Topics
  <2>2. hand' \in [Consumers -> [topic : Topics, at : Nat, upto : Nat]]
    BY <1>3, <2>1 DEF CommitOffset, Crash, MemberOK
  <2>3. pc' \in [Consumers -> Steps]
    BY <1>3, GotoTyped DEF CommitOffset, Crash, Steps
  <2>4. QED BY <1>1, <1>3, <2>2, <2>3 DEF CommitOffset, Crash, MemberOK
<1>4. ASSUME NEW c \in Consumers, BeginWithoutRow(c) \/ BeginWithRow(c) PROVE MemberOK'
  <2>1. pc' \in [Consumers -> Steps]
    BY <1>4, GotoTyped DEF BeginWithoutRow, BeginWithRow, Steps
  <2>2. QED BY <1>1, <1>4, <2>1 DEF BeginWithoutRow, BeginWithRow, MemberOK
<1>5. ASSUME NEW c \in Consumers,
             Stale(c) \/ Insert(c) \/ Duplicate(c) \/ Advance(c) \/ Handled(c) \/ Reject(c)
             \/ DeadlockVictim(c) \/ Retry(c) \/ DeadLetter(c) \/ Fail(c) \/ CommitReplyLost(c)
      PROVE MemberOK'
  <2>1. Moved(c)
    BY <1>0, <1>5 DEF Moved, Stale, Insert, Duplicate, Advance, Handled, Reject, DeadlockVictim,
       Retry, DeadLetter, Fail, CommitReplyLost, Steps
  <2>2. pc' \in [Consumers -> Steps]
    BY <2>1, GotoTyped DEF Moved
  <2>3. UNCHANGED <<hand, sawRow>>
    BY <1>5 DEF Stale, Insert, Duplicate, Advance, Handled, CommitTx, Reject, DeadlockVictim,
       Retry, DeadLetter, Fail, CommitReplyLost
  <2>4. QED BY <1>1, <2>2, <2>3 DEF MemberOK
<1>6. ASSUME (\E e \in Events : Produce(e)) \/ ReplayProduce \/ ReplayCommit \/ ReplayAgain
             \/ UNCHANGED vars \/ \E c \in Consumers, t \in Topics : Rebalance(c, t)
      PROVE UNCHANGED memberVars
  BY <1>6 DEF Produce, ReplayProduce, ReplayCommit, ReplayAgain, Rebalance, vars
<1>7. UNCHANGED memberVars => MemberOK'
  BY <1>1 DEF MemberOK, memberVars
<1>8. QED
  BY <1>2, <1>3, <1>4, <1>5, <1>6, <1>7 DEF Next, MemberStep, Transaction, Forward

LEMMA TypeNext == ASSUME TInv, [Next]_vars PROVE TypeOK'
  BY LogNext, GroupNext, StoreNext, MemberNext DEF TypeOK

\* A member's record is the same one as long as it has it in hand.
LEMMA SameRecord ==
    ASSUME TInv, Grown, NEW c \in Consumers, pc[c] # "poll", hand'[c] = hand[c]
    PROVE  /\ hand'[c].upto <= Len(log'[hand'[c].topic])
           /\ Record(c)' = Record(c) /\ Event(c)' = Event(c)
           /\ Subject(c)' = Subject(c) /\ Version(c)' = Version(c)
<1>1. hand[c].topic \in Topics /\ hand[c].at \in 1..Len(log[hand[c].topic])
  BY RecordTyped DEF TInv
<1>2. Record(c)' = Record(c)
  BY <1>1 DEF Grown, Record
<1>3. Len(log[hand[c].topic]) \in Nat /\ hand[c].upto \in Nat
  BY <1>1 DEF TInv, TypeOK, LogOK, MemberOK, Topics
<1>4. hand'[c].upto <= Len(log'[hand'[c].topic])
  BY <1>1, <1>3 DEF Grown, TInv, InHand
<1>5. QED BY <1>2, <1>4 DEF Event, Subject, Version

\* A step of one member leaves what the others do alone.
ActsAs(c) == \/ MemberStep(c) \/ Fail(c) \/ CommitReplyLost(c) \/ Crash(c)
             \/ \E t \in Topics : Rebalance(c, t)

NoMemberActs == \/ \E e \in Events : Produce(e)
                \/ ReplayProduce \/ ReplayCommit \/ ReplayAgain
                \/ UNCHANGED vars

LEMMA NextSplit == [Next]_vars => NoMemberActs \/ \E c \in Consumers : ActsAs(c)
  BY DEF Next, NoMemberActs, ActsAs

LEMMA OthersStay ==
    ASSUME TypeOK, NEW c \in Consumers, NEW d \in Consumers, d # c, ActsAs(c)
    PROVE  pc'[d] = pc[d] /\ hand'[d] = hand[d] /\ sawRow'[d] = sawRow[d]
<1> USE DEF TypeOK, MemberOK, Goto
<1>1. ASSUME NEW t \in Topics, Poll(c, t) \/ Rebalance(c, t)
      PROVE  pc'[d] = pc[d] /\ hand'[d] = hand[d] /\ sawRow'[d] = sawRow[d]
  <2>1. CASE Poll(c, t)
    BY <2>1 DEF Poll
  <2>2. CASE Rebalance(c, t)
    BY <2>2 DEF Rebalance, memberVars
  <2>3. QED BY <1>1, <2>1, <2>2
<1>2. ASSUME CommitOffset(c) \/ Crash(c)
      PROVE  pc'[d] = pc[d] /\ hand'[d] = hand[d] /\ sawRow'[d] = sawRow[d]
  BY <1>2 DEF CommitOffset, Crash
<1>3. ASSUME Transaction(c)
      PROVE  pc'[d] = pc[d] /\ hand'[d] = hand[d] /\ sawRow'[d] = sawRow[d]
  BY <1>3 DEF Transaction, BeginWithoutRow, BeginWithRow, Stale, Insert, Duplicate, Advance,
     Handled, CommitTx
<1>4. ASSUME Forward(c) \/ Fail(c) \/ CommitReplyLost(c)
      PROVE  pc'[d] = pc[d] /\ hand'[d] = hand[d] /\ sawRow'[d] = sawRow[d]
  BY <1>4 DEF Forward, Reject, DeadlockVictim, Retry, DeadLetter, Fail, CommitReplyLost, CommitTx
<1>5. QED BY <1>1, <1>2, <1>3, <1>4 DEF ActsAs, MemberStep

LEMMA NobodyActs ==
    NoMemberActs => /\ UNCHANGED <<storeVars, memberVars, committed, fetched, owner>>
                    /\ dlq' = dlq
  BY DEF NoMemberActs, Produce, ReplayProduce, ReplayCommit, ReplayAgain, vars, brokerVars

LEMMA HandNext ==
    ASSUME TInv, [Next]_vars, NEW d \in Consumers, pc'[d] # "poll"
    PROVE  /\ hand'[d].at \in 1..hand'[d].upto
           /\ hand'[d].upto <= Len(log'[hand'[d].topic])
           /\ pc'[d] = "retry" => Record(d)'.attempt + 1 < MaxAttempts
<1>0. TypeOK /\ InHand /\ TypeOK' /\ Grown
  BY TypeNext, LogGrows DEF TInv
<1>1. \A t \in Topics : Len(log[t]) \in Nat /\ fetched[t] \in Nat
  BY <1>0 DEF TypeOK, LogOK, GroupOK, Topics
<1>2. pc \in [Consumers -> Steps] /\ hand \in [Consumers -> [topic : Topics, at : Nat, upto : Nat]]
  BY <1>0 DEF TypeOK, MemberOK
<1> DEFINE Good == /\ hand'[d].at \in 1..hand'[d].upto
                   /\ hand'[d].upto <= Len(log'[hand'[d].topic])
                   /\ pc'[d] = "retry" => Record(d)'.attempt + 1 < MaxAttempts
<1>3. ASSUME pc[d] # "poll", hand'[d] = hand[d],
             pc'[d] = "retry" => pc[d] = "retry" \/ AfterFailure(d) = "retry"
      PROVE  Good
  <2>1. hand'[d].upto <= Len(log'[hand'[d].topic]) /\ Record(d)' = Record(d)
    BY <1>0, <1>3, SameRecord DEF TInv
  <2>2. hand[d].at \in 1..hand[d].upto
    BY <1>0, <1>3 DEF InHand
  <2>3. AfterFailure(d) = "retry" => Record(d).attempt + 1 < MaxAttempts
    <3>1. Record(d) \in Records(0..MaxAttempts - 1)
      BY <1>0, <1>3, RecordTyped
    <3>2. Record(d).attempt \in Nat
      BY <3>1, InboxConsumerAssumption DEF Records
    <3>3. QED BY <3>2, InboxConsumerAssumption DEF AfterFailure
  <2>4. pc[d] = "retry" => Record(d).attempt + 1 < MaxAttempts
    BY <1>0 DEF InHand
  <2>5. QED BY <1>3, <2>1, <2>2, <2>3, <2>4
<1>4. ASSUME NEW t \in Topics, Poll(d, t) PROVE Good
  <2>1. PICK upto \in fetched[t] + 1 .. Len(log[t]) :
          hand' = [hand EXCEPT ![d] = [topic |-> t, at |-> fetched[t] + 1, upto |-> upto]]
    BY <1>4 DEF Poll
  <2>2. hand'[d] = [topic |-> t, at |-> fetched[t] + 1, upto |-> upto] /\ pc'[d] = "handle"
    BY <1>2, <1>4, <2>1 DEF Poll, Goto
  <2>3. Len(log'[t]) = Len(log[t])
    BY <1>4 DEF Poll
  <2>4. QED BY <1>1, <2>2, <2>3
<1>5. ASSUME CommitOffset(d) PROVE Good
  <2>1. pc[d] = "commit" /\ hand[d].at < hand[d].upto /\ hand' = [hand EXCEPT ![d].at = @ + 1]
        /\ pc'[d] = "handle" /\ log' = log
    BY <1>2, <1>5 DEF CommitOffset, Goto
  <2>2. hand[d].at \in 1..hand[d].upto /\ hand[d].upto <= Len(log[hand[d].topic])
    BY <1>0, <2>1 DEF InHand
  <2>3. hand'[d].at = hand[d].at + 1 /\ hand'[d].upto = hand[d].upto /\ hand'[d].topic = hand[d].topic
    BY <1>2, <2>1
  <2>4. hand[d].at \in Nat /\ hand[d].upto \in Nat
    BY <1>2
  <2>5. QED BY <2>1, <2>2, <2>3, <2>4
<1>6. ASSUME Crash(d) PROVE Good
  BY <1>2, <1>6 DEF Crash, Goto
<1>7. ASSUME Transaction(d) PROVE Good
  <2>1. pc[d] # "poll" /\ hand'[d] = hand[d] /\ pc'[d] # "retry"
    BY <1>2, <1>7 DEF Transaction, BeginWithoutRow, BeginWithRow, Stale, Insert, Duplicate,
       Advance, Handled, CommitTx, Goto
  <2>2. QED BY <1>3, <2>1
<1>8. ASSUME Forward(d) PROVE Good
  <2>1. pc[d] # "poll" /\ hand'[d] = hand[d]
    BY <1>8 DEF Forward, Reject, DeadlockVictim, Deadlocked, HasInserted, Retry, DeadLetter
  <2>2. pc'[d] = "retry" => AfterFailure(d) = "retry"
    BY <1>2, <1>8 DEF Forward, Reject, DeadlockVictim, Retry, DeadLetter, Goto
  <2>3. QED BY <1>3, <2>1, <2>2
<1>9. ASSUME Fail(d) \/ CommitReplyLost(d) PROVE Good
  <2>1. pc[d] # "poll" /\ hand'[d] = hand[d]
    BY <1>9 DEF Fail, CommitReplyLost, CommitTx
  <2>2. pc'[d] = "retry" => AfterFailure(d) = "retry"
    BY <1>2, <1>9 DEF Fail, CommitReplyLost, Goto
  <2>3. QED BY <1>3, <2>1, <2>2
<1>10. ASSUME pc'[d] = pc[d], hand'[d] = hand[d] PROVE Good
  BY <1>3, <1>10
<1>11. ASSUME NEW t \in Topics, Rebalance(d, t) PROVE Good
  BY <1>10, <1>11 DEF Rebalance, memberVars
<1>12. ASSUME NoMemberActs PROVE Good
  BY <1>10, <1>12, NobodyActs DEF memberVars
<1>13. ASSUME NEW c \in Consumers, c # d, ActsAs(c) PROVE Good
  BY <1>0, <1>10, <1>13, OthersStay
<1>14. ASSUME ActsAs(d) PROVE Good
  BY <1>4, <1>5, <1>6, <1>7, <1>8, <1>9, <1>11, <1>14 DEF ActsAs, MemberStep
<1>15. QED BY <1>12, <1>13, <1>14, NextSplit

LEMMA InHandNext == ASSUME TInv, [Next]_vars PROVE InHand'
<1>0. TypeOK /\ InHand /\ TypeOK' /\ Grown
  BY TypeNext, LogGrows DEF TInv
<1>1. \A t \in Topics : /\ Len(log[t]) \in Nat /\ fetched[t] \in Nat /\ committed[t] \in Nat
                         /\ Len(log'[t]) \in Nat /\ Len(log[t]) <= Len(log'[t])
                         /\ fetched[t] <= Len(log[t]) /\ committed[t] <= Len(log[t])
  BY <1>0 DEF TypeOK, LogOK, GroupOK, Topics, Grown, InHand
<1> DEFINE Within == \A t \in Topics : fetched'[t] <= Len(log'[t]) /\ committed'[t] <= Len(log'[t])
<1>2. ASSUME UNCHANGED <<fetched, committed>> PROVE Within
  BY <1>1, <1>2
<1>3. ASSUME NEW c \in Consumers, NEW t \in Topics, Poll(c, t) PROVE Within
  <2>1. PICK upto \in fetched[t] + 1 .. Len(log[t]) : fetched' = [fetched EXCEPT ![t] = upto]
    BY <1>3 DEF Poll
  <2>2. fetched \in [Topics -> Nat] /\ log' = log /\ committed' = committed /\ upto <= Len(log[t])
    BY <1>0, <1>1, <1>3 DEF TypeOK, GroupOK, Poll
  <2>3. QED BY <1>1, <2>1, <2>2
<1>4. ASSUME NEW c \in Consumers, NEW t \in Topics, Rebalance(c, t) PROVE Within
  BY <1>0, <1>1, <1>4 DEF Rebalance, TypeOK, GroupOK
<1>5. ASSUME NEW c \in Consumers, CommitOffset(c) PROVE Within
  <2>1. pc[c] # "poll"
    BY <1>5 DEF CommitOffset
  <2>2. hand[c].topic \in Topics /\ hand[c].at <= Len(log[hand[c].topic])
    BY <1>0, <1>1, <2>1, RecordTyped
  <2>3. QED BY <1>0, <1>1, <1>5, <2>2 DEF CommitOffset, TypeOK, GroupOK
<1>6. ASSUME NEW c \in Consumers, Crash(c) PROVE Within
  BY <1>0, <1>1, <1>6 DEF Crash, TypeOK, GroupOK
<1>7. ASSUME NEW c \in Consumers, Transaction(c) \/ Forward(c) \/ Fail(c) \/ CommitReplyLost(c)
      PROVE UNCHANGED <<fetched, committed>>
  BY <1>7 DEF Transaction, BeginWithoutRow, BeginWithRow, Stale, Insert, Duplicate, Advance,
     Handled, CommitTx, Forward, Reject, DeadlockVictim, Fail, CommitReplyLost, Retry,
     DeadLetter, brokerVars
<1>8. Within
  BY <1>2, <1>3, <1>4, <1>5, <1>6, <1>7, NextSplit, NobodyActs DEF ActsAs, MemberStep
<1>9. QED BY <1>8, HandNext DEF InHand

LEMMA InitTyped == Init => TInv
<1> SUFFICES ASSUME Init PROVE TypeOK /\ InHand
  BY DEF TInv
<1>0. LogOK
  <2>1. ASSUME NEW R PROVE <<>> \in Seq(R) /\ Len(<<>>) = 0
    OBVIOUS
  <2>2. DOMAIN log = Topics /\ log["primary"] = <<>> /\ log["retry"] = <<>> /\ dlq = <<>>
    BY DEF Init, Topics
  <2>3. QED BY <2>1, <2>2, InboxConsumerAssumption DEF LogOK
<1>1. GroupOK
  <2>1. FALSE \in BOOLEAN
    OBVIOUS
  <2>2. committed \in [Topics -> Nat] /\ fetched \in [Topics -> Nat] /\ replayed \in Nat
    BY DEF Init
  <2>3. owner \in [Topics -> Consumers] /\ replaying = FALSE
    BY DEF Init
  <2>4. QED BY <2>1, <2>2, <2>3 DEF GroupOK
<1>2. StoreOK
  BY InboxConsumerAssumption DEF Init, StoreOK
<1>3. MemberOK
  BY InboxConsumerAssumption DEF Init, MemberOK, Nothing, Topics, Steps
<1>4. InHand
  BY DEF Init, InHand, Topics
<1>5. QED BY <1>0, <1>1, <1>2, <1>3, <1>4 DEF TypeOK

\* Every value the variables take is of its type; in particular no record is
\* retried more often than MaxAttempts allows (consumer.go handle).
THEOREM TypeCorrect == Spec => []TypeOK
<1>1. Init => TInv
  BY InitTyped
<1>2. TInv /\ [Next]_vars => TInv'
  BY TypeNext, InHandNext DEF TInv
<1>3. TInv => TypeOK
  BY DEF TInv
<1>4. QED BY <1>1, <1>2, <1>3, PTL DEF Spec

-----------------------------------------------------------------------------
(* What the transactions of inbox.Store.Process guarantee.                 *)

Open == {"advance", "handler"}
InTx == {"insert", "advance", "handler"}

\* A handler's commits are counted by its inbox row.
AppliedInv == \A e \in Events : effects[e] = IF e \in inbox THEN 1 ELSE 0

\* Of the transactions that have inserted an event's inbox row only one is open,
\* and it is the first.
OpenInv ==
    \A c \in Consumers : pc[c] \in Open =>
        /\ Event(c) \notin inbox
        /\ \A d \in Consumers : HasInserted(d, Event(c)) => d = c

\* The handler runs under the lock of the watermark row; a transaction that has
\* found that row holds it from the comparison on.
LockInv ==
    \A c \in Consumers :
        /\ pc[c] = "handler" => rowLock[Subject(c)] = c
        /\ pc[c] \in InTx /\ sawRow[c] =>
              rowLock[Subject(c)] = c /\ watermark[Subject(c)] <= Version(c)

StoreInv == TInv /\ AppliedInv /\ OpenInv /\ LockInv

\* How a member gets to, or stays at, a statement inside the transaction.
LEMMA WithinTx ==
    ASSUME TInv, [Next]_vars, NEW d \in Consumers, pc'[d] \in InTx
    PROVE  /\ pc[d] # "poll" /\ hand'[d] = hand[d]
           /\ \/ pc'[d] = pc[d] /\ sawRow'[d] = sawRow[d]
              \/ BeginWithoutRow(d) \/ BeginWithRow(d) \/ Insert(d) \/ Advance(d)
<1> DEFINE Goal == /\ pc[d] # "poll" /\ hand'[d] = hand[d]
                   /\ \/ pc'[d] = pc[d] /\ sawRow'[d] = sawRow[d]
                      \/ BeginWithoutRow(d) \/ BeginWithRow(d) \/ Insert(d) \/ Advance(d)
<1>0. TypeOK /\ pc \in [Consumers -> Steps]
  BY DEF TInv, TypeOK, MemberOK
<1>1. CASE NoMemberActs
  BY <1>1, NobodyActs DEF memberVars, InTx
<1>2. ASSUME NEW c \in Consumers, c # d, ActsAs(c) PROVE Goal
  BY <1>0, <1>2, OthersStay DEF InTx
<1>3. ASSUME NEW t \in Topics, Rebalance(d, t) PROVE Goal
  BY <1>3 DEF Rebalance, memberVars, InTx
<1>4. ASSUME Forward(d) \/ Fail(d) \/ CommitReplyLost(d) PROVE FALSE
  <2>1. AfterFailure(d) \notin InTx
    BY DEF AfterFailure, InTx
  <2>2. QED BY <1>0, <1>4, <2>1 DEF Forward, Reject, DeadlockVictim, Retry, DeadLetter, Fail,
               CommitReplyLost, Goto, InTx
<1>5. ASSUME CommitOffset(d) \/ Crash(d) \/ Stale(d) \/ Duplicate(d) \/ Handled(d)
             \/ \E t \in Topics : Poll(d, t)
      PROVE FALSE
  BY <1>0, <1>5 DEF CommitOffset, Crash, Stale, Duplicate, Handled, Poll, Goto, InTx
<1>6. ASSUME BeginWithoutRow(d) \/ BeginWithRow(d) \/ Insert(d) \/ Advance(d) PROVE Goal
  BY <1>6 DEF BeginWithoutRow, BeginWithRow, Insert, Advance
<1>7. ASSUME ActsAs(d) PROVE Goal
  BY <1>3, <1>4, <1>5, <1>6, <1>7 DEF ActsAs, MemberStep, Transaction
<1>8. QED BY <1>1, <1>2, <1>7, NextSplit

LEMMA SameEvent ==
    ASSUME TInv, [Next]_vars, NEW d \in Consumers, pc'[d] \in InTx
    PROVE  /\ Event(d)' = Event(d) /\ Subject(d)' = Subject(d) /\ Version(d)' = Version(d)
           /\ Subject(d) \in Subjects /\ Version(d) \in 1..MaxVersion /\ Event(d) \in Events
  BY WithinTx, SameRecord, RecordTyped, LogGrows DEF TInv

\* Only the commit of a transaction changes the tables.
LEMMA OnlyCommits ==
    ASSUME [Next]_vars
    PROVE  \/ UNCHANGED <<inbox, watermark, effects>>
           \/ \E c \in Consumers : CommitTx(c) /\ ActsAs(c) /\ \E s \in Steps \ InTx : Goto(c, s)
<1>1. CASE NoMemberActs
  BY <1>1, NobodyActs DEF storeVars
<1>2. ASSUME NEW c \in Consumers, Handled(c) \/ CommitReplyLost(c), ActsAs(c)
      PROVE CommitTx(c) /\ ActsAs(c) /\ \E s \in Steps \ InTx : Goto(c, s)
  BY <1>2 DEF Handled, CommitReplyLost, AfterFailure, Steps, InTx
<1>3. ASSUME NEW c \in Consumers, ActsAs(c), ~ Handled(c), ~ CommitReplyLost(c)
      PROVE UNCHANGED <<inbox, watermark, effects>>
  <2>1. ASSUME CommitOffset(c) \/ Crash(c) \/ Fail(c) \/ Forward(c)
               \/ \E t \in Topics : Poll(c, t) \/ Rebalance(c, t)
        PROVE UNCHANGED <<inbox, watermark, effects>>
    BY <2>1 DEF CommitOffset, Crash, Fail, Forward, Reject, DeadlockVictim, Retry, DeadLetter,
       Poll, Rebalance, storeVars
  <2>2. ASSUME Transaction(c) PROVE UNCHANGED <<inbox, watermark, effects>>
    BY <1>3, <2>2 DEF Transaction, BeginWithoutRow, BeginWithRow, Stale, Insert, Duplicate,
       Advance, storeVars
  <2>3. QED BY <1>3, <2>1, <2>2 DEF ActsAs, MemberStep
<1>4. QED BY <1>1, <1>2, <1>3, NextSplit

LEMMA AppliedNext == ASSUME StoreInv, [Next]_vars PROVE AppliedInv'
<1>1. CASE UNCHANGED <<inbox, watermark, effects>>
  BY <1>1 DEF StoreInv, AppliedInv
<1>2. ASSUME NEW c \in Consumers, CommitTx(c) PROVE AppliedInv'
  <2>1. Event(c) \in Events /\ Event(c) \notin inbox
    BY <1>2, RecordTyped DEF StoreInv, TInv, OpenInv, Open, CommitTx
  <2>2. effects[Event(c)] = 0 /\ effects \in [Events -> Nat]
    BY <2>1 DEF StoreInv, AppliedInv, TInv, TypeOK, StoreOK
  <2>3. QED BY <1>2, <2>1, <2>2 DEF StoreInv, AppliedInv, CommitTx
<1>3. QED BY <1>1, <1>2, OnlyCommits

LEMMA OpenNext == ASSUME StoreInv, [Next]_vars PROVE OpenInv'
<1>0. TInv /\ OpenInv /\ pc \in [Consumers -> Steps]
  BY DEF StoreInv, TInv, TypeOK, MemberOK
<1> SUFFICES ASSUME NEW c \in Consumers, pc'[c] \in Open
             PROVE  /\ Event(c)' \notin inbox'
                    /\ \A d \in Consumers : pc'[d] \in Open /\ Event(d)' = Event(c)' => d = c
  BY DEF OpenInv, HasInserted, Open
\* An open transaction was open before, or this step is its insert.
<1>1. ASSUME NEW d \in Consumers, pc'[d] \in Open
      PROVE  Event(d)' = Event(d) /\ (pc[d] \in Open \/ Insert(d))
  <2>1. pc'[d] \in InTx
    BY <1>1 DEF Open, InTx
  <2>2. BeginWithoutRow(d) \/ BeginWithRow(d) => pc'[d] = "insert"
    BY <1>0 DEF BeginWithoutRow, BeginWithRow, Goto
  <2>3. Advance(d) => pc[d] \in Open
    BY DEF Advance, Open
  <2>4. QED BY <1>0, <1>1, <2>1, <2>2, <2>3, WithinTx, SameEvent DEF Open
<1>2. ASSUME NEW d \in Consumers, pc[d] \in Open, Event(d) = Event(c) PROVE d = c
  <2>1. CASE pc[c] \in Open
    BY <1>0, <1>2, <2>1 DEF OpenInv, HasInserted, Open
  <2>2. CASE Insert(c)
    BY <1>2, <2>2 DEF Insert, InsertBlocked, HasInserted, Open
  <2>3. QED BY <1>1, <2>1, <2>2
<1>3. ASSUME NEW d \in Consumers, pc'[d] \in Open, Event(d)' = Event(c)' PROVE d = c
  <2>1. Event(d) = Event(c)
    BY <1>1, <1>3
  <2>2. CASE Insert(d)
    <3>1. SUFFICES ASSUME d # c PROVE FALSE
      OBVIOUS
    <3>2. pc[c] = pc'[c]
      BY <1>0, <2>2, <3>1, OthersStay DEF TInv, ActsAs, MemberStep, Transaction
    <3>3. HasInserted(c, Event(d))
      BY <2>1, <3>2 DEF HasInserted, Open
    <3>4. QED BY <2>2, <3>1, <3>3 DEF Insert, InsertBlocked
  <2>3. QED BY <1>1, <1>2, <1>3, <2>1, <2>2
<1>4. Event(c) \notin inbox
  <2>1. Insert(c) => Event(c) \notin inbox
    BY DEF Insert
  <2>2. QED BY <1>0, <1>1, <2>1 DEF OpenInv, Open
<1>5. Event(c)' \notin inbox'
  <2>1. ASSUME NEW d \in Consumers, CommitTx(d), ActsAs(d), \E s \in Steps \ InTx : Goto(d, s)
        PROVE Event(c) \notin inbox'
    <3>1. pc'[d] \notin Open
      BY <1>0, <2>1 DEF Goto, InTx, Open
    <3>2. d # c
      BY <3>1
    <3>3. Event(d) # Event(c)
      BY <1>2, <2>1, <3>2 DEF CommitTx, Open
    <3>4. QED BY <1>4, <2>1, <3>3 DEF CommitTx
  <2>2. QED BY <1>1, <1>4, <2>1, OnlyCommits
<1>6. QED BY <1>3, <1>5

\* A row lock is kept until its transaction ends.
LEMMA LockKept ==
    ASSUME TInv, [Next]_vars, NEW d \in Consumers, NEW s \in Subjects,
           rowLock[s] = d, pc'[d] \in InTx
    PROVE  rowLock'[s] = d
<1>0. /\ rowLock \in [Subjects -> Consumers \cup {NoOne}] /\ pc \in [Consumers -> Steps]
      /\ d # NoOne
  BY InboxConsumerAssumption DEF TInv, TypeOK, StoreOK, MemberOK
<1>1. CASE NoMemberActs
  BY <1>1, NobodyActs DEF storeVars
<1>2. ASSUME NEW c \in Consumers, Unlock(c), c # d PROVE rowLock'[s] = d
  BY <1>2 DEF Unlock
<1>3. ASSUME NEW c \in Consumers, BeginWithRow(c) \/ Advance(c) PROVE rowLock'[s] = d
  BY <1>0, <1>3 DEF BeginWithRow, Advance, AdvanceBlocked
<1>4. ASSUME NEW c \in Consumers, Duplicate(c) \/ CommitTx(c) \/ Fail(c) \/ DeadlockVictim(c) \/ Crash(c)
      PROVE Unlock(c)
  BY <1>4 DEF Duplicate, CommitTx, Fail, DeadlockVictim, Crash
<1>5. ASSUME NEW c \in Consumers,
             BeginWithoutRow(c) \/ Stale(c) \/ Insert(c) \/ Reject(c) \/ Retry(c) \/ DeadLetter(c)
             \/ CommitOffset(c) \/ \E t \in Topics : Poll(c, t) \/ Rebalance(c, t)
      PROVE UNCHANGED rowLock
  BY <1>5 DEF BeginWithoutRow, Stale, Insert, Reject, Retry, DeadLetter, CommitOffset, Poll,
     Rebalance, storeVars
<1>6. ASSUME NEW c \in Consumers, c # d, ActsAs(c) PROVE rowLock'[s] = d
  BY <1>2, <1>3, <1>4, <1>5, <1>6
     DEF ActsAs, MemberStep, Transaction, Forward, Handled, CommitReplyLost
<1>7. CASE BeginWithoutRow(d) \/ BeginWithRow(d) \/ Insert(d) \/ Advance(d)
  BY <1>3, <1>5, <1>7
<1>8. ASSUME ActsAs(d), pc'[d] = pc[d] PROVE rowLock'[s] = d
  <2>1. ASSUME NEW a \in Steps, a # pc[d] PROVE ~ Goto(d, a)
    BY <1>0, <1>8, <2>1 DEF Goto
  <2>2. pc[d] \notin {"poll", "retry", "dlq", "commit", "handle"}
    BY <1>8 DEF InTx
  <2>3. AfterFailure(d) \in {"retry", "dlq"}
    BY DEF AfterFailure
  <2>4. ~ Handled(d) /\ ~ CommitReplyLost(d) /\ ~ Fail(d) /\ ~ DeadlockVictim(d) /\ ~ Crash(d)
        /\ ~ Duplicate(d)
    BY <2>1, <2>2, <2>3 DEF Handled, CommitReplyLost, Fail, DeadlockVictim, Crash, Duplicate, Steps
  <2>5. QED BY <1>3, <1>5, <1>8, <2>4 DEF ActsAs, MemberStep, Transaction, Forward
<1>9. QED BY <1>1, <1>6, <1>7, <1>8, WithinTx, NextSplit

LEMMA LockNext == ASSUME StoreInv, [Next]_vars PROVE LockInv'
<1>0. TInv /\ LockInv /\ pc \in [Consumers -> Steps] /\ sawRow \in [Consumers -> BOOLEAN]
      /\ watermark \in [Subjects -> 0..MaxVersion]
  BY DEF StoreInv, TInv, TypeOK, StoreOK, MemberOK
<1> SUFFICES ASSUME NEW d \in Consumers, pc'[d] \in InTx
             PROVE  /\ pc'[d] = "handler" => rowLock'[Subject(d)'] = d
                    /\ sawRow'[d] => /\ rowLock'[Subject(d)'] = d
                                     /\ watermark'[Subject(d)'] <= Version(d)'
  BY DEF LockInv, InTx
<1>1. /\ Subject(d)' = Subject(d) /\ Version(d)' = Version(d)
      /\ Subject(d) \in Subjects /\ Version(d) \in 1..MaxVersion
  BY <1>0, SameEvent
<1>2. CASE Advance(d)
  <2>1. rowLock'[Subject(d)] = d
    BY <1>0, <1>1, <1>2 DEF Advance, TInv, TypeOK, StoreOK
  <2>2. sawRow'[d] => watermark'[Subject(d)] <= Version(d)
    BY <1>0, <1>2 DEF Advance, LockInv, InTx
  <2>3. QED BY <1>1, <2>1, <2>2
<1>3. CASE BeginWithRow(d)
  <2>1. rowLock'[Subject(d)] = d
    BY <1>0, <1>1, <1>3 DEF BeginWithRow, TInv, TypeOK, StoreOK
  <2>2. watermark'[Subject(d)] <= Version(d)
    BY <1>0, <1>1, <1>3 DEF BeginWithRow, IsStale
  <2>3. QED BY <1>1, <2>1, <2>2
<1>4. CASE BeginWithoutRow(d)
  BY <1>0, <1>4 DEF BeginWithoutRow, Goto
\* The others leave the row alone while d has its lock.
<1>5. ASSUME rowLock[Subject(d)] = d, watermark[Subject(d)] <= Version(d)
      PROVE  watermark'[Subject(d)] <= Version(d)
  <2>1. ASSUME NEW c \in Consumers, CommitTx(c), ActsAs(c), \E s \in Steps \ InTx : Goto(c, s)
        PROVE watermark'[Subject(d)] = watermark[Subject(d)]
    <3>1. c # d
      BY <1>0, <2>1 DEF Goto
    <3>2. rowLock[Subject(c)] = c
      BY <1>0, <2>1 DEF LockInv, CommitTx
    <3>3. Subject(c) # Subject(d)
      BY <1>5, <3>1, <3>2
    <3>4. QED BY <1>0, <1>1, <2>1, <3>3 DEF CommitTx
  <2>2. QED BY <1>5, <2>1, OnlyCommits
<1>6. CASE pc'[d] = pc[d] /\ sawRow'[d] = sawRow[d]
  <2>1. rowLock[Subject(d)] = d => rowLock'[Subject(d)] = d
    BY <1>0, <1>1, LockKept
  <2>2. QED BY <1>0, <1>1, <1>5, <1>6, <2>1 DEF LockInv
<1>7. CASE Insert(d)
  <2>1. rowLock[Subject(d)] = d => rowLock'[Subject(d)] = d
    BY <1>0, <1>1, LockKept
  <2>2. pc[d] = "insert" /\ sawRow'[d] = sawRow[d] /\ pc'[d] = "advance"
    BY <1>0, <1>7 DEF Insert, Goto
  <2>3. sawRow[d] => rowLock[Subject(d)] = d /\ watermark[Subject(d)] <= Version(d)
    BY <1>0, <2>2 DEF LockInv, InTx
  <2>4. QED BY <1>1, <1>5, <2>1, <2>2, <2>3
<1>8. QED BY <1>0, <1>2, <1>3, <1>4, <1>6, <1>7, WithinTx

LEMMA TInvNext == TInv /\ [Next]_vars => TInv'
  BY TypeNext, InHandNext DEF TInv

LEMMA StoreInvHolds == Spec => []StoreInv
<1>1. Init => TInv
  BY InitTyped
<1>2. Init => AppliedInv /\ OpenInv /\ LockInv
  <2>1. Init => AppliedInv
    BY DEF Init, AppliedInv
  <2>2. Init => \A c \in Consumers : pc[c] = "poll"
    BY DEF Init
  <2>3. QED BY <2>1, <2>2 DEF OpenInv, LockInv, Open, InTx
<1>3. StoreInv /\ [Next]_vars => StoreInv'
  BY TInvNext, AppliedNext, OpenNext, LockNext DEF StoreInv
<1>4. QED BY <1>1, <1>2, <1>3, PTL DEF Spec, StoreInv

\* inbox/store.go Process: whoever delivers an event, and however often, at most
\* one execution of its handler commits.
THEOREM AppliedOnceCorrect == Spec => []AppliedOnce
<1>1. StoreInv => AppliedOnce
  <2>1. AppliedInv => AppliedOnce
    BY DEF AppliedInv, AppliedOnce
  <2>2. QED BY <2>1 DEF StoreInv
<1>2. QED BY <1>1, StoreInvHolds, PTL

LEMMA WatermarkNext == ASSUME TInv, WatermarkIsHighest, [Next]_vars PROVE WatermarkIsHighest'
<1>1. CASE UNCHANGED <<inbox, watermark, effects>>
  BY <1>1 DEF WatermarkIsHighest, Versions
<1>2. ASSUME NEW c \in Consumers, CommitTx(c) PROVE WatermarkIsHighest'
  <2>0. pc[c] # "poll"
    BY <1>2 DEF CommitTx
  <2>1. Event(c) = <<Subject(c), Version(c)>> /\ Subject(c) \in Subjects /\ Version(c) \in 1..MaxVersion
    BY <2>0, RecordTyped DEF TInv
  <2>2. watermark \in [Subjects -> 0..MaxVersion] /\ MaxVersion \in Nat
    BY InboxConsumerAssumption DEF TInv, TypeOK, StoreOK
  <2>3. \A s \in Subjects : Versions(s)' = Versions(s) \cup (IF s = Subject(c) THEN {Version(c)} ELSE {})
    BY <1>2, <2>1 DEF CommitTx, Versions
  <2> SUFFICES ASSUME NEW s \in Subjects
               PROVE  /\ watermark'[s] > 0 => watermark'[s] \in Versions(s)'
                      /\ \A v \in Versions(s)' : v <= watermark'[s]
    BY DEF WatermarkIsHighest
  <2>4. /\ watermark[s] > 0 => watermark[s] \in Versions(s)
        /\ \A v \in Versions(s) : v <= watermark[s]
        /\ Versions(s) \subseteq 1..MaxVersion
    BY DEF WatermarkIsHighest, Versions
  <2>5. CASE s = Subject(c)
    <3>1. watermark'[s] = IF watermark[s] < Version(c) THEN Version(c) ELSE watermark[s]
      BY <1>2, <2>2, <2>5 DEF CommitTx, NewWatermark
    <3>2. Versions(s)' = Versions(s) \cup {Version(c)}
      BY <2>3, <2>5
    <3>3. watermark[s] \in Nat /\ Version(c) \in Nat /\ \A v \in Versions(s) : v \in Nat
      BY <2>1, <2>2, <2>4
    <3>4. CASE watermark[s] < Version(c)
      BY <2>4, <3>1, <3>2, <3>3, <3>4
    <3>5. CASE ~ (watermark[s] < Version(c))
      <4>1. watermark[s] > 0
        BY <2>1, <2>2, <3>5
      <4>2. QED BY <2>4, <3>1, <3>2, <3>3, <3>5, <4>1
    <3>6. QED BY <3>4, <3>5
  <2>6. CASE s # Subject(c)
    BY <1>2, <2>2, <2>3, <2>4, <2>6 DEF CommitTx
  <2>7. QED BY <2>5, <2>6
<1>3. QED BY <1>1, <1>2, OnlyCommits

\* inbox/store.go advanceWatermark: the watermark is the highest version applied.
THEOREM WatermarkIsHighestCorrect == Spec => []WatermarkIsHighest
<1>1. Init => WatermarkIsHighest
  <2>1. ASSUME Init, NEW s \in Subjects PROVE ~ (watermark[s] > 0) /\ Versions(s) = {}
    BY <2>1 DEF Init, Versions
  <2>2. QED BY <2>1, Zenon DEF WatermarkIsHighest
<1>2. Init => TInv
  BY InitTyped
<1>3. TInv /\ WatermarkIsHighest /\ [Next]_vars => TInv' /\ WatermarkIsHighest'
  BY TInvNext, WatermarkNext
<1>4. QED BY <1>1, <1>2, <1>3, PTL DEF Spec

\* inbox/store.go rejectStale: only a transaction that found no watermark row
\* applies a version below the watermark.
THEOREM OvertakenOnlyAtFirstCorrect == Spec => OvertakenOnlyAtFirst
<1> DEFINE Overtaken == \A e \in inbox' \ inbox :
                e[2] < watermark[e[1]] =>
                    \E c \in Consumers : pc[c] = "handler" /\ Event(c) = e /\ ~ sawRow[c]
<1>1. StoreInv /\ [Next]_vars => Overtaken
  <2> SUFFICES ASSUME StoreInv, [Next]_vars, NEW e \in inbox' \ inbox, e[2] < watermark[e[1]]
               PROVE  \E c \in Consumers : pc[c] = "handler" /\ Event(c) = e /\ ~ sawRow[c]
    OBVIOUS
  <2>1. PICK c \in Consumers : CommitTx(c)
    BY OnlyCommits
  <2>2. pc[c] = "handler" /\ Event(c) = e
    BY <2>1 DEF CommitTx
  <2>3. Version(c) < watermark[Subject(c)] /\ Version(c) \in Nat /\ watermark[Subject(c)] \in Nat
    BY <2>2, RecordTyped, InboxConsumerAssumption
       DEF Version, Subject, StoreInv, TInv, TypeOK, StoreOK
  <2>4. ~ sawRow[c]
    BY <2>2, <2>3 DEF StoreInv, LockInv, InTx
  <2>5. QED BY <2>2, <2>4
<1>2. StoreInv /\ [Next]_vars => [Overtaken]_vars
  BY <1>1
<1>3. Spec => [][Overtaken]_vars
  BY <1>2, StoreInvHolds, PTL DEF Spec
<1>4. QED BY <1>3 DEF OvertakenOnlyAtFirst

-----------------------------------------------------------------------------
(* The group implements AtMostOnce.                                        *)

\* What an append to topic t does to the events of the primary topic.
LEMMA ProducedNext ==
    ASSUME TypeOK, NEW t \in Topics, NEW r, log' = [log EXCEPT ![t] = Append(@, r)], NEW e
    PROVE  Produced(e)' <=> Produced(e) \/ (t = "primary" /\ r.event = e)
<1>1. log["primary"] \in Seq(Records({0})) /\ DOMAIN log = Topics
  BY DEF TypeOK, LogOK
<1>2. Len(log["primary"]) \in Nat
  BY <1>1
<1>3. CASE t = "primary"
  <2>1. log'["primary"] = Append(log["primary"], r)
    BY <1>1, <1>3
  <2>2. /\ Len(log'["primary"]) = Len(log["primary"]) + 1
        /\ log'["primary"][Len(log["primary"]) + 1] = r
        /\ \A i \in 1..Len(log["primary"]) : log'["primary"][i] = log["primary"][i]
    BY <1>1, <2>1
  <2>3. QED BY <1>2, <1>3, <2>2 DEF Produced
<1>4. CASE t # "primary"
  BY <1>1, <1>4 DEF Produced, Topics
<1>5. QED BY <1>3, <1>4

\* Only these steps append to a topic.
LEMMA Appends ==
    ASSUME [Next]_vars
    PROVE  \/ UNCHANGED <<log, dlq>>
           \/ \E e \in Events : Produce(e)
           \/ ReplayProduce
           \/ \E c \in Consumers : Retry(c) \/ DeadLetter(c)
<1>1. ASSUME NEW c \in Consumers,
             Transaction(c) \/ Reject(c) \/ DeadlockVictim(c) \/ CommitOffset(c) \/ Fail(c)
             \/ CommitReplyLost(c) \/ Crash(c) \/ \E t \in Topics : Poll(c, t) \/ Rebalance(c, t)
      PROVE UNCHANGED <<log, dlq>>
  BY <1>1 DEF Transaction, BeginWithoutRow, BeginWithRow, Stale, Insert, Duplicate, Advance,
     Handled, CommitTx, Reject, DeadlockVictim, CommitOffset, Fail, CommitReplyLost, Crash,
     Poll, Rebalance, brokerVars
<1>2. ASSUME ReplayCommit \/ ReplayAgain \/ UNCHANGED vars PROVE UNCHANGED <<log, dlq>>
  BY <1>2 DEF ReplayCommit, ReplayAgain, vars, brokerVars
<1>3. QED BY <1>1, <1>2 DEF Next, MemberStep, Forward

\* The record in a member's hand, and the next dead letter of cmd/replay, are of
\* the primary topic.
LEMMA HandOfPrimary ==
    ASSUME TInv, OfPrimary, NEW c \in Consumers, pc[c] # "poll"
    PROVE  Event(c) \in Events /\ Produced(Event(c))
<1>1. /\ hand[c].topic \in Topics /\ hand[c].at \in 1..Len(log[hand[c].topic])
      /\ Event(c) \in Events
  BY RecordTyped DEF TInv
<1>2. Event(c) = log[hand[c].topic][hand[c].at].event
  BY DEF Event, Record
<1>3. QED BY <1>1, <1>2 DEF OfPrimary

LEMMA LetterOfPrimary ==
    ASSUME TInv, OfPrimary, ReplayProduce
    PROVE  Produced(dlq[replayed + 1].event)
<1>1. dlq \in Seq(Records(1..MaxAttempts)) /\ replayed \in Nat /\ replayed < Len(dlq)
  BY DEF ReplayProduce, TInv, TypeOK, LogOK, GroupOK
<1>2. Len(dlq) \in Nat
  BY <1>1
<1>3. replayed + 1 \in 1..Len(dlq)
  BY <1>1, <1>2
<1>4. QED BY <1>3 DEF OfPrimary

\* One more record keeps OfPrimary, when its event is of the primary topic then.
LEMMA OfPrimaryAppended ==
    ASSUME TInv, OfPrimary, UNCHANGED dlq, NEW t \in Topics, NEW r,
           log' = [log EXCEPT ![t] = Append(@, r)],
           t = "primary" \/ Produced(r.event)
    PROVE  OfPrimary'
<1>0. TypeOK /\ \A e : Produced(e) => Produced(e)'
  BY ProducedNext DEF TInv
<1>1. ASSUME NEW u \in Topics, NEW i \in 1..Len(log'[u]), NEW e, e = log'[u][i].event
      PROVE  Produced(e)'
  <2>1. CASE u = t
    <3>1. PICK A : log[t] \in Seq(Records(A))
      BY <1>0 DEF TypeOK, LogOK, Topics
    <3>2. log'[t] = Append(log[t], r) /\ Len(log[t]) \in Nat
      BY <1>0, <3>1 DEF TypeOK, LogOK
    <3>3. (i \in 1..Len(log[t]) /\ log'[t][i] = log[t][i]) \/ log'[t][i] = r
      BY <2>1, <3>1, <3>2
    <3>4. ASSUME i \in 1..Len(log[t]), log'[t][i] = log[t][i] PROVE Produced(e)
      BY <1>1, <2>1, <3>4 DEF OfPrimary
    <3>5. ASSUME log'[t][i] = r PROVE Produced(e)'
      BY <1>0, <1>1, <2>1, <3>5, ProducedNext
    <3>6. QED BY <1>0, <3>3, <3>4, <3>5
  <2>2. CASE u # t
    <3>1. log'[u] = log[u]
      BY <1>0, <2>2 DEF TypeOK, LogOK
    <3>2. Produced(e)
      BY <1>1, <3>1 DEF OfPrimary
    <3>3. QED BY <1>0, <3>2
  <2>3. QED BY <2>1, <2>2
<1>2. ASSUME NEW i \in 1..Len(dlq'), NEW e, e = dlq'[i].event PROVE Produced(e)'
  BY <1>0, <1>2 DEF OfPrimary
<1>3. ASSUME NEW u \in Topics, NEW i \in 1..Len(log'[u])
      PROVE  \E j \in 1..Len(log'["primary"]) : log'["primary"][j].event = log'[u][i].event
  <2>1. PICK e : e = log'[u][i].event
    OBVIOUS
  <2>2. QED BY <1>1, <2>1 DEF Produced
<1>4. ASSUME NEW i \in 1..Len(dlq')
      PROVE  \E j \in 1..Len(log'["primary"]) : log'["primary"][j].event = dlq'[i].event
  <2>1. PICK e : e = dlq'[i].event
    OBVIOUS
  <2>2. QED BY <1>2, <2>1 DEF Produced
<1>5. QED BY <1>3, <1>4 DEF OfPrimary, Produced

LEMMA OfPrimaryNext == ASSUME TInv, OfPrimary, [Next]_vars PROVE OfPrimary'
<1>1. CASE UNCHANGED <<log, dlq>>
  BY <1>1 DEF OfPrimary, Produced
<1>2. ASSUME NEW e \in Events, Produce(e) PROVE OfPrimary'
  BY <1>2, OfPrimaryAppended DEF Produce, Topics
<1>3. CASE ReplayProduce
  BY <1>3, OfPrimaryAppended DEF ReplayProduce, Topics
<1>4. ASSUME NEW c \in Consumers, Retry(c) PROVE OfPrimary'
  <2>1. Produced(Failed(c).event)
    BY <1>4, HandOfPrimary DEF Retry, Failed
  <2>2. QED BY <1>4, <2>1, OfPrimaryAppended DEF Retry, Topics
<1>5. ASSUME NEW c \in Consumers, DeadLetter(c) PROVE OfPrimary'
  <2>1. Produced(Event(c)) /\ dlq' = Append(dlq, Failed(c)) /\ log' = log
    BY <1>5, HandOfPrimary DEF DeadLetter
  <2>2. dlq \in Seq(Records(1..MaxAttempts)) /\ Failed(c).event = Event(c)
    BY DEF TInv, TypeOK, LogOK, Failed
  <2>3. \A i \in 1..Len(dlq') : (i \in 1..Len(dlq) /\ dlq'[i] = dlq[i]) \/ dlq'[i] = Failed(c)
    BY <2>1, <2>2
  <2>4. \A i \in 1..Len(dlq') : Produced(dlq'[i].event)
    BY <2>1, <2>2, <2>3 DEF OfPrimary
  <2>5. QED BY <2>1, <2>4 DEF OfPrimary, Produced
<1>6. QED BY <1>1, <1>2, <1>3, <1>4, <1>5, Appends

PromiseInv == StoreInv /\ OfPrimary

LEMMA PromiseInvHolds == Spec => []PromiseInv
<1>1. Init => OfPrimary
  <2>1. ASSUME Init PROVE (\A t \in Topics : log[t] = <<>>) /\ dlq = <<>>
    BY <2>1 DEF Init
  <2>2. QED BY <2>1 DEF OfPrimary
<1>2. StoreInv /\ OfPrimary /\ [Next]_vars => OfPrimary'
  BY OfPrimaryNext DEF StoreInv
<1>3. QED BY <1>1, <1>2, StoreInvHolds, PTL DEF Spec, PromiseInv

LEMMA PromiseInitially == Init => Promise!Init
<1> SUFFICES ASSUME Init PROVE Promise!Init
  OBVIOUS
<1>1. log["primary"] = <<>> /\ dlq = <<>>
  BY DEF Init, Topics
<1>2. Offered = {} /\ GivenUp = {}
  BY <1>1 DEF Offered, GivenUp, Produced, DeadLettered
<1>3. QED BY <1>2 DEF Init, Promise!Init, Promise!Events, Events

\* An append to a topic is an offer of one event, or nothing.
LEMMA OfferStep ==
    ASSUME TypeOK, NEW t \in Topics, NEW r, log' = [log EXCEPT ![t] = Append(@, r)],
           r.event \in Events, t = "primary" \/ Produced(r.event),
           UNCHANGED <<dlq, storeVars>>
    PROVE  [Promise!Next]_(Promise!vars)
<1>1. GivenUp' = GivenUp /\ UNCHANGED <<effects, watermark>>
  BY DEF GivenUp, DeadLettered, storeVars
<1>2. \A e \in Events : Produced(e)' <=> Produced(e) \/ (t = "primary" /\ e = r.event)
  BY ProducedNext
<1>3. CASE Produced(r.event)
  <2>1. Offered' = Offered
    BY <1>2, <1>3 DEF Offered
  <2>2. QED BY <1>1, <2>1 DEF Promise!vars
<1>4. CASE ~ Produced(r.event)
  <2>1. Offered' = Offered \cup {r.event} /\ r.event \notin Offered
    BY <1>2, <1>4 DEF Offered
  <2>2. Promise!Offer(r.event)
    BY <1>1, <2>1 DEF Promise!Offer
  <2>3. QED BY <2>2 DEF Promise!Next, Promise!Events, Events
<1>5. QED BY <1>3, <1>4

\* A dead letter gives up one event, or none when it was given up before.
LEMMA GiveUpStep ==
    ASSUME TInv, OfPrimary, NEW c \in Consumers, DeadLetter(c)
    PROVE  [Promise!Next]_(Promise!vars)
<1>1. Event(c) \in Events /\ Produced(Event(c))
  BY HandOfPrimary DEF DeadLetter
<1>2. Offered' = Offered /\ UNCHANGED <<effects, watermark>>
  BY DEF DeadLetter, Offered, Produced, storeVars
<1>3. dlq \in Seq(Records(1..MaxAttempts)) /\ dlq' = Append(dlq, Failed(c))
      /\ Failed(c).event = Event(c)
  BY DEF TInv, TypeOK, LogOK, Failed, DeadLetter
<1>4. Len(dlq) \in Nat /\ Len(dlq') = Len(dlq) + 1 /\ dlq'[Len(dlq) + 1] = Failed(c)
      /\ \A i \in 1..Len(dlq) : dlq'[i] = dlq[i]
  BY <1>3
<1>5. \A e \in Events : DeadLettered(e)' <=> DeadLettered(e) \/ e = Event(c)
  BY <1>3, <1>4 DEF DeadLettered
<1>6. GivenUp' = GivenUp \cup {Event(c)}
  BY <1>1, <1>5 DEF GivenUp
<1>7. CASE Event(c) \in GivenUp
  BY <1>2, <1>6, <1>7 DEF Promise!vars
<1>8. CASE Event(c) \notin GivenUp
  <2>1. Promise!GiveUp(Event(c))
    BY <1>1, <1>2, <1>6, <1>8 DEF Promise!GiveUp, Offered
  <2>2. QED BY <1>1, <2>1 DEF Promise!Next, Promise!Events, Events
<1>9. QED BY <1>7, <1>8

\* The commit of a transaction is the one effect of its event.
LEMMA ApplyStep ==
    ASSUME PromiseInv, NEW c \in Consumers, CommitTx(c)
    PROVE  [Promise!Next]_(Promise!vars)
<1>1. pc[c] = "handler" /\ TInv /\ OfPrimary
  BY DEF CommitTx, PromiseInv, StoreInv
<1>2. Event(c) \in Events /\ Event(c) \in Offered
  BY <1>1, HandOfPrimary DEF Offered
<1>3. effects[Event(c)] = 0 /\ effects \in [Events -> Nat]
  BY <1>1, <1>2 DEF PromiseInv, StoreInv, AppliedInv, OpenInv, Open, TInv, TypeOK, StoreOK
<1>4. Offered' = Offered /\ GivenUp' = GivenUp
  BY DEF CommitTx, brokerVars, Offered, GivenUp, Produced, DeadLettered
<1>5. effects' = [effects EXCEPT ![Event(c)] = 1]
  BY <1>3 DEF CommitTx
<1>6. watermark' = [watermark EXCEPT ![Event(c)[1]] = IF @ < Event(c)[2] THEN Event(c)[2] ELSE @]
  BY DEF CommitTx, NewWatermark, Subject, Version
<1>7. Promise!Apply(Event(c))
  BY <1>2, <1>3, <1>4, <1>5, <1>6 DEF Promise!Apply
<1>8. QED BY <1>2, <1>7 DEF Promise!Next, Promise!Events, Events

LEMMA PromiseStep == ASSUME PromiseInv, [Next]_vars PROVE [Promise!Next]_(Promise!vars)
<1>0. TInv /\ OfPrimary /\ TypeOK
  BY DEF PromiseInv, StoreInv, TInv
<1>1. CASE UNCHANGED <<inbox, watermark, effects>> /\ UNCHANGED <<log, dlq>>
  BY <1>1 DEF Promise!vars, Offered, GivenUp, Produced, DeadLettered
<1>2. ASSUME NEW c \in Consumers, CommitTx(c) PROVE [Promise!Next]_(Promise!vars)
  BY <1>2, ApplyStep
<1>3. ASSUME NEW e \in Events, Produce(e) PROVE [Promise!Next]_(Promise!vars)
  <2> DEFINE r == [event |-> e, attempt |-> 0]
  <2>1. /\ r.event \in Events /\ "primary" \in Topics
        /\ log' = [log EXCEPT !["primary"] = Append(@, r)]
        /\ UNCHANGED <<dlq, storeVars>>
    BY <1>3 DEF Produce, Topics
  <2> HIDE DEF r
  <2>2. QED BY <1>0, <2>1, OfferStep
<1>4. CASE ReplayProduce
  <2>1. dlq[replayed + 1].event \in Events
    <3> DEFINE R == Records(1..MaxAttempts)
    <3>1. dlq \in Seq(R) /\ replayed \in Nat /\ replayed < Len(dlq)
      BY <1>0, <1>4 DEF ReplayProduce, TypeOK, LogOK, GroupOK
    <3>2. dlq[replayed + 1] \in R
      <4> HIDE DEF R
      <4> QED BY <3>1
    <3>3. QED BY <3>2 DEF Records
  <2> DEFINE r == [event |-> dlq[replayed + 1].event, attempt |-> 0]
  <2>2. /\ r.event \in Events /\ "primary" \in Topics
        /\ log' = [log EXCEPT !["primary"] = Append(@, r)]
        /\ UNCHANGED <<dlq, storeVars>>
    BY <1>4, <2>1 DEF ReplayProduce, Topics
  <2> HIDE DEF r
  <2>3. QED BY <1>0, <2>2, OfferStep
<1>5. ASSUME NEW c \in Consumers, Retry(c) PROVE [Promise!Next]_(Promise!vars)
  <2>1. Failed(c).event \in Events /\ Produced(Failed(c).event)
    BY <1>0, <1>5, HandOfPrimary DEF Retry, Failed
  <2>2. QED BY <1>0, <1>5, <2>1, OfferStep DEF Retry, Topics
<1>6. ASSUME NEW c \in Consumers, DeadLetter(c) PROVE [Promise!Next]_(Promise!vars)
  BY <1>0, <1>6, GiveUpStep
<1>7. QED BY <1>1, <1>2, <1>3, <1>4, <1>5, <1>6, Appends, OnlyCommits

\* eventing/consumer.go, inbox/store.go and cmd/replay together: an effect is
\* committed once at most, only for an event of the primary topic, and in one step
\* with the watermark.
THEOREM AppliesAtMostOnceCorrect == Spec => AppliesAtMostOnce
<1>1. PromiseInv /\ [Next]_vars => [Promise!Next]_(Promise!vars)
  BY PromiseStep
<1>2. QED BY <1>1, PromiseInitially, PromiseInvHolds, PTL
      DEF Spec, AppliesAtMostOnce, Promise!Spec

=============================================================================
