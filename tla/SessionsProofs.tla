--------------------------- MODULE SessionsProofs ---------------------------
(***************************************************************************)
(* Proofs about the sessions of a user, for any number of requests in      *)
(* flight and every value of the bounds.                                   *)
(***************************************************************************)
EXTENDS Sessions, SequenceTheorems, TLAPS

\* What a request at a step has been given and has read.
JobOK(r) ==
    /\ pc[r] \in {"blocklist", "user", "lock", "rotate", "revoke", "banRefresh"} =>
           job[r].refresh \in Issued
    /\ pc[r] \in {"guard", "banAccess"} => job[r].kind \in Guarded
    /\ job[r].kind \in Guarded => job[r].access \in Issued
    /\ pc[r] = "insert" => job[r].login \in 1..logins /\ job[r].ver \in 1..tokenVersion
    /\ pc[r] \in {"lock", "rotate"} => job[r].ver = pairs[job[r].refresh].ver
    /\ job[r].mark <= logins

JobInv == \A r \in Requests : JobOK(r)

\* A pair belongs to a login and claims a version that has been.
PairInv == \A n \in Issued : pairs[n].login <= logins /\ pairs[n].ver <= tokenVersion

TInv == TypeOK /\ JobInv /\ PairInv

\* A step of one request.
Acts(r) == Login(r) \/ Refresh(r) \/ Arrive(r) \/ Kill(r) \/ Abort(r)

LEMMA NextSplit ==
    [Next]_vars => (\E r \in Requests : Acts(r)) \/ UpdateRole \/ UNCHANGED vars
  BY DEF Next, Acts

LEMMA OthersStay ==
    ASSUME RequestOK, NEW r \in Requests, NEW q \in Requests, q # r, Acts(r)
    PROVE  pc'[q] = pc[q] /\ job'[q] = job[q]
<1> USE DEF RequestOK, Goto, End
<1>1. CASE Login(r)
  BY <1>1 DEF Login, LoginReadsUser, LoginIssues
<1>2. CASE Refresh(r)
  BY <1>2 DEF Refresh, RefreshArrives, RefreshChecksBlocklist, RefreshReadsUser, RotateLocks, Rotate
<1>3. CASE Arrive(r)
  BY <1>3 DEF Arrive, GuardedArrives, ResetArrives
<1>4. CASE Guard(r) \/ UpdatePassword(r) \/ Revoke(r) \/ SeeLiveRows(r) \/ RevokeAll(r)
  BY <1>4 DEF Guard, UpdatePassword, Revoke, SeeLiveRows, RevokeAll
<1>5. CASE Bump(r) \/ ErrorDropped(r) \/ BanRefresh(r) \/ BanAccess(r) \/ Answer(r)
  BY <1>5 DEF Bump, ErrorDropped, BanRefresh, BanAccess, Answer
<1>6. CASE Abort(r)
  BY <1>6 DEF Abort
<1>7. QED BY <1>1, <1>2, <1>3, <1>4, <1>5, <1>6 DEF Acts, Kill

LEMMA Typed ==
    ASSUME StoreOK
    PROVE  /\ Len(pairs) \in 0..MaxPairs /\ DOMAIN pairs = Issued /\ Issued \subseteq Pairs
           /\ \A n \in Issued : pairs[n] \in PairType
           /\ \A n \in Issued : /\ pairs[n].login \in 1..MaxLogins
                                /\ pairs[n].ver \in 1..MaxVersion
                                /\ pairs[n].live \in BOOLEAN
<1> DEFINE P == PairType
<1>1. pairs \in Seq(P) /\ Len(pairs) <= MaxPairs /\ MaxPairs \in Nat
  BY SessionsAssumption DEF StoreOK
<1>2. Len(pairs) \in 0..MaxPairs /\ DOMAIN pairs = Issued /\ \A n \in Issued : pairs[n] \in P
  <2> HIDE DEF P
  <2>1. Len(pairs) \in Nat /\ DOMAIN pairs = 1..Len(pairs) /\ \A n \in 1..Len(pairs) : pairs[n] \in P
    BY <1>1
  <2>2. QED BY <1>1, <2>1 DEF Issued
<1>3. Issued \subseteq Pairs
  BY <1>1, <1>2 DEF Issued, Pairs
<1>4. \A n \in Issued : pairs[n].login \in 1..MaxLogins /\ pairs[n].ver \in 1..MaxVersion
  BY <1>2 DEF PairType
<1>5. \A n \in Issued : pairs[n].live \in BOOLEAN
  BY <1>2 DEF PairType
<1>6. QED BY <1>2, <1>3, <1>4, <1>5

\* A pair keeps its login and its claim, and no revoked row comes back.
Kept == \A n \in Issued : /\ pairs'[n].login = pairs[n].login /\ pairs'[n].ver = pairs[n].ver
                          /\ pairs'[n].live => pairs[n].live

\* The pairs, the rows in S revoked.
Revoked(S) == [n \in Issued |-> IF n \in S THEN [pairs[n] EXCEPT !.live = FALSE] ELSE pairs[n]]

LEMMA RevokedSome ==
    ASSUME StoreOK, NEW S
    PROVE  /\ Revoked(S) \in Seq(PairType) /\ Len(Revoked(S)) = Len(pairs)
           /\ \A n \in Issued : /\ Revoked(S)[n].login = pairs[n].login
                                /\ Revoked(S)[n].ver = pairs[n].ver
                                /\ Revoked(S)[n].live = (pairs[n].live /\ n \notin S)
<1> DEFINE Q == Revoked(S)
<1>1. /\ Len(pairs) \in Nat /\ DOMAIN pairs = Issued /\ \A n \in Issued : pairs[n] \in PairType
  BY Typed
<1>2. \A n \in Issued : Q[n] = IF n \in S THEN [pairs[n] EXCEPT !.live = FALSE] ELSE pairs[n]
  BY DEF Revoked
<1>3. \A n \in Issued : Q[n] \in PairType
  <2>1. \A n \in Issued : [pairs[n] EXCEPT !.live = FALSE] \in PairType
    BY <1>1 DEF PairType
  <2>2. QED BY <1>1, <1>2, <2>1
<1>4. Q \in [1..Len(pairs) -> PairType]
  BY <1>3 DEF Revoked, Issued
<1>5. Q \in Seq(PairType)
  BY <1>1, <1>4, SeqDef
<1>6. Len(Q) = Len(pairs)
  BY <1>1, <1>4, <1>5, LenProperties
<1>7. ASSUME NEW n \in Issued
      PROVE  /\ Q[n].login = pairs[n].login /\ Q[n].ver = pairs[n].ver
             /\ Q[n].live = (pairs[n].live /\ n \notin S)
  <2>1. pairs[n] \in PairType
    BY <1>1
  <2>2. CASE n \in S
    BY <1>2, <2>1, <2>2 DEF PairType
  <2>3. CASE n \notin S
    BY <1>2, <2>1, <2>3 DEF PairType
  <2>4. QED BY <2>2, <2>3
<1>8. QED BY <1>5, <1>6, <1>7

LEMMA RevokedOne ==
    ASSUME StoreOK, NEW m \in Issued
    PROVE  [pairs EXCEPT ![m].live = FALSE] = Revoked({m})
  BY Typed DEF Revoked

LEMMA PairsAppended ==
    ASSUME StoreOK, Len(pairs) < MaxPairs, NEW s \in Seq(PairType), Len(s) = Len(pairs),
           NEW e \in PairType, pairs' = Append(s, e)
    PROVE  /\ pairs' \in Seq(PairType) /\ Len(pairs') = Len(pairs) + 1 /\ Len(pairs') <= MaxPairs
           /\ \A n \in Issued : pairs'[n] = s[n]
           /\ \A n \in Issued' : n \in Issued \/ (n = Len(pairs) + 1 /\ pairs'[n] = e)
<1> DEFINE P == PairType
<1>1. /\ MaxPairs \in Nat /\ Len(pairs) \in Nat
  BY SessionsAssumption, Typed
<1>2. s \in Seq(P) /\ e \in P
  OBVIOUS
<1>3. /\ pairs' \in Seq(P) /\ Len(pairs') = Len(s) + 1
      /\ \A n \in 1..Len(s) : pairs'[n] = s[n]
      /\ pairs'[Len(s) + 1] = e
  <2> HIDE DEF P
  <2>1. QED BY <1>2, AppendProperties
<1>4. QED BY <1>1, <1>3 DEF Issued

LEMMA LivesOn ==
    ASSUME StoreOK, UNCHANGED pairs
    PROVE  pairs' \in Seq(PairType) /\ Len(pairs') = Len(pairs) /\ Kept
  BY DEF StoreOK, Kept

-----------------------------------------------------------------------------
(* What a step does to the pairs and the counters.                         *)

\* Pairs are only added, one at a time: by a login or by a rotation.
Grows(r) ==
    /\ pairs' \in Seq(PairType) /\ Len(pairs') <= MaxPairs
    /\ Issued \subseteq Issued' /\ Kept
    /\ \A n \in Issued' \ Issued :
           \/ pc[r] = "insert"
              /\ pairs'[n] = [login |-> job[r].login, ver |-> job[r].ver, live |-> TRUE]
           \/ pc[r] = "rotate" /\ pairs'[n] = NewPair(r)

LEMMA JobTyped ==
    ASSUME RequestOK, NEW r \in Requests
    PROVE  /\ job[r].kind \in Kinds /\ job[r].refresh \in 0..MaxPairs
           /\ job[r].access \in 0..MaxPairs /\ job[r].ver \in 0..MaxVersion
           /\ job[r].login \in 0..MaxLogins /\ job[r].mark \in 0..MaxLogins
           /\ job[r].rows \in SUBSET Pairs /\ job[r].failed \in BOOLEAN
<1>1. job[r] \in JobType
  BY DEF RequestOK
<1>2. job[r].failed \in BOOLEAN
  BY <1>1 DEF JobType
<1>3. QED BY <1>1, <1>2 DEF JobType

\* The pair that a login issues is one.
LEMMA InsertTyped ==
    ASSUME TInv, NEW r \in Requests, LoginIssues(r)
    PROVE  job[r].login \in 1..MaxLogins /\ job[r].ver \in 1..MaxVersion
<1>1. pc[r] = "insert" /\ JobOK(r)
  BY DEF TInv, JobInv, LoginIssues
<1>2. job[r].login \in 1..logins /\ job[r].ver \in 1..tokenVersion
  BY <1>1 DEF JobOK
<1>3. /\ logins \in 0..MaxLogins /\ MaxLogins \in Nat
      /\ tokenVersion \in 1..MaxVersion /\ MaxVersion \in Nat
  BY SessionsAssumption DEF TInv, TypeOK, StoreOK, CountOK
<1>4. QED BY <1>2, <1>3

LEMMA InsertGrows ==
    ASSUME TInv, NEW r \in Requests, LoginIssues(r)
    PROVE  Grows(r)
<1> DEFINE e == [login |-> job[r].login, ver |-> job[r].ver, live |-> TRUE]
<1>1. job[r].login \in 1..MaxLogins /\ job[r].ver \in 1..MaxVersion
  BY InsertTyped
<1>2. e \in PairType
  BY <1>1 DEF PairType
<1>3. pairs \in Seq(PairType) /\ StoreOK
  BY DEF TInv, TypeOK, StoreOK
<1>4. pc[r] = "insert" /\ Len(pairs) < MaxPairs /\ pairs' = Append(pairs, e)
  BY DEF LoginIssues
<1>5. /\ pairs' \in Seq(PairType) /\ Len(pairs') = Len(pairs) + 1 /\ Len(pairs') <= MaxPairs
      /\ \A n \in Issued : pairs'[n] = pairs[n]
      /\ \A n \in Issued' : n \in Issued \/ (n = Len(pairs) + 1 /\ pairs'[n] = e)
  <2> HIDE DEF e
  <2>1. QED BY <1>2, <1>3, <1>4, PairsAppended
<1>6. Issued \subseteq Issued'
  BY <1>3, <1>5, Typed DEF Issued
<1>7. QED BY <1>4, <1>5, <1>6 DEF Grows, Kept

LEMMA RotateGrows ==
    ASSUME TInv, NEW r \in Requests, Rotate(r)
    PROVE  /\ Grows(r)
           /\ \A n \in Issued :
                  pairs'[n].live = (pairs[n].live /\ n # job[r].refresh)
<1> DEFINE m == job[r].refresh
           s == Revoked({m})
           e == NewPair(r)
<1>1. StoreOK /\ m \in Issued
  BY DEF TInv, TypeOK, JobInv, JobOK, Rotate
<1>2. e \in PairType
  <2>1. pairs[m].login \in 1..MaxLogins /\ pairs[m].ver \in 1..MaxVersion
    BY <1>1, Typed
  <2>2. job[r].ver = pairs[m].ver
    BY DEF TInv, JobInv, JobOK, Rotate
  <2>3. QED BY <2>1, <2>2 DEF NewPair, PairType
<1>3. /\ s \in Seq(PairType) /\ Len(s) = Len(pairs)
      /\ \A n \in Issued : /\ s[n].login = pairs[n].login /\ s[n].ver = pairs[n].ver
                           /\ s[n].live = (pairs[n].live /\ n # m)
  <2> HIDE DEF m
  <2>1. QED BY <1>1, RevokedSome
<1>4. pc[r] = "rotate" /\ Len(pairs) < MaxPairs /\ pairs' = Append(s, e)
  BY <1>1, RevokedOne DEF Rotate
<1>5. /\ pairs' \in Seq(PairType) /\ Len(pairs') = Len(pairs) + 1 /\ Len(pairs') <= MaxPairs
      /\ \A n \in Issued : pairs'[n] = s[n]
      /\ \A n \in Issued' : n \in Issued \/ (n = Len(pairs) + 1 /\ pairs'[n] = e)
  <2> HIDE DEF e, s
  <2>1. QED BY <1>1, <1>2, <1>3, <1>4, PairsAppended
<1>6. Issued \subseteq Issued'
  BY <1>1, <1>5, Typed DEF Issued
<1>7. Kept
  BY <1>3, <1>5 DEF Kept
<1>8. QED BY <1>3, <1>4, <1>5, <1>6, <1>7 DEF Grows

LEMMA RevokeGrows ==
    ASSUME TInv, NEW r \in Requests, NEW S, pairs' = Revoked(S)
    PROVE  Grows(r)
<1>1. StoreOK
  BY DEF TInv, TypeOK
<1>2. pairs' \in Seq(PairType) /\ Len(pairs') = Len(pairs) /\ Kept
  BY <1>1, RevokedSome DEF Kept
<1>3. Issued' = Issued /\ Len(pairs') <= MaxPairs
  BY <1>1, <1>2 DEF Issued, StoreOK
<1>4. QED BY <1>2, <1>3 DEF Grows

LEMMA Grow ==
    ASSUME TInv, NEW r \in Requests, Acts(r)
    PROVE  Grows(r)
<1>1. StoreOK
  BY DEF TInv, TypeOK
<1>2. CASE LoginIssues(r)
  BY <1>2, InsertGrows
<1>3. CASE Rotate(r)
  BY <1>3, RotateGrows
<1>4. CASE Revoke(r)
  <2> DEFINE m == job[r].refresh
  <2>1. m \in Issued
    BY <1>4 DEF TInv, JobInv, JobOK, Revoke
  <2>2. pairs' = Revoked({m})
    BY <1>1, <1>4, <2>1, RevokedOne DEF Revoke
  <2>3. QED
    <3> HIDE DEF m
    <3>1. QED BY <2>2, RevokeGrows
<1>5. CASE RevokeAll(r)
  <2>1. pairs' = Revoked(job[r].rows)
    BY <1>5 DEF RevokeAll, Revoked
  <2>2. QED BY <2>1, RevokeGrows
<1>6. CASE UNCHANGED pairs
  BY <1>1, <1>6 DEF Grows, Kept, Issued, StoreOK
<1>7. CASE Login(r)
  BY <1>2, <1>6, <1>7 DEF Login, LoginReadsUser, storeVars
<1>8. CASE Refresh(r)
  BY <1>3, <1>6, <1>8 DEF Refresh, RefreshArrives, RefreshChecksBlocklist, RefreshReadsUser,
     RotateLocks, storeVars
<1>9. CASE Arrive(r)
  BY <1>6, <1>9 DEF Arrive, GuardedArrives, ResetArrives, storeVars
<1>10. CASE Kill(r)
  BY <1>4, <1>5, <1>6, <1>10 DEF Kill, Guard, UpdatePassword, SeeLiveRows, Bump, ErrorDropped,
     BanRefresh, BanAccess, Answer, storeVars
<1>11. CASE Abort(r)
  BY <1>6, <1>11 DEF Abort
<1>12. QED BY <1>7, <1>8, <1>9, <1>10, <1>11 DEF Acts

\* token_version only grows, and with Bump by one.
LEMMA VersionGrows ==
    ASSUME TInv, NEW r \in Requests, Acts(r)
    PROVE  /\ tokenVersion' \in 1..MaxVersion /\ tokenVersion <= tokenVersion'
           /\ Bump(r) \/ tokenVersion' = tokenVersion
<1>1. tokenVersion \in 1..MaxVersion /\ MaxVersion \in Nat
  BY SessionsAssumption DEF TInv, TypeOK, StoreOK
<1>2. Bump(r) \/ tokenVersion' = tokenVersion
  <2>1. CASE Login(r)
    BY <2>1 DEF Login, LoginReadsUser, LoginIssues, storeVars
  <2>2. CASE Refresh(r)
    BY <2>2 DEF Refresh, RefreshArrives, RefreshChecksBlocklist, RefreshReadsUser, RotateLocks,
       Rotate, storeVars
  <2>3. CASE Arrive(r)
    BY <2>3 DEF Arrive, GuardedArrives, ResetArrives, storeVars
  <2>4. CASE Kill(r)
    BY <2>4 DEF Kill, Guard, UpdatePassword, Revoke, SeeLiveRows, RevokeAll, ErrorDropped,
       BanRefresh, BanAccess, Answer, storeVars
  <2>5. CASE Abort(r)
    BY <2>5 DEF Abort
  <2>6. QED BY <2>1, <2>2, <2>3, <2>4, <2>5 DEF Acts
<1>3. CASE Bump(r)
  BY <1>1, <1>3 DEF Bump
<1>4. QED BY <1>1, <1>2, <1>3

LEMMA Counted ==
    ASSUME TInv, NEW r \in Requests, Acts(r)
    PROVE  CountOK' /\ logins <= logins' /\ (LoginReadsUser(r) \/ logins' = logins)
           /\ (Answer(r) \/ sealed' = sealed)
<1>1. /\ CountOK /\ MaxLogins \in Nat /\ MaxServed \in Nat /\ MaxPairs \in Nat /\ MaxFaults \in Nat
      /\ logins \in 0..MaxLogins /\ served \in 0..MaxServed /\ sealed \in 0..logins
      /\ faults \in 0..MaxFaults
  BY SessionsAssumption DEF TInv, TypeOK, CountOK
<1> USE DEF Fault, Arrived, storeVars, redisVars, historyVars, requestVars
<1>2. CASE Login(r)
  <2>1. CASE LoginReadsUser(r)
    BY <1>1, <2>1 DEF LoginReadsUser, CountOK
  <2>2. CASE LoginIssues(r)
    BY <1>1, <2>2 DEF LoginIssues, CountOK
  <2>3. QED BY <1>2, <2>1, <2>2 DEF Login
<1>3. CASE Refresh(r)
  <2>1. CASE \E n \in Issued : RefreshArrives(r, n)
    BY <1>1, <2>1 DEF RefreshArrives, CountOK
  <2>2. CASE RefreshChecksBlocklist(r) \/ RefreshReadsUser(r)
    BY <1>1, <2>2 DEF RefreshChecksBlocklist, RefreshReadsUser, CountOK
  <2>3. CASE RotateLocks(r) \/ Rotate(r)
    BY <1>1, <2>3 DEF RotateLocks, Rotate, CountOK
  <2>4. QED BY <1>3, <2>1, <2>2, <2>3 DEF Refresh
<1>4. CASE Arrive(r)
  <2>1. CASE \E k \in Guarded, n \in Issued : GuardedArrives(r, k, n)
    BY <1>1, <2>1 DEF GuardedArrives, CountOK
  <2>2. CASE ResetArrives(r)
    BY <1>1, <2>2 DEF ResetArrives, CountOK
  <2>3. QED BY <1>4, <2>1, <2>2 DEF Arrive
<1>5. CASE Kill(r)
  <2>1. CASE Guard(r) \/ UpdatePassword(r) \/ Revoke(r) \/ SeeLiveRows(r) \/ RevokeAll(r)
    BY <1>1, <2>1 DEF Guard, UpdatePassword, Revoke, SeeLiveRows, RevokeAll, CountOK
  <2>2. CASE Bump(r)
    BY <1>1, <2>2 DEF Bump, CountOK
  <2>3. CASE ErrorDropped(r)
    BY <1>1, <2>3 DEF ErrorDropped, CountOK
  <2>4. CASE BanRefresh(r)
    <3>1. job[r].refresh \in Pairs
      BY <2>4, Typed DEF TInv, TypeOK, JobInv, JobOK, BanRefresh
    <3>2. QED BY <1>1, <2>4, <3>1 DEF BanRefresh, CountOK
  <2>5. CASE BanAccess(r)
    <3>1. job[r].access \in Pairs
      BY <2>5, Typed DEF TInv, TypeOK, JobInv, JobOK, BanAccess
    <3>2. QED BY <1>1, <2>5, <3>1 DEF BanAccess, CountOK
  <2>6. CASE Answer(r)
    <3>1. job[r].mark \in 0..logins
      BY JobTyped DEF TInv, TypeOK, JobInv, JobOK, Answer
    <3>2. QED BY <1>1, <2>6, <3>1 DEF Answer, CountOK
  <2>7. QED BY <1>5, <2>1, <2>2, <2>3, <2>4, <2>5, <2>6 DEF Kill
<1>6. CASE Abort(r)
  BY <1>1, <1>6 DEF Abort, CountOK
<1>7. QED BY <1>2, <1>3, <1>4, <1>5, <1>6 DEF Acts

-----------------------------------------------------------------------------
(* What a step does to its request and to the locks.                       *)

LEMMA RequestStep ==
    ASSUME TInv, NEW r \in Requests, Acts(r)
    PROVE  RequestOK'
<1>1. /\ RequestOK /\ job[r] \in JobType /\ pc[r] \in Steps /\ NoJob \in JobType
  BY SessionsAssumption DEF TInv, TypeOK, RequestOK, NoJob, JobType, Kinds
<1>2. /\ MaxLogins \in Nat /\ tokenVersion \in 0..MaxVersion /\ Issued \subseteq 0..MaxPairs
      /\ logins \in 0..MaxLogins
  BY SessionsAssumption, Typed DEF TInv, TypeOK, StoreOK, CountOK, Pairs
<1>3. /\ \A k \in Kinds, n \in 0..MaxPairs, m \in 0..MaxPairs :
             [NoJob EXCEPT !.kind = k, !.refresh = n, !.access = m] \in JobType
      /\ \A v \in 0..MaxVersion, l \in 0..MaxLogins :
             [NoJob EXCEPT !.kind = "login", !.ver = v, !.login = l] \in JobType
  BY <1>1 DEF JobType, NoJob, Kinds
<1>4. job' = job \/ (job'[r] \in JobType /\ job' = [job EXCEPT ![r] = job'[r]])
  <2> DEFINE J == JobType
             Set(j) == job' = [job EXCEPT ![r] = j]
  <2>1. \A j \in J : Set(j) => job'[r] \in J /\ job' = [job EXCEPT ![r] = job'[r]]
    BY <1>1 DEF RequestOK
  <2>2. CASE End(r)
    BY <1>1, <2>1, <2>2 DEF End
  <2>3. CASE Login(r)
    <3>1. CASE LoginReadsUser(r)
      <4>1. logins + 1 \in 0..MaxLogins
        BY <1>2, <3>1 DEF LoginReadsUser
      <4>2. [NoJob EXCEPT !.kind = "login", !.ver = tokenVersion, !.login = logins + 1] \in J
        BY <1>2, <1>3, <4>1
      <4>3. QED BY <2>1, <3>1, <4>2 DEF LoginReadsUser
    <3>2. QED BY <2>2, <2>3, <3>1 DEF Login, LoginIssues
  <2>4. CASE Refresh(r)
    <3>1. CASE \E n \in Issued : RefreshArrives(r, n)
      <4>1. PICK n \in Issued : RefreshArrives(r, n)
        BY <3>1
      <4>2. [NoJob EXCEPT !.kind = "refresh", !.refresh = n] \in J
        BY <1>1, <1>2 DEF JobType, NoJob, Kinds
      <4>3. QED BY <2>1, <4>1, <4>2 DEF RefreshArrives
    <3>2. CASE RefreshChecksBlocklist(r)
      BY <2>2, <3>2 DEF RefreshChecksBlocklist
    <3>3. CASE RefreshReadsUser(r)
      <4>1. [job[r] EXCEPT !.ver = tokenVersion] \in J
        BY <1>1, <1>2 DEF JobType
      <4>2. QED BY <2>1, <2>2, <3>3, <4>1 DEF RefreshReadsUser
    <3>4. CASE RotateLocks(r)
      <4>1. [job[r] EXCEPT !.kind = "reuse", !.mark = logins] \in J
        BY <1>1, <1>2 DEF JobType, Kinds, Kills
      <4>2. QED BY <2>1, <3>4, <4>1 DEF RotateLocks
    <3>5. QED BY <2>4, <3>1, <3>2, <3>3, <3>4 DEF Refresh, Rotate
  <2>5. CASE Arrive(r)
    <3>1. CASE \E k \in Guarded, n \in Issued : GuardedArrives(r, k, n)
      <4>1. PICK k \in Guarded : \E n \in Issued : GuardedArrives(r, k, n)
        BY <3>1
      <4>2. PICK n \in Issued : GuardedArrives(r, k, n)
        BY <4>1
      <4>3. [NoJob EXCEPT !.kind = k, !.access = n] \in J
        BY <1>1, <1>2 DEF JobType, NoJob, Kinds, Guarded, Kills
      <4>4. QED BY <2>1, <4>2, <4>3 DEF GuardedArrives
    <3>2. CASE ResetArrives(r)
      <4>1. [NoJob EXCEPT !.kind = "reset"] \in J
        BY <1>1 DEF JobType, NoJob, Kinds, Kills
      <4>2. QED BY <2>1, <3>2, <4>1 DEF ResetArrives
    <3>3. QED BY <2>5, <3>1, <3>2 DEF Arrive
  <2>6. CASE Kill(r)
    <3>1. CASE Guard(r)
      <4>1. [job[r] EXCEPT !.mark = logins] \in J
        BY <1>1, <1>2 DEF JobType
      <4>2. \A n \in Issued : [job[r] EXCEPT !.refresh = n] \in J
        BY <1>1, <1>2 DEF JobType
      <4>3. QED BY <2>1, <2>2, <3>1, <4>1, <4>2 DEF Guard
    <3>2. CASE UpdatePassword(r)
      <4>1. [job[r] EXCEPT !.mark = logins] \in J
        BY <1>1, <1>2 DEF JobType
      <4>2. QED BY <2>1, <3>2, <4>1 DEF UpdatePassword
    <3>3. CASE SeeLiveRows(r)
      <4>1. {n \in Issued : pairs[n].live} \in SUBSET Pairs
        BY Typed DEF TInv, TypeOK
      <4>2. [job[r] EXCEPT !.rows = {n \in Issued : pairs[n].live}] \in J
        BY <1>1, <4>1 DEF JobType
      <4>3. QED BY <2>1, <3>3, <4>2 DEF SeeLiveRows
    <3>4. CASE RevokeAll(r)
      <4>1. [job[r] EXCEPT !.rows = {}] \in J
        BY <1>1 DEF JobType
      <4>2. QED BY <2>1, <3>4, <4>1 DEF RevokeAll
    <3>5. CASE ErrorDropped(r)
      <4>1. [job[r] EXCEPT !.failed = TRUE, !.rows = {}] \in J
        BY <1>1 DEF JobType
      <4>2. QED BY <2>1, <3>5, <4>1 DEF ErrorDropped
    <3>6. CASE BanRefresh(r) \/ BanAccess(r) \/ Answer(r)
      BY <2>2, <3>6 DEF BanRefresh, BanAccess, Answer
    <3>7. QED BY <2>6, <3>1, <3>2, <3>3, <3>4, <3>5, <3>6 DEF Kill, Revoke, Bump
  <2>7. CASE Abort(r)
    BY <2>2, <2>7 DEF Abort
  <2>8. QED BY <2>3, <2>4, <2>5, <2>6, <2>7 DEF Acts
<1>5. \E s \in Steps : pc' = [pc EXCEPT ![r] = s]
  <2> USE DEF Goto, End, Steps
  <2>1. CASE Login(r)
    BY <2>1 DEF Login, LoginReadsUser, LoginIssues
  <2>2. CASE Refresh(r)
    BY <2>2 DEF Refresh, RefreshArrives, RefreshChecksBlocklist, RefreshReadsUser, RotateLocks,
       Rotate
  <2>3. CASE Arrive(r)
    BY <2>3 DEF Arrive, GuardedArrives, ResetArrives
  <2>4. CASE Guard(r) \/ UpdatePassword(r) \/ Revoke(r) \/ SeeLiveRows(r) \/ RevokeAll(r)
    BY <2>4 DEF Guard, UpdatePassword, Revoke, SeeLiveRows, RevokeAll
  <2>5. CASE Bump(r) \/ ErrorDropped(r) \/ BanRefresh(r) \/ BanAccess(r) \/ Answer(r)
    BY <2>5 DEF Bump, ErrorDropped, AfterBump, BanRefresh, BanAccess, Answer
  <2>6. CASE Abort(r)
    BY <2>6 DEF Abort
  <2>7. QED BY <2>1, <2>2, <2>3, <2>4, <2>5, <2>6 DEF Acts, Kill
<1>6. job' \in [Requests -> JobType]
  <2> DEFINE J == JobType
  <2> HIDE DEF J
  <2>1. job \in [Requests -> J] /\ (job' = job \/ (job'[r] \in J /\ job' = [job EXCEPT ![r] = job'[r]]))
    BY <1>1, <1>4 DEF RequestOK, J
  <2>2. job' \in [Requests -> J]
    BY <2>1
  <2>3. QED BY <2>2 DEF J
<1>7. pc' \in [Requests -> Steps]
  BY <1>1, <1>5 DEF RequestOK
<1>8. QED BY <1>6, <1>7 DEF RequestOK

LEMMA LockStep ==
    ASSUME TInv, NEW r \in Requests, Acts(r)
    PROVE  lockedBy' \in [Pairs -> Requests \cup {NoOne}] /\ LockOK'
<1>1. /\ lockedBy \in [Pairs -> Requests \cup {NoOne}] /\ LockOK /\ RequestOK /\ NoOne \notin Requests
  BY SessionsAssumption DEF TInv, TypeOK, StoreOK
\* Rows locked by others are left alone, and so are the others.
<1>2. ASSUME lockedBy' \in [Pairs -> Requests \cup {NoOne}],
             \A n \in Pairs : lockedBy'[n] # NoOne =>
                 \/ lockedBy'[n] = lockedBy[n] /\ lockedBy[n] # r
                 \/ lockedBy'[n] = r /\ pc'[r] = "rotate" /\ job'[r].refresh = n
      PROVE  LockOK'
  <2>1. ASSUME NEW n \in Pairs, lockedBy'[n] # NoOne
        PROVE  pc'[lockedBy'[n]] = "rotate" /\ job'[lockedBy'[n]].refresh = n
    <3>1. CASE lockedBy'[n] = r
      BY <1>2, <2>1, <3>1
    <3>2. CASE lockedBy'[n] # r
      <4>1. lockedBy'[n] = lockedBy[n] /\ lockedBy'[n] \in Requests
        BY <1>1, <1>2, <2>1, <3>2
      <4>2. pc'[lockedBy'[n]] = pc[lockedBy[n]] /\ job'[lockedBy'[n]] = job[lockedBy[n]]
        BY <1>1, <3>2, <4>1, OthersStay
      <4>3. QED BY <1>1, <2>1, <4>1, <4>2 DEF LockOK
    <3>3. QED BY <3>1, <3>2
  <2>2. QED BY <2>1 DEF LockOK
<1>3. CASE UNCHANGED lockedBy /\ pc[r] # "rotate"
  BY <1>1, <1>2, <1>3 DEF LockOK
<1>4. CASE RotateLocks(r)
  <2> DEFINE m == job[r].refresh
  <2>1. m \in Pairs
    BY <1>4, Typed DEF TInv, TypeOK, JobInv, JobOK, RotateLocks
  <2>2. CASE pairs[m].live
    <3>1. lockedBy' = [lockedBy EXCEPT ![m] = r] /\ pc'[r] = "rotate" /\ job'[r].refresh = m
          /\ pc[r] # "rotate"
      BY <1>1, <1>4, <2>2 DEF RotateLocks, Goto, RequestOK
    <3>2. lockedBy' \in [Pairs -> Requests \cup {NoOne}]
      BY <1>1, <3>1
    <3>3. ASSUME NEW n \in Pairs, lockedBy'[n] # NoOne
          PROVE  \/ lockedBy'[n] = lockedBy[n] /\ lockedBy[n] # r
                 \/ lockedBy'[n] = r /\ pc'[r] = "rotate" /\ job'[r].refresh = n
      BY <1>1, <2>1, <3>1, <3>3 DEF LockOK
    <3>4. QED BY <1>2, <3>2, <3>3
  <2>3. CASE ~ pairs[m].live
    BY <1>3, <1>4, <2>3 DEF RotateLocks
  <2>4. QED BY <2>2, <2>3
<1>5. CASE Rotate(r)
  <2>1. lockedBy' = [lockedBy EXCEPT ![job[r].refresh] = NoOne]
    BY <1>5 DEF Rotate
  <2>2. QED BY <1>1, <1>2, <2>1 DEF LockOK
<1>6. CASE Abort(r)
  <2>1. lockedBy' = [n \in Pairs |-> IF lockedBy[n] = r THEN NoOne ELSE lockedBy[n]]
    BY <1>6 DEF Abort
  <2>2. QED BY <1>1, <1>2, <2>1
<1>7. CASE Login(r)
  BY <1>3, <1>7 DEF Login, LoginReadsUser, LoginIssues, storeVars
<1>8. CASE Refresh(r)
  BY <1>3, <1>4, <1>5, <1>8 DEF Refresh, RefreshArrives, RefreshChecksBlocklist, RefreshReadsUser,
     storeVars
<1>9. CASE Arrive(r)
  BY <1>3, <1>9 DEF Arrive, GuardedArrives, ResetArrives, storeVars
<1>10. CASE Kill(r)
  BY <1>3, <1>10 DEF Kill, Guard, UpdatePassword, Revoke, SeeLiveRows, RevokeAll, Bump,
     ErrorDropped, BanRefresh, BanAccess, Answer, storeVars
<1>11. QED BY <1>6, <1>7, <1>8, <1>9, <1>10 DEF Acts

\* A request that does not step keeps what it knows.
LEMMA JobStays ==
    ASSUME TInv, NEW q \in Requests, pc'[q] = pc[q], job'[q] = job[q],
           Issued \subseteq Issued', Kept, tokenVersion \in Nat, tokenVersion' \in Nat,
           tokenVersion <= tokenVersion', logins' \in Nat, logins <= logins'
    PROVE  JobOK(q)'
<1>1. JobOK(q) /\ logins \in Nat /\ job[q].mark \in Nat
  BY JobTyped DEF TInv, TypeOK, JobInv, CountOK
<1>2. QED BY <1>1 DEF JobOK, Kept

LEMMA NoJobOK == ASSUME TInv, NEW r \in Requests, Acts(r), End(r) PROVE JobOK(r)'
<1>1. pc'[r] = "idle" /\ job'[r] = NoJob /\ logins' \in Nat
  BY Counted DEF TInv, TypeOK, RequestOK, End, Goto, CountOK
<1>2. QED BY <1>1 DEF JobOK, NoJob, Guarded

LEMMA JobStep ==
    ASSUME TInv, NEW r \in Requests, Acts(r)
    PROVE  JobOK(r)'
<1>1. /\ RequestOK /\ JobOK(r) /\ PairInv /\ Issued \subseteq Issued' /\ Kept
      /\ tokenVersion \in Nat \ {0} /\ tokenVersion' \in Nat /\ tokenVersion <= tokenVersion'
      /\ logins \in Nat /\ logins' \in Nat /\ logins <= logins' /\ job[r].mark \in Nat
  <2>1. RequestOK /\ JobOK(r) /\ PairInv /\ Issued \subseteq Issued' /\ Kept
    BY Grow DEF TInv, TypeOK, JobInv, Grows
  <2>2. tokenVersion \in Nat \ {0} /\ tokenVersion' \in Nat /\ tokenVersion <= tokenVersion'
    BY VersionGrows DEF TInv, TypeOK, StoreOK
  <2>3. logins \in Nat /\ logins' \in Nat /\ logins <= logins'
    BY Counted DEF TInv, TypeOK, CountOK
  <2>4. QED BY <2>1, <2>2, <2>3, JobTyped DEF TInv, TypeOK
<1>2. CASE End(r)
  BY <1>2, NoJobOK
<1>3. CASE Login(r)
  <2>1. CASE LoginReadsUser(r)
    <3>1. pc'[r] = "insert" /\ job'[r] = [NoJob EXCEPT !.kind = "login", !.ver = tokenVersion,
                                                       !.login = logins + 1]
          /\ logins' = logins + 1 /\ tokenVersion' = tokenVersion
      BY <1>1, <2>1 DEF LoginReadsUser, RequestOK, Goto, storeVars
    <3>2. /\ job'[r].kind = "login" /\ job'[r].mark = 0
          /\ job'[r].ver = tokenVersion /\ job'[r].login = logins + 1
      BY <3>1 DEF NoJob
    <3>3. QED BY <1>1, <3>1, <3>2 DEF JobOK, Guarded
  <2>2. QED BY <1>2, <1>3, <2>1 DEF Login, LoginIssues
<1>4. CASE Refresh(r)
  <2>1. CASE \E n \in Issued : RefreshArrives(r, n)
    <3>1. PICK n \in Issued : RefreshArrives(r, n)
      BY <2>1
    <3>2. pc'[r] = "blocklist" /\ job'[r] = [NoJob EXCEPT !.kind = "refresh", !.refresh = n]
      BY <1>1, <3>1 DEF RefreshArrives, RequestOK, Goto
    <3>3. job'[r].kind = "refresh" /\ job'[r].mark = 0 /\ job'[r].refresh = n
      BY <3>2 DEF NoJob
    <3>4. QED BY <1>1, <3>2, <3>3 DEF JobOK, Guarded
  <2>2. CASE RefreshChecksBlocklist(r)
    <3>1. End(r) \/ (pc'[r] = "user" /\ job' = job /\ pc[r] = "blocklist")
      BY <1>1, <2>2 DEF RefreshChecksBlocklist, RequestOK, Goto
    <3>2. QED BY <1>1, <1>2, <3>1 DEF JobOK
  <2>3. CASE RefreshReadsUser(r)
    <3>1. CASE pairs[job[r].refresh].ver = tokenVersion
      <4>1. /\ pc[r] = "user" /\ pc'[r] = "lock" /\ job'[r] = [job[r] EXCEPT !.ver = tokenVersion]
            /\ pairs' = pairs
        BY <1>1, <2>3, <3>1 DEF RefreshReadsUser, RequestOK, Goto, storeVars
      <4>2. /\ job'[r].kind = job[r].kind /\ job'[r].mark = job[r].mark
            /\ job'[r].refresh = job[r].refresh /\ job'[r].access = job[r].access
            /\ job'[r].ver = tokenVersion
        BY <1>1, <4>1 DEF RequestOK, JobType
      <4>3. QED BY <1>1, <3>1, <4>1, <4>2 DEF JobOK
    <3>2. QED BY <1>2, <2>3, <3>1 DEF RefreshReadsUser
  <2>4. CASE RotateLocks(r)
    <3>1. CASE pairs[job[r].refresh].live
      <4>1. pc[r] = "lock" /\ pc'[r] = "rotate" /\ job' = job /\ pairs' = pairs
        BY <1>1, <2>4, <3>1 DEF RotateLocks, RequestOK, Goto
      <4>2. QED BY <1>1, <4>1 DEF JobOK
    <3>2. CASE ~ pairs[job[r].refresh].live
      <4>1. /\ pc'[r] = "snapshot" /\ job'[r] = [job[r] EXCEPT !.kind = "reuse", !.mark = logins]
            /\ logins' = logins
        BY <1>1, <2>4, <3>2 DEF RotateLocks, RequestOK, Goto, historyVars
      <4>2. job'[r].kind = "reuse" /\ job'[r].mark = logins
        BY <1>1, <4>1 DEF RequestOK, JobType
      <4>3. QED BY <1>1, <4>1, <4>2 DEF JobOK, Guarded
    <3>3. QED BY <3>1, <3>2
  <2>5. CASE Rotate(r)
    <3>1. pc[r] = "rotate" /\ pc'[r] = "banRefresh" /\ job' = job
      BY <1>1, <2>5 DEF Rotate, RequestOK, Goto
    <3>2. QED BY <1>1, <3>1 DEF JobOK
  <2>6. QED BY <1>4, <2>1, <2>2, <2>3, <2>4, <2>5 DEF Refresh
<1>5. CASE Arrive(r)
  <2>1. CASE \E k \in Guarded, n \in Issued : GuardedArrives(r, k, n)
    <3>1. PICK k \in Guarded : \E n \in Issued : GuardedArrives(r, k, n)
      BY <2>1
    <3>2. PICK n \in Issued : GuardedArrives(r, k, n)
      BY <3>1
    <3>3. pc'[r] = "guard" /\ job'[r] = [NoJob EXCEPT !.kind = k, !.access = n]
      BY <1>1, <3>2 DEF GuardedArrives, RequestOK, Goto
    <3>4. job'[r].kind = k /\ job'[r].mark = 0 /\ job'[r].access = n
      BY <3>3 DEF NoJob
    <3>5. QED BY <1>1, <3>3, <3>4 DEF JobOK
  <2>2. CASE ResetArrives(r)
    <3>1. pc'[r] = "password" /\ job'[r] = [NoJob EXCEPT !.kind = "reset"]
      BY <1>1, <2>2 DEF ResetArrives, RequestOK, Goto
    <3>2. job'[r].kind = "reset" /\ job'[r].mark = 0
      BY <3>1 DEF NoJob
    <3>3. QED BY <1>1, <3>1, <3>2 DEF JobOK, Guarded
  <2>3. QED BY <1>5, <2>1, <2>2 DEF Arrive
<1>6. CASE Kill(r)
  <2>1. CASE Guard(r)
    <3>1. CASE \E n \in Issued : job' = [job EXCEPT ![r].refresh = n] /\ Goto(r, "revoke")
                                 /\ pc[r] = "guard"
      <4>1. PICK n \in Issued : job' = [job EXCEPT ![r].refresh = n] /\ Goto(r, "revoke")
        BY <3>1
      <4>2. /\ pc'[r] = "revoke" /\ job'[r].refresh = n /\ job'[r].kind = job[r].kind
            /\ job'[r].access = job[r].access /\ job'[r].mark = job[r].mark
        BY <1>1, <4>1 DEF RequestOK, Goto, JobType
      <4>3. QED BY <1>1, <4>2 DEF JobOK
    <3>2. CASE job' = [job EXCEPT ![r].mark = logins] /\ Goto(r, "snapshot")
      <4>1. /\ pc'[r] = "snapshot" /\ job'[r].kind = job[r].kind
            /\ job'[r].access = job[r].access /\ job'[r].mark = logins
        BY <1>1, <3>2 DEF RequestOK, Goto, JobType
      <4>2. QED BY <1>1, <4>1 DEF JobOK
    <3>3. CASE UNCHANGED job /\ Goto(r, "password")
      <4>1. pc'[r] = "password" /\ job' = job
        BY <1>1, <3>3 DEF RequestOK, Goto
      <4>2. QED BY <1>1, <4>1 DEF JobOK
    <3>4. QED BY <1>2, <2>1, <3>1, <3>2, <3>3 DEF Guard
  <2>2. CASE UpdatePassword(r)
    <3>1. /\ pc'[r] = "snapshot" /\ job'[r].kind = job[r].kind
          /\ job'[r].access = job[r].access /\ job'[r].mark = logins
      BY <1>1, <2>2 DEF UpdatePassword, RequestOK, Goto, JobType
    <3>2. QED BY <1>1, <3>1 DEF JobOK
  <2>3. CASE Revoke(r)
    <3>1. pc[r] = "revoke" /\ pc'[r] = "banRefresh" /\ job' = job
      BY <1>1, <2>3 DEF Revoke, RequestOK, Goto
    <3>2. QED BY <1>1, <3>1 DEF JobOK
  <2>4. CASE SeeLiveRows(r)
    <3>1. /\ pc'[r] = "revokeAll" /\ job'[r].kind = job[r].kind
          /\ job'[r].access = job[r].access /\ job'[r].mark = job[r].mark
      BY <1>1, <2>4 DEF SeeLiveRows, RequestOK, Goto, JobType
    <3>2. QED BY <1>1, <3>1 DEF JobOK
  <2>5. CASE RevokeAll(r)
    <3>1. /\ pc'[r] = "bump" /\ job'[r].kind = job[r].kind
          /\ job'[r].access = job[r].access /\ job'[r].mark = job[r].mark
      BY <1>1, <2>5 DEF RevokeAll, RequestOK, Goto, JobType
    <3>2. QED BY <1>1, <3>1 DEF JobOK
  <2>6. CASE Bump(r)
    <3>1. pc'[r] = AfterBump(job[r].kind) /\ job' = job
      BY <1>1, <2>6 DEF Bump, RequestOK, Goto, AfterBump, Steps
    <3>2. QED BY <1>1, <3>1 DEF JobOK, AfterBump
  <2>7. CASE ErrorDropped(r)
    <3>1. /\ pc'[r] = "bump" \/ pc'[r] = AfterBump(job[r].kind)
          /\ job'[r].kind = job[r].kind
          /\ job'[r].access = job[r].access /\ job'[r].mark = job[r].mark
      BY <1>1, <2>7 DEF ErrorDropped, RequestOK, Goto, AfterBump, Steps, JobType
    <3>2. QED BY <1>1, <3>1 DEF JobOK, AfterBump
  <2>8. CASE BanRefresh(r)
    <3>1. End(r) \/ (pc'[r] = "banAccess" /\ job' = job /\ job[r].kind = "logout")
      BY <1>1, <2>8 DEF BanRefresh, RequestOK, Goto
    <3>2. QED BY <1>1, <1>2, <3>1 DEF JobOK, Guarded
  <2>9. CASE BanAccess(r)
    <3>1. End(r) \/ (pc'[r] = "answer" /\ job' = job)
      BY <1>1, <2>9 DEF BanAccess, RequestOK, Goto
    <3>2. QED BY <1>1, <1>2, <3>1 DEF JobOK
  <2>10. QED BY <1>2, <1>6, <2>1, <2>2, <2>3, <2>4, <2>5, <2>6, <2>7, <2>8, <2>9 DEF Kill, Answer
<1>7. CASE Abort(r)
  BY <1>2, <1>7 DEF Abort
<1>8. QED BY <1>3, <1>4, <1>5, <1>6, <1>7 DEF Acts

LEMMA PairStep ==
    ASSUME TInv, NEW r \in Requests, Acts(r)
    PROVE  PairInv'
<1>1. /\ Kept /\ PairInv /\ JobOK(r)
      /\ tokenVersion \in Nat /\ tokenVersion' \in Nat /\ tokenVersion <= tokenVersion'
      /\ logins \in Nat /\ logins' \in Nat /\ logins <= logins'
  <2>1. Kept /\ PairInv /\ JobOK(r)
    BY Grow DEF TInv, JobInv, Grows
  <2>2. tokenVersion \in Nat /\ tokenVersion' \in Nat /\ tokenVersion <= tokenVersion'
    BY VersionGrows DEF TInv, TypeOK, StoreOK
  <2>3. logins \in Nat /\ logins' \in Nat /\ logins <= logins'
    BY Counted DEF TInv, TypeOK, CountOK
  <2>4. QED BY <2>1, <2>2, <2>3
<1>2. \A n \in Issued : pairs[n].login \in Nat /\ pairs[n].ver \in Nat
  <2>1. StoreOK
    BY DEF TInv, TypeOK
  <2>2. QED BY <2>1, Typed
<1>3. ASSUME NEW n \in Issued
      PROVE  pairs'[n].login <= logins' /\ pairs'[n].ver <= tokenVersion'
  <2>1. pairs'[n].login = pairs[n].login /\ pairs'[n].ver = pairs[n].ver
    BY <1>1 DEF Kept
  <2>2. pairs[n].login <= logins /\ pairs[n].ver <= tokenVersion
    BY <1>1 DEF PairInv
  <2>3. QED BY <1>1, <1>2, <2>1, <2>2
<1>4. ASSUME NEW n \in Issued' \ Issued
      PROVE  pairs'[n].login <= logins' /\ pairs'[n].ver <= tokenVersion'
  <2>1. CASE /\ pc[r] = "insert"
             /\ pairs'[n] = [login |-> job[r].login, ver |-> job[r].ver, live |-> TRUE]
    BY <1>1, <2>1 DEF JobOK
  <2>2. CASE pc[r] = "rotate" /\ pairs'[n] = NewPair(r)
    <3>1. /\ pairs'[n].login = pairs[job[r].refresh].login
          /\ pairs'[n].ver = pairs[job[r].refresh].ver /\ job[r].refresh \in Issued
      BY <1>1, <2>2 DEF JobOK, NewPair
    <3>2. /\ pairs[job[r].refresh].login <= logins
          /\ pairs[job[r].refresh].ver <= tokenVersion
      BY <1>1, <3>1 DEF PairInv
    <3>3. QED BY <1>1, <1>2, <3>1, <3>2
  <2>3. QED BY <2>1, <2>2, Grow DEF Grows
<1>5. QED BY <1>3, <1>4 DEF PairInv

-----------------------------------------------------------------------------
(* Type correctness.                                                       *)

LEMMA TInit == Init => TInv
<1> SUFFICES ASSUME Init PROVE TInv
  OBVIOUS
<1> USE SessionsAssumption DEF Init
<1>1. Issued = {} /\ Len(pairs) = 0
  BY DEF Issued
<1>2. RequestOK
  BY DEF RequestOK, JobType, NoJob, Steps, Kinds
<1>3. StoreOK /\ LockOK /\ CountOK
  BY <1>1 DEF StoreOK, LockOK, CountOK
<1>4. JobInv
  <2>1. ASSUME NEW r \in Requests
        PROVE  JobOK(r)
    <3>1. pc[r] = "idle" /\ job[r].kind = "none" /\ job[r].mark = 0 /\ logins = 0
      BY DEF NoJob
    <3>2. QED BY <3>1 DEF JobOK, Guarded
  <2>2. QED BY <2>1 DEF JobInv
<1>5. PairInv
  BY <1>1 DEF PairInv
<1>6. QED BY <1>2, <1>3, <1>4, <1>5 DEF TInv, TypeOK

LEMMA TActs ==
    ASSUME TInv, NEW r \in Requests, Acts(r)
    PROVE  TInv'
<1>1. StoreOK'
  BY Grow, VersionGrows, LockStep DEF Grows, StoreOK
<1>2. JobInv'
  <2>1. ASSUME NEW q \in Requests, q # r
        PROVE  JobOK(q)'
    <3>1. pc'[q] = pc[q] /\ job'[q] = job[q]
      BY <2>1, OthersStay DEF TInv, TypeOK
    <3>2. Issued \subseteq Issued' /\ Kept
      BY Grow DEF Grows
    <3>3. /\ tokenVersion \in Nat /\ tokenVersion' \in Nat /\ tokenVersion <= tokenVersion'
          /\ logins' \in Nat /\ logins <= logins'
      BY VersionGrows, Counted DEF TInv, TypeOK, StoreOK, CountOK
    <3>4. QED BY <2>1, <3>1, <3>2, <3>3, JobStays
  <2>2. QED BY <2>1, JobStep DEF JobInv
<1>3. QED BY <1>1, <1>2, LockStep, RequestStep, Counted, PairStep DEF TInv, TypeOK

\* A role change.
LEMMA TUpdateRole ==
    ASSUME TInv, UpdateRole
    PROVE  TInv' /\ tokenVersion' = tokenVersion + 1 /\ Issued' = Issued
<1>1. tokenVersion \in 1..MaxVersion /\ tokenVersion' = tokenVersion + 1
      /\ tokenVersion' \in 1..MaxVersion
  BY SessionsAssumption DEF TInv, TypeOK, StoreOK, UpdateRole
<1>2. StoreOK' /\ LockOK' /\ RequestOK' /\ CountOK'
  BY <1>1 DEF TInv, TypeOK, StoreOK, LockOK, RequestOK, CountOK, UpdateRole, redisVars,
     requestVars, historyVars
<1>3. JobInv' /\ Issued' = Issued
  <2>1. ASSUME NEW q \in Requests
        PROVE  JobOK(q)'
    BY <1>1, JobTyped DEF TInv, TypeOK, JobInv, JobOK, Issued, UpdateRole, requestVars, historyVars
  <2>2. QED BY <2>1 DEF JobInv, Issued, UpdateRole
<1>4. PairInv'
  <2>1. \A n \in Issued : pairs[n].ver \in Nat
    <3>1. StoreOK
      BY DEF TInv, TypeOK
    <3>2. QED BY <3>1, Typed
  <2>2. QED BY <1>1, <2>1 DEF TInv, PairInv, Issued, UpdateRole, historyVars
<1>5. QED BY <1>1, <1>2, <1>3, <1>4 DEF TInv, TypeOK

LEMMA TStutter == ASSUME TInv, UNCHANGED vars PROVE TInv'
  BY DEF TInv, TypeOK, StoreOK, LockOK, RequestOK, CountOK, JobInv, JobOK, PairInv, Issued,
     vars, storeVars, redisVars, requestVars, historyVars

LEMMA TNext == TInv /\ [Next]_vars => TInv'
  BY NextSplit, TActs, TUpdateRole, TStutter

\* The tables, the requests and the counters keep their types and a row is locked
\* only by a rotation that is under way (refresh_store.go Rotate: every path out
\* of the transaction ends it).
THEOREM TypeCorrect == Spec => []TypeOK
<1>1. Spec => []TInv
  BY TInit, TNext, PTL DEF Spec
<1>2. TInv => TypeOK
  BY DEF TInv
<1>3. QED BY <1>1, <1>2, PTL

-----------------------------------------------------------------------------
(* An answered kill has ended the sessions of the logins before it.        *)

\* No pair of the first m logins is accepted, nor will one be: a login of them
\* that has yet to issue its pair holds an old token_version.  A rotation in
\* flight issues a pair with the claim of the pair that it replaces (JobOK).
Ended(m) ==
    /\ \A n \in Issued : pairs[n].login <= m => pairs[n].ver < tokenVersion
    /\ \A r \in Requests : pc[r] = "insert" /\ job[r].login <= m => job[r].ver < tokenVersion

\* A kill that has passed its last database call and none failed.
Through(r) == /\ pc[r] = "answer" \/ (pc[r] = "banAccess" /\ job[r].kind \in Kills)
              /\ ~ job[r].failed

KillInv == Ended(sealed) /\ \A r \in Requests : Through(r) => Ended(job[r].mark)

\* What has ended stays so.
LEMMA EndedStays ==
    ASSUME TInv, NEW r \in Requests, Acts(r), NEW m \in 0..logins, Ended(m)
    PROVE  Ended(m)'
<1>1. /\ RequestOK /\ StoreOK /\ JobOK(r) /\ Kept /\ Grows(r)
      /\ tokenVersion \in Nat /\ tokenVersion' \in Nat /\ tokenVersion <= tokenVersion'
  <2>1. RequestOK /\ StoreOK /\ JobOK(r) /\ Kept /\ Grows(r)
    BY Grow DEF TInv, TypeOK, JobInv, Grows
  <2>2. tokenVersion \in Nat /\ tokenVersion' \in Nat /\ tokenVersion <= tokenVersion'
    BY VersionGrows DEF TInv, TypeOK, StoreOK
  <2>3. QED BY <2>1, <2>2
<1>2. \A n \in Issued : pairs[n].login \in Nat /\ pairs[n].ver \in Nat
  BY <1>1, Typed
<1>3. logins \in Nat /\ m \in Nat /\ m <= logins
  BY DEF TInv, TypeOK, CountOK
<1>4. ASSUME NEW n \in Issued, pairs'[n].login <= m
      PROVE  pairs'[n].ver < tokenVersion'
  <2>1. pairs'[n].login = pairs[n].login /\ pairs'[n].ver = pairs[n].ver
    BY <1>1 DEF Kept
  <2>2. pairs[n].ver < tokenVersion
    BY <1>4, <2>1 DEF Ended
  <2>3. QED BY <1>1, <1>2, <2>1, <2>2
<1>5. ASSUME NEW n \in Issued' \ Issued, pairs'[n].login <= m
      PROVE  pairs'[n].ver < tokenVersion'
  <2>1. CASE /\ pc[r] = "insert"
             /\ pairs'[n] = [login |-> job[r].login, ver |-> job[r].ver, live |-> TRUE]
    <3>1. pairs'[n].login = job[r].login /\ pairs'[n].ver = job[r].ver /\ job[r].ver \in Nat
      BY <1>1, <2>1, JobTyped
    <3>2. job[r].ver < tokenVersion
      BY <1>5, <2>1, <3>1 DEF Ended
    <3>3. QED BY <1>1, <3>1, <3>2
  <2>2. CASE pc[r] = "rotate" /\ pairs'[n] = NewPair(r)
    <3>1. /\ pairs'[n].login = pairs[job[r].refresh].login
          /\ pairs'[n].ver = pairs[job[r].refresh].ver /\ job[r].refresh \in Issued
      BY <1>1, <2>2 DEF JobOK, NewPair
    <3>2. pairs[job[r].refresh].ver < tokenVersion
      BY <1>5, <3>1 DEF Ended
    <3>3. QED BY <1>1, <1>2, <3>1, <3>2
  <2>3. QED BY <1>1, <2>1, <2>2 DEF Grows
<1>6. ASSUME NEW q \in Requests, pc'[q] = "insert", job'[q].login <= m
      PROVE  job'[q].ver < tokenVersion'
  <2>1. CASE q # r
    <3>1. pc'[q] = pc[q] /\ job'[q] = job[q] /\ job[q].ver \in Nat
      BY <1>1, <2>1, OthersStay, JobTyped
    <3>2. job[q].ver < tokenVersion
      BY <1>6, <3>1 DEF Ended
    <3>3. QED BY <1>1, <3>1, <3>2
  <2>2. CASE q = r
    <3>1. LoginReadsUser(r)
      <4> USE DEF Goto, End, RequestOK
      <4>1. CASE Login(r)
        BY <1>1, <1>6, <2>2, <4>1 DEF Login, LoginIssues
      <4>2. CASE Refresh(r)
        BY <1>1, <1>6, <2>2, <4>2 DEF Refresh, RefreshArrives, RefreshChecksBlocklist,
           RefreshReadsUser, RotateLocks, Rotate
      <4>3. CASE Arrive(r)
        BY <1>1, <1>6, <2>2, <4>3 DEF Arrive, GuardedArrives, ResetArrives
      <4>4. CASE Guard(r) \/ UpdatePassword(r) \/ Revoke(r) \/ SeeLiveRows(r) \/ RevokeAll(r)
        BY <1>1, <1>6, <2>2, <4>4 DEF Guard, UpdatePassword, Revoke, SeeLiveRows, RevokeAll
      <4>5. CASE Bump(r) \/ ErrorDropped(r) \/ BanRefresh(r) \/ BanAccess(r) \/ Answer(r)
        BY <1>1, <1>6, <2>2, <4>5 DEF Bump, ErrorDropped, AfterBump, BanRefresh, BanAccess, Answer
      <4>6. CASE Abort(r)
        BY <1>1, <1>6, <2>2, <4>6 DEF Abort
      <4>7. QED BY <4>1, <4>2, <4>3, <4>4, <4>5, <4>6 DEF Acts, Kill
    <3>2. job'[r].login = logins + 1
      BY <1>1, <3>1 DEF LoginReadsUser, RequestOK, NoJob
    <3>3. QED BY <1>3, <1>6, <2>2, <3>2
  <2>3. QED BY <2>1, <2>2
<1>7. QED BY <1>4, <1>5, <1>6 DEF Ended

\* A bump ends everything so far, whatever the other requests hold.
LEMMA BumpEnds ==
    ASSUME TInv, NEW r \in Requests, Acts(r), Bump(r), NEW m
    PROVE  Ended(m)'
<1>1. /\ tokenVersion \in Nat /\ tokenVersion' = tokenVersion + 1
      /\ pairs' = pairs /\ Issued' = Issued /\ job' = job
  BY DEF TInv, TypeOK, StoreOK, Bump, Issued
<1>2. \A n \in Issued : pairs[n].ver \in Nat /\ pairs[n].ver <= tokenVersion
  BY Typed DEF TInv, TypeOK, PairInv
<1>3. ASSUME NEW q \in Requests, pc'[q] = "insert"
      PROVE  job[q].ver \in Nat /\ job[q].ver <= tokenVersion
  <2>1. pc[q] = "insert"
    BY <1>3 DEF TInv, TypeOK, RequestOK, Bump, Goto, AfterBump
  <2>2. QED BY <1>1, <2>1 DEF TInv, JobInv, JobOK
<1>4. QED BY <1>1, <1>2, <1>3 DEF Ended

\* A request gets through by a bump, or was through with the same mark.
LEMMA GetsThrough ==
    ASSUME TInv, NEW r \in Requests, Acts(r), Through(r)'
    PROVE  Bump(r) \/ (Through(r) /\ job'[r].mark = job[r].mark)
<1>1. RequestOK /\ JobOK(r) /\ pc'[r] \in {"answer", "banAccess"}
  BY DEF TInv, TypeOK, JobInv, Through
<1> USE DEF Goto, End, RequestOK
<1>2. CASE Login(r)
  BY <1>1, <1>2 DEF Login, LoginReadsUser, LoginIssues
<1>3. CASE Refresh(r)
  BY <1>1, <1>3 DEF Refresh, RefreshArrives, RefreshChecksBlocklist, RefreshReadsUser,
     RotateLocks, Rotate
<1>4. CASE Arrive(r)
  BY <1>1, <1>4 DEF Arrive, GuardedArrives, ResetArrives
<1>5. CASE Guard(r) \/ UpdatePassword(r) \/ Revoke(r) \/ SeeLiveRows(r) \/ RevokeAll(r)
  BY <1>1, <1>5 DEF Guard, UpdatePassword, Revoke, SeeLiveRows, RevokeAll
<1>6. CASE ErrorDropped(r)
  <2>1. job[r] \in JobType /\ job'[r] = [job[r] EXCEPT !.failed = TRUE, !.rows = {}]
    BY <1>6 DEF ErrorDropped, TInv, TypeOK
  <2>2. job'[r].failed = TRUE
    BY <2>1 DEF JobType
  <2>3. QED BY <2>2 DEF Through
<1>7. CASE BanRefresh(r)
  <2>1. \/ pc'[r] = "idle"
        \/ pc'[r] = "banAccess" /\ job' = job /\ job[r].kind = "logout"
    BY <1>1, <1>7 DEF BanRefresh
  <2>2. QED BY <1>1, <2>1 DEF Through, Kills
<1>8. CASE BanAccess(r)
  <2>1. \/ pc'[r] = "idle"
        \/ pc[r] = "banAccess" /\ pc'[r] = "answer" /\ job' = job /\ job[r].kind # "logout"
    BY <1>1, <1>8 DEF BanAccess
  <2>2. pc[r] = "banAccess" => job[r].kind \in Guarded
    BY <1>1 DEF JobOK
  <2>3. QED BY <1>1, <2>1, <2>2 DEF Through, Kills, Guarded
<1>9. CASE Answer(r) \/ Abort(r)
  BY <1>1, <1>9 DEF Answer, Abort
<1>10. QED BY <1>2, <1>3, <1>4, <1>5, <1>6, <1>7, <1>8, <1>9 DEF Acts, Kill

LEMMA KillActs ==
    ASSUME TInv, KillInv, NEW r \in Requests, Acts(r)
    PROVE  KillInv'
<1>1. RequestOK /\ sealed \in 0..logins
  BY DEF TInv, TypeOK, CountOK
<1>2. \A q \in Requests : job[q].mark \in 0..logins
  BY JobTyped DEF TInv, TypeOK, CountOK, JobInv, JobOK
<1>3. Ended(sealed)'
  <2>1. CASE sealed' = sealed
    <3>1. Ended(sealed)
      BY DEF KillInv
    <3>2. \A m \in 0..logins : Ended(m) => Ended(m)'
      BY EndedStays
    <3>3. QED BY <1>1, <2>1, <3>1, <3>2 DEF Ended
  <2>2. CASE Answer(r) /\ sealed' # sealed
    <3>1. sealed' = job[r].mark /\ Through(r)
      BY <2>2 DEF Answer, Through
    <3>2. Ended(job[r].mark)
      BY <3>1 DEF KillInv
    <3>3. \A m \in 0..logins : Ended(m) => Ended(m)'
      BY EndedStays
    <3>4. QED BY <1>2, <3>1, <3>2, <3>3 DEF Ended
  <2>3. QED BY <2>1, <2>2, Counted
<1>4. ASSUME NEW q \in Requests, Through(q)'
      PROVE  Ended(job[q].mark)'
  <2>1. CASE Bump(r)
    <3>1. \A m : Ended(m)'
      BY <2>1, BumpEnds
    <3>2. QED BY <3>1 DEF Ended
  <2>2. CASE ~ Bump(r)
    <3>1. Through(q) /\ job'[q].mark = job[q].mark
      <4>1. CASE q = r
        BY <1>4, <2>2, <4>1, GetsThrough
      <4>2. CASE q # r
        BY <1>1, <1>4, <4>2, OthersStay DEF Through
      <4>3. QED BY <4>1, <4>2
    <3>2. Ended(job[q].mark)
      BY <3>1 DEF KillInv
    <3>3. \A m \in 0..logins : Ended(m) => Ended(m)'
      BY EndedStays
    <3>4. QED BY <1>2, <3>1, <3>2, <3>3 DEF Ended
  <2>3. QED BY <2>1, <2>2
<1>5. QED BY <1>3, <1>4 DEF KillInv

LEMMA KillUpdateRole ==
    ASSUME TInv, KillInv, UpdateRole
    PROVE  KillInv'
<1>1. /\ tokenVersion \in Nat /\ tokenVersion' = tokenVersion + 1 /\ Issued' = Issued
      /\ UNCHANGED <<pairs, pc, job, sealed>>
  BY TUpdateRole DEF TInv, TypeOK, StoreOK, UpdateRole, requestVars, historyVars
<1>2. \A n \in Issued : pairs[n].ver \in Nat
  BY Typed DEF TInv, TypeOK
<1>3. \A r \in Requests : job[r].ver \in Nat
  <2>1. RequestOK /\ MaxVersion \in Nat
    BY SessionsAssumption DEF TInv, TypeOK
  <2>2. ASSUME NEW r \in Requests
        PROVE  job[r].ver \in Nat
    <3>1. job[r].ver \in 0..MaxVersion
      BY <2>1, JobTyped
    <3>2. QED BY <2>1, <3>1
  <2>3. QED BY <2>2
<1>4. ASSUME NEW m, Ended(m)
      PROVE  /\ \A n \in Issued' : pairs'[n].login <= m => pairs'[n].ver < tokenVersion'
             /\ \A r \in Requests : pc'[r] = "insert" /\ job'[r].login <= m =>
                    job'[r].ver < tokenVersion'
  BY <1>1, <1>2, <1>3, <1>4 DEF Ended
<1>5. QED BY <1>1, <1>4 DEF KillInv, Ended, Through

LEMMA KillStutter == ASSUME KillInv, UNCHANGED vars PROVE KillInv'
  BY DEF KillInv, Ended, Through, Issued, vars, storeVars, redisVars, requestVars, historyVars

\* An answered logout-all, password change, reset or detected reuse whose database
\* calls did not fail leaves no token of an earlier login that the guard or refresh
\* accepts, with any number of requests in flight (auth.go, account.go).
THEOREM KillsSessionsCorrect == Spec => []KillsSessions
<1>1. Init => KillInv
  <2> SUFFICES ASSUME Init PROVE KillInv
    OBVIOUS
  <2>1. Issued = {}
    BY DEF Init, Issued
  <2>2. \A r \in Requests : pc[r] = "idle"
    BY DEF Init
  <2>3. QED BY <2>1, <2>2 DEF KillInv, Ended, Through
<1>2. TInv /\ KillInv /\ [Next]_vars => KillInv'
  BY NextSplit, KillActs, KillUpdateRole, KillStutter
<1>3. TInv /\ KillInv => KillsSessions
  <2> SUFFICES ASSUME TInv, KillInv, NEW n \in Issued, pairs[n].login <= sealed
               PROVE  pairs[n].ver # tokenVersion
    BY DEF KillsSessions, Dead
  <2>1. pairs[n].ver < tokenVersion
    BY DEF KillInv, Ended
  <2>2. pairs[n].ver \in Nat /\ tokenVersion \in Nat
    BY Typed DEF TInv, TypeOK, StoreOK
  <2>3. QED BY <2>1, <2>2
<1>4. Spec => []TInv
  BY TInit, TNext, PTL DEF Spec
<1>5. QED BY <1>1, <1>2, <1>3, <1>4, PTL DEF Spec

-----------------------------------------------------------------------------
(* Sessions do not fork.                                                   *)

\* A rotation under way holds the lock of its row, and the row is live.
RotateInv == \A r \in Requests : pc[r] = "rotate" => /\ lockedBy[job[r].refresh] = r
                                                     /\ pairs[job[r].refresh].live

\* A login that is under way is like no other, issued or under way.
LoginInv ==
    \A r \in Requests : pc[r] = "insert" =>
        /\ \A n \in Issued : pairs[n].login # job[r].login
        /\ \A q \in Requests \ {r} : pc[q] = "insert" => job[q].login # job[r].login

LiveInv == RotateInv /\ LoginInv /\ OneLiveRowPerLogin

\* Only the rotation that holds a row locked may revoke it or give it free.
LEMMA LockedStays ==
    ASSUME TInv, RotateInv, NEW r \in Requests, Acts(r), NEW n \in Issued,
           lockedBy[n] \notin {NoOne, r}, pairs[n].live
    PROVE  lockedBy'[n] = lockedBy[n] /\ pairs'[n].live
<1>1. /\ StoreOK /\ RequestOK /\ n \in Pairs /\ pairs[n].live \in BOOLEAN
      /\ lockedBy \in [Pairs -> Requests \cup {NoOne}]
  <2>1. StoreOK /\ RequestOK
    BY DEF TInv, TypeOK
  <2>2. QED BY <2>1, Typed DEF StoreOK
<1>2. CASE UNCHANGED <<pairs, lockedBy>>
  BY <1>2
<1>3. CASE Login(r)
  <2>1. CASE LoginIssues(r)
    <3>1. lockedBy' = lockedBy /\ pairs'[n] = pairs[n]
      <4> DEFINE e == [login |-> job[r].login, ver |-> job[r].ver, live |-> TRUE]
                 P == PairType
      <4>1. pairs \in Seq(P) /\ lockedBy' = lockedBy /\ pairs' = Append(pairs, e)
        BY <1>1, <2>1 DEF LoginIssues, StoreOK
      <4>2. job[r].login \in 1..MaxLogins /\ job[r].ver \in 1..MaxVersion
        BY <2>1, InsertTyped
      <4>3. e \in P
        BY <4>2 DEF PairType
      <4>4. pairs'[n] = pairs[n]
        <5> HIDE DEF e, P
        <5>1. QED BY <4>1, <4>3, AppendProperties DEF Issued
      <4>5. QED BY <4>1, <4>4
    <3>2. QED BY <3>1
  <2>2. QED BY <1>2, <1>3, <2>1 DEF Login, LoginReadsUser, storeVars
<1>4. CASE Refresh(r)
  <2>1. CASE RotateLocks(r)
    BY <1>1, <2>1 DEF RotateLocks
  <2>2. CASE Rotate(r)
    <3>1. lockedBy[job[r].refresh] = r
      BY <2>2 DEF RotateInv, Rotate
    <3>2. pairs'[n].live = (pairs[n].live /\ n # job[r].refresh)
      BY <2>2, RotateGrows
    <3>3. lockedBy' = [lockedBy EXCEPT ![job[r].refresh] = NoOne]
      BY <2>2 DEF Rotate
    <3>4. QED BY <1>1, <3>1, <3>2, <3>3
  <2>3. QED BY <1>2, <1>4, <2>1, <2>2 DEF Refresh, RefreshArrives, RefreshChecksBlocklist,
        RefreshReadsUser, storeVars
<1>5. CASE Arrive(r)
  BY <1>2, <1>5 DEF Arrive, GuardedArrives, ResetArrives, storeVars
<1>6. CASE Kill(r)
  <2>1. CASE Revoke(r)
    <3> DEFINE m == job[r].refresh
    <3>1. m \in Issued /\ lockedBy[m] = NoOne /\ lockedBy' = lockedBy
      BY <2>1 DEF TInv, JobInv, JobOK, Revoke
    <3>2. pairs' = Revoked({m})
      BY <1>1, <2>1, <3>1, RevokedOne DEF Revoke
    <3>3. pairs'[n].live = (pairs[n].live /\ n \notin {m})
      <4> HIDE DEF m
      <4>1. QED BY <1>1, <3>2, RevokedSome
    <3>4. QED BY <3>1, <3>3
  <2>2. CASE RevokeAll(r)
    <3>1. \A m \in job[r].rows : lockedBy[m] = NoOne
      BY <2>2 DEF RevokeAll
    <3>2. pairs' = Revoked(job[r].rows) /\ lockedBy' = lockedBy
      BY <2>2 DEF RevokeAll, Revoked
    <3>3. pairs'[n].live = (pairs[n].live /\ n \notin job[r].rows)
      BY <1>1, <3>2, RevokedSome
    <3>4. QED BY <3>1, <3>2, <3>3
  <2>3. QED BY <1>2, <1>6, <2>1, <2>2 DEF Kill, Guard, UpdatePassword, SeeLiveRows, Bump,
        ErrorDropped, BanRefresh, BanAccess, Answer, storeVars
<1>7. CASE Abort(r)
  BY <1>1, <1>7 DEF Abort
<1>8. QED BY <1>3, <1>4, <1>5, <1>6, <1>7 DEF Acts

\* How a request comes to rotate or to insert.
LEMMA ComesToRotate ==
    ASSUME RequestOK, NEW r \in Requests, Acts(r), pc'[r] \in {"rotate", "insert"}
    PROVE  \/ RotateLocks(r) /\ pc'[r] = "rotate"
           \/ LoginReadsUser(r) /\ pc'[r] = "insert"
<1> USE DEF Goto, End, RequestOK
<1>1. CASE Login(r)
  BY <1>1 DEF Login, LoginReadsUser, LoginIssues
<1>2. CASE Refresh(r)
  BY <1>2 DEF Refresh, RefreshArrives, RefreshChecksBlocklist, RefreshReadsUser, RotateLocks, Rotate
<1>3. CASE Arrive(r)
  BY <1>3 DEF Arrive, GuardedArrives, ResetArrives
<1>4. CASE Guard(r) \/ UpdatePassword(r) \/ Revoke(r) \/ SeeLiveRows(r) \/ RevokeAll(r)
  BY <1>4 DEF Guard, UpdatePassword, Revoke, SeeLiveRows, RevokeAll
<1>5. CASE Bump(r) \/ ErrorDropped(r) \/ BanRefresh(r) \/ BanAccess(r) \/ Answer(r)
  BY <1>5 DEF Bump, ErrorDropped, AfterBump, BanRefresh, BanAccess, Answer
<1>6. CASE Abort(r)
  BY <1>6 DEF Abort
<1>7. QED BY <1>1, <1>2, <1>3, <1>4, <1>5, <1>6 DEF Acts, Kill

LEMMA RotateInvActs ==
    ASSUME TInv, RotateInv, NEW r \in Requests, Acts(r)
    PROVE  RotateInv'
<1>1. RequestOK /\ NoOne \notin Requests
  BY SessionsAssumption DEF TInv, TypeOK
<1>2. ASSUME NEW q \in Requests, pc'[q] = "rotate"
      PROVE  lockedBy'[job'[q].refresh] = q /\ pairs'[job'[q].refresh].live
  <2>1. CASE q = r
    <3>1. RotateLocks(r)
      BY <1>1, <1>2, <2>1, ComesToRotate
    <3>2. /\ pairs[job[r].refresh].live /\ lockedBy' = [lockedBy EXCEPT ![job[r].refresh] = r]
          /\ job' = job /\ pairs' = pairs
      BY <1>1, <1>2, <2>1, <3>1 DEF RotateLocks, Goto, RequestOK
    <3>3. job[r].refresh \in Pairs /\ lockedBy \in [Pairs -> Requests \cup {NoOne}]
      BY <3>1, Typed DEF TInv, TypeOK, StoreOK, JobInv, JobOK, RotateLocks
    <3>4. QED BY <2>1, <3>2, <3>3
  <2>2. CASE q # r
    <3>1. pc[q] = "rotate" /\ job'[q] = job[q]
      BY <1>1, <1>2, <2>2, OthersStay
    <3>2. job[q].refresh \in Issued /\ lockedBy[job[q].refresh] = q /\ pairs[job[q].refresh].live
      BY <3>1 DEF TInv, JobInv, JobOK, RotateInv
    <3>3. QED BY <1>1, <2>2, <3>1, <3>2, LockedStays
  <2>3. QED BY <2>1, <2>2
<1>3. QED BY <1>2 DEF RotateInv

\* The login of a new pair: the request's own, or that of the row it rotates.
LEMMA NewLogin ==
    ASSUME TInv, NEW r \in Requests, Acts(r), NEW n \in Issued' \ Issued
    PROVE  \/ pc[r] = "insert" /\ pairs'[n].login = job[r].login
           \/ /\ pc[r] = "rotate" /\ job[r].refresh \in Issued
              /\ pairs'[n].login = pairs[job[r].refresh].login
<1>1. Grows(r) /\ JobOK(r)
  BY Grow DEF TInv, JobInv
<1>2. QED BY <1>1 DEF Grows, JobOK, NewPair

LEMMA LoginInvActs ==
    ASSUME TInv, LoginInv, NEW r \in Requests, Acts(r)
    PROVE  LoginInv'
<1>1. RequestOK /\ Kept
  BY Grow DEF TInv, TypeOK, Grows
<1>2. /\ logins \in Nat /\ \A n \in Issued : pairs[n].login \in Nat /\ pairs[n].login <= logins
      /\ \A q \in Requests : pc[q] = "insert" => job[q].login \in Nat /\ job[q].login <= logins
  <2>1. logins \in Nat
    BY DEF TInv, TypeOK, CountOK
  <2>2. \A n \in Issued : pairs[n].login \in Nat /\ pairs[n].login <= logins
    BY Typed DEF TInv, TypeOK, PairInv
  <2>3. \A q \in Requests : pc[q] = "insert" => job[q].login \in Nat /\ job[q].login <= logins
    BY <2>1 DEF TInv, JobInv, JobOK
  <2>4. QED BY <2>1, <2>2, <2>3
\* Who inserts after the step: a new login, or one that was at it and did not step.
<1>3. ASSUME NEW q \in Requests, pc'[q] = "insert"
      PROVE  \/ q = r /\ LoginReadsUser(r) /\ job'[q].login = logins + 1 /\ pairs' = pairs
             \/ q # r /\ pc[q] = "insert" /\ job'[q] = job[q]
  <2>1. CASE q = r
    <3>1. LoginReadsUser(r)
      BY <1>1, <1>3, <2>1, ComesToRotate
    <3>2. job'[r].login = logins + 1 /\ pairs' = pairs
      BY <1>1, <3>1 DEF LoginReadsUser, RequestOK, NoJob, storeVars
    <3>3. QED BY <2>1, <3>1, <3>2
  <2>2. CASE q # r
    BY <1>1, <1>3, <2>2, OthersStay
  <2>3. QED BY <2>1, <2>2
<1>4. ASSUME NEW q \in Requests, pc'[q] = "insert", NEW n \in Issued'
      PROVE  pairs'[n].login # job'[q].login
  <2>1. CASE q = r
    <3>1. job'[q].login = logins + 1 /\ pairs'[n] = pairs[n] /\ n \in Issued
      BY <1>3, <1>4, <2>1 DEF Issued
    <3>2. QED BY <1>2, <3>1
  <2>2. CASE q # r
    <3>1. pc[q] = "insert" /\ job'[q] = job[q]
      BY <1>3, <1>4, <2>2
    <3>2. CASE n \in Issued
      BY <1>1, <3>1, <3>2 DEF Kept, LoginInv
    <3>3. CASE n \notin Issued
      BY <2>2, <3>1, <3>3, NewLogin DEF LoginInv
    <3>4. QED BY <3>2, <3>3
  <2>3. QED BY <2>1, <2>2
<1>5. ASSUME NEW q \in Requests, NEW p \in Requests, p # q, pc'[q] = "insert", pc'[p] = "insert"
      PROVE  job'[p].login # job'[q].login
  <2>1. CASE q # r /\ p # r
    BY <1>3, <1>5, <2>1 DEF LoginInv
  <2>2. CASE q = r
    <3>1. job'[q].login = logins + 1 /\ pc[p] = "insert" /\ job'[p] = job[p]
      BY <1>3, <1>5, <2>2
    <3>2. QED BY <1>2, <3>1
  <2>3. CASE p = r
    <3>1. job'[p].login = logins + 1 /\ pc[q] = "insert" /\ job'[q] = job[q]
      BY <1>3, <1>5, <2>3
    <3>2. QED BY <1>2, <3>1
  <2>4. QED BY <2>1, <2>2, <2>3
<1>6. QED BY <1>4, <1>5 DEF LoginInv

\* A new row of a login is the only live one: a rotation revokes its predecessor
\* in the transaction that inserts it.
LEMMA OneLiveActs ==
    ASSUME TInv, LiveInv, NEW r \in Requests, Acts(r)
    PROVE  OneLiveRowPerLogin'
<1>1. Kept /\ \A n \in Issued' \ Issued : \A m \in Issued' \ Issued : n = m
  <2>1. CASE LoginIssues(r) \/ Rotate(r)
    <3>1. Len(pairs') = Len(pairs) + 1 /\ Len(pairs) \in Nat
      <4> DEFINE e == [login |-> job[r].login, ver |-> job[r].ver, live |-> TRUE]
                 P == PairType
      <4>1. StoreOK /\ Len(pairs) \in Nat
        BY Typed DEF TInv, TypeOK
      <4>2. CASE LoginIssues(r)
        <5>1. pairs \in Seq(P) /\ pairs' = Append(pairs, e)
          BY <4>1, <4>2 DEF LoginIssues, StoreOK
        <5>2. Len(pairs') = Len(pairs) + 1
          BY <5>1 DEF LoginIssues
        <5>3. QED BY <4>1, <5>2
      <4>3. CASE Rotate(r)
        <5> DEFINE s == Revoked({job[r].refresh})
        <5>1. job[r].refresh \in Issued
          BY <4>3 DEF TInv, JobInv, JobOK, Rotate
        <5>2. s \in Seq(P) /\ Len(s) = Len(pairs)
          BY <4>1, RevokedSome
        <5>3. pairs' = Append(s, NewPair(r))
          BY <4>1, <4>3, <5>1, RevokedOne DEF Rotate
        <5>4. Len(pairs') = Len(s) + 1
          <6> HIDE DEF s, P
          <6>1. QED BY <5>2, <5>3
        <5>5. QED BY <4>1, <5>2, <5>4
      <4>4. QED BY <2>1, <4>2, <4>3
    <3>2. QED BY <3>1, Grow DEF Grows, Issued
  <2>2. CASE ~ (LoginIssues(r) \/ Rotate(r))
    <3>1. pc[r] \notin {"insert", "rotate"} \/ Issued' = Issued
      <4>1. RequestOK /\ StoreOK
        BY DEF TInv, TypeOK
      <4>2. CASE Abort(r) \/ UNCHANGED pairs
        BY <4>2 DEF Abort, Issued
      <4>3. CASE Login(r) \/ Refresh(r) \/ Arrive(r)
        BY <2>2, <4>2, <4>3 DEF Login, Refresh, Arrive, LoginReadsUser, RefreshArrives,
           RefreshChecksBlocklist, RefreshReadsUser, RotateLocks, GuardedArrives, ResetArrives,
           storeVars
      <4>4. CASE Kill(r)
        BY <4>4 DEF Kill, Guard, UpdatePassword, Revoke, SeeLiveRows, RevokeAll, Bump,
           ErrorDropped, BanRefresh, BanAccess, Answer
      <4>5. QED BY <4>2, <4>3, <4>4 DEF Acts
    <3>2. QED BY <3>1, Grow DEF Grows
  <2>3. QED BY <2>1, <2>2
\* Live rows of before the step are no two of one login.
<1>2. ASSUME NEW n \in Issued, NEW m \in Issued, pairs'[n].live, pairs'[m].live,
             pairs'[n].login = pairs'[m].login
      PROVE  n = m
  BY <1>1, <1>2 DEF Kept, LiveInv, OneLiveRowPerLogin
\* The new row and one of before the step.
<1>3. ASSUME NEW n \in Issued' \ Issued, NEW m \in Issued, pairs'[m].live,
             pairs'[n].login = pairs'[m].login
      PROVE  FALSE
  <2>1. pairs[m].live /\ pairs'[m].login = pairs[m].login
    BY <1>1, <1>3 DEF Kept
  <2>2. CASE pc[r] = "insert" /\ pairs'[n].login = job[r].login
    BY <1>3, <2>1, <2>2 DEF LiveInv, LoginInv
  <2>3. CASE /\ pc[r] = "rotate" /\ job[r].refresh \in Issued
             /\ pairs'[n].login = pairs[job[r].refresh].login
    <3>1. pairs[job[r].refresh].live
      BY <2>3 DEF LiveInv, RotateInv
    <3>2. m = job[r].refresh
      BY <1>3, <2>1, <2>3, <3>1 DEF LiveInv, OneLiveRowPerLogin
    <3>3. Rotate(r)
      <4>1. pc[r] = "rotate" /\ Issued' # Issued
        BY <1>3, <2>3
      <4>2. CASE Login(r)
        BY <4>1, <4>2 DEF Login, LoginReadsUser, LoginIssues
      <4>3. CASE Refresh(r)
        BY <4>1, <4>3 DEF Refresh, RefreshArrives, RefreshChecksBlocklist, RefreshReadsUser,
           RotateLocks
      <4>4. CASE Arrive(r)
        BY <4>1, <4>4 DEF Arrive, GuardedArrives, ResetArrives
      <4>5. CASE Kill(r)
        BY <4>1, <4>5 DEF Kill, Guard, UpdatePassword, Revoke, SeeLiveRows, RevokeAll, Bump,
           ErrorDropped, BanRefresh, BanAccess, Answer
      <4>6. CASE Abort(r)
        BY <4>1, <4>6 DEF Abort, Issued
      <4>7. QED BY <4>2, <4>3, <4>4, <4>5, <4>6 DEF Acts
    <3>4. pairs'[m].live = (pairs[m].live /\ m # job[r].refresh)
      BY <3>3, RotateGrows
    <3>5. QED BY <1>3, <3>2, <3>4
  <2>4. QED BY <2>2, <2>3, NewLogin
<1>4. QED BY <1>1, <1>2, <1>3 DEF OneLiveRowPerLogin

LEMMA LiveStays ==
    ASSUME LiveInv, UNCHANGED <<pairs, lockedBy, pc, job>>
    PROVE  LiveInv'
  BY DEF LiveInv, RotateInv, LoginInv, OneLiveRowPerLogin, Issued

\* However many refreshes, logouts and kills of one session run at the same time,
\* at most one refresh token of it can be exchanged (refresh_store.go Rotate).
THEOREM OneLiveRowCorrect == Spec => []OneLiveRowPerLogin
<1>1. Init => LiveInv
  <2> SUFFICES ASSUME Init PROVE LiveInv
    OBVIOUS
  <2>1. Issued = {}
    BY DEF Init, Issued
  <2>2. \A r \in Requests : pc[r] = "idle"
    BY DEF Init
  <2>3. QED BY <2>1, <2>2 DEF LiveInv, RotateInv, LoginInv, OneLiveRowPerLogin
<1>2. TInv /\ LiveInv /\ [Next]_vars => LiveInv'
  <2> SUFFICES ASSUME TInv, LiveInv, [Next]_vars PROVE LiveInv'
    OBVIOUS
  <2>1. ASSUME NEW r \in Requests, Acts(r)
        PROVE  LiveInv'
    BY <2>1, RotateInvActs, LoginInvActs, OneLiveActs DEF LiveInv
  <2>2. CASE UpdateRole
    BY <2>2, LiveStays DEF UpdateRole, requestVars
  <2>3. CASE UNCHANGED vars
    BY <2>3, LiveStays DEF vars, storeVars, requestVars
  <2>4. QED BY <2>1, <2>2, <2>3, NextSplit
<1>3. Spec => []TInv
  BY TInit, TNext, PTL DEF Spec
<1>4. LiveInv => OneLiveRowPerLogin
  BY DEF LiveInv
<1>5. QED BY <1>1, <1>2, <1>3, <1>4, PTL DEF Spec
=============================================================================
