------------------------------ MODULE Sessions ------------------------------
(***************************************************************************)
(* The sessions of one user: login, refresh, logout, logout-all and the    *)
(* password handlers (internal/modules/user auth.go, account.go), the      *)
(* refresh_tokens table (refresh_store.go), users.token_version, the Redis *)
(* blocklist (platform/authn) and the guard in front of the handlers that  *)
(* need an access token (platform/authz).                                  *)
(*                                                                         *)
(* A pair is an access and a refresh token issued together; its number     *)
(* stands for both jtis.  It is usable from the commit of its row on, also *)
(* when the response that carries it is late or lost.  Tokens are modelled *)
(* within their lifetime.  A handler is one request; each of its database  *)
(* and Redis calls is a step, a transaction as many as others can come     *)
(* between.                                                                *)
(***************************************************************************)
EXTENDS Naturals, Sequences

CONSTANTS
    Requests,    \* requests in flight
    MaxLogins,   \* bound on logins
    MaxServed,   \* bound on the other requests
    MaxPairs,    \* bound on issued pairs
    MaxVersion,  \* bound on token_version
    MaxFaults,   \* bound on failing calls and aborted requests
    NoOne        \* "not locked"

ASSUME SessionsAssumption ==
    /\ {MaxLogins, MaxServed, MaxPairs, MaxFaults} \subseteq Nat
    /\ MaxVersion \in Nat \ {0}
    /\ NoOne \notin Requests

\* Requests that end sessions; a refresh becomes "reuse" when it detects one.
Kills == {"logoutAll", "change", "reset", "reuse"}
Kinds == Kills \cup {"none", "login", "refresh", "logout"}
\* Handlers behind the guard.
Guarded == {"logout", "logoutAll", "change"}
Steps == {"idle", "insert", "blocklist", "user", "lock", "rotate", "guard", "revoke",
          "password", "snapshot", "revokeAll", "bump", "banRefresh", "banAccess", "answer"}
Pairs == 1..MaxPairs

VARIABLES
    tokenVersion,   \* users.token_version
    pairs,          \* pairs[n]: its login, its claim ver, its row not revoked
    lockedBy,       \* lockedBy[n]: the rotation that holds the lock of row n
    bannedRefresh,  \* pairs whose refresh jti is in the blocklist
    bannedAccess,   \* pairs whose access jti is in the blocklist
    pc,             \* pc[r]: what request r does next
    job,            \* job[r]: what r was asked for and has read
    logins,         \* logins that have read the user, to number them
    served,         \* other requests that have arrived
    sealed,         \* logins before the last kill that was answered, without an error
    faults          \* faults injected so far

storeVars == <<tokenVersion, pairs, lockedBy>>
redisVars == <<bannedRefresh, bannedAccess>>
requestVars == <<pc, job>>
historyVars == <<logins, served, sealed>>
vars == <<storeVars, redisVars, requestVars, historyVars, faults>>

NoJob == [kind |-> "none", refresh |-> 0, access |-> 0, ver |-> 0, login |-> 0,
          mark |-> 0, rows |-> {}, failed |-> FALSE]

PairType == [login : 1..MaxLogins, ver : 1..MaxVersion, live : BOOLEAN]
JobType == [kind : Kinds, refresh : 0..MaxPairs, access : 0..MaxPairs, ver : 0..MaxVersion,
            login : 0..MaxLogins, mark : 0..MaxLogins, rows : SUBSET Pairs, failed : BOOLEAN]

StoreOK ==
    /\ tokenVersion \in 1..MaxVersion
    /\ pairs \in Seq(PairType) /\ Len(pairs) <= MaxPairs
    /\ lockedBy \in [Pairs -> Requests \cup {NoOne}]

\* A row is locked only by a rotation between its SELECT and its commit.
LockOK ==
    \A n \in Pairs : lockedBy[n] # NoOne =>
        pc[lockedBy[n]] = "rotate" /\ job[lockedBy[n]].refresh = n

RequestOK == pc \in [Requests -> Steps] /\ job \in [Requests -> JobType]

CountOK ==
    /\ bannedRefresh \subseteq Pairs /\ bannedAccess \subseteq Pairs
    /\ logins \in 0..MaxLogins /\ served \in 0..MaxServed
    /\ sealed \in 0..logins
    /\ faults \in 0..MaxFaults

\* The types, and who may hold a row lock.
TypeOK == StoreOK /\ LockOK /\ RequestOK /\ CountOK

Init ==
    /\ tokenVersion = 1
    /\ pairs = <<>>
    /\ lockedBy = [n \in Pairs |-> NoOne]
    /\ bannedRefresh = {} /\ bannedAccess = {}
    /\ pc = [r \in Requests |-> "idle"]
    /\ job = [r \in Requests |-> NoJob]
    /\ logins = 0 /\ served = 0
    /\ sealed = 0
    /\ faults = 0

Issued == 1..Len(pairs)
Goto(r, s) == pc' = [pc EXCEPT ![r] = s]
Fault == faults < MaxFaults /\ faults' = faults + 1

Arrived == served < MaxServed /\ served' = served + 1

\* The request is answered; what it holds is forgotten.
End(r) == Goto(r, "idle") /\ job' = [job EXCEPT ![r] = NoJob]

-----------------------------------------------------------------------------
(* Login.                                                                  *)

\* createTokenHandler: GetByEmail, Compare.
LoginReadsUser(r) ==
    /\ pc[r] = "idle"
    /\ logins < MaxLogins
    /\ logins' = logins + 1
    /\ job' = [job EXCEPT ![r] = [NoJob EXCEPT !.kind = "login", !.ver = tokenVersion,
                                               !.login = logins + 1]]
    /\ Goto(r, "insert")
    /\ UNCHANGED <<storeVars, redisVars, served, sealed, faults>>

\* issuePair: the row, and two tokens with the token_version of that read.
LoginIssues(r) ==
    /\ pc[r] = "insert"
    /\ Len(pairs) < MaxPairs
    /\ pairs' = Append(pairs, [login |-> job[r].login, ver |-> job[r].ver, live |-> TRUE])
    /\ End(r)
    /\ UNCHANGED <<tokenVersion, lockedBy, redisVars, historyVars, faults>>

-----------------------------------------------------------------------------
(* Refresh.                                                                *)

RefreshArrives(r, n) ==
    /\ pc[r] = "idle"
    /\ Arrived
    /\ job' = [job EXCEPT ![r] = [NoJob EXCEPT !.kind = "refresh", !.refresh = n]]
    /\ Goto(r, "blocklist")
    /\ UNCHANGED <<storeVars, redisVars, logins, sealed, faults>>

\* Blocked: 401.  When Redis fails the handler answers 500 (Abort).
RefreshChecksBlocklist(r) ==
    /\ pc[r] = "blocklist"
    /\ IF job[r].refresh \in bannedRefresh THEN End(r) ELSE Goto(r, "user") /\ UNCHANGED job
    /\ UNCHANGED <<storeVars, redisVars, historyVars, faults>>

\* Mutant: the ver claim of a refresh token is not compared.
RefreshReadsUserOnly(r) ==
    /\ pc[r] = "user"
    /\ job' = [job EXCEPT ![r].ver = tokenVersion]
    /\ Goto(r, "lock")
    /\ UNCHANGED <<storeVars, redisVars, historyVars, faults>>

\* GetByID, and the ver claim against token_version.
RefreshReadsUser(r) ==
    /\ pc[r] = "user"
    /\ IF pairs[job[r].refresh].ver = tokenVersion
       THEN job' = [job EXCEPT ![r].ver = tokenVersion] /\ Goto(r, "lock")
       ELSE End(r)
    /\ UNCHANGED <<storeVars, redisVars, historyVars, faults>>

\* Mutant: the transaction is left open on the error path.
RotateLocksForGood(r) ==
    /\ pc[r] = "lock"
    /\ lockedBy[job[r].refresh] = NoOne
    /\ lockedBy' = [lockedBy EXCEPT ![job[r].refresh] = r]
    /\ IF pairs[job[r].refresh].live
       THEN Goto(r, "rotate") /\ UNCHANGED job
       ELSE /\ job' = [job EXCEPT ![r].kind = "reuse", ![r].mark = logins]
            /\ Goto(r, "snapshot")
    /\ UNCHANGED <<tokenVersion, pairs, redisVars, historyVars, faults>>

\* Rotate: SELECT revoked_at ... FOR UPDATE; a revoked row is errRefreshReuse.
RotateLocks(r) ==
    LET n == job[r].refresh IN
    /\ pc[r] = "lock"
    /\ lockedBy[n] = NoOne
    /\ IF pairs[n].live
       THEN /\ lockedBy' = [lockedBy EXCEPT ![n] = r]
            /\ Goto(r, "rotate")
            /\ UNCHANGED job
       ELSE /\ job' = [job EXCEPT ![r].kind = "reuse", ![r].mark = logins]
            /\ Goto(r, "snapshot")
            /\ UNCHANGED lockedBy
    /\ UNCHANGED <<tokenVersion, pairs, redisVars, historyVars, faults>>

NewPair(r) == [login |-> pairs[job[r].refresh].login, ver |-> job[r].ver, live |-> TRUE]

\* Mutant: the old row is not revoked.
RotateKeepsOld(r) ==
    /\ pc[r] = "rotate"
    /\ Len(pairs) < MaxPairs
    /\ pairs' = Append(pairs, NewPair(r))
    /\ lockedBy' = [lockedBy EXCEPT ![job[r].refresh] = NoOne]
    /\ Goto(r, "banRefresh")
    /\ UNCHANGED <<tokenVersion, redisVars, job, historyVars, faults>>

\* Rotate: insert the new row, revoke the old one, commit; under the lock the
\* UPDATE finds the old row.  The tokens carry the token_version read before.
Rotate(r) ==
    /\ pc[r] = "rotate"
    /\ Len(pairs) < MaxPairs
    /\ pairs' = Append([pairs EXCEPT ![job[r].refresh].live = FALSE], NewPair(r))
    /\ lockedBy' = [lockedBy EXCEPT ![job[r].refresh] = NoOne]
    /\ Goto(r, "banRefresh")
    /\ UNCHANGED <<tokenVersion, redisVars, job, historyVars, faults>>

-----------------------------------------------------------------------------
(* The guard, logout, and what ends all sessions.                          *)

\* AuthToken: the blocklist; when Redis fails the request passes.
GuardedArrives(r, k, n) ==
    /\ pc[r] = "idle"
    /\ Arrived
    /\ \/ n \notin bannedAccess /\ UNCHANGED faults
       \/ n \in bannedAccess /\ Fault
    /\ job' = [job EXCEPT ![r] = [NoJob EXCEPT !.kind = k, !.access = n]]
    /\ Goto(r, "guard")
    /\ UNCHANGED <<storeVars, redisVars, logins, sealed>>

\* AuthToken: ByID, and the ver claim.  Logout gets a refresh token, too;
\* logout-all answers for the sessions of all logins up to here.
Guard(r) ==
    /\ pc[r] = "guard"
    /\ IF pairs[job[r].access].ver # tokenVersion
       THEN End(r)
       ELSE \/ /\ job[r].kind = "logout"
               /\ \E n \in Issued : job' = [job EXCEPT ![r].refresh = n]
               /\ Goto(r, "revoke")
            \/ /\ job[r].kind = "logoutAll"
               /\ job' = [job EXCEPT ![r].mark = logins]
               /\ Goto(r, "snapshot")
            \/ /\ job[r].kind = "change"
               /\ Goto(r, "password")
               /\ UNCHANGED job
    /\ UNCHANGED <<storeVars, redisVars, historyVars, faults>>

\* resetPasswordHandler, with a reset token instead of the guard.
ResetArrives(r) ==
    /\ pc[r] = "idle"
    /\ Arrived
    /\ job' = [job EXCEPT ![r] = [NoJob EXCEPT !.kind = "reset"]]
    /\ Goto(r, "password")
    /\ UNCHANGED <<storeVars, redisVars, logins, sealed, faults>>

\* updatePassword: the logins up to here used an older password.
UpdatePassword(r) ==
    /\ pc[r] = "password"
    /\ job' = [job EXCEPT ![r].mark = logins]
    /\ Goto(r, "snapshot")
    /\ UNCHANGED <<storeVars, redisVars, historyVars, faults>>

\* logoutHandler: Revoke waits for a rotation of the row.
Revoke(r) ==
    /\ pc[r] = "revoke"
    /\ lockedBy[job[r].refresh] = NoOne
    /\ pairs' = [pairs EXCEPT ![job[r].refresh].live = FALSE]
    /\ Goto(r, "banRefresh")
    /\ UNCHANGED <<tokenVersion, lockedBy, redisVars, job, historyVars, faults>>

\* RevokeAllForUser: the rows its statement sees; it waits for their locks and
\* does not see rows that others insert meanwhile.
SeeLiveRows(r) ==
    /\ pc[r] = "snapshot"
    /\ job' = [job EXCEPT ![r].rows = {n \in Issued : pairs[n].live}]
    /\ Goto(r, "revokeAll")
    /\ UNCHANGED <<storeVars, redisVars, historyVars, faults>>

RevokeAll(r) ==
    /\ pc[r] = "revokeAll"
    /\ \A n \in job[r].rows : lockedBy[n] = NoOne
    /\ pairs' = [n \in Issued |->
                    IF n \in job[r].rows THEN [pairs[n] EXCEPT !.live = FALSE] ELSE pairs[n]]
    /\ job' = [job EXCEPT ![r].rows = {}]
    /\ Goto(r, "bump")
    /\ UNCHANGED <<tokenVersion, lockedBy, redisVars, historyVars, faults>>

AfterBump(k) == IF k \in Guarded THEN "banAccess" ELSE "answer"

\* IncrementTokenVersion.
Bump(r) ==
    /\ pc[r] = "bump"
    /\ tokenVersion < MaxVersion
    /\ tokenVersion' = tokenVersion + 1
    /\ Goto(r, AfterBump(job[r].kind))
    /\ UNCHANGED <<pairs, lockedBy, redisVars, job, historyVars, faults>>

\* Only logout-all reports the error of RevokeAllForUser or
\* IncrementTokenVersion (Abort); the others discard it.
ErrorDropped(r) ==
    /\ pc[r] \in {"revokeAll", "bump"}
    /\ job[r].kind # "logoutAll"
    /\ Fault
    /\ job' = [job EXCEPT ![r].failed = TRUE, ![r].rows = {}]
    /\ Goto(r, IF pc[r] = "revokeAll" THEN "bump" ELSE AfterBump(job[r].kind))
    /\ UNCHANGED <<storeVars, redisVars, historyVars>>

\* Ban; its error is ignored everywhere.
BanRefresh(r) ==
    /\ pc[r] = "banRefresh"
    /\ \/ bannedRefresh' = bannedRefresh \cup {job[r].refresh} /\ UNCHANGED faults
       \/ UNCHANGED bannedRefresh /\ Fault
    /\ IF job[r].kind = "logout" THEN Goto(r, "banAccess") /\ UNCHANGED job ELSE End(r)
    /\ UNCHANGED <<storeVars, bannedAccess, historyVars>>

BanAccess(r) ==
    /\ pc[r] = "banAccess"
    /\ \/ bannedAccess' = bannedAccess \cup {job[r].access} /\ UNCHANGED faults
       \/ UNCHANGED bannedAccess /\ Fault
    /\ IF job[r].kind = "logout" THEN End(r) ELSE Goto(r, "answer") /\ UNCHANGED job
    /\ UNCHANGED <<storeVars, bannedRefresh, historyVars>>

\* 204, or 401 for a detected reuse.
Answer(r) ==
    /\ pc[r] = "answer"
    /\ sealed' = IF ~ job[r].failed /\ job[r].mark > sealed THEN job[r].mark ELSE sealed
    /\ End(r)
    /\ UNCHANGED <<storeVars, redisVars, logins, served, faults>>

\* UpdateRole bumps token_version in one statement with the role.
UpdateRole ==
    /\ tokenVersion < MaxVersion
    /\ tokenVersion' = tokenVersion + 1
    /\ UNCHANGED <<pairs, lockedBy, redisVars, requestVars, historyVars, faults>>

\* A call fails and is reported, the client goes away or the process dies; an
\* open transaction rolls back.
Abort(r) ==
    /\ pc[r] # "idle"
    /\ Fault
    /\ lockedBy' = [n \in Pairs |-> IF lockedBy[n] = r THEN NoOne ELSE lockedBy[n]]
    /\ End(r)
    /\ UNCHANGED <<tokenVersion, pairs, redisVars, historyVars>>

-----------------------------------------------------------------------------
Login(r) == LoginReadsUser(r) \/ LoginIssues(r)

Refresh(r) ==
    \/ \E n \in Issued : RefreshArrives(r, n)
    \/ RefreshChecksBlocklist(r) \/ RefreshReadsUser(r) \/ RotateLocks(r) \/ Rotate(r)

Arrive(r) ==
    \/ \E k \in Guarded, n \in Issued : GuardedArrives(r, k, n)
    \/ ResetArrives(r)

Kill(r) ==
    \/ Guard(r) \/ UpdatePassword(r) \/ Revoke(r) \/ SeeLiveRows(r) \/ RevokeAll(r)
    \/ Bump(r) \/ ErrorDropped(r) \/ BanRefresh(r) \/ BanAccess(r) \/ Answer(r)

Next ==
    \/ \E r \in Requests : Login(r) \/ Refresh(r) \/ Arrive(r) \/ Kill(r) \/ Abort(r)
    \/ UpdateRole

Spec == Init /\ [][Next]_vars

-----------------------------------------------------------------------------
(* Properties.                                                             *)

\* No token of the first m logins is accepted, neither by the guard nor by
\* refresh: both compare the ver claim.
Dead(m) == \A n \in Issued : pairs[n].login <= m => pairs[n].ver # tokenVersion

\* An answered kill - logout-all, password change, reset, a detected reuse - none
\* of whose database calls failed has ended every session of the logins before
\* it, though logins, refreshes and other kills run at the same time, and
\* RevokeAllForUser misses the rows that they insert (auth.go, account.go).
KillsSessions == Dead(sealed)

\* Two refreshes of one token never fork a session (refresh_store.go Rotate).
OneLiveRowPerLogin ==
    \A n, m \in Issued :
        pairs[n].live /\ pairs[m].live /\ pairs[n].login = pairs[m].login => n = m

\* The refresh token of pair n can be exchanged, if not for the blocklist.
Refreshable(n) == pairs[n].live /\ pairs[n].ver = tokenVersion

\* auth.go:134: "Reuse of a revoked refresh token kills all sessions."  The
\* blocklist, which knows the token, answers first and nothing is killed.
ReuseKills ==
    [][\A r \in Requests :
          pc[r] = "blocklist" /\ ~ pairs[job[r].refresh].live /\ pc'[r] = "idle" =>
              faults' # faults \/ \A n \in Issued : ~ Refreshable(n)']_vars

\* architecture.md:97, logout: "revoke that session, blacklist both jtis".  When
\* the session has been refreshed while the logout is on its way, the row of the
\* token it presents is revoked already and the session's newest pair lives on.
LogoutEndsSession ==
    [][\A r \in Requests :
          pc[r] = "banAccess" /\ job[r].kind = "logout" /\ pc'[r] = "idle" =>
              faults' # faults \/ \A n \in Issued :
                  pairs[n].login = pairs[job[r].refresh].login => ~ Refreshable(n)']_vars
=============================================================================
