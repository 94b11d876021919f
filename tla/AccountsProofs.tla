--------------------------- MODULE AccountsProofs ---------------------------
(***************************************************************************)
(* Proofs about the account and the roles, for any number of requests and  *)
(* every set of role names, levels and updates.                            *)
(***************************************************************************)
EXTENDS Accounts, FiniteSetTheorems, TLAPS

-----------------------------------------------------------------------------
(* Roles.                                                                  *)

RoleCall == [step : {"new", "write", "count", "delete", "ok", "conflict", "refused", "missing", "error"},
             kind : {"", "update", "delete"}, id : Nat, row : Role \cup {<<>>},
             patch : RolePatches \cup {<<>>}]

RoleType ==
    /\ roles \in Seq(Role) /\ 3 \in DOMAIN roles
    /\ roleOf \in Nat
    /\ roleCall \in [RoleCalls -> RoleCall]

\* A request before its last statement: the row it read, and the check that
\* the admin role has passed.
ReadInv(r) ==
    LET i == roleCall[r].id
        p == roleCall[r].patch
    IN  /\ roleCall[r].step \in {"write", "count", "delete"} => i \in DOMAIN roles
        /\ roleCall[r].step \in {"count", "delete"} => i # 3
        /\ roleCall[r].step = "write" =>
               /\ roleCall[r].row \in Role /\ p \in RolePatches
               /\ roleCall[r].row.live
               /\ roleCall[r].row.writes <= roles[i].writes
               /\ roleCall[r].row.writes = roles[i].writes =>
                      roleCall[r].row.name = roles[i].name /\ roleCall[r].row.level = roles[i].level
               /\ i = 3 => /\ roleCall[r].row.name = "admin"
                           /\ "name" \in DOMAIN p => p["name"] = "admin"

RoleRowsInv ==
    /\ roles[3].live /\ roles[3].name = "admin"
    /\ \A i, j \in DOMAIN roles : roles[i].live /\ roles[j].live /\ roles[i].name = roles[j].name => i = j
    /\ roleOf # 0 => roleOf \in DOMAIN roles /\ roles[roleOf].live
    /\ \A i \in DOMAIN roles : roles[i].fresh # RoleFields => roles[i].raced

RolesInv == RoleType /\ RoleRowsInv /\ \A r \in RoleCalls : ReadInv(r)

LEMMA RolesInitially == RoleInit => RolesInv
<1> SUFFICES ASSUME RoleInit PROVE RolesInv
  OBVIOUS
<1> USE RolesAssumption DEF RoleInit
<1>1. /\ DOMAIN Shipped = 1..3
      /\ Shipped[1] = "user" /\ Shipped[2] = "moderator" /\ Shipped[3] = "admin"
  BY DEF Shipped
<1>2. ASSUME NEW i \in 1..3 PROVE NewRole(Shipped[i], i) \in Role
  BY <1>1, <1>2 DEF NewRole, Role
<1>3. /\ DOMAIN roles = 1..3 /\ roles \in Seq(Role)
      /\ \A i \in 1..3 : roles[i] = NewRole(Shipped[i], i)
  <2>1. roles = [i \in 1..3 |-> NewRole(Shipped[i], i)]
    BY <1>1
  <2>2. QED BY <1>2, <2>1
<1>4. NoRoleCall \in RoleCall /\ NoRoleCall.step = "new"
  BY DEF NoRoleCall, RoleCall
<1>5. RoleType
  BY <1>3, <1>4 DEF RoleType
<1>6. RoleRowsInv
  BY <1>1, <1>3 DEF RoleRowsInv, NewRole
<1>7. ASSUME NEW r \in RoleCalls PROVE ReadInv(r)
  BY <1>4 DEF ReadInv
<1>8. QED BY <1>5, <1>6, <1>7 DEF RolesInv

\* What an answer leaves of the other requests.
LEMMA RoleAnswerKeeps ==
    ASSUME RoleType, NEW r \in RoleCalls,
           NEW a \in {"ok", "conflict", "refused", "missing", "error"}, RoleAnswer(r, a)
    PROVE  /\ roleCall' \in [RoleCalls -> RoleCall]
           /\ roleCall'[r].step = a
           /\ \A q \in RoleCalls \ {r} : roleCall'[q] = roleCall[q]
<1> DEFINE answer == [NoRoleCall EXCEPT !.step = a]
<1>1. NoRoleCall \in RoleCall
  BY DEF NoRoleCall, RoleCall
<1>2. answer \in RoleCall /\ answer.step = a
  BY <1>1 DEF RoleCall
<1>3. roleCall' = [roleCall EXCEPT ![r] = answer]
  BY DEF RoleAnswer
<1> HIDE DEF answer
<1>4. QED BY <1>2, <1>3 DEF RoleType

\* The row that an update writes.
LEMMA WrittenRow ==
    ASSUME RolesInv, NEW r \in RoleCalls, roleCall[r].step = "write"
    PROVE  LET i == roleCall[r].id
               p == roleCall[r].patch
               old == roles[i]
               new == MergedRole(roleCall[r].row, p)
               row == [new EXCEPT !.writes = old.writes + 1,
                                  !.fresh = (old.fresh \cup DOMAIN p) \ StaleFields(new, old, p),
                                  !.raced = old.raced \/ roleCall[r].row.writes # old.writes]
           IN  /\ row \in Role
               /\ row.live /\ row.writes = old.writes + 1 /\ row.name = new.name
               /\ row.fresh # RoleFields => row.raced
               /\ i = 3 => row.name = "admin"
<1> DEFINE i == roleCall[r].id
           p == roleCall[r].patch
           old == roles[i]
           copy == roleCall[r].row
           new == MergedRole(copy, p)
           stale == StaleFields(new, old, p)
           fresh == (old.fresh \cup DOMAIN p) \ stale
           raced == old.raced \/ copy.writes # old.writes
           name == IF "name" \in DOMAIN p THEN p["name"] ELSE copy.name
           level == IF "level" \in DOMAIN p THEN p["level"] ELSE copy.level
<1>1. /\ i \in DOMAIN roles /\ old \in Role /\ copy \in Role /\ p \in RolePatches /\ copy.live
      /\ copy.writes = old.writes => copy.name = old.name /\ copy.level = old.level
      /\ i = 3 => name = "admin"
      /\ old.fresh # RoleFields => old.raced
  BY DEF RolesInv, RoleType, ReadInv, RoleRowsInv
<1>2. DOMAIN p \subseteq RoleFields /\ name \in RoleNames /\ level \in Levels
  BY <1>1, RolesAssumption DEF Role
<1>3. new \in Role /\ new.name = name /\ new.level = level /\ new.live /\ new.writes = copy.writes
  <2> DEFINE first == [copy EXCEPT !.name = name]
             second == [first EXCEPT !.level = level]
  <2>1. first \in Role /\ first.name = name /\ first.live /\ first.writes = copy.writes
    <3> HIDE DEF name
    <3>1. QED BY <1>1, <1>2 DEF Role
  <2>2. second \in Role /\ second.name = name /\ second.level = level /\ second.live
        /\ second.writes = copy.writes
    <3> HIDE DEF name, level, first
    <3>1. QED BY <1>2, <2>1 DEF Role
  <2>3. new = second
    BY <1>1 DEF MergedRole, Role
  <2>4. QED BY <2>2, <2>3
<1>4. fresh \in SUBSET RoleFields
  BY <1>1, <1>2 DEF Role
<1>5. raced \in BOOLEAN
  BY <1>1 DEF Role
<1>6. fresh # RoleFields => raced
  <2>1. SUFFICES ASSUME fresh # RoleFields, ~raced PROVE FALSE
    OBVIOUS
  <2>2. copy.name = old.name /\ copy.level = old.level /\ old.fresh = RoleFields
    BY <1>1, <2>1
  <2>3. \A f \in RoleFields \ DOMAIN p : new[f] = old[f]
    BY <1>3, <2>2 DEF RoleFields
  <2>4. stale = {}
    BY <2>3 DEF StaleFields
  <2>5. QED BY <1>2, <2>1, <2>2, <2>4
<1> DEFINE a == [new EXCEPT !.writes = old.writes + 1]
           b == [a EXCEPT !.fresh = fresh]
           row == [b EXCEPT !.raced = raced]
<1>7. a \in Role /\ a.live /\ a.writes = old.writes + 1 /\ a.name = new.name
  <2> HIDE DEF new
  <2>1. QED BY <1>1, <1>3 DEF Role
<1>8. b \in Role /\ b.live /\ b.writes = old.writes + 1 /\ b.name = new.name /\ b.fresh = fresh
  <2> HIDE DEF a, new, fresh
  <2>1. QED BY <1>4, <1>7 DEF Role
<1>9. row \in Role /\ row.live /\ row.writes = old.writes + 1 /\ row.name = new.name
      /\ row.fresh = fresh /\ row.raced = raced
  <2> HIDE DEF b, new, fresh, raced
  <2>1. QED BY <1>5, <1>8 DEF Role
<1>10. i = 3 => row.name = "admin"
  BY <1>1, <1>3, <1>9
<1> HIDE DEF fresh, raced, new
<1>11. QED BY <1>6, <1>9, <1>10 DEF new, fresh, raced

LEMMA RolesInvStep ==
    ASSUME RolesInv, RoleArrival \/ RoleStep
    PROVE  RolesInv'
<1>0. RoleType /\ RoleRowsInv /\ \A r \in RoleCalls : ReadInv(r)
  BY DEF RolesInv
<1>a. \A i \in DOMAIN roles : roles[i] \in Role
  BY <1>0 DEF RoleType
\* An answer to r, with rows that differ from the old ones as it may do.
<1>b. ASSUME NEW r \in RoleCalls, NEW a \in {"ok", "conflict", "refused", "missing", "error"},
             RoleAnswer(r, a), UNCHANGED roleOf,
             roles' \in Seq(Role), DOMAIN roles \subseteq DOMAIN roles', RoleRowsInv',
             \A i \in DOMAIN roles :
                 \/ /\ roles'[i].writes = roles[i].writes
                    /\ roles'[i].name = roles[i].name /\ roles'[i].level = roles[i].level
                 \/ roles'[i].writes = roles[i].writes + 1
      PROVE  RolesInv'
  <2>1. /\ roleCall' \in [RoleCalls -> RoleCall] /\ roleCall'[r].step = a
        /\ \A q \in RoleCalls \ {r} : roleCall'[q] = roleCall[q]
    BY <1>0, <1>b, RoleAnswerKeeps
  <2>2. ASSUME NEW q \in RoleCalls PROVE ReadInv(q)'
    <3>1. CASE q = r
      BY <2>1, <3>1 DEF ReadInv
    <3>2. CASE q # r
      <4>1. roleCall'[q] = roleCall[q] /\ ReadInv(q)
        BY <1>0, <2>1, <3>2
      <4>2. SUFFICES ASSUME roleCall[q].step = "write" PROVE ReadInv(q)'
        BY <1>b, <4>1 DEF ReadInv
      <4>3. roleCall[q].row.writes \in Nat /\ roleCall[q].id \in DOMAIN roles
            /\ roles[roleCall[q].id].writes \in Nat
        BY <1>a, <4>1, <4>2 DEF ReadInv, Role
      <4> DEFINE old == roles[roleCall[q].id]
                 new == roles'[roleCall[q].id]
                 row == roleCall[q].row
      <4>4. row.writes <= new.writes
            /\ (row.writes = new.writes => row.name = new.name /\ row.level = new.level)
        <5>1. row.writes <= old.writes
              /\ (row.writes = old.writes => row.name = old.name /\ row.level = old.level)
          BY <4>1, <4>2 DEF ReadInv
        <5>2. \/ new.writes = old.writes /\ new.name = old.name /\ new.level = old.level
              \/ new.writes = old.writes + 1
          BY <1>b, <4>3
        <5> HIDE DEF old, new, row
        <5>3. row.writes \in Nat /\ old.writes \in Nat
          BY <4>3 DEF row, old
        <5>4. QED BY <5>1, <5>2, <5>3
      <4>5. QED BY <1>b, <4>1, <4>2, <4>3, <4>4 DEF ReadInv
    <3>3. QED BY <3>1, <3>2
  <2>3. QED BY <1>0, <1>b, <2>1, <2>2 DEF RolesInv, RoleType
<1>1. ASSUME NEW r \in RoleCalls, CreateRole(r) PROVE RolesInv'
  <2>1. PICK name \in RoleNames, level \in Levels :
            IF Named(name) = {}
            THEN roles' = Append(roles, NewRole(name, level)) /\ RoleAnswer(r, "ok")
            ELSE UNCHANGED roles /\ RoleAnswer(r, "conflict")
    BY <1>1 DEF CreateRole
  <2>2. UNCHANGED roleOf
    BY <1>1 DEF CreateRole
  <2>3. CASE Named(name) = {}
    <3>1. NewRole(name, level) \in Role /\ NewRole(name, level).name = name
          /\ NewRole(name, level).fresh = RoleFields
      BY DEF NewRole, Role
    <3>2. /\ roles' \in Seq(Role) /\ DOMAIN roles' = DOMAIN roles \cup {Len(roles) + 1}
          /\ \A i \in DOMAIN roles : roles'[i] = roles[i]
          /\ roles'[Len(roles) + 1] = NewRole(name, level) /\ Len(roles) + 1 \notin DOMAIN roles
      BY <1>0, <2>1, <2>3, <3>1 DEF RoleType
    <3>3. \A i \in DOMAIN roles : roles[i].live => roles[i].name # name
      BY <2>3 DEF Named, LiveRoles
    <3>4. RoleRowsInv'
      BY <1>0, <2>2, <3>1, <3>2, <3>3 DEF RoleRowsInv, RoleType
    <3>5. QED BY <1>b, <2>1, <2>2, <2>3, <3>2, <3>4
  <2>4. CASE Named(name) # {}
    BY <1>0, <1>b, <2>1, <2>2, <2>4 DEF RoleType, RoleRowsInv
  <2>5. QED BY <2>3, <2>4
<1>2. ASSUME NEW r \in RoleCalls, ReadRole(r) PROVE RolesInv'
  <2>1. UNCHANGED <<roles, roleOf>>
    BY <1>2 DEF ReadRole
  <2>2. PICK i \in LiveRoles, kind \in {"update", "delete"} :
          \E p \in IF kind = "update" THEN RolePatches ELSE {<<>>} :
            IF Protected(roles[i], kind, p) THEN RoleAnswer(r, "refused")
            ELSE roleCall' = [roleCall EXCEPT ![r] =
                     [step |-> IF kind = "update" THEN "write" ELSE "count", kind |-> kind,
                      id |-> i, row |-> roles[i], patch |-> p]]
    BY <1>2 DEF ReadRole
  <2>3. PICK p \in IF kind = "update" THEN RolePatches ELSE {<<>>} :
            IF Protected(roles[i], kind, p) THEN RoleAnswer(r, "refused")
            ELSE roleCall' = [roleCall EXCEPT ![r] =
                     [step |-> IF kind = "update" THEN "write" ELSE "count", kind |-> kind,
                      id |-> i, row |-> roles[i], patch |-> p]]
    BY <2>2
  <2>4. CASE Protected(roles[i], kind, p)
    BY <1>0, <1>b, <2>1, <2>3, <2>4 DEF RoleType, RoleRowsInv
  <2>5. CASE ~Protected(roles[i], kind, p)
    <3> DEFINE request == [step |-> IF kind = "update" THEN "write" ELSE "count", kind |-> kind,
                           id |-> i, row |-> roles[i], patch |-> p]
    <3>1. i \in DOMAIN roles /\ i \in Nat /\ roles[i] \in Role /\ roles[i].live
      BY <1>0, <1>a DEF LiveRoles, RoleType
    <3>2. request \in RoleCall
      BY <3>1 DEF RoleCall
    <3>3. roleCall' = [roleCall EXCEPT ![r] = request]
      BY <2>3, <2>5
    <3>4. i = 3 => kind = "update" /\ ("name" \in DOMAIN p => p["name"] = "admin")
      BY <1>0, <2>5 DEF Protected, RoleRowsInv
    <3>5. kind = "update" => p \in RolePatches
      OBVIOUS
    <3>6. roles[i].writes \in Nat
      BY <3>1 DEF Role
    <3>7. ASSUME NEW q \in RoleCalls PROVE ReadInv(q)'
      <4>1. CASE q = r
        <5>1. roleCall'[q] = request
          BY <1>0, <3>3, <4>1 DEF RoleType
        <5>2. QED BY <1>0, <2>1, <3>1, <3>4, <3>5, <3>6, <5>1 DEF ReadInv, RoleRowsInv
      <4>2. CASE q # r
        BY <1>0, <2>1, <3>3, <4>2 DEF ReadInv, RoleType
      <4>3. QED BY <4>1, <4>2
    <3> HIDE DEF request
    <3>8. QED BY <1>0, <2>1, <3>2, <3>3, <3>7 DEF RolesInv, RoleType, RoleRowsInv
  <2>6. QED BY <2>4, <2>5
<1>3. ASSUME NEW r \in RoleCalls, WriteRole(r) PROVE RolesInv'
  <2> DEFINE i == roleCall[r].id
             old == roles[i]
             new == MergedRole(roleCall[r].row, roleCall[r].patch)
             row == [new EXCEPT !.writes = old.writes + 1,
                        !.fresh = (old.fresh \cup DOMAIN roleCall[r].patch)
                                      \ StaleFields(new, old, roleCall[r].patch),
                        !.raced = old.raced \/ roleCall[r].row.writes # old.writes]
  <2>1. UNCHANGED roleOf /\ roleCall[r].step = "write"
    BY <1>3 DEF WriteRole
  <2>2. CASE UNCHANGED roles /\ (RoleAnswer(r, "missing") \/ RoleAnswer(r, "conflict"))
    BY <1>0, <1>b, <2>1, <2>2 DEF RoleType, RoleRowsInv
  <2>3. CASE /\ old.live /\ Named(new.name) \ {i} = {}
             /\ roles' = [roles EXCEPT ![i] = row] /\ RoleAnswer(r, "ok")
    <3>1. /\ row \in Role /\ row.live /\ row.writes = old.writes + 1 /\ row.name = new.name
          /\ row.fresh # RoleFields => row.raced
          /\ i = 3 => row.name = "admin"
      BY <2>1, WrittenRow
    <3>2. i \in DOMAIN roles
      BY <1>0, <2>1 DEF ReadInv
    <3>3. \A j \in DOMAIN roles \ {i} : roles[j].live => roles[j].name # new.name
      BY <2>3 DEF Named, LiveRoles
    <3> HIDE DEF row, new
    <3>4. /\ roles' \in Seq(Role) /\ DOMAIN roles' = DOMAIN roles
          /\ roles'[i] = row /\ \A j \in DOMAIN roles \ {i} : roles'[j] = roles[j]
      BY <1>0, <2>3, <3>1, <3>2 DEF RoleType
    <3>5. RoleRowsInv'
      BY <1>0, <2>1, <2>3, <3>1, <3>2, <3>3, <3>4 DEF RoleRowsInv, RoleType
    <3>6. QED BY <1>b, <2>1, <2>3, <3>1, <3>2, <3>4, <3>5
  <2>4. QED BY <1>3, <2>2, <2>3 DEF WriteRole
<1>4. ASSUME NEW r \in RoleCalls, CountUsers(r) PROVE RolesInv'
  <2>1. UNCHANGED <<roles, roleOf>> /\ roleCall[r].step = "count"
    BY <1>4 DEF CountUsers
  <2>2. CASE RoleAnswer(r, "conflict")
    BY <1>0, <1>b, <2>1, <2>2 DEF RoleType, RoleRowsInv
  <2>3. CASE roleCall' = [roleCall EXCEPT ![r].step = "delete"]
    <3>1. [roleCall[r] EXCEPT !.step = "delete"] \in RoleCall
      BY <1>0 DEF RoleType, RoleCall
    <3>2. roleCall' \in [RoleCalls -> RoleCall]
      BY <1>0, <2>3, <3>1 DEF RoleType
    <3>3. /\ roleCall'[r].step = "delete" /\ roleCall'[r].id = roleCall[r].id
          /\ \A q \in RoleCalls \ {r} : roleCall'[q] = roleCall[q]
      BY <1>0, <2>3 DEF RoleType, RoleCall
    <3>4. ASSUME NEW q \in RoleCalls PROVE ReadInv(q)'
      BY <1>0, <2>1, <3>3 DEF ReadInv
    <3>5. QED BY <1>0, <2>1, <3>2, <3>4 DEF RolesInv, RoleType, RoleRowsInv
  <2>4. QED BY <1>4, <2>2, <2>3 DEF CountUsers
<1>5. ASSUME NEW r \in RoleCalls, DeleteRole(r) PROVE RolesInv'
  <2> DEFINE i == roleCall[r].id
             row == [roles[i] EXCEPT !.live = FALSE]
  <2>1. UNCHANGED roleOf /\ i \in DOMAIN roles /\ i # 3
    BY <1>0, <1>5 DEF DeleteRole, ReadInv
  <2>2. CASE UNCHANGED roles /\ (RoleAnswer(r, "missing") \/ RoleAnswer(r, "error"))
    BY <1>0, <1>b, <2>1, <2>2 DEF RoleType, RoleRowsInv
  <2>3. CASE roleOf # i /\ roles' = [roles EXCEPT ![i].live = FALSE] /\ RoleAnswer(r, "ok")
    <3>1. row \in Role /\ ~row.live /\ row.writes = roles[i].writes /\ row.name = roles[i].name
          /\ row.level = roles[i].level /\ row.fresh = roles[i].fresh /\ row.raced = roles[i].raced
      BY <1>a, <2>1 DEF Role
    <3>2. roles' = [roles EXCEPT ![i] = row]
      BY <1>0, <2>1, <2>3 DEF RoleType
    <3> HIDE DEF row
    <3>3. /\ roles' \in Seq(Role) /\ DOMAIN roles' = DOMAIN roles
          /\ roles'[i] = row /\ \A j \in DOMAIN roles \ {i} : roles'[j] = roles[j]
      BY <1>0, <2>1, <3>1, <3>2 DEF RoleType
    <3>4. RoleRowsInv'
      BY <1>0, <2>1, <2>3, <3>1, <3>3 DEF RoleRowsInv, RoleType
    <3>5. QED BY <1>b, <2>1, <2>3, <3>1, <3>3, <3>4
  <2>4. QED BY <1>5, <2>2, <2>3 DEF DeleteRole
<1>6. QED BY <1>1, <1>2, <1>3, <1>4, <1>5 DEF RoleArrival, RoleStep

-----------------------------------------------------------------------------
(* The requests for the account.                                           *)

Call == [step : CallSteps, kind : Kinds, arg : Nat]

CallType == calls \in [Calls -> Call]

\* An assignment has found its role, which is never forgotten.
CallsInv ==
    /\ CallType
    /\ \A c \in Calls : calls[c].step = "assign" => calls[c].arg \in DOMAIN roles

LEMMA GotoKeeps ==
    ASSUME CallType, NEW c \in Calls, NEW step \in CallSteps, Goto(c, step)
    PROVE  /\ calls' \in [Calls -> Call]
           /\ calls'[c].step = step /\ calls'[c].kind = calls[c].kind
           /\ \A d \in Calls \ {c} : calls'[d] = calls[d]
<1> DEFINE arg == IF step \in Answers THEN 0 ELSE calls[c].arg
           first == [calls[c] EXCEPT !.step = step]
           second == [first EXCEPT !.arg = arg]
<1>1. arg \in Nat /\ calls[c] \in Call
  BY DEF CallType, Call
<1>2. first \in Call /\ first.step = step /\ first.kind = calls[c].kind
  BY <1>1 DEF Call
<1>3. second \in Call /\ second.step = step /\ second.kind = calls[c].kind
  <2> HIDE DEF arg, first
  <2>1. QED BY <1>1, <1>2 DEF Call
<1>4. calls' = [calls EXCEPT ![c] = second]
  BY <1>1 DEF Goto, CallType, Call
<1> HIDE DEF second
<1>5. QED BY <1>3, <1>4 DEF CallType

LEMMA BeginKeeps ==
    ASSUME CallType, NEW c \in Calls, NEW kind \in Kinds, NEW step \in CallSteps, NEW arg \in Nat,
           Begin(c, kind, step, arg)
    PROVE  /\ calls' \in [Calls -> Call]
           /\ calls'[c].step = step /\ calls'[c].kind = kind /\ calls'[c].arg = arg
           /\ \A d \in Calls \ {c} : calls'[d] = calls[d]
BY DEF Begin, CallType, Call

\* What a step does to the calls: c alone moves, from one step to the next.
Moved(c, from, kinds, to) ==
    /\ calls' \in [Calls -> Call]
    /\ calls[c].step \in from
    /\ calls'[c].kind \in kinds /\ (calls[c].step # "new" => calls'[c].kind = calls[c].kind)
    /\ calls'[c].step \in to
    /\ \A d \in Calls \ {c} : calls'[d] = calls[d]

LEMMA CallMoves ==
    ASSUME CallsInv, RoleType, tokens \in Seq(Token), NEW c \in Calls
    PROVE  /\ Register(c) => Moved(c, {"new"}, {"register"}, {"invalidate", "ok", "error", "conflict"})
           /\ AskToken(c) => Moved(c, {"new"}, {"resend", "forgot"}, {"invalidate", "ok"})
           /\ Consume(c) => Moved(c, {"new"}, {"verify", "reset"}, {"activate", "error", "refused"})
           /\ AskChange(c) => Moved(c, {"new"}, {"change"}, {"password", "refused"})
           /\ AskAssign(c) => Moved(c, {"new"}, {"assign"}, {"assign", "missing"})
           /\ Invalidate(c) => Moved(c, {"invalidate"}, Kinds, {"create", "ok", "error"})
           /\ CreateToken(c) => Moved(c, {"create"}, Kinds, {"ok", "error"})
           /\ Activate(c) => Moved(c, {"activate"}, Kinds, {"password", "ok", "error"})
           /\ UpdatePassword(c) => Moved(c, {"password"}, Kinds, {"ok", "error"})
           /\ UpdateRole(c) => Moved(c, {"assign"}, Kinds, {"ok", "error"})
<1>0. CallType /\ calls[c] \in Call
  BY DEF CallsInv, CallType
<1> USE <1>0 DEF Moved, CallSteps, Answers, Kinds
<1>1. Register(c) => Moved(c, {"new"}, {"register"}, {"invalidate", "ok", "error", "conflict"})
  BY BeginKeeps DEF Register, CallArrives
<1>2. AskToken(c) => Moved(c, {"new"}, {"resend", "forgot"}, {"invalidate", "ok"})
  BY BeginKeeps DEF AskToken, CallArrives
<1>3. Consume(c) => Moved(c, {"new"}, {"verify", "reset"}, {"activate", "error", "refused"})
  BY BeginKeeps DEF Consume, CallArrives
<1>4. AskChange(c) => Moved(c, {"new"}, {"change"}, {"password", "refused"})
  BY BeginKeeps DEF AskChange, CallArrives
<1>5. AskAssign(c) => Moved(c, {"new"}, {"assign"}, {"assign", "missing"})
  <2>1. SUFFICES ASSUME AskAssign(c)
                 PROVE  Moved(c, {"new"}, {"assign"}, {"assign", "missing"})
    OBVIOUS
  <2>2. PICK arg \in Nat : Begin(c, "assign", "missing", arg) \/ Begin(c, "assign", "assign", arg)
    <3>1. \A name \in RoleNames : Named(name) \subseteq Nat
      BY DEF Named, LiveRoles, RoleType
    <3>2. QED BY <2>1, <3>1 DEF AskAssign
  <2>3. QED BY <2>1, <2>2, BeginKeeps DEF AskAssign, CallArrives
<1>6. Invalidate(c) => Moved(c, {"invalidate"}, Kinds, {"create", "ok", "error"})
  <2> DEFINE first == [calls[c] EXCEPT !.step = "create"]
             second == [first EXCEPT !.arg = Len(tokens)]
  <2>1. SUFFICES ASSUME Invalidate(c)
                 PROVE  Moved(c, {"invalidate"}, Kinds, {"create", "ok", "error"})
    OBVIOUS
  <2>2. CASE calls' = [calls EXCEPT ![c].step = "create", ![c].arg = Len(tokens)]
    <3>1. first \in Call /\ first.step = "create" /\ first.kind = calls[c].kind
      BY DEF Call
    <3>2. second \in Call /\ second.step = "create" /\ second.kind = calls[c].kind
      <4> HIDE DEF first
      <4>1. QED BY <3>1 DEF Call
    <3>3. calls' = [calls EXCEPT ![c] = second]
      BY <2>2 DEF CallType, Call
    <3> HIDE DEF second
    <3>4. QED BY <2>1, <3>2, <3>3 DEF Invalidate, CallType, Call
  <2>3. CASE IssueFailed(c)
    BY <2>1, <2>3, GotoKeeps DEF Invalidate, IssueFailed, Call
  <2>4. QED BY <2>1, <2>2, <2>3 DEF Invalidate
<1>7. CreateToken(c) => Moved(c, {"create"}, Kinds, {"ok", "error"})
  BY GotoKeeps DEF CreateToken, IssueFailed, Call
<1>8. Activate(c) => Moved(c, {"activate"}, Kinds, {"password", "ok", "error"})
  BY GotoKeeps DEF Activate, Call
<1>9. UpdatePassword(c) => Moved(c, {"password"}, Kinds, {"ok", "error"})
  BY GotoKeeps DEF UpdatePassword, Call
<1>10. UpdateRole(c) => Moved(c, {"assign"}, Kinds, {"ok", "error"})
  BY GotoKeeps DEF UpdateRole, Call
<1>11. QED
  BY <1>1, <1>2, <1>3, <1>4, <1>5, <1>6, <1>7, <1>8, <1>9, <1>10

-----------------------------------------------------------------------------
(* Tokens.                                                                 *)

TokensInv ==
    /\ tokens \in Seq(Token)
    /\ \A c \in Calls : calls[c].step = "create" =>
           /\ calls[c].arg <= Len(tokens)
           /\ \A s \in 1..calls[c].arg :
                  tokens[s].purpose = Purpose(calls[c].kind) => tokens[s].state # "open"
    /\ OpenTokensExplained

\* Who spent a token.
Spender(t, c) ==
    /\ tokens[t].spentBy = {c} /\ calls[c].step # "new"
    /\ calls[c].kind \in {"verify", "reset"} /\ Purpose(calls[c].kind) = tokens[t].purpose

SpentInv ==
    \A t \in DOMAIN tokens :
        IF tokens[t].state = "used" THEN \E c \in Calls : Spender(t, c) ELSE tokens[t].spentBy = {}

\* The three things that happen to the table.
NoneOpened ==
    /\ tokens' \in Seq(Token) /\ Len(tokens') = Len(tokens)
    /\ \A t \in DOMAIN tokens :
           /\ tokens'[t].purpose = tokens[t].purpose /\ tokens'[t].mark = tokens[t].mark
           /\ tokens'[t].state # tokens[t].state => tokens[t].state = "open"

Voiding ==
    NoneOpened /\ \A t \in DOMAIN tokens :
        /\ tokens'[t].spentBy = tokens[t].spentBy
        /\ tokens'[t].state # tokens[t].state => tokens'[t].state = "void"

Spending(c, purpose) ==
    /\ NoneOpened
    /\ \E t \in DOMAIN tokens :
          /\ tokens[t].state = "open" /\ tokens[t].purpose = purpose
          /\ tokens'[t].state = "used" /\ tokens'[t].spentBy = {c}
          /\ \A s \in DOMAIN tokens \ {t} : tokens'[s] = tokens[s]

Adding(c) ==
    LET new == tokens'[Len(tokens) + 1] IN
    /\ tokens' \in Seq(Token) /\ Len(tokens') = Len(tokens) + 1
    /\ \A t \in DOMAIN tokens : tokens'[t] = tokens[t]
    /\ new.purpose = Purpose(calls[c].kind) /\ new.state = "open"
    /\ new.mark = calls[c].arg /\ new.spentBy = {}

LEMMA TokenRows ==
    ASSUME tokens \in Seq(Token)
    PROVE  /\ DOMAIN tokens = 1..Len(tokens) /\ Len(tokens) \in Nat
           /\ \A t \in DOMAIN tokens : tokens[t] \in Token
OBVIOUS

LEMMA VoidedVoids ==
    ASSUME tokens \in Seq(Token), NEW purpose,
           tokens' = Voided(purpose) \/ UNCHANGED tokens
    PROVE  /\ Voiding
           /\ tokens' = Voided(purpose) =>
                 \A t \in DOMAIN tokens : tokens[t].purpose = purpose => tokens'[t].state # "open"
<1>1. CASE UNCHANGED tokens /\ tokens' # Voided(purpose)
  BY <1>1 DEF Voiding, NoneOpened
<1>2. CASE tokens' = Voided(purpose)
  <2>1. ASSUME NEW t \in DOMAIN tokens
        PROVE  LET row == [tokens[t] EXCEPT !.state = "void"] IN
               /\ row \in Token /\ row.state = "void" /\ row.purpose = tokens[t].purpose
               /\ row.mark = tokens[t].mark /\ row.spentBy = tokens[t].spentBy
    BY TokenRows DEF Token
  <2>2. \A t \in DOMAIN tokens :
            tokens'[t] = IF tokens[t].purpose = purpose /\ tokens[t].state = "open"
                         THEN [tokens[t] EXCEPT !.state = "void"] ELSE tokens[t]
    BY <1>2 DEF Voided
  <2>3. DOMAIN tokens' = 1..Len(tokens) /\ Len(tokens) \in Nat
    BY <1>2, TokenRows DEF Voided
  <2>4. \A t \in 1..Len(tokens) : tokens'[t] \in Token
    BY <2>1, <2>2, TokenRows
  <2>5. tokens' = [t \in 1..Len(tokens) |-> tokens'[t]]
    BY <1>2, <2>3 DEF Voided
  <2>6. tokens' \in Seq(Token) /\ Len(tokens') = Len(tokens)
    BY <2>3, <2>4, <2>5
  <2>7. QED BY <2>1, <2>2, <2>6 DEF Voiding, NoneOpened
<1>3. QED BY <1>1, <1>2

LEMMA ConsumeSpends ==
    ASSUME tokens \in Seq(Token), SpentInv, NEW c \in Calls, Consume(c)
    PROVE  \/ UNCHANGED tokens /\ \E kind \in {"verify", "reset"} : Begin(c, kind, "refused", 0)
           \/ \E kind \in {"verify", "reset"} :
                 /\ Spending(c, Purpose(kind))
                 /\ Begin(c, kind, "activate", 0) \/ Begin(c, kind, "error", 0)
<1>1. PICK kind \in {"verify", "reset"}, t \in DOMAIN tokens :
          IF Consumable(t, Purpose(kind))
          THEN /\ tokens' = [tokens EXCEPT ![t].state = "used", ![t].spentBy = @ \cup {c}]
               /\ Begin(c, kind, "activate", 0) \/ Begin(c, kind, "error", 0)
          ELSE UNCHANGED tokens /\ Begin(c, kind, "refused", 0)
  BY DEF Consume
<1>2. CASE Consumable(t, Purpose(kind))
  <2> DEFINE first == [tokens[t] EXCEPT !.state = "used"]
             row == [first EXCEPT !.spentBy = tokens[t].spentBy \cup {c}]
  <2>1. tokens[t] \in Token /\ tokens[t].spentBy = {} /\ tokens[t].state = "open"
        /\ tokens[t].purpose = Purpose(kind)
    BY <1>2, TokenRows DEF Consumable, SpentInv
  <2>2. first \in Token /\ first.state = "used" /\ first.purpose = tokens[t].purpose
        /\ first.mark = tokens[t].mark
    BY <2>1 DEF Token
  <2>3. row \in Token /\ row.state = "used" /\ row.purpose = tokens[t].purpose
        /\ row.mark = tokens[t].mark /\ row.spentBy = {c}
    <3> HIDE DEF first
    <3>1. QED BY <2>1, <2>2 DEF Token
  <2>4. tokens' = [tokens EXCEPT ![t] = row]
    BY <1>1, <1>2, <2>1, TokenRows DEF Token
  <2> HIDE DEF row
  <2>5. /\ tokens' \in Seq(Token) /\ Len(tokens') = Len(tokens) /\ tokens'[t] = row
        /\ \A s \in DOMAIN tokens \ {t} : tokens'[s] = tokens[s]
    BY <2>3, <2>4
  <2>6. Spending(c, Purpose(kind))
    BY <2>1, <2>3, <2>5 DEF Spending, NoneOpened
  <2>7. QED BY <1>1, <1>2, <2>6
<1>3. QED BY <1>1, <1>2

LEMMA CreateAdds ==
    ASSUME tokens \in Seq(Token), CallType, NEW c \in Calls, CreateToken(c)
    PROVE  Adding(c) \/ UNCHANGED tokens
<1> DEFINE row(mailed) == [purpose |-> Purpose(calls[c].kind), state |-> "open", mailed |-> mailed,
                           mark |-> calls[c].arg, spentBy |-> {}]
<1>1. \/ UNCHANGED tokens
      \/ \E mailed \in BOOLEAN : tokens' = Append(tokens, row(mailed))
  BY DEF CreateToken
<1>2. ASSUME NEW mailed \in BOOLEAN, tokens' = Append(tokens, row(mailed)) PROVE Adding(c)
  <2>1. row(mailed) \in Token /\ row(mailed).purpose = Purpose(calls[c].kind)
        /\ row(mailed).state = "open" /\ row(mailed).mark = calls[c].arg
        /\ row(mailed).spentBy = {}
    BY DEF Token, Purpose, Purposes, CallType, Call
  <2> HIDE DEF row
  <2>2. QED BY <1>2, <2>1 DEF Adding
<1>3. QED BY <1>1, <1>2

-----------------------------------------------------------------------------
(* The row of the account and its events.                                  *)

EventsInv ==
    /\ user \in [exists : BOOLEAN, active : BOOLEAN, password : {0} \cup Calls, version : Nat]
    /\ userEvents \in Seq(UserEvent) /\ assignments \in Nat
    /\ user.version = Len(userEvents) + assignments
    /\ \A k \in DOMAIN userEvents :
           /\ userEvents[k].version <= user.version
           /\ userEvents[k].type = "registered" <=> k = 1
           /\ userEvents[k].type = "activated" => user.active
    /\ \A j, k \in DOMAIN userEvents : j < k => userEvents[j].version < userEvents[k].version
    /\ \A j, k \in DOMAIN userEvents :
           userEvents[j].type = "activated" /\ userEvents[k].type = "activated" => j = k
    /\ user.exists <=> userEvents # <<>>
    /\ ~user.exists => assignments = 0 /\ ~user.active

\* Where a request of each kind can be.
StepInv(c) ==
    /\ calls[c].step \in {"invalidate", "create"} => calls[c].kind \in {"register", "resend", "forgot"}
    /\ calls[c].step = "activate" => calls[c].kind \in {"verify", "reset"}
    /\ calls[c].step = "password" => calls[c].kind \in {"reset", "change"}
    /\ calls[c].step = "assign" => calls[c].kind = "assign"
    /\ ~user.exists => calls[c].step \in Answers \cup {"new"}

Paid(c) ==
    \E t \in DOMAIN tokens : tokens[t].purpose = "password_reset" /\ tokens[t].spentBy = {c}

\* What a request has done to the account by each of its steps.
DoneInv(c) ==
    /\ \A j, k \in EventsOf("password_changed", c) : j = k
    /\ EventsOf("password_changed", c) # {} => calls[c].step \in {"ok", "error"}
    /\ calls[c].kind = "reset" =>
           /\ calls[c].step = "ok" => EventsOf("password_changed", c) # {}
           /\ calls[c].step \in {"activate", "password"} \/ EventsOf("password_changed", c) # {} => Paid(c)
           /\ calls[c].step = "password" \/ EventsOf("password_changed", c) # {} => user.active
    /\ calls[c].kind \in {"verify", "reset"} /\ calls[c].step = "ok" => user.active

UserInv ==
    /\ EventsInv
    /\ \A c \in Calls : StepInv(c) /\ DoneInv(c)
    /\ ~user.exists => tokens = <<>> /\ roleOf = 0

AccountInv == RolesInv /\ CallsInv /\ TokensInv /\ SpentInv /\ UserInv

LEMMA AccountInitially == Init => AccountInv
<1> SUFFICES ASSUME Init PROVE AccountInv
  OBVIOUS
<1> USE DEF Init
<1>1. RolesInv
  BY RolesInitially
<1>2. NoCall \in Call /\ NoCall.step = "new" /\ NoCall.kind = "register"
  BY DEF NoCall, Call, CallSteps, Kinds
<1>3. CallsInv /\ \A c \in Calls : calls[c] = NoCall
  BY <1>2 DEF CallsInv, CallType
<1>4. TokensInv /\ SpentInv /\ DOMAIN tokens = {}
  BY <1>2, <1>3 DEF TokensInv, SpentInv, OpenTokensExplained
<1>5. EventsInv /\ DOMAIN userEvents = {}
  BY DEF EventsInv
<1>6. ASSUME NEW c \in Calls PROVE StepInv(c) /\ DoneInv(c)
  <2>1. EventsOf("password_changed", c) = {}
    BY <1>5 DEF EventsOf
  <2>2. QED BY <1>2, <1>3, <2>1 DEF StepInv, DoneInv
<1>7. UserInv
  BY <1>5, <1>6 DEF UserInv, RoleInit
<1>8. QED BY <1>1, <1>3, <1>4, <1>7 DEF AccountInv

\* The steps of a request: where it goes, and what becomes of the tokens.
LEMMA TokenSteps ==
    ASSUME AccountInv, NEW c \in Calls, CallArrival(c) \/ CallStep(c)
    PROVE  \E from, to \in SUBSET CallSteps, kinds \in SUBSET Kinds :
             /\ Moved(c, from, kinds, to) /\ "new" \notin to
             /\ \/ Voiding /\ "create" \notin to
                \/ /\ Voiding /\ calls[c].step = "invalidate"
                   /\ calls'[c].step = "create" =>
                         /\ calls'[c].arg = Len(tokens)
                         /\ \A t \in DOMAIN tokens :
                               tokens[t].purpose = Purpose(calls[c].kind) => tokens'[t].state # "open"
                \/ /\ Spending(c, Purpose(calls'[c].kind)) /\ calls'[c].kind \in {"verify", "reset"}
                   /\ "create" \notin to
                \/ Adding(c) /\ calls[c].step = "create" /\ "create" \notin to
<1>0. tokens \in Seq(Token) /\ CallType /\ CallsInv /\ RoleType /\ SpentInv
  BY DEF AccountInv, TokensInv, CallsInv, RolesInv
<1>a. UNCHANGED tokens => Voiding
  BY <1>0, VoidedVoids
<1> USE DEF CallSteps, Answers, Kinds
<1>1. CASE Register(c) \/ AskToken(c) \/ AskChange(c) \/ AskAssign(c)
  <2>1. Voiding
    BY <1>1, <1>a DEF Register, AskToken, AskChange, AskAssign
  <2>2. QED BY <1>0, <1>1, <2>1, CallMoves
<1>2. CASE Consume(c)
  <2>1. Moved(c, {"new"}, {"verify", "reset"}, {"activate", "error", "refused"})
    BY <1>0, <1>2, CallMoves
  <2>2. CASE UNCHANGED tokens
    BY <1>a, <2>1, <2>2
  <2>3. ASSUME NEW kind \in {"verify", "reset"}, Spending(c, Purpose(kind)),
               Begin(c, kind, "activate", 0) \/ Begin(c, kind, "error", 0)
        PROVE  Spending(c, Purpose(calls'[c].kind)) /\ calls'[c].kind \in {"verify", "reset"}
    <3>1. calls'[c].kind = kind
      BY <1>0, <2>3, BeginKeeps
    <3>2. QED BY <2>3, <3>1
  <2>4. QED BY <1>0, <1>2, <2>1, <2>2, <2>3, ConsumeSpends
<1>3. CASE Invalidate(c)
  <2>1. Moved(c, {"invalidate"}, Kinds, {"create", "ok", "error"})
    BY <1>0, <1>3, CallMoves
  <2>2. Voiding
    BY <1>0, <1>3, VoidedVoids DEF Invalidate
  <2>3. ASSUME calls'[c].step = "create"
        PROVE  calls'[c].arg = Len(tokens) /\ tokens' = Voided(Purpose(calls[c].kind))
    <3>1. ~IssueFailed(c)
      BY <1>0, <2>3, GotoKeeps DEF IssueFailed
    <3>2. tokens' = Voided(Purpose(calls[c].kind))
          /\ calls' = [calls EXCEPT ![c].step = "create", ![c].arg = Len(tokens)]
      BY <1>3, <3>1 DEF Invalidate
    <3>3. QED BY <1>0, <3>2 DEF CallType, Call
  <2>4. QED BY <1>0, <1>3, <2>1, <2>2, <2>3, VoidedVoids DEF Invalidate
<1>4. CASE CreateToken(c)
  <2>1. Moved(c, {"create"}, Kinds, {"ok", "error"})
    BY <1>0, <1>4, CallMoves
  <2>2. calls[c].step = "create"
    BY <1>4 DEF CreateToken
  <2>3. Adding(c) \/ Voiding
    BY <1>0, <1>a, <1>4, CreateAdds
  <2>4. QED BY <2>1, <2>2, <2>3
<1>5. CASE Activate(c) \/ UpdatePassword(c) \/ UpdateRole(c)
  <2>1. Voiding
    BY <1>5, <1>a DEF Activate, UpdatePassword, UpdateRole
  <2>2. QED BY <1>0, <1>5, <2>1, CallMoves
<1>6. QED BY <1>1, <1>2, <1>3, <1>4, <1>5 DEF CallArrival, CallStep

LEMMA TokensInvStep ==
    ASSUME AccountInv, NEW c \in Calls, CallArrival(c) \/ CallStep(c)
    PROVE  TokensInv' /\ SpentInv'
<1>0. TokensInv /\ SpentInv /\ CallsInv /\ CallType
  BY DEF AccountInv, CallsInv
<1>1. PICK from \in SUBSET CallSteps, to \in SUBSET CallSteps, kinds \in SUBSET Kinds :
             /\ Moved(c, from, kinds, to) /\ "new" \notin to
             /\ \/ Voiding /\ "create" \notin to
                \/ /\ Voiding /\ calls[c].step = "invalidate"
                   /\ calls'[c].step = "create" =>
                         /\ calls'[c].arg = Len(tokens)
                         /\ \A t \in DOMAIN tokens :
                               tokens[t].purpose = Purpose(calls[c].kind) => tokens'[t].state # "open"
                \/ /\ Spending(c, Purpose(calls'[c].kind)) /\ calls'[c].kind \in {"verify", "reset"}
                   /\ "create" \notin to
                \/ Adding(c) /\ calls[c].step = "create" /\ "create" \notin to
  BY TokenSteps
<1>2. /\ \A d \in Calls \ {c} : calls'[d] = calls[d]
      /\ calls'[c].step \in to /\ calls'[c].step # "new"
      /\ calls[c].step # "new" => calls'[c].kind = calls[c].kind
  BY <1>1 DEF Moved
<1>3. /\ DOMAIN tokens = 1..Len(tokens) /\ Len(tokens) \in Nat
      /\ \A t \in DOMAIN tokens : tokens[t] \in Token
      /\ \A d \in Calls : calls[d].arg \in Nat
  BY <1>0, TokenRows DEF TokensInv, CallType, Call
<1>4. CASE NoneOpened /\ (calls'[c].step = "create" =>
               /\ calls[c].step = "invalidate" /\ calls'[c].arg = Len(tokens)
               /\ \A t \in DOMAIN tokens :
                     tokens[t].purpose = Purpose(calls[c].kind) => tokens'[t].state # "open")
  <2>1. tokens' \in Seq(Token) /\ Len(tokens') = Len(tokens) /\ DOMAIN tokens' = DOMAIN tokens
    BY <1>3, <1>4 DEF NoneOpened
  <2>2. ASSUME NEW d \in Calls, calls'[d].step = "create"
        PROVE  /\ calls'[d].arg <= Len(tokens')
               /\ \A s \in 1..calls'[d].arg :
                     tokens'[s].purpose = Purpose(calls'[d].kind) => tokens'[s].state # "open"
    <3>1. CASE d = c
      BY <1>2, <1>3, <1>4, <2>1, <2>2, <3>1 DEF NoneOpened
    <3>2. CASE d # c
      BY <1>0, <1>2, <1>3, <1>4, <2>1, <2>2, <3>2 DEF NoneOpened, TokensInv
    <3>3. QED BY <3>1, <3>2
  <2>3. OpenTokensExplained'
    BY <1>0, <1>3, <1>4, <2>1 DEF OpenTokensExplained, NoneOpened, TokensInv
  <2>4. TokensInv'
    BY <2>1, <2>2, <2>3 DEF TokensInv
  <2>5. ASSUME NEW t \in DOMAIN tokens, NEW d \in Calls, Spender(t, d), tokens'[t] = tokens[t]
               \/ tokens'[t].spentBy = tokens[t].spentBy
        PROVE  Spender(t, d)'
    BY <1>2, <1>4, <2>5 DEF Spender, NoneOpened
  <2>6. CASE Voiding
    <3>1. ASSUME NEW t \in DOMAIN tokens
          PROVE  IF tokens'[t].state = "used" THEN \E d \in Calls : Spender(t, d)'
                 ELSE tokens'[t].spentBy = {}
      <4>1. /\ tokens'[t].spentBy = tokens[t].spentBy
            /\ tokens'[t].state = "used" <=> tokens[t].state = "used"
        BY <2>6 DEF Voiding, NoneOpened
      <4>2. CASE tokens[t].state = "used"
        <5>1. PICK d \in Calls : Spender(t, d)
          BY <1>0, <4>2 DEF SpentInv
        <5>2. Spender(t, d)'
          BY <2>5, <4>1, <5>1
        <5>3. QED BY <4>1, <4>2, <5>2
      <4>3. CASE tokens[t].state # "used"
        BY <1>0, <4>1, <4>3 DEF SpentInv
      <4>4. QED BY <4>2, <4>3
    <3>2. QED BY <2>1, <2>4, <3>1 DEF SpentInv
  <2>7. CASE Spending(c, Purpose(calls'[c].kind)) /\ calls'[c].kind \in {"verify", "reset"}
    <3>1. PICK t \in DOMAIN tokens :
            /\ tokens[t].state = "open" /\ tokens[t].purpose = Purpose(calls'[c].kind)
            /\ tokens'[t].state = "used" /\ tokens'[t].spentBy = {c}
            /\ \A s \in DOMAIN tokens \ {t} : tokens'[s] = tokens[s]
      BY <2>7 DEF Spending
    <3>2. Spender(t, c)'
      BY <1>2, <1>4, <2>7, <3>1 DEF Spender, NoneOpened
    <3>3. ASSUME NEW s \in DOMAIN tokens \ {t}
          PROVE  IF tokens'[s].state = "used" THEN \E d \in Calls : Spender(s, d)'
                 ELSE tokens'[s].spentBy = {}
      <4>1. tokens'[s] = tokens[s]
        BY <3>1
      <4>2. CASE tokens[s].state = "used"
        <5>1. PICK d \in Calls : Spender(s, d)
          BY <1>0, <4>2 DEF SpentInv
        <5>2. Spender(s, d)'
          BY <2>5, <4>1, <5>1
        <5>3. QED BY <4>1, <4>2, <5>2
      <4>3. CASE tokens[s].state # "used"
        BY <1>0, <4>1, <4>3 DEF SpentInv
      <4>4. QED BY <4>2, <4>3
    <3>4. \A s \in DOMAIN tokens : IF tokens'[s].state = "used" THEN \E d \in Calls : Spender(s, d)'
                                  ELSE tokens'[s].spentBy = {}
      BY <3>1, <3>2, <3>3
    <3>5. QED BY <2>1, <2>4, <3>4 DEF SpentInv
  <2>8. ~Adding(c)
    <3>1. Len(tokens') = Len(tokens)
      BY <1>4 DEF NoneOpened
    <3>2. \A n \in Nat : n # n + 1
      OBVIOUS
    <3>3. Len(tokens) # Len(tokens) + 1
      BY <1>3, <3>2
    <3>4. QED BY <3>1, <3>3 DEF Adding
  <2>9. QED BY <1>1, <2>4, <2>6, <2>7, <2>8
<1>5. CASE Adding(c) /\ calls[c].step = "create" /\ calls'[c].step # "create"
  <2> DEFINE n == Len(tokens) + 1
  <2>1. /\ tokens' \in Seq(Token) /\ Len(tokens') = n /\ DOMAIN tokens' = DOMAIN tokens \cup {n}
        /\ n \notin DOMAIN tokens
        /\ \A t \in DOMAIN tokens : tokens'[t] = tokens[t]
    BY <1>3, <1>5 DEF Adding
  <2>2. ASSUME NEW d \in Calls, calls'[d].step = "create"
        PROVE  /\ calls'[d].arg <= Len(tokens')
               /\ \A s \in 1..calls'[d].arg :
                     tokens'[s].purpose = Purpose(calls'[d].kind) => tokens'[s].state # "open"
    BY <1>0, <1>2, <1>3, <1>5, <2>1, <2>2 DEF TokensInv
  <2>3. OpenTokensExplained'
    <3>1. ASSUME NEW s \in DOMAIN tokens, tokens[s].state = "open",
                 tokens[s].purpose = Purpose(calls[c].kind)
          PROVE  calls[c].arg < s
      BY <1>0, <1>3, <1>5, <3>1 DEF TokensInv
    <3>2. QED BY <1>0, <1>3, <1>5, <2>1, <3>1 DEF OpenTokensExplained, Adding, TokensInv
  <2>4. SpentInv'
    BY <1>0, <1>2, <1>5, <2>1 DEF SpentInv, Spender, Adding
  <2>5. QED BY <2>1, <2>2, <2>3, <2>4 DEF TokensInv
<1>6. QED BY <1>1, <1>2, <1>4, <1>5 DEF Voiding, Spending

\* What a step of request c may do to row, events and tokens.
Grown(c, type) ==
    /\ user' \in [exists : BOOLEAN, active : BOOLEAN, password : {0} \cup Calls, version : Nat]
    /\ user'.exists /\ (user.active => user'.active) /\ user'.version = user.version + 1
    /\ userEvents' = Append(userEvents, [type |-> type, version |-> user'.version, by |-> c])
    /\ UNCHANGED assignments

TokensKept ==
    \A t \in DOMAIN tokens :
        /\ t \in DOMAIN tokens' /\ tokens'[t].purpose = tokens[t].purpose
        /\ tokens[t].spentBy # {} => tokens'[t].spentBy = tokens[t].spentBy

LEMMA TokensStayPaid ==
    ASSUME AccountInv, NEW c \in Calls, CallArrival(c) \/ CallStep(c)
    PROVE  TokensKept
<1>0. /\ DOMAIN tokens = 1..Len(tokens) /\ Len(tokens) \in Nat /\ tokens \in Seq(Token) /\ SpentInv
      /\ \A t \in DOMAIN tokens : tokens[t] \in Token
  BY TokenRows DEF AccountInv, TokensInv
<1>1. Voiding \/ (\E purpose : Spending(c, purpose)) \/ Adding(c)
  BY TokenSteps
<1>2. CASE Voiding
  BY <1>0, <1>2 DEF Voiding, NoneOpened, TokensKept
<1>3. ASSUME NEW purpose, Spending(c, purpose) PROVE TokensKept
  <2>1. \A t \in DOMAIN tokens : tokens[t].state = "open" => tokens[t].spentBy = {}
    BY <1>0 DEF SpentInv
  <2>2. QED BY <1>0, <1>3, <2>1 DEF Spending, NoneOpened, TokensKept
<1>4. CASE Adding(c)
  BY <1>0, <1>4 DEF Adding, TokensKept
<1>5. QED BY <1>1, <1>2, <1>3, <1>4

LEMMA EventsGrow ==
    ASSUME EventsInv, NEW c \in Calls, NEW type \in {"registered", "activated", "password_changed"},
           Grown(c, type),
           type = "registered" <=> userEvents = <<>>,
           type = "activated" => ~user.active /\ user'.active
    PROVE  /\ EventsInv'
           /\ \A d \in Calls : EventsOf("password_changed", d)' =
                 IF d = c /\ type = "password_changed" THEN EventsOf("password_changed", d) \cup {Len(userEvents) + 1}
                 ELSE EventsOf("password_changed", d)
<1> DEFINE e == [type |-> type, version |-> user'.version, by |-> c]
           n == Len(userEvents) + 1
<1>1. e \in UserEvent /\ e.type = type /\ e.version = user.version + 1 /\ e.by = c
  BY DEF UserEvent, Grown
<1> HIDE DEF e
<1>2. userEvents' = Append(userEvents, e)
  BY DEF Grown, e
<1>3. /\ userEvents \in Seq(UserEvent) /\ Len(userEvents) \in Nat /\ DOMAIN userEvents = 1..Len(userEvents)
      /\ user.version \in Nat /\ assignments \in Nat
      /\ \A k \in DOMAIN userEvents : userEvents[k] \in UserEvent
  BY DEF EventsInv
<1>4. /\ userEvents' \in Seq(UserEvent) /\ Len(userEvents') = n /\ DOMAIN userEvents' = 1..n
      /\ userEvents'[n] = e /\ \A k \in DOMAIN userEvents : userEvents'[k] = userEvents[k]
  BY <1>1, <1>2, <1>3
<1>5. \A k \in DOMAIN userEvents : userEvents[k].version \in Nat
  BY <1>3 DEF UserEvent
<1>6. n = 1 <=> userEvents = <<>>
  BY <1>3
<1>7. /\ user'.version = user.version + 1 /\ user'.version = Len(userEvents') + assignments'
      /\ user'.exists /\ assignments' = assignments
      /\ user' \in [exists : BOOLEAN, active : BOOLEAN, password : {0} \cup Calls, version : Nat]
      /\ (user.active => user'.active)
  BY <1>3, <1>4 DEF Grown, EventsInv
<1>8. \A k \in DOMAIN userEvents' :
           /\ userEvents'[k].version <= user'.version
           /\ userEvents'[k].type = "registered" <=> k = 1
           /\ userEvents'[k].type = "activated" => user'.active
  BY <1>1, <1>3, <1>4, <1>5, <1>6, <1>7 DEF EventsInv
<1>9. \A j, k \in DOMAIN userEvents' : j < k => userEvents'[j].version < userEvents'[k].version
  BY <1>1, <1>3, <1>4, <1>5 DEF EventsInv
<1>10. \A j, k \in DOMAIN userEvents' :
           userEvents'[j].type = "activated" /\ userEvents'[k].type = "activated" => j = k
  BY <1>1, <1>3, <1>4 DEF EventsInv
<1>11. userEvents' # <<>>
  BY <1>3, <1>4
<1>12. EventsInv'
  BY <1>3, <1>4, <1>7, <1>8, <1>9, <1>10, <1>11 DEF EventsInv
<1>13. \A d \in Calls : EventsOf("password_changed", d)' =
          IF d = c /\ type = "password_changed" THEN EventsOf("password_changed", d) \cup {n}
          ELSE EventsOf("password_changed", d)
  BY <1>1, <1>3, <1>4 DEF EventsOf
<1>14. QED BY <1>12, <1>13

\* A step of another request leaves what d has done.
LEMMA OthersKept ==
    ASSUME AccountInv, NEW d \in Calls, calls'[d] = calls[d], TokensKept,
           user.exists => user'.exists, user.active => user'.active,
           EventsOf("password_changed", d)' = EventsOf("password_changed", d)
    PROVE  StepInv(d)' /\ DoneInv(d)'
<1>1. Paid(d) => Paid(d)'
  <2>1. ASSUME NEW t \in DOMAIN tokens, tokens[t].purpose = "password_reset", tokens[t].spentBy = {d}
        PROVE  t \in DOMAIN tokens' /\ tokens'[t].purpose = "password_reset" /\ tokens'[t].spentBy = {d}
    BY <2>1 DEF TokensKept
  <2>2. QED BY <2>1 DEF Paid
<1>2. StepInv(d) /\ DoneInv(d)
  BY DEF AccountInv, UserInv
<1>3. StepInv(d)'
  BY <1>2 DEF StepInv
<1>4. DoneInv(d)'
  BY <1>1, <1>2 DEF DoneInv
<1>5. QED BY <1>3, <1>4

LEMMA UserInvStep ==
    ASSUME AccountInv, NEW c \in Calls, CallArrival(c) \/ CallStep(c)
    PROVE  UserInv'
<1>0. /\ UserInv /\ EventsInv /\ CallsInv /\ CallType /\ RoleType /\ tokens \in Seq(Token) /\ SpentInv
      /\ StepInv(c) /\ DoneInv(c) /\ calls[c] \in Call /\ TokensKept
      /\ user \in [exists : BOOLEAN, active : BOOLEAN, password : {0} \cup Calls, version : Nat]
  BY TokensStayPaid DEF AccountInv, TokensInv, CallsInv, RolesInv, UserInv, CallType, EventsInv
<1>a. \A d \in Calls \ {c} : calls'[d] = calls[d]
  BY TokenSteps DEF Moved
<1>b. calls[c].step \notin {"ok", "error"} => EventsOf("password_changed", c) = {}
  BY <1>0 DEF DoneInv
\* The row and the events stay as they are.
<1>c. ASSUME UNCHANGED <<user, userEvents, assignments>>, StepInv(c)', DoneInv(c)',
             ~user.exists => UNCHANGED <<tokens, roleOf>>
      PROVE  UserInv'
  <2>1. \A d \in Calls : EventsOf("password_changed", d)' = EventsOf("password_changed", d)
    BY <1>c DEF EventsOf
  <2>2. \A d \in Calls : StepInv(d)' /\ DoneInv(d)'
    BY <1>0, <1>a, <1>c, <2>1, OthersKept
  <2>3. EventsInv'
    BY <1>0, <1>c DEF EventsInv
  <2>4. QED BY <1>0, <1>c, <2>2, <2>3 DEF UserInv
\* The request adds an event.
<1>d. ASSUME NEW type \in {"registered", "activated", "password_changed"}, Grown(c, type),
             type = "registered" <=> userEvents = <<>>,
             type = "activated" => ~user.active /\ user'.active,
             StepInv(c)', DoneInv(c)'
      PROVE  UserInv'
  <2>1. /\ EventsInv'
        /\ \A d \in Calls \ {c} : EventsOf("password_changed", d)' = EventsOf("password_changed", d)
    BY <1>0, <1>d, EventsGrow
  <2>2. user'.exists /\ (user.active => user'.active)
    BY <1>d DEF Grown
  <2>3. \A d \in Calls : StepInv(d)' /\ DoneInv(d)'
    BY <1>0, <1>a, <1>d, <2>1, <2>2, OthersKept
  <2>4. QED BY <2>1, <2>2, <2>3 DEF UserInv
<1>e. Paid(c) => Paid(c)'
  <2>1. ASSUME NEW t \in DOMAIN tokens, tokens[t].purpose = "password_reset", tokens[t].spentBy = {c}
        PROVE  t \in DOMAIN tokens' /\ tokens'[t].purpose = "password_reset" /\ tokens'[t].spentBy = {c}
    BY <1>0, <2>1 DEF TokensKept
  <2>2. QED BY <2>1 DEF Paid
<1>1. CASE Register(c)
  <2>1. Moved(c, {"new"}, {"register"}, {"invalidate", "ok", "error", "conflict"}) /\ UNCHANGED tokens
    BY <1>0, <1>1, CallMoves DEF Register
  <2>2. CASE /\ Insertable
             /\ user' = [exists |-> TRUE, active |-> ~VerifyRequired, password |-> c, version |-> 1]
             /\ Announce("registered", 1, c) /\ UNCHANGED assignments
    <3>1. ~user.exists /\ userEvents = <<>> /\ user.version = 0
      BY <1>0, <2>2 DEF Insertable, Known, EventsInv
    <3>2. user' \in [exists : BOOLEAN, active : BOOLEAN, password : {0} \cup Calls, version : Nat]
          /\ user'.exists /\ user'.version = 1
      BY <2>2, AccountsAssumption
    <3>3. ~user.active
      BY <1>0, <3>1 DEF EventsInv
    <3>4. Grown(c, "registered")
      BY <2>2, <3>1, <3>2, <3>3 DEF Grown, Announce
    <3>5. EventsOf("password_changed", c)' = {}
      BY <1>0, <1>b, <2>1, <3>1, <3>4, EventsGrow DEF Moved
    <3>6. StepInv(c)' /\ DoneInv(c)'
      BY <2>1, <3>2, <3>5 DEF Moved, StepInv, DoneInv
    <3>7. QED BY <1>d, <3>1, <3>4, <3>6
  <2>3. CASE /\ Begin(c, "register", IF Known THEN "conflict" ELSE "error", 0)
             /\ UNCHANGED <<user, userEvents, roleOf, assignments>>
    <3>1. calls'[c].step \in {"conflict", "error"} /\ calls'[c].kind = "register"
      BY <1>0, <2>3, BeginKeeps DEF CallSteps, Answers, Kinds
    <3>2. EventsOf("password_changed", c)' = {}
      BY <1>b, <2>1, <2>3 DEF Moved, EventsOf
    <3>3. StepInv(c)' /\ DoneInv(c)'
      BY <3>1, <3>2 DEF StepInv, DoneInv, Answers
    <3>4. QED BY <1>c, <2>1, <2>3, <3>3
  <2>4. QED BY <1>1, <2>2, <2>3 DEF Register
<1>2. CASE AskToken(c) \/ AskChange(c) \/ AskAssign(c)
  <2>1. UNCHANGED <<user, userEvents, assignments, tokens, roleOf>> /\ calls[c].step = "new"
    BY <1>2 DEF AskToken, AskChange, AskAssign, CallArrives, roleVars
  <2>2. EventsOf("password_changed", c)' = {}
    BY <1>b, <2>1 DEF EventsOf
  <2>3. \/ calls'[c].kind \in {"resend", "forgot"} /\ calls'[c].step \in {"invalidate", "ok"}
        \/ calls'[c].kind = "change" /\ calls'[c].step \in {"password", "refused"}
        \/ calls'[c].kind = "assign" /\ calls'[c].step \in {"assign", "missing"}
    <3>1. Moved(c, {"new"}, {"resend", "forgot"}, {"invalidate", "ok"})
          \/ Moved(c, {"new"}, {"change"}, {"password", "refused"})
          \/ Moved(c, {"new"}, {"assign"}, {"assign", "missing"})
      BY <1>0, <1>2, CallMoves
    <3>2. QED BY <3>1 DEF Moved
  <2>4. ~user.exists => calls'[c].step = "ok"
    <3>1. ~user.exists => AskToken(c)
      BY <1>2 DEF AskChange, AskAssign, Known
    <3>2. ~user.exists /\ AskToken(c) => \E kind \in {"resend", "forgot"} : Begin(c, kind, "ok", 0)
      BY DEF AskToken, Known
    <3>3. QED BY <1>0, <3>1, <3>2, BeginKeeps DEF CallSteps, Answers, Kinds
  <2>5. StepInv(c)' /\ DoneInv(c)'
    BY <2>1, <2>2, <2>3, <2>4 DEF StepInv, DoneInv, Answers
  <2>6. QED BY <1>c, <2>1, <2>5
<1>3. CASE Consume(c)
  <2>1. UNCHANGED <<user, userEvents, assignments, roleOf>> /\ DOMAIN tokens # {} /\ calls[c].step = "new"
    BY <1>3 DEF Consume, CallArrives, roleVars
  <2>2. Moved(c, {"new"}, {"verify", "reset"}, {"activate", "error", "refused"})
    BY <1>0, <1>3, CallMoves
  <2>3. user.exists
    BY <1>0, <2>1 DEF UserInv
  <2>4. EventsOf("password_changed", c)' = {}
    BY <1>b, <2>1 DEF EventsOf
  <2>5. ASSUME calls'[c].step = "activate", calls'[c].kind = "reset" PROVE Paid(c)'
    <3>1. PICK kind \in {"verify", "reset"} :
              \/ Begin(c, kind, "refused", 0)
              \/ Spending(c, Purpose(kind)) /\ (Begin(c, kind, "activate", 0) \/ Begin(c, kind, "error", 0))
      BY <1>0, <1>3, ConsumeSpends
    <3>2. kind = "reset" /\ Spending(c, Purpose(kind))
      BY <1>0, <2>5, <3>1, BeginKeeps DEF CallSteps, Answers, Kinds
    <3>3. Spending(c, "password_reset")
      BY <3>2 DEF Purpose
    <3>4. QED BY <1>0, <3>3 DEF Spending, NoneOpened, Paid
  <2>6. StepInv(c)' /\ DoneInv(c)'
    BY <2>1, <2>2, <2>3, <2>4, <2>5 DEF Moved, StepInv, DoneInv, Answers
  <2>7. QED BY <1>c, <2>1, <2>3, <2>6
<1>4. CASE Invalidate(c) \/ CreateToken(c)
  <2>1. UNCHANGED <<user, userEvents, assignments>> /\ calls[c].step \in {"invalidate", "create"}
    BY <1>4 DEF Invalidate, CreateToken
  <2>2. /\ calls'[c].kind = calls[c].kind /\ calls'[c].step \in {"create", "ok", "error"}
        /\ calls[c].kind \in {"register", "resend", "forgot"} /\ user.exists
    BY <1>0, <1>4, <2>1, CallMoves DEF Moved, StepInv, Answers
  <2>3. EventsOf("password_changed", c)' = {}
    BY <1>b, <2>1 DEF EventsOf
  <2>4. StepInv(c)' /\ DoneInv(c)'
    BY <2>1, <2>2, <2>3 DEF StepInv, DoneInv
  <2>5. QED BY <1>c, <2>1, <2>2, <2>4
<1>5. CASE Activate(c)
  <2>1. calls[c].step = "activate" /\ UNCHANGED assignments
    BY <1>5 DEF Activate
  <2>2. calls[c].kind \in {"verify", "reset"} /\ user.exists /\ userEvents # <<>>
    BY <1>0, <2>1 DEF StepInv, EventsInv, Answers
  <2>3. /\ calls'[c].kind = calls[c].kind
        /\ calls'[c].step \in {IF calls[c].kind = "reset" THEN "password" ELSE "ok", "error"}
    BY <1>0, <1>5, GotoKeeps DEF Activate, CallSteps, Answers
  <2>4. calls[c].kind = "reset" => Paid(c)'
    BY <1>0, <1>e, <2>1 DEF DoneInv
  <2>5. calls'[c].step # "error" => user' = Activated
    BY <1>0, <1>5, GotoKeeps DEF Activate, CallSteps, Answers
  <2>6. CASE UNCHANGED <<user, userEvents>>
    <3>1. EventsOf("password_changed", c)' = {}
      BY <1>b, <2>1, <2>6 DEF EventsOf
    <3>2. Activated.active
      BY <1>0 DEF Activated
    <3>3. StepInv(c)' /\ DoneInv(c)'
      BY <2>2, <2>3, <2>4, <2>5, <2>6, <3>1, <3>2 DEF StepInv, DoneInv
    <3>4. QED BY <1>c, <2>1, <2>2, <2>6, <3>3
  <2>7. CASE ~user.active /\ user' = Activated /\ Announce("activated", Activated.version, c)
    <3> DEFINE first == [user EXCEPT !.active = TRUE]
               second == [first EXCEPT !.version = user.version + 1]
    <3>1. /\ first \in [exists : BOOLEAN, active : BOOLEAN, password : {0} \cup Calls, version : Nat]
          /\ first.exists /\ first.active /\ first.version = user.version
      BY <1>0, <2>2
    <3>2. /\ second \in [exists : BOOLEAN, active : BOOLEAN, password : {0} \cup Calls, version : Nat]
          /\ second.exists /\ second.active /\ second.version = user.version + 1
      <4> HIDE DEF first
      <4>1. QED BY <1>0, <3>1
    <3>3. user' = second /\ Activated = second
      BY <1>0, <2>7 DEF Activated
    <3> HIDE DEF second
    <3>4. Grown(c, "activated")
      BY <2>1, <2>7, <3>2, <3>3 DEF Grown, Announce
    <3>5. EventsOf("password_changed", c)' = {}
      BY <1>0, <1>b, <2>1, <2>2, <2>7, <3>2, <3>3, <3>4, EventsGrow
    <3>6. StepInv(c)' /\ DoneInv(c)'
      BY <2>2, <2>3, <2>4, <3>2, <3>3, <3>5 DEF StepInv, DoneInv
    <3>7. QED BY <1>d, <2>2, <2>7, <3>2, <3>3, <3>4, <3>6
  <2>8. QED BY <1>5, <2>6, <2>7 DEF Activate, Activated
<1>6. CASE UpdatePassword(c)
  <2>1. calls[c].step = "password" /\ UNCHANGED assignments
    BY <1>6 DEF UpdatePassword
  <2>2. calls[c].kind \in {"reset", "change"} /\ user.exists /\ userEvents # <<>>
    BY <1>0, <2>1 DEF StepInv, EventsInv, Answers
  <2>3. calls'[c].kind = calls[c].kind /\ calls'[c].step \in {"ok", "error"}
    BY <1>0, <1>6, <2>1, CallMoves DEF Moved
  <2>4. calls[c].kind = "reset" => Paid(c)' /\ user.active
    BY <1>0, <1>e, <2>1 DEF DoneInv
  <2>5. EventsOf("password_changed", c) = {}
    BY <1>b, <2>1
  <2>6. CASE UNCHANGED <<user, userEvents>> /\ calls'[c].step = "error"
    <3>1. EventsOf("password_changed", c)' = {}
      BY <2>5, <2>6 DEF EventsOf
    <3>2. StepInv(c)' /\ DoneInv(c)'
      BY <2>2, <2>3, <2>6, <3>1 DEF StepInv, DoneInv
    <3>3. QED BY <1>c, <2>1, <2>2, <2>6, <3>2
  <2>7. CASE /\ user' = [user EXCEPT !.password = c, !.version = @ + 1]
             /\ Announce("password_changed", user.version + 1, c)
    <3> DEFINE first == [user EXCEPT !.password = c]
               second == [first EXCEPT !.version = user.version + 1]
    <3>1. /\ first \in [exists : BOOLEAN, active : BOOLEAN, password : {0} \cup Calls, version : Nat]
          /\ first.exists /\ (user.active => first.active) /\ first.version = user.version
      BY <1>0, <2>2
    <3>2. /\ second \in [exists : BOOLEAN, active : BOOLEAN, password : {0} \cup Calls, version : Nat]
          /\ second.exists /\ (user.active => second.active) /\ second.version = user.version + 1
      <4> HIDE DEF first
      <4>1. QED BY <1>0, <3>1
    <3>3. user' = second
      BY <1>0, <2>7
    <3> HIDE DEF second
    <3>4. Grown(c, "password_changed")
      BY <2>1, <2>7, <3>2, <3>3 DEF Grown, Announce
    <3>5. EventsOf("password_changed", c)' = {Len(userEvents) + 1}
      BY <1>0, <2>2, <2>5, <3>4, EventsGrow
    <3>6. StepInv(c)' /\ DoneInv(c)'
      BY <2>2, <2>3, <2>4, <3>2, <3>3, <3>5 DEF StepInv, DoneInv
    <3>7. QED BY <1>d, <2>2, <3>4, <3>6
  <2>8. QED BY <1>0, <1>6, <2>6, <2>7, GotoKeeps DEF UpdatePassword, CallSteps, Answers
<1>7. CASE UpdateRole(c)
  <2>1. calls[c].step = "assign" /\ UNCHANGED <<userEvents, tokens>>
    BY <1>7 DEF UpdateRole
  <2>2. calls[c].kind = "assign" /\ user.exists
    BY <1>0, <2>1 DEF StepInv, Answers
  <2>3. calls'[c].kind = "assign" /\ calls'[c].step \in {"ok", "error"}
    BY <1>0, <1>7, <2>1, <2>2, CallMoves DEF Moved
  <2>4. \A d \in Calls : EventsOf("password_changed", d)' = EventsOf("password_changed", d)
    BY <2>1 DEF EventsOf
  <2>5. (StepInv(c)' /\ DoneInv(c)') \/ ~user'.exists
    BY <1>b, <2>1, <2>3, <2>4 DEF StepInv, DoneInv
  <2>6. CASE UNCHANGED <<user, assignments>>
    BY <1>c, <2>1, <2>2, <2>5, <2>6
  <2>7. CASE user' = [user EXCEPT !.version = @ + 1] /\ assignments' = assignments + 1
    <3>1. /\ user' \in [exists : BOOLEAN, active : BOOLEAN, password : {0} \cup Calls, version : Nat]
          /\ user'.exists /\ (user.active => user'.active) /\ user'.version = user.version + 1
      BY <1>0, <2>2, <2>7
    <3>2. user.version \in Nat /\ Len(userEvents) \in Nat
          /\ \A k \in DOMAIN userEvents : userEvents[k].version \in Nat
      <4>1. \A k \in DOMAIN userEvents : userEvents[k] \in UserEvent
        BY <1>0 DEF EventsInv
      <4>2. QED BY <1>0, <4>1 DEF EventsInv, UserEvent
    <3>3. EventsInv'
      BY <1>0, <2>1, <2>2, <2>7, <3>1, <3>2 DEF EventsInv
    <3>4. \A d \in Calls : StepInv(d)' /\ DoneInv(d)'
      BY <1>0, <1>a, <2>4, <2>5, <3>1, OthersKept
    <3>5. QED BY <3>1, <3>3, <3>4 DEF UserInv
  <2>8. QED BY <1>7, <2>6, <2>7 DEF UpdateRole
<1>8. QED
  BY <1>1, <1>2, <1>3, <1>4, <1>5, <1>6, <1>7 DEF CallArrival, CallStep

\* A request for the account leaves the roles alone, and gives the account one
\* that is there.
LEMMA RolesKept ==
    ASSUME AccountInv, NEW c \in Calls, CallArrival(c) \/ CallStep(c)
    PROVE  RolesInv' /\ CallsInv'
<1>0. /\ RolesInv /\ RoleType /\ RoleRowsInv /\ CallsInv /\ CallType /\ tokens \in Seq(Token)
  BY DEF AccountInv, RolesInv, CallsInv, TokensInv
<1>1. UNCHANGED <<roles, roleCall>>
  BY DEF CallArrival, CallStep, Register, AskToken, Consume, AskChange, AskAssign,
         Invalidate, CreateToken, Activate, UpdatePassword, UpdateRole, roleVars
<1>2. roleOf' = roleOf \/ roleOf' \in LiveRoles
  <2>1. CASE Register(c)
    <3>1. CASE Insertable /\ roleOf' = CHOOSE i \in Named(Shipped[1]) : TRUE
      BY <3>1 DEF Insertable, Named
    <3>2. QED BY <2>1, <3>1 DEF Register
  <2>2. CASE UpdateRole(c)
    BY <1>0, <2>2 DEF UpdateRole, CallsInv, LiveRoles
  <2>3. CASE ~Register(c) /\ ~UpdateRole(c)
    BY <2>3 DEF CallArrival, CallStep, AskToken, Consume, AskChange, AskAssign,
                Invalidate, CreateToken, Activate, UpdatePassword, roleVars
  <2>4. QED BY <2>1, <2>2, <2>3
<1>3. RoleType' /\ RoleRowsInv'
  BY <1>0, <1>1, <1>2 DEF RoleType, RoleRowsInv, LiveRoles
<1>4. RolesInv'
  BY <1>0, <1>1, <1>3 DEF RolesInv, ReadInv
<1>5. calls' \in [Calls -> Call] /\ \A d \in Calls \ {c} : calls'[d] = calls[d]
  BY TokenSteps DEF Moved
<1>6. ASSUME calls'[c].step = "assign" PROVE calls'[c].arg \in DOMAIN roles
  <2>1. AskAssign(c)
    BY <1>0, <1>6, CallMoves DEF Moved, CallArrival, CallStep
  <2>2. PICK name \in RoleNames :
            IF Named(name) = {} THEN Begin(c, "assign", "missing", 0)
            ELSE \E i \in Named(name) : Begin(c, "assign", "assign", i)
    BY <2>1 DEF AskAssign
  <2>3. PICK i \in Named(name) : Begin(c, "assign", "assign", i)
    BY <1>0, <1>6, <2>2, BeginKeeps DEF CallSteps, Answers, Kinds
  <2>4. i \in DOMAIN roles /\ i \in Nat
    BY <1>0 DEF Named, LiveRoles, RoleType
  <2>5. QED BY <1>0, <2>3, <2>4, BeginKeeps DEF CallSteps, Kinds
<1>7. QED BY <1>0, <1>1, <1>4, <1>5, <1>6 DEF CallsInv, CallType

\* A request for a role leaves the account alone.
LEMMA AccountKept ==
    ASSUME AccountInv, RoleArrival \/ RoleStep, UNCHANGED accountVars
    PROVE  AccountInv'
<1>0. RolesInv /\ RoleType /\ CallsInv /\ TokensInv /\ SpentInv /\ UserInv
  BY DEF AccountInv, RolesInv
<1>1. RolesInv' /\ UNCHANGED roleOf
  BY <1>0, RolesInvStep DEF RoleArrival, RoleStep, CreateRole, ReadRole, WriteRole, CountUsers, DeleteRole
<1>2. DOMAIN roles \subseteq DOMAIN roles'
  <2>1. \/ UNCHANGED roles
        \/ \E name \in RoleNames, level \in Levels : roles' = Append(roles, NewRole(name, level))
        \/ \E i, row : roles' = [roles EXCEPT ![i] = row]
    BY DEF RoleArrival, RoleStep, CreateRole, ReadRole, WriteRole, CountUsers, DeleteRole
  <2>2. roles \in Seq(Role)
    BY <1>0 DEF RoleType
  <2>3. ASSUME NEW name \in RoleNames, NEW level \in Levels, roles' = Append(roles, NewRole(name, level))
        PROVE  DOMAIN roles \subseteq DOMAIN roles'
    BY <2>2, <2>3
  <2>4. QED BY <2>1, <2>3
<1>3. CallsInv'
  BY <1>0, <1>2 DEF CallsInv, CallType, accountVars
<1>4. TokensInv' /\ SpentInv'
  BY <1>0 DEF TokensInv, SpentInv, OpenTokensExplained, Spender, accountVars
<1>5. EventsInv' /\ \A c \in Calls : StepInv(c)' /\ DoneInv(c)'
  <2>1. UNCHANGED <<user, userEvents, tokens, calls, assignments>>
    BY DEF accountVars
  <2>2. EventsInv'
    BY <1>0, <2>1 DEF UserInv, EventsInv
  <2>3. ASSUME NEW c \in Calls PROVE StepInv(c)' /\ DoneInv(c)'
    <3>1. EventsOf("password_changed", c)' = EventsOf("password_changed", c) /\ (Paid(c)' <=> Paid(c))
      BY <2>1 DEF EventsOf, Paid
    <3>2. StepInv(c) /\ DoneInv(c)
      BY <1>0 DEF UserInv
    <3>3. QED BY <2>1, <3>1, <3>2 DEF StepInv, DoneInv
  <2>4. QED BY <2>2, <2>3
<1>6. UserInv'
  BY <1>0, <1>1, <1>5 DEF UserInv, accountVars
<1>7. QED BY <1>1, <1>3, <1>4, <1>6 DEF AccountInv

LEMMA ExpireKeeps ==
    ASSUME AccountInv, NEW t \in DOMAIN tokens, Expire(t)
    PROVE  AccountInv'
<1>0. /\ RolesInv /\ CallsInv /\ TokensInv /\ SpentInv /\ UserInv /\ tokens \in Seq(Token)
      /\ \A c \in Calls : calls[c].arg \in Nat
  BY DEF AccountInv, TokensInv, CallsInv, CallType, Call
<1>a. UNCHANGED <<user, userEvents, calls, assignments, roles, roleCall, roleOf>>
  BY DEF Expire, roleVars
<1>1. Voiding /\ DOMAIN tokens' = DOMAIN tokens
  <2> DEFINE row == [tokens[t] EXCEPT !.state = "void"]
  <2>1. /\ row \in Token /\ row.state = "void" /\ row.purpose = tokens[t].purpose
        /\ row.mark = tokens[t].mark /\ row.spentBy = tokens[t].spentBy
        /\ tokens[t].state = "open"
    BY <1>0, TokenRows DEF Token, Expire
  <2>2. tokens' = [tokens EXCEPT ![t] = row]
    BY <1>0 DEF Expire
  <2> HIDE DEF row
  <2>3. /\ tokens' \in Seq(Token) /\ Len(tokens') = Len(tokens) /\ DOMAIN tokens' = DOMAIN tokens
        /\ tokens'[t] = row /\ \A s \in DOMAIN tokens \ {t} : tokens'[s] = tokens[s]
    BY <1>0, <2>1, <2>2
  <2>4. QED BY <2>1, <2>3 DEF Voiding, NoneOpened
<1>2. TokensKept
  BY <1>1 DEF Voiding, NoneOpened, TokensKept
<1>3. RolesInv' /\ CallsInv'
  BY <1>0, <1>a DEF RolesInv, RoleType, RoleRowsInv, ReadInv, CallsInv, CallType
<1>4. TokensInv'
  <2>1. OpenTokensExplained'
    BY <1>0, <1>1, TokenRows DEF OpenTokensExplained, Voiding, NoneOpened, TokensInv
  <2>2. \A c \in Calls : \A s \in 1..calls[c].arg : calls[c].step = "create" => s \in DOMAIN tokens
    BY <1>0, TokenRows DEF TokensInv
  <2>3. QED BY <1>0, <1>1, <1>a, <2>1, <2>2 DEF TokensInv, Voiding, NoneOpened
<1>5. SpentInv'
  <2>1. ASSUME NEW s \in DOMAIN tokens
        PROVE  /\ tokens'[s].spentBy = tokens[s].spentBy /\ tokens'[s].purpose = tokens[s].purpose
               /\ tokens'[s].state = "used" <=> tokens[s].state = "used"
    BY <1>1 DEF Voiding, NoneOpened
  <2>2. \A s \in DOMAIN tokens, c \in Calls : Spender(s, c) => Spender(s, c)'
    BY <1>a, <2>1 DEF Spender
  <2>3. QED BY <1>0, <1>1, <2>1, <2>2 DEF SpentInv
<1>6. UserInv'
  <2>1. \A c \in Calls : EventsOf("password_changed", c)' = EventsOf("password_changed", c)
    BY <1>a DEF EventsOf
  <2>2. \A c \in Calls : StepInv(c)' /\ DoneInv(c)'
    BY <1>2, <1>a, <2>1, OthersKept
  <2>3. EventsInv'
    BY <1>0, <1>a DEF UserInv, EventsInv
  <2>4. user.exists
    BY <1>0 DEF UserInv
  <2>5. QED BY <1>a, <2>2, <2>3, <2>4 DEF UserInv
<1>7. QED BY <1>3, <1>4, <1>5, <1>6 DEF AccountInv

LEMMA AccountInvStep == AccountInv /\ [Next]_vars => AccountInv'
<1>1. ASSUME AccountInv, NEW c \in Calls, CallArrival(c) \/ CallStep(c) PROVE AccountInv'
  BY <1>1, RolesKept, TokensInvStep, UserInvStep DEF AccountInv
<1>2. ASSUME AccountInv, UNCHANGED vars PROVE AccountInv'
  <2>1. UNCHANGED <<user, userEvents, tokens, calls, assignments, roles, roleCall, roleOf>>
    BY <1>2 DEF vars, accountVars, roleVars
  <2>2. RolesInv' /\ CallsInv' /\ TokensInv' /\ SpentInv'
    BY <1>2, <2>1 DEF AccountInv, RolesInv, RoleType, RoleRowsInv, ReadInv, CallsInv, CallType,
                      TokensInv, SpentInv, OpenTokensExplained, Spender
  <2>3. TokensKept
    BY <2>1 DEF TokensKept
  <2>4. \A d \in Calls : StepInv(d)' /\ DoneInv(d)'
    <3>1. \A d \in Calls : EventsOf("password_changed", d)' = EventsOf("password_changed", d)
      BY <2>1 DEF EventsOf
    <3>2. QED BY <1>2, <2>1, <2>3, <3>1, OthersKept
  <2>5. UserInv'
    <3>1. EventsInv'
      BY <1>2, <2>1 DEF AccountInv, UserInv, EventsInv
    <3>2. QED BY <1>2, <2>1, <2>4, <3>1 DEF AccountInv, UserInv
  <2>6. QED BY <2>2, <2>5 DEF AccountInv
<1>3. QED BY <1>1, <1>2, AccountKept, ExpireKeeps DEF Next

LEMMA AccountInvCorrect == Spec => []AccountInv
BY AccountInitially, AccountInvStep, PTL DEF Spec

-----------------------------------------------------------------------------
(* The properties.                                                         *)

\* Rows and requests keep their types: a failed or repeated statement never
\* leaves an account without a role, and requests stay within their bound.
THEOREM TypeCorrect == Spec => []TypeOK
<1> DEFINE Held == (user.exists => roleOf # 0) /\ arrivals \in 0..MaxArrivals
<1> USE AccountsAssumption
<1>1. Init => Held
  BY DEF Init
<1>2. ASSUME AccountInv, Held, [Next]_vars PROVE Held'
  <2>1. arrivals' \in 0..MaxArrivals
    BY <1>2 DEF Next, Arrive, Expire, vars
  <2>2. ASSUME user'.exists PROVE roleOf' # 0
    <3>1. /\ \A i \in LiveRoles : i # 0
          /\ \A c \in Calls : calls[c].step = "assign" => calls[c].arg # 0
          /\ user \in [exists : BOOLEAN, active : BOOLEAN, password : {0} \cup Calls, version : Nat]
      <4>1. RoleType /\ CallsInv /\ EventsInv
        BY <1>2 DEF AccountInv, RolesInv, UserInv
      <4>2. QED BY <4>1 DEF RoleType, CallsInv, EventsInv, LiveRoles
    <3>2. ASSUME NEW c \in Calls, Register(c) PROVE roleOf' # 0
      <4>1. CASE Insertable /\ roleOf' = CHOOSE i \in Named(Shipped[1]) : TRUE
        BY <3>1, <4>1 DEF Insertable, Named
      <4>2. QED BY <1>2, <2>2, <3>2, <4>1 DEF Register
    <3>3. ASSUME NEW c \in Calls, UpdateRole(c) PROVE roleOf' # 0
      BY <1>2, <2>2, <3>1, <3>3 DEF UpdateRole
    <3>4. CASE UNCHANGED roleOf /\ (user'.exists <=> user.exists)
      BY <1>2, <2>2, <3>4
    <3>5. ASSUME NEW c \in Calls, Activate(c) \/ UpdatePassword(c)
          PROVE  UNCHANGED roleOf /\ (user'.exists <=> user.exists)
      BY <3>1, <3>5 DEF Activate, UpdatePassword, Activated, roleVars
    <3>6. ASSUME UNCHANGED user, UNCHANGED roleOf PROVE roleOf' # 0
      BY <3>4, <3>6
    <3>7. ASSUME NEW c \in Calls, AskToken(c) \/ Consume(c) \/ AskChange(c) \/ AskAssign(c)
                                  \/ Invalidate(c) \/ CreateToken(c)
          PROVE  UNCHANGED <<user, roleOf>>
      BY <3>7 DEF AskToken, Consume, AskChange, AskAssign, Invalidate, CreateToken, roleVars
    <3>8. ASSUME RoleArrival \/ RoleStep, UNCHANGED accountVars PROVE UNCHANGED <<user, roleOf>>
      BY <3>8 DEF RoleArrival, RoleStep, CreateRole, ReadRole, WriteRole, CountUsers, DeleteRole,
                  accountVars
    <3>9. ASSUME NEW t \in DOMAIN tokens, Expire(t) PROVE UNCHANGED <<user, roleOf>>
      BY <3>9 DEF Expire, roleVars
    <3>10. UNCHANGED vars => UNCHANGED <<user, roleOf>>
      BY DEF vars, accountVars, roleVars
    <3>11. QED
      BY <1>2, <3>2, <3>3, <3>4, <3>5, <3>6, <3>7, <3>8, <3>9, <3>10
      DEF Next, CallArrival, CallStep
  <2>3. QED BY <2>1, <2>2
<1>3. ASSUME AccountInv, Held PROVE TypeOK
  <2>1. /\ RoleType /\ RoleRowsInv /\ CallType /\ tokens \in Seq(Token) /\ EventsInv
        /\ ~user.exists => roleOf = 0
    BY <1>3 DEF AccountInv, RolesInv, CallsInv, TokensInv, UserInv
  <2>2. roleOf \in {0} \cup DOMAIN roles
    BY <2>1 DEF RoleRowsInv
  <2>3. \A c \in Calls : calls[c].step \in CallSteps /\ calls[c].kind \in Kinds
    BY <2>1 DEF CallType, Call
  <2>4. user \in [exists : BOOLEAN, active : BOOLEAN, password : {0} \cup Calls, version : Nat]
        /\ userEvents \in Seq(UserEvent)
    BY <2>1 DEF EventsInv
  <2>5. roleOf = 0 <=> ~user.exists
    BY <1>3, <2>1
  <2>6. QED BY <1>3, <2>1, <2>2, <2>3, <2>4, <2>5 DEF TypeOK, RoleType
<1> HIDE DEF Held
<1>4. Spec => []Held
  BY <1>1, <1>2, AccountInvCorrect, PTL DEF Spec
<1>5. QED BY <1>3, <1>4, AccountInvCorrect, PTL

\* Whatever the requests do between their statements, the admin role of the
\* migration keeps its name, names stay unique, and the account's role exists.
THEOREM RolesStandCorrect == Spec => []RolesStand
<1>1. ASSUME AccountInv PROVE RolesStand
  <2>1. RoleType /\ RoleRowsInv
    BY <1>1 DEF AccountInv, RolesInv
  <2>2. Named("admin") = {3}
    BY <2>1 DEF RoleType, RoleRowsInv, Named, LiveRoles
  <2>3. QED BY <2>1, <2>2 DEF RolesStand, RoleRowsInv, LiveRoles
<1>2. QED BY <1>1, AccountInvCorrect, PTL

\* updateRoleHandler: a field is taken back only by an update that had read
\* the row before another one wrote it.
THEOREM RoleLossesExplainedCorrect == Spec => []RoleLossesExplained
<1>1. AccountInv => RoleLossesExplained
  BY DEF AccountInv, RolesInv, RoleRowsInv, RoleLossesExplained
<1>2. QED BY <1>1, AccountInvCorrect, PTL

\* InvalidateOpen and Create: two tokens of a purpose are open only when their
\* issues overlapped.
THEOREM OpenTokensExplainedCorrect == Spec => []OpenTokensExplained
<1>1. AccountInv => OpenTokensExplained
  BY DEF AccountInv, TokensInv
<1>2. QED BY <1>1, AccountInvCorrect, PTL

\* Consume, activate and updatePassword: one request spends a token, and a
\* reset that answers ok has changed the password once.
THEOREM TokensSpentOnceCorrect == Spec => []TokensSpentOnce
<1>1. ASSUME AccountInv PROVE TokensSpentOnce
  <2>1. /\ SpentInv /\ \A c \in Calls : DoneInv(c)
        /\ \A k \in DOMAIN userEvents : userEvents[k] \in UserEvent
    BY <1>1 DEF AccountInv, UserInv, EventsInv
  <2>2. ASSUME NEW t \in DOMAIN tokens, NEW c \in tokens[t].spentBy
        PROVE  c \in Calls /\ Spender(t, c)
    BY <2>1 DEF SpentInv, Spender
  <2>3. ASSUME NEW t \in DOMAIN tokens PROVE Cardinality(tokens[t].spentBy) <= 1
    <3>1. CASE tokens[t].spentBy = {}
      BY <3>1, FS_EmptySet
    <3>2. CASE tokens[t].spentBy # {}
      <4>1. PICK c \in tokens[t].spentBy : Spender(t, c)
        BY <2>2, <3>2
      <4>2. Cardinality({c}) = 1
        BY FS_Singleton
      <4>3. QED BY <4>1, <4>2 DEF Spender
    <3>3. QED BY <3>1, <3>2
  <2>4. ASSUME NEW t \in DOMAIN tokens, NEW c \in tokens[t].spentBy, calls[c].step = "ok"
        PROVE  user.active /\ (calls[c].kind = "reset" => Cardinality(EventsOf("password_changed", c)) = 1)
    <3>1. c \in Calls /\ Spender(t, c) /\ DoneInv(c)
      BY <2>1, <2>2
    <3>2. user.active
      BY <2>4, <3>1 DEF DoneInv, Spender
    <3>3. ASSUME calls[c].kind = "reset" PROVE Cardinality(EventsOf("password_changed", c)) = 1
      <4>1. PICK k \in EventsOf("password_changed", c) : TRUE
        BY <2>4, <3>1, <3>3 DEF DoneInv
      <4>2. EventsOf("password_changed", c) = {k}
        BY <3>1, <4>1 DEF DoneInv
      <4>3. QED BY <4>2, FS_Singleton
    <3>4. QED BY <3>2, <3>3
  <2>5. ASSUME NEW k \in DOMAIN userEvents, userEvents[k].type = "password_changed",
               calls[userEvents[k].by].kind = "reset"
        PROVE  /\ \E t \in DOMAIN tokens : tokens[t].purpose = "password_reset"
                                              /\ tokens[t].spentBy = {userEvents[k].by}
               /\ user.active
    <3>1. userEvents[k].by \in Calls /\ k \in EventsOf("password_changed", userEvents[k].by)
      BY <2>1, <2>5 DEF UserEvent, EventsOf
    <3>2. QED BY <2>1, <2>5, <3>1 DEF DoneInv, Paid
  <2>6. QED BY <2>3, <2>4, <2>5 DEF TokensSpentOnce
<1>2. QED BY <1>1, AccountInvCorrect, PTL

\* userEvent in the transaction of the row: versions rise along the outbox,
\* and the account is registered first, and activated at most once.
THEOREM UserEventsOrderedCorrect == Spec => []UserEventsOrdered
<1>1. ASSUME AccountInv PROVE UserEventsOrdered
  <2>1. EventsInv /\ \A k \in DOMAIN userEvents : userEvents[k] \in UserEvent
    BY <1>1 DEF AccountInv, UserInv, EventsInv
  <2>2. \A j, k \in DOMAIN userEvents :
            userEvents[j].type = userEvents[k].type /\ j # k => userEvents[j].type = "password_changed"
    BY <2>1 DEF EventsInv, UserEvent
  <2>3. user.exists => userEvents # <<>> /\ userEvents[1].type = "registered"
    BY <2>1 DEF EventsInv
  <2>4. QED BY <2>1, <2>2, <2>3 DEF UserEventsOrdered, EventsInv
<1>2. QED BY <1>1, AccountInvCorrect, PTL

=============================================================================
