------------------------------- MODULE Roles -------------------------------
(***************************************************************************)
(* The roles of internal/modules/user (roles.go, roles_handler.go).  A     *)
(* request reads a role, checks it, and writes or deletes it in a later    *)
(* statement.  The table has a unique index on the name, and users refer   *)
(* to roles by a foreign key.                                              *)
(***************************************************************************)
EXTENDS Naturals, Sequences, FiniteSets

CONSTANTS
    RoleNames,      \* names in use, with those of the migration
    Levels,
    RolePatches,    \* updates: functions from some of the fields
    MaxRoleCalls    \* bound on create, update and delete requests

Shipped == <<"user", "moderator", "admin">>
RoleFields == {"name", "level"}

ASSUME RolesAssumption ==
    /\ {Shipped[i] : i \in DOMAIN Shipped} \subseteq RoleNames
    /\ DOMAIN Shipped \subseteq Levels
    /\ \A p \in RolePatches :
           /\ DOMAIN p \subseteq RoleFields
           /\ "name" \in DOMAIN p => p["name"] \in RoleNames
           /\ "level" \in DOMAIN p => p["level"] \in Levels
    /\ MaxRoleCalls \in Nat

\* Requests are numbered as they reach the database for the first time.
RoleCalls == 1..MaxRoleCalls

VARIABLES
    roles,          \* rows by id
    roleCall,       \* a request and the row it read
    roleOf          \* the role_id of the account, 0: there is no account

roleVars == <<roles, roleCall, roleOf>>

\* A row; the fields that hold what was last written to them, and whether it
\* was ever written from a row that another request had changed.
Role == [name : RoleNames, level : Levels, live : BOOLEAN, writes : Nat,
         fresh : SUBSET RoleFields, raced : BOOLEAN]

NewRole(name, level) == [name |-> name, level |-> level, live |-> TRUE, writes |-> 0,
                         fresh |-> RoleFields, raced |-> FALSE]
NoRoleCall == [step |-> "new", kind |-> "", id |-> 0, row |-> <<>>, patch |-> <<>>]

RoleArrives(r) == roleCall[r].step = "new" /\ \A q \in 1..r - 1 : roleCall[q].step # "new"

RoleAnswer(r, a) == roleCall' = [roleCall EXCEPT ![r] = [NoRoleCall EXCEPT !.step = a]]

LiveRoles == {i \in DOMAIN roles : roles[i].live}

\* GetByName.
Named(name) == {i \in LiveRoles : roles[i].name = name}

-----------------------------------------------------------------------------

\* createRoleHandler: the unique index answers.
CreateRole(r) ==
    /\ RoleArrives(r)
    /\ \E name \in RoleNames, level \in Levels :
        IF Named(name) = {}
        THEN roles' = Append(roles, NewRole(name, level)) /\ RoleAnswer(r, "ok")
        ELSE UNCHANGED roles /\ RoleAnswer(r, "conflict")
    /\ UNCHANGED roleOf

\* Mutant: only renaming is refused.
ProtectedFromRename(row, kind, p) ==
    row.name = "admin" /\ kind = "update" /\ "name" \in DOMAIN p /\ p["name"] # "admin"

\* The admin role is neither renamed nor deleted.
Protected(row, kind, p) ==
    /\ row.name = "admin"
    /\ kind = "delete" \/ ("name" \in DOMAIN p /\ p["name"] # "admin")

\* updateRoleHandler and deleteRoleHandler up to the check of the row.
ReadRole(r) ==
    /\ RoleArrives(r)
    /\ \E i \in LiveRoles, kind \in {"update", "delete"} :
       \E p \in IF kind = "update" THEN RolePatches ELSE {<<>>} :
        IF Protected(roles[i], kind, p) THEN RoleAnswer(r, "refused")
        ELSE roleCall' = [roleCall EXCEPT ![r] =
                 [step |-> IF kind = "update" THEN "write" ELSE "count", kind |-> kind,
                  id |-> i, row |-> roles[i], patch |-> p]]
    /\ UNCHANGED <<roles, roleOf>>

\* Mutant: a field that is not in the payload is set to its zero value.
MergedRoleZeroed(row, p) ==
    [row EXCEPT !.name = IF "name" \in DOMAIN p THEN p["name"] ELSE @,
                !.level = IF "level" \in DOMAIN p THEN p["level"] ELSE 0]

\* The row that was read with the fields of the payload.
MergedRole(row, p) ==
    [row EXCEPT !.name = IF "name" \in DOMAIN p THEN p["name"] ELSE @,
                !.level = IF "level" \in DOMAIN p THEN p["level"] ELSE @]

\* Fields that the write takes back to what the request had read.
StaleFields(new, old, p) == {f \in RoleFields \ DOMAIN p : new[f] # old[f]}

\* RoleStore.Update writes every column.
WriteRole(r) ==
    LET i == roleCall[r].id
        p == roleCall[r].patch
        old == roles[i]
        new == MergedRole(roleCall[r].row, p)
    IN  /\ roleCall[r].step = "write"
        /\ IF ~old.live THEN UNCHANGED roles /\ RoleAnswer(r, "missing")
           ELSE IF Named(new.name) \ {i} # {} THEN UNCHANGED roles /\ RoleAnswer(r, "conflict")
           ELSE /\ roles' = [roles EXCEPT ![i] =
                       [new EXCEPT !.writes = old.writes + 1,
                                   !.fresh = (old.fresh \cup DOMAIN p) \ StaleFields(new, old, p),
                                   !.raced = old.raced \/ roleCall[r].row.writes # old.writes]]
                /\ RoleAnswer(r, "ok")
        /\ UNCHANGED roleOf

\* deleteRoleHandler: CountUsers.
CountUsers(r) ==
    /\ roleCall[r].step = "count"
    /\ IF roleOf = roleCall[r].id THEN RoleAnswer(r, "conflict")
       ELSE roleCall' = [roleCall EXCEPT ![r].step = "delete"]
    /\ UNCHANGED <<roles, roleOf>>

\* RoleStore.Delete; an assignment since CountUsers makes the foreign key refuse.
DeleteRole(r) ==
    LET i == roleCall[r].id IN
    /\ roleCall[r].step = "delete"
    /\ IF ~roles[i].live THEN UNCHANGED roles /\ RoleAnswer(r, "missing")
       ELSE IF roleOf = i THEN UNCHANGED roles /\ RoleAnswer(r, "error")
       ELSE roles' = [roles EXCEPT ![i].live = FALSE] /\ RoleAnswer(r, "ok")
    /\ UNCHANGED roleOf

RoleInit ==
    /\ roles = [i \in DOMAIN Shipped |-> NewRole(Shipped[i], i)]
    /\ roleCall = [r \in RoleCalls |-> NoRoleCall]
    /\ roleOf = 0

RoleArrival == \E r \in RoleCalls : CreateRole(r) \/ ReadRole(r)
RoleStep == \E r \in RoleCalls : WriteRole(r) \/ CountUsers(r) \/ DeleteRole(r)

-----------------------------------------------------------------------------
(* Properties.                                                             *)

\* The checks of roles_handler.go against the statements of other requests:
\* there is always one role admin, it is the one of the migration, no two
\* roles share a name, and the account's role exists.
RolesStand ==
    /\ Named("admin") = {3}
    /\ \A i, j \in LiveRoles : roles[i].name = roles[j].name => i = j
    /\ roleOf # 0 => roles[roleOf].live

\* updateRoleHandler: a field that does not hold what was last written to it
\* was taken back by an update that had read the row before.
RoleLossesExplained ==
    \A i \in DOMAIN roles : roles[i].fresh # RoleFields => roles[i].raced

=============================================================================
