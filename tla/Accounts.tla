------------------------------ MODULE Accounts ------------------------------
(***************************************************************************)
(* Registration, verification, password and role of one account, that of   *)
(* one e-mail address (internal/modules/user account.go, events.go,        *)
(* store.go, token_store.go).  A handler runs several statements and       *)
(* transactions, others come in between, and each of them may fail or lose *)
(* its reply.  Sessions and token_version are in module Sessions.          *)
(***************************************************************************)
EXTENDS Roles

CONSTANTS
    VerifyRequired,     \* verifyRequired: an account starts inactive
    MaxCalls,           \* bound on requests for the account
    MaxArrivals         \* bound on these and the requests for roles together

ASSUME AccountsAssumption ==
    VerifyRequired \in BOOLEAN /\ MaxCalls \in Nat /\ MaxArrivals \in Nat

Calls == 1..MaxCalls
Purposes == {"email_verify", "password_reset"}
Kinds == {"register", "resend", "forgot", "verify", "reset", "change", "assign"}

\* The requests that set a password, and the one that spends which token.
SetsPassword == {"reset", "change"}
Purpose(kind) == IF kind \in {"reset", "forgot"} THEN "password_reset" ELSE "email_verify"

VARIABLES
    user,           \* the row: its password is the request that set it
    userEvents,     \* events in the order of their commits, by: the request
    tokens,         \* user_tokens in the order of their creation
    calls,          \* calls[c]: a request, its next step or its answer
    assignments,    \* number of committed role assignments
    arrivals        \* requests so far

accountVars == <<user, userEvents, tokens, calls, assignments>>
vars == <<accountVars, roleVars, arrivals>>

\* mark: the number of tokens when its issue had voided the open ones.
Token == [purpose : Purposes, state : {"open", "void", "used"}, mailed : BOOLEAN,
          mark : Nat, spentBy : SUBSET Calls]
UserEvent == [type : {"registered", "activated", "password_changed"}, version : Nat, by : Calls]

NoCall == [step |-> "new", kind |-> "register", arg |-> 0]
Answers == {"ok", "conflict", "refused", "missing", "error"}
CallSteps == Answers \cup {"new", "invalidate", "create", "activate", "password", "assign"}

Goto(c, step) ==
    calls' = [calls EXCEPT ![c].step = step, ![c].arg = IF step \in Answers THEN 0 ELSE @]
Begin(c, kind, step, arg) ==
    calls' = [calls EXCEPT ![c] = [step |-> step, kind |-> kind, arg |-> arg]]

CallArrives(c) == calls[c].step = "new" /\ \A q \in 1..c - 1 : calls[q].step # "new"

\* userEvent and Enqueue, in the transaction of the row.
Announce(type, version, c) ==
    userEvents' = Append(userEvents, [type |-> type, version |-> version, by |-> c])

-----------------------------------------------------------------------------
(* Requests arrive.                                                        *)

\* GetByEmail and GetByID find the row.
Known == user.exists

\* Store.create; its second try after a conflict of reference ids meets an
\* aborted transaction, so a conflict is one of the errors.
Insertable == ~Known /\ Named(Shipped[1]) # {}

\* createUserHandler: the row, its event, then the token; concurrent inserts
\* of one address wait for each other.
Register(c) ==
    /\ CallArrives(c)
    /\ \/ /\ Insertable
          /\ user' = [exists |-> TRUE, active |-> ~VerifyRequired, password |-> c, version |-> 1]
          /\ Announce("registered", 1, c)
          /\ roleOf' = CHOOSE i \in Named(Shipped[1]) : TRUE
          /\ \/ Begin(c, "register", IF VerifyRequired THEN "invalidate" ELSE "ok", 0)
             \/ Begin(c, "register", "error", 0)
       \/ /\ Begin(c, "register", IF Known THEN "conflict" ELSE "error", 0)
          /\ UNCHANGED <<user, userEvents, roleOf>>
    /\ UNCHANGED <<tokens, assignments, roles, roleCall>>

\* resendVerificationHandler and forgotPasswordHandler: GetByEmail; the answer
\* tells neither whether there is an account nor that the read failed.
AskToken(c) ==
    /\ CallArrives(c)
    /\ \E kind \in {"resend", "forgot"} :
        \/ Known /\ (kind = "forgot" \/ ~user.active) /\ Begin(c, kind, "invalidate", 0)
        \/ Begin(c, kind, "ok", 0)
    /\ UNCHANGED <<user, userEvents, tokens, assignments, roleVars>>

\* Mutant: a token can be used again.
ConsumableTwice(t, purpose) == tokens[t].state \in {"open", "used"} /\ tokens[t].purpose = purpose

\* TokenStore.Consume: WHERE purpose, used_at IS NULL, expires_at > NOW().
Consumable(t, purpose) == tokens[t].state = "open" /\ tokens[t].purpose = purpose

\* verifyEmailHandler and resetPasswordHandler: Consume, atomic.
Consume(c) ==
    /\ CallArrives(c)
    /\ \E kind \in {"verify", "reset"}, t \in DOMAIN tokens :
        /\ tokens[t].mailed
        /\ IF Consumable(t, Purpose(kind))
           THEN /\ tokens' = [tokens EXCEPT ![t].state = "used", ![t].spentBy = @ \cup {c}]
                /\ Begin(c, kind, "activate", 0) \/ Begin(c, kind, "error", 0)
           ELSE UNCHANGED tokens /\ Begin(c, kind, "refused", 0)
    /\ UNCHANGED <<user, userEvents, assignments, roleVars>>

\* changePasswordHandler, behind the guard: GetByID and Compare.
AskChange(c) ==
    /\ CallArrives(c)
    /\ Known /\ user.active
    /\ \/ Begin(c, "change", "password", 0)
       \/ Begin(c, "change", "refused", 0)
    /\ UNCHANGED <<user, userEvents, tokens, assignments, roleVars>>

\* AssignRole: GetByName.
AskAssign(c) ==
    /\ CallArrives(c)
    /\ Known
    /\ \E name \in RoleNames :
        IF Named(name) = {} THEN Begin(c, "assign", "missing", 0)
        ELSE \E i \in Named(name) : Begin(c, "assign", "assign", i)
    /\ UNCHANGED <<user, userEvents, tokens, assignments, roleVars>>

-----------------------------------------------------------------------------
(* Their next statements.                                                  *)

\* createUserHandler only logs that the token could not be issued.
IssueFailed(c) == Goto(c, IF calls[c].kind = "register" THEN "ok" ELSE "error")

\* Mutant: those of the other purpose.
VoidedOthers(purpose) ==
    [t \in DOMAIN tokens |-> IF tokens[t].purpose # purpose /\ tokens[t].state = "open"
                             THEN [tokens[t] EXCEPT !.state = "void"] ELSE tokens[t]]

\* TokenStore.InvalidateOpen.
Voided(purpose) ==
    [t \in DOMAIN tokens |-> IF tokens[t].purpose = purpose /\ tokens[t].state = "open"
                             THEN [tokens[t] EXCEPT !.state = "void"] ELSE tokens[t]]

\* issueEmailVerify and issuePasswordReset, first statement.
Invalidate(c) ==
    /\ calls[c].step = "invalidate"
    /\ \/ /\ tokens' = Voided(Purpose(calls[c].kind))
          /\ calls' = [calls EXCEPT ![c].step = "create", ![c].arg = Len(tokens)]
       \/ /\ tokens' \in {tokens, Voided(Purpose(calls[c].kind))}
          /\ IssueFailed(c)
    /\ UNCHANGED <<user, userEvents, assignments, roleVars>>

\* Second statement, and the only mail with the token, whose loss is logged.
CreateToken(c) ==
    LET created(mailed) == Append(tokens, [purpose |-> Purpose(calls[c].kind), state |-> "open",
                               mailed |-> mailed, mark |-> calls[c].arg, spentBy |-> {}])
    IN  /\ calls[c].step = "create"
        /\ \/ tokens' \in {created(TRUE), created(FALSE)} /\ Goto(c, "ok")
           \/ tokens' \in {tokens, created(FALSE)} /\ IssueFailed(c)
        /\ UNCHANGED <<user, userEvents, assignments, roleVars>>

\* Mutant: the version is not raised.
ActivatedSameVersion == [user EXCEPT !.active = TRUE]

\* Store.activate: WHERE is_active = false.
Activated == IF user.active THEN user
             ELSE [user EXCEPT !.active = TRUE, !.version = @ + 1]

\* The transaction of Module.activate, for verify and reset; a reply may be lost.
Activate(c) ==
    LET commits ==
            /\ user' = Activated
            /\ IF user.active THEN UNCHANGED userEvents
               ELSE Announce("activated", Activated.version, c)
    IN  /\ calls[c].step = "activate"
        /\ \/ commits /\ Goto(c, IF calls[c].kind = "reset" THEN "password" ELSE "ok")
           \/ (commits \/ UNCHANGED <<user, userEvents>>) /\ Goto(c, "error")
        /\ UNCHANGED <<tokens, assignments, roleVars>>

\* The transaction of Module.updatePassword: whatever password is there now.
UpdatePassword(c) ==
    LET commits ==
            /\ user' = [user EXCEPT !.password = c, !.version = @ + 1]
            /\ Announce("password_changed", user.version + 1, c)
    IN  /\ calls[c].step = "password"
        /\ \/ commits /\ Goto(c, "ok")
           \/ (commits \/ UNCHANGED <<user, userEvents>>) /\ Goto(c, "error")
        /\ UNCHANGED <<tokens, assignments, roleVars>>

\* Store.UpdateRole: no event; the foreign key refuses a role that is gone.
UpdateRole(c) ==
    LET commits ==
            /\ roles[calls[c].arg].live
            /\ roleOf' = calls[c].arg
            /\ user' = [user EXCEPT !.version = @ + 1]
            /\ assignments' = assignments + 1
    IN  /\ calls[c].step = "assign"
        /\ \/ commits /\ Goto(c, "ok")
           \/ (commits \/ UNCHANGED <<user, roleOf, assignments>>) /\ Goto(c, "error")
        /\ UNCHANGED <<userEvents, tokens, roles, roleCall>>

\* expires_at passes; InvalidateOpen and Consume treat such a token as one that is void.
Expire(t) ==
    /\ tokens[t].state = "open"
    /\ tokens' = [tokens EXCEPT ![t].state = "void"]
    /\ UNCHANGED <<user, userEvents, calls, assignments, roleVars, arrivals>>

-----------------------------------------------------------------------------

Init ==
    /\ user = [exists |-> FALSE, active |-> FALSE, password |-> 0, version |-> 0]
    /\ userEvents = <<>> /\ tokens = <<>>
    /\ calls = [c \in Calls |-> NoCall]
    /\ assignments = 0 /\ arrivals = 0
    /\ RoleInit

CallArrival(c) == Register(c) \/ AskToken(c) \/ Consume(c) \/ AskChange(c) \/ AskAssign(c)

CallStep(c) == Invalidate(c) \/ CreateToken(c) \/ Activate(c) \/ UpdatePassword(c) \/ UpdateRole(c)

Arrive == arrivals < MaxArrivals /\ arrivals' = arrivals + 1

Next ==
    \/ \E c \in Calls : CallArrival(c) /\ Arrive
    \/ \E c \in Calls : CallStep(c) /\ UNCHANGED arrivals
    \/ \E t \in DOMAIN tokens : Expire(t)
    \/ RoleArrival /\ Arrive /\ UNCHANGED accountVars
    \/ RoleStep /\ UNCHANGED <<accountVars, arrivals>>

Spec == Init /\ [][Next]_vars

-----------------------------------------------------------------------------
(* Properties.                                                             *)

\* The rows and the requests have their types.
TypeOK ==
    /\ roles \in Seq(Role) /\ roleOf \in {0} \cup DOMAIN roles
    /\ user \in [exists : BOOLEAN, active : BOOLEAN, password : {0} \cup Calls, version : Nat]
    /\ userEvents \in Seq(UserEvent) /\ tokens \in Seq(Token)
    /\ \A c \in Calls : calls[c].step \in CallSteps /\ calls[c].kind \in Kinds
    /\ roleOf = 0 <=> ~user.exists
    /\ arrivals \in 0..MaxArrivals

\* token_store.go:66, "single active token": two tokens of a purpose are open
\* at once only if the later one's issue had voided the open tokens before the
\* earlier one was created.
OpenTokensExplained ==
    \A t \in DOMAIN tokens : \A s \in 1..t - 1 :
        tokens[s].state = "open" /\ tokens[t].state = "open"
            /\ tokens[s].purpose = tokens[t].purpose => tokens[t].mark < s

EventsOf(type, c) == {k \in DOMAIN userEvents : userEvents[k].type = type /\ userEvents[k].by = c}

\* account.go: a token is spent by one request; a password that a reset wrote
\* was paid with a reset token, written once, and found or made the account
\* active; a token was spent for nothing only if its request ended in an error.
TokensSpentOnce ==
    /\ \A t \in DOMAIN tokens :
        /\ Cardinality(tokens[t].spentBy) <= 1
        /\ \A c \in tokens[t].spentBy :
            calls[c].step = "ok" =>
                /\ user.active
                /\ calls[c].kind = "reset" => Cardinality(EventsOf("password_changed", c)) = 1
    /\ \A k \in DOMAIN userEvents :
        LET c == userEvents[k].by IN
        userEvents[k].type = "password_changed" /\ calls[c].kind = "reset" =>
            /\ \E t \in DOMAIN tokens : tokens[t].purpose = "password_reset" /\ tokens[t].spentBy = {c}
            /\ user.active

\* events.go: consumers drop an event whose version is not above the last one,
\* so versions rise in the order of the outbox, no change of the row reuses
\* one, and the account is registered and activated once; a role assignment
\* leaves a gap.
UserEventsOrdered ==
    /\ \A j, k \in DOMAIN userEvents : j < k => userEvents[j].version < userEvents[k].version
    /\ \A j, k \in DOMAIN userEvents :
        userEvents[j].type = userEvents[k].type /\ j # k => userEvents[j].type = "password_changed"
    /\ user.exists => userEvents # <<>> /\ userEvents[1].type = "registered"
    /\ user.version = Len(userEvents) + assignments

=============================================================================
