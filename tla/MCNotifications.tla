-------------------------- MODULE MCNotifications --------------------------
(* One mail channel and the in-app channel; a request may name one twice. *)
EXTENDS Notifications

CONSTANTS clientA, clientB, adminA, adminB, processA, processB

TwoClients == {clientA, clientB}
TwoAdmins == {adminA, adminB}
TwoProcesses == {processA, processB}
MailAndInApp == {"email", "in_app"}
Ask(list, keyed, active, odd) ==
    [list |-> list, keyed |-> keyed, active |-> active, odd |-> odd]
SomePayloads == {Ask(<<"email", "in_app">>, TRUE, TRUE, FALSE),
                 Ask(<<"in_app", "email">>, TRUE, TRUE, FALSE),
                 Ask(<<"in_app", "in_app">>, TRUE, TRUE, FALSE),
                 Ask(<<"in_app">>, FALSE, FALSE, TRUE)}
Only(field, value) == [f \in {field} |-> value]
SomePatches == {Only("subject", "broken"), Only("body", "broken"), Only("body", "textOnly"),
                Only("body", "dataBound"), Only("format", "html"), Only("active", FALSE)}
SomePuts == {[c \in {"email"} |-> "off"], [c \in {"email", "in_app"} |-> "on"]}
MailOnly == {"email"}
InAppOnly == {"in_app"}
=============================================================================
