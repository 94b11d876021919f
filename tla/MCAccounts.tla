----------------------------- MODULE MCAccounts -----------------------------
(* The roles of the migration and one more name; updates of one field each. *)
EXTENDS Accounts

FourNames == {"user", "moderator", "admin", "editor"}
ThreeLevels == 1..3
TwoPatches == {[f \in {"name"} |-> "editor"], [f \in {"level"} |-> 3]}
=============================================================================
