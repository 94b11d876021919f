----------------------------- MODULE MCContent -----------------------------
(* Two fields; updates that hide, that change a field, and that do neither. *)
EXTENDS Content

TwoFields == {"title", "content"}
Ask(fields, visible) == [fields |-> fields, visible |-> visible]
SomePatches == {Ask({"title"}, "hide"), Ask({"content"}, "keep"), Ask({}, "show")}
=============================================================================
