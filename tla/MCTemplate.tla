----------------------------- MODULE MCTemplate -----------------------------
(***************************************************************************)
(* Template for TLC: templates of a few messages, over messages that use   *)
(* each kind of reference, and histories that can meet the template's      *)
(* system messages with their own.                                         *)
(***************************************************************************)
EXTENDS Template

CONSTANTS
    x, y,           \* two variables
    hintE, hintF,   \* two cache hints
    MaxMessages     \* bound: messages in a template

MCNames == {x, y, "Tools"}

Message(role, optional, cache, refs) ==
    [role |-> role, optional |-> optional, cache |-> cache, refs |-> refs]
Ref(name, kind, guard) == [name |-> name, kind |-> kind, guard |-> guard]
Field(name) == Ref(name, "field", NoGuard)

Catalog == {
    Message("system", FALSE, hintE, {}),
    Message("system", FALSE, NoCache, {Field("Tools")}),
    Message("developer", FALSE, hintE, {Field(x), Ref(y, "field", x)}),
    Message("system", TRUE, hintE, {Ref(y, "hidden", NoGuard)}),
    Message("system", FALSE, hintF, {Ref(x, "media", NoGuard)}),
    Message("user", TRUE, NoCache, {Field(x), Field(y)}),
    Message("user", FALSE, NoCache, {Field(x), Ref(y, "element", x)}),
    Message("user", FALSE, NoCache, {Ref(x, "nested", NoGuard), Ref(y, "hidden", x)})}

MCTemplates == UNION {[1..n -> Catalog] : n \in 0..MaxMessages}
MCCaches == {hintE, hintF, NoCache}
MCExplicit == {{}, {y}}
MCDefaults == {[n \in MCNames |-> IF n = y THEN v ELSE "absent"] : v \in Values}

Past(role, cache, kind) == [role |-> role, cache |-> cache, kind |-> kind]
MCHistories == {
    <<>>,
    <<Past("user", NoCache, "text"), Past("assistant", NoCache, "text")>>,
    <<Past("system", hintE, "text"), Past("user", NoCache, "text")>>,
    <<Past("developer", hintE, "media"), Past("system", hintF, "text")>>}
=============================================================================
