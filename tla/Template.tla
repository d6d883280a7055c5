------------------------------ MODULE Template ------------------------------
(***************************************************************************)
(* ChatPromptTemplate.Format and FormatStruct, and the Normalize a caller  *)
(* runs on their result: variables are merged and checked against what     *)
(* the templates' parse trees require, the messages are rendered in order  *)
(* (optional ones may be skipped), the history is spliced in after the     *)
(* leading system messages, and adjacent system messages are merged.       *)
(*                                                                         *)
(* A variable is absent, zero or not.  A message template is its role,     *)
(* whether it is optional, its cache hint and the variables its one part   *)
(* refers to.  A rendered message is its role, its cache hint and its      *)
(* parts, each named by the message it came from.                          *)
(***************************************************************************)
EXTENDS Integers, Sequences, FiniteSets, SequencesExt

CONSTANTS
    Names,      \* variable names; "Tools" is reserved for the template's own
    Templates,  \* sequences of message templates
    Explicit,   \* values of RequiredVars
    Defaults,   \* values of PartialVariables
    Histories,  \* sequences of messages, the payload's history field
    NoGuard,    \* a reference outside of any {{if}}, {{range}} or {{with}}
    Caches,     \* cache hints
    NoCache     \* the one that is none

ASSUME CachesAssumption == NoCache \in Caches

ASSUME ToolsAssumption == "Tools" \in Names

\* "zero" is an empty text or a nil map; "lacking" a map without a key, or a
\* list of such, that a template looks up in it; "set" has what is looked up.
\* (Left out: zero structs, which have their fields and count as true, and
\* empty lists that are not nil, which count as false but are not zero.)
Values == {"absent", "zero", "lacking", "set"}
Vars == [Names -> Values]

PartKinds == {"text", "media", "reasoning", "call", "result"}

\* How a parse tree refers to a variable: "field" is .name; "nested" is
\* .name.key; "element" is .name where the dot is an element of the guard's
\* value; "hidden" is a reference extractVarsFromTree does not visit, in a
\* named partial or as $.name; "media" is .name as all there is of the
\* media_type of a media part, whose mime_type says nothing.
RefKinds == {"field", "nested", "element", "hidden", "media"}
Refs == [name : Names, kind : RefKinds, guard : Names \cup {NoGuard}]

MessageTemplate ==
    [role : STRING, optional : BOOLEAN, cache : Caches, refs : SUBSET Refs]
ASSUME TemplatesAssumption == Templates \subseteq Seq(MessageTemplate)

Entry == [role : STRING, cache : Caches, kind : PartKinds]
ASSUME HistoriesAssumption == Histories \subseteq Seq(Entry)

VARIABLES
    messages, explicit, partial,    \* the template
    withHistory, payload, history,  \* the call: FormatStruct or Format
    pc,     \* "start", "render", "normalize", "done" or "failed"
    next,   \* the message being rendered or normalized
    out,    \* the messages of the execution
    norm,   \* the messages of the normalized execution
    err

inVars == <<messages, explicit, partial, withHistory, payload, history>>
vars == <<inVars, pc, next, out, norm, err>>

Init ==
    /\ messages \in Templates
    /\ explicit \in Explicit
    /\ partial \in Defaults
    /\ withHistory \in BOOLEAN
    /\ payload \in Vars
    /\ history \in IF withHistory THEN Histories ELSE {<<>>}
    /\ pc = "start" /\ next = 1
    /\ out = <<>> /\ norm = <<>>
    /\ err = "none"

-----------------------------------------------------------------------------
(* Variables *)

\* The payload's values win over the defaults, zero values too.
Merge(defaults, given) ==
    [n \in Names |->
        CASE n = "Tools" -> "set"
          [] n # "Tools" /\ given[n] # "absent" -> given[n]
          [] OTHER -> defaults[n]]

merged == Merge(partial, payload)

\* A plausible bug: only the references outside of {{if}}, {{range}} and
\* {{with}} are collected.
ExtractUnguarded(m) ==
    {r.name : r \in {q \in m.refs : q.kind # "hidden" /\ q.guard = NoGuard}} \ {"Tools"}

\* The names extractVarsFromTree finds: .name anywhere in the tree, the
\* bodies of {{range}} and {{with}} included.
ExtractVars(m) ==
    {r.name : r \in {q \in m.refs : q.kind # "hidden"}} \ {"Tools"}

requiredFromAST ==
    UNION {ExtractVars(messages[i]) : i \in {j \in DOMAIN messages : ~messages[j].optional}}

Missing == {n \in explicit \cup requiredFromAST : merged[n] = "absent"}

AllVarsZero(m, values) == \A n \in ExtractVars(m) : values[n] \in {"absent", "zero"}

\* text/template looks a name up when it executes the reference, and fails
\* on a missing key, also of a map inside of the data.
Executed(r, values) == r.guard = NoGuard \/ values[r.guard] \in {"lacking", "set"}

MissingName(r, values) == r.kind # "element" /\ values[r.name] = "absent"
MissingInside(r, values) ==
    \/ r.kind = "nested" /\ values[r.name] \in {"zero", "lacking"}
    \/ r.kind = "element" /\ r.guard # NoGuard /\ values[r.guard] = "lacking"

MissingKey(m, values) ==
    \E r \in m.refs :
        Executed(r, values) /\ (MissingName(r, values) \/ MissingInside(r, values))

\* normalizeMediaType refuses an empty media type, if it cannot be inferred.
MediaTypeEmpty(m, values) ==
    \E r \in m.refs : r.kind = "media" /\ values[r.name] = "zero"

RenderError(m, values) ==
    CASE MissingKey(m, values) -> "key"
      [] ~MissingKey(m, values) /\ MediaTypeEmpty(m, values) -> "media"
      [] OTHER -> "none"

\* A plausible bug: the optional messages are not validated.
ValidateMandatory ==
    \A i \in DOMAIN messages : ~messages[i].optional => RenderError(messages[i], merged) = "none"

\* ValidateVariables executes every part of every message.
ValidateVariables ==
    \A i \in DOMAIN messages : RenderError(messages[i], merged) = "none"

-----------------------------------------------------------------------------
(* Formatting *)

IsSystem(m) == m.role \in {"system", "developer"}

PartKind(m) == IF \E r \in m.refs : r.kind = "media" THEN "media" ELSE "text"

Render(i) ==
    [role |-> messages[i].role, cache |-> messages[i].cache,
     parts |-> <<[from |-> <<"template", i>>, kind |-> PartKind(messages[i])]>>]

Fail(e) == pc' = "failed" /\ err' = e

\* FormatStruct refuses a payload field tagged Tools (getPayloadFields).
Reserved == withHistory /\ payload["Tools"] # "absent"

Check ==
    /\ pc = "start"
    /\ IF Reserved THEN Fail("reserved")
       ELSE IF Missing # {} THEN Fail("missing")
       ELSE pc' = "render" /\ UNCHANGED err
    /\ UNCHANGED <<inVars, next, out, norm>>

Skipped(i) == messages[i].optional /\ AllVarsZero(messages[i], merged)

SkipMessage ==
    /\ pc = "render" /\ next \in DOMAIN messages
    /\ Skipped(next)
    /\ next' = next + 1
    /\ UNCHANGED <<inVars, pc, out, norm, err>>

RenderMessage ==
    /\ pc = "render" /\ next \in DOMAIN messages
    /\ ~Skipped(next)
    /\ LET e == RenderError(messages[next], merged) IN
       IF e # "none"
       THEN Fail(e) /\ UNCHANGED <<next, out>>
       ELSE /\ next' = next + 1
            /\ out' = Append(out, Render(next))
            /\ UNCHANGED <<pc, err>>
    /\ UNCHANGED <<inVars, norm>>

HistoryMessage(i) ==
    [role |-> history[i].role, cache |-> history[i].cache,
     parts |-> <<[from |-> <<"history", i>>, kind |-> history[i].kind]>>]

\* A plausible bug: the history goes in after the last system message.
SpliceAfterLastSystem(ms) ==
    CHOOSE n \in 0..Len(ms) :
        /\ n > 0 => IsSystem(ms[n])
        /\ \A i \in (n + 1)..Len(ms) : ~IsSystem(ms[i])

\* The end of the leading run of system and developer messages.
SpliceAt(ms) ==
    CHOOSE n \in 0..Len(ms) :
        /\ \A i \in 1..n : IsSystem(ms[i])
        /\ n < Len(ms) => ~IsSystem(ms[n + 1])

SpliceHistory ==
    /\ pc = "render" /\ next = Len(messages) + 1
    /\ LET n == SpliceAt(out) IN
       out' = SubSeq(out, 1, n)
              \o [i \in DOMAIN history |-> HistoryMessage(i)]
              \o SubSeq(out, n + 1, Len(out))
    /\ pc' = "normalize" /\ next' = 1
    /\ UNCHANGED <<inVars, norm, err>>

-----------------------------------------------------------------------------
(* Normalize *)

\* A plausible bug: only the last part is looked at.
EndsInText(parts) == parts # <<>> /\ Last(parts).kind = "text"

HasText(parts) == \E i \in DOMAIN parts : parts[i].kind = "text"

Separator == [from |-> <<"separator", 0>>, kind |-> "text"]

\* A plausible bug: the first message's hint is kept.
KeepFirstCache(a, b) == a

MergeCache(a, b) == IF a = b THEN a ELSE NoCache

MergeSystem(a, b) ==
    [role |-> a.role,
     cache |-> MergeCache(a.cache, b.cache),
     parts |-> a.parts
               \o (IF HasText(a.parts) /\ HasText(b.parts) THEN <<Separator>> ELSE <<>>)
               \o b.parts]

\* A plausible bug: two messages are merged, however many there are.
InRunOfTwo(i) == i > 1 /\ IsSystem(out[i - 1]) /\ IsSystem(out[i]) /\ ~(i > 2 /\ IsSystem(out[i - 2]))

\* A message is merged into the one before it if both are system messages.
InRun(i) == i > 1 /\ IsSystem(out[i - 1]) /\ IsSystem(out[i])

StartMessage ==
    /\ pc = "normalize" /\ next \in DOMAIN out
    /\ ~InRun(next)
    /\ norm' = Append(norm, out[next])
    /\ next' = next + 1
    /\ UNCHANGED <<inVars, pc, out, err>>

\* A plausible bug: the loop does not move past the message it merged.
MergeRevisits ==
    /\ pc = "normalize" /\ next \in DOMAIN out
    /\ InRun(next)
    /\ norm' = Append([norm EXCEPT ![Len(norm)] = MergeSystem(@, out[next])], out[next])
    /\ next' = next + 1
    /\ UNCHANGED <<inVars, pc, out, err>>

MergeMessage ==
    /\ pc = "normalize" /\ next \in DOMAIN out
    /\ InRun(next)
    /\ norm' = [norm EXCEPT ![Len(norm)] = MergeSystem(@, out[next])]
    /\ next' = next + 1
    /\ UNCHANGED <<inVars, pc, out, err>>

FinishNormalize ==
    /\ pc = "normalize" /\ next = Len(out) + 1
    /\ pc' = "done"
    /\ UNCHANGED <<inVars, next, out, norm, err>>

Next ==
    \/ Check
    \/ SkipMessage
    \/ RenderMessage
    \/ SpliceHistory
    \/ StartMessage
    \/ MergeMessage
    \/ FinishNormalize

Spec == Init /\ [][Next]_vars

-----------------------------------------------------------------------------
(* Properties *)

\* The parts of ms in order, without the separators Normalize adds.
Own(p)      == IF p = Separator THEN <<>> ELSE <<p>>
Content(ms) ==
    FlattenSeq([i \in DOMAIN ms |-> FlattenSeq([k \in DOMAIN ms[i].parts |-> Own(ms[i].parts[k])])])

\* What FormatStruct requires up front (template.go:394) is enough for
\* text/template, as far as names go: once it is there, a missing key can
\* only come from an optional message given some of its variables, from a
\* reference the parse tree walk does not see, or from inside of a value:
\* .user.name requires user and nothing of what is in it (payload.go:156),
\* and the elements of what is ranged over may lack a key.
RequiredVarsSuffice ==
    err = "key" =>
        LET m == messages[next] IN
        \/ m.optional /\ ~AllVarsZero(m, merged)
        \/ \E r \in m.refs : r.kind = "hidden" /\ merged[r.name] = "absent"
        \/ \E r \in m.refs : Executed(r, merged) /\ MissingInside(r, merged)

\* Data ValidateVariables accepts (template.go:406) never fails to render:
\* all that is left to refuse is a missing required or a reserved name.
ValidatedDataRenders ==
    err \in {"key", "media"} => ~ValidateVariables

\* In what the provider gets, the history is one piece, only system
\* messages come before it, those at the head of the template, and the
\* template keeps its order around it (spliceHistory, template.go:582).
HistoryStaysWhole ==
    pc = "done" =>
        LET c == Content(norm)
            hist == {i \in DOMAIN c : c[i].from[1] = "history"}
            own == DOMAIN c \ hist
            Source(i) == c[i].from[2]
        IN  /\ Cardinality(hist) = Len(history)
            /\ \A i, j \in hist : Source(j) - Source(i) = j - i
            /\ \A i, j \in own : i < j => Source(i) < Source(j)
            /\ \A h \in hist, i \in own :
                  /\ i < h => IsSystem(messages[Source(i)])
                  /\ i = h + 1 => ~IsSystem(messages[Source(i)])

\* What Normalize has produced has every part of the messages before
\* next, once and in order.
ContentKept == Content(norm) = Content(SubSeq(out, 1, next - 1))

\* No two adjacent messages are both system or developer messages.
RunsMerged ==
    \A i \in 1..(Len(norm) - 1) : ~(IsSystem(norm[i]) /\ IsSystem(norm[i + 1]))

\* A merged message has a cache hint only if all it was merged from had
\* that hint, so nothing is cached that its author did not mark.
HintsUnanimous ==
    \A i \in DOMAIN norm, k \in DOMAIN out :
        /\ norm[i].cache # NoCache
        /\ out[k].parts[1] \in Range(norm[i].parts)
        => out[k].cache = norm[i].cache

\* There is a separator between the texts of any two merged messages.
TextsApart ==
    \A i \in DOMAIN norm : \A p, q \in DOMAIN norm[i].parts :
        LET a == norm[i].parts[p]
            b == norm[i].parts[q]
        IN  (p < q /\ a.kind = "text" /\ b.kind = "text" /\ a # Separator /\ b # Separator)
            => \E s \in (p + 1)..(q - 1) : norm[i].parts[s] = Separator

\* Normalize (prompty.go:179-245) merges every run of system messages,
\* whatever the history brought, and loses none of their parts, nor where a
\* text ends: adapters join the texts of a system message with nothing
\* between them, and send a message's hint for the whole of it.  (The
\* metadata of all but the first message of a run is dropped; it is left
\* out here.)
NormalizeIsFaithful ==
    pc \in {"normalize", "done"} =>
        ContentKept /\ RunsMerged /\ HintsUnanimous /\ TextsApart
=============================================================================
