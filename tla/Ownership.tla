----------------------------- MODULE Ownership ------------------------------
(***************************************************************************)
(* Who can change whose templates and executions (template.go, clone.go,   *)
(* prompty.go).  A registry keeps a template and hands out clones of it;   *)
(* callers render executions from their clones and derive others from      *)
(* those.  Go maps, slices and pointers are references, so what a caller   *)
(* writes into what it holds is seen by everybody whose copy shares the    *)
(* cell written.  What a caller holds is a name: Normalize can answer with *)
(* its receiver, and two names then stand for one execution.               *)
(*                                                                         *)
(* A field (the metadata of a message, the parameters of a tool, ...) is a *)
(* value of three levels: the outer map, a map or slice nested in it, and  *)
(* a map inside a struct value nested in it (boxed).  A cell is named      *)
(* after the object that allocated it.                                     *)
(***************************************************************************)
EXTENDS Naturals

CONSTANTS
    Callers,    \* users of a registry
    Registry,   \* the owner of cached templates
    Objects,    \* templates and executions, each allocated at most once
    NoObject,
    Fetcher,    \* the owner of fetched media it may keep and hand out again
    MaxWrites   \* bound: writes by callers

ASSUME OwnersAssumption == Registry \notin Callers
ASSUME FetcherAssumption == Fetcher \notin Objects
ASSUME BoundAssumption == MaxWrites \in Nat

Levels == {"outer", "inner", "boxed"}
\* messages are their metadata, media the bytes of their media parts.
ExecutionFields ==
    {"messages", "media", "tools", "options", "metadata", "format"}
Exported == ExecutionFields \cup {"partials", "input"}
\* parsedTemplates, with its own copy of each message's metadata, is private.
Fields == Exported \cup {"parsed"}
Cells == (Objects \X Fields \X Levels) \cup ({Fetcher} \X {"media"} \X Levels)

VARIABLES
    kind,    \* what each object is
    owner,   \* who holds it
    body,    \* the template or execution behind the name
    ref,     \* the cells it is made of
    seen,    \* for every cell, the callers whose writes show in it
    cached,  \* the template the registry hands out
    writes   \* writes so far

vars == <<kind, owner, body, ref, seen, cached, writes>>

Executions == {"execution", "derived", "resolved"}
Kinds == {"free", "template"} \cup Executions
FieldsOf(o) == IF kind[o] = "template" THEN Fields \ {"media"} ELSE ExecutionFields
Own(o) == [f \in Fields |-> [l \in Levels |-> <<o, f, l>>]]

Init ==
    /\ kind = [o \in Objects |-> "free"]
    /\ owner = [o \in Objects |-> Registry]
    /\ body = [o \in Objects |-> o]
    /\ ref = [o \in Objects |-> Own(o)]
    /\ seen = [x \in Cells |-> {}]
    /\ cached = NoObject
    /\ writes = 0

(***************************************************************************)
(* The ways to copy a field, as the levels they copy.  cloneReflectValue   *)
(* follows maps, slices and pointers and returns a struct as it is;        *)
(* maps.Clone copies one level; an assignment copies none.                 *)
(***************************************************************************)
Deep      == {"outer", "inner"}
MapsClone == {"outer"}
Shared    == {}

\* o becomes an object of kind k held by c, field by field the copy modes[f]
\* of from[f]; text is what its rendered text has been made from.
Make(o, k, c, modes, from, text) ==
    LET Copied(f, l) == l \in modes[f]
    IN  /\ kind[o] = "free"
        /\ kind' = [kind EXCEPT ![o] = k]
        /\ owner' = [owner EXCEPT ![o] = c]
        /\ body' = body
        /\ ref' = [ref EXCEPT ![o] = [f \in Fields |-> [l \in Levels |->
                      IF Copied(f, l) THEN <<o, f, l>> ELSE from[f][l]]]]
        /\ seen' = [x \in Cells |->
              IF x[1] # o \/ ~Copied(x[2], x[3]) THEN seen[x]
              ELSE seen[from[x[2]][x[3]]] \cup
                   (IF x[2] = "messages" /\ x[3] = "outer"
                    THEN UNION {seen[y] : y \in text} ELSE {})]

\* NewChatPromptTemplate, called by a registry that parses a manifest and
\* caches the result.  Everything is copied from the parser's values, and the
\* parsed messages take their metadata from the copy by maps.Clone.
Load(o) ==
    LET own == Own(o)
    IN  /\ Make(o, "template", Registry,
                [f \in Fields |-> IF f = "parsed" THEN MapsClone ELSE Levels],
                [own EXCEPT !.parsed = own.messages], {})
        /\ cached' = o
        /\ UNCHANGED writes

CloneToolsShallow == [f \in Fields |->
    IF f = "parsed" THEN Shared
    ELSE IF f \in {"partials", "tools"} THEN MapsClone ELSE Deep]

\* The copies CloneTemplate makes.
CloneModes == [f \in Fields |->
    IF f = "parsed" THEN Shared ELSE IF f = "partials" THEN MapsClone ELSE Deep]

GetTemplate(c, o) ==
    /\ cached # NoObject
    /\ Make(o, "template", c, CloneModes, ref[cached], {})
    /\ UNCHANGED <<cached, writes>>

\* The copies renderTemplates makes.
FormatModes == [f \in Fields |-> IF f = "messages" THEN MapsClone ELSE Deep]

\* Format and FormatStruct: the text is made from the parsed messages, the
\* partial variables and the tools; the payload is the caller's own.
Format(c, t, o) ==
    /\ kind[t] = "template" /\ owner[t] = c
    /\ Make(o, "execution", c, FormatModes,
            [ref[t] EXCEPT !.messages = ref[t].parsed],
            {ref[t][f][l] : f \in {"partials", "tools"}, l \in Levels})
    /\ UNCHANGED <<cached, writes>>

DeriveMessagesShallow == [f \in Fields |->
    IF f = "messages" THEN MapsClone ELSE Deep]

\* The copies of Clone and of cloneExecutionWithMessages.
DeriveModes == [f \in Fields |-> Deep]

\* Clone, WithHistory, AddMessage, WithMessages and, if there are messages,
\* Normalize: the messages of e or of another execution m, the rest from e.
Derive(c, e, m, o) ==
    /\ {kind[e], kind[m]} \subseteq Executions
    /\ owner[e] = c /\ owner[m] = c
    /\ Make(o, "derived", c, DeriveModes,
            [ref[e] EXCEPT !.messages = ref[m].messages, !.media = ref[m].media], {})
    /\ UNCHANGED <<cached, writes>>

\* Normalize when there are no messages returns its receiver.  Any execution
\* can be without: rendering skips optional messages, NewExecution and
\* WithMessages take none, and Messages is the holder's to assign.
NormalizeEmpty(c, e, o) ==
    /\ kind[e] \in Executions /\ owner[e] = c
    /\ kind[o] = "free"
    /\ kind' = [kind EXCEPT ![o] = kind[e]]
    /\ owner' = [owner EXCEPT ![o] = c]
    /\ body' = [body EXCEPT ![o] = body[e]]
    /\ ref' = [ref EXCEPT ![o] = ref[e]]
    /\ UNCHANGED <<seen, cached, writes>>

\* The copies of ResolvedMedia when a part is fetched.
ResolveModes == [f \in Fields |-> IF f = "media" THEN Shared ELSE Deep]

\* ResolvedMedia fetches what has a URL and no data: it clones e and stores
\* the slice the fetcher returned, which the fetcher may keep.  (With nothing
\* to fetch it is Clone, and after an error there is no execution.)
ResolvedMedia(c, e, o) ==
    /\ kind[e] \in Executions /\ owner[e] = c
    /\ Make(o, "resolved", c, ResolveModes,
            [ref[e] EXCEPT !.media = [l \in Levels |-> <<Fetcher, "media", l>>]], {})
    /\ UNCHANGED <<cached, writes>>

\* A caller writes into something it can reach from what it holds.
Write(c, o, f, l) ==
    /\ writes < MaxWrites
    /\ writes' = writes + 1
    /\ kind[o] # "free" /\ owner[o] = c
    /\ f \in FieldsOf(o) \cap Exported
    /\ seen' = [seen EXCEPT ![ref[o][f][l]] = @ \cup {c}]
    /\ UNCHANGED <<kind, owner, body, ref, cached>>

Next ==
    \E o \in Objects :
        \/ Load(o)
        \/ \E c \in Callers :
              \/ GetTemplate(c, o)
              \/ \E t \in Objects : Format(c, t, o)
              \/ \E e, m \in Objects : Derive(c, e, m, o)
              \/ \E e \in Objects : NormalizeEmpty(c, e, o)
              \/ \E e \in Objects : ResolvedMedia(c, e, o)
              \/ \E f \in Exported, l \in Levels : Write(c, o, f, l)

Spec == Init /\ [][Next]_vars

-----------------------------------------------------------------------------
TypeOK ==
    /\ kind \in [Objects -> Kinds]
    /\ owner \in [Objects -> Callers \cup {Registry}]
    /\ body \in [Objects -> Objects]
    /\ ref \in [Objects -> [Fields -> [Levels -> Cells]]]
    /\ seen \in [Cells -> SUBSET Callers]
    /\ cached \in {o \in Objects : kind[o] = "template" /\ owner[o] = Registry}
              \cup {NoObject}
    /\ writes \in 0..MaxWrites

\* The fields an object has to itself down to nested maps.  Missing are the
\* partial variables, which CloneTemplate copies one level deep, message
\* metadata before an execution is cloned, which rendering copies one level
\* deep from parsed messages that every clone of a template shares, and media
\* that have just been fetched.
DeepFields(o) ==
    {f \in FieldsOf(o) \cap Exported :
        /\ kind[o] # "free" /\ f # "partials"
        /\ f = "messages" => kind[o] \in {"derived", "resolved"}
        /\ f = "media" => kind[o] # "resolved"}

Exclusive(o) ==
    {ref[o][f]["outer"] : f \in {g \in FieldsOf(o) \cap Exported :
                                   g = "media" => kind[o] # "resolved"}} \cup
    {ref[o][f]["inner"] : f \in DeepFields(o)}

Reach(o) == {ref[o][f][l] : f \in FieldsOf(o), l \in Levels}

Live == {o \in Objects : kind[o] # "free"}

\* No map or slice that the holder of a template or execution can write to
\* directly, and none nested in its deeply copied fields, can be reached from
\* any other template or execution, in whatever order they were cloned,
\* rendered, resolved and derived from each other: two goroutines that each
\* change what they hold never meet there.  Bytes just fetched are excepted,
\* and so are two names of one execution, which Normalize without messages
\* makes.
NoSharedCells ==
    \A o, p \in Live : body[o] # body[p] => Exclusive(o) \cap Reach(p) = {}

\* What a caller writes into its template or execution never shows in the
\* tools, options, metadata, response format or input schema of what the
\* registry or another caller holds, however many copies lie between.  (Text
\* and metadata of messages are made from shared partial variables and parsed
\* messages, and media from what a fetcher keeps.)
WritesStayPrivate ==
    \A o \in Live : \A f \in DeepFields(o) \ {"messages", "media"}, l \in Deep :
        seen[ref[o][f][l]] \subseteq {owner[o]}

\* CloneTemplate's comment: registries use it so callers cannot mutate the
\* cached template.
CachedIsUntouched ==
    cached # NoObject =>
        \A f \in Fields, l \in Deep : seen[ref[cached][f][l]] = {}
=============================================================================
