--------------------------- MODULE MCConversation ---------------------------
(***************************************************************************)
(* Conversation for TLC.  Prompts are of four sorts: those with every kind *)
(* of part under every role, for the adapters alone; those with every      *)
(* shape of schema; those whose answer has a type, for every way to embed  *)
(* structs; and a few that are retried, with every outcome of each         *)
(* attempt.                                                                *)
(***************************************************************************)
EXTENDS SchemaConversation

Plan(messages, api, tries, writes, tools, format) ==
    [messages |-> messages, api |-> api, attempts |-> tries, scribbles |-> writes,
     tools |-> tools, format |-> format, type |-> Struct(<<1>>)]

Once(messages) == Plan(messages, "execute", 1, 0, <<>>, <<>>)

-----------------------------------------------------------------------------
Hi     == Text(<< <<"hi", 0>> >>)
There  == Text(<< <<"there", 0>> >>)
Empty  == Text(<<>>)
Cached(p, cache) == [p EXCEPT !.cache = cache]
Image  == Media("image", "data")

MediaParts  == {Media(mime, source) : mime \in Mimes, source \in Sources}
CallParts   == {Call(<<"id", 0, i>>, "search", args) : i \in {1, 2}, args \in Args}
ResultParts == {Result(<<"id", 0, i>>, "search", content, FALSE) :
                   i \in {1, 2}, content \in {<<>>, <<Hi>>, <<Hi, Image>>, <<Reasoning(<<>>)>>,
                                       <<Cached(Hi, "other")>>}}
SomeParts   == {Hi, Image, Media("image", "url"), Reasoning(<< <<"why", 0>> >>),
                Call(<<"id", 0, 1>>, "search", "object"),
                Call(<<"id", 0, 2>>, "search", "array"),
                Result(<<"id", 0, 1>>, "search", <<There>>, TRUE)}
AllParts    == SomeParts \cup MediaParts \cup CallParts \cup ResultParts
                  \cup {Cached(Hi, c) : c \in Caches} \cup {Empty}

Contents == {<<>>} \cup {<<p>> : p \in AllParts} \cup {<<p, q>> : p, q \in SomeParts}
Singles  == {[Message(role, content) EXCEPT !.cache = cache] :
                role \in Roles \cup {"unknown"}, content \in Contents,
                cache \in {"unset", "other"}}

Turns == {
    Message("system", <<Hi>>),
    Message("developer", <<There>>),
    Message("user", <<Hi>>),
    Message("user", <<Hi, Image, There>>),
    Message("user", <<Media("image", "url"), Hi>>),
    Message("assistant", <<Hi>>),
    Message("assistant", <<There, Call(<<"id", 0, 1>>, "search", "object"),
                           Call(<<"id", 0, 2>>, "search", "")>>),
    Message("tool", <<Result(<<"id", 0, 1>>, "search", <<Hi>>, FALSE),
                      Result(<<"id", 0, 2>>, "search", <<There>>, TRUE)>>)}

Prompts == {<<m>> : m \in Singles} \cup UNION {[1..n -> Turns] : n \in {2, 3}}

MCStrings == STRING

Ask    == <<Message("system", <<Hi>>), Message("user", <<There>>)>>
Search == <<"search">>

-----------------------------------------------------------------------------
String == Schema({"string"}, <<>>, {})
N        == [type |-> "integer", fits |-> TRUE]
S(text)  == [type |-> "string", text |-> text]
O(f)     == [type |-> "object", fields |-> f]
A(elems) == [type |-> "array", elems |-> elems]

InStr  == [String EXCEPT !.enum = {S("a")}]
Types  == [String EXCEPT !.types = {"string", "null"}, !.single = FALSE]
OrNull == [Types EXCEPT !.enum = {S("a"), Null}]
Untyped == [String EXCEPT !.types = {}, !.single = FALSE]
List   == [String EXCEPT !.types = {"array"}, !.items = <<String>>]
Nested(p, required) == Schema({"object"}, [x |-> p], required)

Boolean == Schema({"boolean"}, <<>>, {})
Free    == Schema({"object"}, <<>>, {})
Records == [List EXCEPT !.items = <<Nested(String, {})>>]

Property == <<String, InStr, Types, OrNull, Untyped, Boolean, Free, List, Records, Nested(String, {}),
              Nested(InStr, {}), Nested(String, {"x"})>>

\* Root names stand for the schemas: the numbers of the two properties (x and
\* y play the same part), which are required, and whether there may be others.
\* The last is one in which x within xX and xX within x spell the same path.
RootNames ==
    {<<i, j, required, extra>> \in
        (DOMAIN Property) \X (DOMAIN Property) \X (SUBSET {"x", "y"}) \X {"unset", "forbid"} :
        i <= j /\ (extra = "forbid" => required = {"x"})}
      \cup {<<0, 0, {}, "unset">>}

Manifest ==
    [r \in RootNames |->
        IF r[1] = 0
        THEN Schema({"object"}, [x  |-> Schema({"object"}, [xX |-> Nested(String, {})], {}),
                                 xX |-> Nested(Nested(InStr, {}), {"x"})], {})
        ELSE [Schema({"object"}, [x |-> Property[r[1]], y |-> Property[r[2]]], r[3])
                EXCEPT !.extra = r[4]]]

MCPascal == [x |-> "X", y |-> "Y", xX |-> "XX"]

FieldValues == {N, S("a"), S("b"), Null, [type |-> "boolean"], A(<<S("a")>>), A(<<Null>>), O(<<>>), O([x |-> S("a")]),
                O([x |-> S("b")]), O([x |-> Null]),
                A(<<O([x |-> S("a")])>>)}
MCJsonValues == {O(f) : f \in UNION {[names -> FieldValues] : names \in SUBSET {"x", "y"}}}
                  \cup {O([x |-> S("a"), y |-> S("a"), z |-> S("a")]), S("a"),
                        O([x |-> S("YQ=="), y |-> N]),
                        O([x |-> S("YQ=="), y |-> [N EXCEPT !.fits = FALSE]])}

MCFormat == Schema({"object"}, [x |-> String], {"x"})

-----------------------------------------------------------------------------
(***************************************************************************)
(* Structs are named by tuples: a leaf by its number; an embedding one by  *)
(* two leaves (0: none), how each is embedded, and fields of its own; one  *)
(* that embeds two of these by both names; one that is generated by its    *)
(* root and its path.                                                      *)
(***************************************************************************)
Str    == Scalar("string")
Tagged(key, f)  == [f EXCEPT !.tag = key]
OmitEmpty(f)    == [f EXCEPT !.omitEmpty = TRUE]
Unexported(f)   == [f EXCEPT !.exported = FALSE]
Embed(type)     == [Field("embedded", type) EXCEPT !.anonymous = TRUE]

Leaf == <<
    <<Field("x", Str)>>,
    <<Tagged("x", Field("gx", Str))>>,
    <<OmitEmpty(Field("x", Str)), Field("y", Pointer(Str))>>,
    <<Field("x", Str), Tagged("y", Field("gy", Str))>>,
    <<OmitEmpty(Field("y", Pointer(Struct(<<5>>))))>>,
    <<Field("x", Scalar("integer")), Field("y", ListOf(Struct(<<6>>)))>>,
    <<Field("x", ListOf(Str)), [Field("y", Str) EXCEPT !.ignore = TRUE], Unexported(Field("z", Str))>>,
    <<[Field("x", Scalar("integer")) EXCEPT !.quoted = TRUE], Field("y", Str)>>,
    <<>>,
    <<Field("x", Struct(<<9>>)), Field("y", Provider(InStr))>>,
    <<Field("x", Bytes), Field("y", GoMap)>>,
    <<Field("x", Struct(<<1>>)), Field("y", ListOf(Struct(<<3>>)))>>,
    <<Field("x", Bytes), Field("y", Scalar("integer"))>> >>

ChainFrom == 20     \* of structs, each a field of the one before
ChainTo   == 28
Chain(n)  == <<Field("x", Struct(<<IF n = ChainTo THEN 1 ELSE n + 1>>))>>

Embeddable == 1..5
Modes      == {"value", "tagged", "pointer", "hidden"}
Embedding(n, mode) ==
    CASE n = 0            -> <<>>
      [] mode = "value"   -> <<Unexported(Embed(Struct(<<n>>)))>>
      [] mode = "tagged"  -> <<Tagged("y", Embed(Struct(<<n>>)))>>
      [] mode = "pointer" -> <<Embed(Pointer(Struct(<<n>>)))>>
      [] mode = "hidden"  -> <<Unexported(Embed(Pointer(Struct(<<n>>))))>>

OwnFields == {"none", "x", "tagged", "both"}
Own(which) == CASE which = "none"   -> <<>>
                [] which = "x"      -> <<Field("x", Str)>>
                [] which = "tagged" -> <<Tagged("x", Field("g", Str))>>
                [] which = "both"   -> <<Field("x", Str), Tagged("x", Field("g", Str))>>

Leaves == {<<n>> : n \in DOMAIN Leaf \cup ChainFrom..ChainTo}
Single == {<<a, m, 0, "value", own>> : a \in Embeddable, m \in Modes, own \in OwnFields}
Double == {<<a, m, b, l, own>> : a \in Embeddable, b \in Embeddable, m \in Modes, l \in Modes,
                                 own \in {"none", "x", "tagged"}}
Mids   == Single \cup {s \in Double : s[1] < s[3]}
Halves == {s \in Single : s[2] \in {"value", "pointer"} /\ s[5] # "both"}
Tops   == {p \o q : p \in Halves, q \in {s \in Halves : s[1] <= 2 /\ s[5] = "none"}}

\* Two structs that each embed a third, which embeds a leaf.
Shared == <<1, "value", 0, "value", "none">>
Deep   == {<<k>> \o Shared : k \in 0..2}

Written == Leaves \cup Mids \cup Tops \cup Deep

Paths == {"Output", "OutputX", "OutputY", "OutputXItem", "OutputYItem"}

MCStructs ==
    [s \in Written \cup (RootNames \X Paths) |->
        CASE Len(s) = 2  -> LET types == GenerateTypes(s[1], Manifest[s[1]])
                            IN  IF s \in DOMAIN types THEN types[s] ELSE <<>>
          [] Len(s) = 1  -> IF s[1] < ChainFrom THEN Leaf[s[1]] ELSE Chain(s[1])
          [] Len(s) = 5  -> Embedding(s[1], s[2]) \o Embedding(s[3], s[4]) \o Own(s[5])
          [] Len(s) = 6  -> IF s[1] = 0
                            THEN <<Embed(Struct(<<1>> \o Shared)), Embed(Struct(<<2>> \o Shared))>>
                            ELSE <<Embed(Struct(Shared))>>
          [] Len(s) = 10 -> <<Embed(Struct(SubSeq(s, 1, 5))), Embed(Struct(SubSeq(s, 6, 10)))>>]


MCUnmarshalers == {<<9>>}

TypePlans ==
    {[Plan(Ask, "structured", 1, 0, <<>>, <<>>) EXCEPT !.type = Struct(s)] : s \in Written}
-----------------------------------------------------------------------------
CONSTANTS   \* bounds: of one conversation, and of one in which others write
    Attempts,
    DisturbedAttempts,
    Scribbles

Retried(tries, writes) ==
    {Plan(Ask, "structured", tries, writes, tools, <<>>) : tools \in {<<>>, Search}}
      \cup {Plan(Ask, "tools", tries, writes, Search, <<>>)}

UnknownRole == Plan(<<Message("unknown", <<Hi>>)>>, "tools", Attempts, 0, Search, <<>>)

MCPlans ==
    {Once(messages) : messages \in Prompts}
      \cup {[Plan(Ask, "structured", 1, 0, <<>>, <<Manifest[r]>>) EXCEPT !.type = OutputType(r)] :
                r \in RootNames}
      \cup {Plan(Ask, "execute", 1, 0, Search, <<MCFormat>>)}
      \cup TypePlans
      \cup {UnknownRole}
      \cup Retried(Attempts, 0) \cup Retried(DisturbedAttempts, Scribbles)
=============================================================================
