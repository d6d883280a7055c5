------------------------------- MODULE GoJson -------------------------------
(***************************************************************************)
(* encoding/json of the Go library, as the structured answers are decoded  *)
(* with it: which key of an object belongs to which field of a struct, and *)
(* what does not decode.  Keys are compared exactly, which is what a model *)
(* that follows a schema writes.                                           *)
(***************************************************************************)
EXTENDS SchemaReflect

\* A struct at one level of embedding; broken: reached through a pointer to
\* an unexported struct; omitted: through a pointer.
Reached(s, broken, omitted) == [s |-> s, broken |-> broken, omitted |-> omitted]

Considered(s) == SelectSeq(Structs[s], LAMBDA f : ~shouldSkipSchemaField(f))

Collected(seq, Op(_)) == FlattenSeq([i \in DOMAIN seq |-> Op(seq[i])])

Embedded(r) ==
    Collected(SelectSeq(Considered(r.s), Flattened), LAMBDA f :
        <<Reached(indirectSchemaType(f.type).name,
                  r.broken \/ (~f.exported /\ isPointerType(f.type)),
                  r.omitted \/ isPointerType(f.type))>>)

Twice(level, s) == Cardinality({i \in DOMAIN level : level[i].s = s}) > 1

Key(f, r, depth) ==
    [name |-> IF f.tag = "" THEN f.name ELSE f.tag,
     type |-> f.type, quoted |-> f.quoted, broken |-> r.broken,
     omitted |-> r.omitted \/ f.omitEmpty \/ isPointerType(f.type),
     rank |-> 2 * depth + (IF f.tag = "" THEN 1 ELSE 0)]

\* The fields of one struct: counted twice if the struct is there twice.
Recorded(r, depth, level) ==
    LET keys == Collected(Considered(r.s), LAMBDA f :
                    IF Flattened(f) THEN <<>> ELSE <<Key(f, r, depth)>>)
    IN  IF Twice(level, r.s) THEN keys \o keys ELSE keys

Structures(level) == {level[i].s : i \in DOMAIN level}

\* A struct is looked at once, the first time it is met.
FirstMet(level, visited) ==
    FoldLeft(LAMBDA met, r : IF r.s \in visited \cup Structures(met) THEN met ELSE Append(met, r),
             <<>>, level)

RECURSIVE FieldsFrom(_, _, _, _)
FieldsFrom(new, level, depth, visited) ==
    LET next == Collected(new, Embedded)
        seen == visited \cup Structures(new)
    IN  IF new = <<>> THEN <<>>
        ELSE Collected(new, LAMBDA r : Recorded(r, depth, level))
             \o FieldsFrom(FirstMet(next, seen), next, depth + 1, seen)

\* The dominant field of each key: none is as shallow and as tagged.
DominantFields(fields) ==
    LET dominant == {f \in fields : \A g \in fields \ {f} : g[2].name = f[2].name => f[2].rank < g[2].rank}
    IN  [n \in {f[2].name : f \in dominant} |-> (CHOOSE f \in dominant : f[2].name = n)[2]]

Numbered(fields) == {<<i, fields[i]>> : i \in DOMAIN fields}
Root(s) == <<Reached(s, FALSE, FALSE)>>

JsonFields(s) == DominantFields(Numbered(FieldsFrom(Root(s), Root(s), 0, {})))

JsonFieldsOf == [s \in DOMAIN Structs |-> JsonFields(s)]

\* The texts that are base64 of something; an integer says whether it fits.
Base64 == {"", "YQ=="}

\* Why v does not decode into t, or loses a key when it does.
RECURSIVE ProblemsWith(_, _, _)
ProblemsWith(keysOf, t, v) ==
    LET base == indirectSchemaType(t)
        Mismatch(type) == IF v.type = type THEN {} ELSE {"type"}
        Entry(n) ==
            LET f == keysOf[base.name][n]
            IN  CASE f.broken -> {"pointer to unexported"}
                  [] f.quoted /\ ~f.broken ->
                        IF v.fields[n].type \in {"string", "null"} THEN {} ELSE {"string option"}
                  [] OTHER -> ProblemsWith(keysOf, f.type, v.fields[n])
    IN  CASE v.type = "null" -> {}
          [] base.kind = "struct" /\ base.name \in Unmarshalers /\ v.type # "null" ->
                IF v.type = "string" THEN {} ELSE {"own decoder"}
          [] base.kind = "struct" /\ base.name \notin Unmarshalers /\ v.type = "object" ->
                UNION {IF n \in DOMAIN keysOf[base.name] THEN Entry(n) ELSE {"unknown key"} :
                          n \in DOMAIN v.fields}
          [] base.kind = "struct" /\ base.name \notin Unmarshalers /\ v.type \notin {"object", "null"} ->
                {"type"}
          [] base.kind = "list" /\ v.type = "array" ->
                UNION {ProblemsWith(keysOf, base.elem, v.elems[i]) : i \in DOMAIN v.elems}
          [] base.kind = "list" /\ v.type \notin {"array", "null"} -> {"type"}
          [] base.kind = "map" /\ v.type # "null"    -> Mismatch("object")
          [] base.kind = "bytes" /\ v.type # "null"  ->
                IF IsString(v) /\ v.text \notin Base64 THEN {"base64"} ELSE Mismatch("string")
          [] base.kind = "scalar" /\ v.type # "null" ->
                IF base.type = "integer" /\ v.type = "integer" /\ ~v.fits THEN {"range"}
                ELSE Mismatch(base.type)
          [] OTHER -> {}

Problems(t, v) == ProblemsWith(JsonFieldsOf, t, v)

\* A struct embedded twice at one depth that embeds another in its turn:
\* encoding/json then takes the fields of the inner one for unambiguous.
RECURSIVE EmbedsTwice(_, _)
EmbedsTwice(level, visited) ==
    LET new == SelectSeq(level, LAMBDA r : r.s \notin visited)
    IN  /\ new # <<>>
        /\ \/ \E i \in DOMAIN new : Twice(new, new[i].s) /\ Embedded(new[i]) # <<>>
           \/ EmbedsTwice(Collected(new, Embedded), visited \cup Structures(new))

AmbiguousForGo(s) == EmbedsTwice(Root(s), {})
=============================================================================
