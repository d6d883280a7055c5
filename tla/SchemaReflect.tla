---------------------------- MODULE SchemaReflect ----------------------------
(***************************************************************************)
(* The JSON schema of a Go type, made by reflection: the schema a          *)
(* structured execution asks for when its prompt has none.  A type is a    *)
(* record with its kind; structs have names, for they may refer to each    *)
(* other.                                                                  *)
(***************************************************************************)
EXTENDS Results, SchemaTranslation, FiniteSetsExt

CONSTANTS
    Structs,        \* the fields of each struct
    Unmarshalers,   \* the structs that decode themselves, from a string
    maxSchemaDepth  \* 32

\* A struct field: its name; whether it is embedded; its type; and of its
\* json tag the name, if it has one, and the options.
Field(name, type) ==
    [name |-> name, anonymous |-> FALSE, exported |-> TRUE, type |-> type,
     tag |-> "", ignore |-> FALSE, omitEmpty |-> FALSE, quoted |-> FALSE]

Struct(s)     == [kind |-> "struct", name |-> s]
Pointer(t)    == [kind |-> "pointer", elem |-> t]
ListOf(t)     == [kind |-> "list", elem |-> t]      \* a slice or an array
Scalar(type)  == [kind |-> "scalar", type |-> type]
Bytes         == [kind |-> "bytes"]
Provider(s)   == [kind |-> "provider", schema |-> s] \* a SchemaProvider
GoMap         == [kind |-> "map"]
Interface     == [kind |-> "any"]

isPointerType(t) == t.kind = "pointer"

RECURSIVE indirectSchemaType(_)
indirectSchemaType(t) == IF isPointerType(t) THEN indirectSchemaType(t.elem) ELSE t

IsStruct(t) == indirectSchemaType(t).kind = "struct"

terminalObjectSchema == [Schema({"object"}, <<>>, {}) EXCEPT !.extra = "forbid"]

shouldSkipSchemaField(f) ==
    \/ f.ignore
    \/ ~f.exported /\ ~(f.anonymous /\ IsStruct(f.type))

ResolveFirst(group) == <<Head(group)>>

\* Of the fields of one name: the shallowest, then the tagged ones, if there
\* is only one.
resolveSchemaFieldGroup(group) ==
    LET minDepth == Min({group[i].depth : i \in DOMAIN group})
        shallow  == SelectSeq(group, LAMBDA c : c.depth = minDepth)
        tagged   == SelectSeq(shallow, LAMBDA c : c.tagged)
        filtered == IF tagged # <<>> THEN tagged ELSE shallow
    IN  IF Len(filtered) = 1 THEN filtered ELSE <<>>

Names(candidates) == {candidates[i].name : i \in DOMAIN candidates}

resolveSchemaFieldCandidates(candidates) ==
    LET winner(n) == resolveSchemaFieldGroup(SelectSeq(candidates, LAMBDA c : c.name = n))
        found     == {n \in Names(candidates) : winner(n) # <<>>}
    IN  [n \in found |-> Head(winner(n))]

Flattened(f) == f.anonymous /\ f.tag = "" /\ IsStruct(f.type)

\* active: the structs being built, around this one.  A struct met inside
\* itself ends the schema: an empty object, or, embedded, nothing.
RECURSIVE schemaForType(_, _, _), schemaForStructType(_, _, _), collectStructFields(_, _, _, _)

schemaForType(t, depth, active) ==
    LET base  == indirectSchemaType(t)
        items == schemaForType(base.elem, depth + 1, active)
    IN  CASE base.kind = "provider" -> Ok(base.schema)
          [] base.kind = "struct"   -> schemaForStructType(base.name, depth, active)
          [] base.kind = "bytes"    -> Ok(Schema({"string"}, <<>>, {}))
          [] base.kind = "scalar"   -> Ok(Schema({base.type}, <<>>, {}))
          [] base.kind = "list"     ->
                IF items.err # "none" THEN items
                ELSE Ok([Schema({"array"}, <<>>, {}) EXCEPT !.items = <<items.out>>])
          [] OTHER -> Fail("unsupported type")

schemaForStructType(s, depth, active) ==
    LET r      == collectStructFields(s, depth, FALSE, active \cup {s})
        fields == resolveSchemaFieldCandidates(r.out)
    IN  CASE depth >= maxSchemaDepth \/ s \in active -> Ok(terminalObjectSchema)
          [] ~(depth >= maxSchemaDepth \/ s \in active) /\ r.err # "none" -> r
          [] OTHER ->
                Ok([terminalObjectSchema EXCEPT
                      !.props = [n \in DOMAIN fields |-> fields[n].schema],
                      !.required = {n \in DOMAIN fields : ~fields[n].optional}])

collectStructFields(s, depth, inheritedOptional, active) ==
    Each(Structs[s], LAMBDA f :
        LET base     == indirectSchemaType(f.type)
            optional == inheritedOptional \/ isPointerType(f.type)
            schema   == schemaForType(f.type, depth + 1, active)
        IN  IF shouldSkipSchemaField(f) THEN Ok(<<>>)
            ELSE IF Flattened(f)
            THEN IF depth + 1 >= maxSchemaDepth \/ base.name \in active THEN Ok(<<>>)
                 ELSE collectStructFields(base.name, depth + 1, optional, active \cup {base.name})
            ELSE IF schema.err # "none" THEN schema
            ELSE Ok(<<[name |-> IF f.tag = "" THEN f.name ELSE f.tag,
                       schema |-> schema.out, optional |-> optional \/ f.omitEmpty,
                       tagged |-> f.tag # "", depth |-> depth]>>))

schemaForStructuredType(t) == schemaForType(t, 0, {})
=============================================================================
