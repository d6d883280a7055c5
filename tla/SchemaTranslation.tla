-------------------------- MODULE SchemaTranslation --------------------------
(***************************************************************************)
(* The JSON schema of a response format, as each provider is given it.  A  *)
(* schema has the types it allows (none named: any), whether they were     *)
(* named by a string rather than a list, properties, which of them are     *)
(* required, whether others are allowed, the values it enumerates (none:   *)
(* any value) and the schema of items, as a sequence of at most one.       *)
(***************************************************************************)
EXTENDS Sequences, FiniteSets

Schema(types, props, required) ==
    [types |-> types, single |-> Cardinality(types) = 1, props |-> props,
     required |-> required, extra |-> "unset", enum |-> {}, items |-> <<>>]

\* A type that was named becomes a list with null in it; a schema without a
\* type is left as it is, and so is an enumeration.
makeStrictPropertyNullable(s) ==
    IF s.types = {} THEN s ELSE [s EXCEPT !.types = @ \cup {"null"}, !.single = FALSE]

RECURSIVE StrictOptionalKept(_)
StrictOptionalKept(s) ==
    [s EXCEPT !.props = [n \in DOMAIN @ |-> StrictOptionalKept(@[n])],
              !.required = @ \cup DOMAIN s.props,
              !.extra = IF s.props = <<>> \/ @ # "unset" THEN @ ELSE "forbid",
              !.items = [i \in DOMAIN @ |-> StrictOptionalKept(@[i])]]

\* Strict mode wants every property required: an optional one may be null
\* instead.
RECURSIVE normalizeStrictSchemaNode(_)
normalizeStrictSchemaNode(s) ==
    [s EXCEPT !.props = [n \in DOMAIN @ |->
                            LET prop == normalizeStrictSchemaNode(@[n])
                            IN  IF n \in s.required THEN prop
                                ELSE makeStrictPropertyNullable(prop)],
              !.required = @ \cup DOMAIN s.props,
              !.extra = IF s.props = <<>> \/ @ # "unset" THEN @ ELSE "forbid",
              !.items = [i \in DOMAIN @ |-> normalizeStrictSchemaNode(@[i])]]

normalizeSchemaForStrict(s) == normalizeStrictSchemaNode(s)

\* Type, properties and required are fields of their own, whatever else the
\* schema says goes with them; a type that is a list is not read.
schemaToToolInput(s) ==
    IF s.single THEN s ELSE [s EXCEPT !.types = {"object"}, !.single = TRUE]

IsString(v) == v.type = "string"

\* Only a type named by a string is read, and of the other keywords only
\* properties, required, items and the strings of enumerations.
RECURSIVE mapToGenaiSchema(_)
mapToGenaiSchema(s) ==
    [s EXCEPT !.types = IF s.single THEN @ ELSE {},
              !.props = [n \in DOMAIN @ |-> mapToGenaiSchema(@[n])],
              !.extra = "unset",
              !.enum = {v \in @ : IsString(v)},
              !.items = [i \in DOMAIN @ |-> mapToGenaiSchema(@[i])]]
-----------------------------------------------------------------------------
(***************************************************************************)
(* What a schema means.  A value has a type; a string its text, an object  *)
(* its fields, an array its elements.                                      *)
(***************************************************************************)
Optional(s) == DOMAIN s.props \ s.required

RECURSIVE Valid(_, _)
Valid(s, v) ==
    /\ s.types = {} \/ v.type \in s.types
    /\ s.enum = {} \/ v \in s.enum
    /\ v.type = "object" =>
          /\ s.required \subseteq DOMAIN v.fields
          /\ s.extra = "forbid" => DOMAIN v.fields \subseteq DOMAIN s.props
          /\ \A n \in DOMAIN v.fields \cap DOMAIN s.props : Valid(s.props[n], v.fields[n])
    /\ v.type = "array" =>
          \A i \in DOMAIN v.elems, k \in DOMAIN s.items : Valid(s.items[k], v.elems[i])

Null == [type |-> "null"]

\* v with a null for every optional property it leaves out, and the reverse:
\* what strict mode asks for, and what its reader takes it for.
RECURSIVE NullsForAbsent(_, _)
NullsForAbsent(s, v) ==
    CASE v.type = "object" ->
            [v EXCEPT !.fields =
                [n \in DOMAIN @ \cup DOMAIN s.props |->
                    IF n \notin DOMAIN @ THEN Null
                    ELSE IF n \in DOMAIN s.props THEN NullsForAbsent(s.props[n], @[n]) ELSE @[n]]]
      [] v.type = "array" /\ s.items # <<>> ->
            [v EXCEPT !.elems = [i \in DOMAIN @ |-> NullsForAbsent(s.items[1], @[i])]]
      [] OTHER -> v

RECURSIVE AbsentForNulls(_, _)
AbsentForNulls(s, v) ==
    CASE v.type = "object" ->
            [v EXCEPT !.fields =
                [n \in {m \in DOMAIN @ : m \notin Optional(s) \/ @[m] # Null} |->
                    IF n \in DOMAIN s.props THEN AbsentForNulls(s.props[n], @[n]) ELSE @[n]]]
      [] v.type = "array" /\ s.items # <<>> ->
            [v EXCEPT !.elems = [i \in DOMAIN @ |-> AbsentForNulls(s.items[1], @[i])]]
      [] OTHER -> v

\* The schema and the schemas in it, each with what v holds there.
RECURSIVE Inside(_, _)
Inside(s, v) ==
    {<<s, v>>} \cup
    (IF v.type = "object"
     THEN UNION {Inside(s.props[n], v.fields[n]) : n \in DOMAIN v.fields \cap DOMAIN s.props}
     ELSE {}) \cup
    (IF v.type = "array" /\ s.items # <<>>
     THEN UNION {Inside(s.items[1], v.elems[i]) : i \in DOMAIN v.elems} ELSE {})

Objects(s, v) == {o \in Inside(s, v) : o[2].type = "object"}

\* v has nothing the schema leaves unsaid.
Described(s, v) ==
    \A o \in Objects(s, v) :
       o[1].extra = "unset" /\ o[1].props # <<>> => DOMAIN o[2].fields \subseteq DOMAIN o[1].props

\* v leaves out a property that, present, has to be one of a list without null.
OmitsAnEnumeration(s, v) ==
    \E o \in Objects(s, v) : \E n \in Optional(o[1]) :
       n \notin DOMAIN o[2].fields /\ o[1].props[n].enum # {}
       /\ Null \notin o[1].props[n].enum

\* v has something other than a string, from a list with strings in it.
PicksNoString(s, v) ==
    \E i \in Inside(s, v) : ~IsString(i[2]) /\ \E e \in i[1].enum : IsString(e)
=============================================================================
