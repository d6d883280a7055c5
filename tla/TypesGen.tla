------------------------------ MODULE TypesGen ------------------------------
(***************************************************************************)
(* prompty-gen: the Go types made of the schema of a manifest.  Two walks  *)
(* over the schema have to agree: one emits a struct for every object, the *)
(* other says by name which struct a field has.                            *)
(*                                                                         *)
(* The tags for the validator, the method Render, the types of additional  *)
(* properties and the order of the declarations are left out.              *)
(***************************************************************************)
EXTENDS SchemaReflect

CONSTANT Pascal     \* the Go name that pascal gives each property

\* Only a type named by a string is read.
TypeKeyword(s) == IF s.single THEN CHOOSE t \in s.types : TRUE ELSE ""

Primitive == {"string", "integer", "number", "boolean"}

\* Paths that spell the same have the same name.
typeName(root, path) == <<root, FoldLeft(LAMBDA name, part : name \o part, "", path)>>

\* The Go type of a schema; path names the struct if it needs one.
RECURSIVE mapSchemaToGo(_, _, _)
mapSchemaToGo(s, root, path) ==
    LET typ  == TypeKeyword(s)
        elem == IF s.items = <<>> THEN Interface
                ELSE mapSchemaToGo(s.items[1], root, Append(path, "Item"))
    IN  CASE typ \in Primitive                   -> Scalar(typ)
          [] typ = "array"                       -> ListOf(elem)
          [] typ = "object" /\ s.props = <<>>    -> GoMap
          [] typ = "object" /\ s.props # <<>>    -> Struct(typeName(root, path))
          [] OTHER                               -> Interface

TypeSpec(path, s) == [path |-> path, schema |-> s]

RECURSIVE CollectWithoutItem(_, _)
CollectWithoutItem(s, path) ==
    CASE TypeKeyword(s) = "array"  ->
            IF s.items = <<>> THEN {} ELSE CollectWithoutItem(s.items[1], path)
      [] TypeKeyword(s) = "object" ->
            {TypeSpec(path, s)} \cup
            UNION {CollectWithoutItem(s.props[n], Append(path, Pascal[n])) : n \in DOMAIN s.props}
      [] OTHER -> {}

\* The structs to emit.  That two paths spell one name is not noticed: the
\* guard compares the spelled paths.
RECURSIVE collectTypeSpecs(_, _)
collectTypeSpecs(s, path) ==
    CASE TypeKeyword(s) = "array"  ->
            IF s.items = <<>> THEN {} ELSE collectTypeSpecs(s.items[1], Append(path, "Item"))
      [] TypeKeyword(s) = "object" ->
            {TypeSpec(path, s)} \cup
            UNION {collectTypeSpecs(s.props[n], Append(path, Pascal[n])) : n \in DOMAIN s.props}
      [] OTHER -> {}

\* Optional is a pointer, unless nil says it already; so is a boolean that is
\* required, for the validator to tell false from nothing.
ByPointer(prop, optional) ==
    LET typ == TypeKeyword(prop)
    IN  IF optional THEN typ \in Primitive \/ (typ = "object" /\ prop.props # <<>>)
                    ELSE typ = "boolean"

emitStruct(root, spec) ==
    LET names == SetToSeq(DOMAIN spec.schema.props)
    IN  [i \in DOMAIN names |->
            LET prop     == spec.schema.props[names[i]]
                optional == names[i] \notin spec.schema.required
                type     == mapSchemaToGo(prop, root, Append(spec.path, Pascal[names[i]]))
            IN  [Field(Pascal[names[i]], IF ByPointer(prop, optional) THEN Pointer(type) ELSE type)
                    EXCEPT !.tag = names[i], !.omitEmpty = optional]]

\* Whether a response format gets a type at all.
isStructSchema(s) == TypeKeyword(s) = "object" /\ s.props # <<>>

OutputSpecs(s) == IF isStructSchema(s) THEN collectTypeSpecs(s, <<"Output">>) ELSE {}

\* The structs of the generated file by name; the type of the answer.
GenerateTypes(root, s) ==
    LET specs == OutputSpecs(s)
    IN  [n \in {typeName(root, t.path) : t \in specs} |->
            emitStruct(root, CHOOSE t \in specs : typeName(root, t.path) = n)]

OutputType(root) == Struct(typeName(root, <<"Output">>))

\* The file compiles only if no name is declared twice.
DeclaredOnce(s) ==
    LET specs == OutputSpecs(s)
    IN  /\ \A t, u \in specs : typeName(0, t.path) = typeName(0, u.path) => t = u
        /\ \A t \in specs : \A m, n \in DOMAIN t.schema.props : Pascal[m] = Pascal[n] => m = n
=============================================================================
