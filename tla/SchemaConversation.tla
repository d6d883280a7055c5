--------------------------- MODULE SchemaConversation ---------------------------
(***************************************************************************)
(* The schemas of a conversation: what the provider is told to answer, by  *)
(* the prompt or by reflection on a Go type, what that means in the form   *)
(* its adapter gives it, and what encoding/json makes of the answer.       *)
(***************************************************************************)
EXTENDS Conversation, GoJson, TypesGen

CONSTANT JsonValues     \* values that a model may answer with

\* The schemas of the types of all plans; that of a generated type only if
\* there is one.
Compiles(p) == p.format = <<>> \/ DeclaredOnce(p.format[1])
SchemaOf    == [t \in {p.type : p \in {q \in Plans : Compiles(q)}} |-> schemaForStructuredType(t)]
SchemaOfType(t) == SchemaOf[t]

-----------------------------------------------------------------------------
(***************************************************************************)
(* The schema a provider is given means what the prompt's schema means.    *)
(* OpenAI's strict form, read with null for a property left out, accepts   *)
(* nothing else, and can express every described answer but one that       *)
(* leaves out an optional enumeration without null, which strict mode      *)
(* cannot say.  Anthropic's is the same schema.  Gemini's is a looser one, *)
(* but for lists of strings and other values: it has the strings only.     *)
(***************************************************************************)
SchemasMeanTheSame ==
    InFlight => \A k \in DOMAIN Requested.format, v \in JsonValues :
        LET schema == Requested.format[k]
            given  == Received.schema[k]
        IN  CASE provider = "openai" ->
                    /\ Valid(given, v) => Valid(schema, AbsentForNulls(schema, v))
                    /\ Valid(schema, v) /\ Described(schema, v) =>
                          (Valid(given, NullsForAbsent(schema, v)) <=> ~OmitsAnEnumeration(schema, v))
              [] provider = "anthropic" -> Valid(given, v) <=> Valid(schema, v)
              [] provider = "gemini"    ->
                    Valid(schema, v) => (Valid(given, v) <=> ~PicksNoString(schema, v))

\* Reflection knows nothing of the string option of a json tag, of types that
\* decode themselves, of what encoding/json cannot set, that bytes are base64,
\* or which integers a Go type has.
NotReflected == {"string option", "own decoder", "pointer to unexported", "base64", "range"}

HasKeys(s, keys) ==
    DOMAIN s.props = DOMAIN keys /\ s.required = {n \in DOMAIN keys : ~keys[n].omitted}

KeysAreNamed(s, v) == \A o \in Objects(s, v) : DOMAIN o[2].fields \subseteq DOMAIN o[1].props

(***************************************************************************)
(* An answer that the provider's form of a type's schema accepts decodes   *)
(* into the type without losing a key, if its keys are the schema's        *)
(* (Gemini is not told that others are forbidden).  The schema has all     *)
(* keys that encoding/json reads, required where it always writes them:    *)
(* fields of embedded structs, shadowed, tagged or ambiguous, are chosen   *)
(* as the decoder chooses them.  It does not hold of what reflection knows *)
(* nothing of, nor where the decoder takes a field for unambiguous that Go *)
(* does not.                                                               *)
(***************************************************************************)
SchemaFitsTheType ==
    InFlight /\ FromType /\ IsStruct(plan.type) =>
        LET schema == Requested.format[1]
            s      == indirectSchemaType(plan.type).name
        IN  /\ \A v \in JsonValues :
                  Valid(Received.schema[1], v) /\ KeysAreNamed(schema, v) =>
                      Problems(plan.type, v) \subseteq NotReflected
            /\ s \notin Unmarshalers /\ ~AmbiguousForGo(s) =>
                  HasKeys(schema, JsonFieldsOf[s])

StructsIn(t) == LET RECURSIVE In(_)
                    In(u) == CASE u.kind \in {"pointer", "list"} -> In(u.elem)
                               [] u.kind = "struct"              -> {u.name}
                               [] OTHER                          -> {}
                IN  In(t)

(***************************************************************************)
(* The Go type that prompty-gen makes of a prompt's response format takes  *)
(* its answers: every struct that a field names is emitted, and a valid    *)
(* answer with no keys but the schema's decodes into it and loses nothing. *)
(* The type's own schema, where it has one, says what the prompt's said,   *)
(* but for enumerations and required booleans.  (Where two paths spell one *)
(* name, or two properties one field, what is generated does not compile;  *)
(* integers that no Go type has are left aside.)                           *)
(***************************************************************************)
GeneratedTypeFits ==
    InFlight /\ plan.api = "structured" /\ ~FromType =>
        LET schema    == Requested.format[1]
            root      == plan.type.name[1]
            generated == GenerateTypes(root, schema)
            own       == TypeSchema(plan.type)
            Boolean   == {n \in DOMAIN schema.props : TypeKeyword(schema.props[n]) = "boolean"}
        IN  plan.type = OutputType(root) /\ isStructSchema(schema) /\ DeclaredOnce(schema) =>
                /\ \A n \in DOMAIN generated : \A i \in DOMAIN generated[n] :
                      StructsIn(generated[n][i].type) \subseteq DOMAIN generated
                /\ \A v \in JsonValues : Valid(schema, v) /\ KeysAreNamed(schema, v) =>
                      /\ Problems(plan.type, v) \subseteq {"range"}
                      /\ own.err = "none" => Valid(own.out, v)
                /\ own.err = "none" => /\ DOMAIN own.out.props = DOMAIN schema.props
                                       /\ own.out.required = schema.required \ Boolean
=============================================================================
