CONSTANTS
    Plans <- MCPlans
    Strings <- MCStrings
    TypeSchema <- SchemaOfType
    StrictSchema <- normalizeSchemaForStrict
    ToolInputSchema <- schemaToToolInput
    GenaiSchema <- mapToGenaiSchema
    Structs <- MCStructs
    Pascal <- MCPascal
    Unmarshalers <- MCUnmarshalers
    maxSchemaDepth = 6
    JsonValues <- MCJsonValues
    Attempts = 3
    DisturbedAttempts = 2
    Scribbles = 1
SPECIFICATION Spec
INVARIANTS
    WorkExecIsHistory
    CorrectionsReachTheModel
    CallsAreAnswered
    AnswerIsShownBack
    TranslationKeepsContent
    PortableIsAccepted
    SchemasMeanTheSame
    SchemaFitsTheType
    GeneratedTypeFits
CHECK_DEADLOCK FALSE
