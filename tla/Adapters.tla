------------------------------ MODULE Adapters ------------------------------
(***************************************************************************)
(* The provider adapters: Translate turns an execution into the request of *)
(* a provider, ParseResponse its answer into content parts.  The first     *)
(* part or message that is refused refuses the whole.  A request is what   *)
(* the provider reads: a part whose field the adapter drops has it         *)
(* blanked.                                                                *)
(*                                                                         *)
(* Parts are value types, as the parsers and the template make them.       *)
(* Model options, names and descriptions are copied and left out.          *)
(***************************************************************************)
EXTENDS Messages, Results

CONSTANTS   \* a schema, as OpenAI, Anthropic and Gemini are given it
    StrictSchema(_),
    ToolInputSchema(_),
    GenaiSchema(_)

Providers == {"openai", "anthropic", "gemini", "ollama"}

SystemRoles == {"system", "developer"}

Unsupported == Fail("ErrUnsupportedContentType")

\* One message of the request, made of the blocks built, if all were.
Wrap(role, r) == IF r.err = "none" THEN Ok(<<[role |-> role, content |-> r.out]>>) ELSE r

Plain(part)     == [part EXCEPT !.cache = "unset"]
Joined(parts)   == IF TextFromParts(parts) = <<>> THEN <<>> ELSE <<Text(TextFromParts(parts))>>
HasMedia(parts) == Kind(parts, "media") # <<>>

\* A tool message is worth what results it has; other parts are passed over.
ToolResults(m, Op(_)) ==
    LET results == Kind(m.content, "result")
    IN  IF results = <<>> THEN Unsupported ELSE Each(results, Op)

-----------------------------------------------------------------------------
(***************************************************************************)
(* Anthropic                                                               *)
(***************************************************************************)

resolveCacheControl(messageCache, partCache) ==
    IF partCache # "unset" THEN partCache ELSE messageCache

applyCacheControl(block, cache) ==
    IF cache = "other" THEN Fail("cache_control.type") ELSE Ok(<<[block EXCEPT !.cache = cache]>>)

mediaBlockFromData == {"image", "pdf", "plain"}
mediaBlockFromURL  == {"image", "pdf"}

mediaBlock(part, cache) ==
    IF \/ part.source = "data" /\ part.mime \in mediaBlockFromData
       \/ part.source = "url" /\ part.mime \in mediaBlockFromURL
    THEN applyCacheControl(part, cache) ELSE Unsupported

\* A part of a message is turned into blocks, at most one.
systemBlock(p, inheritedCache) ==
    IF p.kind = "text" THEN applyCacheControl(p, resolveCacheControl(inheritedCache, p.cache))
    ELSE Unsupported

contentBlock(p, inheritedCache) ==
    LET cache == resolveCacheControl(inheritedCache, p.cache)
    IN  CASE p.kind = "text"  -> applyCacheControl(p, cache)
          [] p.kind = "media" -> mediaBlock(p, cache)
          [] OTHER            -> Unsupported

assistantBlock(p, inheritedCache) ==
    LET cache == resolveCacheControl(inheritedCache, p.cache)
    IN  CASE p.kind = "text"                           -> applyCacheControl(p, cache)
          [] p.kind = "call" /\ p.args # "malformed"   -> applyCacheControl(p, cache)
          [] p.kind = "call" /\ p.args = "malformed"   -> Fail("ErrMalformedArgs")
          [] OTHER                                     -> Unsupported

\* Name is not sent.
toolResultBlock(p, inheritedCache) ==
    LET cache   == resolveCacheControl(inheritedCache, p.cache)
        content == Each(p.content, LAMBDA c : contentBlock(c, cache))
    IN  IF content.err # "none" THEN content
        ELSE applyCacheControl([p EXCEPT !.content = content.out, !.name = ""], cache)

systemMessageBlocks(m)  == Each(m.content, LAMBDA p : systemBlock(p, m.cache))
anthropicUserMessage(m) == Wrap("user", Each(m.content, LAMBDA p : contentBlock(p, m.cache)))
anthropicAssistantMessage(m) ==
    Wrap("assistant", Each(m.content, LAMBDA p : assistantBlock(p, m.cache)))

\* All results of the message in one message of the user.
toolResultMessage(m) ==
    Wrap("user", ToolResults(m, LAMBDA p : toolResultBlock(p, m.cache)))

anthropicMessage(m) ==
    CASE m.role \in SystemRoles -> Wrap("system", systemMessageBlocks(m))
      [] m.role = "user"        -> anthropicUserMessage(m)
      [] m.role = "assistant"   -> anthropicAssistantMessage(m)
      [] m.role = "tool"        -> toolResultMessage(m)
      [] OTHER                  -> Fail("ErrUnsupportedRole")

-----------------------------------------------------------------------------
(***************************************************************************)
(* OpenAI                                                                  *)
(***************************************************************************)

\* All but images and audio is a file, which is sent as data and nothing else.
OfItsKind(part) == [Plain(part) EXCEPT !.mime = IF @ \in {"image", "audio"} THEN @ ELSE "blank"]

\* Images may stay where they are; a file or audio has to be inline.
mediaPartToOpenAI(part) ==
    CASE part.source = "nothing"                          -> Unsupported
      [] part.source = "url" /\ part.mime # "image"       -> Fail("ErrMediaNotResolved")
      [] OTHER                                            -> Ok(<<OfItsKind(part)>>)

openaiUserPart(p) ==
    CASE p.kind = "text"  -> Ok(<<Plain(p)>>)
      [] p.kind = "media" -> mediaPartToOpenAI(p)
      [] OTHER            -> Unsupported

openaiUserMessage(m) ==
    LET parts == Each(m.content, openaiUserPart)
    IN  Wrap("user", IF parts.err = "none" /\ ~HasMedia(m.content)
                     THEN Ok(Joined(m.content)) ELSE parts)

openaiAssistantCall(p) ==
    CASE p.kind = "text"                         -> Ok(<<>>)
      [] p.kind = "call" /\ p.args # "malformed" -> Ok(<<Plain(p)>>)
      [] p.kind = "call" /\ p.args = "malformed" -> Fail("ErrMalformedArgs")
      [] OTHER                                   -> Unsupported

\* The text goes before the calls, wherever it stood.
openaiAssistantMessage(m) ==
    LET calls == Each(m.content, openaiAssistantCall)
    IN  Wrap("assistant",
             IF calls.err = "none" THEN Ok(Joined(m.content) \o calls.out) ELSE calls)

\* A result as a text: neither its media nor that it was an error can be sent.
TextResult(p) ==
    IF HasMedia(p.content) THEN Unsupported
    ELSE Ok(<<[Plain(p) EXCEPT !.content = Joined(p.content), !.isError = FALSE]>>)

\* Each result is a message of its own, which says whose it is by the id.
toolResultMessages(m) ==
    LET results == ToolResults(m, TextResult)
    IN  IF results.err # "none" THEN results
        ELSE Ok([i \in DOMAIN results.out |->
                    [role |-> "tool", content |-> <<[results.out[i] EXCEPT !.name = ""]>>]])

messageToUnions(m) ==
    CASE m.role \in SystemRoles -> Wrap("system", Ok(Joined(m.content)))
      [] m.role = "user"        -> openaiUserMessage(m)
      [] m.role = "assistant"   -> openaiAssistantMessage(m)
      [] m.role = "tool"        -> toolResultMessages(m)
      [] OTHER                  -> Fail("ErrUnsupportedRole")

-----------------------------------------------------------------------------
(***************************************************************************)
(* Gemini                                                                  *)
(***************************************************************************)

OrEmptyText(blocks) == IF blocks = <<>> THEN <<Text(<<>>)>> ELSE blocks

Content(role, r) == Wrap(role, [r EXCEPT !.out = OrEmptyText(@)])

\* MediaType is not looked at: what has no MIME type is octets.
WithMime(part) ==
    [Plain(part) EXCEPT !.mime = IF @ \in {"blank", "blank image"} THEN "other" ELSE @]

geminiUserPart(p) ==
    CASE p.kind = "text"                            -> Ok(<<Plain(p)>>)
      [] p.kind = "media" /\ p.source # "nothing"   -> Ok(<<WithMime(p)>>)
      [] OTHER                                      -> Unsupported

userContent(m) == Content("user", Each(m.content, geminiUserPart))

\* Arguments are decoded into a map; a call is known by its name only.
FunctionCall(p) == [Plain(p) EXCEPT !.id = NoId, !.args = IF @ = "" THEN "{}" ELSE @]

geminiAssistantPartArgsRequired(p) ==
    CASE p.kind = "text"                                  -> Ok(<<Plain(p)>>)
      [] p.kind = "call" /\ p.args \in {"{}", "object"}    -> Ok(<<FunctionCall(p)>>)
      [] p.kind = "call" /\ p.args \notin {"{}", "object"} -> Fail("ErrMalformedArgs")
      [] OTHER                                            -> Unsupported

geminiAssistantPart(p) ==
    CASE p.kind = "text"                                      -> Ok(<<Plain(p)>>)
      [] p.kind = "call" /\ p.args \in {"", "{}", "object"}   -> Ok(<<FunctionCall(p)>>)
      [] p.kind = "call" /\ p.args \in {"array", "malformed"} -> Fail("ErrMalformedArgs")
      [] OTHER                                                -> Unsupported

assistantContent(m) == Content("assistant", Each(m.content, geminiAssistantPart))

FunctionResponse(p) == Each(TextResult(p).out, LAMBDA r : Ok(<<[r EXCEPT !.id = NoId]>>))

geminiToolResult(p) == IF HasMedia(p.content) THEN Unsupported ELSE FunctionResponse(p)

toolResultContent(m) == Wrap("user", ToolResults(m, geminiToolResult))

geminiMessage(m) ==
    CASE m.role \in SystemRoles -> Wrap("system", Ok(Joined(m.content)))
      [] m.role = "user"        -> userContent(m)
      [] m.role = "assistant"   -> assistantContent(m)
      [] m.role = "tool"        -> toolResultContent(m)
      [] OTHER                  -> Fail("ErrUnsupportedRole")

-----------------------------------------------------------------------------
(***************************************************************************)
(* Ollama                                                                  *)
(***************************************************************************)

isOllamaImageMediaPart(p) == p.mime \in {"image", "blank image"}

\* An image is its data: no field has a type.
ImageData(part) == [Plain(part) EXCEPT !.mime = "image"]

ollamaImage(p) ==
    CASE ~isOllamaImageMediaPart(p) -> Unsupported
      [] p.source = "url" /\ isOllamaImageMediaPart(p)     -> Fail("ErrMediaNotResolved")
      [] p.source = "nothing" /\ isOllamaImageMediaPart(p) -> Unsupported
      [] OTHER                      -> Ok(<<ImageData(p)>>)

ollamaToolCall(p) ==
    IF p.args \in {"array", "malformed"} THEN Fail("ErrMalformedArgs") ELSE Ok(<<Plain(p)>>)

\* Whatever is not looked for is passed over.
ollamaPassingOver(role, m, blocks) ==
    Wrap(role, IF blocks.err = "none" THEN Ok(Joined(m.content) \o blocks.out) ELSE blocks)

translateMessage(m) ==
    IF m.role # "user" /\ m.role \in Roles /\ HasMedia(m.content) THEN Unsupported
    ELSE CASE m.role \in SystemRoles -> ollamaPassingOver("system", m, Ok(<<>>))
           [] m.role = "user"      ->
                 ollamaPassingOver("user", m, Each(Kind(m.content, "media"), ollamaImage))
           [] m.role = "assistant" ->
                 ollamaPassingOver("assistant", m, Each(Kind(m.content, "call"), ollamaToolCall))
           [] m.role = "tool"      -> toolResultMessages(m)
           [] OTHER                -> Fail("ErrUnsupportedRole")

-----------------------------------------------------------------------------
(***************************************************************************)
(* Requests.  An execution has messages, tools (by name) and a format: the *)
(* schema of its ResponseFormat, as a sequence of at most one.             *)
(***************************************************************************)

outputFormatToolName == "output_format"
separator == <<"separator", 0>>

NotSystem(messages) == Where(messages, LAMBDA m : m.role # "system")
SystemContents(messages) ==
    LET found == Where(messages, LAMBDA m : m.role = "system")
    IN  [i \in DOMAIN found |-> found[i].content]

Refused(why) ==
    [err |-> why, system |-> <<>>, messages |-> <<>>, tools |-> <<>>, schema |-> <<>>]

Request(r, system, messages, tools, schema) ==
    IF r.err # "none" THEN Refused(r.err)
    ELSE [err |-> "none", system |-> system, messages |-> messages,
          tools |-> tools, schema |-> schema]

Map(Op(_), format) == [i \in DOMAIN format |-> Op(format[i])]

\* System blocks are taken out of the conversation; a format becomes a tool
\* that the model is forced to call.
anthropicTranslate(exec) ==
    LET r == Each(exec.messages, anthropicMessage)
    IN  IF exec.format # <<>> /\ exec.tools # <<>> THEN Refused("ErrConflictingDirectives")
        ELSE Request(r, FlattenSeq(SystemContents(r.out)), NotSystem(r.out),
                     [i \in DOMAIN exec.format |-> outputFormatToolName] \o exec.tools,
                     Map(ToolInputSchema, exec.format))

openaiTranslate(exec) ==
    LET r == Each(exec.messages, messageToUnions)
    IN  Request(r, <<>>, r.out, exec.tools, Map(StrictSchema, exec.format))

SystemInstructionLast(contents) == IF contents = <<>> THEN <<>> ELSE Joined(Last(contents))

\* System texts are joined into one instruction.
SystemInstruction(contents) ==
    Joined(FlattenSeq([i \in DOMAIN contents |->
        (IF i = 1 THEN <<>> ELSE <<Text(<<separator>>)>>) \o contents[i]]))

geminiTranslate(exec) ==
    LET r == Each(exec.messages, geminiMessage)
    IN  Request(r, SystemInstruction(SystemContents(r.out)), NotSystem(r.out), exec.tools,
                Map(GenaiSchema, exec.format))

ollamaTranslate(exec) ==
    LET r == Each(exec.messages, translateMessage)
    IN  IF exec.format # <<>> THEN Refused("ErrStructuredOutputNotSupported")
        ELSE Request(r, <<>>, r.out, exec.tools, <<>>)

Translate(provider, exec) ==
    CASE provider = "openai"    -> openaiTranslate(exec)
      [] provider = "anthropic" -> anthropicTranslate(exec)
      [] provider = "gemini"    -> geminiTranslate(exec)
      [] provider = "ollama"    -> ollamaTranslate(exec)

-----------------------------------------------------------------------------
(***************************************************************************)
(* Answers.  What a provider sends is a sequence of texts and calls (and   *)
(* other blocks, which nobody reads).                                      *)
(***************************************************************************)

Response(content) == IF content = <<>> THEN Fail("ErrEmptyResponse") ELSE Ok(content)

OrEmptyObject(call) == [call EXCEPT !.args = IF @ = "" THEN "{}" ELSE @]
WithArgs(calls)     == [i \in DOMAIN calls |-> OrEmptyObject(calls[i])]

anthropicParseResponseAll(blocks) ==
    Response(FlattenSeq([i \in DOMAIN blocks |->
        IF blocks[i].kind = "text" THEN Joined(<<blocks[i]>>) ELSE <<blocks[i]>>]))

\* The forced tool's input is the text the consumer parses.
anthropicParseResponse(blocks) ==
    Response(FlattenSeq([i \in DOMAIN blocks |->
        LET b == blocks[i]
        IN  CASE b.kind = "text" -> Joined(<<b>>)
              [] b.kind = "call" /\ b.name = outputFormatToolName ->
                    <<Text(<< <<OrEmptyObject(b).args, 0>> >>)>>
              [] b.kind = "call" /\ b.name # outputFormatToolName -> <<OrEmptyObject(b)>>
              [] OTHER -> <<>>]))

openaiParseResponseEither(blocks) ==
    Response(IF Joined(blocks) # <<>> THEN Joined(blocks) ELSE Kind(blocks, "call"))

\* The message of the first choice: its content, then its function calls.
openaiParseResponse(blocks) == Response(Joined(blocks) \o Kind(blocks, "call"))

geminiParseResponse(blocks) == Response(Joined(blocks) \o WithArgs(Kind(blocks, "call")))

ollamaParseResponse(blocks) == Response(Joined(blocks) \o WithArgs(Kind(blocks, "call")))

ParseResponse(provider, blocks) ==
    CASE provider = "openai"    -> openaiParseResponse(blocks)
      [] provider = "anthropic" -> anthropicParseResponse(blocks)
      [] provider = "gemini"    -> geminiParseResponse(blocks)
      [] provider = "ollama"    -> ollamaParseResponse(blocks)
=============================================================================
