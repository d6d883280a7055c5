------------------------------ MODULE Messages ------------------------------
(***************************************************************************)
(* The messages of a conversation: content parts, chat messages and the    *)
(* helpers on them that adapters and executors share.  A text is the       *)
(* sequence of the atoms it was put together from, so that concatenation   *)
(* can be followed; arguments of a tool call are known by what a JSON      *)
(* decoder makes of them.                                                  *)
(***************************************************************************)
EXTENDS Integers, Sequences, SequencesExt

CONSTANT Strings    \* names and words

\* "unset" is a nil CacheControl, "other" a type no provider knows.
Caches  == {"unset", "ephemeral", "other"}

\* Empty, an object, valid JSON that is no object, and no JSON at all.
Args    == {"", "{}", "object", "array", "malformed"}

\* image to other are classes of MIME types, other the one with
\* application/octet-stream; a blank one may come with the MediaType "image".
Mimes   == {"image", "pdf", "plain", "audio", "other", "blank", "blank image"}

\* Whether a part holds Data, only a URL, or neither.
Sources == {"data", "url", "nothing"}

Roles   == {"system", "developer", "user", "assistant", "tool"}

\* What the program, the provider and the tools write.
Words == {"id", "answer", "thought", "feedback", "invalid", "not executed", "output"}

ASSUME StringsAssumption ==
    Args \cup Roles \cup Words \cup {"", "search", "output_format"} \subseteq Strings

NoId == <<>>

Text(t)               == [kind |-> "text", text |-> t, cache |-> "unset"]
Media(mime, source)   == [kind |-> "media", mime |-> mime, source |-> source, cache |-> "unset"]
Reasoning(t)          == [kind |-> "reasoning", text |-> t, cache |-> "unset"]
Call(id, name, args)  == [kind |-> "call", id |-> id, name |-> name, args |-> args,
                          cache |-> "unset"]
Result(id, name, content, isError) ==
    [kind |-> "result", id |-> id, name |-> name, content |-> content,
     isError |-> isError, cache |-> "unset"]

Message(role, content) == [role |-> role, content |-> content, cache |-> "unset"]

NewUserMessage(t)                       == Message("user", <<Text(t)>>)
newAssistantMessageWithContent(content) == Message("assistant", content)
newToolMessageWithContent(content)      == Message("tool", content)
newToolResultPart(id, name, t, isError) == Result(id, name, <<Text(t)>>, isError)

\* The types; A is the set of atoms that texts are made of.
Atom == (Strings \X Nat) \cup (Strings \X Nat \X Nat)
Id   == {NoId} \cup (Strings \X Nat \X Nat)

TextPart(A)      == [kind : {"text"}, text : Seq(A), cache : Caches]
MediaPart        == [kind : {"media"}, mime : Mimes, source : Sources, cache : Caches]
ReasoningPart(A) == [kind : {"reasoning"}, text : Seq(A), cache : Caches]
ToolCallPart     == [kind : {"call"}, id : Id, name : Strings, args : Args, cache : Caches]
ToolResultPart(A) ==
    [kind : {"result"}, id : Id, name : Strings, isError : BOOLEAN, cache : Caches,
     content : Seq(TextPart(A) \cup MediaPart \cup ReasoningPart(A))]

ContentPart(A) ==
    TextPart(A) \cup MediaPart \cup ReasoningPart(A) \cup ToolCallPart \cup ToolResultPart(A)
ChatMessage(A) == [role : Strings, content : Seq(ContentPart(A)), cache : Caches]

-----------------------------------------------------------------------------
\* The elements that pass a test, in their order.
Where(seq, Test(_)) ==
    FlattenSeq([i \in DOMAIN seq |-> IF Test(seq[i]) THEN <<seq[i]>> ELSE <<>>])

Kind(parts, k) == Where(parts, LAMBDA p : p.kind = k)

\* Concatenates the texts of text parts and ignores the others.
TextFromParts(parts) ==
    FlattenSeq([i \in 1..Len(Kind(parts, "text")) |-> Kind(parts, "text")[i].text])

\* Only whole responses: a streamed call would have its arguments in ArgsChunk.
toolCallsFromContent(parts) == Kind(parts, "call")

toolValidationResultsOfInvalid(calls, invalid) ==
    LET refused == SetToSortSeq(invalid, LAMBDA i, j : i < j)
    IN  [k \in DOMAIN refused |->
            newToolResultPart(calls[refused[k]].id, calls[refused[k]].name,
                              << <<"invalid", 0>> >>, TRUE)]

\* One result per call of the batch, valid or not: none was executed.
toolValidationResults(calls, invalid) ==
    [i \in DOMAIN calls |->
        newToolResultPart(calls[i].id, calls[i].name,
                          IF i \in invalid THEN << <<"invalid", 0>> >>
                                           ELSE << <<"not executed", 0>> >>, TRUE)]

\* ResolvedMedia: parts that hold only a URL get what the fetcher returned and
\* the type it was served as; what a tool result holds is not looked at.  An
\* empty body is no error, and leaves a part with its URL only.
ResolvedMedia(messages, served, empty) ==
    [m \in DOMAIN messages |->
        [messages[m] EXCEPT !.content =
            [i \in DOMAIN @ |->
                IF @[i].kind = "media" /\ @[i].source = "url"
                THEN [@[i] EXCEPT !.source = IF empty THEN @ ELSE "data", !.mime = served]
                ELSE @[i]]]]
=============================================================================
