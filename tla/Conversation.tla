---------------------------- MODULE Conversation ----------------------------
(***************************************************************************)
(* A conversation with a provider: the executor, the client and an adapter *)
(* put together.  A plan says which execution is made, through which       *)
(* function, and how often its caller tries.  client.Execute translates    *)
(* the execution, asks the provider and parses what it says; the executor  *)
(* or the tool validation adds a correction to the conversation, and the   *)
(* next attempt translates all of it again.                                *)
(*                                                                         *)
(* The provider answers with texts and calls of its choice.  Middleware is *)
(* part of the invoker: it may write on the request, fail the call, or     *)
(* return a correction of its own.                                         *)
(***************************************************************************)
EXTENDS StructuredExecutor, Adapters

CONSTANTS
    Plans,          \* [messages, tools, format, api, type, attempts, scribbles]:
                    \* type is that of a structured answer; the last two are bounds
    TypeSchema(_)   \* the schema made of a type, or why there is none

Apis == {"execute", "structured", "tools"}
ASSUME PlansAssumption ==
    \A p \in Plans :
        /\ p.messages \in Seq(ChatMessage(Native))
        /\ p.api \in Apis /\ p.attempts \in Nat /\ p.scribbles \in Nat

VARIABLES
    provider,
    plan,
    sent,       \* of the last attempt: the execution and its translation, once made
    answers     \* history: what the provider sent in each attempt, if it did

vars == <<execVars, provider, plan, sent, answers>>
clientVars == <<provider, plan>>

Init ==
    /\ provider \in Providers
    /\ plan \in Plans
    /\ StartWith(plan.messages, plan.api = "structured")
    /\ sent = <<>>
    /\ answers = <<>>

-----------------------------------------------------------------------------
NoAnswer == answers' = Append(answers, <<>>)

\* The schema is made of the type if the prompt has none.
FromType == plan.api = "structured" /\ plan.format = <<>>

\* An attempt without a schema ends like one whose context has ended.
StartAttempt ==
    /\ Len(log) < plan.attempts
    /\ \/ /\ FromType => TypeSchema(plan.type).err = "none"
          /\ Attempt(plan.api = "execute")
          /\ UNCHANGED answers
       \/ AttemptCancelled /\ NoAnswer
    /\ sent' = <<>>
    /\ UNCHANGED clientVars

\* What the adapter is given.
Execution ==
    [messages |-> heap[request], tools |-> plan.tools,
     format |-> IF FromType THEN <<TypeSchema(plan.type).out>> ELSE plan.format]

\* client.Execute, up to the call of the provider.
ClientTranslates ==
    LET translated == Translate(provider, Execution)
    IN  /\ pc = "waiting" /\ sent = <<>>
        /\ sent' = <<Execution, translated>>
        /\ IF translated.err = "none"
           THEN UNCHANGED <<execVars, answers>>
           ELSE NoCorrection("error") /\ NoAnswer
        /\ UNCHANGED clientVars

CallId(i) == IF provider = "gemini" THEN NoId ELSE <<"id", attempt, i>>

\* Arguments come as a text from OpenAI only.
RawArgs == IF provider = "openai" THEN {"", "object", "array", "malformed"} ELSE {"", "object"}

\* What a provider may send: a text, one or two calls of the same tool with
\* or without it, nothing.  Anthropic orders them as it likes, shows its
\* reasoning, and calls the tool it was given for the format.
RawAnswers ==
    LET text  == Text(<< <<"answer", attempt>> >>)
        call(i, args)  == Call(CallId(i), "search", args)
        calls == {<<call(1, a)>> : a \in RawArgs} \cup {<<call(1, "object"), call(2, "object")>>}
        common == {<<>>, <<text>>} \cup calls \cup {<<text>> \o c : c \in calls}
        format == Call(CallId(1), outputFormatToolName, "object")
    IN  IF provider # "anthropic" THEN common
        ELSE common \cup {<<Reasoning(<< <<"thought", attempt>> >>), text, call(1, "object")>>,
                          <<call(1, "object"), text, call(2, "")>>,
                          <<format>>, <<text, format>>}

ToolOutput(calls) ==
    [i \in DOMAIN calls |->
        newToolResultPart(calls[i].id, calls[i].name, << <<"output", attempt, i>> >>, FALSE)]

\* What the caller's side makes of the content of a response.
Judge(content) ==
    LET calls == toolCallsFromContent(content)
        Invalid == SUBSET DOMAIN calls
    IN  CASE plan.api = "execute"    -> NoCorrection("done")
          [] plan.api = "structured" ->
                \/ TextFromParts(content) # <<>> /\ NoCorrection("done")
                \/ ValidationFails(content, TRUE)
                \/ \E invalid \in Invalid, raw \in BOOLEAN :
                      ToolCallFails(workExec, content, invalid, raw)
          [] plan.api = "tools" ->
                \/ Answered(content, ToolOutput(calls))
                \/ \E invalid \in Invalid : ToolCallFails(request, content, invalid, TRUE)

\* The provider answers, and the response is parsed.
Receive ==
    /\ pc = "waiting" /\ sent # <<>>
    /\ \E raw \in RawAnswers :
          LET response == ParseResponse(provider, raw)
          IN  /\ answers' = Append(answers, raw)
              /\ IF response.err = "none" THEN Judge(response.out) ELSE NoCorrection("error")
    /\ UNCHANGED <<clientVars, sent>>

\* The provider or the middleware fails, or the context ends.
Fails ==
    /\ pc = "waiting"
    /\ NoCorrection("error")
    /\ NoAnswer
    /\ UNCHANGED <<clientVars, sent>>

\* Middleware that validates makes its own error, without the message.
MiddlewareRefuses ==
    /\ pc = "waiting" /\ plan.api = "structured"
    /\ ValidationFails(<<>>, FALSE)
    /\ NoAnswer
    /\ UNCHANGED <<clientVars, sent>>

Write ==
    /\ plan.scribbles > scribbles
    /\ Scribble
    /\ UNCHANGED <<clientVars, sent, answers>>

Next == StartAttempt \/ ClientTranslates \/ Receive \/ Fails \/ MiddlewareRefuses \/ Write
Spec == Init /\ [][Next]_vars

-----------------------------------------------------------------------------
InFlight  == pc = "waiting" /\ sent # <<>>
Requested == sent[1]
Received  == sent[2]
WithoutCalls(messages) == \A k \in DOMAIN messages : Kind(messages[k].content, "call") = <<>>

(***************************************************************************)
(* The conversation that the next attempt sends is the prompt followed by  *)
(* the correction of every attempt that called for one, in order and once: *)
(* a transient error in between adds nothing and loses nothing.  What the  *)
(* invoker or the caller writes on its own copy is not in it, except that  *)
(* ExecuteWithToolValidation gives back the execution its invoker had.     *)
(***************************************************************************)
WorkExecIsHistory ==
    IF plan.api = "structured" THEN heap[workExec] = History
    ELSE WithoutForeign(heap[workExec]) = History

\* An answer that stays in the conversation with arguments that are no JSON.
Poisoned(n) ==
    log[n].raw /\ \E k \in DOMAIN log[n].content :
        log[n].content[k].kind = "call" /\ log[n].content[k].args = "malformed"

(***************************************************************************)
(* A retry gets as far as the provider: what the executor and the tool     *)
(* validation add to a conversation is never what makes an adapter refuse  *)
(* it, whatever was answered before: it is the prompt (with what others    *)
(* wrote on it) that is refused.  The one exception holds for good: an     *)
(* answer whose arguments are no JSON is part of every later request, and  *)
(* all of them are refused.                                                *)
(***************************************************************************)
CorrectionsReachTheModel ==
    sent # <<>> /\ plan.api # "execute" =>
        /\ Received.err # "none" =>
              \/ Translate(provider, [Requested EXCEPT !.messages =
                                          SubSeq(@, 1, Len(prompt))]).err # "none"
              \/ \E n \in DOMAIN log : Poisoned(n)
        /\ InFlight => \A n \in DOMAIN log : ~Poisoned(n)

\* The results in the messages that directly follow message i.
Following(messages, i) ==
    LET rest == SubSeq(messages, i + 1, Len(messages))
        k    == SelectInSeq(rest, LAMBDA m : Kind(m.content, "result") = <<>>)
        run  == IF k = 0 THEN rest ELSE SubSeq(rest, 1, k - 1)
    IN  FlattenSeq([j \in DOMAIN run |-> run[j].content])

\* A result belongs to a call by its id, where there are none by its name.
Answers(results, calls) ==
    /\ Len(results) = Len(calls)
    /\ \A k \in DOMAIN calls :
          IF provider = "gemini" THEN results[k].name = calls[k].name
                                 ELSE results[k].id = calls[k].id

\* The answer before message i + 1 did not decode, so its calls were not read.
FeedbackFollows(messages, i) ==
    /\ i < Len(messages)
    /\ \E n \in DOMAIN log :
          /\ log[n].kind = "validation"
          /\ Contains(TextFromParts(messages[i + 1].content), <<"feedback", n>>)

(***************************************************************************)
(* In every request, whatever an adapter splits or merges, the calls of    *)
(* each answer are followed by one result for each of them, in order, the  *)
(* valid ones of a refused batch included; only an answer that failed to   *)
(* decode keeps its calls open, with the feedback after it.  (An invoker   *)
(* may return results of its own and keep back the message with the calls: *)
(* these answer nothing.)                                                  *)
(***************************************************************************)
CallsAreAnswered ==
    /\ InFlight
    /\ WithoutCalls(prompt)
    /\ \A n \in DOMAIN log : log[n].kind = "toolcall" => log[n].raw
    => \A i \in DOMAIN Received.messages :
           LET calls == Kind(Received.messages[i].content, "call")
           IN  calls # <<>> => \/ Answers(Following(Received.messages, i), calls)
                               \/ FeedbackFollows(Received.messages, i)

IsAnswer(m)          == m.role = "assistant"
NoForeignAtoms(text) == Where(text, LAMBDA a : a # Foreign)
IsFormat(b)          == b.kind = "call" /\ b.name = outputFormatToolName

\* What blocks say and call; the forced tool's input is what was said.
Said(blocks) ==
    [text  |-> NoForeignAtoms(FlattenSeq([i \in DOMAIN blocks |->
                  CASE blocks[i].kind = "text" -> blocks[i].text
                    [] IsFormat(blocks[i])     -> << <<blocks[i].args, 0>> >>
                    [] OTHER                   -> <<>>])),
     calls |-> Where(WithArgs(Kind(blocks, "call")), LAMBDA b : ~IsFormat(b))]

(***************************************************************************)
(* The model is shown its own answers: in a retry the assistant's turns    *)
(* are what the provider sent in the attempts that were corrected or whose *)
(* calls were run, turn by turn, with the same words and calls.  It holds  *)
(* through ParseResponse, the conversation and Translate together.         *)
(***************************************************************************)
AnswerIsShownBack ==
    InFlight /\ ~(\E i \in DOMAIN prompt : IsAnswer(prompt[i])) =>
        LET turns == Where(Received.messages, IsAnswer)
            kept  == Where([n \in DOMAIN log |-> n], LAMBDA n : log[n].raw)
        IN  /\ Len(turns) = Len(kept)
            /\ \A k \in DOMAIN kept : Said(turns[k].content) = Said(answers[kept[k]])

-----------------------------------------------------------------------------
Parts(messages, roles, k) ==
    FlattenSeq([i \in DOMAIN messages |->
        IF messages[i].role \in roles THEN Kind(messages[i].content, k) ELSE <<>>])
Texts(messages, roles) == TextFromParts(Parts(messages, roles, "text"))
NoSeparators(text)     == Where(text, LAMBDA a : a # separator)

Listed(parts, Op(_))   == [i \in DOMAIN parts |-> Op(parts[i])]
CallSays(c)   == <<IF provider = "gemini" THEN NoId ELSE c.id, c.name, OrEmptyObject(c).args>>
ResultSays(r) == <<IF provider = "gemini" THEN r.name ELSE r.id, TextFromParts(r.content),
                   Len(Kind(r.content, "media"))>>

\* The type of a medium as far as a request can state it.
Stated(mime) ==
    CASE provider = "anthropic" -> mime
      [] provider = "gemini"    -> IF mime \in {"blank", "blank image"} THEN "other" ELSE mime
      [] provider = "openai"    -> IF mime \in {"image", "audio"} THEN mime ELSE "file"
      [] provider = "ollama"    -> "image"
MediaSays(p) == <<Stated(p.mime), p.source>>

(***************************************************************************)
(* A request that an adapter lets through has all of the conversation: the *)
(* system's words, the words of user and assistant, the calls, the results *)
(* and the media, each in its order and once, with what says which call a  *)
(* result answers.  Adapters drop parts they do not look for, but never    *)
(* one of a kind its role is made of.  Of a medium's type it has what the  *)
(* provider's form can state: OpenAI has no type for files, so that a PDF  *)
(* and a text are told apart by their data only; Ollama has images and no  *)
(* type for them; Gemini takes a blank type for octets.  (What an adapter  *)
(* writes between two system texts is no part of them.)                    *)
(***************************************************************************)
TranslationKeepsContent ==
    InFlight =>
        LET from == Requested.messages
            to   == Received.messages
            talk == {"user", "assistant"}
        IN  /\ NoSeparators(TextFromParts(Received.system) \o Texts(to, {"system"}))
                  = NoSeparators(Texts(from, SystemRoles))
            /\ Texts(to, talk) = Texts(from, talk)
            /\ Listed(Parts(to, Roles, "call"), CallSays)
                  = Listed(Parts(from, {"assistant"}, "call"), CallSays)
            /\ Listed(Parts(to, Roles, "result"), ResultSays)
                  = Listed(Parts(from, {"tool"}, "result"), ResultSays)
            /\ Listed(Parts(to, Roles, "media"), MediaSays)
                  = Listed(Parts(from, {"user"}, "media"), MediaSays)

\* What every provider takes: the parts a role is made of.
Portable(p, role) ==
    /\ p.cache # "other"
    /\ CASE role \in SystemRoles -> p.kind = "text"
         [] role = "user"      -> \/ p.kind = "text"
                                  \/ p.kind = "media" /\ p.mime = "image" /\ p.source = "data"
         [] role = "assistant" -> \/ p.kind = "text"
                                  \/ p.kind = "call" /\ p.args \in {"", "{}", "object"}
         [] role = "tool"      -> /\ p.kind = "result"
                                  /\ \A i \in DOMAIN p.content :
                                        p.content[i].kind = "text" /\ p.content[i].cache # "other"
         [] OTHER              -> FALSE

(***************************************************************************)
(* A conversation in the portable vocabulary is refused by no adapter, so  *)
(* that it can be moved from one provider to another in the middle; and    *)
(* ResolvedMedia is enough for the media: after it an adapter says that a  *)
(* URL is unresolved only if an empty body was fetched, which is no error  *)
(* of ResolvedMedia and leaves the part as it was.                         *)
(***************************************************************************)
PortableIsAccepted ==
    sent # <<>> /\ Received.err # "none" =>
        /\ \/ Requested.format # <<>>
           \/ \E k \in DOMAIN Requested.messages :
                 LET m == Requested.messages[k]
                 IN  \/ m.cache = "other" \/ m.role \notin Roles
                     \/ m.role = "tool" /\ m.content = <<>>
                     \/ \E i \in DOMAIN m.content : ~Portable(m.content[i], m.role)
        /\ \A served \in Mimes, empty \in BOOLEAN :
              Translate(provider, [Requested EXCEPT
                                      !.messages = ResolvedMedia(@, served, empty)]).err
                = "ErrMediaNotResolved" => empty
=============================================================================
