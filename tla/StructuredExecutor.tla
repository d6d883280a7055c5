------------------------- MODULE StructuredExecutor -------------------------
(***************************************************************************)
(* NewStructuredExecutor: a closure that makes one structured-output       *)
(* attempt per call and keeps a working copy of the conversation, to which *)
(* a failed attempt adds what the model answered and what was wrong with   *)
(* it.  ExecuteWithToolValidation is the other way to make an attempt: it  *)
(* gives the conversation back, and its caller keeps it.                   *)
(*                                                                         *)
(* Executions are objects on a heap, because the point is who shares       *)
(* which: the caller keeps the execution it passed, and the invoker (with  *)
(* its middleware) keeps each request; either may write to its own.  The   *)
(* outer loop makes the next attempt whatever the error was.               *)
(***************************************************************************)
EXTENDS Integers, Messages

VARIABLES
    prompt,     \* history: the messages of the execution passed
    heap,       \* the executions; a pointer is an index
    workExec,   \* the closure's working copy, or the caller's conversation
    request,    \* what the invoker was last given
    pc,
    log,        \* history: what came of each attempt
    scribbles

execVars == <<prompt, heap, workExec, request, pc, log, scribbles>>

\* What the caller or the invoker writes on its own; everything else is Native.
Foreign == <<"foreign", 0>>
Native  == Atom \ {Foreign}

\* What came of an attempt: nothing that leaves a trace ("error", "done"), a
\* correction ("validation", "toolcall"), or an answer whose calls the caller
\* runs ("valid").  raw: whether the error had the assistant message with it.
Outcome(kind, content, results, raw) ==
    [kind |-> kind, content |-> content, results |-> results, raw |-> raw]
Quiet(kind) == Outcome(kind, <<>>, <<>>, FALSE)

exec == 1
NoRequest == 0
attempt == Len(log) + 1
Feedback(n) == NewUserMessage(<< <<"feedback", n>> >>)

\* clonePromptExecution and AddMessage make a new object from an old one.
Alloc(messages) == heap' = Append(heap, messages)

NewObject == Len(heap) + 1

AddMessages(p, ms) ==
    /\ Alloc(heap[p] \o ms)
    /\ workExec' = NewObject

\* NewStructuredExecutor works on a clone of the execution it is given.
StartWith(messages, cloned) ==
    /\ prompt = messages
    /\ heap = IF cloned THEN <<messages, messages>> ELSE <<messages>>
    /\ workExec = Len(heap)
    /\ request = NoRequest
    /\ pc = "idle"
    /\ log = <<>>
    /\ scribbles = 0

-----------------------------------------------------------------------------
Conclude(o) ==
    /\ pc' = "idle"
    /\ log' = Append(log, o)
    /\ UNCHANGED <<prompt, request, scribbles>>

\* ctx.Err() before anything is done.
AttemptCancelled ==
    /\ pc = "idle"
    /\ Conclude(Quiet("error"))
    /\ UNCHANGED <<heap, workExec>>

PrepareShared ==
    /\ request' = workExec
    /\ UNCHANGED heap

\* prepareStructuredExecution and ExecuteWithToolValidation give the invoker
\* a clone.
Prepare ==
    /\ Alloc(heap[workExec])
    /\ request' = NewObject

\* An invoker called without either is given the caller's own execution.
Direct ==
    /\ request' = exec
    /\ UNCHANGED heap

Attempt(direct) ==
    /\ pc = "idle"
    /\ IF direct THEN Direct ELSE Prepare
    /\ pc' = "waiting"
    /\ UNCHANGED <<prompt, workExec, log, scribbles>>

\* The response decodes and validates; or the invoker fails, gives no
\* response, or ends with the context.
NoCorrection(kind) ==
    /\ pc = "waiting"
    /\ Conclude(Quiet(kind))
    /\ UNCHANGED <<heap, workExec>>

RawMessage(content, raw) ==
    IF raw THEN <<newAssistantMessageWithContent(content)>> ELSE <<>>

\* The text does not decode, or breaks the rules of its type.  The message
\* may make tool calls besides.
ValidationFails(content, raw) ==
    /\ pc = "waiting"
    /\ AddMessages(workExec, Append(RawMessage(content, raw), Feedback(attempt)))
    /\ Conclude(Outcome("validation", content, <<>>, raw))

\* The calls of the response at the places in invalid are refused by the
\* validator, and the whole batch is answered.  p is what the correction is
\* added to: the closure's working copy, or the request itself, which
\* ExecuteWithToolValidation gives back.
ToolCallFails(p, content, invalid, raw) ==
    LET calls   == toolCallsFromContent(content)
        results == toolValidationResults(calls, invalid)
    IN  /\ pc = "waiting"
        /\ invalid # {} /\ invalid \subseteq DOMAIN calls
        /\ AddMessages(p, Append(RawMessage(content, raw),
                                 newToolMessageWithContent(results)))
        /\ Conclude(Outcome("toolcall", content, results, raw))

ToolMessage(results) ==
    IF results = <<>> THEN <<>> ELSE <<newToolMessageWithContent(results)>>

\* ExecuteWithToolValidation gives back the request with the assistant
\* message; the caller runs the calls, if any, and adds what they gave.
Answered(content, results) ==
    /\ pc = "waiting"
    /\ AddMessages(request, <<newAssistantMessageWithContent(content)>> \o ToolMessage(results))
    /\ Conclude(Outcome("valid", content, results, TRUE))

\* The caller writes on the execution it passed, or the invoker on the last
\* request, during an attempt or between two.
Scribble ==
    /\ scribbles' = scribbles + 1
    /\ \E p \in {exec, request} \ {NoRequest} : \E k \in 1..Len(heap[p]) :
          heap' = [heap EXCEPT ![p][k].content = Append(@, Text(<<Foreign>>))]
    /\ UNCHANGED <<prompt, workExec, request, pc, log>>

-----------------------------------------------------------------------------
\* What attempt n with outcome o leaves in the conversation.
Trace(n, o) ==
    LET raw == IF o.raw THEN <<Message("assistant", o.content)>> ELSE <<>>
    IN  CASE o.kind = "validation" -> Append(raw, Feedback(n))
          [] o.kind = "toolcall"   -> Append(raw, Message("tool", o.results))
          [] o.kind = "valid"      -> raw \o ToolMessage(o.results)
          [] OTHER                 -> <<>>

History == prompt \o FlattenSeq([n \in DOMAIN log |-> Trace(n, log[n])])

OfTheConversation(p) == p # Text(<<Foreign>>)
WithoutForeign(messages) ==
    [k \in DOMAIN messages |->
        [messages[k] EXCEPT !.content = Where(@, OfTheConversation)]]
=============================================================================
