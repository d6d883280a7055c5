---------------------------- MODULE TracedStream ----------------------------
(***************************************************************************)
(* StreamStructuredOutput on top of the client and of the tracing          *)
(* middleware.  A client whose adapter streams (OpenAI) passes on its      *)
(* chunks and holds a connection while it does; for any other adapter it   *)
(* calls Execute and makes one chunk of the whole response.  The           *)
(* middleware looks at every chunk on its way and writes a span.           *)
(*                                                                         *)
(* The three iterators are nested: when the consumer breaks out, or the    *)
(* parser gives up, each of them returns and runs what it deferred before  *)
(* the consumer goes on.                                                   *)
(***************************************************************************)
EXTENDS StreamStructuredOutput

VARIABLES
    source,         \* whether the adapter is a StreamerAdapter
    said,           \* history: the provider gave a finish reason
    finishReason,   \* whether a chunk that reached the middleware had one
    connection,     \* the provider's stream
    span

traceVars == <<source, said, finishReason, connection, span>>
allVars == <<vars, traceVars>>

Sources == {"native", "polyfill"}

\* A recording span, then what it was ended with.
Unstarted    == [state |-> "unstarted"]
Started      == [state |-> "started"]
Ended(error, reason) == [state |-> "ended", error |-> error, reason |-> reason]

TracedInit ==
    /\ Init
    /\ source \in Sources
    /\ said = FALSE /\ finishReason = FALSE
    /\ connection = "none"
    /\ span = Unstarted

-----------------------------------------------------------------------------
DeferAfterLoop ==
    /\ span' = Ended(failure' = "provider", finishReason /\ ~stopped' /\ failure' \in {"none", "incomplete"})
    /\ connection' = IF connection = "open" THEN "closed" ELSE connection

\* What was deferred: the middleware writes what it gathered, the adapter
\* closes its stream.
Defer ==
    /\ span' = Ended(failure' = "provider", finishReason)
    /\ connection' = IF connection = "open" THEN "closed" ELSE connection

\* A step of the sequence, with the way back if it is the last one.
Step(A) ==
    /\ A
    /\ IF pc' = "done" THEN Defer ELSE UNCHANGED <<span, connection>>

\* The consumer asks for the first object.  Translate may refuse, or the
\* adapter have no client; Execute is called here, and may fail.
ExecuteStream ==
    /\ span = Unstarted
    /\ \/ /\ span' = Started
          /\ connection' = IF source = "native" THEN "open" ELSE "none"
          /\ UNCHANGED vars
       \/ Step(ProviderFails)
    /\ UNCHANGED <<source, said, finishReason>>

Streaming == span = Started

\* A chunk of a stream may have the finish reason besides its text; the one
\* chunk of a response is made without it, though the response has one.  A
\* response with several texts is fed one by one.
TracedChunk ==
    /\ Streaming /\ ~(source = "native" /\ said)
    /\ Step(NextChunk)
    /\ said' \in IF source = "native" THEN BOOLEAN ELSE {TRUE}
    /\ finishReason' = (source = "native" /\ said')
    /\ UNCHANGED source

\* The last chunk of a stream often has no text.
LastChunk ==
    /\ Streaming /\ source = "native" /\ ~said
    /\ pc = "pull"
    /\ said' = TRUE
    /\ finishReason' = TRUE
    /\ UNCHANGED <<vars, source, connection, span>>

Parse ==
    /\ Step(Feed \/ ChunkEnds \/ Yield \/ ChunkDone)
    /\ UNCHANGED <<source, said, finishReason>>

\* A connection may break or be closed at any time, with or without a last
\* chunk; a response is there as a whole.
TracedEnd ==
    /\ Streaming
    /\ \/ source = "native" /\ Step(ProviderFails)
       \/ Step(ProviderEnds)
    /\ UNCHANGED <<source, said, finishReason>>

TracedNext == ExecuteStream \/ TracedChunk \/ LastChunk \/ Parse \/ TracedEnd
TracedSpec == TracedInit /\ [][TracedNext]_allVars

-----------------------------------------------------------------------------
(***************************************************************************)
(* However a stream is left (used up, broken out of after any object,      *)
(* rejected by the parser, failed by the provider), the connection is      *)
(* closed and the span ended, once, with what is known of the stream:      *)
(* an error if the provider failed, not if the consumer or its parser gave *)
(* up, and the finish reason if a native stream had come that far.  Of a   *)
(* stream made from a response the span never has the reason.              *)
(***************************************************************************)
SpanTellsTheStream ==
    pc = "done" =>
        /\ connection # "open"
        /\ span = Ended(failure = "provider", source = "native" /\ said)
=============================================================================
