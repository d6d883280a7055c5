------------------------- MODULE TracedStreamProofs -------------------------
(***************************************************************************)
(* For any documents and size limits: however a stream is left, its span   *)
(* and its connection are closed with what is known of it, and a consumer  *)
(* that broke out is called no more; it gets the objects of the document   *)
(* in their order, all of them if it gets no error; and no document that   *)
(* is well formed is refused.                                              *)
(***************************************************************************)
EXTENDS TracedStream, FiniteSetTheorems, WellFoundedInduction, TLAPS

\* The inductive invariant.  Nothing moves before the first object is asked
\* for, nothing after the end; a span is open in between.
ReasonInv  == finishReason \in BOOLEAN /\ said \in BOOLEAN
              /\ finishReason = (source = "native" /\ said)
BeforeInv  == span = Unstarted => pc = "pull" /\ connection # "open"
RunningInv == pc # "done" => span \in {Unstarted, Started}
StoppedInv == stopped => pc = "done"

IInv == ReasonInv /\ BeforeInv /\ RunningInv /\ StoppedInv /\ SpanTellsTheStream

LEMMA SpansDiffer ==
    /\ Unstarted # Started
    /\ \A error, reason : Ended(error, reason) \notin {Unstarted, Started}
  BY DEF Unstarted, Started, Ended

LEMMA InitEstablishes == TracedInit => IInv
  BY DEF TracedInit, Init, IInv, ReasonInv, BeforeInv, RunningInv, StoppedInv,
         SpanTellsTheStream, Unstarted

\* A parser's step goes on reading or ends with an error of its own.
LEMMA BytesEndOnce ==
    ASSUME consumeByte, pc = "feed"
    PROVE  pc' \in {"feed", "done"} /\ UNCHANGED stopped
<1>1. CASE Accept
  BY <1>1 DEF Accept, seenVars
<1>2. CASE \E why : Reject(why)
  BY <1>2 DEF Reject
<1> QED
  BY <1>1, <1>2 DEF consumeByte, Outside, SkipFenceOrSpace, StartObjectMode, StartArrayMode,
      StartCapture, BetweenItems, StringByte, StructureByte, CompleteObject, OversizeByte

\* Nor does the generator take a step at the end, or before it was asked.
LEMMA SequenceSteps ==
    ASSUME Feed \/ ChunkEnds \/ Yield \/ ChunkDone
    PROVE  /\ pc \notin {"pull", "done"}
           /\ stopped' => stopped \/ pc' = "done"
<1>1. CASE Feed
  BY <1>1, BytesEndOnce DEF Feed
<1>2. CASE ChunkEnds
  BY <1>2 DEF ChunkEnds, seenVars
<1>3. CASE Yield
  BY <1>3 DEF Yield
<1>4. CASE ChunkDone
  BY <1>4 DEF ChunkDone, seenVars
<1> QED
  BY <1>1, <1>2, <1>3, <1>4

\* A step that goes on leaves the span as it is, and one that ends the
\* sequence writes it.
LEMMA StepEnds ==
    ASSUME IInv, span = Started, pc # "done",
           IF pc' = "done" THEN Defer ELSE UNCHANGED <<span, connection>>,
           UNCHANGED source, said' \in BOOLEAN,
           finishReason' = (source = "native" /\ said'),
           pc' = "done" => finishReason' = finishReason,
           stopped' => pc' = "done"
    PROVE  IInv'
<1>1. ReasonInv'
  BY Zenon DEF ReasonInv
<1>2. CASE pc' = "done"
  <2>1. Defer /\ finishReason' = finishReason
    BY <1>2
  <2>2. span' = Ended(failure' = "provider", finishReason)
    BY <2>1 DEF Defer
  <2>3. connection' # "open"
    BY <2>1 DEF Defer
  <2>4. span' = Ended(failure' = "provider", source' = "native" /\ said')
    BY <2>1, <2>2, Zenon
  <2>5. SpanTellsTheStream'
    BY <2>3, <2>4 DEF SpanTellsTheStream
  <2>6. span' # Unstarted
    BY <2>2, SpansDiffer
  <2> QED
    BY <1>1, <1>2, <2>5, <2>6 DEF IInv, BeforeInv, RunningInv, StoppedInv
<1>3. CASE pc' # "done"
  <2>1. span' = Started /\ ~stopped'
    BY <1>3
  <2> QED
    BY <1>1, <1>3, <2>1, SpansDiffer DEF IInv, BeforeInv, RunningInv, StoppedInv,
        SpanTellsTheStream
<1> QED
  BY <1>2, <1>3

LEMMA ExecuteStreamPreserves == IInv /\ ExecuteStream => IInv'
<1> SUFFICES ASSUME IInv, ExecuteStream PROVE IInv'
  OBVIOUS
<1>1. /\ span = Unstarted /\ pc = "pull" /\ connection # "open" /\ ~stopped
      /\ UNCHANGED <<source, said, finishReason>>
  BY DEF ExecuteStream, IInv, BeforeInv, StoppedInv
<1>2. ReasonInv'
  BY <1>1 DEF IInv, ReasonInv
<1>3. CASE span' = Started /\ UNCHANGED vars
  <2>1. pc' = "pull" /\ ~stopped'
    BY <1>1, <1>3 DEF vars, seenVars
  <2> QED
    BY <1>2, <1>3, <2>1, SpansDiffer DEF IInv, BeforeInv, RunningInv, StoppedInv,
        SpanTellsTheStream
<1>4. CASE Step(ProviderFails)
  <2>1. pc' = "done" /\ ~stopped'
    BY <1>1, <1>4 DEF Step, ProviderFails
  <2>2. span' = Ended(failure' = "provider", finishReason) /\ connection' # "open"
    BY <1>4, <2>1 DEF Step, Defer
  <2>3. span' = Ended(failure' = "provider", source' = "native" /\ said')
    BY <1>1, <2>2, Zenon DEF IInv, ReasonInv
  <2> QED
    BY <1>2, <2>1, <2>2, <2>3, SpansDiffer DEF IInv, BeforeInv, RunningInv, StoppedInv,
        SpanTellsTheStream
<1> QED
  BY <1>3, <1>4 DEF ExecuteStream

LEMMA TracedChunkPreserves == IInv /\ TracedChunk => IInv'
<1> SUFFICES ASSUME IInv, TracedChunk PROVE IInv'
  OBVIOUS
<1>1. /\ span = Started /\ pc = "pull" /\ pc' = "feed" /\ UNCHANGED <<source, stopped>>
      /\ IF pc' = "done" THEN Defer ELSE UNCHANGED <<span, connection>>
  BY DEF TracedChunk, Streaming, Step, NextChunk, seenVars
<1>2. said' \in BOOLEAN /\ finishReason' = (source = "native" /\ said')
  BY Zenon DEF TracedChunk
<1>3. ~stopped'
  BY <1>1 DEF IInv, StoppedInv
<1> QED
  BY <1>1, <1>2, <1>3, StepEnds

LEMMA LastChunkPreserves == IInv /\ LastChunk => IInv'
<1> SUFFICES ASSUME IInv, LastChunk PROVE IInv'
  OBVIOUS
<1>1. /\ pc = "pull" /\ source = "native" /\ said' = TRUE /\ finishReason' = TRUE
      /\ UNCHANGED <<pc, stopped, source, connection, span>>
  BY DEF LastChunk, vars, seenVars
<1> QED
  BY <1>1 DEF IInv, ReasonInv, BeforeInv, RunningInv, StoppedInv, SpanTellsTheStream

LEMMA ParsePreserves == IInv /\ Parse => IInv'
<1> SUFFICES ASSUME IInv, Parse PROVE IInv'
  OBVIOUS
<1>1. /\ Feed \/ ChunkEnds \/ Yield \/ ChunkDone
      /\ IF pc' = "done" THEN Defer ELSE UNCHANGED <<span, connection>>
      /\ UNCHANGED <<source, said, finishReason>>
  BY DEF Parse, Step, traceVars
<1>2. /\ pc # "done" /\ pc # "pull"
      /\ stopped' => stopped \/ pc' = "done"
  BY <1>1, SequenceSteps
<1>3. span = Started
  BY <1>2 DEF IInv, BeforeInv, RunningInv
<1>4. stopped' => pc' = "done"
  BY <1>2 DEF IInv, StoppedInv
<1>5. said' \in BOOLEAN /\ finishReason' = (source = "native" /\ said')
  BY <1>1, Zenon DEF IInv, ReasonInv
<1> QED
  BY <1>1, <1>2, <1>3, <1>4, <1>5, StepEnds

LEMMA TracedEndPreserves == IInv /\ TracedEnd => IInv'
<1> SUFFICES ASSUME IInv, TracedEnd PROVE IInv'
  OBVIOUS
<1>1. /\ span = Started /\ pc = "pull" /\ UNCHANGED <<source, said, finishReason, stopped>>
      /\ pc' = "done"
      /\ IF pc' = "done" THEN Defer ELSE UNCHANGED <<span, connection>>
  BY DEF TracedEnd, Streaming, Step, ProviderFails, ProviderEnds
<1>2. said' \in BOOLEAN /\ finishReason' = (source = "native" /\ said')
  BY <1>1, Zenon DEF IInv, ReasonInv
<1> QED
  BY <1>1, <1>2, StepEnds

LEMMA StepPreserves == IInv /\ [TracedNext]_allVars => IInv'
<1> SUFFICES ASSUME IInv, [TracedNext]_allVars PROVE IInv'
  OBVIOUS
<1>1. CASE UNCHANGED allVars
  BY <1>1 DEF allVars, vars, traceVars, seenVars, IInv, ReasonInv, BeforeInv, RunningInv,
      StoppedInv, SpanTellsTheStream
<1> QED
  BY <1>1, ExecuteStreamPreserves, TracedChunkPreserves, LastChunkPreserves, ParsePreserves,
     TracedEndPreserves DEF TracedNext

LEMMA Invariant == TracedSpec => []IInv
<1>1. TracedInit => IInv
  BY InitEstablishes
<1>2. IInv /\ [TracedNext]_allVars => IInv'
  BY StepPreserves
<1> QED
  BY <1>1, <1>2, PTL DEF TracedSpec

\* However a stream is left, the connection is closed and the span says what
\* is known of it.
THEOREM SpansAreEnded == TracedSpec => []SpanTellsTheStream
<1>1. IInv => SpanTellsTheStream
  BY DEF IInv
<1> QED
  BY <1>1, Invariant, PTL

LEMMA StoppedIsQuiet ==
    ASSUME IInv, [TracedNext]_allVars
    PROVE  [stopped => yielded' = yielded /\ failure' = failure]_vars
<1> SUFFICES ASSUME stopped, TracedNext PROVE UNCHANGED vars
  BY DEF allVars, vars, seenVars
<1>1. pc = "done" /\ span # Unstarted
  BY DEF IInv, StoppedInv, BeforeInv
<1>2. CASE ExecuteStream
  BY <1>1, <1>2 DEF ExecuteStream
<1>3. CASE TracedChunk
  BY <1>1, <1>3 DEF TracedChunk, Step, NextChunk
<1>4. CASE LastChunk
  BY <1>4 DEF LastChunk
<1>5. CASE Parse
  BY <1>1, <1>5, SequenceSteps DEF Parse, Step
<1>6. CASE TracedEnd
  BY <1>1, <1>6 DEF TracedEnd, Step, ProviderFails, ProviderEnds
<1> QED
  BY <1>2, <1>3, <1>4, <1>5, <1>6 DEF TracedNext

\* A consumer that has broken out of its loop gets nothing more.
THEOREM BreaksAreFinal == TracedSpec => NoYieldAfterBreak
<1>1. IInv /\ [TracedNext]_allVars
        => [stopped => yielded' = yielded /\ failure' = failure]_vars
  BY StoppedIsQuiet
<1> QED
  BY <1>1, Invariant, PTL DEF TracedSpec, NoYieldAfterBreak

-----------------------------------------------------------------------------
(***************************************************************************)
(* Documents                                                               *)
(***************************************************************************)
LEMMA Docs ==
    ASSUME NEW d \in Documents
    PROVE  /\ Len(d.text) \in Nat /\ Len(d.items) \in Nat
           /\ \A k \in 1..Len(d.items) :
                /\ d.items[k].from \in Nat /\ d.items[k].to \in Nat
                /\ 1 <= d.items[k].from /\ d.items[k].from <= d.items[k].to
                /\ d.items[k].to <= Len(d.text)
                /\ d.text[d.items[k].from] = "lbrace" /\ ~OnFence(d, d.items[k].from)
           /\ \A j, k \in 1..Len(d.items) : j < k => d.items[j].to < d.items[k].from
  <1>1. d.text \in Seq(Bytes) /\ d.items \in Seq(Item)
    BY DocumentsAssumption
  <1>2. Len(d.text) \in Nat /\ Len(d.items) \in Nat
    BY <1>1
  <1>3. \A k \in 1..Len(d.items) : d.items[k] \in Item
    BY <1>1
  <1>4. \A k \in 1..Len(d.items) : d.items[k].from \in Nat /\ d.items[k].to \in Nat
    BY <1>3 DEF Item
  <1>5. ASSUME NEW k \in 1..Len(d.items)
        PROVE  /\ 1 <= d.items[k].from /\ d.items[k].from <= d.items[k].to
               /\ d.items[k].to <= Len(d.text)
               /\ d.text[d.items[k].from] = "lbrace" /\ ~OnFence(d, d.items[k].from)
               /\ \A j \in 1..(k - 1) : d.items[j].to < d.items[k].from
    BY DocumentsAssumption, Zenon
  <1>6. ASSUME NEW j \in 1..Len(d.items), NEW k \in 1..Len(d.items), j < k
        PROVE  d.items[j].to < d.items[k].from
    <2>1. j \in 1..(k - 1)
      BY <1>2, <1>6
    <2>2. QED
      BY <1>5, <2>1
  <1>7. QED
    BY <1>2, <1>4, <1>5, <1>6

LEMMA NothingAfterTheArray ==
    ASSUME NEW d \in Documents, NEW k \in 1..Len(d.items), NEW p \in Nat,
           1 <= p, p < d.items[k].from, d.text[p] = "rbracket"
    PROVE  Inside(d, p) \/ OnFence(d, p)
  <1>1. \A q \in 1..(d.items[k].from - 1) : d.text[q] = "rbracket" => Inside(d, q) \/ OnFence(d, q)
    BY DocumentsAssumption, Zenon
  <1>2. d.items[k].from \in Nat
    BY Docs
  <1>3. p \in 1..(d.items[k].from - 1)
    BY <1>2
  <1>4. QED
    BY <1>1, <1>3

LEMMA SeveralAreAnArray ==
    ASSUME NEW d \in Documents, Len(d.items) > 1
    PROVE  \E z \in Nat : /\ 1 <= z /\ d.text[z] = "lbracket" /\ ~OnFence(d, z)
                          /\ \A p \in Nat : 1 <= p /\ p < z /\ d.text[p] = "lbrace" => OnFence(d, p)
  <1>1. PICK z \in 1..Len(d.text) :
            /\ d.text[z] = "lbracket" /\ ~OnFence(d, z)
            /\ \A p \in 1..(z - 1) : d.text[p] = "lbrace" => OnFence(d, p)
    BY DocumentsAssumption, Zenon
  <1>2. z \in Nat /\ 1 <= z
    <2>1. Len(d.text) \in Nat
      BY Docs
    <2>2. QED
      BY <2>1
  <1>3. ASSUME NEW p \in Nat, 1 <= p, p < z, d.text[p] = "lbrace"
        PROVE  OnFence(d, p)
    <2>1. p \in 1..(z - 1)
      <3>1. z \in Nat
        BY <1>2
      <3>2. \A y, q \in Nat : 1 <= q /\ q < y => q \in 1..(y - 1)
        OBVIOUS
      <3>3. QED
        BY <1>3, <3>1, <3>2, Zenon
    <2>2. QED
      BY <1>1, <1>3, <2>1
  <1>4. QED
    BY <1>1, <1>2, <1>3

\* A fence's line ends with the line and begins with a backquote.
LEMMA FenceStep ==
    ASSUME NEW d, NEW p \in Nat, 1 <= p
    PROVE  OnFence(d, p + 1) <=> \/ OnFence(d, p) /\ d.text[p] # "newline"
                                 \/ d.text[p] = "backquote" /\ ~Inside(d, p)
  <1>1. ASSUME OnFence(d, p + 1)
        PROVE  \/ OnFence(d, p) /\ d.text[p] # "newline"
               \/ d.text[p] = "backquote" /\ ~Inside(d, p)
    <2>1. PICK k \in 1..p : /\ d.text[k] = "backquote" /\ ~Inside(d, k)
                            /\ \A m \in k..p : d.text[m] # "newline"
      BY <1>1 DEF OnFence
    <2>2. CASE k = p
      BY <2>1, <2>2
    <2>3. CASE k # p
      <3>1. k \in 1..(p - 1) /\ (\A m \in k..(p - 1) : d.text[m] # "newline") /\ d.text[p] # "newline"
        BY <2>1, <2>3
      <3>2. QED
        BY <2>1, <3>1 DEF OnFence
    <2>4. QED
      BY <2>2, <2>3
  <1>2. ASSUME OnFence(d, p), d.text[p] # "newline"
        PROVE  OnFence(d, p + 1)
    <2>1. PICK k \in 1..(p - 1) : /\ d.text[k] = "backquote" /\ ~Inside(d, k)
                                  /\ \A m \in k..(p - 1) : d.text[m] # "newline"
      BY <1>2 DEF OnFence
    <2>2. k \in 1..p /\ \A m \in k..p : d.text[m] # "newline"
      BY <1>2, <2>1
    <2>3. QED
      BY <2>1, <2>2 DEF OnFence
  <1>3. ASSUME d.text[p] = "backquote", ~Inside(d, p)
        PROVE  OnFence(d, p + 1)
    <2>1. p \in 1..p /\ \A m \in p..p : d.text[m] # "newline"
      BY <1>3
    <2>2. QED
      BY <1>3, <2>1 DEF OnFence
  <1>4. QED
    BY <1>1, <1>2, <1>3

\* No fence begins inside an object.
LEMMA FenceJump ==
    ASSUME NEW d, NEW a \in Nat, NEW b \in Nat, 1 <= a, a <= b,
           \A p \in a..b : Inside(d, p), ~OnFence(d, a)
    PROVE  ~OnFence(d, b + 1)
  <1>1. ASSUME OnFence(d, b + 1)
        PROVE  FALSE
    <2>1. PICK k \in 1..b : /\ d.text[k] = "backquote" /\ ~Inside(d, k)
                            /\ \A m \in k..b : d.text[m] # "newline"
      BY <1>1 DEF OnFence
    <2>2. k \in 1..(a - 1) /\ \A m \in k..(a - 1) : d.text[m] # "newline"
      BY <2>1
    <2>3. OnFence(d, a)
      BY <2>1, <2>2 DEF OnFence
    <2>4. QED
      BY <2>3
  <1>2. QED
    BY <1>1

-----------------------------------------------------------------------------
(***************************************************************************)
(* What the parser has read                                                *)
(***************************************************************************)
Failures == Refusals \cup {"none", "provider", "incomplete"}

StreamTypes ==
    /\ sizeLimit \in Nat /\ doc \in Documents
    /\ pos \in Nat /\ pos <= Len(doc.text)
    /\ pc \in {"pull", "feed", "yield", "done"}
    /\ mode \in {"unknown", "object", "array"}
    /\ completed \in BOOLEAN /\ skippingFence \in BOOLEAN /\ capturing \in BOOLEAN
    /\ inString \in BOOLEAN /\ escape \in BOOLEAN
    /\ depth \in Nat /\ from \in Nat
    /\ out \in Seq(Nat) /\ yielded \in Seq(Nat)
    /\ failure \in Failures

\* The objects decoded so far, and where what comes after them begins.
Count == Len(yielded) + Len(out)
Front == IF capturing THEN from ELSE pos + 1

\* What was decoded are the objects from the first on.
Decoded(k)  == k <= Len(doc.items) /\ doc.items[k].good /\ Fits(k)
YieldInv    ==
    /\ \A k \in 1..Len(yielded) : yielded[k] = k /\ Decoded(k)
    /\ \A k \in 1..Len(out) : out[k] = Len(yielded) + k /\ Decoded(Len(yielded) + k)

\* They end before the front, and the others have not begun.
PlaceInv ==
    /\ Count <= Len(doc.items)
    /\ \A k \in 1..Len(doc.items) :
          IF k <= Count THEN doc.items[k].to < Front ELSE doc.items[k].from >= Front

\* What the parser is in: before the document it has seen no bracket but on a
\* fence's line, and after it there is no object left.
CaptureInv ==
    IF capturing
    THEN started /\ ~completed /\ 1 <= from /\ from <= pos /\ doc.text[from] = "lbrace" /\ depth > 0
    ELSE depth = 0
BeforeDoc ==
    ~started => /\ ~completed /\ ~capturing /\ Count = 0
                /\ \A p \in Nat : 1 <= p /\ p <= pos /\ doc.text[p] \in {"lbrace", "lbracket"} => OnFence(doc, p)
AfterDoc  == completed => Count = Len(doc.items)
FenceInv  ==
    IF started /\ ~completed THEN ~skippingFence /\ ~OnFence(doc, Front)
    ELSE skippingFence <=> OnFence(doc, pos + 1)
ObjectInv ==
    mode = "object" /\ ~completed =>
        /\ capturing /\ Count = 0
        /\ \A p \in Nat : 1 <= p /\ p < from /\ doc.text[p] = "lbracket" => OnFence(doc, p)

RunInv ==
    pc # "done" => /\ failure = "none" /\ (pc = "pull" => out = <<>>)
                   /\ PlaceInv /\ CaptureInv /\ BeforeDoc /\ AfterDoc /\ FenceInv /\ ObjectInv

StreamInv == StreamTypes /\ YieldInv /\ RunInv /\ NoErrorMeansComplete

\* The byte that is read.
Reading == pc = "feed" /\ pos < Len(doc.text) /\ pos' = pos + 1 /\ UNCHANGED <<sizeLimit, doc>>

LEMMA InitStream == Init => StreamInv
  <1> SUFFICES ASSUME Init PROVE StreamInv
    OBVIOUS
  <1>1. doc \in Documents /\ sizeLimit \in Nat
    BY SizeLimitsAssumption DEF Init
  <1>2. Len(doc.text) \in Nat /\ Len(doc.items) \in Nat
    BY <1>1, Docs
  <1>3. StreamTypes
    <2>1. /\ pos \in Nat /\ pos <= Len(doc.text) /\ depth \in Nat /\ from \in Nat
      BY <1>2 DEF Init
    <2>2. /\ pc \in {"pull", "feed", "yield", "done"}
          /\ mode \in {"unknown", "object", "array"} /\ failure \in Failures
      BY DEF Init, Failures
    <2>3. out \in Seq(Nat) /\ yielded \in Seq(Nat)
      BY DEF Init
    <2>4. /\ completed \in BOOLEAN /\ skippingFence \in BOOLEAN /\ capturing \in BOOLEAN
          /\ inString \in BOOLEAN /\ escape \in BOOLEAN
      BY DEF Init
    <2>5. QED
      BY <1>1, <2>1, <2>2, <2>3, <2>4 DEF StreamTypes
  <1>4. Len(yielded) = 0 /\ Len(out) = 0 /\ Count = 0 /\ Front = 1
    BY DEF Init, Count, Front
  <1>5. YieldInv
    BY <1>4 DEF YieldInv
  <1>6. PlaceInv
    <2>1. ASSUME NEW k \in 1..Len(doc.items)
          PROVE  ~(k <= Count) /\ doc.items[k].from >= Front
      <3>1. k \in Nat /\ k >= 1
        BY <1>2
      <3>2. doc.items[k].from \in Nat /\ 1 <= doc.items[k].from
        BY <1>1, Docs
      <3>3. QED
        BY <1>4, <3>1, <3>2
    <2>2. QED
      BY <1>2, <1>4, <2>1 DEF PlaceInv
  <1>7. ~OnFence(doc, 1)
    BY DEF OnFence
  <1>8. CaptureInv /\ BeforeDoc /\ AfterDoc /\ FenceInv /\ ObjectInv
    <2>1. /\ pos = 0 /\ ~started /\ ~completed /\ ~capturing /\ ~skippingFence /\ depth = 0
          /\ mode # "object" /\ pos + 1 = 1
      BY DEF Init, started
    <2>2. ~OnFence(doc, pos + 1)
      BY <1>7, <2>1
    <2>3. CaptureInv /\ AfterDoc /\ ObjectInv
      BY <2>1 DEF CaptureInv, AfterDoc, ObjectInv
    <2>4. BeforeDoc
      <3>1. \A p \in Nat : ~(1 <= p /\ p <= pos)
        BY <2>1
      <3>2. QED
        BY <1>4, <2>1, <3>1 DEF BeforeDoc
    <2>5. FenceInv
      BY <2>1, <2>2 DEF FenceInv
    <2>6. QED
      BY <2>3, <2>4, <2>5
  <1>9. NoErrorMeansComplete
    BY DEF Init, NoErrorMeansComplete
  <1>10. QED
    BY <1>3, <1>5, <1>6, <1>8, <1>9 DEF StreamInv, RunInv, Init

\* What is known while a byte is read.
LEMMA AtByte ==
    ASSUME StreamInv, Reading
    PROVE  /\ doc \in Documents /\ pos \in Nat /\ Len(doc.text) \in Nat /\ Len(doc.items) \in Nat
           /\ Len(yielded) \in Nat /\ Len(out) \in Nat /\ Count \in Nat
           /\ PlaceInv /\ CaptureInv /\ BeforeDoc /\ AfterDoc /\ FenceInv /\ ObjectInv
           /\ failure = "none"
           /\ Byte = doc.text[pos + 1]
  <1>1. doc \in Documents /\ pos \in Nat /\ Len(yielded) \in Nat /\ Len(out) \in Nat
    BY DEF StreamInv, StreamTypes
  <1>2. Len(doc.text) \in Nat /\ Len(doc.items) \in Nat
    BY <1>1, Docs
  <1>3. pc # "done" /\ RunInv
    BY DEF Reading, StreamInv
  <1>4. QED
    BY <1>1, <1>2, <1>3 DEF RunInv, Count, Byte

\* A refusal ends the stream with an error and yields nothing more.
LEMMA RejectHolds ==
    ASSUME StreamInv, Reading, NEW why \in Refusals, Reject(why)
    PROVE  StreamInv'
  <1>1. /\ failure' = why /\ out' = <<>> /\ pc' = "done"
        /\ UNCHANGED <<parserVars, yielded, stopped, sizeLimit, doc>> /\ pos' = pos + 1
    BY DEF Reject, Reading
  <1>2. why # "none"
    BY DEF Refusals
  <1>3. StreamTypes'
    BY <1>1, AtByte DEF StreamInv, StreamTypes, Failures, parserVars, Reading
  <1>4. Len(<<>>) = 0
    OBVIOUS
  <1>5. YieldInv'
    BY <1>1, <1>4 DEF StreamInv, YieldInv, Decoded, Fits
  <1>6. RunInv' /\ NoErrorMeansComplete'
    BY <1>1, <1>2 DEF RunInv, NoErrorMeansComplete
  <1>7. QED
    BY <1>3, <1>5, <1>6 DEF StreamInv

\* A byte that completes no object.
Quiet ==
    /\ Reading /\ Accept /\ UNCHANGED out
    /\ mode' \in {"unknown", "object", "array"}
    /\ completed' \in BOOLEAN /\ skippingFence' \in BOOLEAN /\ capturing' \in BOOLEAN
    /\ inString' \in BOOLEAN /\ escape' \in BOOLEAN
    /\ depth' \in Nat /\ from' \in Nat

LEMMA QuietHolds ==
    ASSUME StreamInv, Quiet,
           PlaceInv', CaptureInv', BeforeDoc', AfterDoc', FenceInv', ObjectInv'
    PROVE  StreamInv'
  <1>1. /\ pc = "feed" /\ failure = "none"
        /\ UNCHANGED <<pc, yielded, failure, stopped, out, sizeLimit, doc>>
        /\ pos' = pos + 1 /\ pos + 1 <= Len(doc.text) /\ pos + 1 \in Nat
    BY AtByte DEF Quiet, Reading, Accept, seenVars
  <1>2. StreamTypes'
    BY <1>1 DEF Quiet, StreamInv, StreamTypes
  <1>3. YieldInv'
    BY <1>1 DEF StreamInv, YieldInv, Decoded, Fits
  <1>4. RunInv' /\ NoErrorMeansComplete'
    BY <1>1 DEF RunInv, NoErrorMeansComplete
  <1>5. QED
    BY <1>2, <1>3, <1>4 DEF StreamInv

\* The objects that were not begun are not begun by this byte, unless it is a
\* brace that is not on a fence's line.
LEMMA NoObjectHere ==
    ASSUME pos \in Nat, StreamInv, Reading, ~capturing,
           completed \/ Byte # "lbrace" \/ OnFence(doc, pos + 1)
    PROVE  /\ \A k \in 1..Len(doc.items) :
                 IF k <= Count THEN doc.items[k].to < pos + 1 ELSE doc.items[k].from > pos + 1
           /\ ~Inside(doc, pos + 1)
  <1> DEFINE n == Len(doc.items)
  <1>1. /\ Front = pos + 1 /\ doc \in Documents
        /\ PlaceInv /\ Byte = doc.text[pos + 1]
        /\ completed => Count = n
    BY AtByte DEF Front, AfterDoc
  <1>4. pos \in Nat /\ Count \in Nat /\ n \in Nat
    BY AtByte
  <1>2. ASSUME NEW k \in 1..Len(doc.items)
        PROVE  IF k <= Count THEN doc.items[k].to < pos + 1 ELSE doc.items[k].from > pos + 1
    <2>1. /\ doc.items[k].from \in Nat /\ doc.items[k].to \in Nat
          /\ doc.text[doc.items[k].from] = "lbrace" /\ ~OnFence(doc, doc.items[k].from)
      BY <1>1, Docs
    <2>2. IF k <= Count THEN doc.items[k].to < pos + 1 ELSE doc.items[k].from >= pos + 1
      BY <1>1 DEF PlaceInv
    <2>5. k \in Nat /\ k <= n
      BY <1>4
    <2>3. ASSUME doc.items[k].from = pos + 1
          PROVE  k <= Count
      <3>1. doc.text[pos + 1] = "lbrace" /\ ~OnFence(doc, pos + 1)
        BY <2>1, <2>3
      <3>2. completed
        BY <1>1, <3>1
      <3>3. Count = n
        BY <1>1, <3>2
      <3>4. QED
        BY <2>5, <3>3
    <2>4. QED
      <3> DEFINE a == doc.items[k].from
                 b == doc.items[k].to
      <3>1. a \in Nat /\ b \in Nat /\ (a = pos + 1 => k <= Count)
            /\ IF k <= Count THEN b < pos + 1 ELSE a >= pos + 1
        BY <2>1, <2>2, <2>3
      <3> HIDE DEF a, b
      <3>2. IF k <= Count THEN b < pos + 1 ELSE a > pos + 1
        BY <1>4, <2>5, <3>1
      <3>3. QED
        BY <3>2 DEF a, b
  <1>3. ~Inside(doc, pos + 1)
    <2>1. ASSUME NEW k \in 1..Len(doc.items),
                 doc.items[k].from <= pos + 1, pos + 1 <= doc.items[k].to
          PROVE  FALSE
      <3>1. doc.items[k].from \in Nat /\ doc.items[k].to \in Nat
        BY <1>1, Docs
      <3>2. IF k <= Count THEN doc.items[k].to < pos + 1 ELSE doc.items[k].from > pos + 1
        BY <1>2
      <3> DEFINE a == doc.items[k].from
                 b == doc.items[k].to
      <3>3. /\ a \in Nat /\ b \in Nat /\ a <= pos + 1 /\ pos + 1 <= b
            /\ IF k <= Count THEN b < pos + 1 ELSE a > pos + 1
        BY <2>1, <3>1, <3>2
      <3> HIDE DEF a, b
      <3>4. QED
        BY <1>4, <3>3
    <2>2. QED
      BY <2>1 DEF Inside
  <1>5. QED
    BY <1>2, <1>3

\* A byte that is skipped outside the document.
LEMMA SkipHolds ==
    ASSUME StreamInv, Reading, completed \/ ~started, SkipFenceOrSpace
    PROVE  StreamInv'
  <1>1. /\ pos \in Nat /\ doc \in Documents /\ Count \in Nat /\ PlaceInv /\ CaptureInv /\ BeforeDoc
        /\ AfterDoc /\ FenceInv /\ ObjectInv /\ Byte = doc.text[pos + 1] /\ Len(doc.items) \in Nat
    BY AtByte
  <1>2. /\ pos' = pos + 1
        /\ UNCHANGED <<doc, sizeLimit, mode, completed, capturing, depth, inString, escape, from,
                       out, yielded, failure, stopped, pc>>
        /\ skippingFence' = IF skippingFence THEN Byte # "newline" ELSE Byte = "backquote"
    BY DEF SkipFenceOrSpace, Reading, Accept, seenVars
  <1>3. ~capturing /\ (skippingFence <=> OnFence(doc, pos + 1))
    BY <1>1 DEF CaptureInv, FenceInv
  <1>4. completed \/ Byte # "lbrace" \/ OnFence(doc, pos + 1)
    BY <1>3 DEF SkipFenceOrSpace, Space
  <1>5. /\ \A k \in 1..Len(doc.items) :
              IF k <= Count THEN doc.items[k].to < pos + 1 ELSE doc.items[k].from > pos + 1
        /\ ~Inside(doc, pos + 1)
    BY <1>1, <1>3, <1>4, NoObjectHere
  <1>6. Quiet
    BY <1>2 DEF Quiet, SkipFenceOrSpace, StreamInv, StreamTypes
  <1>7. Count' = Count /\ Front' = pos + 2 /\ ~capturing'
    BY <1>1, <1>2, <1>3 DEF Count, Front
  <1>8. PlaceInv'
    <2>1. Count <= Len(doc.items)
      BY <1>1 DEF PlaceInv
    <2>2. ASSUME NEW k \in 1..Len(doc.items)
          PROVE  IF k <= Count THEN doc.items[k].to < pos + 2 ELSE doc.items[k].from >= pos + 2
      <3>1. doc.items[k].from \in Nat /\ doc.items[k].to \in Nat
        BY <1>1, Docs
      <3>2. QED
        BY <1>1, <1>5, <3>1
    <2>3. QED
      BY <1>2, <1>7, <2>1, <2>2 DEF PlaceInv
  <1>9. CaptureInv' /\ AfterDoc' /\ ObjectInv'
    BY <1>1, <1>2, <1>3, <1>7 DEF CaptureInv, AfterDoc, ObjectInv
  <1>10. OnFence(doc, pos + 2) <=> \/ OnFence(doc, pos + 1) /\ doc.text[pos + 1] # "newline"
                                   \/ doc.text[pos + 1] = "backquote" /\ ~Inside(doc, pos + 1)
    <2>1. pos + 1 \in Nat /\ 1 <= pos + 1 /\ (pos + 1) + 1 = pos + 2
      BY <1>1
    <2>2. QED
      BY <2>1, FenceStep
  <1>11. skippingFence' <=> OnFence(doc, pos + 2)
    BY <1>1, <1>2, <1>3, <1>5, <1>10
  <1>12. FenceInv'
    <2>1. pos' + 1 = pos + 2
      BY <1>1, <1>2
    <2>2. ~(started' /\ ~completed')
      BY <1>2 DEF started
    <2>3. skippingFence' <=> OnFence(doc', pos' + 1)
      BY <1>2, <1>11, <2>1
    <2>4. QED
      BY <2>2, <2>3 DEF FenceInv
  <1>13. BeforeDoc'
    <2>1. ASSUME ~started
          PROVE  \A p \in Nat : 1 <= p /\ p <= pos + 1 /\ doc.text[p] \in {"lbrace", "lbracket"}
                                => OnFence(doc, p)
      <3>1. ASSUME doc.text[pos + 1] \in {"lbrace", "lbracket"}
            PROVE  OnFence(doc, pos + 1)
        BY <1>1, <1>3, <3>1 DEF SkipFenceOrSpace, Space
      <3>2. ASSUME NEW p \in Nat, 1 <= p, p <= pos + 1, doc.text[p] \in {"lbrace", "lbracket"}
            PROVE  OnFence(doc, p)
        <4>1. CASE p = pos + 1
          BY <3>1, <3>2, <4>1
        <4>2. CASE p # pos + 1
          <5>1. p <= pos
            BY <1>1, <3>2, <4>2
          <5>2. QED
            BY <1>1, <2>1, <3>2, <5>1 DEF BeforeDoc
        <4>3. QED
          BY <4>1, <4>2
      <3>3. QED
        BY <3>2
    <2>2. started' <=> started
      BY <1>2 DEF started
    <2>3. ~started => ~completed /\ ~capturing /\ Count = 0
      BY <1>1 DEF BeforeDoc
    <2>4. QED
      BY <1>2, <1>7, <2>1, <2>2, <2>3 DEF BeforeDoc
  <1>14. QED
    BY <1>6, <1>8, <1>9, <1>12, <1>13, QuietHolds

\* The first byte of an object that is captured.
LEMMA StartHolds ==
    ASSUME StreamInv, Reading, StartCapture, Byte = "lbrace", ~capturing, ~completed,
           ~OnFence(doc, pos + 1),
           \/ /\ ~started /\ mode' = "object" /\ ~skippingFence
           \/ /\ mode = "array" /\ mode' = mode
    PROVE  StreamInv'
  <1>1. /\ pos \in Nat /\ doc \in Documents /\ Count \in Nat /\ PlaceInv /\ CaptureInv /\ BeforeDoc
        /\ AfterDoc /\ FenceInv /\ ObjectInv /\ Byte = doc.text[pos + 1] /\ Len(doc.items) \in Nat
    BY AtByte
  <1>2. /\ pos' = pos + 1 /\ from' = pos + 1 /\ capturing' = TRUE /\ depth' = 1
        /\ inString' = FALSE /\ escape' = FALSE
        /\ UNCHANGED <<doc, sizeLimit, completed, skippingFence, out, yielded, failure, stopped, pc>>
    BY DEF StartCapture, Reading, Accept, seenVars
  <1>3. Quiet
    <2>1. mode' \in {"unknown", "object", "array"} /\ depth' \in Nat /\ from' \in Nat
      BY <1>1, <1>2
    <2>2. /\ completed' \in BOOLEAN /\ skippingFence' \in BOOLEAN /\ capturing' \in BOOLEAN
          /\ inString' \in BOOLEAN /\ escape' \in BOOLEAN
      BY <1>2 DEF StreamInv, StreamTypes
    <2>3. Accept /\ UNCHANGED out
      BY DEF StartCapture
    <2>4. QED
      BY <2>1, <2>2, <2>3 DEF Quiet
  <1>4. Count' = Count /\ Front' = pos + 1 /\ Front = pos + 1
    BY <1>1, <1>2 DEF Count, Front
  <1>5. PlaceInv' /\ AfterDoc'
    BY <1>1, <1>2, <1>4 DEF PlaceInv, AfterDoc
  <1>6. started' /\ ~completed' /\ mode' \in {"object", "array"}
    BY <1>2 DEF started
  <1>7. CaptureInv' /\ BeforeDoc'
    BY <1>1, <1>2, <1>6 DEF CaptureInv, BeforeDoc
  <1>8. FenceInv'
    <2>1. ~skippingFence
      BY <1>1 DEF FenceInv, started
    <2>2. ~OnFence(doc', Front')
      BY <1>2, <1>4
    <2>3. QED
      BY <1>2, <1>6, <2>1, <2>2 DEF FenceInv
  <1>9. ObjectInv'
    <2>1. CASE ~started
      <3>1. Count = 0
        BY <1>1, <2>1 DEF BeforeDoc
      <3>2. ASSUME NEW p \in Nat, 1 <= p, p < pos + 1, doc.text[p] = "lbracket"
            PROVE  OnFence(doc, p)
        <4>1. p <= pos
          BY <1>1, <3>2
        <4>2. QED
          BY <1>1, <2>1, <3>2, <4>1 DEF BeforeDoc
      <3>3. QED
        BY <1>2, <1>4, <3>1, <3>2 DEF ObjectInv
    <2>2. CASE mode = "array" /\ mode' = mode
      BY <2>2 DEF ObjectInv
    <2>3. QED
      BY <2>1, <2>2
  <1>10. QED
    BY <1>3, <1>5, <1>7, <1>8, <1>9, QuietHolds

\* A byte outside of the document.
LEMMA OutsideHolds == ASSUME StreamInv, Reading, Outside PROVE StreamInv'
  <1>1. /\ pos \in Nat /\ doc \in Documents /\ Count \in Nat /\ PlaceInv /\ CaptureInv /\ BeforeDoc
        /\ AfterDoc /\ FenceInv /\ ObjectInv /\ Byte = doc.text[pos + 1] /\ Len(doc.items) \in Nat
    BY AtByte
  <1>2. completed \/ ~started
    BY DEF Outside
  <1>3. ~capturing /\ (skippingFence <=> OnFence(doc, pos + 1))
    BY <1>1, <1>2 DEF CaptureInv, FenceInv
  <1>4. CASE SkipFenceOrSpace
    BY <1>2, <1>4, SkipHolds
  <1>5. CASE ~skippingFence /\ ~started /\ StartObjectMode
    <2>1. ~completed
      BY <1>1, <1>5 DEF BeforeDoc
    <2>2. StartCapture /\ Byte = "lbrace" /\ mode' = "object"
      BY <1>5 DEF StartObjectMode
    <2>3. QED
      BY <1>3, <1>5, <2>1, <2>2, StartHolds
  <1>6. CASE ~skippingFence /\ ~started /\ StartArrayMode
    <2>1. /\ pos' = pos + 1 /\ mode' = "array" /\ Byte = "lbracket"
          /\ UNCHANGED <<doc, sizeLimit, completed, capturing, depth, inString, escape, from,
                         skippingFence, out, yielded, failure, stopped, pc>>
      BY <1>6 DEF StartArrayMode, Reading, Accept, seenVars
    <2>2. ~completed /\ Count = 0
      BY <1>1, <1>6 DEF BeforeDoc
    <2>3. Quiet
      BY <1>1, <1>6, <2>1 DEF Quiet, StartArrayMode, StreamInv, StreamTypes
    <2>4. Count' = Count /\ Front' = pos + 2 /\ ~capturing'
      BY <1>1, <1>3, <2>1 DEF Count, Front
    <2>5. /\ \A k \in 1..Len(doc.items) :
                IF k <= Count THEN doc.items[k].to < pos + 1 ELSE doc.items[k].from > pos + 1
          /\ ~Inside(doc, pos + 1)
      <3>1. Byte # "lbrace"
        BY <2>1
      <3>2. QED
        BY <1>1, <1>3, <3>1, NoObjectHere
    <2>6. PlaceInv'
      <3>1. Count <= Len(doc.items)
        BY <1>1 DEF PlaceInv
      <3>2. ASSUME NEW k \in 1..Len(doc.items)
            PROVE  IF k <= Count THEN doc.items[k].to < pos + 2 ELSE doc.items[k].from >= pos + 2
        <4>1. doc.items[k].from \in Nat /\ doc.items[k].to \in Nat
          BY <1>1, Docs
        <4>2. QED
          BY <1>1, <2>5, <4>1
      <3>3. QED
        BY <2>1, <2>4, <3>1, <3>2 DEF PlaceInv
    <2>7. started' /\ ~completed'
      BY <2>1, <2>2 DEF started
    <2>8. CaptureInv' /\ AfterDoc' /\ ObjectInv' /\ BeforeDoc'
      BY <1>1, <1>3, <2>1, <2>4, <2>7 DEF CaptureInv, AfterDoc, ObjectInv, BeforeDoc
    <2>9. FenceInv'
      <3>1. ~OnFence(doc, (pos + 1) + 1)
        <4>1. pos + 1 \in Nat /\ 1 <= pos + 1
          BY <1>1
        <4>2. ~OnFence(doc, pos + 1) /\ doc.text[pos + 1] # "backquote"
          BY <1>1, <1>3, <1>6, <2>1
        <4>3. QED
          BY <4>1, <4>2, FenceStep
      <3>2. (pos + 1) + 1 = pos + 2
        BY <1>1
      <3>3. ~OnFence(doc', Front')
        BY <2>1, <2>4, <3>1, <3>2
      <3>4. QED
        BY <1>6, <2>1, <2>7, <3>3 DEF FenceInv
    <2>10. QED
      BY <2>3, <2>6, <2>8, <2>9, QuietHolds
  <1>7. CASE \E why \in Refusals : Reject(why)
    BY <1>7, RejectHolds
  <1>8. QED
    BY <1>4, <1>5, <1>6, <1>7 DEF Outside, Refusals

\* A byte between the objects of an array.
LEMMA BetweenHolds == ASSUME StreamInv, Reading, BetweenItems PROVE StreamInv'
  <1>1. /\ pos \in Nat /\ doc \in Documents /\ Count \in Nat /\ PlaceInv /\ CaptureInv /\ BeforeDoc
        /\ AfterDoc /\ FenceInv /\ ObjectInv /\ Byte = doc.text[pos + 1] /\ Len(doc.items) \in Nat
    BY AtByte
  <1>2. mode = "array" /\ started /\ ~completed /\ ~capturing
    BY DEF BetweenItems, started
  <1>3. ~skippingFence /\ ~OnFence(doc, pos + 1) /\ Front = pos + 1
    BY <1>1, <1>2 DEF FenceInv, Front
  <1>4. CASE \/ Byte \in Space \cup {"comma"} /\ Accept /\ UNCHANGED <<parserVars, out>>
             \/ /\ Byte = "rbracket" /\ completed' = TRUE /\ Accept
                /\ UNCHANGED <<mode, skippingFence, capturing, depth, inString, escape, from, out>>
    <2>a. /\ pos' = pos + 1 /\ Accept
          /\ UNCHANGED <<doc, sizeLimit, mode, capturing, depth, inString, escape, from,
                         skippingFence, out>>
      BY <1>4 DEF Reading, parserVars
    <2>b. UNCHANGED <<yielded, failure, stopped, pc>>
      BY <2>a DEF Accept, seenVars
    <2>c. Byte # "lbrace" /\ Byte # "backquote"
      BY <1>4 DEF Space
    <2>d. \/ Byte = "rbracket" /\ completed' = TRUE
          \/ completed' = completed
      BY <1>4 DEF parserVars
    <2>e. /\ \/ Byte = "rbracket" /\ completed'
             \/ ~completed'
          /\ completed' \in BOOLEAN
      <3>1. ~completed /\ completed \in BOOLEAN
        BY <1>2 DEF StreamInv, StreamTypes
      <3>2. CASE Byte = "rbracket" /\ completed' = TRUE
        BY <3>2
      <3>3. CASE completed' = completed
        BY <3>1, <3>3
      <3>4. QED
        BY <2>d, <3>2, <3>3
    <2>1. /\ pos' = pos + 1 /\ Byte # "lbrace" /\ Byte # "backquote"
          /\ UNCHANGED <<doc, sizeLimit, mode, capturing, depth, inString, escape, from,
                         skippingFence, out, yielded, failure, stopped, pc>>
          /\ \/ Byte = "rbracket" /\ completed'
             \/ ~completed'
          /\ completed' \in BOOLEAN
      BY <2>a, <2>b, <2>c, <2>e
    <2>2. Quiet
      BY <1>1, <1>4, <2>1 DEF Quiet, StreamInv, StreamTypes
    <2>3. Count' = Count /\ Front' = pos + 2 /\ ~capturing'
      BY <1>1, <1>2, <2>1 DEF Count, Front
    <2>4. /\ \A k \in 1..Len(doc.items) :
                IF k <= Count THEN doc.items[k].to < pos + 1 ELSE doc.items[k].from > pos + 1
          /\ ~Inside(doc, pos + 1)
      BY <1>1, <1>2, <2>1, NoObjectHere
    <2>5. PlaceInv'
      <3>1. Count <= Len(doc.items)
        BY <1>1 DEF PlaceInv
      <3>2. ASSUME NEW k \in 1..Len(doc.items)
            PROVE  IF k <= Count THEN doc.items[k].to < pos + 2 ELSE doc.items[k].from >= pos + 2
        <4>1. doc.items[k].from \in Nat /\ doc.items[k].to \in Nat
          BY <1>1, Docs
        <4>2. QED
          BY <1>1, <2>4, <4>1
      <3>3. QED
        BY <2>1, <2>3, <3>1, <3>2 DEF PlaceInv
    <2>6. CaptureInv' /\ ObjectInv' /\ BeforeDoc'
      BY <1>1, <1>2, <2>1, <2>3 DEF CaptureInv, ObjectInv, BeforeDoc, started
    <2>7. FenceInv'
      <3>1. ~OnFence(doc, (pos + 1) + 1)
        <4>1. pos + 1 \in Nat /\ 1 <= pos + 1
          BY <1>1
        <4>2. ~OnFence(doc, pos + 1) /\ doc.text[pos + 1] # "backquote"
          BY <1>1, <1>3, <2>1
        <4>3. QED
          BY <4>1, <4>2, FenceStep
      <3>2. (pos + 1) + 1 = pos + 2
        BY <1>1
      <3>3. ~OnFence(doc', Front') /\ ~OnFence(doc', pos' + 1)
        BY <2>1, <2>3, <3>1, <3>2
      <3>4. QED
        BY <1>3, <2>1, <3>3 DEF FenceInv
    <2>8. AfterDoc'
      <3>1. ASSUME Byte = "rbracket", Count # Len(doc.items)
            PROVE  FALSE
        <4>1. Count <= Len(doc.items)
          BY <1>1 DEF PlaceInv
        <4>2. Count + 1 \in 1..Len(doc.items) /\ ~(Count + 1 <= Count)
          BY <1>1, <3>1, <4>1
        <4>3. pos + 1 < doc.items[Count + 1].from
          <5>1. doc.items[Count + 1].from > pos + 1
            BY <2>4, <4>2
          <5>2. doc.items[Count + 1].from \in Nat
            BY <1>1, <4>2, Docs
          <5>3. QED
            BY <1>1, <5>1, <5>2
        <4>4. pos + 1 \in Nat /\ 1 <= pos + 1 /\ doc.text[pos + 1] = "rbracket"
          BY <1>1, <3>1
        <4>5. Inside(doc, pos + 1) \/ OnFence(doc, pos + 1)
          BY <1>1, <4>2, <4>3, <4>4, NothingAfterTheArray
        <4>6. QED
          BY <1>3, <2>4, <4>5
      <3>2. QED
        BY <2>1, <2>3, <3>1 DEF AfterDoc
    <2>9. QED
      BY <2>2, <2>5, <2>6, <2>7, <2>8, QuietHolds
  <1>5. CASE Byte = "lbrace" /\ StartCapture /\ UNCHANGED mode
    BY <1>2, <1>3, <1>5, StartHolds
  <1>6. CASE Reject("unsupported")
    BY <1>6, RejectHolds DEF Refusals
  <1>7. QED
    BY <1>4, <1>5, <1>6 DEF BetweenItems

\* A byte inside of an object, which the object goes on after.
LEMMA InsideHolds ==
    ASSUME StreamInv, Reading, Quiet, InCapture, capturing', completed' = completed, depth' > 0,
           UNCHANGED <<mode, skippingFence, from>>
    PROVE  StreamInv'
  <1>1. /\ pos \in Nat /\ doc \in Documents /\ Count \in Nat /\ PlaceInv /\ CaptureInv /\ BeforeDoc
        /\ AfterDoc /\ FenceInv /\ ObjectInv /\ Byte = doc.text[pos + 1] /\ Len(doc.items) \in Nat
    BY AtByte
  <1>2. /\ pos' = pos + 1 /\ UNCHANGED <<doc, sizeLimit, out, yielded>>
    BY DEF Quiet, Reading, Accept, seenVars
  <1>3. started /\ ~completed /\ capturing
    BY DEF InCapture
  <1>4. /\ Count' = Count /\ Front' = Front /\ Front = from
    BY <1>2, <1>3 DEF Count, Front
  <1>5. PlaceInv'
    BY <1>1, <1>2, <1>4 DEF PlaceInv
  <1>6. started' /\ ~completed'
    BY <1>3 DEF started
  <1>7. CaptureInv'
    <2>1. 1 <= from /\ from <= pos /\ doc.text[from] = "lbrace" /\ from \in Nat
      BY <1>1, <1>3 DEF CaptureInv, StreamInv, StreamTypes
    <2>2. 1 <= from' /\ from' <= pos' /\ doc'.text[from'] = "lbrace"
      BY <1>1, <1>2, <2>1
    <2>3. QED
      BY <1>6, <2>2 DEF CaptureInv
  <1>8. BeforeDoc' /\ AfterDoc'
    BY <1>6 DEF BeforeDoc, AfterDoc
  <1>9. FenceInv'
    BY <1>1, <1>2, <1>3, <1>4, <1>6 DEF FenceInv
  <1>10. ObjectInv'
    BY <1>1, <1>2, <1>3, <1>4 DEF ObjectInv
  <1>11. QED
    BY <1>5, <1>7, <1>8, <1>9, <1>10, QuietHolds

LEMMA StringHolds == ASSUME StreamInv, Reading, StringByte PROVE StreamInv'
  <1>1. /\ InCapture /\ Accept
        /\ UNCHANGED <<mode, completed, skippingFence, capturing, depth, from, out>>
        /\ escape' = (~escape /\ Byte = "backslash") /\ inString' = (escape \/ Byte # "quote")
    BY DEF StringByte
  <1>2. depth > 0 /\ depth \in Nat
    BY <1>1, AtByte DEF CaptureInv, InCapture, StreamInv, StreamTypes
  <1>3. escape' \in BOOLEAN /\ inString' \in BOOLEAN
    BY <1>1
  <1>4. Quiet
    BY <1>1, <1>3 DEF Quiet, StreamInv, StreamTypes
  <1>5. capturing' /\ depth' > 0
    BY <1>1, <1>2 DEF InCapture
  <1>6. QED
    BY <1>1, <1>4, <1>5, InsideHolds

LEMMA StructureHolds == ASSUME StreamInv, Reading, StructureByte PROVE StreamInv'
  <1>1. /\ InCapture /\ Accept
        /\ UNCHANGED <<mode, completed, skippingFence, capturing, escape, from, out>>
        /\ inString' = (Byte = "quote")
        /\ depth + Nesting(Byte) > 0 /\ depth' = depth + Nesting(Byte)
    BY DEF StructureByte
  <1>2. depth \in Nat /\ Nesting(Byte) \in Int
    BY DEF Nesting, StreamInv, StreamTypes
  <1>3. depth' \in Nat /\ depth' > 0
    BY <1>1, <1>2
  <1>4. inString' \in BOOLEAN
    BY <1>1
  <1>5. Quiet
    BY <1>1, <1>3, <1>4 DEF Quiet, StreamInv, StreamTypes
  <1>6. capturing'
    BY <1>1 DEF InCapture
  <1>7. QED
    BY <1>1, <1>3, <1>5, <1>6, InsideHolds

\* The object that is captured is the next one, and what follows it is on no
\* fence's line.
LEMMA CapturedIsNext ==
    ASSUME StreamInv, Reading, InCapture, NEW i \in Captured
    PROVE  /\ i = Count + 1 /\ i \in 1..Len(doc.items)
           /\ doc.items[i].from = from /\ doc.items[i].to = pos + 1
           /\ from \in Nat /\ 1 <= from /\ from <= pos
           /\ ~OnFence(doc, pos + 2)
  <1> DEFINE n == Len(doc.items)
  <1>1. /\ pos \in Nat /\ doc \in Documents /\ Count \in Nat /\ PlaceInv /\ CaptureInv
        /\ FenceInv /\ n \in Nat
    BY AtByte
  <1>2. started /\ ~completed /\ capturing /\ Front = from
    BY DEF InCapture, Front
  <1>3. from \in Nat /\ 1 <= from /\ from <= pos
    BY <1>1, <1>2 DEF CaptureInv, StreamInv, StreamTypes
  <1>4. i \in 1..n /\ doc.items[i].from = from /\ doc.items[i].to = pos + 1
    BY DEF Captured
  <1>5. ASSUME i <= Count
        PROVE  FALSE
    <2>1. doc.items[i].to < from
      BY <1>1, <1>2, <1>4, <1>5 DEF PlaceInv
    <2>2. QED
      BY <1>1, <1>3, <1>4, <2>1
  <1>6. ASSUME Count + 1 < i
        PROVE  FALSE
    <2>1. Count + 1 \in 1..n /\ ~(Count + 1 <= Count)
      BY <1>1, <1>4, <1>6
    <2> DEFINE a == doc.items[Count + 1].from
               b == doc.items[Count + 1].to
    <2>2. a \in Nat /\ b \in Nat /\ a <= b
      BY <1>1, <2>1, Docs
    <2>3. b < from
      BY <1>1, <1>4, <1>6, <2>1, Docs
    <2>4. a >= from
      BY <1>2, <1>1, <2>1 DEF PlaceInv
    <2> HIDE DEF a, b
    <2>5. QED
      BY <1>3, <2>2, <2>3, <2>4
  <1>7. i = Count + 1
    <2>1. i \in Nat
      BY <1>1, <1>4
    <2>2. QED
      BY <1>1, <1>5, <1>6, <2>1
  <1>8. ~OnFence(doc, (pos + 1) + 1)
    <2>1. ~OnFence(doc, from)
      BY <1>1, <1>2 DEF FenceInv
    <2>2. \A p \in from..(pos + 1) : Inside(doc, p)
      BY <1>1, <1>3, <1>4 DEF Inside
    <2>3. pos + 1 \in Nat /\ from <= pos + 1
      BY <1>1, <1>3
    <2>4. QED
      BY <1>3, <2>1, <2>2, <2>3, FenceJump
  <1>9. (pos + 1) + 1 = pos + 2
    BY <1>1
  <1>10. QED
    BY <1>3, <1>4, <1>7, <1>8, <1>9

\* An object that is not in an array is the only one.
LEMMA ObjectIsAlone ==
    ASSUME StreamInv, Reading, InCapture, mode = "object"
    PROVE  Count = 0 /\ Len(doc.items) <= 1
  <1>1. /\ pos \in Nat /\ doc \in Documents /\ CaptureInv /\ FenceInv /\ ObjectInv /\ Len(doc.items) \in Nat
    BY AtByte
  <1>2. started /\ ~completed /\ capturing /\ Front = from
    BY DEF InCapture, Front
  <1>3. from \in Nat /\ 1 <= from /\ doc.text[from] = "lbrace" /\ ~OnFence(doc, from)
    BY <1>1, <1>2 DEF CaptureInv, FenceInv, StreamInv, StreamTypes
  <1>4. /\ Count = 0
        /\ \A p \in Nat : 1 <= p /\ p < from /\ doc.text[p] = "lbracket" => OnFence(doc, p)
    BY <1>1, <1>2 DEF ObjectInv
  <1>5. ASSUME Len(doc.items) > 1
        PROVE  FALSE
    <2>1. PICK z \in Nat : /\ 1 <= z /\ doc.text[z] = "lbracket" /\ ~OnFence(doc, z)
                           /\ \A p \in Nat : 1 <= p /\ p < z /\ doc.text[p] = "lbrace" => OnFence(doc, p)
      BY <1>1, <1>5, SeveralAreAnArray
    <2>2. ~(z < from)
      BY <1>4, <2>1
    <2>3. z # from
      BY <1>3, <2>1
    <2>4. ~(from < z)
      BY <1>3, <2>1
    <2>5. QED
      BY <1>3, <2>2, <2>3, <2>4
  <1>6. QED
    BY <1>1, <1>4, <1>5

LEMMA CompleteHolds == ASSUME StreamInv, Reading, CompleteObject PROVE StreamInv'
  <1>1. /\ pos \in Nat /\ doc \in Documents /\ Count \in Nat /\ PlaceInv /\ CaptureInv /\ BeforeDoc
        /\ AfterDoc /\ FenceInv /\ ObjectInv /\ Len(doc.items) \in Nat
        /\ Len(yielded) \in Nat /\ Len(out) \in Nat /\ Len(doc.text) \in Nat
    BY AtByte
  <1>2. InCapture /\ ~TooLarge
    BY DEF CompleteObject
  <1>3. ASSUME NEW i \in Captured, doc.items[i].good, depth' = 0, capturing' = FALSE,
               completed' = (mode = "object"), out' = Append(out, i), Accept,
               UNCHANGED <<mode, skippingFence, inString, escape, from>>
        PROVE  StreamInv'
    <2> DEFINE n == Len(doc.items)
    <2>1. /\ i = Count + 1 /\ i \in 1..n
          /\ doc.items[i].from = from /\ doc.items[i].to = pos + 1
          /\ from \in Nat /\ 1 <= from /\ from <= pos
          /\ ~OnFence(doc, pos + 2)
      BY <1>2, CapturedIsNext
    <2>2. /\ pos' = pos + 1 /\ pos + 1 <= Len(doc.text) /\ pc = "feed"
          /\ UNCHANGED <<doc, sizeLimit, pc, yielded, failure, stopped>>
      BY <1>1, <1>3 DEF Reading, Accept, seenVars
    <2>3. started /\ ~completed /\ capturing /\ Front = from
      BY <1>2 DEF InCapture, Front
    <2>4. out \in Seq(Nat) /\ i \in Nat /\ sizeLimit \in Nat
      BY <1>1, <2>1 DEF StreamInv, StreamTypes
    <2>5. Len(out') = Len(out) + 1 /\ Count' = Count + 1 /\ Front' = pos + 2 /\ out' \in Seq(Nat)
      <3>1. Len(out') = Len(out) + 1 /\ out' \in Seq(Nat)
        BY <1>3, <2>4
      <3>2. Count' = Len(yielded) + Len(out')
        BY <2>2 DEF Count
      <3>3. Front' = pos' + 1
        BY <1>3 DEF Front
      <3>4. QED
        BY <1>1, <2>2, <3>1, <3>2, <3>3 DEF Count
    <2>6. Fits(i)
      <3>1. sizeLimit = 0 \/ pos - from + 2 <= sizeLimit
        BY <1>1, <1>2, <2>1, <2>4 DEF TooLarge
      <3>2. (pos + 1) - from + 1 = pos - from + 2
        BY <1>1, <2>1
      <3>3. QED
        BY <2>1, <3>1, <3>2 DEF Fits
    <2>7. completed' \in BOOLEAN /\ (completed' <=> mode = "object")
      BY <1>3
    <2>8. StreamTypes'
      <3>1. /\ pos' \in Nat /\ pos' <= Len(doc'.text) /\ depth' \in Nat /\ from' \in Nat /\ capturing' \in BOOLEAN
        <4>1. pos' = pos + 1 /\ doc' = doc /\ depth' = 0 /\ from' = from /\ capturing' = FALSE
          BY <1>3, <2>2
        <4>2. pos + 1 \in Nat /\ pos + 1 <= Len(doc.text) /\ from \in Nat
          BY <1>1, <2>1, <2>2
        <4>3. QED
          BY <4>1, <4>2
      <3>2. QED
        BY <1>3, <2>2, <2>5, <2>7, <3>1 DEF StreamInv, StreamTypes
    <2>9. YieldInv'
      <3>1. Decoded(i)
        BY <1>3, <2>1, <2>6 DEF Decoded
      <3>2. ASSUME NEW k \in 1..Len(out')
            PROVE  out'[k] = Len(yielded) + k /\ Decoded(Len(yielded) + k)
        <4>1. k \in Nat /\ (k \in 1..Len(out) \/ k = Len(out) + 1)
          BY <1>1, <2>5
        <4>2. CASE k \in 1..Len(out)
          <5>1. out'[k] = out[k]
            BY <1>3, <2>4, <4>2
          <5>2. QED
            BY <4>2, <5>1 DEF StreamInv, YieldInv
        <4>3. CASE k = Len(out) + 1
          <5>1. out'[k] = i
            BY <1>3, <2>4, <4>3
          <5>2. Len(yielded) + k = i
            BY <1>1, <2>1, <4>3 DEF Count
          <5>3. QED
            BY <3>1, <5>1, <5>2
        <4>4. QED
          BY <4>1, <4>2, <4>3
      <3>3. \A k \in 1..Len(yielded) : yielded[k] = k /\ Decoded(k)
        BY DEF StreamInv, YieldInv
      <3>4. QED
        BY <2>2, <3>2, <3>3 DEF YieldInv, Decoded, Fits
    <2>10. PlaceInv'
      <3>1. ASSUME NEW k \in 1..n
            PROVE  IF k <= Count + 1 THEN doc.items[k].to < pos + 2 ELSE doc.items[k].from >= pos + 2
        <4>1. doc.items[k].from \in Nat /\ doc.items[k].to \in Nat /\ k \in Nat
          BY <1>1, Docs
        <4>2. CASE k <= Count
          <5>1. doc.items[k].to < from
            BY <1>1, <2>3, <4>2 DEF PlaceInv
          <5>2. QED
            BY <1>1, <2>1, <4>1, <4>2, <5>1
        <4>3. CASE k = i
          BY <1>1, <2>1, <4>3
        <4>4. CASE i < k
          <5>1. doc.items[i].to < doc.items[k].from
            BY <1>1, <2>1, <4>4, Docs
          <5>2. QED
            BY <1>1, <2>1, <4>1, <4>4, <5>1
        <4>5. QED
          BY <1>1, <2>1, <4>1, <4>2, <4>3, <4>4
      <3>2. Count + 1 <= n
        BY <1>1, <2>1
      <3>3. QED
        BY <2>2, <2>5, <3>1, <3>2 DEF PlaceInv
    <2>11. CaptureInv' /\ BeforeDoc'
      BY <1>3, <2>3 DEF CaptureInv, BeforeDoc, started
    <2>12. AfterDoc'
      <3>1. ASSUME mode = "object" PROVE Count + 1 = n
        <4>1. Count = 0 /\ n <= 1
          BY <1>2, <3>1, ObjectIsAlone
        <4>2. i = 1 /\ n \in Nat /\ i \in 1..n
          BY <1>1, <2>1, <4>1
        <4> HIDE DEF n
        <4>3. n >= 1 /\ n <= 1
          BY <4>1, <4>2
        <4>4. QED
          BY <4>1, <4>2, <4>3
      <3>2. QED
        BY <2>2, <2>5, <2>7, <3>1 DEF AfterDoc
    <2>13. FenceInv'
      <3>1. ~skippingFence' /\ ~OnFence(doc', Front')
        BY <1>1, <1>3, <2>1, <2>2, <2>3, <2>5 DEF FenceInv
      <3>2. pos' + 1 = Front'
        BY <1>1, <2>2, <2>5
      <3>3. QED
        BY <3>1, <3>2 DEF FenceInv
    <2>14. ObjectInv'
      BY <1>3, <2>7 DEF ObjectInv
    <2>15. RunInv' /\ NoErrorMeansComplete'
      BY <1>1, <2>2, <2>10, <2>11, <2>12, <2>13, <2>14, AtByte DEF RunInv, NoErrorMeansComplete
    <2>16. QED
      BY <2>8, <2>9, <2>15 DEF StreamInv
  <1>4. CASE Reject("decode")
    BY <1>4, RejectHolds DEF Refusals
  <1>5. QED
    BY <1>3, <1>4 DEF CompleteObject

LEMMA OversizeHolds == ASSUME StreamInv, Reading, OversizeByte PROVE StreamInv'
  BY RejectHolds DEF OversizeByte, Refusals

LEMMA FeedHolds == ASSUME StreamInv, Feed PROVE StreamInv'
  <1>1. Reading
    BY DEF Feed, Reading
  <1>2. QED
    BY <1>1, OutsideHolds, BetweenHolds, StringHolds, StructureHolds, CompleteHolds, OversizeHolds
       DEF Feed, consumeByte

\* The state of the parser between two bytes says the same whatever else moves.
LEMMA ParserStays ==
    ASSUME StreamTypes, RunInv, pc # "done", Count' = Count, UNCHANGED <<sizeLimit, doc, pos, parserVars>>
    PROVE  PlaceInv' /\ CaptureInv' /\ BeforeDoc' /\ AfterDoc' /\ FenceInv' /\ ObjectInv'
  <1>1. PlaceInv /\ CaptureInv /\ BeforeDoc /\ AfterDoc /\ FenceInv /\ ObjectInv
    BY DEF RunInv
  <1>2. UNCHANGED <<mode, completed, skippingFence, capturing, depth, inString, escape, from>>
    BY DEF parserVars
  <1>3. Front' = Front
    BY <1>2 DEF Front
  <1>4. PlaceInv' /\ CaptureInv' /\ AfterDoc'
    BY <1>1, <1>2, <1>3 DEF PlaceInv, CaptureInv, AfterDoc, started
  <1>5. BeforeDoc' /\ FenceInv' /\ ObjectInv'
    BY <1>1, <1>2, <1>3 DEF BeforeDoc, FenceInv, ObjectInv, started
  <1>6. QED
    BY <1>4, <1>5

LEMMA PullOrFeedHolds ==
    ASSUME StreamInv, pc \in {"pull", "feed", "yield"}, pc' \in {"feed", "yield", "pull"},
           pc' = "pull" => out = <<>>,
           UNCHANGED <<sizeLimit, doc, pos, parserVars, out, seenVars>>
    PROVE  StreamInv'
  <1>1. pc # "done" /\ pc' # "done" /\ pc' \in {"pull", "feed", "yield", "done"}
    OBVIOUS
  <1>2. UNCHANGED <<mode, completed, skippingFence, capturing, depth, inString, escape, from,
                    yielded, failure, stopped>>
    BY DEF parserVars, seenVars
  <1>3. Count' = Count
    BY <1>2 DEF Count
  <1>4. PlaceInv' /\ CaptureInv' /\ BeforeDoc' /\ AfterDoc' /\ FenceInv' /\ ObjectInv'
    BY <1>1, <1>3, ParserStays DEF StreamInv
  <1>5. RunInv' /\ NoErrorMeansComplete'
    BY <1>1, <1>2, <1>4 DEF StreamInv, RunInv, NoErrorMeansComplete
  <1>6. StreamTypes'
    BY <1>1, <1>2 DEF StreamInv, StreamTypes
  <1>7. YieldInv'
    BY <1>2 DEF StreamInv, YieldInv, Decoded, Fits
  <1>8. QED
    BY <1>5, <1>6, <1>7 DEF StreamInv

LEMMA ChunkHolds == ASSUME StreamInv, NextChunk \/ ChunkEnds \/ ChunkDone PROVE StreamInv'
  BY PullOrFeedHolds DEF NextChunk, ChunkEnds, ChunkDone

LEMMA YieldHolds == ASSUME StreamInv, Yield PROVE StreamInv'
  <1>1. /\ out # <<>> /\ pc = "yield" /\ yielded' = Append(yielded, Head(out)) /\ out' = Tail(out)
        /\ UNCHANGED <<sizeLimit, doc, pos, failure>>
        /\ UNCHANGED <<mode, completed, skippingFence, capturing, depth, inString, escape, from>>
        /\ \/ stopped' = TRUE /\ pc' = "done"
           \/ pc' = pc
    BY DEF Yield, parserVars
  <1>2. out \in Seq(Nat) /\ yielded \in Seq(Nat)
    BY DEF StreamInv, StreamTypes
  <1>3. /\ Len(out) \in Nat /\ Len(out) >= 1 /\ Len(yielded) \in Nat
        /\ Len(out') = Len(out) - 1 /\ Len(yielded') = Len(yielded) + 1
        /\ out' \in Seq(Nat) /\ yielded' \in Seq(Nat) /\ Head(out) = out[1]
    BY <1>1, <1>2
  <1>4. Count' = Count
    BY <1>3 DEF Count
  <1>5. StreamTypes'
    <2>1. pc' \in {"pull", "feed", "yield", "done"}
      BY <1>1
    <2>2. QED
      BY <1>1, <1>3, <2>1 DEF StreamInv, StreamTypes
  <1>6. YieldInv'
    <2>1. /\ \A k \in 1..Len(yielded) : yielded[k] = k /\ Decoded(k)
          /\ \A k \in 1..Len(out) : out[k] = Len(yielded) + k /\ Decoded(Len(yielded) + k)
      BY DEF StreamInv, YieldInv
    <2>2. ASSUME NEW k \in 1..Len(yielded')
          PROVE  yielded'[k] = k /\ Decoded(k)
      <3>1. k \in 1..Len(yielded) \/ k = Len(yielded) + 1
        BY <1>3
      <3>2. CASE k \in 1..Len(yielded)
        <4>1. yielded'[k] = yielded[k]
          BY <1>1, <1>2, <3>2
        <4>2. QED
          BY <2>1, <3>2, <4>1
      <3>3. CASE k = Len(yielded) + 1
        <4>1. yielded'[k] = out[1]
          BY <1>1, <1>2, <1>3, <3>3
        <4>2. 1 \in 1..Len(out)
          BY <1>3
        <4>3. QED
          BY <2>1, <3>3, <4>1, <4>2
      <3>4. QED
        BY <3>1, <3>2, <3>3
    <2>3. ASSUME NEW k \in 1..Len(out')
          PROVE  out'[k] = Len(yielded') + k /\ Decoded(Len(yielded') + k)
      <3>1. k + 1 \in 1..Len(out) /\ k \in Nat
        BY <1>3
      <3>2. out'[k] = out[k + 1]
        BY <1>1, <1>2, <1>3
      <3>3. Len(yielded') + k = Len(yielded) + (k + 1)
        BY <1>3, <3>1
      <3>4. QED
        BY <2>1, <3>1, <3>2, <3>3
    <2>4. QED
      BY <1>1, <2>2, <2>3 DEF YieldInv, Decoded, Fits
  <1>7. PlaceInv' /\ CaptureInv' /\ BeforeDoc' /\ AfterDoc' /\ FenceInv' /\ ObjectInv'
    <2>1. UNCHANGED parserVars /\ pc # "done"
      BY <1>1 DEF parserVars
    <2>2. QED
      BY <1>1, <1>4, <2>1, ParserStays DEF StreamInv
  <1>8. RunInv' /\ NoErrorMeansComplete'
    <2>1. CASE stopped' = TRUE /\ pc' = "done"
      BY <2>1 DEF RunInv, NoErrorMeansComplete
    <2>2. CASE pc' = pc
      BY <1>1, <1>7, <2>2 DEF StreamInv, RunInv, NoErrorMeansComplete
    <2>3. QED
      BY <1>1, <2>1, <2>2
  <1>9. QED
    BY <1>5, <1>6, <1>8 DEF StreamInv

\* The stream ends where nothing is left to do.
LEMMA EndHolds == ASSUME StreamInv, ProviderFails \/ ProviderEnds PROVE StreamInv'
  <1>1. /\ pc = "pull" /\ pc' = "done" /\ UNCHANGED <<sizeLimit, doc, pos, out, yielded, stopped>>
        /\ UNCHANGED <<mode, completed, skippingFence, capturing, depth, inString, escape, from>>
        /\ failure' \in {"provider", "incomplete", "none"}
        /\ failure' = "none" => ~Incomplete
    BY DEF ProviderFails, ProviderEnds, parserVars
  <1>2. StreamTypes'
    BY <1>1 DEF StreamInv, StreamTypes, Failures
  <1>3. YieldInv'
    BY <1>1 DEF StreamInv, YieldInv, Decoded, Fits
  <1>4. NoErrorMeansComplete'
    <2>1. ASSUME ~Incomplete, started
          PROVE  Len(yielded) = Len(doc.items) /\ completed
      <3>1. out = <<>> /\ AfterDoc
        BY <1>1 DEF StreamInv, RunInv
      <3>2. completed
        BY <2>1 DEF Incomplete
      <3>3. Len(out) = 0 /\ Len(yielded) \in Nat
        BY <3>1 DEF StreamInv, StreamTypes
      <3>4. Count = Len(yielded)
        BY <3>3 DEF Count
      <3>5. QED
        BY <3>1, <3>2, <3>4 DEF AfterDoc
    <2>2. QED
      BY <1>1, <2>1 DEF NoErrorMeansComplete, started
  <1>5. RunInv'
    BY <1>1 DEF RunInv
  <1>6. QED
    BY <1>2, <1>3, <1>4, <1>5 DEF StreamInv

LEMMA StutterHolds == ASSUME StreamInv, UNCHANGED vars PROVE StreamInv'
  <1>1. UNCHANGED <<sizeLimit, doc, pos, pc, out, yielded, failure, stopped>>
        /\ UNCHANGED <<mode, completed, skippingFence, capturing, depth, inString, escape, from>>
        /\ UNCHANGED parserVars
    BY DEF vars, parserVars, seenVars
  <1>2. StreamTypes'
    BY <1>1 DEF StreamInv, StreamTypes
  <1>3. YieldInv' /\ NoErrorMeansComplete'
    BY <1>1 DEF StreamInv, YieldInv, Decoded, Fits, NoErrorMeansComplete, started
  <1>4. Count' = Count
    BY <1>1 DEF Count
  <1>5. RunInv'
    BY <1>1, <1>4, ParserStays DEF StreamInv, RunInv
  <1>6. QED
    BY <1>2, <1>3, <1>5 DEF StreamInv

\* The client and the middleware leave the parser's steps as they are.
LEMMA StepsAreTheStreams == [TracedNext]_allVars => [Next]_vars
  BY DEF TracedNext, ExecuteStream, TracedChunk, LastChunk, Parse, TracedEnd, Step, Next, allVars

LEMMA StreamStep == StreamInv /\ [TracedNext]_allVars => StreamInv'
  <1> SUFFICES ASSUME StreamInv, [TracedNext]_allVars PROVE StreamInv'
    OBVIOUS
  <1>1. [Next]_vars
    BY StepsAreTheStreams
  <1>2. CASE NextChunk \/ ChunkEnds \/ ChunkDone
    BY <1>2, ChunkHolds
  <1>3. CASE Feed
    BY <1>3, FeedHolds
  <1>4. CASE Yield
    BY <1>4, YieldHolds
  <1>5. CASE ProviderFails \/ ProviderEnds
    BY <1>5, EndHolds
  <1>6. CASE UNCHANGED vars
    BY <1>6, StutterHolds
  <1>7. QED
    BY <1>1, <1>2, <1>3, <1>4, <1>5, <1>6 DEF Next

LEMMA StreamHolds == TracedSpec => []StreamInv
  <1>1. TracedInit => StreamInv
    BY InitStream DEF TracedInit
  <1>2. QED
    BY <1>1, StreamStep, PTL DEF TracedSpec

(***************************************************************************)
(* However the text is cut into chunks and whatever fails, the consumer    *)
(* sees the objects of the document once each, from the first on, and only *)
(* ones that decode and fit the limit.                                     *)
(***************************************************************************)
THEOREM ObjectsComeInOrder == TracedSpec => []YieldsObjectsInOrder
  <1>1. StreamInv => YieldsObjectsInOrder
    BY DEF StreamInv, YieldInv, Decoded, YieldsObjectsInOrder
  <1>2. QED
    BY <1>1, StreamHolds, PTL

(***************************************************************************)
(* A stream that ends without an error has given the consumer every object *)
(* of the document that it had begun.                                      *)
(***************************************************************************)
THEOREM SilenceMeansComplete == TracedSpec => []NoErrorMeansComplete
  <1>1. StreamInv => NoErrorMeansComplete
    BY DEF StreamInv
  <1>2. QED
    BY <1>1, StreamHolds, PTL

-----------------------------------------------------------------------------
(***************************************************************************)
(* Counting: how what JSON says of a place follows from the place before   *)
(***************************************************************************)
LEMMA Smallest ==
    ASSUME NEW T \in SUBSET Nat, T # {}
    PROVE  \E x \in T : \A y \in T : x <= y
<1> DEFINE R == {ss \in Nat \X Nat : ss[1] < ss[2]}
<1>1. IsWellFoundedOn(R, Nat)
  BY NatLessThanWellFounded DEF OpToRel
<1>2. PICK x \in T : \A y \in T : ~(<<y, x>> \in R)
  <2> HIDE DEF R
  <2> QED
    BY <1>1, WFMin
<1>3. ASSUME NEW y \in T
      PROVE  x <= y
  <2>1. x \in Nat /\ y \in Nat /\ ~(<<y, x>> \in R)
    BY <1>2
  <2>2. ~(y < x)
    BY <2>1
  <2> QED
    BY <2>1, <2>2
<1> QED
  BY <1>3

LEMMA Parity == \A n \in Nat : ((n + 1) % 2 = 1) <=> ~(n % 2 = 1)
  OBVIOUS

LEMMA EscapedStep ==
    ASSUME NEW d, NEW p \in Nat, 1 <= p
    PROVE  Escaped(d, p + 1) <=> d.text[p] = "backslash" /\ ~Escaped(d, p)
  <1> DEFINE Run(j, q) == /\ \A m \in j..(q - 1) : d.text[m] = "backslash"
                          /\ j = 1 \/ d.text[j - 1] # "backslash"
  <1>1. \A q : Escaped(d, q) <=> \E j \in 1..q : (q - j) % 2 = 1 /\ Run(j, q)
    BY DEF Escaped
  <1>2. ASSUME NEW i \in Nat, NEW j \in Nat, 1 <= i, i < p, 1 <= j, j <= p,
               Run(i, p), Run(j, p)
        PROVE  i = j
    <2>1. CASE i < j
      <3>1. j - 1 \in i..(p - 1) /\ j # 1
        BY <1>2, <2>1
      <3>2. d.text[j - 1] = "backslash"
        BY <1>2, <3>1
      <3>3. QED
        BY <1>2, <3>1, <3>2
    <2>2. CASE j < i
      <3>1. i - 1 \in j..(p - 1) /\ i # 1
        BY <1>2, <2>2
      <3>2. d.text[i - 1] = "backslash"
        BY <1>2, <3>1
      <3>3. QED
        BY <1>2, <3>1, <3>2
    <2>3. QED
      BY <1>2, <2>1, <2>2
  <1>3. ASSUME Escaped(d, p + 1)
        PROVE  d.text[p] = "backslash" /\ ~Escaped(d, p)
    <2>1. PICK j \in 1..(p + 1) : (p + 1 - j) % 2 = 1 /\ Run(j, p + 1)
      BY <1>1, <1>3
    <2>2. j \in Nat /\ 1 <= j /\ j <= p
      <3>1. CASE j = p + 1
        <4>1. p + 1 - j = 0
          BY <3>1
        <4>2. QED
          BY <2>1, <4>1
      <3>2. QED
        BY <3>1
    <2>3. p \in j..((p + 1) - 1) /\ \A m \in j..(p - 1) : m \in j..((p + 1) - 1)
      BY <2>2
    <2>4. d.text[p] = "backslash" /\ Run(j, p)
      BY <2>1, <2>3
    <2>5. ASSUME Escaped(d, p)
          PROVE  FALSE
      <3>1. PICK i \in 1..p : (p - i) % 2 = 1 /\ Run(i, p)
        BY <1>1, <2>5
      <3>2. i \in Nat /\ 1 <= i /\ i < p
        <4>1. CASE i = p
          <5>1. p - i = 0
            BY <4>1
          <5>2. QED
            BY <3>1, <5>1
        <4>2. QED
          BY <4>1
      <3>3. i = j
        BY <1>2, <2>2, <2>4, <3>1, <3>2
      <3>4. PICK n \in Nat : n = p - j
        BY <2>2
      <3>5. p + 1 - j = n + 1
        BY <2>2, <3>4
      <3>6. QED
        BY <2>1, <3>1, <3>3, <3>4, <3>5, Parity
    <2>6. QED
      BY <2>4, <2>5
  <1>4. ASSUME d.text[p] = "backslash", ~Escaped(d, p)
        PROVE  Escaped(d, p + 1)
    <2> DEFINE T == {j \in 1..p : \A m \in j..p : d.text[m] = "backslash"}
    <2>1. p \in T /\ T \in SUBSET Nat
      BY <1>4
    <2>2. PICK j \in T : \A y \in T : j <= y
      BY <2>1, Smallest
    <2>3. j \in Nat /\ 1 <= j /\ j <= p /\ \A m \in j..p : d.text[m] = "backslash"
      BY <2>2
    <2>4. j = 1 \/ d.text[j - 1] # "backslash"
      <3>1. ASSUME j # 1, d.text[j - 1] = "backslash"
            PROVE  FALSE
        <4>1. j - 1 \in 1..p /\ \A m \in (j - 1)..p : m = j - 1 \/ m \in j..p
          BY <2>3, <3>1
        <4>2. j - 1 \in T
          BY <2>3, <3>1, <4>1
        <4>3. ~(j <= j - 1)
          BY <2>3
        <4>4. QED
          BY <2>2, <4>2, <4>3
      <3>2. QED
        BY <3>1
    <2>5. Run(j, p) /\ Run(j, p + 1)
      <3>1. \A m : m \in j..(p - 1) \/ m \in j..((p + 1) - 1) => m \in j..p
        BY <2>3
      <3>2. QED
        BY <2>3, <2>4, <3>1
    <2>6. PICK n \in Nat : n = p - j
      BY <2>3
    <2>7. ~(n % 2 = 1)
      <3>1. j \in 1..p
        BY <2>3
      <3>2. QED
        BY <1>1, <1>4, <2>5, <2>6, <3>1
    <2>8. (n + 1) % 2 = 1
      BY <2>7, Parity
    <2>9. p + 1 - j = n + 1
      BY <2>3, <2>6
    <2>10. j \in 1..(p + 1)
      BY <2>3
    <2>11. QED
      BY <1>1, <2>5, <2>8, <2>9, <2>10
  <1>5. QED
    BY <1>3, <1>4

\* A set of places, one place further.
LEMMA CountStep ==
    ASSUME NEW a \in Nat, NEW p \in Nat, NEW S \in SUBSET (a..(p - 1)), NEW T,
           T = IF p \in T THEN S \cup {p} ELSE S
    PROVE  /\ Cardinality(S) \in Nat
           /\ Cardinality(T) = IF p \in T THEN Cardinality(S) + 1 ELSE Cardinality(S)
  <1>1. IsFiniteSet(a..(p - 1))
    BY FS_Interval
  <1>2. IsFiniteSet(S)
    BY <1>1, FS_Subset
  <1>3. Cardinality(S) \in Nat
    BY <1>2, FS_CardinalityType
  <1>4. p \notin S
    <2>1. p \notin a..(p - 1)
      OBVIOUS
    <2>2. QED
      BY <2>1
  <1>5. Cardinality(S \cup {p}) = Cardinality(S) + 1
    BY <1>2, <1>4, FS_AddElement
  <1>6. QED
    BY <1>3, <1>5

LEMMA QuotedFirst ==
    ASSUME NEW d, NEW a \in Nat
    PROVE  ~Quoted(d, a, a)
  <1>1. a..(a - 1) = {}
    OBVIOUS
  <1>2. Quotes(d, a, a - 1) = {}
    BY <1>1 DEF Quotes
  <1>3. Cardinality({}) = 0
    BY FS_EmptySet
  <1>4. QED
    BY <1>2, <1>3 DEF Quoted

LEMMA QuotedStep ==
    ASSUME NEW d, NEW a \in Nat, NEW p \in Nat, a <= p
    PROVE  Quoted(d, a, p + 1) <=>
             IF d.text[p] = "quote" /\ ~Escaped(d, p) THEN ~Quoted(d, a, p) ELSE Quoted(d, a, p)
  <1> DEFINE S == Quotes(d, a, p - 1)
             T == Quotes(d, a, p)
  <1>1. S \in SUBSET (a..(p - 1))
    BY DEF Quotes
  <1>2. \A k : k \in a..p <=> k \in a..(p - 1) \/ k = p
    OBVIOUS
  <1>3. p \in T <=> d.text[p] = "quote" /\ ~Escaped(d, p)
    BY <1>2 DEF Quotes
  <1>4. T = IF p \in T THEN S \cup {p} ELSE S
    <2>1. \A k : k \in T <=> k \in S \/ (k = p /\ p \in T)
      BY <1>2 DEF Quotes
    <2> HIDE DEF S, T
    <2>2. QED
      BY <2>1
  <1>5. PICK m \in Nat : m = Cardinality(S)
    BY <1>1, <1>4, CountStep
  <1>6. Cardinality(T) = IF p \in T THEN m + 1 ELSE m
    BY <1>1, <1>4, <1>5, CountStep
  <1>7. Quoted(d, a, p) <=> m % 2 = 1
    BY <1>5 DEF Quoted
  <1>8. Quoted(d, a, p + 1) <=> Cardinality(T) % 2 = 1
    <2>1. (p + 1) - 1 = p
      OBVIOUS
    <2>2. QED
      BY <2>1 DEF Quoted
  <1>9. ((m + 1) % 2 = 1) <=> ~(m % 2 = 1)
    BY Parity
  <1>10. QED
    BY <1>3, <1>6, <1>7, <1>8, <1>9

LEMMA BracketsStep ==
    ASSUME NEW d, NEW a \in Nat, NEW p \in Nat, a <= p, NEW B
    PROVE  /\ Cardinality(Brackets(d, a, p - 1, B)) \in Nat
           /\ Cardinality(Brackets(d, a, p, B)) =
                IF d.text[p] \in B /\ ~Quoted(d, a, p)
                THEN Cardinality(Brackets(d, a, p - 1, B)) + 1
                ELSE Cardinality(Brackets(d, a, p - 1, B))
  <1> DEFINE S == Brackets(d, a, p - 1, B)
             T == Brackets(d, a, p, B)
  <1>1. S \in SUBSET (a..(p - 1))
    BY DEF Brackets
  <1>2. \A k : k \in a..p <=> k \in a..(p - 1) \/ k = p
    OBVIOUS
  <1>3. p \in T <=> d.text[p] \in B /\ ~Quoted(d, a, p)
    BY <1>2 DEF Brackets
  <1>4. T = IF p \in T THEN S \cup {p} ELSE S
    <2>1. \A k : k \in T <=> k \in S \/ (k = p /\ p \in T)
      BY <1>2 DEF Brackets
    <2> HIDE DEF S, T
    <2>2. QED
      BY <2>1
  <1>5. Cardinality(S) \in Nat /\ Cardinality(T) = IF p \in T THEN Cardinality(S) + 1 ELSE Cardinality(S)
    BY <1>1, <1>4, CountStep
  <1>6. QED
    BY <1>3, <1>5

LEMMA DepthStep ==
    ASSUME NEW d, NEW a \in Nat, NEW p \in Nat, a <= p
    PROVE  /\ Depth(d, a, p - 1) \in Int
           /\ Depth(d, a, p) = Depth(d, a, p - 1) + IF Quoted(d, a, p) THEN 0 ELSE Nesting(d.text[p])
  <1> DEFINE Up == {"lbrace", "lbracket"}
             Down == {"rbrace", "rbracket"}
             u == Cardinality(Brackets(d, a, p - 1, Up))
             v == Cardinality(Brackets(d, a, p - 1, Down))
  <1>1. u \in Nat /\ v \in Nat
    BY BracketsStep
  <1>2. Depth(d, a, p - 1) = u - v
    BY DEF Depth
  <1>3. Cardinality(Brackets(d, a, p, Up)) =
          IF d.text[p] \in Up /\ ~Quoted(d, a, p) THEN u + 1 ELSE u
    BY BracketsStep
  <1>4. Cardinality(Brackets(d, a, p, Down)) =
          IF d.text[p] \in Down /\ ~Quoted(d, a, p) THEN v + 1 ELSE v
    BY BracketsStep
  <1>5. Nesting(d.text[p]) = IF d.text[p] \in Up THEN 1 ELSE IF d.text[p] \in Down THEN -1 ELSE 0
    BY DEF Nesting
  <1>6. ~(d.text[p] \in Up /\ d.text[p] \in Down)
    OBVIOUS
  <1>7. Depth(d, a, p) = Cardinality(Brackets(d, a, p, Up)) - Cardinality(Brackets(d, a, p, Down))
    BY DEF Depth
  <1> HIDE DEF Up, Down, u, v
  <1>8. QED
    BY <1>1, <1>2, <1>3, <1>4, <1>5, <1>6, <1>7

\* The brace that an object begins with.
LEMMA DepthFirst ==
    ASSUME NEW d, NEW a \in Nat, d.text[a] = "lbrace"
    PROVE  Depth(d, a, a) = 1
  <1>1. \A B : Brackets(d, a, a - 1, B) = {}
    <2>1. a..(a - 1) = {}
      OBVIOUS
    <2>2. QED
      BY <2>1 DEF Brackets
  <1>2. Cardinality({}) = 0
    BY FS_EmptySet
  <1>3. Depth(d, a, a - 1) = 0
    BY <1>1, <1>2 DEF Depth
  <1>4. ~Quoted(d, a, a)
    BY QuotedFirst
  <1>5. Nesting("lbrace") = 1
    BY DEF Nesting
  <1>6. Depth(d, a, a) = Depth(d, a, a - 1) + IF Quoted(d, a, a) THEN 0 ELSE Nesting(d.text[a])
    <2>1. a <= a
      OBVIOUS
    <2>2. QED
      BY <2>1, DepthStep
  <1>7. QED
    BY <1>3, <1>4, <1>5, <1>6

-----------------------------------------------------------------------------
(***************************************************************************)
(* What the parser has read of a document that is well formed              *)
(***************************************************************************)
FineDoc == WellFormed(doc) /\ \A i \in 1..Len(doc.items) : doc.items[i].good /\ Fits(i)

\* In an object, the parser knows of strings and nesting what counting gives.
ItemInv ==
    capturing =>
        /\ Count + 1 <= Len(doc.items)
        /\ doc.items[Count + 1].from = from
        /\ pos < doc.items[Count + 1].to
        /\ inString <=> Quoted(doc, from, pos + 1)
        /\ escape <=> Escaped(doc, pos + 1)
        /\ ~inString => ~escape
        /\ depth = Depth(doc, from, pos)

\* It takes for an array what is one, and knows where it is.
ArrayInv ==
    /\ Single(doc) => mode # "array"
    /\ \A o, c \in 1..Len(doc.text) :
          Bracketed(doc, o, c) =>
             /\ mode # "object"
             /\ mode = "array" => o <= pos /\ IF completed THEN c <= pos ELSE pos < c

AcceptInv == FineDoc => failure \notin Refusals /\ (pc # "done" => ItemInv /\ ArrayInv)

LEMMA InitAccepts == Init => AcceptInv
  BY DEF Init, AcceptInv, ItemInv, ArrayInv, Refusals

\* An object that is met is the next one, and is met at its first byte.
LEMMA ObjectIsMet ==
    ASSUME StreamInv, Reading, ~capturing, Inside(doc, pos + 1)
    PROVE  /\ Count + 1 \in 1..Len(doc.items)
           /\ doc.items[Count + 1].from = pos + 1
           /\ Byte = "lbrace"
  <1> DEFINE n == Len(doc.items)
  <1>1. /\ pos \in Nat /\ doc \in Documents /\ Count \in Nat /\ PlaceInv /\ n \in Nat
        /\ Byte = doc.text[pos + 1] /\ Front = pos + 1
    BY AtByte DEF Front
  <1>2. PICK k \in 1..n : doc.items[k].from <= pos + 1 /\ pos + 1 <= doc.items[k].to
    BY DEF Inside
  <1> DEFINE a == doc.items[k].from
             b == doc.items[k].to
  <1>3. a \in Nat /\ b \in Nat /\ a <= pos + 1 /\ pos + 1 <= b /\ k \in Nat
    BY <1>1, <1>2, Docs
  <1>4. IF k <= Count THEN b < pos + 1 ELSE a >= pos + 1
    BY <1>1, <1>2 DEF PlaceInv
  <1> HIDE DEF a, b
  <1>5. ~(k <= Count) /\ a = pos + 1
    BY <1>1, <1>3, <1>4
  <1>6. ASSUME Count + 1 < k
        PROVE  FALSE
    <2>1. Count + 1 \in 1..n /\ ~(Count + 1 <= Count)
      BY <1>1, <1>2, <1>6
    <2> DEFINE a1 == doc.items[Count + 1].from
               b1 == doc.items[Count + 1].to
    <2>2. a1 \in Nat /\ b1 \in Nat /\ a1 <= b1
      BY <1>1, <2>1, Docs
    <2>3. b1 < a
      BY <1>1, <1>2, <1>6, <2>1, Docs DEF a
    <2>4. a1 >= pos + 1
      BY <1>1, <2>1 DEF PlaceInv
    <2> HIDE DEF a1, b1
    <2>5. QED
      BY <1>1, <1>3, <1>5, <2>2, <2>3, <2>4
  <1>7. k = Count + 1
    BY <1>1, <1>3, <1>5, <1>6
  <1>8. doc.text[a] = "lbrace"
    BY <1>1, <1>2, Docs DEF a
  <1>9. QED
    BY <1>1, <1>2, <1>5, <1>7, <1>8 DEF a

LEMMA ObjectBegins ==
    ASSUME FineDoc, StreamInv, Reading, StartCapture, ~capturing, Inside(doc, pos + 1)
    PROVE  ItemInv'
  <1>1. /\ Count + 1 \in 1..Len(doc.items)
        /\ doc.items[Count + 1].from = pos + 1
        /\ doc.text[pos + 1] = "lbrace"
    BY ObjectIsMet DEF Byte
  <1>2. /\ pos \in Nat /\ doc \in Documents /\ Count \in Nat /\ Len(doc.items) \in Nat
    BY AtByte
  <1>3. /\ pos' = pos + 1 /\ from' = pos + 1 /\ depth' = 1 /\ ~inString' /\ ~escape'
        /\ UNCHANGED <<doc, out, yielded>>
    BY DEF StartCapture, Reading, Accept, seenVars
  <1>4. Count' = Count
    BY <1>3 DEF Count
  <1> DEFINE a == pos + 1
             b == doc.items[Count + 1].to
  <1>5. a \in Nat /\ 1 <= a /\ b \in Nat /\ a <= b
    BY <1>1, <1>2, Docs
  <1>6. Depth(doc, a, a) = 1
    BY <1>1, <1>5, DepthFirst
  <1>7. a < b
    <2>1. Depth(doc, a, b) = 0
      BY <1>1 DEF FineDoc, WellFormed, IsObject
    <2>2. a # b
      BY <1>6, <2>1
    <2> HIDE DEF a, b
    <2>3. QED
      BY <1>5, <2>2
  <1>8. ~Quoted(doc, a, a + 1)
    <2>1. ~Quoted(doc, a, a)
      BY <1>5, QuotedFirst
    <2>2. doc.text[a] # "quote" /\ a <= a
      BY <1>1, <1>5
    <2> HIDE DEF a, b
    <2>3. QED
      BY <1>5, <2>1, <2>2, QuotedStep
  <1>9. ~Escaped(doc, a + 1)
    <2>1. doc.text[a] # "backslash"
      BY <1>1
    <2> HIDE DEF a, b
    <2>2. QED
      BY <1>5, <2>1, EscapedStep
  <1>10. Count + 1 <= Len(doc.items)
    BY <1>1, <1>2
  <1>11. QED
    BY <1>1, <1>3, <1>4, <1>6, <1>7, <1>8, <1>9, <1>10 DEF ItemInv

\* Brackets that are met in an object, or none at all, do not close the array.
LEMMA ArrayGoesOn ==
    ASSUME StreamInv, ArrayInv, Reading, mode' = mode, mode = "array" => completed' = completed,
           mode = "array" /\ ~completed => Byte # "rbracket" \/ Inside(doc, pos + 1)
    PROVE  ArrayInv'
  <1>1. pos \in Nat /\ Len(doc.text) \in Nat /\ Byte = doc.text[pos + 1] /\ pos' = pos + 1 /\ doc' = doc
    BY AtByte DEF Reading
  <1>2. ASSUME NEW o \in 1..Len(doc.text), NEW c \in 1..Len(doc.text), Bracketed(doc, o, c)
        PROVE  /\ mode # "object"
               /\ mode = "array" => o <= pos + 1 /\ IF completed' THEN c <= pos + 1 ELSE pos + 1 < c
    <2>1. /\ mode # "object"
          /\ mode = "array" => o <= pos /\ IF completed THEN c <= pos ELSE pos < c
      BY <1>2 DEF ArrayInv
    <2>2. doc.text[c] = "rbracket" /\ ~Inside(doc, c)
      BY <1>2 DEF Bracketed
    <2>3. mode = "array" /\ ~completed => c # pos + 1
      BY <1>1, <2>2
    <2>4. o \in Nat /\ c \in Nat
      BY <1>1
    <2>5. QED
      BY <1>1, <2>1, <2>3, <2>4
  <1>3. Single(doc) => mode # "array"
    BY DEF ArrayInv
  <1>4. QED
    BY <1>1, <1>2, <1>3 DEF ArrayInv

\* Before the document and after it there is nothing to refuse.
LEMMA SingleIsMet ==
    ASSUME StreamInv, Reading, Single(doc), Byte \notin Space \cup {"backquote"}, ~OnFence(doc, pos + 1)
    PROVE  Inside(doc, pos + 1)
  <1>1. pos + 1 \in 1..Len(doc.text) /\ Byte = doc.text[pos + 1]
    BY AtByte DEF Reading
  <1>2. QED
    BY <1>1 DEF Single, Ignored

LEMMA BracketIsMet ==
    ASSUME StreamInv, Reading, ~started, Byte \notin Space \cup {"backquote"}, ~OnFence(doc, pos + 1),
           NEW o \in 1..Len(doc.text), NEW c \in 1..Len(doc.text), Bracketed(doc, o, c)
    PROVE  pos + 1 = o /\ Byte = "lbracket"
  <1>1. /\ pos \in Nat /\ Len(doc.text) \in Nat /\ Byte = doc.text[pos + 1] /\ BeforeDoc
    BY AtByte
  <1>2. o \in Nat /\ 1 <= o
    BY <1>1
  <1>3. doc.text[o] = "lbracket" /\ ~OnFence(doc, o)
    BY DEF Bracketed
  <1>4. ~(o <= pos)
    BY <1>1, <1>2, <1>3 DEF BeforeDoc
  <1>5. ASSUME pos + 1 < o
        PROVE  FALSE
    <2>1. pos + 1 \in 1..(o - 1)
      BY <1>1, <1>2, <1>5
    <2>2. Ignored(doc, pos + 1)
      BY <2>1 DEF Bracketed
    <2>3. QED
      BY <1>1, <2>2 DEF Ignored
  <1>6. pos + 1 = o
    BY <1>1, <1>2, <1>4, <1>5
  <1>7. QED
    BY <1>1, <1>3, <1>6

LEMMA NothingAfterTheBracket ==
    ASSUME StreamInv, ArrayInv, Reading, completed, mode = "array",
           Byte \notin Space \cup {"backquote"}, ~OnFence(doc, pos + 1),
           NEW o \in 1..Len(doc.text), NEW c \in 1..Len(doc.text), Bracketed(doc, o, c)
    PROVE  FALSE
  <1>1. pos \in Nat /\ Len(doc.text) \in Nat /\ Byte = doc.text[pos + 1] /\ pos < Len(doc.text)
    BY AtByte DEF Reading
  <1>2. c <= pos /\ c \in Nat
    BY <1>1 DEF ArrayInv
  <1>3. pos + 1 \in (c + 1)..Len(doc.text)
    BY <1>1, <1>2
  <1>4. Ignored(doc, pos + 1)
    BY <1>3 DEF Bracketed
  <1>5. QED
    BY <1>1, <1>4 DEF Ignored

\* Between the objects of an array there are separators only.
LEMMA SeparatorIsMet ==
    ASSUME StreamInv, ArrayInv, Reading, mode = "array", ~completed,
           NEW o \in 1..Len(doc.text), NEW c \in 1..Len(doc.text), Bracketed(doc, o, c)
    PROVE  \/ pos + 1 = c /\ Byte = "rbracket"
           \/ pos + 1 < c /\ (Inside(doc, pos + 1) \/ Byte \in Space \cup {"comma"})
  <1>1. pos \in Nat /\ Len(doc.text) \in Nat /\ Byte = doc.text[pos + 1]
    BY AtByte
  <1>2. o <= pos /\ pos < c /\ o \in Nat /\ c \in Nat
    BY <1>1 DEF ArrayInv
  <1>3. CASE pos + 1 = c
    BY <1>1, <1>3 DEF Bracketed
  <1>4. CASE pos + 1 < c
    <2>1. pos + 1 \in (o + 1)..(c - 1)
      BY <1>1, <1>2, <1>4
    <2>2. QED
      BY <1>1, <1>4, <2>1 DEF Bracketed
  <1>5. QED
    BY <1>1, <1>2, <1>3, <1>4

LEMMA OutsideAccepts ==
    ASSUME FineDoc, StreamInv, ItemInv, ArrayInv, Reading, Outside
    PROVE  failure' = failure /\ ItemInv' /\ ArrayInv'
  <1>1. /\ pos \in Nat /\ doc \in Documents /\ CaptureInv /\ BeforeDoc /\ FenceInv
        /\ Len(doc.text) \in Nat /\ Byte = doc.text[pos + 1]
    BY AtByte
  <1>2. completed \/ ~started
    BY DEF Outside
  <1>3. ~capturing /\ (skippingFence <=> OnFence(doc, pos + 1)) /\ (~started => ~completed)
    BY <1>1, <1>2 DEF CaptureInv, FenceInv, BeforeDoc
  <1>4. Single(doc) \/ \E o, c \in 1..Len(doc.text) : Bracketed(doc, o, c)
    BY DEF FineDoc, WellFormed
  <1>5. CASE SkipFenceOrSpace
    <2>1. mode' = mode /\ completed' = completed /\ capturing' = capturing /\ failure' = failure
      BY <1>5 DEF SkipFenceOrSpace, Accept, seenVars
    <2>2. ~(mode = "array" /\ ~completed)
      BY <1>2 DEF started
    <2>3. ArrayInv'
      BY <2>1, <2>2, ArrayGoesOn
    <2>4. ItemInv'
      BY <1>3, <2>1 DEF ItemInv
    <2>5. QED
      BY <2>1, <2>3, <2>4
  <1>6. CASE ~skippingFence /\ ~started /\ StartObjectMode
    <2>1. /\ StartCapture /\ Byte = "lbrace" /\ mode' = "object" /\ failure' = failure
          /\ doc' = doc
      BY <1>6 DEF StartObjectMode, StartCapture, Accept, seenVars, Reading
    <2>2. ~OnFence(doc, pos + 1) /\ Byte \notin Space \cup {"backquote"}
      BY <1>3, <1>6, <2>1 DEF Space
    <2>3. \A o, c \in 1..Len(doc.text) : ~Bracketed(doc, o, c)
      BY <1>6, <2>1, <2>2, BracketIsMet
    <2>4. Inside(doc, pos + 1)
      BY <1>4, <2>2, <2>3, SingleIsMet
    <2>5. ItemInv'
      BY <1>3, <2>1, <2>4, ObjectBegins
    <2>6. ArrayInv'
      BY <2>1, <2>3 DEF ArrayInv
    <2>7. QED
      BY <2>1, <2>5, <2>6
  <1>7. CASE ~skippingFence /\ ~started /\ StartArrayMode
    <2>1. /\ Byte = "lbracket" /\ mode' = "array" /\ failure' = failure /\ doc' = doc /\ pos' = pos + 1
          /\ capturing' = capturing /\ completed' = completed
      BY <1>7 DEF StartArrayMode, Accept, seenVars, Reading
    <2>2. ~OnFence(doc, pos + 1) /\ Byte \notin Space \cup {"backquote"}
      BY <1>3, <1>7, <2>1 DEF Space
    <2>3. ~Single(doc)
      <3>1. ~Inside(doc, pos + 1)
        BY <1>3, <2>1, ObjectIsMet
      <3>2. QED
        BY <2>2, <3>1, SingleIsMet
    <2>4. ASSUME NEW o \in 1..Len(doc.text), NEW c \in 1..Len(doc.text), Bracketed(doc, o, c)
          PROVE  o <= pos + 1 /\ pos + 1 < c
      <3>1. pos + 1 = o
        BY <1>7, <2>2, <2>4, BracketIsMet
      <3>2. o < c
        BY <2>4 DEF Bracketed
      <3>3. QED
        BY <1>1, <3>1, <3>2
    <2>5. ArrayInv'
      BY <1>3, <1>7, <2>1, <2>3, <2>4 DEF ArrayInv
    <2>6. ItemInv'
      BY <1>3, <2>1 DEF ItemInv
    <2>7. QED
      BY <2>1, <2>5, <2>6
  <1>8. CASE /\ ~skippingFence /\ Byte \notin Space \cup {"backquote"}
             /\ completed \/ Byte \notin {"lbrace", "lbracket"}
    <2>1. ~OnFence(doc, pos + 1)
      BY <1>3, <1>8
    <2>2. CASE Single(doc)
      <3>1. Inside(doc, pos + 1)
        BY <1>8, <2>1, <2>2, SingleIsMet
      <3>2. completed
        BY <1>3, <1>8, <3>1, ObjectIsMet
      <3>3. ~Inside(doc, pos + 1)
        BY <1>1, <1>3, <3>2, NoObjectHere
      <3>4. QED
        BY <3>1, <3>3
    <2>3. CASE \E o, c \in 1..Len(doc.text) : Bracketed(doc, o, c)
      <3>1. PICK o \in 1..Len(doc.text), c \in 1..Len(doc.text) : Bracketed(doc, o, c)
        BY <2>3
      <3>2. CASE ~started
        BY <1>3, <1>8, <2>1, <3>1, <3>2, BracketIsMet
      <3>3. CASE completed /\ started
        <4>1. mode # "object" /\ mode \in {"unknown", "object", "array"}
          BY <3>1 DEF ArrayInv, StreamInv, StreamTypes
        <4>2. mode = "array"
          BY <3>3, <4>1 DEF started
        <4>3. QED
          BY <1>8, <2>1, <3>1, <3>3, <4>2, NothingAfterTheBracket
      <3>4. QED
        BY <1>2, <3>2, <3>3
    <2>4. QED
      BY <1>4, <2>2, <2>3
  <1>9. QED
    BY <1>5, <1>6, <1>7, <1>8 DEF Outside

LEMMA BetweenAccepts ==
    ASSUME FineDoc, StreamInv, ItemInv, ArrayInv, Reading, BetweenItems
    PROVE  failure' = failure /\ ItemInv' /\ ArrayInv'
  <1>1. /\ pos \in Nat /\ doc \in Documents /\ Len(doc.text) \in Nat /\ Byte = doc.text[pos + 1]
    BY AtByte
  <1>2. mode = "array" /\ ~completed /\ ~capturing
    BY DEF BetweenItems
  <1>3. ~Single(doc)
    BY <1>2 DEF ArrayInv
  <1>4. PICK o \in 1..Len(doc.text), c \in 1..Len(doc.text) : Bracketed(doc, o, c)
    BY <1>3 DEF FineDoc, WellFormed
  <1>5. CASE Byte \in Space \cup {"comma"} /\ Accept /\ UNCHANGED <<parserVars, out>>
    <2>1. mode' = mode /\ completed' = completed /\ capturing' = capturing /\ failure' = failure
      BY <1>5 DEF Accept, seenVars, parserVars
    <2>2. Byte # "rbracket"
      BY <1>5 DEF Space
    <2>3. ArrayInv'
      BY <2>1, <2>2, ArrayGoesOn
    <2>4. ItemInv'
      BY <1>2, <2>1 DEF ItemInv
    <2>5. QED
      BY <2>1, <2>3, <2>4
  <1>6. CASE /\ Byte = "rbracket" /\ completed' = TRUE /\ Accept
             /\ UNCHANGED <<mode, skippingFence, capturing, depth, inString, escape, from, out>>
    <2>1. mode' = mode /\ completed' /\ capturing' = capturing /\ failure' = failure
          /\ pos' = pos + 1 /\ doc' = doc
      BY <1>6 DEF Accept, seenVars, Reading
    <2>2. ~Inside(doc, pos + 1) /\ Byte \notin Space \cup {"comma"}
      <3>1. Byte # "lbrace"
        BY <1>6
      <3>2. ~Inside(doc, pos + 1)
        BY <1>2, <3>1, ObjectIsMet
      <3>3. QED
        BY <1>6, <3>2 DEF Space
    <2>3. ASSUME NEW x \in 1..Len(doc.text), NEW y \in 1..Len(doc.text), Bracketed(doc, x, y)
          PROVE  mode # "object" /\ x <= pos + 1 /\ y <= pos + 1
      <3>1. pos + 1 = y
        BY <1>2, <2>2, <2>3, SeparatorIsMet
      <3>2. x <= pos /\ x \in Nat
        BY <1>1, <1>2, <2>3 DEF ArrayInv
      <3>3. QED
        BY <1>1, <1>2, <3>1, <3>2
    <2>4. ArrayInv'
      BY <1>3, <2>1, <2>3 DEF ArrayInv
    <2>5. ItemInv'
      BY <1>2, <2>1 DEF ItemInv
    <2>6. QED
      BY <2>1, <2>4, <2>5
  <1>7. CASE Byte = "lbrace" /\ StartCapture /\ UNCHANGED mode
    <2>1. completed' = completed /\ failure' = failure /\ Byte # "rbracket"
          /\ Byte \notin Space \cup {"comma"}
      BY <1>7 DEF StartCapture, Accept, seenVars, Space
    <2>2. Inside(doc, pos + 1)
      BY <1>2, <1>4, <2>1, SeparatorIsMet
    <2>3. ItemInv'
      BY <1>2, <1>7, <2>2, ObjectBegins
    <2>4. ArrayInv'
      BY <1>7, <2>1, ArrayGoesOn
    <2>5. QED
      BY <2>1, <2>3, <2>4
  <1>8. CASE Byte \notin Space \cup {"comma", "rbracket", "lbrace"}
    <2>1. ~Inside(doc, pos + 1)
      BY <1>2, <1>8, ObjectIsMet
    <2>2. QED
      BY <1>2, <1>4, <1>8, <2>1, SeparatorIsMet
  <1>9. QED
    BY <1>5, <1>6, <1>7, <1>8 DEF BetweenItems

\* What is known of the object that is read.
LEMMA InItem ==
    ASSUME FineDoc, StreamInv, ItemInv, Reading, InCapture
    PROVE  /\ Count + 1 \in 1..Len(doc.items)
           /\ from \in Nat /\ 1 <= from /\ from <= pos
           /\ doc.items[Count + 1].from = from
           /\ doc.items[Count + 1].to \in Nat /\ pos < doc.items[Count + 1].to
           /\ IsObject(doc, from, doc.items[Count + 1].to)
           /\ Inside(doc, pos + 1)
           /\ ~TooLarge
  <1>1. /\ pos \in Nat /\ doc \in Documents /\ CaptureInv /\ Count \in Nat /\ Len(doc.items) \in Nat
        /\ sizeLimit \in Nat
    BY AtByte DEF StreamInv, StreamTypes
  <1>2. capturing
    BY DEF InCapture
  <1>3. from \in Nat /\ 1 <= from /\ from <= pos
    BY <1>1, <1>2 DEF CaptureInv, StreamInv, StreamTypes
  <1>4. Count + 1 \in 1..Len(doc.items) /\ doc.items[Count + 1].from = from
        /\ pos < doc.items[Count + 1].to
    BY <1>1, <1>2 DEF ItemInv
  <1>5. doc.items[Count + 1].to \in Nat
    BY <1>1, <1>4, Docs
  <1>6. IsObject(doc, from, doc.items[Count + 1].to) /\ Fits(Count + 1)
    BY <1>4 DEF FineDoc, WellFormed
  <1> DEFINE b == doc.items[Count + 1].to
  <1>7. b \in Nat /\ pos < b /\ (sizeLimit = 0 \/ b - from + 1 <= sizeLimit)
    BY <1>4, <1>5, <1>6 DEF Fits
  <1>8. Inside(doc, pos + 1)
    <2>1. from <= pos + 1 /\ pos + 1 <= b
      BY <1>1, <1>3, <1>7
    <2>2. QED
      BY <1>4, <2>1 DEF Inside
  <1>9. ~TooLarge
    <2> HIDE DEF b
    <2>1. QED
      BY <1>1, <1>3, <1>7 DEF TooLarge
  <1>10. QED
    BY <1>3, <1>4, <1>5, <1>6, <1>8, <1>9

\* Where the brackets are balanced, the object ends.
LEMMA EndOfObject ==
    ASSUME FineDoc, StreamInv, ItemInv, Reading, InCapture
    PROVE  /\ Depth(doc, from, pos + 1) = depth + IF inString THEN 0 ELSE Nesting(Byte)
           /\ Depth(doc, from, pos + 1) \in Nat
           /\ Depth(doc, from, pos + 1) = 0 <=> doc.items[Count + 1].to = pos + 1
  <1> DEFINE b == doc.items[Count + 1].to
  <1>1. pos \in Nat /\ Byte = doc.text[pos + 1] /\ depth \in Nat
    BY AtByte DEF StreamInv, StreamTypes
  <1>2. /\ from \in Nat /\ from <= pos /\ b \in Nat /\ pos < b
        /\ \A p \in from..(b - 1) : Depth(doc, from, p) > 0
        /\ Depth(doc, from, b) = 0
    BY InItem DEF IsObject
  <1>3. (inString <=> Quoted(doc, from, pos + 1)) /\ depth = Depth(doc, from, pos)
    BY DEF ItemInv, InCapture
  <1>4. Depth(doc, from, pos + 1) = Depth(doc, from, (pos + 1) - 1)
                                      + IF Quoted(doc, from, pos + 1) THEN 0 ELSE Nesting(doc.text[pos + 1])
    <2>1. pos + 1 \in Nat /\ from <= pos + 1
      BY <1>1, <1>2
    <2>2. QED
      BY <1>2, <2>1, DepthStep
  <1>5. (pos + 1) - 1 = pos
    BY <1>1
  <1>6. Nesting(Byte) \in Int
    BY DEF Nesting
  <1>7. Depth(doc, from, pos + 1) = depth + IF inString THEN 0 ELSE Nesting(Byte)
    BY <1>1, <1>3, <1>4, <1>5
  <1>8. Depth(doc, from, pos + 1) \in Int
    BY <1>1, <1>6, <1>7
  <1> HIDE DEF b
  <1>9. CASE b = pos + 1
    BY <1>2, <1>7, <1>9 DEF b
  <1>10. CASE b # pos + 1
    <2>1. pos + 1 \in from..(b - 1)
      BY <1>1, <1>2, <1>10
    <2>2. Depth(doc, from, pos + 1) > 0
      BY <1>2, <2>1
    <2>3. QED
      BY <1>7, <1>8, <1>10, <2>2 DEF b
  <1>11. QED
    BY <1>9, <1>10

\* A byte that the object goes on after.
LEMMA InsideAccepts ==
    ASSUME FineDoc, StreamInv, ItemInv, ArrayInv, Reading, InCapture, Accept,
           UNCHANGED <<mode, completed, capturing, from, out>>,
           depth' = depth + (IF inString THEN 0 ELSE Nesting(Byte)), depth' > 0,
           inString' = Quoted(doc, from, pos + 2), escape' = Escaped(doc, pos + 2),
           ~inString' => ~escape'
    PROVE  failure' = failure /\ ItemInv' /\ ArrayInv'
  <1>1. /\ pos \in Nat /\ pos' = pos + 1 /\ UNCHANGED <<doc, out, yielded, failure>>
    BY AtByte DEF Reading, Accept, seenVars
  <1>2. Count' = Count /\ pos' + 1 = pos + 2
    BY <1>1 DEF Count
  <1> DEFINE b == doc.items[Count + 1].to
  <1>3. /\ Count + 1 \in 1..Len(doc.items) /\ doc.items[Count + 1].from = from
        /\ b \in Nat /\ pos < b /\ Inside(doc, pos + 1)
    BY InItem
  <1>4. Depth(doc, from, pos + 1) = depth' /\ b # pos + 1
    BY EndOfObject
  <1>5. pos + 1 < b
    <2> HIDE DEF b
    <2>1. QED
      BY <1>1, <1>3, <1>4
  <1>6. Count + 1 <= Len(doc.items)
    BY AtByte, <1>3
  <1>7. ItemInv'
    BY <1>1, <1>2, <1>3, <1>4, <1>5, <1>6 DEF ItemInv
  <1>8. ArrayInv'
    BY <1>3, ArrayGoesOn
  <1>9. QED
    BY <1>1, <1>7, <1>8

\* What one byte more does to strings.
LEMMA NextInString ==
    ASSUME FineDoc, StreamInv, ItemInv, Reading, InCapture
    PROVE  /\ Escaped(doc, pos + 2) <=> Byte = "backslash" /\ ~escape
           /\ Quoted(doc, from, pos + 2) <=> IF Byte = "quote" /\ ~escape THEN ~inString ELSE inString
           /\ Byte = "backslash" => inString
           /\ ~inString => ~escape
  <1>1. /\ pos \in Nat /\ Byte = doc.text[pos + 1]
    BY AtByte
  <1>2. pos + 1 \in Nat /\ 1 <= pos + 1 /\ (pos + 1) + 1 = pos + 2
    BY <1>1
  <1>3. from \in Nat /\ from <= pos + 1
    BY <1>1, InItem
  <1>4. (inString <=> Quoted(doc, from, pos + 1)) /\ (escape <=> Escaped(doc, pos + 1))
        /\ (~inString => ~escape)
    BY DEF ItemInv, InCapture
  <1>5. Escaped(doc, pos + 2) <=> Byte = "backslash" /\ ~escape
    <2>1. Escaped(doc, (pos + 1) + 1) <=> doc.text[pos + 1] = "backslash" /\ ~Escaped(doc, pos + 1)
      BY <1>2, EscapedStep
    <2>2. QED
      BY <1>1, <1>2, <1>4, <2>1
  <1>6. Quoted(doc, from, pos + 2) <=> IF Byte = "quote" /\ ~escape THEN ~inString ELSE inString
    <2>1. Quoted(doc, from, (pos + 1) + 1) <=>
            IF doc.text[pos + 1] = "quote" /\ ~Escaped(doc, pos + 1)
            THEN ~Quoted(doc, from, pos + 1) ELSE Quoted(doc, from, pos + 1)
      BY <1>2, <1>3, QuotedStep
    <2>2. QED
      BY <1>1, <1>2, <1>4, <2>1
  <1>7. Byte = "backslash" => inString
    <2>1. /\ \A p \in from..doc.items[Count + 1].to : doc.text[p] = "backslash" => Quoted(doc, from, p)
          /\ doc.items[Count + 1].to \in Nat /\ pos < doc.items[Count + 1].to
      BY InItem DEF IsObject
    <2>2. pos + 1 \in from..doc.items[Count + 1].to
      BY <1>1, <1>3, <2>1
    <2>3. QED
      BY <1>1, <1>4, <2>1, <2>2
  <1>8. QED
    BY <1>4, <1>5, <1>6, <1>7

LEMMA StringAccepts ==
    ASSUME FineDoc, StreamInv, ItemInv, ArrayInv, Reading, StringByte
    PROVE  failure' = failure /\ ItemInv' /\ ArrayInv'
  <1>1. /\ InCapture /\ inString /\ Accept /\ UNCHANGED <<mode, completed, capturing, from, out>>
        /\ depth' = depth
        /\ escape' = (~escape /\ Byte = "backslash") /\ inString' = (escape \/ Byte # "quote")
    BY DEF StringByte
  <1>2. depth \in Nat /\ depth > 0
    BY <1>1, AtByte DEF CaptureInv, InCapture, StreamInv, StreamTypes
  <1>3. /\ Escaped(doc, pos + 2) <=> Byte = "backslash" /\ ~escape
        /\ Quoted(doc, from, pos + 2) <=> IF Byte = "quote" /\ ~escape THEN ~inString ELSE inString
    BY <1>1, NextInString
  <1>4. Escaped(doc, pos + 2) \in BOOLEAN /\ Quoted(doc, from, pos + 2) \in BOOLEAN
    BY DEF Escaped, Quoted
  <1>5. inString' = Quoted(doc, from, pos + 2) /\ escape' = Escaped(doc, pos + 2)
    BY <1>1, <1>3, <1>4
  <1>6. ~inString' => ~escape'
    BY <1>1
  <1>7. depth' = depth + (IF inString THEN 0 ELSE Nesting(Byte)) /\ depth' > 0
    BY <1>1, <1>2
  <1>8. QED
    BY <1>1, <1>5, <1>6, <1>7, InsideAccepts

LEMMA StructureAccepts ==
    ASSUME FineDoc, StreamInv, ItemInv, ArrayInv, Reading, StructureByte
    PROVE  failure' = failure /\ ItemInv' /\ ArrayInv'
  <1>1. /\ InCapture /\ ~inString /\ Accept /\ UNCHANGED <<mode, completed, capturing, from, out>>
        /\ depth' = depth + Nesting(Byte) /\ depth + Nesting(Byte) > 0
        /\ escape' = escape /\ inString' = (Byte = "quote")
    BY DEF StructureByte
  <1>2. /\ Escaped(doc, pos + 2) <=> Byte = "backslash" /\ ~escape
        /\ Quoted(doc, from, pos + 2) <=> IF Byte = "quote" /\ ~escape THEN ~inString ELSE inString
        /\ Byte # "backslash" /\ ~escape
    BY <1>1, NextInString
  <1>3. Escaped(doc, pos + 2) \in BOOLEAN /\ Quoted(doc, from, pos + 2) \in BOOLEAN
        /\ escape \in BOOLEAN
    BY DEF Escaped, Quoted, StreamInv, StreamTypes
  <1>4. escape' = FALSE /\ Escaped(doc, pos + 2) = FALSE
    BY <1>1, <1>2, <1>3
  <1>5. inString' = Quoted(doc, from, pos + 2)
    BY <1>1, <1>2, <1>3
  <1>6. depth' = depth + (IF inString THEN 0 ELSE Nesting(Byte)) /\ depth' > 0
    BY <1>1
  <1>7. QED
    BY <1>1, <1>4, <1>5, <1>6, InsideAccepts

LEMMA CompleteAccepts ==
    ASSUME FineDoc, StreamInv, ItemInv, ArrayInv, Reading, CompleteObject
    PROVE  failure' = failure /\ ItemInv' /\ ArrayInv'
  <1>1. InCapture /\ ~inString /\ depth + Nesting(Byte) = 0
    BY DEF CompleteObject
  <1>2. Count + 1 \in Captured /\ doc.items[Count + 1].good /\ Inside(doc, pos + 1)
    <2>1. Depth(doc, from, pos + 1) = 0
      BY <1>1, EndOfObject
    <2>2. doc.items[Count + 1].to = pos + 1
      BY <1>1, <2>1, EndOfObject
    <2>3. Count + 1 \in 1..Len(doc.items) /\ doc.items[Count + 1].from = from /\ Inside(doc, pos + 1)
      BY <1>1, InItem
    <2>4. QED
      BY <2>2, <2>3 DEF FineDoc, Captured
  <1>3. /\ capturing' = FALSE /\ completed' = (mode = "object") /\ mode' = mode /\ Accept
    BY <1>2 DEF CompleteObject
  <1>4. failure' = failure /\ ItemInv'
    BY <1>3 DEF Accept, seenVars, ItemInv
  <1>5. ~completed /\ completed \in BOOLEAN
    BY <1>1 DEF InCapture, StreamInv, StreamTypes
  <1>6. mode = "array" => completed' = completed
    BY <1>3, <1>5
  <1>7. ArrayInv'
    BY <1>2, <1>3, <1>6, ArrayGoesOn
  <1>8. QED
    BY <1>4, <1>7

LEMMA FeedAccepts ==
    ASSUME FineDoc, StreamInv, ItemInv, ArrayInv, Feed
    PROVE  failure' = failure /\ ItemInv' /\ ArrayInv'
  <1>1. Reading
    BY DEF Feed, Reading
  <1>2. ~OversizeByte
    BY <1>1, InItem DEF OversizeByte
  <1>3. QED
    BY <1>1, <1>2, OutsideAccepts, BetweenAccepts, StringAccepts, StructureAccepts, CompleteAccepts
       DEF Feed, consumeByte

\* The other steps leave the parser as it is.
LEMMA OthersAccept ==
    ASSUME StreamInv, ItemInv, ArrayInv, Count' = Count, UNCHANGED <<doc, pos, parserVars>>
    PROVE  ItemInv' /\ ArrayInv'
  <1>1. UNCHANGED <<mode, completed, capturing, depth, inString, escape, from>>
    BY DEF parserVars
  <1>2. QED
    BY <1>1 DEF ItemInv, ArrayInv

LEMMA AcceptStep == StreamInv /\ AcceptInv /\ [TracedNext]_allVars => AcceptInv'
  <1> SUFFICES ASSUME StreamInv, AcceptInv, [TracedNext]_allVars, FineDoc'
               PROVE  failure' \notin Refusals /\ (pc' # "done" => ItemInv' /\ ArrayInv')
    BY DEF AcceptInv
  <1>1. [Next]_vars
    BY StepsAreTheStreams
  <1>2. UNCHANGED <<sizeLimit, doc>>
    BY <1>1 DEF Next, NextChunk, Feed, ChunkEnds, Yield, ChunkDone, ProviderFails, ProviderEnds, vars
  <1>3. FineDoc
    BY <1>2 DEF FineDoc, Fits
  <1>4. failure \notin Refusals /\ (pc # "done" => ItemInv /\ ArrayInv)
    BY <1>3 DEF AcceptInv
  <1>5. CASE Feed
    <2>1. pc # "done"
      BY <1>5 DEF Feed
    <2>2. QED
      BY <1>3, <1>4, <1>5, <2>1, FeedAccepts
  <1>6. CASE NextChunk \/ ChunkEnds \/ ChunkDone \/ UNCHANGED vars
    <2>1. /\ UNCHANGED <<doc, pos, parserVars, out, yielded, failure>>
          /\ pc' # "done" => pc # "done"
      BY <1>6 DEF NextChunk, ChunkEnds, ChunkDone, vars, seenVars
    <2>2. Count' = Count
      BY <2>1 DEF Count
    <2>3. QED
      BY <1>4, <2>1, <2>2, OthersAccept
  <1>7. CASE Yield
    <2>1. /\ UNCHANGED <<doc, pos, parserVars, failure>> /\ pc # "done"
          /\ out # <<>> /\ yielded' = Append(yielded, Head(out)) /\ out' = Tail(out)
      BY <1>7 DEF Yield
    <2>2. out \in Seq(Nat) /\ yielded \in Seq(Nat)
      BY DEF StreamInv, StreamTypes
    <2>3. /\ Len(out) \in Nat /\ Len(yielded) \in Nat
          /\ Len(out') = Len(out) - 1 /\ Len(yielded') = Len(yielded) + 1
      BY <2>1, <2>2
    <2>4. Count' = Count
      BY <2>3 DEF Count
    <2>5. QED
      BY <1>4, <2>1, <2>4, OthersAccept
  <1>8. CASE ProviderFails \/ ProviderEnds
    <2>1. pc' = "done" /\ failure' \in {"provider", "incomplete", "none"}
      BY <1>8 DEF ProviderFails, ProviderEnds
    <2>2. QED
      BY <2>1 DEF Refusals
  <1>9. QED
    BY <1>1, <1>5, <1>6, <1>7, <1>8 DEF Next

(***************************************************************************)
(* The parser refuses no well-formed document: brackets and escaped quotes *)
(* inside strings, nested values, a code fence around the answer and a     *)
(* chunk boundary anywhere are all read as JSON reads them, and an object  *)
(* of exactly the maximal size is accepted.                                *)
(***************************************************************************)
THEOREM NothingFineIsRefused == TracedSpec => []WellFormedIsAccepted
  <1>1. TracedInit => AcceptInv
    BY InitAccepts DEF TracedInit
  <1>2. TracedSpec => []AcceptInv
    BY <1>1, StreamHolds, AcceptStep, PTL DEF TracedSpec
  <1>3. AcceptInv => WellFormedIsAccepted
    BY DEF AcceptInv, WellFormedIsAccepted, FineDoc
  <1>4. QED
    BY <1>2, <1>3, PTL
=============================================================================
