----------------------- MODULE StreamStructuredOutput -----------------------
(***************************************************************************)
(* StreamStructuredOutput: JSON objects decoded while the model's text is  *)
(* still arriving.  The provider cuts the text into chunks wherever it     *)
(* likes and may fail or end early; the parser looks at one byte at a      *)
(* time; the objects a chunk completed are yielded when the whole chunk    *)
(* has been read; and the consumer may stop at any object.                 *)
(*                                                                         *)
(* A document is the text together with where its objects are and whether  *)
(* each decodes and validates: what json.Unmarshal and Validate would say. *)
(* The preview kept for error texts is left out.                           *)
(***************************************************************************)
EXTENDS Integers, Sequences, FiniteSets

CONSTANTS
    Documents,      \* the texts a model may answer with
    SizeLimits      \* values of streamsizeLimitBytes; 0 for no limit

\* The bytes that the parser tells apart.
Bytes == {"lbrace", "rbrace", "lbracket", "rbracket", "quote", "backslash",
          "comma", "space", "newline", "backquote", "other"}
Item  == [from : Nat, to : Nat, good : BOOLEAN]

\* A place in one of the objects of a document, and one on the line of a code
\* fence, which nobody reads.
Inside(d, p)  == \E k \in 1..Len(d.items) : d.items[k].from <= p /\ p <= d.items[k].to
OnFence(d, p) == \E k \in 1..(p - 1) : /\ d.text[k] = "backquote" /\ ~Inside(d, k)
                                       /\ \A m \in k..(p - 1) : d.text[m] # "newline"

\* The objects of a document are those of its first value, one after another:
\* they are not on a fence's line, none comes after the array is closed, and
\* with more than one the value is an array.
ASSUME DocumentsAssumption ==
    \A d \in Documents :
        /\ d.text \in Seq(Bytes) /\ d.items \in Seq(Item)
        /\ \A k \in 1..Len(d.items) :
             LET o == d.items[k] IN
             /\ 1 <= o.from /\ o.from <= o.to /\ o.to <= Len(d.text)
             /\ d.text[o.from] = "lbrace" /\ ~OnFence(d, o.from)
             /\ \A j \in 1..(k - 1) : d.items[j].to < o.from
             /\ \A p \in 1..(o.from - 1) :
                   d.text[p] = "rbracket" => Inside(d, p) \/ OnFence(d, p)
        /\ Len(d.items) > 1 =>
             \E o \in 1..Len(d.text) :
                 /\ d.text[o] = "lbracket" /\ ~OnFence(d, o)
                 /\ \A p \in 1..(o - 1) : d.text[p] = "lbrace" => OnFence(d, p)
ASSUME SizeLimitsAssumption == SizeLimits \subseteq Nat

VARIABLES
    sizeLimit,  \* streamMaxObjectSizeBytes
    doc,        \* the answer the model gives
    pos,        \* bytes of it fed to the parser so far
    pc,
    \* structuredStreamParser
    mode, completed, skippingFence, capturing, depth, inString, escape,
    from,       \* where the bytes in p.current start
    out,        \* objects completed in this chunk, not yielded yet
    \* what the consumer has seen
    yielded, failure, stopped

parserVars == <<mode, completed, skippingFence, capturing, depth, inString,
                escape, from>>
seenVars == <<yielded, failure, stopped>>
vars == <<sizeLimit, doc, pos, pc, parserVars, out, seenVars>>

Init ==
    /\ sizeLimit \in SizeLimits
    /\ doc \in Documents
    /\ pos = 0
    /\ pc = "pull"
    /\ mode = "unknown"
    /\ completed = FALSE /\ skippingFence = FALSE /\ capturing = FALSE
    /\ depth = 0
    /\ inString = FALSE /\ escape = FALSE
    /\ from = 0
    /\ out = <<>>
    /\ yielded = <<>>
    /\ failure = "none"
    /\ stopped = FALSE

-----------------------------------------------------------------------------
(***************************************************************************)
(* The parser: each of these is one byte.                                  *)
(***************************************************************************)

Byte    == doc.text[pos + 1]
started == mode # "unknown"
Space   == {"space", "newline"}

\* feed returns an error, and with it none of the objects of this chunk.
\* The generator yields the error and ends.
Reject(why) ==
    /\ failure' = why
    /\ out' = <<>>
    /\ pc' = "done"
    /\ UNCHANGED <<parserVars, yielded, stopped>>

Accept == UNCHANGED <<pc, seenVars>>

SkipFenceOrSpace ==
    /\ skippingFence \/ Byte \in Space \cup {"backquote"}
    /\ skippingFence' = IF skippingFence THEN Byte # "newline" ELSE Byte = "backquote"
    /\ Accept
    /\ UNCHANGED <<mode, completed, capturing, depth, inString, escape, from, out>>

StartCapture ==
    /\ capturing' = TRUE
    /\ depth' = 1
    /\ inString' = FALSE
    /\ escape' = FALSE
    /\ from' = pos + 1
    /\ Accept
    /\ UNCHANGED <<completed, skippingFence, out>>

StartObjectMode == Byte = "lbrace" /\ mode' = "object" /\ StartCapture

StartArrayMode ==
    /\ Byte = "lbracket"
    /\ mode' = "array"
    /\ Accept
    /\ UNCHANGED <<completed, skippingFence, capturing, depth, inString, escape, from, out>>

\* Outside the document: before its first byte or after its last.
Outside ==
    /\ completed \/ ~started
    /\ \/ SkipFenceOrSpace
       \/ ~skippingFence /\ ~started /\ (StartObjectMode \/ StartArrayMode)
       \/ /\ ~skippingFence /\ Byte \notin Space \cup {"backquote"}
          /\ completed \/ Byte \notin {"lbrace", "lbracket"}
          /\ Reject(IF completed THEN "trailing" ELSE "prefix")

\* Between the objects of an array, separators are skipped.
BetweenItems ==
    /\ mode = "array" /\ ~completed /\ ~capturing
    /\ \/ /\ Byte \in Space \cup {"comma"}
          /\ Accept
          /\ UNCHANGED <<parserVars, out>>
       \/ /\ Byte = "rbracket"
          /\ completed' = TRUE
          /\ Accept
          /\ UNCHANGED <<mode, skippingFence, capturing, depth, inString, escape, from, out>>
       \/ Byte = "lbrace" /\ StartCapture /\ UNCHANGED mode
       \/ Byte \notin Space \cup {"comma", "rbracket", "lbrace"} /\ Reject("unsupported")

InCapture == started /\ ~completed /\ capturing

TooLargeLate == sizeLimit > 0 /\ pos - from + 1 > sizeLimit

\* current.Len()+1 > limit, with current = text[from..pos]
TooLarge == sizeLimit > 0 /\ pos - from + 2 > sizeLimit

StringByteUnescaped ==
    /\ InCapture /\ inString /\ ~TooLarge
    /\ inString' = (Byte # "quote")
    /\ Accept
    /\ UNCHANGED <<mode, completed, skippingFence, capturing, depth, escape, from, out>>

\* A byte inside a string, where brackets do not count.
StringByte ==
    /\ InCapture /\ inString /\ ~TooLarge
    /\ escape' = (~escape /\ Byte = "backslash")
    /\ inString' = (escape \/ Byte # "quote")
    /\ Accept
    /\ UNCHANGED <<mode, completed, skippingFence, capturing, depth, from, out>>

Nesting(b) == CASE b \in {"lbrace", "lbracket"} -> 1
                [] b \in {"rbrace", "rbracket"} -> -1
                [] OTHER -> 0

StructureByte ==
    /\ InCapture /\ ~inString /\ ~TooLarge
    /\ depth + Nesting(Byte) > 0
    /\ depth' = depth + Nesting(Byte)
    /\ inString' = (Byte = "quote")
    /\ Accept
    /\ UNCHANGED <<mode, completed, skippingFence, capturing, escape, from, out>>

\* The closing byte: decode what was captured.  In object mode that ends
\* the document.
Captured == {i \in 1..Len(doc.items) : doc.items[i].from = from /\ doc.items[i].to = pos + 1}

CompleteObject ==
    /\ InCapture /\ ~inString /\ ~TooLarge
    /\ depth + Nesting(Byte) = 0
    /\ \/ \E i \in Captured :
          /\ doc.items[i].good
          /\ depth' = 0
          /\ capturing' = FALSE
          /\ completed' = (mode = "object")
          /\ out' = Append(out, i)
          /\ Accept
          /\ UNCHANGED <<mode, skippingFence, inString, escape, from>>
       \/ (\A i \in Captured : ~doc.items[i].good) /\ Reject("decode")

OversizeByte == InCapture /\ TooLarge /\ Reject("oversize")

consumeByte ==
    \/ Outside \/ BetweenItems
    \/ StringByte \/ StructureByte \/ CompleteObject \/ OversizeByte

(***************************************************************************)
(* The generator                                                           *)
(***************************************************************************)

\* The provider hands over a chunk with text in it.
NextChunk ==
    /\ pc = "pull" /\ pos < Len(doc.text)
    /\ pc' = "feed"
    /\ UNCHANGED <<sizeLimit, doc, pos, parserVars, out, seenVars>>

\* The bytes of the chunk, as long as there are any.
Feed ==
    /\ pc = "feed" /\ pos < Len(doc.text)
    /\ consumeByte
    /\ pos' = pos + 1
    /\ UNCHANGED <<sizeLimit, doc>>

\* The chunk ends here; its objects are yielded.
ChunkEnds ==
    /\ pc = "feed"
    /\ pc' = "yield"
    /\ UNCHANGED <<sizeLimit, doc, pos, parserVars, out, seenVars>>

YieldAndGoOn ==
    /\ pc = "yield" /\ out # <<>>
    /\ yielded' = Append(yielded, Head(out))
    /\ out' = Tail(out)
    /\ stopped' \in {stopped, TRUE}
    /\ UNCHANGED <<sizeLimit, doc, pos, pc, parserVars, failure>>

\* The consumer breaks out of its loop, or takes the next object.
Yield ==
    /\ pc = "yield" /\ out # <<>>
    /\ yielded' = Append(yielded, Head(out))
    /\ out' = Tail(out)
    /\ \/ stopped' = TRUE /\ pc' = "done"
       \/ UNCHANGED <<stopped, pc>>
    /\ UNCHANGED <<sizeLimit, doc, pos, parserVars, failure>>

ChunkDone ==
    /\ pc = "yield" /\ out = <<>>
    /\ pc' = "pull"
    /\ UNCHANGED <<sizeLimit, doc, pos, parserVars, out, seenVars>>

\* A stream error, the end of the caller's context included.
ProviderFails ==
    /\ pc = "pull"
    /\ pc' = "done"
    /\ failure' = "provider"
    /\ UNCHANGED <<sizeLimit, doc, pos, parserVars, out, yielded, stopped>>

IncompleteCapture == capturing \/ depth # 0

Incomplete == capturing \/ depth # 0 \/ (started /\ ~completed)

\* The stream ends, with all of the text or without: finish.
ProviderEnds ==
    /\ pc = "pull"
    /\ pc' = "done"
    /\ failure' = IF Incomplete THEN "incomplete" ELSE "none"
    /\ UNCHANGED <<sizeLimit, doc, pos, parserVars, out, yielded, stopped>>

Next == NextChunk \/ Feed \/ ChunkEnds \/ Yield \/ ChunkDone \/ ProviderFails \/ ProviderEnds

Spec == Init /\ [][Next]_vars

-----------------------------------------------------------------------------
(***************************************************************************)
(* JSON, by counting: what the parser is to agree with, without its state. *)
(* An object from a to b is known by its quotes and brackets.              *)
(***************************************************************************)

\* An odd number of backslashes stands right before p.
Escaped(d, p) ==
    \E j \in 1..p : /\ (p - j) % 2 = 1
                    /\ \A m \in j..(p - 1) : d.text[m] = "backslash"
                    /\ j = 1 \/ d.text[j - 1] # "backslash"

Quotes(d, a, p) == {k \in a..p : d.text[k] = "quote" /\ ~Escaped(d, k)}

\* p is in a string, or the quote that ends one.
Quoted(d, a, p) == Cardinality(Quotes(d, a, p - 1)) % 2 = 1

Brackets(d, a, p, B) == {k \in a..p : d.text[k] \in B /\ ~Quoted(d, a, k)}
Depth(d, a, p) == Cardinality(Brackets(d, a, p, {"lbrace", "lbracket"}))
                    - Cardinality(Brackets(d, a, p, {"rbrace", "rbracket"}))

IsObject(d, a, b) ==
    /\ \A p \in a..(b - 1) : Depth(d, a, p) > 0
    /\ Depth(d, a, b) = 0
    /\ \A p \in a..b : d.text[p] = "backslash" => Quoted(d, a, p)

Ignored(d, p) == OnFence(d, p) \/ d.text[p] \in Space \cup {"backquote"}

\* The document is an object, or an array of objects with its brackets at o
\* and c; around it there is nothing but space and fences.
Single(d) == Len(d.items) = 1 /\ \A p \in 1..Len(d.text) : Inside(d, p) \/ Ignored(d, p)

Bracketed(d, o, c) ==
    /\ o < c
    /\ d.text[o] = "lbracket" /\ ~OnFence(d, o)
    /\ d.text[c] = "rbracket" /\ ~Inside(d, c)
    /\ \A p \in (1..(o - 1)) \cup ((c + 1)..Len(d.text)) : ~Inside(d, p) /\ Ignored(d, p)
    /\ \A p \in (o + 1)..(c - 1) : Inside(d, p) \/ d.text[p] \in Space \cup {"comma"}

WellFormed(d) ==
    /\ \A k \in 1..Len(d.items) : IsObject(d, d.items[k].from, d.items[k].to)
    /\ Single(d) \/ \E o, c \in 1..Len(d.text) : Bracketed(d, o, c)

Fits(i) == sizeLimit = 0 \/ doc.items[i].to - doc.items[i].from + 1 <= sizeLimit

(***************************************************************************)
(* However the text is cut into chunks and whatever fails, the consumer    *)
(* sees the objects of the document once each, from the first on, and only *)
(* ones that decode and fit the limit.                                     *)
(***************************************************************************)
YieldsObjectsInOrder ==
    \A k \in 1..Len(yielded) :
        yielded[k] = k /\ doc.items[k].good /\ Fits(k)

(***************************************************************************)
(* A stream that ends without an error has given the consumer every object *)
(* of the document: an answer cut short inside the document, or between    *)
(* the objects of an array, is never taken for a complete one.  (An answer *)
(* cut short before the document begins gives nothing and no error.)       *)
(***************************************************************************)
NoErrorMeansComplete ==
    pc = "done" /\ failure = "none" /\ ~stopped /\ started =>
        Len(yielded) = Len(doc.items) /\ completed

(***************************************************************************)
(* The parser refuses no well-formed document: brackets and escaped quotes *)
(* inside strings, nested values, a code fence around the answer and a     *)
(* chunk boundary anywhere are all read as JSON reads them, and an object  *)
(* of exactly the maximal size is accepted.                                *)
(***************************************************************************)
Refusals == {"prefix", "trailing", "unsupported", "decode", "oversize"}

WellFormedIsAccepted ==
    failure \in Refusals =>
        ~WellFormed(doc) \/ \E i \in 1..Len(doc.items) : ~doc.items[i].good \/ ~Fits(i)

(***************************************************************************)
(* Once the consumer has broken out of its loop nothing more is yielded to *)
(* it, neither an object nor an error: Go panics if an iterator does.      *)
(***************************************************************************)
NoYieldAfterBreak == [][stopped => yielded' = yielded /\ failure' = failure]_vars
=============================================================================
