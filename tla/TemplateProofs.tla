--------------------------- MODULE TemplateProofs ---------------------------
(***************************************************************************)
(* For any templates, defaults, payloads and histories: what formatting    *)
(* requires up front is enough to render, what was validated renders, and  *)
(* splicing and merging keep every part, in order, and mix nothing up.     *)
(***************************************************************************)
EXTENDS Template, SequenceTheorems, FiniteSetTheorems, WellFoundedInduction, TLAPS

\* A call that goes on has no error; one that renders has all that is
\* required; one that failed to render stopped at the message to blame.
GoesOnClean == pc # "failed" => err = "none"
RendersComplete == pc = "render" => Missing = {}
BlamesMessage ==
    err \in {"key", "media"} =>
        /\ Missing = {}
        /\ next \in DOMAIN messages
        /\ ~Skipped(next)
        /\ RenderError(messages[next], merged) = err

IInv == GoesOnClean /\ RendersComplete /\ BlamesMessage

LEMMA InitEstablishes == Init => IInv
  BY DEF Init, IInv, GoesOnClean, RendersComplete, BlamesMessage

\* The inputs decide what is missing and what fails to render.
LEMMA InputsDecide ==
    ASSUME UNCHANGED inVars
    PROVE  Missing' = Missing /\ merged' = merged
<1>1. merged' = merged
  BY DEF inVars, merged, Merge
<1>2. Missing' = Missing
  BY <1>1 DEF inVars, Missing, requiredFromAST, ExtractVars
<1> QED
  BY <1>1, <1>2

LEMMA StepPreserves ==
    ASSUME IInv, [Next]_vars
    PROVE  IInv'
<1>1. CASE Check
  <2>1. UNCHANGED inVars /\ pc = "start" /\ err = "none"
    BY <1>1 DEF Check, IInv, GoesOnClean
  <2>2. Missing' = Missing
    BY <2>1, InputsDecide
  <2>3. CASE pc' = "failed" /\ err' \in {"reserved", "missing"}
    BY <2>3 DEF IInv, GoesOnClean, RendersComplete, BlamesMessage
  <2>4. CASE pc' = "render" /\ err' = err /\ Missing = {}
    BY <2>1, <2>2, <2>4 DEF IInv, GoesOnClean, RendersComplete, BlamesMessage
  <2> QED
    BY <1>1, <2>3, <2>4 DEF Check, Fail
<1>2. CASE SkipMessage
  <2>1. UNCHANGED inVars /\ pc = "render" /\ err = "none" /\ UNCHANGED <<pc, err>>
    BY <1>2 DEF SkipMessage, IInv, GoesOnClean
  <2>2. Missing' = Missing
    BY <2>1, InputsDecide
  <2> QED
    BY <2>1, <2>2 DEF IInv, GoesOnClean, RendersComplete, BlamesMessage
<1>3. CASE RenderMessage
  <2> DEFINE e == RenderError(messages[next], merged)
  <2>1. /\ UNCHANGED inVars /\ pc = "render" /\ err = "none"
        /\ next \in DOMAIN messages /\ ~Skipped(next) /\ Missing = {}
    BY <1>3 DEF RenderMessage, IInv, GoesOnClean, RendersComplete
  <2>2. Missing' = Missing /\ merged' = merged
    BY <2>1, InputsDecide
  <2>3. CASE e # "none"
    <3>1. pc' = "failed" /\ err' = e /\ next' = next /\ messages' = messages
      BY <1>3, <2>3 DEF RenderMessage, Fail, inVars
    <3>2. RenderError(messages[next], merged)' = e
      BY <2>2, <3>1 DEF RenderError, MissingKey, MissingName, MissingInside, Executed, MediaTypeEmpty
    <3>3. ~Skipped(next)'
      BY <2>1, <2>2, <3>1 DEF Skipped, AllVarsZero, ExtractVars
    <3> HIDE DEF e
    <3> QED
      BY <2>1, <2>2, <3>1, <3>2, <3>3 DEF IInv, GoesOnClean, RendersComplete, BlamesMessage
  <2>4. CASE e = "none"
    <3>1. UNCHANGED <<pc, err>>
      BY <1>3, <2>4 DEF RenderMessage
    <3> QED
      BY <2>1, <2>2, <3>1 DEF IInv, GoesOnClean, RendersComplete, BlamesMessage
  <2> QED
    BY <2>3, <2>4
<1>4. CASE SpliceHistory \/ StartMessage \/ MergeMessage \/ FinishNormalize
  <2>1. pc # "failed" /\ err' = err /\ pc' \in {"normalize", "done"}
    BY <1>4 DEF SpliceHistory, StartMessage, MergeMessage, FinishNormalize
  <2>2. err = "none"
    BY <2>1 DEF IInv, GoesOnClean
  <2> QED
    BY <2>1, <2>2 DEF IInv, GoesOnClean, RendersComplete, BlamesMessage
<1>5. CASE UNCHANGED vars
  <2>1. UNCHANGED <<inVars, pc, next, err>>
    BY <1>5 DEF vars
  <2>2. /\ Missing' = Missing /\ merged' = merged
        /\ Skipped(next)' = Skipped(next) /\ messages' = messages
    BY <2>1, InputsDecide DEF inVars, Skipped, AllVarsZero, ExtractVars
  <2>3. RenderError(messages[next], merged)' = RenderError(messages[next], merged)
    BY <2>1, <2>2 DEF RenderError, MissingKey, MissingName, MissingInside, Executed, MediaTypeEmpty
  <2> QED
    BY <2>1, <2>2, <2>3 DEF IInv, GoesOnClean, RendersComplete, BlamesMessage
<1> QED
  BY <1>1, <1>2, <1>3, <1>4, <1>5 DEF Next

THEOREM InvariantHolds == Spec => []IInv
<1>1. Init => IInv
  BY InitEstablishes
<1>2. IInv /\ [Next]_vars => IInv'
  BY StepPreserves
<1> QED
  BY <1>1, <1>2, PTL DEF Spec

-----------------------------------------------------------------------------
\* "Tools" is never missing, so a missing name a tree walk sees is one it
\* collects.
LEMMA SeenIsCollected ==
    ASSUME NEW m, NEW r \in m.refs, r.kind # "hidden", merged[r.name] = "absent"
    PROVE  r.name \in ExtractVars(m)
<1>1. merged["Tools"] = "set"
  BY ToolsAssumption DEF merged, Merge
<1>2. r.name # "Tools"
  BY <1>1
<1> QED
  BY <1>2 DEF ExtractVars

\* No name a mandatory message shows to the parse tree walk can be missing
\* once FormatStruct starts to render (template.go:392-400): a missing key
\* is an optional message's, hidden from the walk, or inside of a value.
THEOREM RequiredIsEnough == Spec => []RequiredVarsSuffice
<1>1. IInv => RequiredVarsSuffice
  <2> SUFFICES ASSUME IInv, err = "key", ~messages[next].optional,
                      ~(\E r \in messages[next].refs :
                           Executed(r, merged) /\ MissingInside(r, merged))
               PROVE  \E r \in messages[next].refs : r.kind = "hidden" /\ merged[r.name] = "absent"
    BY DEF RequiredVarsSuffice, IInv, BlamesMessage, Skipped
  <2>1. /\ Missing = {} /\ next \in DOMAIN messages
        /\ RenderError(messages[next], merged) = "key"
    BY DEF IInv, BlamesMessage
  <2>2. MissingKey(messages[next], merged)
    BY <2>1 DEF RenderError
  <2>3. PICK r \in messages[next].refs : merged[r.name] = "absent"
    BY <2>2 DEF MissingKey, MissingName
  <2>4. r.name \notin ExtractVars(messages[next])
    BY <2>1, <2>3 DEF Missing, requiredFromAST
  <2> QED
    BY <2>3, <2>4, SeenIsCollected
<1> QED
  BY <1>1, InvariantHolds, PTL

\* A payload ValidateVariables accepts is never refused while rendering
\* (template.go:406).
THEOREM ValidatedRenders == Spec => []ValidatedDataRenders
<1>1. IInv => ValidatedDataRenders
  BY DEF IInv, BlamesMessage, ValidatedDataRenders, ValidateVariables
<1> QED
  BY <1>1, InvariantHolds, PTL
-----------------------------------------------------------------------------
(***************************************************************************)
(* Induction over the numbers, with the set of those a fact holds of.      *)
(***************************************************************************)
LEMMA SetInduction ==
    ASSUME NEW T \in SUBSET Nat, 0 \in T, \A n \in T : n + 1 \in T
    PROVE  T = Nat
<1> DEFINE R == {ss \in Nat \X Nat : ss[1] < ss[2]}
<1> SUFFICES ASSUME Nat \ T # {} PROVE FALSE
  OBVIOUS
<1>1. IsWellFoundedOn(R, Nat)
  BY NatLessThanWellFounded DEF OpToRel
<1>2. PICK x \in Nat \ T : \A y \in Nat \ T : ~(<<y, x>> \in R)
  <2> HIDE DEF R
  <2>1. Nat \ T \in SUBSET Nat
    OBVIOUS
  <2> QED
    BY <1>1, <2>1, WFMin
<1>3. x # 0 /\ x - 1 \in Nat /\ x - 1 < x
  OBVIOUS
<1>4. x - 1 \in T
  BY <1>2, <1>3
<1>5. (x - 1) + 1 \in T
  BY <1>4
<1> QED
  BY <1>3, <1>5

-----------------------------------------------------------------------------
(***************************************************************************)
(* FlattenSeq: what it gives for one sequence more.                        *)
(***************************************************************************)
Flattens(f, ss) == f = [i \in 1..Len(ss) |-> IF i = 1 THEN ss[i] ELSE f[i - 1] \o ss[i]]

LEMMA FlattensAt ==
    ASSUME NEW S, NEW ss \in Seq(Seq(S)), NEW f, Flattens(f, ss)
    PROVE  \A i \in 1..Len(ss) : f[i] = IF i = 1 THEN ss[i] ELSE f[i - 1] \o ss[i]
<1>1. f = [i \in 1..Len(ss) |-> IF i = 1 THEN ss[i] ELSE f[i - 1] \o ss[i]]
  BY DEF Flattens
<1> QED
  BY <1>1

LEMMA FlattensExists ==
    ASSUME NEW S, NEW ss \in Seq(Seq(S))
    PROVE  \E f : Flattens(f, ss)
<1> DEFINE Upto(f, n) == f = [i \in 1..n |-> IF i = 1 THEN ss[i] ELSE f[i - 1] \o ss[i]]
           T == {n \in Nat : \E f : Upto(f, n)}
<1>1. 0 \in T
  <2> DEFINE f == [i \in 1..0 |-> <<>>]
  <2>1. f = [i \in 1..0 |-> IF i = 1 THEN ss[i] ELSE f[i - 1] \o ss[i]]
    OBVIOUS
  <2> QED
    BY <2>1
<1>2. ASSUME NEW n \in T PROVE n + 1 \in T
  <2>0. n \in Nat
    OBVIOUS
  <2>1. PICK f : Upto(f, n)
    OBVIOUS
  <2> DEFINE g == [i \in 1..(n + 1) |->
                      IF i <= n THEN f[i] ELSE IF i = 1 THEN ss[i] ELSE f[n] \o ss[i]]
  <2>2. \A i \in 1..n : f[i] = IF i = 1 THEN ss[i] ELSE f[i - 1] \o ss[i]
    <3> HIDE DEF g
    <3> QED
      BY <2>1
  <2>3. \A i \in 1..(n + 1) : g[i] = IF i = 1 THEN ss[i] ELSE g[i - 1] \o ss[i]
    <3> TAKE i \in 1..(n + 1)
    <3>1. CASE i <= n /\ i # 1
      <4>1. i \in 1..n /\ i - 1 \in 1..(n + 1) /\ i - 1 <= n
        BY <3>1
      <4>2. g[i] = f[i] /\ g[i - 1] = f[i - 1]
        BY <3>1, <4>1
      <4> QED
        BY <2>2, <3>1, <4>1, <4>2
    <3>2. CASE i <= n /\ i = 1
      <4>1. i \in 1..n
        BY <3>2
      <4>2. g[i] = f[i]
        BY <3>2
      <4> QED
        BY <2>2, <3>2, <4>1, <4>2
    <3>3. CASE ~(i <= n) /\ i # 1
      <4>1. n \in 1..(n + 1) /\ i - 1 = n /\ n <= n
        BY <2>0, <3>3
      <4>2. g[i] = f[n] \o ss[i]
        BY <3>3
      <4>3. g[n] = f[n]
        BY <4>1
      <4> QED
        BY <3>3, <4>1, <4>2, <4>3
    <3>4. CASE ~(i <= n) /\ i = 1
      BY <3>4
    <3> QED
      BY <3>1, <3>2, <3>3, <3>4
  <2>4. g = [i \in 1..(n + 1) |-> g[i]]
    OBVIOUS
  <2>5. Upto(g, n + 1) /\ n + 1 \in Nat
    <3> HIDE DEF g
    <3>1. g = [i \in 1..(n + 1) |-> IF i = 1 THEN ss[i] ELSE g[i - 1] \o ss[i]]
      BY <2>3, <2>4
    <3>2. n + 1 \in Nat
      BY <2>0
    <3>3. Upto(g, n + 1)
      BY ONLY <3>1
    <3> QED
      BY <3>2, <3>3
  <2> HIDE DEF g, Upto
  <2> QED
    BY <2>5
<1>3. T = Nat
  <2>1. T \in SUBSET Nat
    OBVIOUS
  <2> HIDE DEF T
  <2> QED
    BY <1>1, <1>2, <2>1, SetInduction
<1>4. Len(ss) \in Nat
  OBVIOUS
<1>5. \E f : Upto(f, Len(ss))
  BY <1>3, <1>4
<1> QED
  BY <1>5 DEF Flattens

LEMMA FlattenSeqIs ==
    ASSUME NEW S, NEW ss \in Seq(Seq(S)), Len(ss) # 0
    PROVE  \E f : Flattens(f, ss) /\ FlattenSeq(ss) = f[Len(ss)]
<1> DEFINE f == CHOOSE g : Flattens(g, ss)
<1>1. Flattens(f, ss)
  BY FlattensExists
<1>2. FlattenSeq(ss) = f[Len(ss)]
  BY DEF FlattenSeq, Flattens
<1> HIDE DEF f
<1> QED
  BY <1>1, <1>2

LEMMA FlattensType ==
    ASSUME NEW S, NEW ss \in Seq(Seq(S)), NEW f, Flattens(f, ss)
    PROVE  \A i \in 1..Len(ss) : f[i] \in Seq(S)
<1> DEFINE T == {n \in Nat : n + 1 <= Len(ss) => f[n + 1] \in Seq(S)}
<1>1. 0 \in T
  BY FlattensAt
<1>2. ASSUME NEW n \in T PROVE n + 1 \in T
  <2> SUFFICES ASSUME (n + 1) + 1 <= Len(ss) PROVE f[(n + 1) + 1] \in Seq(S)
    OBVIOUS
  <2>1. (n + 1) + 1 \in 1..Len(ss) /\ n + 1 \in 1..Len(ss) /\ f[n + 1] \in Seq(S)
    OBVIOUS
  <2>2. f[(n + 1) + 1] = f[n + 1] \o ss[(n + 1) + 1]
    <3>1. \A i \in 1..Len(ss) : f[i] = IF i = 1 THEN ss[i] ELSE f[i - 1] \o ss[i]
      BY FlattensAt
    <3>2. (n + 1) + 1 # 1 /\ ((n + 1) + 1) - 1 = n + 1
      OBVIOUS
    <3> QED
      BY <2>1, <3>1, <3>2
  <2>3. ss[(n + 1) + 1] \in Seq(S)
    BY <2>1
  <2> QED
    BY <2>1, <2>2, <2>3, ConcatProperties
<1>3. T = Nat
  <2>1. T \in SUBSET Nat
    OBVIOUS
  <2> HIDE DEF T
  <2> QED
    BY <1>1, <1>2, <2>1, SetInduction
<1> SUFFICES ASSUME NEW i \in 1..Len(ss) PROVE f[i] \in Seq(S)
  OBVIOUS
<1>4. i - 1 \in Nat /\ (i - 1) + 1 = i
  OBVIOUS
<1>5. i - 1 \in T
  BY <1>3, <1>4
<1> QED
  BY <1>4, <1>5

LEMMA FlattenEmpty == FlattenSeq(<<>>) = <<>>
  BY DEF FlattenSeq

LEMMA FlattenType ==
    ASSUME NEW S, NEW ss \in Seq(Seq(S))
    PROVE  FlattenSeq(ss) \in Seq(S)
<1>1. CASE Len(ss) = 0
  <2>1. ss = <<>>
    BY <1>1
  <2>2. FlattenSeq(ss) = <<>>
    BY <2>1, FlattenEmpty
  <2> QED
    BY <2>2
<1>2. CASE Len(ss) # 0
  <2>1. PICK f : Flattens(f, ss) /\ FlattenSeq(ss) = f[Len(ss)]
    BY <1>2, FlattenSeqIs
  <2>2. Len(ss) \in 1..Len(ss)
    BY <1>2
  <2> QED
    BY <2>1, <2>2, FlattensType
<1> QED
  BY <1>1, <1>2

LEMMA FlattenAppend ==
    ASSUME NEW S, NEW ss \in Seq(Seq(S)), NEW t \in Seq(S)
    PROVE  FlattenSeq(Append(ss, t)) = FlattenSeq(ss) \o t
<1> DEFINE more == Append(ss, t)
<1>1. /\ more \in Seq(Seq(S)) /\ Len(more) = Len(ss) + 1 /\ Len(ss) \in Nat
      /\ \A i \in 1..Len(ss) : more[i] = ss[i]
      /\ more[Len(ss) + 1] = t
  OBVIOUS
<1> HIDE DEF more
<1>2. PICK g : Flattens(g, more) /\ FlattenSeq(more) = g[Len(more)]
  <2>1. Len(more) # 0
    BY <1>1
  <2> QED
    BY <1>1, <2>1, FlattenSeqIs
<1>3. \A i \in 1..Len(more) : g[i] = IF i = 1 THEN more[i] ELSE g[i - 1] \o more[i]
  BY <1>1, <1>2, FlattensAt
<1>4. CASE Len(ss) = 0
  <2>1. ss = <<>>
    BY <1>4
  <2>2. FlattenSeq(ss) = <<>>
    BY <2>1, FlattenEmpty
  <2>3. FlattenSeq(more) = t
    BY <1>1, <1>2, <1>3, <1>4
  <2>4. <<>> \o t = t
    OBVIOUS
  <2> QED
    BY <2>2, <2>3, <2>4 DEF more
<1>5. CASE Len(ss) # 0
  <2>1. PICK f : Flattens(f, ss) /\ FlattenSeq(ss) = f[Len(ss)]
    BY <1>5, FlattenSeqIs
  <2>2. \A i \in 1..Len(ss) : f[i] = IF i = 1 THEN ss[i] ELSE f[i - 1] \o ss[i]
    BY <2>1, FlattensAt
  <2> DEFINE T == {n \in Nat : n + 1 <= Len(ss) => g[n + 1] = f[n + 1]}
  <2>3. 0 \in T
    BY <1>1, <1>3, <2>2
  <2>4. ASSUME NEW n \in T PROVE n + 1 \in T
    <3> SUFFICES ASSUME (n + 1) + 1 <= Len(ss) PROVE g[(n + 1) + 1] = f[(n + 1) + 1]
      OBVIOUS
    <3>1. /\ (n + 1) + 1 \in 1..Len(ss) /\ (n + 1) + 1 \in 1..Len(more)
          /\ (n + 1) + 1 # 1 /\ ((n + 1) + 1) - 1 = n + 1 /\ g[n + 1] = f[n + 1]
      BY <1>1
    <3>2. g[(n + 1) + 1] = g[n + 1] \o more[(n + 1) + 1]
      BY <1>3, <3>1
    <3>3. f[(n + 1) + 1] = f[n + 1] \o ss[(n + 1) + 1]
      BY <2>2, <3>1
    <3> QED
      BY <1>1, <3>1, <3>2, <3>3
  <2>5. T = Nat
    <3>1. T \in SUBSET Nat
      OBVIOUS
    <3> HIDE DEF T
    <3> QED
      BY <2>3, <2>4, <3>1, SetInduction
  <2>6. Len(ss) - 1 \in T
    <3>1. Len(ss) - 1 \in Nat
      BY <1>1, <1>5
    <3> QED
      BY <2>5, <3>1
  <2>7. g[Len(ss)] = f[Len(ss)]
    <3>1. (Len(ss) - 1) + 1 = Len(ss)
      BY <1>1
    <3> QED
      BY <1>1, <2>6, <3>1
  <2>8. Len(ss) + 1 \in 1..Len(more) /\ Len(ss) + 1 # 1 /\ (Len(ss) + 1) - 1 = Len(ss)
    BY <1>1, <1>5
  <2>9. g[Len(ss) + 1] = g[Len(ss)] \o t
    BY <1>1, <1>3, <2>8
  <2> QED
    BY <1>1, <1>2, <2>1, <2>7, <2>9 DEF more
<1> QED
  BY <1>1, <1>4, <1>5

-----------------------------------------------------------------------------
(***************************************************************************)
(* Induction over sequences, again with a set, and what it gives.          *)
(***************************************************************************)
LEMMA SeqInduction ==
    ASSUME NEW S, NEW T, <<>> \in T,
           \A s \in Seq(S), x \in S : s \in T => Append(s, x) \in T
    PROVE  Seq(S) \subseteq T
<1> DEFINE U == {n \in Nat : \A s \in Seq(S) : Len(s) = n => s \in T}
<1>1. 0 \in U
  <2>1. \A s \in Seq(S) : Len(s) = 0 => s = <<>>
    OBVIOUS
  <2> QED
    BY <2>1
<1>2. ASSUME NEW n \in U PROVE n + 1 \in U
  <2> SUFFICES ASSUME NEW s \in Seq(S), Len(s) = n + 1 PROVE s \in T
    OBVIOUS
  <2>1. n \in Nat /\ s # <<>>
    OBVIOUS
  <2>2. PICK f \in Seq(S), x \in S : s = Append(f, x)
    BY <2>1, SequenceEmptyOrAppend
  <2>3. Len(s) = Len(f) + 1 /\ Len(f) \in Nat
    BY <2>2
  <2>4. Len(f) = n
    BY <2>1, <2>3
  <2>5. f \in T
    BY <2>4
  <2> QED
    BY <2>2, <2>5
<1>3. U = Nat
  <2>1. U \in SUBSET Nat
    OBVIOUS
  <2> HIDE DEF U
  <2> QED
    BY <1>1, <1>2, <2>1, SetInduction
<1> QED
  BY <1>3

LEMMA MapAppend ==
    ASSUME NEW S, NEW s \in Seq(S), NEW x \in S, NEW f
    PROVE  [i \in DOMAIN Append(s, x) |-> f[Append(s, x)[i]]]
             = Append([i \in DOMAIN s |-> f[s[i]]], f[x])
<1> DEFINE m == [i \in DOMAIN s |-> f[s[i]]]
           n == [i \in DOMAIN Append(s, x) |-> f[Append(s, x)[i]]]
           R == {f[y] : y \in S}
<1>1. m \in Seq(R) /\ n \in Seq(R) /\ f[x] \in R /\ Len(m) = Len(s) /\ Len(n) = Len(s) + 1
  OBVIOUS
<1>2. \A i \in 1..Len(s) + 1 : n[i] = Append(m, f[x])[i]
  OBVIOUS
<1>3. Append(m, f[x]) \in Seq(R) /\ Len(Append(m, f[x])) = Len(s) + 1
  BY <1>1
<1> HIDE DEF m, n, R
<1> QED
  BY <1>1, <1>2, <1>3, SeqEqual DEF m, n

(***************************************************************************)
(* What is made of a sequence element by element: f gives a sequence for   *)
(* each, and Spread puts them together.                                    *)
(***************************************************************************)
Spread(s, f) == FlattenSeq([i \in DOMAIN s |-> f[s[i]]])
Maps(S, R)   == [S -> Seq(R)]

LEMMA SpreadType ==
    ASSUME NEW S, NEW R, NEW f \in Maps(S, R), NEW s \in Seq(S)
    PROVE  /\ [i \in DOMAIN s |-> f[s[i]]] \in Seq(Seq(R))
           /\ Spread(s, f) \in Seq(R)
<1>1. /\ DOMAIN s = 1..Len(s) /\ Len(s) \in Nat
      /\ \A i \in 1..Len(s) : f[s[i]] \in Seq(R)
  BY ElementOfSeq DEF Maps
<1>2. [i \in DOMAIN s |-> f[s[i]]] \in Seq(Seq(R))
  BY <1>1
<1> QED
  BY <1>2, FlattenType DEF Spread

LEMMA SpreadEmpty == \A f : Spread(<<>>, f) = <<>>
<1> SUFFICES ASSUME NEW f PROVE Spread(<<>>, f) = <<>>
  OBVIOUS
<1>1. [i \in DOMAIN <<>> |-> f[<<>>[i]]] = <<>>
  OBVIOUS
<1> QED
  BY <1>1, FlattenEmpty DEF Spread

LEMMA SpreadAppend ==
    ASSUME NEW S, NEW R, NEW f \in Maps(S, R), NEW s \in Seq(S), NEW x \in S
    PROVE  Spread(Append(s, x), f) = Spread(s, f) \o f[x]
<1> DEFINE m == [i \in DOMAIN s |-> f[s[i]]]
<1>1. m \in Seq(Seq(R)) /\ f[x] \in Seq(R)
  BY SpreadType DEF Maps
<1>2. [i \in DOMAIN Append(s, x) |-> f[Append(s, x)[i]]] = Append(m, f[x])
  BY MapAppend
<1>3. Spread(s, f) = FlattenSeq(m)
  BY DEF Spread
<1> HIDE DEF m
<1> QED
  BY <1>1, <1>2, <1>3, FlattenAppend DEF Spread

LEMMA SpreadOne ==
    ASSUME NEW S, NEW R, NEW f \in Maps(S, R), NEW x \in S
    PROVE  Spread(<<x>>, f) = f[x]
<1>1. <<>> \in Seq(S) /\ <<x>> = Append(<<>>, x) /\ f[x] \in Seq(R)
  BY DEF Maps
<1>2. Spread(<<x>>, f) = Spread(<<>>, f) \o f[x]
  BY <1>1, SpreadAppend
<1> QED
  BY <1>1, <1>2, SpreadEmpty, ConcatEmptySeq

LEMMA SpreadConcat ==
    ASSUME NEW S, NEW R, NEW f \in Maps(S, R), NEW s \in Seq(S), NEW t \in Seq(S)
    PROVE  Spread(s \o t, f) = Spread(s, f) \o Spread(t, f)
<1> DEFINE T == {u \in Seq(S) : Spread(s \o u, f) = Spread(s, f) \o Spread(u, f)}
<1>1. Spread(s, f) \in Seq(R)
  BY SpreadType
<1>2. <<>> \in T
  <2>1. s \o <<>> = s
    BY ConcatEmptySeq
  <2>2. Spread(s, f) \o <<>> = Spread(s, f)
    BY <1>1, ConcatEmptySeq
  <2>3. Spread(<<>>, f) = <<>> /\ <<>> \in Seq(S)
    BY SpreadEmpty
  <2>4. Spread(s \o <<>>, f) = Spread(s, f) \o Spread(<<>>, f)
    BY <2>1, <2>2, <2>3
  <2> QED
    BY <2>3, <2>4
<1>3. ASSUME NEW u \in Seq(S), NEW x \in S, u \in T PROVE Append(u, x) \in T
  <2>1. s \o Append(u, x) = Append(s \o u, x) /\ s \o u \in Seq(S) /\ Append(u, x) \in Seq(S)
    OBVIOUS
  <2>2. Spread(s \o Append(u, x), f) = Spread(s \o u, f) \o f[x]
    BY <2>1, SpreadAppend
  <2>3. Spread(Append(u, x), f) = Spread(u, f) \o f[x]
    BY SpreadAppend
  <2>4. Spread(u, f) \in Seq(R) /\ f[x] \in Seq(R)
    BY SpreadType DEF Maps
  <2>5. (Spread(s, f) \o Spread(u, f)) \o f[x] = Spread(s, f) \o (Spread(u, f) \o f[x])
    <3> DEFINE a == Spread(s, f)
               b == Spread(u, f)
               c == f[x]
    <3>1. a \in Seq(R) /\ b \in Seq(R) /\ c \in Seq(R)
      BY <1>1, <2>4
    <3> HIDE DEF a, b, c
    <3>2. (a \o b) \o c = a \o (b \o c)
      BY <3>1, ConcatAssociative
    <3> QED
      BY <3>2 DEF a, b, c
  <2>6. Spread(s \o u, f) = Spread(s, f) \o Spread(u, f)
    BY <1>3
  <2>7. Spread(s \o Append(u, x), f) = Spread(s, f) \o Spread(Append(u, x), f)
    BY <2>2, <2>3, <2>5, <2>6
  <2> QED
    BY <2>1, <2>7
<1>4. Seq(S) \subseteq T
  <2> HIDE DEF T
  <2> QED
    BY <1>2, <1>3, SeqInduction
<1> QED
  BY <1>4

-----------------------------------------------------------------------------
(***************************************************************************)
(* Messages, and what Content makes of them.                               *)
(***************************************************************************)
Part    == [from : {"template", "history", "separator"} \X Nat, kind : PartKinds]
Msg     == [role : STRING, cache : Caches, parts : Seq(Part)]
OwnOf   == [p \in Part |-> Own(p)]
Less    == [m \in Msg |-> Spread(m.parts, OwnOf)]

\* A message as it is before Normalize.
Single(m) == m \in Msg /\ Len(m.parts) = 1 /\ m.parts[1] # Separator

Apart(parts) ==
    \A p, q \in DOMAIN parts :
        (/\ p < q /\ parts[p].kind = "text" /\ parts[q].kind = "text"
         /\ parts[p] # Separator /\ parts[q] # Separator)
        => \E s \in (p + 1)..(q - 1) : parts[s] = Separator

LEMMA SeparatorIsPart == Separator \in Part
  BY DEF Separator, Part, PartKinds

LEMMA OwnType == OwnOf \in Maps(Part, Part)
  BY DEF OwnOf, Own, Maps

LEMMA LessType ==
    /\ Less \in Maps(Msg, Part)
    /\ \A m \in Msg : Less[m] = Spread(m.parts, OwnOf)
<1>1. \A m \in Msg : m.parts \in Seq(Part)
  BY DEF Msg
<1>2. \A m \in Msg : Spread(m.parts, OwnOf) \in Seq(Part)
  BY <1>1, OwnType, SpreadType
<1> QED
  BY <1>2 DEF Less, Maps

LEMMA ContentIs ==
    ASSUME NEW ms \in Seq(Msg)
    PROVE  Content(ms) = Spread(ms, Less)
<1>1. ASSUME NEW m \in Msg
      PROVE  FlattenSeq([k \in DOMAIN m.parts |-> Own(m.parts[k])]) = Less[m]
  <2>1. m.parts \in Seq(Part) /\ Less[m] = Spread(m.parts, OwnOf)
    BY LessType DEF Msg
  <2>2. \A k \in DOMAIN m.parts : m.parts[k] \in Part
    BY <2>1
  <2>3. \A k \in DOMAIN m.parts : OwnOf[m.parts[k]] = Own(m.parts[k])
    BY <2>2 DEF OwnOf
  <2>4. [k \in DOMAIN m.parts |-> Own(m.parts[k])] = [k \in DOMAIN m.parts |-> OwnOf[m.parts[k]]]
    BY <2>3
  <2> QED
    BY <2>1, <2>4 DEF Spread
<1>2. \A i \in DOMAIN ms : ms[i] \in Msg
  OBVIOUS
<1>3. [i \in DOMAIN ms |-> FlattenSeq([k \in DOMAIN ms[i].parts |-> Own(ms[i].parts[k])])]
        = [i \in DOMAIN ms |-> Less[ms[i]]]
  BY <1>1, <1>2
<1> QED
  BY <1>3 DEF Content, Spread

LEMMA ContentAppend ==
    ASSUME NEW ms \in Seq(Msg), NEW m \in Msg
    PROVE  Content(Append(ms, m)) = Content(ms) \o Less[m]
<1>1. Append(ms, m) \in Seq(Msg)
  OBVIOUS
<1>2. Spread(Append(ms, m), Less) = Spread(ms, Less) \o Less[m]
  BY LessType, SpreadAppend
<1> QED
  BY <1>1, <1>2, ContentIs

LEMMA ContentEmpty == Content(<<>>) = <<>>
<1>1. <<>> \in Seq(Msg)
  OBVIOUS
<1> QED
  BY <1>1, ContentIs, SpreadEmpty

LEMMA ContentType ==
    ASSUME NEW ms \in Seq(Msg)
    PROVE  Content(ms) \in Seq(Part)
  BY ContentIs, LessType, SpreadType

LEMMA LessSingle ==
    ASSUME NEW m, Single(m)
    PROVE  Less[m] = <<m.parts[1]>>
<1>1. m \in Msg /\ m.parts \in Seq(Part) /\ m.parts[1] \in Part /\ m.parts = <<m.parts[1]>>
  BY DEF Single, Msg
<1>2. OwnOf[m.parts[1]] = <<m.parts[1]>>
  BY <1>1 DEF OwnOf, Own, Single
<1>3. Spread(<<m.parts[1]>>, OwnOf) = OwnOf[m.parts[1]]
  BY <1>1, OwnType, SpreadOne
<1> QED
  BY <1>1, <1>2, <1>3, LessType

\* Before Normalize the content is the messages' parts, one for each.
LEMMA ContentOfSingles ==
    ASSUME NEW ms \in Seq(Msg), \A i \in DOMAIN ms : Single(ms[i])
    PROVE  Content(ms) = [i \in DOMAIN ms |-> ms[i].parts[1]]
<1> DEFINE S == {m \in Msg : Single(m)}
           T == {s \in Seq(S) : Content(s) = [i \in DOMAIN s |-> s[i].parts[1]]}
           first == [m \in S |-> m.parts[1]]
<1>1. S \subseteq Msg /\ Seq(S) \subseteq Seq(Msg) /\ ms \in Seq(S)
  <2>1. S \subseteq Msg
    OBVIOUS
  <2>2. \A i \in DOMAIN ms : ms[i] \in S
    OBVIOUS
  <2>3. ms \in Seq(S)
    <3> HIDE DEF S
    <3> QED
      BY <2>2
  <2>4. Seq(S) \subseteq Seq(Msg)
    <3> HIDE DEF S
    <3> QED
      BY <2>1, SeqMonotonic
  <2> QED
    BY <2>1, <2>3, <2>4
<1>2. <<>> \in T
  <2>1. <<>> \in Seq(S) /\ [i \in DOMAIN <<>> |-> <<>>[i].parts[1]] = <<>>
    OBVIOUS
  <2> HIDE DEF S, first
  <2> QED
    BY <2>1, ContentEmpty
<1>3. ASSUME NEW s \in Seq(S), NEW x \in S, s \in T PROVE Append(s, x) \in T
  <2>1. s \in Seq(Msg) /\ x \in Msg /\ Single(x) /\ Append(s, x) \in Seq(S)
    <3>1. x \in Msg /\ Single(x)
      OBVIOUS
    <3>2. Append(s, x) \in Seq(S)
      <4> HIDE DEF S
      <4> QED
        OBVIOUS
    <3> QED
      BY <1>1, <3>1, <3>2
  <2>2. Content(Append(s, x)) = Content(s) \o <<x.parts[1]>>
    BY <2>1, ContentAppend, LessSingle
  <2>3. /\ [i \in DOMAIN s |-> s[i].parts[1]] = [i \in DOMAIN s |-> first[s[i]]]
        /\ [i \in DOMAIN Append(s, x) |-> Append(s, x)[i].parts[1]]
              = [i \in DOMAIN Append(s, x) |-> first[Append(s, x)[i]]]
        /\ first[x] = x.parts[1]
    <3>1. (\A i \in DOMAIN s : s[i] \in S) /\ (\A i \in DOMAIN Append(s, x) : Append(s, x)[i] \in S)
      <4> HIDE DEF S
      <4> QED
        BY <2>1
    <3>2. \A m \in S : first[m] = m.parts[1]
      OBVIOUS
    <3> HIDE DEF S, first
    <3> QED
      BY <3>1, <3>2
  <2>4. [i \in DOMAIN Append(s, x) |-> first[Append(s, x)[i]]]
          = Append([i \in DOMAIN s |-> first[s[i]]], first[x])
    <3> HIDE DEF S, first
    <3> QED
      BY MapAppend
  <2>5. Content(s) \in Seq(Part) /\ x.parts[1] \in Part
    <3>1. x.parts \in Seq(Part) /\ Len(x.parts) = 1
      BY <2>1 DEF Single, Msg
    <3>2. x.parts[1] \in Part
      BY <3>1
    <3>3. Content(s) \in Seq(Part)
      BY <2>1, ContentType
    <3> QED
      BY <3>2, <3>3
  <2>6. Content(s) \o <<x.parts[1]>> = Append(Content(s), x.parts[1])
    BY <2>5
  <2>7. Content(s) = [i \in DOMAIN s |-> s[i].parts[1]]
    BY <1>3
  <2>8. Content(Append(s, x)) = [i \in DOMAIN Append(s, x) |-> Append(s, x)[i].parts[1]]
    <3> HIDE DEF S, first
    <3> QED
      BY <2>2, <2>3, <2>4, <2>6, <2>7
  <2> HIDE DEF S
  <2> QED
    BY <2>1, <2>8
<1>4. Seq(S) \subseteq T
  <2> HIDE DEF T, S
  <2> QED
    BY <1>2, <1>3, SeqInduction
<1> QED
  BY <1>1, <1>4

-----------------------------------------------------------------------------
(***************************************************************************)
(* Two system messages in one.                                             *)
(***************************************************************************)
Between(a, b) == IF HasText(a.parts) /\ HasText(b.parts) THEN <<Separator>> ELSE <<>>

LEMMA MergeShape ==
    ASSUME NEW a \in Msg, NEW b \in Msg
    PROVE  /\ MergeSystem(a, b) \in Msg
           /\ MergeSystem(a, b).role = a.role
           /\ MergeSystem(a, b).cache = MergeCache(a.cache, b.cache)
           /\ MergeSystem(a, b).parts = (a.parts \o Between(a, b)) \o b.parts
           /\ Between(a, b) \in Seq(Part)
<1>1. Between(a, b) \in Seq(Part)
  <2>1. <<>> \in Seq(Part) /\ <<Separator>> \in Seq(Part)
    BY SeparatorIsPart
  <2> QED
    BY <2>1 DEF Between
<1>2. a.parts \in Seq(Part) /\ b.parts \in Seq(Part) /\ a.cache \in Caches /\ a.role \in STRING
  BY DEF Msg
<1>3. (a.parts \o Between(a, b)) \o b.parts \in Seq(Part)
  BY <1>1, <1>2
<1>4. MergeCache(a.cache, b.cache) \in Caches
  BY <1>2, CachesAssumption DEF MergeCache
<1>5. MergeSystem(a, b) = [role |-> a.role, cache |-> MergeCache(a.cache, b.cache),
                           parts |-> (a.parts \o Between(a, b)) \o b.parts]
  <2>1. MergeSystem(a, b).parts = (a.parts \o Between(a, b)) \o b.parts
    BY DEF MergeSystem, Between
  <2> QED
    BY <2>1 DEF MergeSystem
<1> QED
  BY <1>1, <1>2, <1>3, <1>4, <1>5 DEF Msg

LEMMA MergeKeeps ==
    ASSUME NEW a \in Msg, NEW b \in Msg
    PROVE  Less[MergeSystem(a, b)] = Less[a] \o Less[b]
<1>1. /\ a.parts \in Seq(Part) /\ b.parts \in Seq(Part) /\ Between(a, b) \in Seq(Part)
      /\ MergeSystem(a, b) \in Msg
      /\ MergeSystem(a, b).parts = (a.parts \o Between(a, b)) \o b.parts
  BY MergeShape DEF Msg
<1>2. a.parts \o Between(a, b) \in Seq(Part)
  BY <1>1
<1>3. Spread(Between(a, b), OwnOf) = <<>>
  <2>1. OwnOf[Separator] = <<>>
    BY SeparatorIsPart DEF OwnOf, Own
  <2>2. Spread(<<Separator>>, OwnOf) = <<>>
    BY <2>1, SeparatorIsPart, OwnType, SpreadOne
  <2> QED
    BY <2>2, SpreadEmpty DEF Between
<1>4. Spread(a.parts \o Between(a, b), OwnOf) = Spread(a.parts, OwnOf) \o Spread(Between(a, b), OwnOf)
  BY <1>1, OwnType, SpreadConcat
<1>5. Spread(a.parts, OwnOf) \in Seq(Part)
  BY <1>1, OwnType, SpreadType
<1>6. Spread(a.parts, OwnOf) \o <<>> = Spread(a.parts, OwnOf)
  BY <1>5, ConcatEmptySeq
<1>7. Spread((a.parts \o Between(a, b)) \o b.parts, OwnOf)
        = Spread(a.parts \o Between(a, b), OwnOf) \o Spread(b.parts, OwnOf)
  BY <1>1, <1>2, OwnType, SpreadConcat
<1> QED
  BY <1>1, <1>3, <1>4, <1>6, <1>7, LessType

\* Where the parts of a merged message come from.
SeparatorOnly(s) == s = <<>> \/ s = <<Separator>>
JoinedBy(a, s, b, m) ==
    /\ \A k \in DOMAIN a : k \in DOMAIN m /\ m[k] = a[k]
    /\ \A k \in DOMAIN m : \/ k \in DOMAIN a
                           \/ k > Len(a) /\ m[k] = Separator
                           \/ k = Len(m) /\ m[k] = b[1]
    /\ s = <<Separator>> => Len(m) = Len(a) + 2 /\ m[Len(a) + 1] = Separator

LEMMA Joins ==
    ASSUME NEW a \in Seq(Part), NEW b \in Seq(Part), Len(b) = 1, NEW s \in Seq(Part),
           SeparatorOnly(s)
    PROVE  JoinedBy(a, s, b, (a \o s) \o b)
<1> DEFINE m == (a \o s) \o b
<1>0. m = (a \o s) \o b /\ (s = <<>> \/ s = <<Separator>>)
  BY DEF SeparatorOnly
<1> HIDE DEF m
<1>1. /\ a \o s \in Seq(Part) /\ Len(a \o s) = Len(a) + Len(s)
      /\ \A k \in 1..Len(a) + Len(s) : (a \o s)[k] = IF k <= Len(a) THEN a[k] ELSE s[k - Len(a)]
  BY ConcatProperties
<1>2. /\ m \in Seq(Part) /\ Len(m) = Len(a \o s) + Len(b)
      /\ \A k \in 1..Len(a \o s) + Len(b) :
            m[k] = IF k <= Len(a \o s) THEN (a \o s)[k] ELSE b[k - Len(a \o s)]
  <2> DEFINE t == a \o s
  <2>1. t \in Seq(Part) /\ m = t \o b
    BY <1>0, <1>1
  <2> HIDE DEF t
  <2>2. /\ t \o b \in Seq(Part) /\ Len(t \o b) = Len(t) + Len(b)
        /\ \A k \in 1..Len(t) + Len(b) : (t \o b)[k] = IF k <= Len(t) THEN t[k] ELSE b[k - Len(t)]
    BY <2>1, ConcatProperties
  <2> QED
    BY <2>1, <2>2 DEF t
<1>3. /\ Len(s) \in 0..1 /\ (Len(s) = 1 => s[1] = Separator) /\ Len(a) \in Nat /\ DOMAIN a = 1..Len(a) /\ DOMAIN m = 1..Len(m)
      /\ s = <<>> => Len(s) = 0
      /\ s = <<Separator>> => Len(s) = 1 /\ s[1] = Separator
  BY <1>0, <1>2
<1> DEFINE n == Len(a)
           l == Len(s)
<1>4. /\ n \in Nat /\ l \in 0..1 /\ Len(m) = n + l + 1
      /\ \A k \in 1..n : m[k] = a[k]
      /\ m[n + l + 1] = b[1]
      /\ l = 1 => m[n + 1] = Separator
  <2>1. n \in Nat /\ l \in 0..1 /\ Len(m) = n + l + 1
    BY <1>1, <1>2, <1>3
  <2>2. \A k \in 1..n + l : m[k] = IF k <= n THEN a[k] ELSE s[k - n]
    BY <1>1, <1>2, <2>1
  <2>3. m[n + l + 1] = b[1]
    <3>1. n + l + 1 \in 1..Len(a \o s) + Len(b) /\ ~(n + l + 1 <= Len(a \o s))
          /\ (n + l + 1) - Len(a \o s) = 1
      BY <1>1, <2>1
    <3> QED
      BY <1>2, <3>1
  <2>4. l = 1 => m[n + 1] = Separator
    <3> SUFFICES ASSUME l = 1 PROVE m[n + 1] = Separator
      OBVIOUS
    <3>1. s[1] = Separator
      BY <1>3
    <3>2. n + 1 \in 1..n + l /\ ~(n + 1 <= n) /\ (n + 1) - n = 1
      BY <2>1
    <3> HIDE DEF n, l
    <3> QED
      BY <2>2, <3>1, <3>2
  <2>5. \A k \in 1..n : m[k] = a[k]
    <3> HIDE DEF n, l
    <3> QED
      BY <2>1, <2>2
  <2> QED
    BY <2>1, <2>3, <2>4, <2>5
<1>5. DOMAIN a = 1..n /\ DOMAIN m = 1..n + l + 1 /\ (s = <<Separator>> => l = 1)
  BY <1>3, <1>4
<1> HIDE DEF n, l
<1>6. \A k \in DOMAIN m : k \in 1..n \/ (k > n /\ k = n + 1 /\ l = 1) \/ k = n + l + 1
  BY <1>4, <1>5
<1>7. 1..n \subseteq 1..n + l + 1
  BY <1>4
<1> QED
  <2>1. \A k \in DOMAIN a : k \in DOMAIN m /\ m[k] = a[k]
    BY <1>4, <1>5, <1>7
  <2>2. Len(m) = n + l + 1
    BY <1>4
  <2>3. \A k \in DOMAIN m : \/ k \in DOMAIN a
                            \/ k > n /\ m[k] = Separator
                            \/ k = Len(m) /\ m[k] = b[1]
    BY <1>4, <1>5, <1>6
  <2>4. s = <<Separator>> => Len(m) = n + 2 /\ m[n + 1] = Separator
    BY <1>4, <1>5
  <2> QED
    BY <2>1, <2>3, <2>4 DEF n, m, JoinedBy

LEMMA MergeParts ==
    ASSUME NEW a \in Msg, NEW b, Single(b)
    PROVE  LET m == MergeSystem(a, b).parts
           IN  /\ \A k \in DOMAIN a.parts : k \in DOMAIN m /\ m[k] = a.parts[k]
               /\ \A k \in DOMAIN m : \/ k \in DOMAIN a.parts
                                      \/ k > Len(a.parts) /\ m[k] = Separator
                                      \/ k = Len(m) /\ m[k] = b.parts[1]
               /\ HasText(a.parts) /\ b.parts[1].kind = "text" =>
                     Len(m) = Len(a.parts) + 2 /\ m[Len(a.parts) + 1] = Separator
<1>0. b \in Msg
  BY DEF Single
<1>1. /\ a.parts \in Seq(Part) /\ b.parts \in Seq(Part) /\ Between(a, b) \in Seq(Part)
      /\ MergeSystem(a, b).parts = (a.parts \o Between(a, b)) \o b.parts
      /\ Len(b.parts) = 1
  BY <1>0, MergeShape DEF Msg, Single
<1>2. HasText(b.parts) <=> b.parts[1].kind = "text"
  BY <1>1 DEF HasText
<1>3. /\ Between(a, b) = <<>> \/ Between(a, b) = <<Separator>>
      /\ HasText(a.parts) /\ b.parts[1].kind = "text" => Between(a, b) = <<Separator>>
  BY <1>2 DEF Between
<1> DEFINE m == MergeSystem(a, b).parts
           s == Between(a, b)
           c == a.parts
           d == b.parts
<1>4. /\ m = (c \o s) \o d /\ c \in Seq(Part) /\ d \in Seq(Part) /\ s \in Seq(Part)
      /\ Len(d) = 1 /\ SeparatorOnly(s) /\ m \in Seq(Part)
  <2>1. m \in Seq(Part)
    BY <1>0, MergeShape DEF Msg
  <2> QED
    BY <1>1, <1>3, <2>1 DEF SeparatorOnly
<1>5. HasText(c) /\ d[1].kind = "text" => s = <<Separator>>
  BY <1>3
<1> HIDE DEF m, s, c, d
<1>6. JoinedBy(c, s, d, m)
  BY <1>4, Joins
<1> QED
  BY <1>5, <1>6 DEF m, c, d, JoinedBy

LEMMA MergeApart ==
    ASSUME NEW a \in Msg, NEW b, Single(b), Apart(a.parts)
    PROVE  Apart(MergeSystem(a, b).parts)
<1> DEFINE ms == MergeSystem(a, b).parts
<1>1. /\ a.parts \in Seq(Part) /\ ms \in Seq(Part)
      /\ DOMAIN a.parts = 1..Len(a.parts) /\ DOMAIN ms = 1..Len(ms)
      /\ Len(a.parts) \in Nat /\ Len(ms) \in Nat
  <2>1. b \in Msg
    BY DEF Single
  <2>2. MergeSystem(a, b) \in Msg
    BY <2>1, MergeShape
  <2>3. a.parts \in Seq(Part) /\ ms \in Seq(Part)
    BY <2>2 DEF Msg
  <2> HIDE DEF ms
  <2> QED
    BY <2>3
<1>2. /\ \A k \in DOMAIN a.parts : k \in DOMAIN ms /\ ms[k] = a.parts[k]
      /\ \A k \in DOMAIN ms : \/ k \in DOMAIN a.parts
                              \/ k > Len(a.parts) /\ ms[k] = Separator
                              \/ k = Len(ms) /\ ms[k] = b.parts[1]
      /\ HasText(a.parts) /\ b.parts[1].kind = "text" =>
            Len(ms) = Len(a.parts) + 2 /\ ms[Len(a.parts) + 1] = Separator
  BY MergeParts
<1> HIDE DEF ms
<1> SUFFICES ASSUME NEW p \in DOMAIN ms, NEW q \in DOMAIN ms, p < q,
                    ms[p].kind = "text", ms[q].kind = "text",
                    ms[p] # Separator, ms[q] # Separator
             PROVE  \E s \in (p + 1)..(q - 1) : ms[s] = Separator
  BY DEF Apart, ms
<1>3. p \in DOMAIN a.parts /\ ms[p] = a.parts[p]
  <2>1. p # Len(ms)
    BY <1>1
  <2> QED
    BY <1>2, <2>1
<1>4. CASE q \in DOMAIN a.parts
  <2>1. ms[q] = a.parts[q]
    BY <1>2, <1>4
  <2>2. PICK s \in (p + 1)..(q - 1) : a.parts[s] = Separator
    BY <1>3, <1>4, <2>1 DEF Apart
  <2>3. s \in DOMAIN a.parts
    BY <1>1, <1>3, <1>4
  <2> QED
    BY <1>2, <2>2, <2>3
<1>5. CASE q \notin DOMAIN a.parts
  <2>1. q = Len(ms) /\ ms[q] = b.parts[1]
    BY <1>2, <1>5
  <2>2. HasText(a.parts)
    BY <1>3 DEF HasText
  <2>3. Len(ms) = Len(a.parts) + 2 /\ ms[Len(a.parts) + 1] = Separator
    BY <1>2, <2>1, <2>2
  <2>4. Len(a.parts) + 1 \in (p + 1)..(q - 1)
    BY <1>1, <1>3, <2>1, <2>3
  <2> QED
    BY <2>3, <2>4
<1> QED
  BY <1>4, <1>5

-----------------------------------------------------------------------------
(***************************************************************************)
(* The messages of the execution: the template's in their order, and the   *)
(* history, spliced in as one piece at n.                                  *)
(***************************************************************************)
Source(m)       == m.parts[1].from[2]
FromTemplate(m) ==
    /\ m.parts[1].from[1] = "template"
    /\ Source(m) \in DOMAIN messages
    /\ m.role = messages[Source(m)].role

InOrder(at) == \A i, j \in at : i < j => Source(out[i]) < Source(out[j])

MessagesInv ==
    /\ messages \in Seq(MessageTemplate) /\ history \in Seq(Entry)
    /\ out \in Seq(Msg)
    /\ \A i \in DOMAIN out : Single(out[i])

RenderInv ==
    pc \in {"start", "render"} =>
        /\ next \in 1..(Len(messages) + 1)
        /\ norm = <<>>
        /\ \A i \in DOMAIN out : FromTemplate(out[i]) /\ Source(out[i]) < next
        /\ InOrder(DOMAIN out)

Past(n) == (n + 1)..(n + Len(history))
SplicedAt(n) ==
    /\ n \in Nat /\ n + Len(history) <= Len(out)
    /\ \A i \in Past(n) : out[i].parts[1].from = <<"history", i - n>>
    /\ \A i \in DOMAIN out \ Past(n) : FromTemplate(out[i])
    /\ InOrder(DOMAIN out \ Past(n))
    /\ \A i \in 1..n : IsSystem(out[i])
    /\ n + Len(history) < Len(out) => ~IsSystem(out[n + Len(history) + 1])

SpliceInv == pc \in {"normalize", "done"} => \E n : SplicedAt(n)

LEMMA InitMessages == Init => MessagesInv /\ RenderInv /\ SpliceInv
<1> SUFFICES ASSUME Init PROVE MessagesInv /\ RenderInv /\ SpliceInv
  OBVIOUS
<1>1. messages \in Seq(MessageTemplate)
  BY TemplatesAssumption DEF Init
<1>2. history \in Seq(Entry)
  <2>1. <<>> \in Seq(Entry)
    OBVIOUS
  <2> QED
    BY <2>1, HistoriesAssumption DEF Init
<1>3. out = <<>> /\ <<>> \in Seq(Msg) /\ DOMAIN <<>> = {} /\ pc = "start" /\ next = 1 /\ norm = <<>>
  BY DEF Init
<1>4. next \in 1..(Len(messages) + 1)
  BY <1>1, <1>3
<1> QED
  BY <1>1, <1>2, <1>3, <1>4 DEF MessagesInv, RenderInv, SpliceInv, InOrder

\* What a template message renders to.
LEMMA RenderShape ==
    ASSUME messages \in Seq(MessageTemplate), NEW k \in DOMAIN messages
    PROVE  Single(Render(k)) /\ FromTemplate(Render(k)) /\ Source(Render(k)) = k
<1>1. messages[k] \in MessageTemplate /\ k \in Nat
  BY DOMAIN messages = 1..Len(messages)
<1>2. PartKind(messages[k]) \in PartKinds
  BY DEF PartKind, PartKinds
<1>3. messages[k].role \in STRING /\ messages[k].cache \in Caches
  BY <1>1 DEF MessageTemplate
<1> DEFINE p == [from |-> <<"template", k>>, kind |-> PartKind(messages[k])]
<1>4. p \in Part /\ p # Separator
  <2>1. <<"template", k>> \in {"template", "history", "separator"} \X Nat
    BY <1>1
  <2>2. p.from[1] = "template" /\ Separator.from[1] = "separator"
    BY DEF Separator
  <2> QED
    BY <1>2, <2>1, <2>2 DEF Part
<1>5. /\ Render(k).role = messages[k].role /\ Render(k).cache = messages[k].cache
      /\ Render(k).parts = <<p>>
      /\ Render(k) = [role |-> messages[k].role, cache |-> messages[k].cache, parts |-> <<p>>]
  BY DEF Render
<1>6. p.from = <<"template", k>>
  OBVIOUS
<1> HIDE DEF p
<1>7. <<p>> \in Seq(Part) /\ Len(<<p>>) = 1 /\ <<p>>[1] = p
  BY <1>4
<1>8. Render(k) \in Msg
  BY <1>3, <1>5, <1>7 DEF Msg
<1> QED
  BY <1>4, <1>5, <1>6, <1>7, <1>8 DEF Single, FromTemplate, Source

LEMMA HistoryShape ==
    ASSUME history \in Seq(Entry), NEW k \in DOMAIN history
    PROVE  /\ Single(HistoryMessage(k))
           /\ HistoryMessage(k).parts[1].from = <<"history", k>>
<1>1. history[k] \in Entry /\ k \in Nat
  BY DOMAIN history = 1..Len(history)
<1>2. history[k].role \in STRING /\ history[k].cache \in Caches /\ history[k].kind \in PartKinds
  BY <1>1 DEF Entry
<1> DEFINE p == [from |-> <<"history", k>>, kind |-> history[k].kind]
<1>3. p \in Part /\ p # Separator /\ p.from = <<"history", k>>
  <2>1. <<"history", k>> \in {"template", "history", "separator"} \X Nat
    BY <1>1
  <2>2. p.from[1] = "history" /\ Separator.from[1] = "separator"
    BY DEF Separator
  <2> QED
    BY <1>2, <2>1, <2>2 DEF Part
<1>4. HistoryMessage(k) = [role |-> history[k].role, cache |-> history[k].cache, parts |-> <<p>>]
  BY DEF HistoryMessage
<1> HIDE DEF p
<1>5. <<p>> \in Seq(Part) /\ Len(<<p>>) = 1 /\ <<p>>[1] = p
  BY <1>3
<1>6. HistoryMessage(k) \in Msg
  BY <1>2, <1>4, <1>5 DEF Msg
<1> QED
  BY <1>3, <1>4, <1>5, <1>6 DEF Single

\* There is an end of the leading run of system messages.
LEMMA SpliceIs ==
    ASSUME NEW ms \in Seq(Msg)
    PROVE  LET n == SpliceAt(ms)
           IN  /\ n \in 0..Len(ms)
               /\ \A i \in 1..n : IsSystem(ms[i])
               /\ n < Len(ms) => ~IsSystem(ms[n + 1])
<1> DEFINE Good(n) == (\A i \in 1..n : IsSystem(ms[i])) /\ (n < Len(ms) => ~IsSystem(ms[n + 1]))
<1>1. \E n \in 0..Len(ms) : Good(n)
  <2> SUFFICES ASSUME \A n \in 0..Len(ms) : ~Good(n) PROVE FALSE
    OBVIOUS
  <2> DEFINE T == {n \in Nat : n <= Len(ms) /\ \A i \in 1..n : IsSystem(ms[i])}
  <2>0. Len(ms) \in Nat
    OBVIOUS
  <2>1. 0 \in T
    OBVIOUS
  <2>2. ASSUME NEW n \in T PROVE n + 1 \in T
    <3>1. n \in 0..Len(ms) /\ n \in Nat /\ \A i \in 1..n : IsSystem(ms[i])
      OBVIOUS
    <3>2. n < Len(ms) /\ IsSystem(ms[n + 1])
      BY <3>1
    <3>3. \A i \in 1..(n + 1) : IsSystem(ms[i])
      BY <3>1, <3>2
    <3> QED
      BY <2>0, <3>1, <3>2, <3>3
  <2>3. T = Nat
    <3>1. T \in SUBSET Nat
      OBVIOUS
    <3> HIDE DEF T
    <3> QED
      BY <2>1, <2>2, <3>1, SetInduction
  <2>4. Len(ms) + 1 \in T
    BY <2>0, <2>3
  <2> QED
    BY <2>0, <2>4
<1>2. SpliceAt(ms) = CHOOSE n \in 0..Len(ms) : Good(n)
  BY DEF SpliceAt
<1>3. SpliceAt(ms) \in 0..Len(ms) /\ Good(SpliceAt(ms))
  <2> HIDE DEF Good
  <2> QED
    BY <1>1, <1>2
<1> QED
  BY <1>3

IsSplice(S, s, r, h, n) ==
    /\ s \in Seq(S) /\ Len(s) = Len(r) + Len(h)
    /\ \A i \in 1..n : s[i] = r[i]
    /\ \A i \in (n + 1)..(n + Len(h)) : s[i] = h[i - n]
    /\ \A i \in (n + Len(h) + 1)..Len(s) : s[i] = r[i - Len(h)]

LEMMA Splice ==
    ASSUME NEW S, NEW r \in Seq(S), NEW h \in Seq(S), NEW n \in 0..Len(r)
    PROVE  IsSplice(S, SubSeq(r, 1, n) \o h \o SubSeq(r, n + 1, Len(r)), r, h, n)
<1> DEFINE a == SubSeq(r, 1, n)
           b == SubSeq(r, n + 1, Len(r))
           t == a \o h
<1>0. Len(r) \in Nat /\ Len(h) \in Nat /\ n \in Nat /\ n <= Len(r)
  OBVIOUS
<1>1. /\ a \in Seq(S) /\ Len(a) = n /\ \A i \in 1..n : a[i] = r[i]
      /\ b \in Seq(S) /\ Len(b) = Len(r) - n /\ \A i \in 1..(Len(r) - n) : b[i] = r[n + i]
  <2>1. \A i \in 1..n : r[i] \in S
    OBVIOUS
  <2>2. \A i \in (n + 1)..Len(r) : r[i] \in S
    OBVIOUS
  <2>3. a \in Seq(S) /\ Len(a) = n /\ \A i \in 1..n : a[i] = r[i]
    BY <1>0, <2>1
  <2>4. b \in Seq(S) /\ Len(b) = Len(r) - n /\ \A i \in 1..(Len(r) - n) : b[i] = r[n + i]
    BY <1>0, <2>2
  <2> QED
    BY <2>3, <2>4
<1> HIDE DEF a, b
<1>2. /\ t \in Seq(S) /\ Len(t) = n + Len(h)
      /\ \A i \in 1..(n + Len(h)) : t[i] = IF i <= n THEN a[i] ELSE h[i - n]
  BY <1>1, ConcatProperties
<1> HIDE DEF t
<1>3. /\ t \o b \in Seq(S) /\ Len(t \o b) = (n + Len(h)) + (Len(r) - n)
      /\ \A i \in 1..((n + Len(h)) + (Len(r) - n)) :
            (t \o b)[i] = IF i <= n + Len(h) THEN t[i] ELSE b[i - (n + Len(h))]
  <2>1. /\ t \o b \in Seq(S) /\ Len(t \o b) = Len(t) + Len(b)
        /\ \A i \in 1..(Len(t) + Len(b)) :
              (t \o b)[i] = IF i <= Len(t) THEN t[i] ELSE b[i - Len(t)]
    <3>1. t \in Seq(S) /\ b \in Seq(S)
      BY <1>1, <1>2
    <3> QED
      BY <3>1, ConcatProperties
  <2>2. Len(t) = n + Len(h) /\ Len(b) = Len(r) - n
    BY <1>1, <1>2
  <2> QED
    BY <2>1, <2>2
<1> DEFINE s == t \o b
<1>4. Len(s) = Len(r) + Len(h) /\ s \in Seq(S)
  BY <1>0, <1>3
<1>5. \A i \in 1..Len(s) : s[i] = IF i <= n + Len(h) THEN t[i] ELSE b[i - (n + Len(h))]
  BY <1>0, <1>3
<1> HIDE DEF s
<1>6. \A i \in 1..n : s[i] = r[i]
  BY <1>0, <1>1, <1>2, <1>4, <1>5
<1>7. \A i \in (n + 1)..(n + Len(h)) : s[i] = h[i - n]
  BY <1>0, <1>2, <1>4, <1>5
<1>8. \A i \in (n + Len(h) + 1)..Len(s) : s[i] = r[i - Len(h)]
  <2> TAKE i \in (n + Len(h) + 1)..Len(s)
  <2>1. i \in 1..Len(s) /\ ~(i <= n + Len(h)) /\ i - (n + Len(h)) \in 1..(Len(r) - n)
    BY <1>0, <1>4
  <2>2. s[i] = b[i - (n + Len(h))]
    BY <1>5, <2>1
  <2>3. n + (i - (n + Len(h))) = i - Len(h)
    BY <1>0, <2>1
  <2> QED
    BY <1>1, <2>1, <2>2, <2>3
<1> QED
  BY <1>4, <1>6, <1>7, <1>8 DEF s, t, a, b, IsSplice

-----------------------------------------------------------------------------
LEMMA InputsStay ==
    ASSUME UNCHANGED inVars, UNCHANGED out
    PROVE  /\ messages' = messages /\ history' = history
           /\ MessagesInv => MessagesInv'
           /\ \A m : FromTemplate(m)' <=> FromTemplate(m)
           /\ \A at : InOrder(at)' <=> InOrder(at)
           /\ \A n : SplicedAt(n)' <=> SplicedAt(n)
<1>1. messages' = messages /\ history' = history /\ out' = out
  BY DEF inVars
<1>2. MessagesInv => MessagesInv'
  BY <1>1 DEF MessagesInv
<1>3. \A m : FromTemplate(m)' <=> FromTemplate(m)
  BY <1>1 DEF FromTemplate
<1>4. \A at : InOrder(at)' <=> InOrder(at)
  BY <1>1 DEF InOrder
<1>5. \A n : SplicedAt(n)' <=> SplicedAt(n)
  BY <1>1, <1>3, <1>4 DEF SplicedAt, Past, InOrder, FromTemplate
<1> QED
  BY <1>1, <1>2, <1>3, <1>4, <1>5

LEMMA RenderKeeps ==
    ASSUME MessagesInv, RenderInv, RenderMessage
    PROVE  MessagesInv' /\ RenderInv' /\ SpliceInv'
<1>0. /\ pc = "render" /\ next \in DOMAIN messages /\ messages' = messages /\ history' = history
      /\ messages \in Seq(MessageTemplate) /\ out \in Seq(Msg) /\ norm' = norm /\ norm = <<>>
      /\ \A i \in DOMAIN out : Single(out[i]) /\ FromTemplate(out[i]) /\ Source(out[i]) < next
      /\ InOrder(DOMAIN out)
  BY DEF RenderMessage, MessagesInv, RenderInv, inVars
<1>1. CASE pc' = "failed" /\ out' = out
  BY <1>0, <1>1 DEF MessagesInv, RenderInv, SpliceInv
<1>2. CASE pc' = pc /\ next' = next + 1 /\ out' = Append(out, Render(next))
  <2> DEFINE m == Render(next)
  <2>1. Single(m) /\ FromTemplate(m) /\ Source(m) = next /\ m \in Msg
    BY <1>0, RenderShape DEF Single
  <2>2. next \in 1..Len(messages) /\ Len(messages) \in Nat /\ next \in Nat
    BY <1>0
  <2> HIDE DEF m
  <2>3. /\ out' = Append(out, m) /\ out' \in Seq(Msg) /\ Len(out') = Len(out) + 1
        /\ Len(out) \in Nat /\ DOMAIN out = 1..Len(out) /\ DOMAIN out' = 1..(Len(out) + 1)
        /\ out'[Len(out) + 1] = m
        /\ \A i \in DOMAIN out : out'[i] = out[i]
    BY <1>0, <1>2, <2>1 DEF m
  <2>4. \A i \in DOMAIN out' : i \in DOMAIN out \/ i = Len(out) + 1
    BY <2>3
  <2>5. MessagesInv'
    BY <1>0, <2>1, <2>3, <2>4 DEF MessagesInv
  <2>6. \A i \in DOMAIN out' : FromTemplate(out'[i]) /\ Source(out'[i]) < next + 1
    <3> TAKE i \in DOMAIN out'
    <3>1. CASE i \in DOMAIN out
      <4>1. Source(out[i]) \in DOMAIN messages /\ Source(out[i]) < next
        BY <1>0, <3>1 DEF FromTemplate
      <4>2. Source(out[i]) < next + 1
        BY <2>2, <4>1
      <4> QED
        BY <1>0, <2>3, <3>1, <4>2
    <3>2. CASE i = Len(out) + 1
      BY <2>1, <2>2, <2>3, <3>2
    <3> QED
      BY <2>4, <3>1, <3>2
  <2>7. \A i, j \in DOMAIN out' : i < j => Source(out'[i]) < Source(out'[j])
    <3> SUFFICES ASSUME NEW i \in DOMAIN out', NEW j \in DOMAIN out', i < j
                 PROVE  Source(out'[i]) < Source(out'[j])
      OBVIOUS
    <3>1. i \in DOMAIN out /\ out'[i] = out[i]
      BY <2>3
    <3>2. CASE j \in DOMAIN out
      <4>1. out'[j] = out[j]
        BY <2>3, <3>2
      <4> QED
        BY <1>0, <3>1, <3>2, <4>1 DEF InOrder
    <3>3. CASE j = Len(out) + 1
      <4>1. out'[j] = m /\ Source(m) = next
        BY <2>1, <2>3, <3>3
      <4> QED
        BY <1>0, <3>1, <4>1
    <3> QED
      BY <2>4, <3>2, <3>3
  <2>8. RenderInv'
    <3>1. \A i \in DOMAIN out' : FromTemplate(out[i])' /\ Source(out[i])' < next'
      BY <1>0, <1>2, <2>6 DEF FromTemplate, Source
    <3>2. InOrder(DOMAIN out)'
      BY <2>7 DEF InOrder, Source
    <3>3. next' \in 1..(Len(messages') + 1) /\ norm' = <<>>
      BY <1>0, <1>2, <2>2
    <3> QED
      BY <3>1, <3>2, <3>3 DEF RenderInv
  <2>9. SpliceInv'
    BY <1>0, <1>2 DEF SpliceInv
  <2> QED
    BY <2>5, <2>8, <2>9
<1> QED
  BY <1>1, <1>2 DEF RenderMessage, Fail

LEMMA SpliceKeeps ==
    ASSUME MessagesInv, RenderInv, SpliceHistory
    PROVE  MessagesInv' /\ RenderInv' /\ SpliceInv'
<1>n. PICK n : n = SpliceAt(out)
  OBVIOUS
<1> DEFINE h == [i \in DOMAIN history |-> HistoryMessage(i)]
<1>l. PICK l : l = Len(history)
  OBVIOUS
<1>0. /\ pc = "render" /\ messages' = messages /\ history' = history /\ pc' = "normalize"
      /\ messages \in Seq(MessageTemplate) /\ history \in Seq(Entry) /\ out \in Seq(Msg)
      /\ \A i \in DOMAIN out : Single(out[i]) /\ FromTemplate(out[i])
      /\ InOrder(DOMAIN out)
      /\ out' = SubSeq(out, 1, n) \o h \o SubSeq(out, n + 1, Len(out))
  BY <1>n DEF SpliceHistory, MessagesInv, RenderInv, inVars
<1>1. /\ n \in 0..Len(out)
      /\ \A i \in 1..n : IsSystem(out[i])
      /\ n < Len(out) => ~IsSystem(out[n + 1])
  BY <1>0, <1>n, SpliceIs
<1>2. h \in Seq(Msg) /\ Len(h) = l /\ \A i \in 1..l : h[i] = HistoryMessage(i) /\ Single(h[i])
  <2>1. \A i \in DOMAIN history : HistoryMessage(i) \in Msg /\ Single(HistoryMessage(i))
    BY <1>0, HistoryShape DEF Single
  <2>2. DOMAIN history = 1..l /\ l \in Nat
    BY <1>0, <1>l
  <2> QED
    BY <2>1, <2>2
<1>3. l \in Nat /\ Len(out) \in Nat /\ DOMAIN out = 1..Len(out) /\ DOMAIN history = 1..l
  BY <1>0, <1>l
<1> HIDE DEF h
<1>4. /\ out' \in Seq(Msg) /\ Len(out') = Len(out) + l
      /\ \A i \in 1..n : out'[i] = out[i]
      /\ \A i \in (n + 1)..(n + l) : out'[i] = h[i - n]
      /\ \A i \in (n + l + 1)..Len(out') : out'[i] = out[i - l]
  <2> DEFINE s == SubSeq(out, 1, n) \o h \o SubSeq(out, n + 1, Len(out))
  <2>1. IsSplice(Msg, s, out, h, n)
    BY <1>0, <1>1, <1>2, Splice
  <2>2. out' = s /\ Len(h) = l
    BY <1>0, <1>2
  <2> HIDE DEF s
  <2> QED
    BY <2>1, <2>2 DEF IsSplice
<1> DEFINE at(i) == IF i <= n THEN i ELSE i - l
           own   == DOMAIN out' \ ((n + 1)..(n + l))
<1>5. \A i \in own : at(i) \in DOMAIN out /\ out'[i] = out[at(i)]
  <2> SUFFICES ASSUME NEW i \in own PROVE at(i) \in DOMAIN out /\ out'[i] = out[at(i)]
    OBVIOUS
  <2>1. i \in 1..(Len(out) + l) /\ ~(i \in (n + 1)..(n + l))
    BY <1>4
  <2>2. CASE i <= n
    BY <1>1, <1>3, <1>4, <2>1, <2>2
  <2>3. CASE ~(i <= n)
    <3>1. i \in (n + l + 1)..Len(out') /\ i - l \in 1..Len(out)
      BY <1>1, <1>3, <1>4, <2>1, <2>3
    <3> QED
      BY <1>3, <1>4, <2>3, <3>1
  <2> QED
    BY <2>2, <2>3
<1>6. \A i, j \in own : i < j => at(i) < at(j)
  <2> SUFFICES ASSUME NEW i \in own, NEW j \in own, i < j PROVE at(i) < at(j)
    OBVIOUS
  <2>1. /\ i \in 1..(Len(out) + l) /\ ~(i \in (n + 1)..(n + l))
        /\ j \in 1..(Len(out) + l) /\ ~(j \in (n + 1)..(n + l))
    BY <1>4
  <2> QED
    BY <1>1, <1>3, <2>1
<1>7. \A i \in (n + 1)..(n + l) : Single(out'[i]) /\ out'[i].parts[1].from = <<"history", i - n>>
  <2> TAKE i \in (n + 1)..(n + l)
  <2>1. i - n \in 1..l
    BY <1>1, <1>3
  <2>2. out'[i] = HistoryMessage(i - n)
    BY <1>2, <1>4, <2>1
  <2> QED
    BY <1>0, <1>3, <2>1, <2>2, HistoryShape
<1> HIDE DEF at, own
<1>8. MessagesInv'
  <2>1. \A i \in DOMAIN out' : i \in own \/ i \in (n + 1)..(n + l)
    BY DEF own
  <2>2. \A i \in DOMAIN out' : Single(out'[i])
    BY <1>0, <1>5, <1>7, <2>1
  <2> QED
    BY <1>0, <1>4, <2>2 DEF MessagesInv
<1>9. SplicedAt(n)'
  <2>1. n \in Nat /\ n + Len(history') <= Len(out')
    BY <1>0, <1>l, <1>1, <1>3, <1>4
  <2>2. Past(n)' = (n + 1)..(n + l)
    BY <1>0, <1>l DEF Past
  <2>3. \A i \in own : FromTemplate(out'[i])
    BY <1>0, <1>5
  <2>4. \A i, j \in own : i < j => Source(out'[i]) < Source(out'[j])
    <3> SUFFICES ASSUME NEW i \in own, NEW j \in own, i < j PROVE Source(out'[i]) < Source(out'[j])
      OBVIOUS
    <3>1. at(i) \in DOMAIN out /\ at(j) \in DOMAIN out /\ at(i) < at(j)
      BY <1>5, <1>6
    <3>2. Source(out[at(i)]) < Source(out[at(j)])
      BY <1>0, <3>1 DEF InOrder
    <3> QED
      BY <1>5, <3>2
  <2>5. \A i \in 1..n : IsSystem(out'[i])
    BY <1>1, <1>4
  <2>6. n + l < Len(out') => ~IsSystem(out'[n + l + 1])
    <3> SUFFICES ASSUME n + l < Len(out') PROVE ~IsSystem(out'[n + l + 1])
      OBVIOUS
    <3>1. n < Len(out) /\ n + l + 1 \in (n + l + 1)..Len(out') /\ (n + l + 1) - l = n + 1
      BY <1>1, <1>3, <1>4
    <3> QED
      BY <1>1, <1>4, <3>1
  <2>7. \A i \in DOMAIN out' \ Past(n)' : FromTemplate(out[i])'
    BY <1>0, <2>2, <2>3 DEF own, FromTemplate, Source
  <2>8. InOrder(DOMAIN out \ Past(n))'
    BY <2>2, <2>4 DEF own, InOrder, Source
  <2> QED
    <3>1. Len(history)' = l
      BY <1>0, <1>l
    <3>2. \A i \in Past(n)' : (out[i].parts[1].from)' = <<"history", i - n>>
      BY <1>7, <2>2
    <3>3. \A i \in 1..n : IsSystem(out[i])'
      BY <2>5 DEF IsSystem
    <3>4. n + l < Len(out)' => ~IsSystem(out[n + l + 1])'
      BY <2>6 DEF IsSystem
    <3> QED
      BY <2>1, <2>7, <2>8, <3>1, <3>2, <3>3, <3>4 DEF SplicedAt
<1> QED
  BY <1>0, <1>8, <1>9 DEF RenderInv, SpliceInv

-----------------------------------------------------------------------------
(***************************************************************************)
(* What Normalize has made of the messages before next: every part comes   *)
(* from one of them, whose hint is the merged message's if that has one,   *)
(* and the last message is still open if it is a system message.           *)
(***************************************************************************)
ComesFrom(m, part, n) ==
    \E j \in 1..n : part = out[j].parts[1] /\ (m.cache # NoCache => out[j].cache = m.cache)
Accounted(m, n) ==
    /\ m \in Msg /\ Apart(m.parts)
    /\ \A k \in DOMAIN m.parts : m.parts[k] = Separator \/ ComesFrom(m, m.parts[k], n)

NormInv ==
    pc \in {"normalize", "done"} =>
        /\ next \in 1..(Len(out) + 1)
        /\ pc = "done" => next = Len(out) + 1
        /\ norm \in Seq(Msg)
        /\ \A i \in DOMAIN norm : Accounted(norm[i], next - 1)
        /\ ContentKept /\ RunsMerged
        /\ next = 1 <=> norm = <<>>
        /\ next > 1 => (IsSystem(norm[Len(norm)]) <=> IsSystem(out[next - 1]))

LEMMA ApartSingle ==
    ASSUME NEW b, Single(b)
    PROVE  Apart(b.parts)
<1>1. DOMAIN b.parts = 1..1
  BY DEF Single, Msg
<1> QED
  BY <1>1 DEF Apart

LEMMA AccountedLater ==
    ASSUME NEW m, NEW n \in Nat, Accounted(m, n)
    PROVE  Accounted(m, n + 1)
<1>1. 1..n \subseteq 1..(n + 1)
  OBVIOUS
<1>2. \A p : ComesFrom(m, p, n) => ComesFrom(m, p, n + 1)
  BY <1>1 DEF ComesFrom
<1> QED
  BY <1>2 DEF Accounted

LEMMA AccountedThen ==
    ASSUME out' = out, next' - 1 = next, NEW i \in DOMAIN norm', Accounted(norm'[i], next)
    PROVE  Accounted(norm[i], next - 1)'
  BY DEF Accounted, ComesFrom

LEMMA AccountedSingle ==
    ASSUME NEW n \in Nat, Single(out[n + 1])
    PROVE  Accounted(out[n + 1], n + 1)
<1> DEFINE b == out[n + 1]
<1>1. n + 1 \in 1..(n + 1)
  OBVIOUS
<1>2. Single(b) /\ Apart(b.parts) /\ b \in Msg
  BY ApartSingle DEF Single
<1>3. ComesFrom(b, b.parts[1], n + 1)
  BY <1>1 DEF ComesFrom
<1>4. DOMAIN b.parts = 1..1
  BY <1>2 DEF Single, Msg
<1> HIDE DEF b
<1>5. \A k \in DOMAIN b.parts : k = 1
  BY <1>4
<1> QED
  BY <1>2, <1>3, <1>5 DEF Accounted, b

LEMMA AccountedMerge ==
    ASSUME NEW a, NEW n \in Nat, Accounted(a, n), Single(out[n + 1])
    PROVE  Accounted(MergeSystem(a, out[n + 1]), n + 1)
<1> DEFINE b == out[n + 1]
           m == MergeSystem(a, b)
<1>0. a \in Msg /\ Apart(a.parts) /\ b \in Msg /\ Single(b)
      /\ \A k \in DOMAIN a.parts : a.parts[k] = Separator \/ ComesFrom(a, a.parts[k], n)
  BY DEF Accounted, Single
<1>1. m \in Msg /\ m.cache = MergeCache(a.cache, b.cache) /\ Apart(m.parts)
  BY <1>0, MergeShape, MergeApart
<1>2. m.cache # NoCache => m.cache = a.cache /\ m.cache = b.cache
  BY <1>1 DEF MergeCache
<1>3. /\ \A k \in DOMAIN a.parts : k \in DOMAIN m.parts /\ m.parts[k] = a.parts[k]
      /\ \A k \in DOMAIN m.parts : \/ k \in DOMAIN a.parts
                                   \/ k > Len(a.parts) /\ m.parts[k] = Separator
                                   \/ k = Len(m.parts) /\ m.parts[k] = b.parts[1]
  BY <1>0, MergeParts
<1>4. \A p : ComesFrom(a, p, n) => ComesFrom(m, p, n + 1)
  <2>1. 1..n \subseteq 1..(n + 1)
    OBVIOUS
  <2> HIDE DEF m, b
  <2> QED
    BY <1>2, <2>1 DEF ComesFrom
<1>5. ComesFrom(m, b.parts[1], n + 1)
  <2>1. n + 1 \in 1..(n + 1)
    OBVIOUS
  <2>2. m.cache # NoCache => out[n + 1].cache = m.cache
    BY <1>2
  <2> HIDE DEF m
  <2> QED
    BY <2>1, <2>2 DEF ComesFrom, b
<1> HIDE DEF m, b
<1>6. \A k \in DOMAIN m.parts : m.parts[k] = Separator \/ ComesFrom(m, m.parts[k], n + 1)
  BY <1>0, <1>3, <1>4, <1>5
<1>7. Accounted(m, n + 1)
  BY <1>1, <1>6 DEF Accounted
<1> QED
  BY <1>7 DEF m, b

\* One message more of the execution.
LEMMA NextContent ==
    ASSUME out \in Seq(Msg), next \in DOMAIN out
    PROVE  Content(SubSeq(out, 1, (next + 1) - 1))
             = Content(SubSeq(out, 1, next - 1)) \o Less[out[next]]
<1> DEFINE s == SubSeq(out, 1, next - 1)
<1>1. next \in 1..Len(out) /\ Len(out) \in Nat /\ next \in Nat /\ (next + 1) - 1 = next
  OBVIOUS
<1>2. out[next] \in Msg
  OBVIOUS
<1>3. s \in Seq(Msg)
  BY <1>1
<1>4. SubSeq(out, 1, next) = Append(s, out[next])
  <2>1. SubSeq(out, 1, next) \in Seq(Msg) /\ Len(SubSeq(out, 1, next)) = next
        /\ \A i \in 1..next : SubSeq(out, 1, next)[i] = out[i]
    BY <1>1
  <2>2. Len(s) = next - 1 /\ \A i \in 1..(next - 1) : s[i] = out[i]
    BY <1>1
  <2> HIDE DEF s
  <2>3. /\ Append(s, out[next]) \in Seq(Msg) /\ Len(Append(s, out[next])) = next
        /\ \A i \in 1..next : Append(s, out[next])[i] = out[i]
    BY <1>1, <1>2, <1>3, <2>2
  <2> QED
    BY <2>1, <2>3, SeqEqual
<1> HIDE DEF s
<1>5. Content(Append(s, out[next])) = Content(s) \o Less[out[next]]
  BY <1>2, <1>3, ContentAppend
<1> QED
  BY <1>1, <1>4, <1>5 DEF s

LEMMA StartKeeps ==
    ASSUME MessagesInv, NormInv, StartMessage
    PROVE  NormInv'
<1>0. /\ pc = "normalize" /\ pc' = pc /\ out' = out /\ next' = next + 1
      /\ next \in DOMAIN out /\ ~InRun(next) /\ norm' = Append(norm, out[next])
      /\ out \in Seq(Msg) /\ Single(out[next]) /\ out[next] \in Msg
  BY DEF StartMessage, MessagesInv, Single
<1>1. /\ norm \in Seq(Msg) /\ ContentKept /\ RunsMerged
      /\ \A i \in DOMAIN norm : Accounted(norm[i], next - 1)
      /\ next = 1 <=> norm = <<>>
      /\ next > 1 => (IsSystem(norm[Len(norm)]) <=> IsSystem(out[next - 1]))
  BY <1>0 DEF NormInv
<1>2. next \in 1..Len(out) /\ Len(out) \in Nat /\ next \in Nat /\ next - 1 \in Nat
      /\ (next - 1) + 1 = next /\ (next + 1) - 1 = next
  BY <1>0
<1>3. /\ norm' \in Seq(Msg) /\ Len(norm') = Len(norm) + 1 /\ Len(norm) \in Nat
      /\ DOMAIN norm = 1..Len(norm) /\ DOMAIN norm' = 1..(Len(norm) + 1)
      /\ norm'[Len(norm) + 1] = out[next]
      /\ \A i \in 1..Len(norm) : norm'[i] = norm[i]
      /\ norm' # <<>>
  BY <1>0, <1>1
<1>4. \A i \in DOMAIN norm' : Accounted(norm'[i], next)
  <2>1. Accounted(out[next], next)
    BY <1>0, <1>2, AccountedSingle
  <2>2. \A i \in DOMAIN norm : Accounted(norm[i], next)
    BY <1>1, <1>2, AccountedLater
  <2>3. \A i \in DOMAIN norm' : i \in DOMAIN norm \/ i = Len(norm) + 1
    BY <1>3
  <2> QED
    BY <1>3, <2>1, <2>2, <2>3
<1>5. Content(norm') = Content(SubSeq(out, 1, (next + 1) - 1))
  BY <1>0, <1>1, NextContent, ContentAppend DEF ContentKept
<1>6. \A i \in 1..Len(norm) : ~(IsSystem(norm'[i]) /\ IsSystem(norm'[i + 1]))
  <2> TAKE i \in 1..Len(norm)
  <2>1. CASE i < Len(norm)
    <3>1. i \in 1..(Len(norm) - 1) /\ i + 1 \in 1..Len(norm)
      BY <1>3, <2>1
    <3> QED
      BY <1>1, <1>3, <3>1 DEF RunsMerged
  <2>2. CASE i = Len(norm)
    <3>1. norm # <<>>
      BY <1>3, <2>2
    <3>2. next > 1
      BY <1>1, <1>2, <3>1
    <3>3. ~(IsSystem(out[next - 1]) /\ IsSystem(out[next]))
      BY <1>0, <3>2 DEF InRun
    <3> QED
      BY <1>1, <1>3, <2>2, <3>2, <3>3
  <2>3. i < Len(norm) \/ i = Len(norm)
    <3>1. Len(norm) \in Nat
      BY <1>1
    <3> QED
      BY <3>1
  <2> QED
    BY <2>1, <2>2, <2>3
<1>7. RunsMerged'
  <2>1. Len(norm)' - 1 = Len(norm)
    BY <1>3
  <2>2. \A i \in 1..(Len(norm)' - 1) : ~(IsSystem(norm[i])' /\ IsSystem(norm[i + 1])')
    BY <1>6, <2>1 DEF IsSystem
  <2> QED
    BY <2>2 DEF RunsMerged
<1>8. \A i \in DOMAIN norm' : Accounted(norm[i], next - 1)'
  <2>1. next' - 1 = next
    BY <1>0, <1>2
  <2> QED
    BY <1>0, <1>4, <2>1, AccountedThen
<1>9. ContentKept'
  BY <1>0, <1>5 DEF ContentKept
<1>10. IsSystem(norm[Len(norm)])' <=> IsSystem(out[next - 1])'
  BY <1>0, <1>2, <1>3 DEF IsSystem
<1>11. next' \in 1..(Len(out') + 1) /\ next' # 1
  BY <1>0, <1>2
<1> QED
  BY <1>0, <1>3, <1>7, <1>8, <1>9, <1>10, <1>11 DEF NormInv

LEMMA MergeKeepsInv ==
    ASSUME MessagesInv, NormInv, MergeMessage
    PROVE  NormInv'
<1> DEFINE l == Len(norm)
           m == MergeSystem(norm[l], out[next])
<1>0. /\ pc = "normalize" /\ pc' = pc /\ out' = out /\ next' = next + 1
      /\ next \in DOMAIN out /\ InRun(next)
      /\ norm' = [norm EXCEPT ![l] = m]
      /\ out \in Seq(Msg) /\ Single(out[next]) /\ out[next] \in Msg
  BY DEF MergeMessage, MessagesInv, Single
<1>1. /\ norm \in Seq(Msg) /\ ContentKept /\ RunsMerged
      /\ \A i \in DOMAIN norm : Accounted(norm[i], next - 1)
      /\ next = 1 <=> norm = <<>>
      /\ next > 1 => (IsSystem(norm[Len(norm)]) <=> IsSystem(out[next - 1]))
  BY <1>0 DEF NormInv
<1>2. next \in 1..Len(out) /\ Len(out) \in Nat /\ next \in Nat /\ next - 1 \in Nat
      /\ (next - 1) + 1 = next /\ (next + 1) - 1 = next
  BY <1>0
<1>3. next > 1 /\ IsSystem(out[next - 1]) /\ IsSystem(out[next]) /\ IsSystem(norm[l])
  BY <1>0, <1>1 DEF InRun
<1>4. norm # <<>> /\ l \in 1..l /\ l \in DOMAIN norm /\ norm[l] \in Msg /\ DOMAIN norm = 1..l
      /\ l \in Nat
  BY <1>1, <1>3
<1>5. m \in Msg /\ m.role = norm[l].role /\ Less[m] = Less[norm[l]] \o Less[out[next]]
  BY <1>0, <1>4, MergeShape, MergeKeeps
<1>6. Accounted(m, next)
  BY <1>0, <1>1, <1>2, <1>4, AccountedMerge
<1> HIDE DEF m
<1>7. /\ norm' \in Seq(Msg) /\ Len(norm') = l /\ DOMAIN norm' = 1..l
      /\ norm'[l] = m /\ \A i \in 1..l : i # l => norm'[i] = norm[i]
      /\ norm' # <<>>
  <2>1. norm' \in Seq(Msg) /\ Len(norm') = l
    BY <1>0, <1>1, <1>4, <1>5, ExceptSeq
  <2>2. \A i \in 1..l : norm'[i] = IF i = l THEN m ELSE norm[i]
    BY <1>0, <1>1, <1>4, <1>5, ExceptSeq
  <2>3. DOMAIN norm' = 1..l /\ norm' # <<>>
    BY <1>4, <2>1
  <2> QED
    BY <1>4, <2>1, <2>2, <2>3
<1>8. \A i \in 1..l : IsSystem(norm'[i]) <=> IsSystem(norm[i])
  BY <1>5, <1>7 DEF IsSystem
<1>9. Content(norm') = Content(norm) \o Less[out[next]]
  <2>1. PICK f \in Seq(Msg), x \in Msg : norm = Append(f, x)
    BY <1>1, <1>4, SequenceEmptyOrAppend
  <2>2. Len(f) + 1 = l /\ norm[l] = x /\ \A i \in 1..Len(f) : f[i] = norm[i]
    BY <1>1, <2>1
  <2>3. norm' = Append(f, m)
    <3>1. Append(f, m) \in Seq(Msg) /\ Len(Append(f, m)) = l
          /\ \A i \in 1..l : Append(f, m)[i] = norm'[i]
      BY <1>5, <1>7, <2>1, <2>2
    <3> QED
      BY <1>7, <3>1, SeqEqual
  <2>4. Content(norm) = Content(f) \o Less[x] /\ Content(norm') = Content(f) \o Less[m]
    BY <1>5, <2>1, <2>3, ContentAppend
  <2>5. /\ Content(f) \in Seq(Part) /\ Less[x] \in Seq(Part) /\ Less[out[next]] \in Seq(Part)
    BY <1>0, <2>1, ContentType, LessType DEF Maps
  <2>6. Content(f) \o (Less[x] \o Less[out[next]]) = (Content(f) \o Less[x]) \o Less[out[next]]
    <3> DEFINE a == Content(f)
               b == Less[x]
               c == Less[out[next]]
    <3>1. a \in Seq(Part) /\ b \in Seq(Part) /\ c \in Seq(Part)
      BY <2>5
    <3> HIDE DEF a, b, c
    <3>2. a \o (b \o c) = (a \o b) \o c
      BY <3>1, ConcatAssociative
    <3> QED
      BY <3>2 DEF a, b, c
  <2> QED
    BY <1>5, <2>2, <2>4, <2>6
<1>10. Content(norm') = Content(SubSeq(out, 1, (next + 1) - 1))
  BY <1>0, <1>1, <1>9, NextContent DEF ContentKept
<1>11. \A i \in DOMAIN norm' : Accounted(norm'[i], next)
  <2>1. \A i \in DOMAIN norm : Accounted(norm[i], next)
    BY <1>1, <1>2, AccountedLater
  <2> QED
    BY <1>4, <1>6, <1>7, <2>1
<1>12. \A i \in DOMAIN norm' : Accounted(norm[i], next - 1)'
  <2>1. next' - 1 = next
    BY <1>0, <1>2
  <2> QED
    BY <1>0, <1>11, <2>1, AccountedThen
<1>13. RunsMerged'
  <2>1. \A i \in 1..(l - 1) : ~(IsSystem(norm'[i]) /\ IsSystem(norm'[i + 1]))
    <3>1. \A i \in 1..(l - 1) : i \in 1..l /\ i + 1 \in 1..l
      BY <1>4
    <3>2. \A i \in 1..(l - 1) : ~(IsSystem(norm[i]) /\ IsSystem(norm[i + 1]))
      BY <1>1 DEF RunsMerged
    <3> QED
      BY <1>8, <3>1, <3>2
  <2>2. Len(norm)' = l
    BY <1>7
  <2>3. \A i \in 1..(Len(norm)' - 1) : ~(IsSystem(norm[i])' /\ IsSystem(norm[i + 1])')
    BY <2>1, <2>2 DEF IsSystem
  <2> QED
    BY <2>3 DEF RunsMerged
<1>14. ContentKept'
  BY <1>0, <1>10 DEF ContentKept
<1>15. IsSystem(norm[Len(norm)])' <=> IsSystem(out[next - 1])'
  BY <1>0, <1>2, <1>3, <1>4, <1>7, <1>8 DEF IsSystem
<1>16. next' \in 1..(Len(out') + 1) /\ next' # 1
  BY <1>0, <1>2
<1> QED
  BY <1>0, <1>7, <1>12, <1>13, <1>14, <1>15, <1>16 DEF NormInv

-----------------------------------------------------------------------------
MergingInv == MessagesInv /\ RenderInv /\ SpliceInv /\ NormInv

LEMMA StepMerging ==
    ASSUME MergingInv, [Next]_vars
    PROVE  MergingInv'
<1> USE DEF MergingInv
<1>1. CASE Check
  <2>1. UNCHANGED inVars /\ UNCHANGED <<out, next, norm>> /\ pc = "start" /\ pc' \in {"render", "failed"}
    BY <1>1 DEF Check, Fail
  <2>2. /\ MessagesInv' /\ messages' = messages
        /\ \A m : FromTemplate(m)' <=> FromTemplate(m)
        /\ \A at : InOrder(at)' <=> InOrder(at)
    BY <2>1, InputsStay
  <2>3. RenderInv'
    <3>1. /\ next \in 1..(Len(messages) + 1) /\ norm = <<>> /\ InOrder(DOMAIN out)
          /\ \A i \in DOMAIN out : FromTemplate(out[i]) /\ Source(out[i]) < next
      BY <2>1 DEF RenderInv
    <3>2. (\A i \in DOMAIN out : FromTemplate(out[i]) /\ Source(out[i]) < next)'
      BY <2>1, <2>2, <3>1 DEF FromTemplate, Source
    <3>3. InOrder(DOMAIN out)'
      BY <2>1, <3>1 DEF InOrder, Source
    <3> QED
      BY <2>1, <2>2, <3>1, <3>2, <3>3 DEF RenderInv
  <2> QED
    BY <2>1, <2>2, <2>3 DEF SpliceInv, NormInv
<1>2. CASE SkipMessage
  <2>1. /\ UNCHANGED inVars /\ UNCHANGED <<out, norm, pc>> /\ pc = "render"
        /\ next \in DOMAIN messages /\ next' = next + 1
    BY <1>2 DEF SkipMessage
  <2>2. MessagesInv' /\ messages' = messages
    BY <2>1, InputsStay
  <2>3. RenderInv'
    <3>1. /\ next \in 1..Len(messages) /\ Len(messages) \in Nat /\ norm = <<>> /\ InOrder(DOMAIN out)
          /\ \A i \in DOMAIN out : FromTemplate(out[i]) /\ Source(out[i]) < next
      BY <2>1 DEF RenderInv, MessagesInv
    <3>2. \A i \in DOMAIN out : FromTemplate(out[i]) /\ Source(out[i]) < next + 1
      <4> TAKE i \in DOMAIN out
      <4>1. Source(out[i]) \in 1..Len(messages)
        BY <3>1 DEF FromTemplate, MessagesInv
      <4> QED
        BY <3>1, <4>1
    <3>3. (\A i \in DOMAIN out : FromTemplate(out[i]) /\ Source(out[i]) < next)'
      BY <2>1, <2>2, <3>2 DEF FromTemplate, Source
    <3>4. InOrder(DOMAIN out)'
      BY <2>1, <3>1 DEF InOrder, Source
    <3> QED
      BY <2>1, <2>2, <3>1, <3>3, <3>4 DEF RenderInv
  <2> QED
    BY <2>1, <2>2, <2>3 DEF SpliceInv, NormInv
<1>3. CASE RenderMessage
  <2>1. MessagesInv' /\ RenderInv' /\ SpliceInv'
    BY <1>3, RenderKeeps
  <2>2. NormInv'
    BY <1>3 DEF RenderMessage, Fail, NormInv
  <2> QED
    BY <2>1, <2>2
<1>4. CASE SpliceHistory
  <2>1. MessagesInv' /\ RenderInv' /\ SpliceInv'
    BY <1>4, SpliceKeeps
  <2>2. pc = "render" /\ pc' = "normalize" /\ next' = 1 /\ norm' = norm
    BY <1>4 DEF SpliceHistory
  <2>3. norm' = <<>> /\ out' \in Seq(Msg) /\ <<>> \in Seq(Msg)
    BY <2>1, <2>2 DEF RenderInv, MessagesInv
  <2>4. SubSeq(out', 1, next' - 1) = <<>>
    <3>1. next' - 1 = 0
      BY <2>2
    <3>2. SubSeq(out', 1, 0) = <<>>
      BY <2>3
    <3> QED
      BY <3>1, <3>2
  <2>5. ContentKept' /\ RunsMerged' /\ DOMAIN norm' = {} /\ next' \in 1..(Len(out') + 1) /\ ~(next' > 1)
    <3>1. ContentKept'
      BY <2>3, <2>4 DEF ContentKept
    <3>2. Len(norm') = 0 /\ DOMAIN norm' = {} /\ Len(out') \in Nat
      BY <2>3
    <3>3. RunsMerged'
      BY <3>2 DEF RunsMerged
    <3> QED
      BY <2>2, <3>1, <3>2, <3>3
  <2>6. NormInv'
    BY <2>2, <2>3, <2>5 DEF NormInv
  <2> QED
    BY <2>1, <2>6
<1>5. CASE StartMessage \/ MergeMessage
  <2>1. UNCHANGED inVars /\ UNCHANGED out /\ pc = "normalize" /\ pc' = pc
    BY <1>5 DEF StartMessage, MergeMessage
  <2>2. MessagesInv' /\ \A n : SplicedAt(n)' <=> SplicedAt(n)
    BY <2>1, InputsStay
  <2>3. RenderInv' /\ SpliceInv'
    BY <2>1, <2>2 DEF RenderInv, SpliceInv
  <2>4. NormInv'
    BY <1>5, StartKeeps, MergeKeepsInv
  <2> QED
    BY <2>2, <2>3, <2>4
<1>6. CASE FinishNormalize \/ UNCHANGED vars
  <2>1. /\ UNCHANGED inVars /\ UNCHANGED <<out, next, norm>>
        /\ \/ pc' = pc
           \/ pc = "normalize" /\ pc' = "done" /\ next = Len(out) + 1
    BY <1>6 DEF FinishNormalize, vars
  <2>2. /\ MessagesInv' /\ messages' = messages
        /\ \A m : FromTemplate(m)' <=> FromTemplate(m)
        /\ \A n : SplicedAt(n)' <=> SplicedAt(n)
    BY <2>1, InputsStay
  <2>3. RenderInv'
    <3> SUFFICES ASSUME pc' \in {"start", "render"} PROVE RenderInv'
      BY DEF RenderInv
    <3>1. /\ next \in 1..(Len(messages) + 1) /\ norm = <<>> /\ InOrder(DOMAIN out)
          /\ \A i \in DOMAIN out : FromTemplate(out[i]) /\ Source(out[i]) < next
      BY <2>1 DEF RenderInv
    <3>2. (\A i \in DOMAIN out : FromTemplate(out[i]) /\ Source(out[i]) < next)'
      BY <2>1, <2>2, <3>1 DEF FromTemplate, Source
    <3>3. InOrder(DOMAIN out)'
      BY <2>1, <3>1 DEF InOrder, Source
    <3> QED
      BY <2>1, <2>2, <3>1, <3>2, <3>3 DEF RenderInv
  <2>4. SpliceInv'
    BY <2>1, <2>2 DEF SpliceInv
  <2>5. NormInv'
    <3>1. /\ \A m, n : Accounted(m, n)' <=> Accounted(m, n)
          /\ ContentKept' <=> ContentKept
          /\ RunsMerged' <=> RunsMerged
      BY <2>1 DEF Accounted, ComesFrom, ContentKept, RunsMerged, IsSystem
    <3> SUFFICES ASSUME pc' \in {"normalize", "done"} PROVE NormInv'
      BY DEF NormInv
    <3>2. pc \in {"normalize", "done"}
      BY <2>1
    <3>3. \A i \in DOMAIN norm' : Accounted(norm[i], next - 1)'
      BY <2>1, <3>2 DEF NormInv, Accounted, ComesFrom
    <3> QED
      BY <2>1, <3>1, <3>2, <3>3 DEF NormInv, IsSystem
  <2> QED
    BY <2>2, <2>3, <2>4, <2>5
<1> QED
  BY <1>1, <1>2, <1>3, <1>4, <1>5, <1>6 DEF Next

THEOREM MergingHolds == Spec => []MergingInv
<1>1. Init => MergingInv
  BY InitMessages DEF Init, NormInv, MergingInv
<1>2. MergingInv /\ [Next]_vars => MergingInv'
  BY StepMerging
<1> QED
  BY <1>1, <1>2, PTL DEF Spec

-----------------------------------------------------------------------------
\* Parts of different messages are different.
LEMMA PartsDiffer ==
    ASSUME MessagesInv, NEW n, SplicedAt(n),
           NEW i \in DOMAIN out, NEW j \in DOMAIN out, out[i].parts[1] = out[j].parts[1]
    PROVE  i = j
<1>1. n \in Nat /\ Len(history) \in Nat /\ DOMAIN out = 1..Len(out) /\ Len(out) \in Nat
  BY DEF MessagesInv, SplicedAt
<1>2. CASE i \in Past(n)
  <2>1. out[i].parts[1].from = <<"history", i - n>>
    BY <1>2 DEF SplicedAt
  <2>2. CASE j \in Past(n)
    <3>1. out[j].parts[1].from = <<"history", j - n>>
      BY <2>2 DEF SplicedAt
    <3>2. i - n = j - n
      BY <2>1, <3>1
    <3> QED
      BY <1>1, <3>2
  <2>3. CASE j \notin Past(n)
    BY <2>1, <2>3 DEF SplicedAt, FromTemplate
  <2> QED
    BY <2>2, <2>3
<1>3. CASE i \notin Past(n)
  <2>1. out[i].parts[1].from[1] = "template" /\ Source(out[i]) \in DOMAIN messages
    BY <1>3 DEF SplicedAt, FromTemplate
  <2>2. CASE j \in Past(n)
    BY <2>1, <2>2 DEF SplicedAt
  <2>3. CASE j \notin Past(n)
    <3>1. Source(out[i]) = Source(out[j]) /\ Source(out[i]) \in Nat
      BY <2>1 DEF Source, MessagesInv
    <3>2. ~(i < j) /\ ~(j < i)
      BY <1>3, <2>3, <3>1 DEF SplicedAt, InOrder
    <3> QED
      BY <1>1, <3>2
  <2> QED
    BY <2>2, <2>3
<1> QED
  BY <1>2, <1>3

(***************************************************************************)
(* For any template, history, payload and cache hints, Normalize merges    *)
(* every run of system messages and nothing else: it keeps every part, once*)
(* and in order, marks texts that were apart as apart, and gives a cache   *)
(* hint to a merged message only if every message in it had that hint.     *)
(***************************************************************************)
THEOREM NormalizeKeepsMessages == Spec => []NormalizeIsFaithful
<1>1. MergingInv => NormalizeIsFaithful
  <2> SUFFICES ASSUME MergingInv, pc \in {"normalize", "done"}
               PROVE  ContentKept /\ RunsMerged /\ HintsUnanimous /\ TextsApart
    BY DEF NormalizeIsFaithful
  <2>1. /\ ContentKept /\ RunsMerged /\ MessagesInv
        /\ next \in 1..(Len(out) + 1)
        /\ \A i \in DOMAIN norm : Accounted(norm[i], next - 1)
    BY DEF MergingInv, NormInv
  <2>2. TextsApart
    <3>1. \A i \in DOMAIN norm : Apart(norm[i].parts)
      BY <2>1 DEF Accounted
    <3> QED
      BY <3>1 DEF TextsApart, Apart
  <2>3. HintsUnanimous
    <3> SUFFICES ASSUME NEW i \in DOMAIN norm, NEW k \in DOMAIN out, norm[i].cache # NoCache,
                        out[k].parts[1] \in Range(norm[i].parts)
                 PROVE  out[k].cache = norm[i].cache
      BY DEF HintsUnanimous
    <3>1. PICK q \in DOMAIN norm[i].parts : norm[i].parts[q] = out[k].parts[1]
      BY DEF Range
    <3>2. norm[i].parts[q] # Separator
      BY <2>1, <3>1 DEF MessagesInv, Single
    <3>3. PICK j \in 1..(next - 1) : /\ norm[i].parts[q] = out[j].parts[1]
                                     /\ out[j].cache = norm[i].cache
      BY <2>1, <3>2 DEF Accounted, ComesFrom
    <3>4. j \in DOMAIN out
      BY <2>1 DEF MessagesInv
    <3>5. PICK n : SplicedAt(n)
      BY DEF MergingInv, SpliceInv
    <3>6. j = k
      BY <2>1, <3>1, <3>3, <3>4, <3>5, PartsDiffer
    <3> QED
      BY <3>3, <3>6
  <2> QED
    BY <2>1, <2>2, <2>3
<1> QED
  BY <1>1, MergingHolds, PTL

(***************************************************************************)
(* For any template and history, what the provider gets has the history    *)
(* as one piece after the leading system messages, and the template's      *)
(* messages in their order around it.                                      *)
(***************************************************************************)
THEOREM HistoryIsOnePiece == Spec => []HistoryStaysWhole
<1>1. MergingInv => HistoryStaysWhole
  <2> SUFFICES ASSUME MergingInv, pc = "done" PROVE HistoryStaysWhole
    BY DEF HistoryStaysWhole
  <2>1. /\ MessagesInv /\ ContentKept /\ next = Len(out) + 1 /\ out \in Seq(Msg)
        /\ history \in Seq(Entry) /\ \A i \in DOMAIN out : Single(out[i])
    BY DEF MergingInv, NormInv, MessagesInv
  <2>2. PICK n : SplicedAt(n)
    BY DEF MergingInv, SpliceInv
  <2>3. SubSeq(out, 1, next - 1) = out
    <3>1. next - 1 = Len(out)
      BY <2>1
    <3>2. SubSeq(out, 1, Len(out)) = out
      BY <2>1
    <3> QED
      BY <3>1, <3>2
  <2> DEFINE c == Content(norm)
             l == Len(history)
             hist == {i \in DOMAIN c : c[i].from[1] = "history"}
             own == DOMAIN c \ hist
             At(i) == c[i].from[2]
  <2>4. c = [i \in DOMAIN out |-> out[i].parts[1]]
    BY <2>1, <2>3, ContentOfSingles DEF ContentKept
  <2> HIDE DEF c
  <2>5. DOMAIN c = DOMAIN out /\ \A i \in DOMAIN out : c[i] = out[i].parts[1]
    BY <2>4
  <2>6. DOMAIN out = 1..Len(out) /\ Len(out) \in Nat /\ l \in Nat /\ n \in Nat /\ n + l <= Len(out)
    BY <2>1, <2>2 DEF SplicedAt
  <2>7. Past(n) = (n + 1)..(n + l)
    BY DEF Past
  <2> HIDE DEF l
  <2>8. hist = Past(n) /\ Past(n) \subseteq DOMAIN out
    <3>1. Past(n) \subseteq DOMAIN out
      BY <2>6, <2>7
    <3>2. \A i \in Past(n) : c[i].from[1] = "history"
      BY <2>2, <2>5, <3>1 DEF SplicedAt
    <3>3. \A i \in DOMAIN out \ Past(n) : c[i].from[1] = "template"
      BY <2>2, <2>5 DEF SplicedAt, FromTemplate
    <3> QED
      BY <2>5, <3>1, <3>2, <3>3
  <2>9. Cardinality(hist) = l
    <3>1. n + 1 \in Int /\ n + l \in Int
      BY <2>6
    <3>2. Cardinality((n + 1)..(n + l)) = IF n + 1 > n + l THEN 0 ELSE (n + l) - (n + 1) + 1
      BY <3>1, FS_Interval
    <3>3. Cardinality((n + 1)..(n + l)) = l
      BY <2>6, <3>2
    <3> QED
      BY <2>7, <2>8, <3>3
  <2>10. \A i, j \in hist : At(j) - At(i) = j - i
    <3> SUFFICES ASSUME NEW i \in Past(n), NEW j \in Past(n) PROVE At(j) - At(i) = j - i
      BY <2>8
    <3>1. At(i) = i - n /\ At(j) = j - n
      BY <2>2, <2>5, <2>8 DEF SplicedAt
    <3>2. i \in Int /\ j \in Int
      BY <2>6, <2>7
    <3> QED
      BY <2>6, <3>1, <3>2
  <2>11. \A i \in own : FromTemplate(out[i]) /\ At(i) = Source(out[i]) /\ i \in DOMAIN out \ Past(n)
    BY <2>2, <2>5, <2>8 DEF SplicedAt, Source
  <2>12. \A i, j \in own : i < j => At(i) < At(j)
    BY <2>2, <2>11 DEF SplicedAt, InOrder
  <2>13. ASSUME NEW h \in hist, NEW i \in own
         PROVE  /\ i < h => IsSystem(messages[At(i)])
                /\ i = h + 1 => ~IsSystem(messages[At(i)])
    <3>1. IsSystem(messages[At(i)]) <=> IsSystem(out[i])
      BY <2>11 DEF FromTemplate, IsSystem
    <3>2. h \in (n + 1)..(n + l) /\ i \in 1..Len(out) /\ ~(i \in (n + 1)..(n + l))
      BY <2>5, <2>6, <2>7, <2>8, <2>11
    <3>3. i < h => i \in 1..n
      BY <2>6, <3>2
    <3>4. i = h + 1 => i = n + l + 1 /\ n + l < Len(out)
      BY <2>6, <3>2
    <3> QED
      BY <2>2, <3>1, <3>3, <3>4 DEF SplicedAt, l
  <2> QED
    BY <2>9, <2>10, <2>12, <2>13 DEF HistoryStaysWhole, c, l
<1> QED
  BY <1>1, MergingHolds, PTL
=============================================================================
