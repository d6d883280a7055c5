-------------------------- MODULE OwnershipProofs ---------------------------
(***************************************************************************)
(* For any number of callers, objects and writes: templates and executions *)
(* share only the cells that CloneTemplate and rendering leave shared.     *)
(*                                                                         *)
(* The invariant says what each reference can be.  An outer map is the     *)
(* object's own, but for the parsed messages.  A nested map is the         *)
(* object's own in the deeply copied fields; elsewhere it is the object's  *)
(* own, or the partial variables of some template, or the message metadata *)
(* of some template, or what a fetcher keeps.  An object's own are those   *)
(* of the object it is a name of, which is of its kind and its holder's.   *)
(***************************************************************************)
EXTENDS Ownership, TLAPS

RefsTyped == ref \in [Objects -> [Fields -> [Levels -> Cells]]]
KindsTyped == kind \in [Objects -> Kinds]

NamesInv ==
    /\ body \in [Objects -> Objects]
    /\ \A o \in Objects : /\ body[body[o]] = body[o]
                          /\ kind[body[o]] = kind[o]
                          /\ owner[body[o]] = owner[o]
                          /\ kind[o] = "free" => body[o] = o

\* Bytes the fetcher may keep, in an execution that has just fetched them.
Fetched(o, f) == f = "media" /\ kind[o] = "resolved"

OuterInv ==
    \A o \in Objects, f \in Fields :
        /\ f # "parsed" /\ ~Fetched(o, f) =>
              ref[o][f]["outer"] = <<body[o], f, "outer">>
        /\ Fetched(o, f) => ref[o][f]["outer"][1] = Fetcher
        /\ f = "parsed" => ref[o][f]["outer"][2] = "parsed"

\* Nested maps that several objects may hold.
Common(x) ==
    \/ x[2] = "partials"
    \/ x[2] = "messages" /\ kind[x[1]] = "template"
    \/ x[1] = Fetcher

InnerInv ==
    \A o \in Objects, f \in Fields :
        /\ ref[o][f]["inner"] = <<body[o], f, "inner">> \/ Common(ref[o][f]["inner"])
        /\ f \in DeepFields(o) => ref[o][f]["inner"] = <<body[o], f, "inner">>
        /\ f = "parsed" /\ kind[o] = "template" => Common(ref[o][f]["inner"])

LevelInv ==
    \A o \in Objects, f \in Fields, l \in Levels : ref[o][f][l][3] = l

IInv == RefsTyped /\ KindsTyped /\ NamesInv /\ OuterInv /\ InnerInv /\ LevelInv

-----------------------------------------------------------------------------
\* Objects that differ in the shape the invariant gives them share nothing
\* exclusive.
LEMMA Disjoint == IInv => NoSharedCells
<1> SUFFICES ASSUME IInv, NEW o \in Live, NEW p \in Live, body[o] # body[p],
                    NEW x \in Exclusive(o), x \in Reach(p)
             PROVE  FALSE
  BY DEF NoSharedCells
<1>1. o \in Objects /\ p \in Objects
  BY DEF Live
<1>2. PICK g \in Fields, l \in Levels : x = ref[p][g][l]
  BY DEF Reach, FieldsOf, Fields, Exported
<1>3. x[3] = l
  BY <1>1, <1>2 DEF IInv, LevelInv
<1>4. body[o] \in Objects /\ body[o] # Fetcher
  BY <1>1, FetcherAssumption DEF IInv, NamesInv
<1>5. CASE \E f \in FieldsOf(o) \cap Exported : ~Fetched(o, f) /\ x = ref[o][f]["outer"]
  <2>1. PICK f \in Exported : ~Fetched(o, f) /\ x = ref[o][f]["outer"]
    BY <1>5
  <2>2. f \in Fields /\ f # "parsed"
    BY DEF Fields, Exported, ExecutionFields
  <2>3. x = <<body[o], f, "outer">>
    BY <1>1, <2>1, <2>2 DEF IInv, OuterInv
  <2>4. l = "outer"
    BY <1>3, <2>3
  <2>5. x = <<body[p], g, "outer">> \/ x[2] = "parsed" \/ x[1] = Fetcher
    BY <1>1, <1>2, <2>4 DEF IInv, OuterInv
  <2> QED
    BY <1>4, <2>2, <2>3, <2>5
<1>6. CASE \E f \in DeepFields(o) : x = ref[o][f]["inner"]
  <2>1. PICK f \in DeepFields(o) : x = ref[o][f]["inner"]
    BY <1>6
  <2>2. f \in Fields /\ f # "partials" /\ f # "parsed"
    BY <2>1 DEF DeepFields, Fields, Exported, ExecutionFields
  <2>3. f = "messages" => kind[o] # "template"
    BY <2>1 DEF DeepFields, Exported, ExecutionFields
  <2>4. x = <<body[o], f, "inner">>
    BY <1>1, <2>1, <2>2 DEF IInv, InnerInv
  <2>5. l = "inner"
    BY <1>3, <2>4
  <2>6. x = <<body[p], g, "inner">> \/ Common(x)
    BY <1>1, <1>2, <2>5 DEF IInv, InnerInv
  <2>7. kind[body[o]] = kind[o]
    BY <1>1 DEF IInv, NamesInv
  <2> QED
    BY <1>4, <2>2, <2>3, <2>4, <2>6, <2>7 DEF Common
<1> QED
  BY <1>5, <1>6 DEF Exclusive, Fetched

-----------------------------------------------------------------------------
LEMMA InitInv == Init => IInv
<1> SUFFICES ASSUME Init PROVE IInv
  OBVIOUS
<1>1. \A o \in Objects, f \in Fields, l \in Levels :
          ref[o][f][l] = <<o, f, l>> /\ kind[o] = "free" /\ body[o] = o
  BY DEF Init, Own
<1>2. RefsTyped /\ KindsTyped
  BY DEF Init, Own, RefsTyped, KindsTyped, Cells, Kinds
<1>3. {"outer", "inner"} \subseteq Levels
  BY DEF Levels
<1>4. NamesInv
  BY DEF Init, NamesInv
<1> QED
  BY <1>1, <1>2, <1>3, <1>4 DEF IInv, OuterInv, InnerInv, LevelInv, DeepFields, Fetched

NextCommon(x) ==
    \/ x[2] = "partials"
    \/ x[2] = "messages" /\ kind'[x[1]] = "template"
    \/ x[1] = Fetcher

\* What a new object of kind k has to be made from for the invariant to go on.
Sound(k, modes, from) ==
    /\ from \in [Fields -> [Levels -> Cells]]
    /\ \A f \in Fields, l \in Levels : from[f][l][3] = l
    /\ \A f \in Fields \ {"parsed"} :
          IF f = "media" /\ k = "resolved"
          THEN "outer" \notin modes[f] /\ from[f]["outer"][1] = Fetcher
          ELSE "outer" \in modes[f]
    /\ "outer" \in modes["parsed"] \/ from["parsed"]["outer"][2] = "parsed"
    /\ \A f \in Fields : "inner" \in modes[f] \/ NextCommon(from[f]["inner"])
    /\ \A f \in Exported \ {"partials", "messages", "media"} : "inner" \in modes[f]
    /\ k \in {"derived", "resolved"} => "inner" \in modes["messages"]
    /\ k # "resolved" => "inner" \in modes["media"]
    /\ k = "template" => /\ "inner" \notin modes["parsed"]
                         /\ NextCommon(from["parsed"]["inner"])

LEMMA MakeInv ==
    ASSUME IInv,
           NEW o \in Objects, NEW k \in Kinds \ {"free"}, NEW c, NEW modes,
           NEW from, NEW text,
           Make(o, k, c, modes, from, text), Sound(k, modes, from)
    PROVE  IInv'
<1> USE DEF Sound
<1>1. /\ kind[o] = "free"
      /\ kind' = [kind EXCEPT ![o] = k]
      /\ ref' = [ref EXCEPT ![o] = [f \in Fields |-> [l \in Levels |->
                   IF l \in modes[f] THEN <<o, f, l>> ELSE from[f][l]]]]
      /\ owner' = [owner EXCEPT ![o] = c]
      /\ body' = body
  BY DEF Make
<1>2. KindsTyped'
  BY <1>1 DEF IInv, KindsTyped
<1>3. \A f \in Fields, l \in Levels :
          ref'[o][f][l] = IF l \in modes[f] THEN <<o, f, l>> ELSE from[f][l]
  BY <1>1 DEF IInv, RefsTyped
<1>4. \A p \in Objects \ {o} : ref'[p] = ref[p] /\ kind'[p] = kind[p]
  BY <1>1 DEF IInv, RefsTyped, KindsTyped
<1>5. kind'[o] = k
  BY <1>1 DEF IInv, KindsTyped
<1>6. RefsTyped'
  <2>1. [f \in Fields |-> [l \in Levels |->
            IF l \in modes[f] THEN <<o, f, l>> ELSE from[f][l]]]
          \in [Fields -> [Levels -> Cells]]
    BY DEF Cells
  <2> QED
    BY <1>1, <2>1 DEF IInv, RefsTyped
<1>7. {"outer", "inner"} \subseteq Levels /\ "parsed" \in Fields /\ Exported \subseteq Fields
  BY DEF Levels, Fields
<1>8. body'[o] = o /\ \A p \in Objects \ {o} : body'[p] = body[p]
  BY <1>1 DEF IInv, NamesInv
<1>9. NamesInv'
  <2>1. body' \in [Objects -> Objects]
    BY <1>1 DEF IInv, NamesInv
  <2>2. \A p \in Objects \ {o} : body[p] # o
    BY <1>1 DEF IInv, NamesInv
  <2> QED
    BY <1>1, <1>4, <1>8, <2>1, <2>2 DEF IInv, NamesInv
<1>10. Fetched(o, "media")' = (k = "resolved") /\ \A p \in Objects \ {o}, f \in Fields :
          Fetched(p, f)' = Fetched(p, f)
  BY <1>4, <1>5 DEF Fetched
<1>11. OuterInv'
  <2> SUFFICES ASSUME NEW p \in Objects, NEW f \in Fields
               PROVE  /\ f # "parsed" /\ ~Fetched(p, f)' =>
                            ref'[p][f]["outer"] = <<body'[p], f, "outer">>
                      /\ Fetched(p, f)' => ref'[p][f]["outer"][1] = Fetcher
                      /\ f = "parsed" => ref'[p][f]["outer"][2] = "parsed"
    BY DEF OuterInv
  <2>1. CASE p = o
    <3>1. CASE "outer" \in modes[f]
      <4>1. ref'[p][f]["outer"] = <<body'[p], f, "outer">>
        BY <1>3, <1>7, <1>8, <2>1, <3>1
      <4>2. ~Fetched(p, f)'
        BY <1>5, <2>1, <3>1 DEF Fetched
      <4> QED
        BY <4>1, <4>2
    <3>2. CASE "outer" \notin modes[f]
      <4>1. ref'[p][f]["outer"] = from[f]["outer"]
        BY <1>3, <1>7, <2>1, <3>2
      <4>2. f = "parsed" \/ (f = "media" /\ k = "resolved" /\ from[f]["outer"][1] = Fetcher)
        BY <3>2
      <4>3. (f = "media" /\ k = "resolved") = Fetched(p, f)'
        BY <1>5, <2>1 DEF Fetched
      <4> QED
        BY <3>2, <4>1, <4>2, <4>3
    <3> QED
      BY <3>1, <3>2
  <2>2. CASE p # o
    BY <1>4, <1>8, <1>10, <2>2 DEF IInv, OuterInv
  <2> QED
    BY <2>1, <2>2
<1>12. LevelInv'
  <2> SUFFICES ASSUME NEW p \in Objects, NEW f \in Fields, NEW l \in Levels
               PROVE  ref'[p][f][l][3] = l
    BY DEF LevelInv
  <2>1. CASE p = o
    <3>1. CASE l \in modes[f]
      <4>1. ref'[p][f][l] = <<p, f, l>>
        BY <1>3, <2>1, <3>1
      <4> QED
        BY <4>1
    <3>2. CASE l \notin modes[f]
      <4>1. ref'[p][f][l] = from[f][l]
        BY <1>3, <2>1, <3>2
      <4> QED
        BY <4>1
    <3> QED
      BY <3>1, <3>2
  <2>2. CASE p # o
    BY <1>4, <2>2 DEF IInv, LevelInv
  <2> QED
    BY <2>1, <2>2
<1>13. \A x \in Cells : Common(x) => NextCommon(x)
  <2> SUFFICES ASSUME NEW x \in Cells, Common(x) PROVE NextCommon(x)
    OBVIOUS
  <2>1. x[1] \in Objects \/ x[1] = Fetcher
    BY DEF Cells
  <2>2. x[1] \in Objects /\ kind[x[1]] = "template" => kind'[x[1]] = "template"
    BY <1>1, <1>4
  <2> QED
    BY <2>1, <2>2 DEF Common, NextCommon
<1>14. InnerInv'
  <2> SUFFICES ASSUME NEW p \in Objects, NEW f \in Fields
               PROVE  /\ \/ ref'[p][f]["inner"] = <<body'[p], f, "inner">>
                         \/ NextCommon(ref'[p][f]["inner"])
                      /\ f \in DeepFields(p)' =>
                            ref'[p][f]["inner"] = <<body'[p], f, "inner">>
                      /\ f = "parsed" /\ kind'[p] = "template" =>
                            NextCommon(ref'[p][f]["inner"])
    BY DEF InnerInv, Common, NextCommon
  <2>1. CASE p = o
    <3>1. f \in DeepFields(p)' => "inner" \in modes[f]
      BY <1>5, <2>1 DEF DeepFields
    <3>2. CASE "inner" \in modes[f]
      <4>1. ref'[p][f]["inner"] = <<body'[p], f, "inner">>
        BY <1>3, <1>7, <1>8, <2>1, <3>2
      <4> QED
        BY <1>5, <2>1, <3>2, <4>1
    <3>3. CASE "inner" \notin modes[f]
      <4>1. ref'[p][f]["inner"] = from[f]["inner"]
        BY <1>3, <1>7, <2>1, <3>3
      <4> QED
        BY <3>1, <3>3, <4>1
    <3> QED
      BY <3>2, <3>3
  <2>2. CASE p # o
    <3>1. DeepFields(p)' = DeepFields(p)
      BY <1>4, <2>2 DEF DeepFields, FieldsOf
    <3>2. ref[p][f]["inner"] \in Cells
      BY <1>7 DEF IInv, RefsTyped
    <3> QED
      BY <1>4, <1>13, <1>8, <2>2, <3>1, <3>2 DEF IInv, InnerInv
  <2> QED
    BY <2>1, <2>2
<1> QED
  BY <1>2, <1>6, <1>11, <1>12, <1>14, <1>9 DEF IInv

LEMMA FieldFacts ==
    /\ "parsed" \in Fields /\ "messages" \in Fields /\ "partials" \in Fields
    /\ "media" \in Fields
    /\ Exported \subseteq Fields /\ "parsed" \notin Exported
    /\ {"outer", "inner"} \subseteq Levels
  BY DEF Fields, Exported, ExecutionFields, Levels

LEMMA LoadInv ==
    ASSUME IInv, NEW o \in Objects, Load(o)
    PROVE  IInv'
<1> DEFINE modes == [f \in Fields |-> IF f = "parsed" THEN MapsClone ELSE Levels]
           own   == Own(o)
           from  == [own EXCEPT !.parsed = own.messages]
<1>1. Make(o, "template", Registry, modes, from, {})
  BY DEF Load
<1>2. own \in [Fields -> [Levels -> Cells]]
  BY DEF Own, Cells
<1>3. from \in [Fields -> [Levels -> Cells]]
  BY <1>2, FieldFacts
<1>4. \A f \in Fields, l \in Levels :
          from[f][l] = IF f = "parsed" THEN <<o, "messages", l>> ELSE <<o, f, l>>
  BY FieldFacts DEF Own
<1>5. \A f \in Fields, l \in Levels : from[f][l][3] = l
  <2> HIDE DEF from
  <2> SUFFICES ASSUME NEW f \in Fields, NEW l \in Levels PROVE from[f][l][3] = l
    OBVIOUS
  <2>1. CASE f = "parsed"
    <3>1. from[f][l] = <<o, "messages", l>>
      BY <1>4, <2>1
    <3> QED
      BY <3>1
  <2>2. CASE f # "parsed"
    <3>1. from[f][l] = <<o, f, l>>
      BY <1>4, <2>2
    <3> QED
      BY <3>1
  <2> QED
    BY <2>1, <2>2
<1>6. kind'[o] = "template"
  BY <1>1 DEF Make, IInv, KindsTyped
<1>7. from["parsed"]["inner"] = <<o, "messages", "inner">>
  BY <1>4, FieldFacts
<1>8. NextCommon(from["parsed"]["inner"])
  BY <1>6, <1>7 DEF NextCommon
<1>9. /\ \A f \in Fields \ {"parsed"} : modes[f] = Levels
      /\ modes["parsed"] = {"outer"}
  BY FieldFacts DEF MapsClone
<1> HIDE DEF modes, own, from
<1>10. "template" \in Kinds \ {"free"}
  BY DEF Kinds, Executions
<1>11. \A f \in Fields \ {"parsed"} : {"outer", "inner"} \subseteq modes[f]
  BY <1>9, FieldFacts
<1>12. "outer" \in modes["parsed"] /\ "inner" \notin modes["parsed"]
  BY <1>9
<1>13. \A f \in Fields : "inner" \in modes[f] \/ NextCommon(from[f]["inner"])
  BY <1>8, <1>11
<1>14. Sound("template", modes, from)
  <2>1. /\ \A f \in Exported \ {"partials", "messages", "media"} : "inner" \in modes[f]
        /\ "inner" \in modes["media"]
    BY <1>11, FieldFacts
  <2>2. "template" \notin {"derived", "resolved"} /\ "template" # "resolved"
    OBVIOUS
  <2> QED
    BY <1>3, <1>5, <1>8, <1>11, <1>12, <1>13, <2>1, <2>2, Zenon DEF Sound
<1> QED
  BY <1>1, <1>10, <1>14, MakeInv

\* A nested map of a live object stays its own or common.
LEMMA InnerStays ==
    ASSUME IInv, NEW p \in Objects, NEW f \in Fields,
           \A q \in Objects : kind[q] = "template" => kind'[q] = "template",
           Common(ref[p][f]["inner"])
    PROVE  NextCommon(ref[p][f]["inner"])
<1>1. ref[p][f]["inner"] \in Cells
  BY FieldFacts DEF IInv, RefsTyped
<1>2. ref[p][f]["inner"][1] \in Objects \/ ref[p][f]["inner"][1] = Fetcher
  BY <1>1 DEF Cells
<1> QED
  BY <1>2 DEF Common, NextCommon

LEMMA GetTemplateInv ==
    ASSUME IInv, NEW c \in Callers, NEW o \in Objects, GetTemplate(c, o),
           cached \in Objects, kind[cached] = "template"
    PROVE  IInv'
<1>1. Make(o, "template", c, CloneModes, ref[cached], {}) /\ kind[o] = "free"
  BY DEF GetTemplate, Make
<1>2. ref[cached] \in [Fields -> [Levels -> Cells]]
  BY DEF IInv, RefsTyped
<1>3. \A f \in Fields, l \in Levels : ref[cached][f][l][3] = l
  BY DEF IInv, LevelInv
<1>4. /\ CloneModes["parsed"] = {}
      /\ CloneModes["partials"] = {"outer"}
      /\ \A f \in Fields \ {"parsed", "partials"} : CloneModes[f] = {"outer", "inner"}
  BY FieldFacts DEF CloneModes, Deep, MapsClone, Shared
<1>5. ref[cached]["parsed"]["outer"][2] = "parsed"
  BY FieldFacts DEF IInv, OuterInv
<1>6. \A q \in Objects : kind[q] = "template" => kind'[q] = "template"
  BY <1>1 DEF Make, IInv, KindsTyped
<1>7. /\ NextCommon(ref[cached]["parsed"]["inner"])
      /\ NextCommon(ref[cached]["partials"]["inner"])
  <2>1. Common(ref[cached]["parsed"]["inner"])
    BY FieldFacts DEF IInv, InnerInv
  <2>2. CASE Common(ref[cached]["partials"]["inner"])
    BY <1>6, <2>1, <2>2, FieldFacts, InnerStays
  <2>3. CASE ref[cached]["partials"]["inner"] = <<body[cached], "partials", "inner">>
    <3>1. NextCommon(ref[cached]["partials"]["inner"])
      BY <2>3 DEF NextCommon
    <3> QED
      BY <1>6, <2>1, <3>1, FieldFacts, InnerStays
  <2> QED
    BY <2>2, <2>3, FieldFacts DEF IInv, InnerInv
<1>8. "template" \in Kinds \ {"free"}
  BY DEF Kinds, Executions
<1>9. \A f \in Fields : "inner" \in CloneModes[f] \/ NextCommon(ref[cached][f]["inner"])
  BY <1>4, <1>7
<1>10. Sound("template", CloneModes, ref[cached])
  <2>1. /\ \A f \in Exported \ {"partials", "messages", "media"} : "inner" \in CloneModes[f]
        /\ "inner" \in CloneModes["media"]
    BY <1>4, FieldFacts
  <2>2. \A f \in Fields \ {"parsed"} : "outer" \in CloneModes[f]
    BY <1>4
  <2>3. /\ "inner" \notin CloneModes["parsed"]
        /\ "template" \notin {"derived", "resolved"} /\ "template" # "resolved"
    BY <1>4
  <2> QED
    BY <1>2, <1>3, <1>5, <1>7, <1>9, <2>1, <2>2, <2>3, Zenon DEF Sound
<1> QED
  BY <1>1, <1>8, <1>10, MakeInv

LEMMA FormatInv ==
    ASSUME IInv, NEW c \in Callers, NEW t \in Objects, NEW o \in Objects,
           Format(c, t, o)
    PROVE  IInv'
<1> DEFINE from == [ref[t] EXCEPT !.messages = ref[t].parsed]
           text == {ref[t][f][l] : f \in {"partials", "tools"}, l \in Levels}
<1>1. Make(o, "execution", c, FormatModes, from, text) /\ kind[t] = "template"
  BY DEF Format
<1>2. from \in [Fields -> [Levels -> Cells]]
  BY FieldFacts DEF IInv, RefsTyped
<1>3. \A f \in Fields :
          from[f] = IF f = "messages" THEN ref[t]["parsed"] ELSE ref[t][f]
  BY FieldFacts DEF IInv, RefsTyped
<1> HIDE DEF from, text
<1>4. \A f \in Fields, l \in Levels : from[f][l][3] = l
  <2> SUFFICES ASSUME NEW f \in Fields, NEW l \in Levels PROVE from[f][l][3] = l
    OBVIOUS
  <2>1. PICK g \in Fields : from[f] = ref[t][g]
    BY <1>3, FieldFacts
  <2> QED
    BY <2>1 DEF IInv, LevelInv
<1>5. /\ FormatModes["messages"] = {"outer"}
      /\ \A f \in Fields \ {"messages"} : FormatModes[f] = {"outer", "inner"}
  BY FieldFacts DEF FormatModes, MapsClone, Deep
<1>6. \A q \in Objects : kind[q] = "template" => kind'[q] = "template"
  BY <1>1 DEF Make, IInv, KindsTyped
<1>7. NextCommon(from["messages"]["inner"])
  <2>1. Common(ref[t]["parsed"]["inner"])
    BY <1>1, FieldFacts DEF IInv, InnerInv
  <2>2. NextCommon(ref[t]["parsed"]["inner"])
    BY <1>6, <2>1, FieldFacts, InnerStays
  <2> QED
    BY <1>3, <2>2, FieldFacts
<1>8. Sound("execution", FormatModes, from)
  <2>1. \A f \in Fields : "outer" \in FormatModes[f]
    BY <1>5, FieldFacts
  <2>2. /\ \A f \in Exported \ {"partials", "messages", "media"} : "inner" \in FormatModes[f]
        /\ "inner" \in FormatModes["media"]
    BY <1>5, FieldFacts
  <2>3. \A f \in Fields : "inner" \in FormatModes[f] \/ NextCommon(from[f]["inner"])
    BY <1>5, <1>7, FieldFacts
  <2>4. "execution" # "template" /\ "execution" \notin {"derived", "resolved"}
        /\ "execution" # "resolved"
    OBVIOUS
  <2> QED
    BY <1>2, <1>4, <2>1, <2>2, <2>3, <2>4, FieldFacts, Zenon DEF Sound
<1>9. "execution" \in Kinds \ {"free"}
  BY DEF Kinds, Executions
<1> QED
  BY <1>1, <1>8, <1>9, MakeInv

LEMMA DeriveInv ==
    ASSUME IInv, NEW c \in Callers, NEW e \in Objects, NEW m \in Objects,
           NEW o \in Objects, Derive(c, e, m, o)
    PROVE  IInv'
<1> DEFINE from == [ref[e] EXCEPT !.messages = ref[m].messages, !.media = ref[m].media]
<1>1. Make(o, "derived", c, DeriveModes, from, {})
  BY DEF Derive
<1>2. from \in [Fields -> [Levels -> Cells]]
  BY FieldFacts DEF IInv, RefsTyped
<1>3. \A f \in Fields :
          from[f] = IF f \in {"messages", "media"} THEN ref[m][f] ELSE ref[e][f]
  BY FieldFacts DEF IInv, RefsTyped
<1> HIDE DEF from
<1>4. \A f \in Fields, l \in Levels : from[f][l][3] = l
  <2> SUFFICES ASSUME NEW f \in Fields, NEW l \in Levels PROVE from[f][l][3] = l
    OBVIOUS
  <2>1. PICK p \in Objects, g \in Fields : from[f] = ref[p][g]
    BY <1>3, FieldFacts
  <2> QED
    BY <2>1 DEF IInv, LevelInv
<1>5. \A f \in Fields : DeriveModes[f] = {"outer", "inner"}
  BY DEF DeriveModes, Deep
<1>6. Sound("derived", DeriveModes, from)
  <2>1. \A f \in Fields : "outer" \in DeriveModes[f] /\ "inner" \in DeriveModes[f]
    BY <1>5
  <2>2. "derived" # "template" /\ "derived" # "resolved"
    OBVIOUS
  <2> QED
    BY <1>2, <1>4, <2>1, <2>2, FieldFacts, Zenon DEF Sound
<1>7. "derived" \in Kinds \ {"free"}
  BY DEF Kinds, Executions
<1> QED
  BY <1>1, <1>6, <1>7, MakeInv

\* What only a resolved execution has from the fetcher.
LEMMA ResolveInv ==
    ASSUME IInv, NEW c \in Callers, NEW e \in Objects, NEW o \in Objects,
           ResolvedMedia(c, e, o)
    PROVE  IInv'
<1> DEFINE kept == [l \in Levels |-> <<Fetcher, "media", l>>]
           from == [ref[e] EXCEPT !.media = kept]
<1>1. Make(o, "resolved", c, ResolveModes, from, {})
  BY DEF ResolvedMedia
<1>2. kept \in [Levels -> Cells] /\ \A l \in Levels : kept[l] = <<Fetcher, "media", l>>
  BY DEF Cells
<1> HIDE DEF kept
<1>3. /\ from \in [Fields -> [Levels -> Cells]]
      /\ \A f \in Fields : from[f] = IF f = "media" THEN kept ELSE ref[e][f]
  BY <1>2, FieldFacts DEF IInv, RefsTyped
<1> HIDE DEF from
<1>4. \A f \in Fields, l \in Levels : from[f][l][3] = l
  <2> SUFFICES ASSUME NEW f \in Fields, NEW l \in Levels PROVE from[f][l][3] = l
    OBVIOUS
  <2>1. CASE f = "media"
    <3>1. from[f][l] = <<Fetcher, "media", l>>
      BY <1>2, <1>3, <2>1
    <3> QED
      BY <3>1
  <2>2. CASE f # "media"
    BY <1>3, <2>2 DEF IInv, LevelInv
  <2> QED
    BY <2>1, <2>2
<1>5. /\ ResolveModes["media"] = {}
      /\ \A f \in Fields \ {"media"} : ResolveModes[f] = {"outer", "inner"}
  BY FieldFacts DEF ResolveModes, Shared, Deep
<1>6. from["media"]["outer"][1] = Fetcher /\ from["media"]["inner"][1] = Fetcher
  <2>1. /\ from["media"]["outer"] = <<Fetcher, "media", "outer">>
        /\ from["media"]["inner"] = <<Fetcher, "media", "inner">>
    BY <1>2, <1>3, FieldFacts
  <2> QED
    BY <2>1
<1>7. Sound("resolved", ResolveModes, from)
  <2>1. \A f \in Fields \ {"parsed"} :
            IF f = "media" /\ "resolved" = "resolved"
            THEN "outer" \notin ResolveModes[f] /\ from[f]["outer"][1] = Fetcher
            ELSE "outer" \in ResolveModes[f]
    BY <1>5, <1>6
  <2>2. /\ \A f \in Exported \ {"partials", "messages", "media"} : "inner" \in ResolveModes[f]
        /\ "inner" \in ResolveModes["messages"] /\ "outer" \in ResolveModes["parsed"]
    BY <1>5, FieldFacts
  <2>3. \A f \in Fields : "inner" \in ResolveModes[f] \/ NextCommon(from[f]["inner"])
    BY <1>5, <1>6 DEF NextCommon
  <2>4. "resolved" # "template"
    OBVIOUS
  <2> QED
    BY <1>3, <1>4, <2>1, <2>2, <2>3, <2>4, Zenon DEF Sound
<1>8. "resolved" \in Kinds \ {"free"}
  BY DEF Kinds, Executions
<1> QED
  BY <1>1, <1>7, <1>8, MakeInv

\* A second name has what the first has.
LEMMA NameInv ==
    ASSUME IInv, NEW c \in Callers, NEW e \in Objects, NEW o \in Objects,
           owner \in [Objects -> Callers \cup {Registry}],
           NormalizeEmpty(c, e, o)
    PROVE  IInv'
<1>1. /\ kind[o] = "free" /\ kind[e] # "free" /\ kind[e] # "template"
      /\ kind' = [kind EXCEPT ![o] = kind[e]]
      /\ owner' = [owner EXCEPT ![o] = c] /\ owner[e] = c
      /\ body' = [body EXCEPT ![o] = body[e]]
      /\ ref' = [ref EXCEPT ![o] = ref[e]]
  BY DEF NormalizeEmpty, Executions
<1>2. /\ kind'[o] = kind[e] /\ owner'[o] = owner[e] /\ body'[o] = body[e]
      /\ ref'[o] = ref[e]
  BY <1>1 DEF IInv, KindsTyped, NamesInv, RefsTyped
<1>3. \A p \in Objects \ {o} : /\ kind'[p] = kind[p] /\ owner'[p] = owner[p]
                               /\ body'[p] = body[p] /\ ref'[p] = ref[p]
  BY <1>1 DEF IInv, KindsTyped, NamesInv, RefsTyped
<1>4. RefsTyped' /\ KindsTyped'
  BY <1>1 DEF IInv, KindsTyped, RefsTyped
<1>5. NamesInv'
  <2>1. body' \in [Objects -> Objects]
    BY <1>1 DEF IInv, NamesInv
  <2>2. \A p \in Objects : kind[p] # "free" => body[p] # o /\ body[p] \in Objects
    BY <1>1 DEF IInv, NamesInv
  <2>3. \A p \in Objects \ {o} : body[p] # o
    BY <1>1 DEF IInv, NamesInv
  <2> QED
    BY <1>1, <1>2, <1>3, <2>1, <2>2, <2>3 DEF IInv, NamesInv
<1>6. LevelInv'
  BY <1>2, <1>3 DEF IInv, LevelInv
<1>7. OuterInv'
  <2>1. /\ \A f \in Fields : Fetched(o, f)' = Fetched(e, f)
        /\ \A p \in Objects \ {o}, f \in Fields : Fetched(p, f)' = Fetched(p, f)
    BY <1>2, <1>3 DEF Fetched
  <2> SUFFICES ASSUME NEW p \in Objects, NEW f \in Fields
               PROVE  /\ f # "parsed" /\ ~Fetched(p, f)' =>
                            ref'[p][f]["outer"] = <<body'[p], f, "outer">>
                      /\ Fetched(p, f)' => ref'[p][f]["outer"][1] = Fetcher
                      /\ f = "parsed" => ref'[p][f]["outer"][2] = "parsed"
    BY DEF OuterInv
  <2>2. CASE p = o
    BY <1>2, <2>1, <2>2 DEF IInv, OuterInv
  <2>3. CASE p # o
    BY <1>3, <2>1, <2>3 DEF IInv, OuterInv
  <2> QED
    BY <2>2, <2>3
<1>8. \A x \in Cells : Common(x) => NextCommon(x)
  <2> SUFFICES ASSUME NEW x \in Cells, Common(x) PROVE NextCommon(x)
    OBVIOUS
  <2>1. x[1] \in Objects \/ x[1] = Fetcher
    BY DEF Cells
  <2>2. x[1] \in Objects /\ kind[x[1]] = "template" => kind'[x[1]] = "template"
    BY <1>1, <1>3
  <2> QED
    BY <2>1, <2>2 DEF Common, NextCommon
<1>9. InnerInv'
  <2> SUFFICES ASSUME NEW p \in Objects, NEW f \in Fields
               PROVE  /\ \/ ref'[p][f]["inner"] = <<body'[p], f, "inner">>
                         \/ NextCommon(ref'[p][f]["inner"])
                      /\ f \in DeepFields(p)' =>
                            ref'[p][f]["inner"] = <<body'[p], f, "inner">>
                      /\ f = "parsed" /\ kind'[p] = "template" =>
                            NextCommon(ref'[p][f]["inner"])
    BY DEF InnerInv, Common, NextCommon
  <2>1. PICK q \in Objects : /\ kind'[p] = kind[q] /\ body'[p] = body[q]
                             /\ ref'[p] = ref[q]
    BY <1>2, <1>3
  <2>2. DeepFields(p)' = DeepFields(q)
    BY <2>1 DEF DeepFields, FieldsOf
  <2>3. ref[q][f]["inner"] \in Cells
    BY FieldFacts DEF IInv, RefsTyped
  <2> QED
    BY <1>8, <2>1, <2>2, <2>3 DEF IInv, InnerInv
<1> QED
  BY <1>4, <1>5, <1>6, <1>7, <1>9 DEF IInv

LEMMA WriteInv ==
    ASSUME IInv, UNCHANGED <<kind, owner, body, ref>>
    PROVE  IInv'
<1>1. \A o \in Objects : DeepFields(o)' = DeepFields(o)
  BY DEF DeepFields, FieldsOf
<1> QED
  BY <1>1 DEF IInv, RefsTyped, KindsTyped, NamesInv, OuterInv, Fetched, InnerInv, Common,
             LevelInv

-----------------------------------------------------------------------------
LEMMA MakeTypes ==
    ASSUME TypeOK, NEW o \in Objects, NEW k \in Kinds \ {"free"},
           NEW c \in Callers \cup {Registry}, NEW modes,
           NEW from \in [Fields -> [Levels -> Cells]], NEW text \in SUBSET Cells,
           Make(o, k, c, modes, from, text)
    PROVE  /\ kind' \in [Objects -> Kinds]
           /\ owner' \in [Objects -> Callers \cup {Registry}]
           /\ ref' \in [Objects -> [Fields -> [Levels -> Cells]]]
           /\ body' \in [Objects -> Objects]
           /\ seen' \in [Cells -> SUBSET Callers]
           /\ kind'[o] = k /\ owner'[o] = c
           /\ cached # NoObject => /\ cached \in Objects /\ kind'[cached] = "template"
                                  /\ owner'[cached] = Registry
<1>1. kind' \in [Objects -> Kinds] /\ kind'[o] = k
  BY DEF Make, TypeOK
<1>2. owner' \in [Objects -> Callers \cup {Registry}] /\ owner'[o] = c
  BY DEF Make, TypeOK
<1>3. ref' \in [Objects -> [Fields -> [Levels -> Cells]]]
  <2>1. [f \in Fields |-> [l \in Levels |->
            IF l \in modes[f] THEN <<o, f, l>> ELSE from[f][l]]]
          \in [Fields -> [Levels -> Cells]]
    BY DEF Cells
  <2> QED
    BY <2>1 DEF Make, TypeOK
<1>4. seen' \in [Cells -> SUBSET Callers]
  <2>1. \A x \in Cells : seen[x] \in SUBSET Callers
    BY DEF TypeOK
  <2>2. \A x \in Cells : x[2] \in Fields /\ x[3] \in Levels
    BY FieldFacts DEF Cells
  <2>3. \A x \in Cells : seen[from[x[2]][x[3]]] \in SUBSET Callers
    BY <2>1, <2>2
  <2>4. UNION {seen[y] : y \in text} \in SUBSET Callers
    BY <2>1
  <2> QED
    BY <2>1, <2>3, <2>4 DEF Make
<1>5. cached # NoObject => /\ cached \in Objects /\ kind'[cached] = "template"
                          /\ owner'[cached] = Registry
  BY DEF Make, TypeOK
<1>6. body' \in [Objects -> Objects]
  BY DEF Make, TypeOK
<1> QED
  BY <1>1, <1>2, <1>3, <1>4, <1>5, <1>6

LEMMA StepTypes == TypeOK /\ [Next]_vars => TypeOK'
<1> SUFFICES ASSUME TypeOK, [Next]_vars PROVE TypeOK'
  OBVIOUS
<1> USE FieldFacts
<1>1. ASSUME NEW o \in Objects, Load(o) PROVE TypeOK'
  <2> DEFINE modes == [f \in Fields |-> IF f = "parsed" THEN MapsClone ELSE Levels]
             from  == [Own(o) EXCEPT !.parsed = Own(o).messages]
  <2>1. Make(o, "template", Registry, modes, from, {}) /\ cached' = o
        /\ writes' = writes
    BY <1>1 DEF Load
  <2>2. from \in [Fields -> [Levels -> Cells]]
    BY DEF Own, Cells
  <2> HIDE DEF modes, from
  <2>3. "template" \in Kinds \ {"free"} /\ {} \in SUBSET Cells
    BY DEF Kinds, Executions
  <2> QED
    BY <2>1, <2>2, <2>3, MakeTypes DEF TypeOK
<1>2. ASSUME NEW c \in Callers, NEW o \in Objects, GetTemplate(c, o)
      PROVE  TypeOK'
  <2>1. Make(o, "template", c, CloneModes, ref[cached], {})
        /\ cached # NoObject /\ UNCHANGED <<cached, writes>>
    BY <1>2 DEF GetTemplate
  <2>2. ref[cached] \in [Fields -> [Levels -> Cells]]
    BY <2>1 DEF TypeOK
  <2>3. "template" \in Kinds \ {"free"} /\ {} \in SUBSET Cells
    BY DEF Kinds, Executions
  <2> QED
    BY <2>1, <2>2, <2>3, MakeTypes DEF TypeOK
<1>3. ASSUME NEW c \in Callers, NEW t \in Objects, NEW o \in Objects,
             Format(c, t, o)
      PROVE  TypeOK'
  <2> DEFINE from == [ref[t] EXCEPT !.messages = ref[t].parsed]
             text == {ref[t][f][l] : f \in {"partials", "tools"}, l \in Levels}
  <2>1. Make(o, "execution", c, FormatModes, from, text)
        /\ UNCHANGED <<cached, writes>>
    BY <1>3 DEF Format
  <2>2. from \in [Fields -> [Levels -> Cells]]
    BY DEF TypeOK
  <2>3. text \in SUBSET Cells
    BY DEF TypeOK, Fields, Exported, ExecutionFields
  <2> HIDE DEF from, text
  <2>4. "execution" \in Kinds \ {"free"}
    BY DEF Kinds, Executions
  <2> QED
    BY <2>1, <2>2, <2>3, <2>4, MakeTypes DEF TypeOK
<1>4. ASSUME NEW c \in Callers, NEW e \in Objects, NEW m \in Objects,
             NEW o \in Objects, Derive(c, e, m, o)
      PROVE  TypeOK'
  <2> DEFINE from == [ref[e] EXCEPT !.messages = ref[m].messages, !.media = ref[m].media]
  <2>1. Make(o, "derived", c, DeriveModes, from, {})
        /\ UNCHANGED <<cached, writes>>
    BY <1>4 DEF Derive
  <2>2. from \in [Fields -> [Levels -> Cells]]
    BY DEF TypeOK
  <2> HIDE DEF from
  <2>3. "derived" \in Kinds \ {"free"} /\ {} \in SUBSET Cells
    BY DEF Kinds, Executions
  <2> QED
    BY <2>1, <2>2, <2>3, MakeTypes DEF TypeOK
<1>5. ASSUME NEW c \in Callers, NEW o \in Objects, NEW f \in Exported,
             NEW l \in Levels, Write(c, o, f, l)
      PROVE  TypeOK'
  <2>1. writes' \in 0..MaxWrites
    BY <1>5, BoundAssumption DEF Write, TypeOK
  <2>2. seen' \in [Cells -> SUBSET Callers]
    BY <1>5 DEF Write, TypeOK
  <2> QED
    BY <1>5, <2>1, <2>2 DEF Write, TypeOK
<1>6. CASE UNCHANGED vars
  BY <1>6 DEF vars, TypeOK
<1>7. ASSUME NEW c \in Callers, NEW e \in Objects, NEW o \in Objects,
             NormalizeEmpty(c, e, o)
      PROVE  TypeOK'
  <2>1. /\ kind' = [kind EXCEPT ![o] = kind[e]] /\ kind[o] = "free"
        /\ owner' = [owner EXCEPT ![o] = c]
        /\ body' = [body EXCEPT ![o] = body[e]]
        /\ ref' = [ref EXCEPT ![o] = ref[e]]
        /\ UNCHANGED <<seen, cached, writes>>
    BY <1>7 DEF NormalizeEmpty
  <2>2. cached # NoObject => cached # o
    BY <2>1 DEF TypeOK
  <2> QED
    BY <2>1, <2>2 DEF TypeOK
<1>8. ASSUME NEW c \in Callers, NEW e \in Objects, NEW o \in Objects,
             ResolvedMedia(c, e, o)
      PROVE  TypeOK'
  <2> DEFINE from == [ref[e] EXCEPT !.media = [l \in Levels |-> <<Fetcher, "media", l>>]]
  <2>1. Make(o, "resolved", c, ResolveModes, from, {})
        /\ UNCHANGED <<cached, writes>>
    BY <1>8 DEF ResolvedMedia
  <2>2. [l \in Levels |-> <<Fetcher, "media", l>>] \in [Levels -> Cells]
    BY DEF Cells
  <2>3. from \in [Fields -> [Levels -> Cells]]
    BY <2>2 DEF TypeOK
  <2> HIDE DEF from
  <2>4. "resolved" \in Kinds \ {"free"} /\ {} \in SUBSET Cells
    BY DEF Kinds, Executions
  <2> QED
    BY <2>1, <2>3, <2>4, MakeTypes DEF TypeOK
<1> QED
  BY <1>1, <1>2, <1>3, <1>4, <1>5, <1>6, <1>7, <1>8 DEF Next

\* Every reachable state of templates, executions and writes is well typed;
\* the template the registry hands out stays its own.
THEOREM TypeCorrect == Spec => []TypeOK
<1>1. Init => TypeOK
  BY BoundAssumption DEF Init, TypeOK, Own, Cells, Kinds
<1> QED
  BY <1>1, StepTypes, PTL DEF Spec

LEMMA StepInv == TypeOK /\ IInv /\ [Next]_vars => IInv'
<1> SUFFICES ASSUME TypeOK, IInv, [Next]_vars PROVE IInv'
  OBVIOUS
<1>1. ASSUME NEW c \in Callers, NEW o \in Objects, GetTemplate(c, o)
      PROVE  IInv'
  <2>1. cached \in Objects /\ kind[cached] = "template"
    BY <1>1 DEF GetTemplate, TypeOK
  <2> QED
    BY <1>1, <2>1, GetTemplateInv
<1>2. ASSUME NEW c \in Callers, NEW o \in Objects, NEW f \in Exported,
             NEW l \in Levels, Write(c, o, f, l)
      PROVE  IInv'
  BY <1>2, WriteInv DEF Write
<1>3. CASE UNCHANGED vars
  BY <1>3, WriteInv DEF vars
<1>4. ASSUME NEW c \in Callers, NEW e \in Objects, NEW o \in Objects,
             NormalizeEmpty(c, e, o)
      PROVE  IInv'
  BY <1>4, NameInv DEF TypeOK
<1> QED
  BY <1>1, <1>2, <1>3, <1>4, LoadInv, FormatInv, DeriveInv, ResolveInv DEF Next

\* Two templates or executions share no map or slice but those that
\* CloneTemplate and rendering copy one level deep, whatever is loaded,
\* cloned, rendered, derived and written in whatever order.
THEOREM SharingIsBounded == Spec => []NoSharedCells
<1>1. Init => TypeOK /\ IInv
  BY InitInv, BoundAssumption DEF Init, TypeOK, Own, Cells, Kinds
<1>2. TypeOK /\ IInv /\ [Next]_vars => (TypeOK /\ IInv)'
  BY StepTypes, StepInv
<1> QED
  BY <1>1, <1>2, Disjoint, PTL DEF Spec

-----------------------------------------------------------------------------
(***************************************************************************)
(* Writes stay private                                                     *)
(***************************************************************************)

Private == Exported \ {"partials", "messages", "media"}

\* What has not been allocated has not been written on, nor is it referred to.
Held(x) == x[1] = Fetcher \/ (x[1] \in Objects /\ kind[x[1]] # "free")

FreshInv ==
    \A o \in Objects, f \in Fields, l \in Levels :
        /\ kind[o] = "free" => seen[<<o, f, l>>] = {}
        /\ kind[o] # "free" => Held(ref[o][f][l])

PrivateInv ==
    \A o \in Objects, f \in Private, l \in Deep :
        kind[o] # "free" /\ f \in FieldsOf(o) => seen[<<o, f, l>>] \subseteq {owner[o]}

PrivInv == FreshInv /\ PrivateInv

LEMMA PrivateFacts ==
    /\ Private \subseteq Fields /\ Deep \subseteq Levels
    /\ Deep = {"outer", "inner"} /\ "messages" \notin Private
    /\ \A f \in Private : f # "partials" /\ f # "parsed" /\ f # "media"
    /\ \A o \in Objects, f \in Fields, l \in Levels : <<o, f, l>> \in Cells
  BY DEF Private, Fields, Exported, ExecutionFields, Deep, Levels, Cells

LEMMA PrivateRefs ==
    ASSUME IInv, NEW o \in Objects, kind[o] # "free", NEW f \in Private, NEW l \in Deep,
           f \in FieldsOf(o)
    PROVE  ref[o][f][l] = <<body[o], f, l>>
<1>1. f \in Fields /\ f # "parsed" /\ f \in Exported
  BY PrivateFacts DEF Private
<1>2. CASE l = "outer"
  BY <1>1, <1>2, PrivateFacts DEF IInv, OuterInv, Fetched
<1>3. CASE l = "inner"
  <2>1. f \in DeepFields(o)
    BY <1>1, PrivateFacts DEF DeepFields
  <2> QED
    BY <1>1, <1>3, <2>1 DEF IInv, InnerInv
<1> QED
  BY <1>2, <1>3, PrivateFacts

\* The private cells an object refers to show its holder's writes alone.
LEMMA PrivateSource ==
    ASSUME IInv, PrivInv, NEW t \in Objects, kind[t] # "free",
           NEW f \in Private, NEW l \in Deep
    PROVE  f \in FieldsOf(t) => seen[ref[t][f][l]] \subseteq {owner[t]}
<1> SUFFICES ASSUME f \in FieldsOf(t)
             PROVE  seen[ref[t][f][l]] \subseteq {owner[t]}
  OBVIOUS
<1>1. ref[t][f][l] = <<body[t], f, l>>
  BY PrivateRefs
<1>2. body[t] \in Objects /\ kind[body[t]] = kind[t] /\ owner[body[t]] = owner[t]
  BY DEF IInv, NamesInv
<1>3. f \in FieldsOf(body[t])
  BY <1>2 DEF FieldsOf
<1>4. seen[<<body[t], f, l>>] \subseteq {owner[body[t]]}
  BY <1>2, <1>3 DEF PrivInv, PrivateInv
<1> QED
  BY <1>1, <1>2, <1>4

LEMMA PrivateWrites == IInv /\ PrivInv => WritesStayPrivate
<1> SUFFICES ASSUME IInv, PrivInv, NEW o \in Live,
                    NEW f \in DeepFields(o) \ {"messages", "media"},
                    NEW l \in Deep
             PROVE  seen[ref[o][f][l]] \subseteq {owner[o]}
  BY DEF WritesStayPrivate
<1>1. o \in Objects /\ kind[o] # "free"
  BY DEF Live
<1>2. f \in Private /\ f \in FieldsOf(o)
  BY DEF DeepFields, Private
<1> QED
  BY <1>1, <1>2, PrivateSource

LEMMA InitPriv == Init => PrivInv
<1> SUFFICES ASSUME Init PROVE PrivInv
  OBVIOUS
<1>1. \A o \in Objects, f \in Fields, l \in Levels : kind[o] = "free" /\ seen[<<o, f, l>>] = {}
  BY PrivateFacts DEF Init
<1>2. FreshInv
  BY <1>1 DEF FreshInv
<1>3. PrivateInv
  BY <1>1, PrivateFacts DEF PrivateInv
<1> QED
  BY <1>2, <1>3 DEF PrivInv

\* The cells a live object refers to belong to live objects.
LEMMA RefsAreHeld ==
    ASSUME PrivInv, NEW p \in Objects, NEW f \in Fields, NEW l \in Levels, kind[p] # "free"
    PROVE  Held(ref[p][f][l])
<1>1. FreshInv
  BY DEF PrivInv
<1> QED
  BY <1>1, Zenon DEF FreshInv

\* A new object takes over nothing but its holder's own writes.
LEMMA MakePriv ==
    ASSUME TypeOK, PrivInv,
           NEW o \in Objects, NEW k \in Kinds \ {"free"}, NEW c, NEW modes,
           NEW from, NEW text,
           Make(o, k, c, modes, from, text),
           \A f \in Fields, l \in Levels : from[f][l][1] = o \/ Held(from[f][l]),
           \A f \in Private, l \in Deep :
               k = "template" \/ f \in ExecutionFields =>
                   l \in modes[f] /\ seen[from[f][l]] \subseteq {c}
    PROVE  PrivInv'
<1>1. /\ kind[o] = "free"
      /\ kind' = [kind EXCEPT ![o] = k]
      /\ owner' = [owner EXCEPT ![o] = c]
      /\ ref' = [ref EXCEPT ![o] = [f \in Fields |-> [l \in Levels |->
                   IF l \in modes[f] THEN <<o, f, l>> ELSE from[f][l]]]]
      /\ seen' = [x \in Cells |->
            IF x[1] # o \/ ~(x[3] \in modes[x[2]]) THEN seen[x]
            ELSE seen[from[x[2]][x[3]]] \cup
                 (IF x[2] = "messages" /\ x[3] = "outer"
                  THEN UNION {seen[y] : y \in text} ELSE {})]
  BY DEF Make
<1>2. k # "free" /\ kind'[o] = k /\ owner'[o] = c
  BY <1>1 DEF TypeOK
<1>3. \A p \in Objects \ {o} : /\ kind'[p] = kind[p] /\ owner'[p] = owner[p]
                               /\ ref'[p] = ref[p]
  BY <1>1 DEF TypeOK
<1>4. \A f \in Fields, l \in Levels :
          ref'[o][f][l] = IF l \in modes[f] THEN <<o, f, l>> ELSE from[f][l]
  BY <1>1 DEF TypeOK
<1>5. \A p \in Objects \ {o}, f \in Fields, l \in Levels : seen'[<<p, f, l>>] = seen[<<p, f, l>>]
  BY <1>1, PrivateFacts
<1>6. \A f \in Private, l \in Deep : l \in modes[f] => seen'[<<o, f, l>>] = seen[from[f][l]]
  BY <1>1, PrivateFacts
<1>7. FreshInv'
  <2> SUFFICES ASSUME NEW p \in Objects, NEW f \in Fields, NEW l \in Levels
               PROVE  /\ kind'[p] = "free" => seen'[<<p, f, l>>] = {}
                      /\ kind'[p] # "free" => Held(ref[p][f][l])'
    BY DEF FreshInv
  <2>0. \A x : Held(x) => Held(x)'
    BY <1>2, <1>3 DEF Held
  <2>1. CASE p = o
    <3>1. ref'[o][f][l] = <<o, f, l>> \/ ref'[o][f][l] = from[f][l]
      BY <1>4
    <3>2. CASE ref'[o][f][l] = <<o, f, l>>
      <4>1. ref'[o][f][l][1] = o
        BY <3>2
      <4> QED
        BY <1>2, <2>1, <4>1 DEF Held
    <3>3. CASE ref'[o][f][l] = from[f][l]
      <4>1. from[f][l][1] = o \/ Held(from[f][l])'
        BY <2>0
      <4> QED
        BY <1>2, <2>1, <3>3, <4>1 DEF Held
    <3> QED
      BY <3>1, <3>2, <3>3
  <2>2. CASE p # o
    <3>1. kind'[p] = kind[p] /\ ref'[p] = ref[p] /\ seen'[<<p, f, l>>] = seen[<<p, f, l>>]
      BY <1>3, <1>5, <2>2
    <3>2. kind[p] # "free" => Held(ref[p][f][l])
      BY DEF PrivInv, FreshInv
    <3>3. Held(ref[p][f][l]) => Held(ref[p][f][l])'
      BY <2>0, <3>1 DEF Held
    <3> QED
      BY <3>1, <3>2, <3>3 DEF PrivInv, FreshInv
  <2> QED
    BY <2>1, <2>2
<1>8. PrivateInv'
  <2> SUFFICES ASSUME NEW p \in Objects, NEW f \in Private, NEW l \in Deep,
                      kind'[p] # "free", (f \in FieldsOf(p))'
               PROVE  seen'[<<p, f, l>>] \subseteq {owner'[p]}
    BY DEF PrivateInv
  <2>1. CASE p = o
    <3>1. k = "template" \/ f \in ExecutionFields
      BY <1>2, <2>1 DEF FieldsOf
    <3> QED
      BY <1>2, <1>6, <2>1, <3>1
  <2>2. CASE p # o
    <3>1. f \in FieldsOf(p)
      BY <1>3, <2>2 DEF FieldsOf
    <3>2. kind[p] # "free" /\ owner'[p] = owner[p]
      BY <1>3, <2>2
    <3>3. seen'[<<p, f, l>>] = seen[<<p, f, l>>]
      BY <1>5, <2>2, PrivateFacts
    <3>4. seen[<<p, f, l>>] \subseteq {owner[p]}
      BY <3>1, <3>2 DEF PrivInv, PrivateInv
    <3> QED
      BY <3>2, <3>3, <3>4
  <2> QED
    BY <2>1, <2>2
<1> QED
  BY <1>7, <1>8 DEF PrivInv

LEMMA LoadPriv ==
    ASSUME TypeOK, PrivInv, NEW o \in Objects, Load(o)
    PROVE  PrivInv'
<1> DEFINE modes == [f \in Fields |-> IF f = "parsed" THEN MapsClone ELSE Levels]
           from  == [Own(o) EXCEPT !.parsed = Own(o).messages]
<1>1. Make(o, "template", Registry, modes, from, {}) /\ kind[o] = "free"
  BY DEF Load, Make
<1>2. \A f \in Fields, l \in Levels :
          from[f][l] = IF f = "parsed" THEN <<o, "messages", l>> ELSE <<o, f, l>>
  BY FieldFacts DEF Own
<1>3. \A f \in Private : modes[f] = Levels
  BY PrivateFacts
<1> HIDE DEF modes, from
<1>4. \A f \in Fields, l \in Levels : from[f][l][1] = o
  <2> TAKE f \in Fields, l \in Levels
  <2>1. from[f][l] = <<o, "messages", l>> \/ from[f][l] = <<o, f, l>>
    BY <1>2
  <2> QED
    BY <2>1
<1>5. \A f \in Private, l \in Deep : from[f][l] = <<o, f, l>>
  BY <1>2, PrivateFacts
<1>6. \A f \in Private, l \in Deep : seen[<<o, f, l>>] = {}
  BY <1>1, PrivateFacts DEF PrivInv, FreshInv
<1>7. "template" \in Kinds \ {"free"}
  BY DEF Kinds, Executions
<1>8. \A f \in Private, l \in Deep : l \in modes[f] /\ seen[from[f][l]] \subseteq {Registry}
  BY <1>3, <1>5, <1>6, PrivateFacts
<1> QED
  BY <1>1, <1>4, <1>7, <1>8, MakePriv

\* The callers see in the registry's template nothing, for the registry does
\* not write.
LEMMA GetTemplatePriv ==
    ASSUME TypeOK, IInv, PrivInv, NEW c \in Callers, NEW o \in Objects, GetTemplate(c, o)
    PROVE  PrivInv'
<1>1. Make(o, "template", c, CloneModes, ref[cached], {})
  BY DEF GetTemplate
<1>2. cached \in Objects /\ kind[cached] = "template" /\ owner[cached] = Registry
  BY DEF GetTemplate, TypeOK
<1>3. \A f \in Private : CloneModes[f] = Deep
  BY PrivateFacts DEF CloneModes
<1>4. \A f \in Fields, l \in Levels : Held(ref[cached][f][l])
  BY <1>2 DEF PrivInv, FreshInv
<1>5. \A f \in Private, l \in Deep : seen[ref[cached][f][l]] \subseteq {c}
  <2> TAKE f \in Private, l \in Deep
  <2>1. f \in FieldsOf(cached) /\ kind[cached] # "free"
    BY <1>2, PrivateFacts DEF FieldsOf
  <2>2. seen[ref[cached][f][l]] \subseteq {Registry}
    BY <1>2, <2>1, PrivateSource
  <2>3. seen[ref[cached][f][l]] \subseteq Callers
    BY <1>2, PrivateFacts DEF TypeOK
  <2> QED
    BY <2>2, <2>3, OwnersAssumption
<1>6. "template" \in Kinds \ {"free"}
  BY DEF Kinds, Executions
<1> QED
  BY <1>1, <1>3, <1>4, <1>5, <1>6, MakePriv

LEMMA FormatPriv ==
    ASSUME TypeOK, IInv, PrivInv, NEW c \in Callers, NEW t \in Objects, NEW o \in Objects,
           Format(c, t, o)
    PROVE  PrivInv'
<1> DEFINE from == [ref[t] EXCEPT !.messages = ref[t].parsed]
           text == {ref[t][f][l] : f \in {"partials", "tools"}, l \in Levels}
<1>1. Make(o, "execution", c, FormatModes, from, text)
  BY DEF Format
<1>2. kind[t] = "template" /\ owner[t] = c
  BY DEF Format
<1>3. \A f \in Fields :
          from[f] = IF f = "messages" THEN ref[t]["parsed"] ELSE ref[t][f]
  BY FieldFacts DEF IInv, RefsTyped
<1> HIDE DEF from, text
<1>4. \A f \in Private : FormatModes[f] = Deep /\ from[f] = ref[t][f]
  BY <1>3, PrivateFacts DEF FormatModes
<1>5. \A f \in Fields, l \in Levels : Held(from[f][l])
  <2> TAKE f \in Fields, l \in Levels
  <2>1. PICK p \in Objects, g \in Fields : kind[p] # "free" /\ from[f] = ref[p][g]
    BY <1>2, <1>3, FieldFacts
  <2>2. Held(ref[p][g][l])
    BY <2>1, RefsAreHeld
  <2> QED
    BY <2>1, <2>2
<1>6. \A f \in Private, l \in Deep : seen[from[f][l]] \subseteq {c}
  <2> TAKE f \in Private, l \in Deep
  <2>1. f \in FieldsOf(t) /\ kind[t] # "free"
    BY <1>2, PrivateFacts DEF FieldsOf
  <2> QED
    BY <1>2, <1>4, <2>1, PrivateSource
<1>7. "execution" \in Kinds \ {"free"}
  BY DEF Kinds, Executions
<1> QED
  BY <1>1, <1>4, <1>5, <1>6, <1>7, MakePriv

LEMMA DerivePriv ==
    ASSUME TypeOK, IInv, PrivInv, NEW c \in Callers, NEW e \in Objects, NEW m \in Objects,
           NEW o \in Objects, Derive(c, e, m, o)
    PROVE  PrivInv'
<1> DEFINE from == [ref[e] EXCEPT !.messages = ref[m].messages, !.media = ref[m].media]
<1>1. Make(o, "derived", c, DeriveModes, from, {})
  BY DEF Derive
<1>2. /\ kind[e] # "free" /\ kind[m] # "free" /\ owner[e] = c
      /\ kind[e] # "template"
  BY DEF Derive, Executions
<1>3. \A f \in Fields :
          from[f] = IF f \in {"messages", "media"} THEN ref[m][f] ELSE ref[e][f]
  BY FieldFacts DEF IInv, RefsTyped
<1> HIDE DEF from
<1>4. \A f \in Private : DeriveModes[f] = Deep /\ from[f] = ref[e][f]
  BY <1>3, PrivateFacts DEF DeriveModes
<1>5. \A f \in Fields, l \in Levels : Held(from[f][l])
  <2> TAKE f \in Fields, l \in Levels
  <2>1. PICK p \in Objects, g \in Fields : kind[p] # "free" /\ from[f] = ref[p][g]
    BY <1>2, <1>3, FieldFacts
  <2>2. Held(ref[p][g][l])
    BY <2>1, RefsAreHeld
  <2> QED
    BY <2>1, <2>2
<1>6. \A f \in Private, l \in Deep :
          f \in ExecutionFields => seen[from[f][l]] \subseteq {c}
  <2> SUFFICES ASSUME NEW f \in Private, NEW l \in Deep, f \in ExecutionFields
               PROVE  seen[from[f][l]] \subseteq {c}
    OBVIOUS
  <2>1. f \in FieldsOf(e)
    BY <1>2 DEF FieldsOf
  <2> QED
    BY <1>2, <1>4, <2>1, PrivateSource
<1> DEFINE k == "derived"
<1>7. k \in Kinds \ {"free"} /\ k # "template" /\ Make(o, k, c, DeriveModes, from, {})
  BY <1>1 DEF Kinds, Executions
<1> HIDE DEF k
<1>8. \A f \in Private, l \in Deep :
          k = "template" \/ f \in ExecutionFields =>
              l \in DeriveModes[f] /\ seen[from[f][l]] \subseteq {c}
  BY <1>4, <1>6, <1>7
<1> QED
  BY <1>5, <1>7, <1>8, MakePriv, Z3

LEMMA ResolvePriv ==
    ASSUME TypeOK, IInv, PrivInv, NEW c \in Callers, NEW e \in Objects, NEW o \in Objects,
           ResolvedMedia(c, e, o)
    PROVE  PrivInv'
<1> DEFINE kept == [l \in Levels |-> <<Fetcher, "media", l>>]
           from == [ref[e] EXCEPT !.media = kept]
<1>1. Make(o, "resolved", c, ResolveModes, from, {})
  BY DEF ResolvedMedia
<1>2. /\ kind[e] # "free" /\ owner[e] = c
      /\ kind[e] # "template"
  BY DEF ResolvedMedia, Executions
<1>3. \A l \in Levels : kept[l] = <<Fetcher, "media", l>>
  OBVIOUS
<1> HIDE DEF kept
<1>4. \A f \in Fields : from[f] = IF f = "media" THEN kept ELSE ref[e][f]
  BY FieldFacts DEF IInv, RefsTyped
<1> HIDE DEF from
<1>5. \A f \in Private : ResolveModes[f] = Deep /\ from[f] = ref[e][f]
  BY <1>4, PrivateFacts DEF ResolveModes
<1>6. \A f \in Fields, l \in Levels : Held(from[f][l])
  <2> TAKE f \in Fields, l \in Levels
  <2>1. CASE f = "media"
    <3>1. from[f][l] = <<Fetcher, "media", l>>
      BY <1>3, <1>4, <2>1
    <3> QED
      BY <3>1 DEF Held
  <2>2. CASE f # "media"
    BY <1>2, <1>4, <2>2, RefsAreHeld
  <2> QED
    BY <2>1, <2>2
<1>7. \A f \in Private, l \in Deep :
          f \in ExecutionFields => seen[from[f][l]] \subseteq {c}
  <2> SUFFICES ASSUME NEW f \in Private, NEW l \in Deep, f \in ExecutionFields
               PROVE  seen[from[f][l]] \subseteq {c}
    OBVIOUS
  <2>1. f \in FieldsOf(e)
    BY <1>2 DEF FieldsOf
  <2> QED
    BY <1>2, <1>5, <2>1, PrivateSource
<1> DEFINE k == "resolved"
<1>8. k \in Kinds \ {"free"} /\ k # "template" /\ Make(o, k, c, ResolveModes, from, {})
  BY <1>1 DEF Kinds, Executions
<1> HIDE DEF k
<1>9. \A f \in Private, l \in Deep :
          k = "template" \/ f \in ExecutionFields =>
              l \in ResolveModes[f] /\ seen[from[f][l]] \subseteq {c}
  BY <1>5, <1>7, <1>8
<1> QED
  BY <1>6, <1>8, <1>9, MakePriv, Z3

LEMMA NamePriv ==
    ASSUME TypeOK, IInv, PrivInv, NEW c \in Callers, NEW e \in Objects, NEW o \in Objects,
           NormalizeEmpty(c, e, o)
    PROVE  PrivInv'
<1>1. /\ kind[o] = "free" /\ kind[e] # "free"
      /\ kind' = [kind EXCEPT ![o] = kind[e]]
      /\ owner' = [owner EXCEPT ![o] = c]
      /\ ref' = [ref EXCEPT ![o] = ref[e]]
      /\ seen' = seen
  BY DEF NormalizeEmpty, Executions
<1>2. kind'[o] = kind[e] /\ ref'[o] = ref[e]
  BY <1>1 DEF TypeOK
<1>3. \A p \in Objects \ {o} : /\ kind'[p] = kind[p] /\ owner'[p] = owner[p]
                               /\ ref'[p] = ref[p]
  BY <1>1 DEF TypeOK
<1>4. \A x : Held(x) => Held(x)'
  BY <1>1, <1>2, <1>3 DEF Held
<1>5. FreshInv'
  <2> SUFFICES ASSUME NEW p \in Objects, NEW f \in Fields, NEW l \in Levels
               PROVE  /\ kind'[p] = "free" => seen'[<<p, f, l>>] = {}
                      /\ kind'[p] # "free" => Held(ref[p][f][l])'
    BY DEF FreshInv
  <2>1. kind'[p] = "free" => kind[p] = "free"
    BY <1>1, <1>2, <1>3
  <2>2. PICK q \in Objects : kind'[p] = kind[q] /\ ref'[p] = ref[q]
    BY <1>2, <1>3
  <2>3. kind[q] # "free" => Held(ref[q][f][l])
    BY RefsAreHeld
  <2>4. Held(ref[q][f][l]) => Held(ref[p][f][l])'
    BY <1>4, <2>2 DEF Held
  <2> QED
    BY <1>1, <2>1, <2>2, <2>3, <2>4 DEF PrivInv, FreshInv
<1>6. PrivateInv'
  <2> SUFFICES ASSUME NEW p \in Objects, NEW f \in Private, NEW l \in Deep,
                      kind'[p] # "free", (f \in FieldsOf(p))'
               PROVE  seen'[<<p, f, l>>] \subseteq {owner'[p]}
    BY DEF PrivateInv
  <2>1. CASE p = o
    <3>1. seen[<<o, f, l>>] = {}
      BY <1>1, PrivateFacts DEF PrivInv, FreshInv
    <3> QED
      BY <1>1, <2>1, <3>1
  <2>2. CASE p # o
    <3>1. f \in FieldsOf(p) /\ kind[p] # "free"
      BY <1>3, <2>2 DEF FieldsOf
    <3> QED
      BY <1>1, <1>3, <2>2, <3>1 DEF PrivInv, PrivateInv
  <2> QED
    BY <2>1, <2>2
<1> QED
  BY <1>5, <1>6 DEF PrivInv

\* A write shows in one cell, which is in no private field but the writer's.
LEMMA WritePriv ==
    ASSUME TypeOK, IInv, PrivInv, NEW c \in Callers, NEW o \in Objects,
           NEW f \in Exported, NEW l \in Levels, Write(c, o, f, l)
    PROVE  PrivInv'
<1> DEFINE x == ref[o][f][l]
<1>1. /\ kind[o] # "free" /\ owner[o] = c /\ f \in Fields /\ f # "parsed"
      /\ UNCHANGED <<kind, owner, body, ref>>
      /\ seen' = [seen EXCEPT ![x] = @ \cup {c}]
  BY FieldFacts DEF Write
<1>2. x \in Cells /\ x[3] = l /\ Held(x)
  <2>1. x \in Cells
    BY <1>1 DEF TypeOK
  <2>2. x[3] = l
    BY <1>1 DEF IInv, LevelInv
  <2>3. Held(x)
    BY <1>1, RefsAreHeld
  <2> QED
    BY <2>1, <2>2, <2>3
<1>3. \A y \in Cells : seen'[y] = IF y = x THEN seen[y] \cup {c} ELSE seen[y]
  BY <1>1, <1>2 DEF TypeOK
<1>4. l \in Deep => x = <<body[o], f, l>> \/ x[2] \in {"partials", "messages"}
                    \/ x[1] = Fetcher
  BY <1>1, PrivateFacts DEF IInv, OuterInv, InnerInv, Common
<1>7. body[o] \in Objects /\ owner[body[o]] = c
  BY <1>1 DEF IInv, NamesInv
<1> HIDE DEF x
<1>5. FreshInv'
  <2> SUFFICES ASSUME NEW p \in Objects, NEW g \in Fields, NEW m \in Levels
               PROVE  /\ kind'[p] = "free" => seen'[<<p, g, m>>] = {}
                      /\ kind'[p] # "free" => Held(ref[p][g][m])'
    BY DEF FreshInv
  <2>1. kind' = kind /\ ref' = ref
    BY <1>1
  <2>2. <<p, g, m>> \in Cells /\ <<p, g, m>>[1] = p
    BY PrivateFacts
  <2>3. kind[p] = "free" => <<p, g, m>> # x
    BY <1>2, <2>2, FetcherAssumption DEF Held
  <2>4. kind[p] = "free" => seen'[<<p, g, m>>] = {}
    BY <1>3, <2>2, <2>3 DEF PrivInv, FreshInv
  <2>5. kind[p] # "free" => Held(ref[p][g][m])
    BY RefsAreHeld
  <2> QED
    BY <2>1, <2>4, <2>5 DEF Held
<1>6. PrivateInv'
  <2> SUFFICES ASSUME NEW p \in Objects, NEW g \in Private, NEW m \in Deep,
                      kind[p] # "free", g \in FieldsOf(p)
               PROVE  seen'[<<p, g, m>>] \subseteq {owner[p]}
    BY <1>1 DEF PrivateInv, FieldsOf
  <2>1. <<p, g, m>> \in Cells
    BY PrivateFacts
  <2>2. seen[<<p, g, m>>] \subseteq {owner[p]}
    BY DEF PrivInv, PrivateInv
  <2>3. <<p, g, m>> = x => owner[p] = c
    <3> SUFFICES ASSUME <<p, g, m>> = x PROVE owner[p] = c
      OBVIOUS
    <3>1. x[1] = p /\ x[2] = g /\ x[3] = m
      OBVIOUS
    <3>2. l \in Deep /\ g \notin {"partials", "messages"} /\ p # Fetcher
      BY <1>2, <3>1, FetcherAssumption DEF Private
    <3>3. x = <<body[o], f, l>>
      BY <1>4, <3>1, <3>2
    <3>4. p = body[o]
      BY <3>1, <3>3
    <3> QED
      BY <1>7, <3>4
  <2> QED
    BY <1>3, <2>1, <2>2, <2>3
<1> QED
  BY <1>5, <1>6 DEF PrivInv

LEMMA StepPriv == TypeOK /\ IInv /\ PrivInv /\ [Next]_vars => PrivInv'
<1> SUFFICES ASSUME TypeOK, IInv, PrivInv, [Next]_vars PROVE PrivInv'
  OBVIOUS
<1>1. CASE UNCHANGED vars
  BY <1>1 DEF vars, PrivInv, FreshInv, Held, PrivateInv, FieldsOf
<1> QED
  BY <1>1, LoadPriv, GetTemplatePriv, FormatPriv, DerivePriv, NamePriv, ResolvePriv,
     WritePriv DEF Next

\* What a caller writes shows in the deeply copied fields of nothing that the
\* registry or another caller holds, whatever is loaded, cloned, rendered and
\* derived in whatever order.
THEOREM WritesAreSeenByTheirWriter == Spec => []WritesStayPrivate
<1>1. Init => TypeOK /\ IInv /\ PrivInv
  BY InitInv, InitPriv, BoundAssumption DEF Init, TypeOK, Own, Cells, Kinds
<1>2. TypeOK /\ IInv /\ PrivInv /\ [Next]_vars => (TypeOK /\ IInv /\ PrivInv)'
  BY StepTypes, StepInv, StepPriv
<1> QED
  BY <1>1, <1>2, PrivateWrites, PTL DEF Spec
=============================================================================
