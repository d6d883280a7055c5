------------------------- MODULE ConversationProofs -------------------------
(***************************************************************************)
(* Theorems about conversations with any provider, of any length, with any *)
(* prompts, schemas and bounds.                                            *)
(***************************************************************************)
EXTENDS Conversation, SequenceTheorems, WellFoundedInduction, TLAPS

\* Induction over the numbers, with the set of those a fact holds of.
LEMMA SetInduction ==
    ASSUME NEW T \in SUBSET Nat, 0 \in T, \A n \in T : n + 1 \in T
    PROVE  T = Nat
<1> DEFINE R == {ss \in Nat \X Nat : ss[1] < ss[2]}
<1> SUFFICES ASSUME Nat \ T # {} PROVE FALSE OBVIOUS
<1>1. IsWellFoundedOn(R, Nat) BY NatLessThanWellFounded DEF OpToRel
<1>2. PICK x \in Nat \ T : \A y \in Nat \ T : ~(<<y, x>> \in R)
 <2> HIDE DEF R
 <2>1. Nat \ T \in SUBSET Nat OBVIOUS
 <2> QED BY <1>1, <2>1, WFMin
<1>3. x # 0 /\ x - 1 \in Nat /\ x - 1 < x OBVIOUS
<1>4. x - 1 \in T BY <1>2, <1>3
<1>5. (x - 1) + 1 \in T BY <1>4
<1> QED BY <1>3, <1>5

----------------------------------------
\* FlattenSeq: what it gives for one sequence more.
Flattens(f, ss) == f = [i \in 1..Len(ss) |-> IF i = 1 THEN ss[i] ELSE f[i - 1] \o ss[i]]

LEMMA FlattensAt ==
    ASSUME NEW S, NEW ss \in Seq(Seq(S)), NEW f, Flattens(f, ss)
    PROVE  \A i \in 1..Len(ss) : f[i] = IF i = 1 THEN ss[i] ELSE f[i - 1] \o ss[i]
<1>1. f = [i \in 1..Len(ss) |-> IF i = 1 THEN ss[i] ELSE f[i - 1] \o ss[i]] BY DEF Flattens
<1> QED BY <1>1

LEMMA FlattensExists ==
    ASSUME NEW S, NEW ss \in Seq(Seq(S))
    PROVE  \E f : Flattens(f, ss)
<1> DEFINE Upto(f, n) == f = [i \in 1..n |-> IF i = 1 THEN ss[i] ELSE f[i - 1] \o ss[i]]
           T == {n \in Nat : \E f : Upto(f, n)}
<1>1. 0 \in T
 <2> DEFINE f == [i \in 1..0 |-> <<>>]
 <2>1. f = [i \in 1..0 |-> IF i = 1 THEN ss[i] ELSE f[i - 1] \o ss[i]] OBVIOUS
 <2> QED BY <2>1
<1>2. ASSUME NEW n \in T PROVE n + 1 \in T
 <2>0. n \in Nat OBVIOUS
 <2>1. PICK f : Upto(f, n) OBVIOUS
 <2> DEFINE g == [i \in 1..(n + 1) |->
                     IF i <= n THEN f[i] ELSE IF i = 1 THEN ss[i] ELSE f[n] \o ss[i]]
 <2>2. \A i \in 1..n : f[i] = IF i = 1 THEN ss[i] ELSE f[i - 1] \o ss[i]
  <3> HIDE DEF g
  <3> QED BY <2>1
 <2>3. \A i \in 1..(n + 1) : g[i] = IF i = 1 THEN ss[i] ELSE g[i - 1] \o ss[i]
  <3> TAKE i \in 1..(n + 1)
  <3>1. CASE i <= n /\ i # 1
   <4>1. i \in 1..n /\ i - 1 \in 1..(n + 1) /\ i - 1 <= n BY <3>1
   <4>2. g[i] = f[i] /\ g[i - 1] = f[i - 1] BY <3>1, <4>1
   <4> QED BY <2>2, <3>1, <4>1, <4>2
  <3>2. CASE i <= n /\ i = 1
   <4>1. i \in 1..n BY <3>2
   <4>2. g[i] = f[i] BY <3>2
   <4> QED BY <2>2, <3>2, <4>1, <4>2
  <3>3. CASE ~(i <= n) /\ i # 1
   <4>1. n \in 1..(n + 1) /\ i - 1 = n /\ n <= n BY <2>0, <3>3
   <4>2. g[i] = f[n] \o ss[i] BY <3>3
   <4>3. g[n] = f[n] BY <4>1
   <4> QED BY <3>3, <4>1, <4>2, <4>3
  <3>4. CASE ~(i <= n) /\ i = 1 BY <3>4
  <3> QED BY <3>1, <3>2, <3>3, <3>4
 <2>4. g = [i \in 1..(n + 1) |-> g[i]] OBVIOUS
 <2>5. Upto(g, n + 1) /\ n + 1 \in Nat
  <3> HIDE DEF g
  <3>1. g = [i \in 1..(n + 1) |-> IF i = 1 THEN ss[i] ELSE g[i - 1] \o ss[i]] BY <2>3, <2>4
  <3>2. n + 1 \in Nat BY <2>0
  <3>3. Upto(g, n + 1) BY ONLY <3>1
  <3> QED BY <3>2, <3>3
 <2> HIDE DEF g, Upto
 <2> QED BY <2>5
<1>3. T = Nat
 <2>1. T \in SUBSET Nat OBVIOUS
 <2> HIDE DEF T
 <2> QED BY <1>1, <1>2, <2>1, SetInduction
<1>4. Len(ss) \in Nat OBVIOUS
<1>5. \E f : Upto(f, Len(ss)) BY <1>3, <1>4
<1> QED BY <1>5 DEF Flattens

LEMMA FlattenSeqIs ==
    ASSUME NEW S, NEW ss \in Seq(Seq(S)), Len(ss) # 0
    PROVE  \E f : Flattens(f, ss) /\ FlattenSeq(ss) = f[Len(ss)]
<1> DEFINE f == CHOOSE g : Flattens(g, ss)
<1>1. Flattens(f, ss) BY FlattensExists
<1>2. FlattenSeq(ss) = f[Len(ss)] BY DEF FlattenSeq, Flattens
<1> HIDE DEF f
<1> QED BY <1>1, <1>2

LEMMA FlattensType ==
    ASSUME NEW S, NEW ss \in Seq(Seq(S)), NEW f, Flattens(f, ss)
    PROVE  \A i \in 1..Len(ss) : f[i] \in Seq(S)
<1> DEFINE T == {n \in Nat : n + 1 <= Len(ss) => f[n + 1] \in Seq(S)}
<1>1. 0 \in T BY FlattensAt
<1>2. ASSUME NEW n \in T PROVE n + 1 \in T
 <2> SUFFICES ASSUME (n + 1) + 1 <= Len(ss) PROVE f[(n + 1) + 1] \in Seq(S) OBVIOUS
 <2>1. (n + 1) + 1 \in 1..Len(ss) /\ n + 1 \in 1..Len(ss) /\ f[n + 1] \in Seq(S) OBVIOUS
 <2>2. f[(n + 1) + 1] = f[n + 1] \o ss[(n + 1) + 1]
  <3>1. \A i \in 1..Len(ss) : f[i] = IF i = 1 THEN ss[i] ELSE f[i - 1] \o ss[i] BY FlattensAt
  <3>2. (n + 1) + 1 # 1 /\ ((n + 1) + 1) - 1 = n + 1 OBVIOUS
  <3> QED BY <2>1, <3>1, <3>2
 <2>3. ss[(n + 1) + 1] \in Seq(S) BY <2>1
 <2> QED BY <2>1, <2>2, <2>3, ConcatProperties
<1>3. T = Nat
 <2>1. T \in SUBSET Nat OBVIOUS
 <2> HIDE DEF T
 <2> QED BY <1>1, <1>2, <2>1, SetInduction
<1> SUFFICES ASSUME NEW i \in 1..Len(ss) PROVE f[i] \in Seq(S) OBVIOUS
<1>4. i - 1 \in Nat /\ (i - 1) + 1 = i OBVIOUS
<1>5. i - 1 \in T BY <1>3, <1>4
<1> QED BY <1>4, <1>5

LEMMA FlattenEmpty == FlattenSeq(<<>>) = <<>>
  BY DEF FlattenSeq

LEMMA FlattenType ==
    ASSUME NEW S, NEW ss \in Seq(Seq(S))
    PROVE  FlattenSeq(ss) \in Seq(S)
<1>1. CASE Len(ss) = 0
 <2>1. ss = <<>> BY <1>1
 <2>2. FlattenSeq(ss) = <<>> BY <2>1, FlattenEmpty
 <2> QED BY <2>2
<1>2. CASE Len(ss) # 0
 <2>1. PICK f : Flattens(f, ss) /\ FlattenSeq(ss) = f[Len(ss)] BY <1>2, FlattenSeqIs
 <2>2. Len(ss) \in 1..Len(ss) BY <1>2
 <2> QED BY <2>1, <2>2, FlattensType
<1> QED BY <1>1, <1>2

LEMMA FlattenAppend ==
    ASSUME NEW S, NEW ss \in Seq(Seq(S)), NEW t \in Seq(S)
    PROVE  FlattenSeq(Append(ss, t)) = FlattenSeq(ss) \o t
<1> DEFINE more == Append(ss, t)
<1>1. /\ more \in Seq(Seq(S)) /\ Len(more) = Len(ss) + 1 /\ Len(ss) \in Nat
      /\ \A i \in 1..Len(ss) : more[i] = ss[i]
      /\ more[Len(ss) + 1] = t
  OBVIOUS
<1> HIDE DEF more
<1>2. PICK g : Flattens(g, more) /\ FlattenSeq(more) = g[Len(more)]
 <2>1. Len(more) # 0 BY <1>1
 <2> QED BY <1>1, <2>1, FlattenSeqIs
<1>3. \A i \in 1..Len(more) : g[i] = IF i = 1 THEN more[i] ELSE g[i - 1] \o more[i]
  BY <1>1, <1>2, FlattensAt
<1>4. CASE Len(ss) = 0
 <2>1. ss = <<>> BY <1>4
 <2>2. FlattenSeq(ss) = <<>> BY <2>1, FlattenEmpty
 <2>3. FlattenSeq(more) = t BY <1>1, <1>2, <1>3, <1>4
 <2>4. <<>> \o t = t OBVIOUS
 <2> QED BY <2>2, <2>3, <2>4 DEF more
<1>5. CASE Len(ss) # 0
 <2>1. PICK f : Flattens(f, ss) /\ FlattenSeq(ss) = f[Len(ss)] BY <1>5, FlattenSeqIs
 <2>2. \A i \in 1..Len(ss) : f[i] = IF i = 1 THEN ss[i] ELSE f[i - 1] \o ss[i] BY <2>1, FlattensAt
 <2> DEFINE T == {n \in Nat : n + 1 <= Len(ss) => g[n + 1] = f[n + 1]}
 <2>3. 0 \in T BY <1>1, <1>3, <2>2
 <2>4. ASSUME NEW n \in T PROVE n + 1 \in T
  <3> SUFFICES ASSUME (n + 1) + 1 <= Len(ss) PROVE g[(n + 1) + 1] = f[(n + 1) + 1] OBVIOUS
  <3>1. /\ (n + 1) + 1 \in 1..Len(ss) /\ (n + 1) + 1 \in 1..Len(more)
        /\ (n + 1) + 1 # 1 /\ ((n + 1) + 1) - 1 = n + 1 /\ g[n + 1] = f[n + 1]
    BY <1>1
  <3>2. g[(n + 1) + 1] = g[n + 1] \o more[(n + 1) + 1] BY <1>3, <3>1
  <3>3. f[(n + 1) + 1] = f[n + 1] \o ss[(n + 1) + 1] BY <2>2, <3>1
  <3> QED BY <1>1, <3>1, <3>2, <3>3
 <2>5. T = Nat
  <3>1. T \in SUBSET Nat OBVIOUS
  <3> HIDE DEF T
  <3> QED BY <2>3, <2>4, <3>1, SetInduction
 <2>6. Len(ss) - 1 \in T
  <3>1. Len(ss) - 1 \in Nat BY <1>1, <1>5
  <3> QED BY <2>5, <3>1
 <2>7. g[Len(ss)] = f[Len(ss)]
  <3>1. (Len(ss) - 1) + 1 = Len(ss) BY <1>1
  <3> QED BY <1>1, <2>6, <3>1
 <2>8. Len(ss) + 1 \in 1..Len(more) /\ Len(ss) + 1 # 1 /\ (Len(ss) + 1) - 1 = Len(ss) BY <1>1, <1>5
 <2>9. g[Len(ss) + 1] = g[Len(ss)] \o t BY <1>1, <1>3, <2>8
 <2> QED BY <1>1, <1>2, <2>1, <2>7, <2>9 DEF more
<1> QED BY <1>1, <1>4, <1>5

----------------------------------------
\* Induction over sequences, again with a set, and what it gives.
LEMMA SeqInduction ==
    ASSUME NEW S, NEW T, <<>> \in T,
           \A s \in Seq(S), x \in S : s \in T => Append(s, x) \in T
    PROVE  Seq(S) \subseteq T
<1> DEFINE U == {n \in Nat : \A s \in Seq(S) : Len(s) = n => s \in T}
<1>1. 0 \in U
 <2>1. \A s \in Seq(S) : Len(s) = 0 => s = <<>> OBVIOUS
 <2> QED BY <2>1
<1>2. ASSUME NEW n \in U PROVE n + 1 \in U
 <2> SUFFICES ASSUME NEW s \in Seq(S), Len(s) = n + 1 PROVE s \in T OBVIOUS
 <2>1. n \in Nat /\ s # <<>> OBVIOUS
 <2>2. PICK f \in Seq(S), x \in S : s = Append(f, x) BY <2>1, SequenceEmptyOrAppend
 <2>3. Len(s) = Len(f) + 1 /\ Len(f) \in Nat BY <2>2
 <2>4. Len(f) = n BY <2>1, <2>3
 <2>5. f \in T BY <2>4
 <2> QED BY <2>2, <2>5
<1>3. U = Nat
 <2>1. U \in SUBSET Nat OBVIOUS
 <2> HIDE DEF U
 <2> QED BY <1>1, <1>2, <2>1, SetInduction
<1> QED BY <1>3

LEMMA MapAppend ==
    ASSUME NEW S, NEW s \in Seq(S), NEW x \in S, NEW f
    PROVE  [i \in DOMAIN Append(s, x) |-> f[Append(s, x)[i]]]
             = Append([i \in DOMAIN s |-> f[s[i]]], f[x])
<1> DEFINE m == [i \in DOMAIN s |-> f[s[i]]]
           n == [i \in DOMAIN Append(s, x) |-> f[Append(s, x)[i]]]
           R == {f[y] : y \in S}
<1>1. m \in Seq(R) /\ n \in Seq(R) /\ f[x] \in R /\ Len(m) = Len(s) /\ Len(n) = Len(s) + 1 OBVIOUS
<1>2. \A i \in 1..Len(s) + 1 : n[i] = Append(m, f[x])[i] OBVIOUS
<1>3. Append(m, f[x]) \in Seq(R) /\ Len(Append(m, f[x])) = Len(s) + 1 BY <1>1
<1> HIDE DEF m, n, R
<1> QED BY <1>1, <1>2, <1>3, SeqEqual DEF m, n

\* What is in a flattened sequence was in one of its parts, and all of that.
LEMMA FlattenHas ==
    ASSUME NEW S, NEW ss \in Seq(Seq(S)), NEW i \in 1..Len(ss), NEW k \in 1..Len(ss[i])
    PROVE  \E j \in 1..Len(FlattenSeq(ss)) : FlattenSeq(ss)[j] = ss[i][k]
<1> DEFINE T == {tt \in Seq(Seq(S)) :
                    \A n \in 1..Len(tt) : \A m \in 1..Len(tt[n]) :
                        \E j \in 1..Len(FlattenSeq(tt)) : FlattenSeq(tt)[j] = tt[n][m]}
<1>1. <<>> \in T OBVIOUS
<1>2. ASSUME NEW tt \in Seq(Seq(S)), NEW t \in Seq(S), tt \in T
      PROVE  Append(tt, t) \in T
 <2> DEFINE more == Append(tt, t)
 <2>1. /\ more \in Seq(Seq(S)) /\ Len(more) = Len(tt) + 1 /\ Len(tt) \in Nat
       /\ \A n \in 1..Len(tt) : more[n] = tt[n]
       /\ more[Len(tt) + 1] = t
   OBVIOUS
 <2>2. FlattenSeq(more) = FlattenSeq(tt) \o t /\ FlattenSeq(tt) \in Seq(S)
   BY FlattenAppend, FlattenType
 <2>3. /\ Len(FlattenSeq(more)) = Len(FlattenSeq(tt)) + Len(t)
       /\ \A j \in 1..Len(FlattenSeq(tt)) : FlattenSeq(more)[j] = FlattenSeq(tt)[j]
       /\ \A m \in 1..Len(t) : FlattenSeq(more)[Len(FlattenSeq(tt)) + m] = t[m]
   BY <2>2
 <2> HIDE DEF more
 <2> SUFFICES ASSUME NEW n \in 1..Len(more), NEW m \in 1..Len(more[n])
              PROVE  \E j \in 1..Len(FlattenSeq(more)) : FlattenSeq(more)[j] = more[n][m]
   BY <2>1 DEF more
 <2>4. CASE n \in 1..Len(tt)
  <3>1. PICK j \in 1..Len(FlattenSeq(tt)) : FlattenSeq(tt)[j] = tt[n][m] BY <1>2, <2>1, <2>4
  <3>2. j \in 1..Len(FlattenSeq(more))
   <4>1. Len(FlattenSeq(tt)) \in Nat /\ Len(t) \in Nat BY <2>2
   <4> QED BY <2>3, <4>1
  <3>3. FlattenSeq(more)[j] = more[n][m] BY <2>1, <2>3, <2>4, <3>1
  <3> QED BY <3>2, <3>3
 <2>5. CASE n = Len(tt) + 1
  <3>1. m \in 1..Len(t) /\ more[n] = t BY <2>1, <2>5
  <3>2. Len(FlattenSeq(tt)) + m \in 1..Len(FlattenSeq(more)) BY <2>2, <2>3, <3>1
  <3> QED BY <2>3, <3>1, <3>2
 <2> QED BY <2>1, <2>4, <2>5
<1>3. Seq(Seq(S)) \subseteq T
 <2> HIDE DEF T
 <2> QED BY <1>1, <1>2, SeqInduction
<1> QED BY <1>3

----------------------------------------
\* What others write, and a conversation without it.
Mark          == Text(<<Foreign>>)
NativePart    == ContentPart(Native)
NativeMessage == ChatMessage(Native)
HeapPart      == NativePart \cup {Mark}
HeapMessage   == [role : Strings, content : Seq(HeapPart), cache : Caches]
Without(s)    == Where(s, OfTheConversation)

LEMMA MarkIsNotNative == Mark \notin NativePart
<1> SUFFICES ASSUME Mark \in NativePart PROVE FALSE OBVIOUS
<1>1. Mark.kind = "text" /\ Mark.text = <<Foreign>> BY DEF Mark, Text
<1>2. Mark \in TextPart(Native)
  BY <1>1 DEF NativePart, ContentPart, MediaPart, ReasoningPart, ToolCallPart, ToolResultPart
<1>3. <<Foreign>> \in Seq(Native) BY <1>1, <1>2 DEF TextPart
<1>4. Foreign \in Native BY <1>3
<1> QED BY <1>4 DEF Native

LEMMA WithoutEmpty == Without(<<>>) = <<>>
<1>1. [i \in DOMAIN <<>> |->
          IF OfTheConversation(<<>>[i]) THEN <<<<>>[i]>> ELSE <<>>] = <<>>
  OBVIOUS
<1> QED BY <1>1, FlattenEmpty DEF Without, Where

LEMMA WithoutAppend ==
    ASSUME NEW s \in Seq(HeapPart), NEW x \in HeapPart
    PROVE  /\ Without(s) \in Seq(NativePart)
           /\ Without(Append(s, x)) = IF x = Mark THEN Without(s) ELSE Append(Without(s), x)
<1> DEFINE f == [y \in HeapPart |-> IF OfTheConversation(y) THEN <<y>> ELSE <<>>]
           Kept(t) == [i \in DOMAIN t |-> IF OfTheConversation(t[i]) THEN <<t[i]>> ELSE <<>>]
<1>1. \A y \in HeapPart : OfTheConversation(y) <=> y # Mark BY DEF OfTheConversation, Mark
<1>2. \A y \in HeapPart : f[y] \in Seq(NativePart) BY <1>1 DEF HeapPart
<1>3. ASSUME NEW t \in Seq(HeapPart)
      PROVE  Kept(t) = [i \in DOMAIN t |-> f[t[i]]] /\ Kept(t) \in Seq(Seq(NativePart))
 <2>1. \A i \in DOMAIN t : t[i] \in HeapPart OBVIOUS
 <2>2. Kept(t) = [i \in DOMAIN t |-> f[t[i]]] BY <2>1
 <2>3. [i \in DOMAIN t |-> f[t[i]]] \in Seq(Seq(NativePart))
  <3> HIDE DEF f
  <3> QED BY <1>2, <2>1
 <2> QED BY <2>2, <2>3
<1>4. Append(s, x) \in Seq(HeapPart) OBVIOUS
<1>5. Kept(Append(s, x)) = Append(Kept(s), f[x])
 <2> DEFINE a == Append(s, x)
 <2>1. Kept(a) = [i \in DOMAIN a |-> f[a[i]]]
  <3> HIDE DEF f, Kept
  <3> QED BY <1>3, <1>4
 <2>2. Kept(s) = [i \in DOMAIN s |-> f[s[i]]]
  <3> HIDE DEF f, Kept
  <3> QED BY <1>3
 <2>3. [i \in DOMAIN a |-> f[a[i]]] = Append([i \in DOMAIN s |-> f[s[i]]], f[x])
  <3> HIDE DEF f
  <3> QED BY MapAppend
 <2> HIDE DEF f, Kept
 <2> QED BY <2>1, <2>2, <2>3
<1>6. Without(s) = FlattenSeq(Kept(s)) /\ Without(Append(s, x)) = FlattenSeq(Kept(Append(s, x)))
  BY DEF Without, Where
<1>7. Without(s) \in Seq(NativePart)
 <2> HIDE DEF f, Kept
 <2> QED BY <1>3, <1>6, FlattenType
<1>8. Without(Append(s, x)) = Without(s) \o f[x]
 <2> HIDE DEF f, Kept
 <2> QED BY <1>2, <1>3, <1>5, <1>6, FlattenAppend
<1>9. f[x] = IF x = Mark THEN <<>> ELSE <<x>> BY <1>1
<1>10. x # Mark => x \in NativePart BY DEF HeapPart
<1> HIDE DEF f, Kept
<1>11. CASE x = Mark BY <1>7, <1>8, <1>9, <1>11
<1>12. CASE x # Mark
 <2>1. Without(s) \o <<x>> = Append(Without(s), x) BY <1>7, <1>10, <1>12
 <2> QED BY <1>7, <1>8, <1>9, <1>12, <2>1
<1> QED BY <1>11, <1>12

LEMMA WithoutNative == \A s \in Seq(NativePart) : Without(s) = s
<1> DEFINE T == {s \in Seq(NativePart) : Without(s) = s}
<1>1. <<>> \in T BY WithoutEmpty
<1>2. ASSUME NEW s \in Seq(NativePart), NEW x \in NativePart, s \in T
      PROVE  Append(s, x) \in T
 <2>1. s \in Seq(HeapPart) /\ x \in HeapPart BY DEF HeapPart
 <2>2. x # Mark BY MarkIsNotNative
 <2>3. Without(Append(s, x)) = Append(Without(s), x) BY <2>1, <2>2, WithoutAppend
 <2>4. Append(s, x) \in Seq(NativePart) OBVIOUS
 <2> QED BY <1>2, <2>3, <2>4
<1>3. Seq(NativePart) \subseteq T
 <2> HIDE DEF T
 <2> QED BY <1>1, <1>2, SeqInduction
<1> QED BY <1>3

LEMMA NativeIsHeap ==
    /\ NativeMessage \subseteq HeapMessage
    /\ Seq(NativeMessage) \subseteq Seq(HeapMessage)
<1>1. Seq(NativePart) \subseteq Seq(HeapPart) BY DEF HeapPart
<1>2. NativeMessage \subseteq HeapMessage
  BY <1>1 DEF NativeMessage, HeapMessage, ChatMessage, NativePart
<1> QED BY <1>2

Bare(m) == [m EXCEPT !.content = Without(@)]

LEMMA WithoutForeignAt ==
    ASSUME NEW ms \in Seq(HeapMessage)
    PROVE  /\ WithoutForeign(ms) \in Seq(NativeMessage)
           /\ Len(WithoutForeign(ms)) = Len(ms)
           /\ \A k \in 1..Len(ms) : WithoutForeign(ms)[k] = Bare(ms[k])
<1>1. WithoutForeign(ms) = [k \in 1..Len(ms) |-> Bare(ms[k])] BY DEF WithoutForeign, Bare, Without
<1>2. ASSUME NEW k \in 1..Len(ms) PROVE Bare(ms[k]) \in NativeMessage
 <2>1. ms[k] \in HeapMessage OBVIOUS
 <2>2. Without(ms[k].content) \in Seq(NativePart)
  <3>1. ms[k].content \in Seq(HeapPart) /\ Mark \in HeapPart BY <2>1 DEF HeapMessage, HeapPart
  <3> QED BY <3>1, WithoutAppend
 <2> QED BY <2>1, <2>2 DEF Bare, HeapMessage, NativeMessage, ChatMessage, NativePart
<1> QED BY <1>1, <1>2

LEMMA WithoutForeignNative ==
    \A ms \in Seq(NativeMessage) : WithoutForeign(ms) = ms
<1> SUFFICES ASSUME NEW ms \in Seq(NativeMessage) PROVE WithoutForeign(ms) = ms OBVIOUS
<1>1. ms \in Seq(HeapMessage) BY NativeIsHeap
<1>2. \A k \in 1..Len(ms) : Bare(ms[k]) = ms[k]
 <2> SUFFICES ASSUME NEW m \in NativeMessage PROVE Bare(m) = m OBVIOUS
 <2>1. m.content \in Seq(NativePart) BY DEF NativeMessage, ChatMessage, NativePart
 <2>2. Without(m.content) = m.content BY <2>1, WithoutNative
 <2> QED BY <2>2 DEF Bare, NativeMessage, ChatMessage
<1> QED BY <1>1, <1>2, WithoutForeignAt, SeqEqual

LEMMA WithoutForeignConcat ==
    ASSUME NEW s \in Seq(HeapMessage), NEW t \in Seq(HeapMessage)
    PROVE  WithoutForeign(s \o t) = WithoutForeign(s) \o WithoutForeign(t)
<1>1. s \o t \in Seq(HeapMessage) /\ Len(s \o t) = Len(s) + Len(t) OBVIOUS
<1>2. WithoutForeign(s) \o WithoutForeign(t) \in Seq(NativeMessage) BY WithoutForeignAt
<1>0. /\ WithoutForeign(s) \in Seq(NativeMessage) /\ Len(WithoutForeign(s)) = Len(s)
      /\ WithoutForeign(t) \in Seq(NativeMessage) /\ Len(WithoutForeign(t)) = Len(t)
  BY WithoutForeignAt
<1>3. Len(WithoutForeign(s) \o WithoutForeign(t)) = Len(s) + Len(t) BY <1>0
<1>4. ASSUME NEW k \in 1..Len(s) + Len(t)
      PROVE  WithoutForeign(s \o t)[k] = (WithoutForeign(s) \o WithoutForeign(t))[k]
 <2>1. WithoutForeign(s \o t)[k] = Bare((s \o t)[k]) BY <1>1, WithoutForeignAt
 <2>2. CASE k <= Len(s)
  <3>1. (s \o t)[k] = s[k] /\ k \in 1..Len(s) BY <2>2
  <3>2. (WithoutForeign(s) \o WithoutForeign(t))[k] = WithoutForeign(s)[k] BY <1>0, <2>2
  <3> QED BY <2>1, <3>1, <3>2, WithoutForeignAt
 <2>3. CASE ~(k <= Len(s))
  <3>1. (s \o t)[k] = t[k - Len(s)] /\ k - Len(s) \in 1..Len(t) BY <2>3
  <3>2. (WithoutForeign(s) \o WithoutForeign(t))[k] = WithoutForeign(t)[k - Len(s)] BY <1>0, <2>3
  <3> QED BY <2>1, <3>1, <3>2, WithoutForeignAt
 <2> QED BY <2>2, <2>3
<1> QED BY <1>1, <1>2, <1>3, <1>4, WithoutForeignAt, SeqEqual

\* Writing on an execution adds nothing to the conversation in it.
Written(ms, k) == [ms EXCEPT ![k].content = Append(@, Mark)]

LEMMA WithoutForeignWritten ==
    ASSUME NEW ms \in Seq(HeapMessage), NEW k \in 1..Len(ms)
    PROVE  /\ Written(ms, k) \in Seq(HeapMessage)
           /\ WithoutForeign(Written(ms, k)) = WithoutForeign(ms)
<1> DEFINE m == [ms[k] EXCEPT !.content = Append(@, Mark)]
<1>1. ms[k] \in HeapMessage /\ ms[k].content \in Seq(HeapPart) /\ Mark \in HeapPart
 <2>1. ms[k] \in HeapMessage OBVIOUS
 <2>2. ms[k].content \in Seq(HeapPart) BY <2>1 DEF HeapMessage
 <2>3. Mark \in HeapPart BY DEF HeapPart
 <2> QED BY <2>1, <2>2, <2>3
<1>2. m \in HeapMessage
 <2>1. Append(ms[k].content, Mark) \in Seq(HeapPart) BY <1>1
 <2> QED BY <1>1, <2>1 DEF HeapMessage
<1>3. Bare(m) = Bare(ms[k])
 <2>1. Without(Append(ms[k].content, Mark)) = Without(ms[k].content) BY <1>1, WithoutAppend
 <2> QED BY <1>1, <2>1 DEF Bare, HeapMessage
<1>4. Written(ms, k) = [ms EXCEPT ![k] = m] BY DEF Written
<1> HIDE DEF m
<1>5. /\ Written(ms, k) \in Seq(HeapMessage) /\ Len(Written(ms, k)) = Len(ms)
      /\ \A j \in 1..Len(ms) : Written(ms, k)[j] = IF j = k THEN m ELSE ms[j]
  BY <1>2, <1>4, ExceptSeq
<1>6. \A j \in 1..Len(ms) : WithoutForeign(Written(ms, k))[j] = WithoutForeign(ms)[j]
 <2> TAKE j \in 1..Len(ms)
 <2>1. WithoutForeign(Written(ms, k))[j] = Bare(Written(ms, k)[j]) BY <1>5, WithoutForeignAt
 <2>2. WithoutForeign(ms)[j] = Bare(ms[j]) BY WithoutForeignAt
 <2> QED BY <1>3, <1>5, <2>1, <2>2
<1> QED BY <1>5, <1>6, WithoutForeignAt, SeqEqual

----------------------------------------
\* The types of what came of the attempts.
OutcomeKinds == {"error", "done", "validation", "toolcall", "valid"}
OutcomeType  == [kind : OutcomeKinds, content : Seq(NativePart), results : Seq(NativePart),
                 raw : BOOLEAN]

----------------------------------------
\* What is made of parts stays in the types.
Those(s, B) == FlattenSeq([i \in DOMAIN s |-> IF s[i] \in B THEN <<s[i]>> ELSE <<>>])

LEMMA ThoseType ==
    ASSUME NEW S, NEW B \in SUBSET S, NEW s \in Seq(S)
    PROVE  Those(s, B) \in Seq(B)
<1> DEFINE one(i) == IF s[i] \in B THEN <<s[i]>> ELSE <<>>
<1>1. ASSUME NEW i \in 1..Len(s) PROVE one(i) \in Seq(B)
 <2>1. CASE s[i] \in B BY <2>1
 <2>2. CASE s[i] \notin B BY <2>2
 <2> QED BY <2>1, <2>2
<1>2. Len(s) \in Nat /\ DOMAIN s = 1..Len(s) OBVIOUS
<1>3. [i \in DOMAIN s |-> one(i)] \in Seq(Seq(B))
 <2> HIDE DEF one
 <2> QED BY <1>1, <1>2
<1>4. Those(s, B) = FlattenSeq([i \in DOMAIN s |-> one(i)]) BY DEF Those
<1> HIDE DEF one
<1> QED BY <1>3, <1>4, FlattenType

OfKind(S, k) == {p \in S : p.kind = k}

LEMMA KindIsThose ==
    ASSUME NEW S, NEW s \in Seq(S), NEW k
    PROVE  Kind(s, k) = Those(s, OfKind(S, k))
<1>1. \A i \in DOMAIN s : s[i].kind = k <=> s[i] \in OfKind(S, k) BY DEF OfKind
<1>2. [i \in DOMAIN s |-> IF s[i].kind = k THEN <<s[i]>> ELSE <<>>]
        = [i \in DOMAIN s |-> IF s[i] \in OfKind(S, k) THEN <<s[i]>> ELSE <<>>]
  BY <1>1
<1> QED BY <1>2 DEF Kind, Where, Those

LEMMA KindType ==
    ASSUME NEW S, NEW s \in Seq(S), NEW k
    PROVE  Kind(s, k) \in Seq(OfKind(S, k))
<1>1. OfKind(S, k) \in SUBSET S BY DEF OfKind
<1> QED BY <1>1, KindIsThose, ThoseType

\* The arguments that a provider takes.
FitArgs(who) == IF who = "openai" THEN Args \ {"malformed"} ELSE {"", "{}", "object"}

\* What a provider sends, and what is made of it: a call has arguments that the
\* provider takes back, or that are no JSON.
Spoken          == {p \in TextPart(Native) : p.cache = "unset"}
CallOf(who)     == {c \in ToolCallPart : c.cache = "unset" /\ c.args \in FitArgs(who) \cup {"malformed"}}
AnswerPart(who) == Spoken \cup CallOf(who)
RawPart(who)    == AnswerPart(who) \cup ReasoningPart(Native)

LEMMA AnswerIsNative ==
    ASSUME NEW who
    PROVE  /\ AnswerPart(who) \subseteq NativePart /\ RawPart(who) \subseteq NativePart
           /\ Seq(AnswerPart(who)) \subseteq Seq(NativePart)
           /\ Seq(RawPart(who)) \subseteq Seq(NativePart)
           /\ \A p \in RawPart(who) : p.kind = "call" => p \in CallOf(who)
<1>1. AnswerPart(who) \subseteq NativePart /\ RawPart(who) \subseteq NativePart
  BY DEF RawPart, AnswerPart, Spoken, CallOf, NativePart, ContentPart
<1>2. \A p \in RawPart(who) : p.kind = "call" => p \in CallOf(who)
  BY DEF RawPart, AnswerPart, Spoken, TextPart, ReasoningPart
<1> QED BY <1>1, <1>2

LEMMA KindsOfPart ==
    /\ \A p \in NativePart : p.kind = "text" => p \in TextPart(Native)
    /\ \A p \in NativePart : p.kind = "call" => p \in ToolCallPart
    /\ \A p \in NativePart : p.kind = "result" => p \in ToolResultPart(Native)
  BY DEF NativePart, ContentPart, TextPart, MediaPart, ReasoningPart, ToolCallPart,
         ToolResultPart

LEMMA TextType ==
    ASSUME NEW t \in Seq(Native)
    PROVE  Text(t) \in TextPart(Native) /\ Text(t) \in Spoken
  BY DEF Text, TextPart, Spoken, Caches

LEMMA JoinedType ==
    ASSUME NEW parts \in Seq(NativePart)
    PROVE  TextFromParts(parts) \in Seq(Native) /\ Joined(parts) \in Seq(Spoken)
<1> DEFINE texts == Kind(parts, "text")
<1>1. texts \in Seq(OfKind(NativePart, "text")) BY KindType
<1>2. \A i \in 1..Len(texts) : texts[i].text \in Seq(Native)
 <2> SUFFICES ASSUME NEW i \in 1..Len(texts) PROVE texts[i].text \in Seq(Native) OBVIOUS
 <2>1. texts[i] \in OfKind(NativePart, "text") BY <1>1, ElementOfSeq
 <2>2. texts[i] \in TextPart(Native) BY <2>1, KindsOfPart DEF OfKind
 <2> QED BY <2>2 DEF TextPart
<1>3. [i \in 1..Len(texts) |-> texts[i].text] \in Seq(Seq(Native))
 <2>1. Len(texts) \in Nat BY <1>1
 <2> HIDE DEF texts
 <2> QED BY <1>2, <2>1
<1>4. TextFromParts(parts) = FlattenSeq([i \in 1..Len(texts) |-> texts[i].text])
  BY DEF TextFromParts
<1>5. TextFromParts(parts) \in Seq(Native)
 <2> HIDE DEF texts
 <2> QED BY <1>3, <1>4, FlattenType
<1> QED BY <1>5, TextType DEF Joined

LEMMA AtomTypes ==
    /\ \A n \in Nat, t \in Words : <<t, n>> \in Native
    /\ \A n, i \in Nat : <<"output", n, i>> \in Native
    /\ \A a \in Args : <<a, 0>> \in Native
<1>1. ASSUME NEW n \in Nat, NEW t \in Strings, t # "foreign"
      PROVE  <<t, n>> \in Native
 <2>1. <<t, n>> \in Atom BY DEF Atom
 <2>2. <<t, n>> # Foreign BY <1>1 DEF Foreign
 <2> QED BY <2>1, <2>2 DEF Native
<1>2. ASSUME NEW n \in Nat, NEW i \in Nat
      PROVE  <<"output", n, i>> \in Native
 <2>1. <<"output", n, i>> \in Atom BY StringsAssumption DEF Words, Atom
 <2>2. <<"output", n, i>> # Foreign
  <3>1. <<"output", n, i>>[1] # Foreign[1] BY DEF Foreign
  <3> QED BY <3>1
 <2> QED BY <2>1, <2>2 DEF Native
<1>3. \A a \in Args \cup Words : a \in Strings /\ a # "foreign" BY StringsAssumption DEF Args, Words
<1>4. 0 \in Nat /\ "output" \in Strings BY StringsAssumption DEF Words
<1> QED BY <1>1, <1>2, <1>3, <1>4

LEMMA CallType ==
    ASSUME NEW who, NEW id \in Id, NEW name \in Strings, NEW args \in FitArgs(who) \cup {"malformed"}
    PROVE  Call(id, name, args) \in CallOf(who)
<1>1. args \in Args BY DEF FitArgs, Args
<1> QED BY <1>1 DEF Call, CallOf, ToolCallPart, Caches

LEMMA ResultType ==
    ASSUME NEW c \in ToolCallPart, NEW a \in Native, NEW isError \in BOOLEAN
    PROVE  newToolResultPart(c.id, c.name, <<a>>, isError) \in NativePart
<1>1. Text(<<a>>) \in TextPart(Native)
 <2>1. <<a>> \in Seq(Native) OBVIOUS
 <2> QED BY <2>1, TextType
<1>2. <<Text(<<a>>)>> \in Seq(TextPart(Native) \cup MediaPart \cup ReasoningPart(Native)) BY <1>1
<1>3. newToolResultPart(c.id, c.name, <<a>>, isError) \in ToolResultPart(Native)
  BY <1>2 DEF newToolResultPart, Result, ToolResultPart, ToolCallPart, Caches
<1> QED BY <1>3 DEF NativePart, ContentPart

LEMMA CallsType ==
    ASSUME NEW content \in Seq(NativePart)
    PROVE  toolCallsFromContent(content) \in Seq(ToolCallPart)
<1>1. toolCallsFromContent(content) \in Seq(OfKind(NativePart, "call"))
  BY KindType DEF toolCallsFromContent
<1>2. OfKind(NativePart, "call") \subseteq ToolCallPart BY KindsOfPart DEF OfKind
<1> QED BY <1>1, <1>2

LEMMA ResultsType ==
    ASSUME NEW calls \in Seq(ToolCallPart), NEW invalid, log \in Seq(OutcomeType)
    PROVE  /\ toolValidationResults(calls, invalid) \in Seq(NativePart)
           /\ ToolOutput(calls) \in Seq(NativePart)
<1>1. \A i \in 1..Len(calls) : calls[i] \in ToolCallPart OBVIOUS
<1>2. /\ Len(calls) \in Nat /\ DOMAIN calls = 1..Len(calls)
      /\ attempt \in Nat
      /\ <<"invalid", 0>> \in Native /\ <<"not executed", 0>> \in Native
      /\ \A i \in 1..Len(calls) : <<"output", attempt, i>> \in Native
 <2>1. attempt \in Nat BY DEF attempt
 <2>2. \A i \in 1..Len(calls) : i \in Nat OBVIOUS
 <2>3. Len(calls) \in Nat /\ DOMAIN calls = 1..Len(calls) /\ 0 \in Nat OBVIOUS
 <2>4. "invalid" \in Words /\ "not executed" \in Words BY DEF Words
 <2> QED BY <2>1, <2>2, <2>3, <2>4, AtomTypes
<1>3. \A i \in 1..Len(calls) :
          newToolResultPart(calls[i].id, calls[i].name,
                            IF i \in invalid THEN << <<"invalid", 0>> >>
                                             ELSE << <<"not executed", 0>> >>, TRUE)
            \in NativePart
  BY <1>1, <1>2, ResultType
<1>4. \A i \in 1..Len(calls) :
          newToolResultPart(calls[i].id, calls[i].name, << <<"output", attempt, i>> >>, FALSE)
            \in NativePart
  BY <1>1, <1>2, ResultType
<1> DEFINE refused(i) ==
              newToolResultPart(calls[i].id, calls[i].name,
                                IF i \in invalid THEN << <<"invalid", 0>> >>
                                                 ELSE << <<"not executed", 0>> >>, TRUE)
           output(i) ==
              newToolResultPart(calls[i].id, calls[i].name, << <<"output", attempt, i>> >>, FALSE)
<1>5. /\ toolValidationResults(calls, invalid) = [i \in 1..Len(calls) |-> refused(i)]
      /\ ToolOutput(calls) = [i \in 1..Len(calls) |-> output(i)]
  BY <1>2 DEF toolValidationResults, ToolOutput
<1>6. \A i \in 1..Len(calls) : refused(i) \in NativePart /\ output(i) \in NativePart BY <1>3, <1>4
<1>7. Len(calls) \in Nat BY <1>2
<1> HIDE DEF refused, output
<1>8. [i \in 1..Len(calls) |-> refused(i)] \in Seq(NativePart) BY <1>6, <1>7
<1>9. [i \in 1..Len(calls) |-> output(i)] \in Seq(NativePart) BY <1>6, <1>7
<1> QED BY <1>5, <1>8, <1>9

LEMMA Triple ==
    ASSUME NEW S, NEW a \in S, NEW b \in S, NEW c \in S
    PROVE  <<a, b, c>> \in Seq(S)
<1>1. <<a, b, c>> \in [1..3 -> S] OBVIOUS
<1> QED BY <1>1

\* What a provider sends: answers that are put together from these parts.
LEMMA RawAnswersAre ==
    ASSUME NEW Part, Text(<< <<"answer", attempt>> >>) \in Part,
           Reasoning(<< <<"thought", attempt>> >>) \in Part,
           \A i \in {1, 2}, args \in FitArgs(provider) \cup {"malformed"} :
              Call(CallId(i), "search", args) \in Part,
           provider = "anthropic" => Call(CallId(1), outputFormatToolName, "object") \in Part,
           NEW raw \in RawAnswers
    PROVE  raw \in Seq(Part)
<1> DEFINE Takes   == FitArgs(provider) \cup {"malformed"}
           text    == Text(<< <<"answer", attempt>> >>)
           thought == Reasoning(<< <<"thought", attempt>> >>)
           call(i, args) == Call(CallId(i), "search", args)
           calls   == {<<call(1, a)>> : a \in RawArgs} \cup {<<call(1, "object"), call(2, "object")>>}
           common  == {<<>>, <<text>>} \cup calls \cup {<<text>> \o c : c \in calls}
           format  == Call(CallId(1), outputFormatToolName, "object")
           shown   == {<<thought, text, call(1, "object")>>, <<call(1, "object"), text, call(2, "")>>,
                       <<format>>, <<text, format>>}
<1>1. RawArgs \subseteq Takes /\ "object" \in Takes /\ "" \in Takes BY DEF RawArgs, FitArgs, Args
<1>2. raw \in common \/ (provider = "anthropic" /\ raw \in shown) BY DEF RawAnswers
<1>3. text \in Part /\ thought \in Part /\ (provider = "anthropic" => format \in Part)
      /\ \A i \in {1, 2}, args \in Takes : call(i, args) \in Part
  OBVIOUS
<1> HIDE DEF text, thought, call, format, Takes
<1>4. calls \subseteq Seq(Part)
 <2>1. \A a \in RawArgs : <<call(1, a)>> \in Seq(Part)
  <3>1. \A a \in RawArgs : call(1, a) \in Part BY <1>1, <1>3
  <3> QED BY <3>1
 <2>2. <<call(1, "object"), call(2, "object")>> \in Seq(Part)
  <3>1. call(1, "object") \in Part /\ call(2, "object") \in Part BY <1>1, <1>3
  <3> QED BY <3>1
 <2> QED BY <2>1, <2>2
<1>5. common \subseteq Seq(Part)
 <2> HIDE DEF calls
 <2>1. \A c \in calls : <<text>> \o c \in Seq(Part) BY <1>3, <1>4
 <2>2. <<text>> \in Seq(Part) /\ <<>> \in Seq(Part) BY <1>3
 <2> QED BY <1>4, <2>1, <2>2
<1>6. provider = "anthropic" => shown \subseteq Seq(Part)
 <2>1. call(1, "object") \in Part /\ call(2, "") \in Part BY <1>1, <1>3
 <2>2. <<thought, text, call(1, "object")>> \in Seq(Part) BY <1>3, <2>1, Triple
 <2>3. <<call(1, "object"), text, call(2, "")>> \in Seq(Part) BY <1>3, <2>1, Triple
 <2>4. provider = "anthropic" => <<format>> \in Seq(Part) /\ <<text, format>> \in Seq(Part) BY <1>3
 <2> QED BY <2>2, <2>3, <2>4
<1> QED BY <1>2, <1>5, <1>6

LEMMA RawPartsType ==
    ASSUME log \in Seq(OutcomeType)
    PROVE  /\ Text(<< <<"answer", attempt>> >>) \in RawPart(provider)
           /\ Reasoning(<< <<"thought", attempt>> >>) \in RawPart(provider)
           /\ \A i \in {1, 2}, args \in FitArgs(provider) \cup {"malformed"} :
                 Call(CallId(i), "search", args) \in RawPart(provider)
           /\ Call(CallId(1), outputFormatToolName, "object") \in RawPart(provider)
<1>1. attempt \in Nat BY DEF attempt
<1>2. "search" \in Strings /\ outputFormatToolName \in Strings /\ "object" \in FitArgs(provider)
  BY StringsAssumption DEF outputFormatToolName, FitArgs, Args
<1>3. \A i \in Nat : CallId(i) \in Id
 <2>1. "id" \in Strings BY StringsAssumption DEF Words
 <2> QED BY <1>1, <2>1 DEF CallId, Id
<1>4. /\ Text(<< <<"answer", attempt>> >>) \in RawPart(provider)
      /\ Reasoning(<< <<"thought", attempt>> >>) \in RawPart(provider)
 <2>1. "answer" \in Words /\ "thought" \in Words BY DEF Words
 <2>2. << <<"answer", attempt>> >> \in Seq(Native) /\ << <<"thought", attempt>> >> \in Seq(Native)
   BY <1>1, <2>1, AtomTypes
 <2> QED BY <2>2, TextType DEF RawPart, AnswerPart, Reasoning, ReasoningPart, Caches
<1>5. \A i \in {1, 2}, args \in FitArgs(provider) \cup {"malformed"} :
          Call(CallId(i), "search", args) \in RawPart(provider)
  BY <1>2, <1>3, CallType DEF RawPart, AnswerPart
<1>6. Call(CallId(1), outputFormatToolName, "object") \in RawPart(provider)
  BY <1>2, <1>3, CallType DEF RawPart, AnswerPart
<1> QED BY <1>4, <1>5, <1>6

LEMMA RawAnswersType ==
    ASSUME log \in Seq(OutcomeType), NEW raw \in RawAnswers
    PROVE  raw \in Seq(RawPart(provider))
  BY RawPartsType, RawAnswersAre

LEMMA CallWithArgs ==
    ASSUME NEW who, NEW c \in CallOf(who)
    PROVE  OrEmptyObject(c) \in CallOf(who) /\ OrEmptyObject(c).args \in Args
<1>1. "{}" \in FitArgs(who) /\ "{}" \in Args BY DEF FitArgs, Args
<1> QED BY <1>1 DEF OrEmptyObject, CallOf, ToolCallPart

LEMMA RawKinds ==
    ASSUME NEW who, NEW blocks \in Seq(RawPart(who))
    PROVE  /\ Joined(blocks) \in Seq(AnswerPart(who))
           /\ Kind(blocks, "call") \in Seq(AnswerPart(who))
           /\ WithArgs(Kind(blocks, "call")) \in Seq(AnswerPart(who))
<1>1. blocks \in Seq(NativePart) BY AnswerIsNative
<1>2. Joined(blocks) \in Seq(AnswerPart(who)) BY <1>1, JoinedType DEF AnswerPart
<1> DEFINE calls == Kind(blocks, "call")
<1>3. calls \in Seq(CallOf(who))
 <2>1. calls \in Seq(OfKind(RawPart(who), "call")) BY KindType
 <2>2. OfKind(RawPart(who), "call") \subseteq CallOf(who) BY AnswerIsNative DEF OfKind
 <2> HIDE DEF calls
 <2> QED BY <2>1, <2>2
<1>4. WithArgs(calls) \in Seq(CallOf(who))
 <2>1. \A i \in 1..Len(calls) : OrEmptyObject(calls[i]) \in CallOf(who)
   BY <1>3, CallWithArgs, ElementOfSeq
 <2>2. DOMAIN calls = 1..Len(calls) /\ Len(calls) \in Nat BY <1>3
 <2> HIDE DEF calls
 <2> QED BY <2>1, <2>2 DEF WithArgs
<1> QED BY <1>2, <1>3, <1>4 DEF AnswerPart

LEMMA ParsedType ==
    ASSUME NEW who \in Providers, NEW blocks \in Seq(RawPart(who))
    PROVE  ParseResponse(who, blocks).out \in Seq(AnswerPart(who))
<1>1. \A content \in Seq(AnswerPart(who)) : Response(content).out \in Seq(AnswerPart(who))
  BY DEF Response, Ok, Fail
<1>2. /\ openaiParseResponse(blocks).out \in Seq(AnswerPart(who))
      /\ geminiParseResponse(blocks).out \in Seq(AnswerPart(who))
      /\ ollamaParseResponse(blocks).out \in Seq(AnswerPart(who))
 <2>1. /\ Joined(blocks) \o Kind(blocks, "call") \in Seq(AnswerPart(who))
       /\ Joined(blocks) \o WithArgs(Kind(blocks, "call")) \in Seq(AnswerPart(who))
   BY RawKinds, ConcatProperties
 <2> QED BY <1>1, <2>1 DEF openaiParseResponse, geminiParseResponse, ollamaParseResponse
<1>3. anthropicParseResponse(blocks).out \in Seq(AnswerPart(who))
 <2> DEFINE read(b) ==
       CASE b.kind = "text" -> Joined(<<b>>)
         [] b.kind = "call" /\ b.name = outputFormatToolName ->
               <<Text(<< <<OrEmptyObject(b).args, 0>> >>)>>
         [] b.kind = "call" /\ b.name # outputFormatToolName -> <<OrEmptyObject(b)>>
         [] OTHER -> <<>>
 <2>1. ASSUME NEW b \in RawPart(who) PROVE read(b) \in Seq(AnswerPart(who))
  <3>1. CASE b.kind = "text"
   <4>1. Joined(<<b>>) \in Seq(AnswerPart(who))
    <5>1. <<b>> \in Seq(RawPart(who)) OBVIOUS
    <5> QED BY <5>1, RawKinds
   <4> QED BY <3>1, <4>1
  <3>2. CASE b.kind = "call"
   <4>1. b \in CallOf(who) BY <3>2, AnswerIsNative
   <4>2. OrEmptyObject(b) \in CallOf(who) /\ OrEmptyObject(b).args \in Args BY <4>1, CallWithArgs
   <4>3. Text(<< <<OrEmptyObject(b).args, 0>> >>) \in AnswerPart(who)
    <5>1. << <<OrEmptyObject(b).args, 0>> >> \in Seq(Native) BY <4>2, AtomTypes
    <5> QED BY <5>1, TextType DEF AnswerPart
   <4>4. OrEmptyObject(b) \in AnswerPart(who) BY <4>2 DEF AnswerPart
   <4> HIDE DEF read
   <4>5. CASE b.name = outputFormatToolName BY <3>2, <4>3, <4>5 DEF read
   <4>6. CASE b.name # outputFormatToolName BY <3>2, <4>4, <4>6 DEF read
   <4> QED BY <4>5, <4>6
  <3>3. CASE b.kind # "text" /\ b.kind # "call" BY <3>3
  <3> QED BY <3>1, <3>2, <3>3
 <2>2. [i \in DOMAIN blocks |-> read(blocks[i])] \in Seq(Seq(AnswerPart(who)))
  <3>1. \A i \in 1..Len(blocks) : read(blocks[i]) \in Seq(AnswerPart(who))
   <4> HIDE DEF read
   <4> QED BY <2>1
  <3>2. DOMAIN blocks = 1..Len(blocks) /\ Len(blocks) \in Nat OBVIOUS
  <3> HIDE DEF read
  <3> QED BY <3>1, <3>2
 <2>3. anthropicParseResponse(blocks)
         = Response(FlattenSeq([i \in DOMAIN blocks |-> read(blocks[i])]))
   BY DEF anthropicParseResponse
 <2> HIDE DEF read
 <2> QED BY <1>1, <2>2, <2>3, FlattenType
<1> QED BY <1>2, <1>3 DEF ParseResponse, Providers

----------------------------------------
\* The history grows by what an attempt leaves.
LEMMA MessageTypes ==
    /\ \A content \in Seq(NativePart) :
          /\ Message("assistant", content) \in NativeMessage
          /\ Message("tool", content) \in NativeMessage
    /\ \A n \in Nat : Feedback(n) \in NativeMessage
<1>1. \A role \in Roles, content \in Seq(NativePart) : Message(role, content) \in NativeMessage
  BY StringsAssumption DEF Message, NativeMessage, ChatMessage, NativePart, Caches
<1>2. {"assistant", "tool", "user"} \subseteq Roles BY DEF Roles
<1>3. ASSUME NEW n \in Nat PROVE <<Text(<< <<"feedback", n>> >>)>> \in Seq(NativePart)
 <2>1. << <<"feedback", n>> >> \in Seq(Native)
  <3>1. "feedback" \in Words BY DEF Words
  <3>2. <<"feedback", n>> \in Native BY <3>1, AtomTypes
  <3> QED BY <3>2
 <2>2. Text(<< <<"feedback", n>> >>) \in NativePart BY <2>1, TextType DEF NativePart, ContentPart
 <2> QED BY <2>2
<1> QED BY <1>1, <1>2, <1>3 DEF Feedback, NewUserMessage

LEMMA TraceType ==
    ASSUME NEW n \in Nat, NEW o \in OutcomeType
    PROVE  Trace(n, o) \in Seq(NativeMessage)
<1> DEFINE raw == IF o.raw THEN <<Message("assistant", o.content)>> ELSE <<>>
<1>1. o.content \in Seq(NativePart) /\ o.results \in Seq(NativePart) BY DEF OutcomeType
<1>2. raw \in Seq(NativeMessage) BY <1>1, MessageTypes
<1>3. Append(raw, Feedback(n)) \in Seq(NativeMessage) BY <1>2, MessageTypes
<1>4. Append(raw, Message("tool", o.results)) \in Seq(NativeMessage) BY <1>1, <1>2, MessageTypes
<1>5. raw \o ToolMessage(o.results) \in Seq(NativeMessage)
 <2>1. ToolMessage(o.results) \in Seq(NativeMessage)
   BY <1>1, MessageTypes DEF ToolMessage, newToolMessageWithContent
 <2> QED BY <1>2, <2>1
<1> HIDE DEF raw
<1> QED BY <1>3, <1>4, <1>5 DEF Trace, raw

LEMMA TracesType ==
    ASSUME log \in Seq(OutcomeType)
    PROVE  [n \in DOMAIN log |-> Trace(n, log[n])] \in Seq(Seq(NativeMessage))
<1>1. \A n \in 1..Len(log) : n \in Nat /\ log[n] \in OutcomeType OBVIOUS
<1>2. \A n \in 1..Len(log) : Trace(n, log[n]) \in Seq(NativeMessage) BY <1>1, TraceType
<1>3. DOMAIN log = 1..Len(log) /\ Len(log) \in Nat OBVIOUS
<1> QED BY <1>2, <1>3

LEMMA HistoryType ==
    ASSUME prompt \in Seq(NativeMessage), log \in Seq(OutcomeType)
    PROVE  History \in Seq(NativeMessage)
<1>1. FlattenSeq([n \in DOMAIN log |-> Trace(n, log[n])]) \in Seq(NativeMessage)
  BY TracesType, FlattenType
<1> QED BY <1>1, ConcatProperties DEF History

LEMMA HistoryGrows ==
    ASSUME prompt \in Seq(NativeMessage), log \in Seq(OutcomeType),
           prompt' = prompt, NEW o \in OutcomeType, log' = Append(log, o)
    PROVE  History' = History \o Trace(attempt, o)
<1> DEFINE traces == [n \in DOMAIN log |-> Trace(n, log[n])]
<1>1. traces \in Seq(Seq(NativeMessage)) /\ attempt \in Nat /\ attempt = Len(log) + 1
  BY TracesType DEF attempt
<1>2. Trace(attempt, o) \in Seq(NativeMessage) BY <1>1, TraceType
<1>3. [n \in DOMAIN log' |-> Trace(n, log'[n])] = Append(traces, Trace(attempt, o))
 <2>1. /\ DOMAIN log' = 1..Len(log) + 1 /\ Len(log) \in Nat /\ DOMAIN log = 1..Len(log)
       /\ \A n \in 1..Len(log) : log'[n] = log[n]
       /\ log'[Len(log) + 1] = o
   OBVIOUS
 <2>2. Len(traces) = Len(log) BY <2>1
 <2> DEFINE more == Append(traces, Trace(attempt, o))
 <2>3. /\ DOMAIN more = 1..Len(log) + 1
       /\ \A n \in 1..Len(log) : more[n] = traces[n]
       /\ more[Len(log) + 1] = Trace(attempt, o)
  <3> HIDE DEF traces
  <3> QED BY <1>1, <1>2, <2>2
 <2>4. \A n \in 1..Len(log) + 1 : Trace(n, log'[n]) = more[n]
  <3>1. \A n \in 1..Len(log) : traces[n] = Trace(n, log[n]) BY <2>1
  <3>2. \A n \in 1..Len(log) + 1 : n \in 1..Len(log) \/ n = Len(log) + 1 BY <2>1
  <3> HIDE DEF traces, more
  <3> QED BY <1>1, <2>1, <2>3, <3>1, <3>2
 <2>5. more = [n \in 1..Len(log) + 1 |-> more[n]]
  <3>1. more \in Seq(Seq(NativeMessage)) BY <1>1, <1>2
  <3> HIDE DEF more
  <3> QED BY <2>3, <3>1
 <2> HIDE DEF traces, more
 <2> QED BY <2>1, <2>4, <2>5 DEF more
<1>4. FlattenSeq(Append(traces, Trace(attempt, o))) = FlattenSeq(traces) \o Trace(attempt, o)
 <2> HIDE DEF traces
 <2> QED BY <1>1, <1>2, FlattenAppend
<1>5. FlattenSeq(traces) \in Seq(NativeMessage)
 <2> HIDE DEF traces
 <2> QED BY <1>1, FlattenType
<1>6. History' = prompt \o (FlattenSeq(traces) \o Trace(attempt, o))
 <2>1. History' = prompt \o FlattenSeq([n \in DOMAIN log' |-> Trace(n, log'[n])]) BY DEF History
 <2> HIDE DEF traces
 <2> QED BY <1>3, <1>4, <2>1
<1>7. History = prompt \o FlattenSeq(traces) BY DEF History
<1> HIDE DEF traces
<1> QED BY <1>2, <1>5, <1>6, <1>7, ConcatAssociative

----------------------------------------
TypeInv ==
    /\ provider \in Providers
    /\ plan \in Plans
    /\ prompt = plan.messages
    /\ heap \in Seq(Seq(HeapMessage))
    /\ workExec \in 1..Len(heap)
    /\ request \in 0..Len(heap)
    /\ pc \in {"idle", "waiting"}
    /\ pc = "waiting" => request # NoRequest
    /\ log \in Seq(OutcomeType)
    /\ scribbles \in Nat

\* The invariant.  NewStructuredExecutor has a working copy that neither its caller nor
\* its invoker holds.  The conversation is the prompt with the corrections once what
\* others wrote is left out, and so is every request, which ExecuteWithToolValidation
\* gives back.
HistoryInv ==
    /\ plan.api = "execute" => workExec = exec
    /\ plan.api = "structured" => /\ workExec \notin {exec, request}
                                  /\ heap[workExec] = History
    /\ WithoutForeign(heap[workExec]) = History
    /\ pc = "waiting" => WithoutForeign(heap[request]) = History

LEMMA PlanTypes ==
    ASSUME plan \in Plans
    PROVE  plan.messages \in Seq(NativeMessage) /\ plan.api \in Apis
  BY PlansAssumption DEF NativeMessage

LEMMA InitInv == Init => TypeInv /\ HistoryInv
<1> SUFFICES ASSUME Init PROVE TypeInv /\ HistoryInv OBVIOUS
<1> USE DEF Init, StartWith
<1>1. prompt \in Seq(NativeMessage) /\ prompt \in Seq(HeapMessage) /\ plan.api \in Apis
  BY PlanTypes, NativeIsHeap
<1>2. log = <<>> /\ History = prompt
 <2>1. [n \in DOMAIN <<>> |-> Trace(n, <<>>[n])] = <<>> OBVIOUS
 <2> QED BY <1>1, <2>1, FlattenEmpty DEF History
<1>3. heap \in Seq(Seq(HeapMessage)) /\ workExec \in 1..Len(heap) /\ heap[workExec] = prompt BY <1>1
<1>4. TypeInv BY <1>3 DEF TypeInv, NoRequest
<1>5. plan.api = "structured" => workExec = 2 BY <1>1
<1>6. plan.api # "structured" => workExec = 1 BY <1>1
<1>7. WithoutForeign(prompt) = prompt BY <1>1, WithoutForeignNative
<1> QED BY <1>2, <1>3, <1>4, <1>5, <1>6, <1>7 DEF HistoryInv, exec, NoRequest

LEMMA TypeFacts ==
    ASSUME TypeInv
    PROVE  /\ prompt \in Seq(NativeMessage) /\ History \in Seq(NativeMessage)
           /\ Len(heap) \in Nat /\ exec \in 1..Len(heap)
           /\ \A p \in 1..Len(heap) : heap[p] \in Seq(HeapMessage)
           /\ attempt \in Nat
           /\ plan.api \in Apis
           /\ DOMAIN log = 1..Len(log) /\ Len(log) \in Nat
           /\ \A n \in 1..Len(log) : n \in Nat /\ log[n] \in OutcomeType
<1>1. prompt \in Seq(NativeMessage) /\ plan.api \in Apis BY PlanTypes DEF TypeInv
<1>2. History \in Seq(NativeMessage) BY <1>1, HistoryType DEF TypeInv
<1>3. Len(heap) \in Nat /\ exec \in 1..Len(heap) BY DEF TypeInv, exec
<1>4. \A p \in 1..Len(heap) : heap[p] \in Seq(HeapMessage) BY DEF TypeInv
<1>5. attempt \in Nat BY DEF TypeInv, attempt
<1>6. log \in Seq(OutcomeType) BY DEF TypeInv
<1>7. /\ DOMAIN log = 1..Len(log) /\ Len(log) \in Nat
      /\ \A n \in 1..Len(log) : n \in Nat /\ log[n] \in OutcomeType
  BY <1>6, ElementOfSeq
<1> QED BY <1>1, <1>2, <1>3, <1>4, <1>5, <1>7

\* An attempt that ends without a correction.
LEMMA NothingAdded ==
    ASSUME TypeInv, HistoryInv, UNCHANGED clientVars, NEW kind \in {"error", "done"},
           Conclude(Quiet(kind)), UNCHANGED <<heap, workExec>>
    PROVE  TypeInv' /\ HistoryInv'
<1>1. Quiet(kind) \in OutcomeType BY DEF Quiet, Outcome, OutcomeType, OutcomeKinds
<1>2. TypeInv' BY <1>1 DEF TypeInv, Conclude, clientVars
<1>3. Trace(attempt, Quiet(kind)) = <<>> BY DEF Trace, Quiet, Outcome
<1>4. History' = History \o Trace(attempt, Quiet(kind))
 <2>1. prompt \in Seq(NativeMessage) /\ log \in Seq(OutcomeType) /\ prompt' = prompt
       /\ log' = Append(log, Quiet(kind))
   BY TypeFacts DEF TypeInv, Conclude
 <2> QED BY <1>1, <2>1, HistoryGrows
<1>5. History' = History BY <1>3, <1>4, TypeFacts
<1>6. HistoryInv' BY <1>5 DEF HistoryInv, Conclude, clientVars, WithoutForeign, exec
<1> QED BY <1>2, <1>6

\* A correction goes to a new object: of the working copy, or of the request
\* that the caller gets back.
LEMMA TraceAdded ==
    ASSUME TypeInv, HistoryInv, UNCHANGED clientVars, pc = "waiting", plan.api # "execute",
           NEW o \in OutcomeType,
           AddMessages(IF plan.api = "structured" THEN workExec ELSE request, Trace(attempt, o)),
           Conclude(o)
    PROVE  TypeInv' /\ HistoryInv'
<1> DEFINE p == IF plan.api = "structured" THEN workExec ELSE request
           trace == Trace(attempt, o)
<1>1. p \in 1..Len(heap) /\ heap[p] \in Seq(HeapMessage)
 <2>1. p \in 1..Len(heap) BY DEF TypeInv, NoRequest
 <2> HIDE DEF p
 <2> QED BY <2>1, TypeFacts
<1>2. trace \in Seq(NativeMessage) /\ trace \in Seq(HeapMessage)
  BY TypeFacts, TraceType, NativeIsHeap
<1>3. History' = History \o trace
 <2>1. prompt \in Seq(NativeMessage) /\ log \in Seq(OutcomeType) /\ prompt' = prompt
       /\ log' = Append(log, o)
   BY TypeFacts DEF TypeInv, Conclude
 <2> QED BY <2>1, HistoryGrows
<1>4. heap' = Append(heap, heap[p] \o trace) /\ workExec' = Len(heap) + 1
  BY DEF AddMessages, Alloc, NewObject
<1> HIDE DEF trace
<1>5. heap[p] \o trace \in Seq(HeapMessage)
 <2> HIDE DEF p
 <2> QED BY <1>1, <1>2
<1> DEFINE made == heap[p] \o trace
<1>6. /\ heap' \in Seq(Seq(HeapMessage)) /\ Len(heap') = Len(heap) + 1 /\ Len(heap) \in Nat
      /\ heap'[workExec'] = made
 <2>1. heap \in Seq(Seq(HeapMessage)) BY DEF TypeInv
 <2>2. made \in Seq(HeapMessage) BY <1>5
 <2>3. heap' = Append(heap, made) BY <1>4
 <2> HIDE DEF made
 <2> QED BY <1>4, <2>1, <2>2, <2>3
<1> HIDE DEF made
<1>7. TypeInv' BY <1>4, <1>6 DEF TypeInv, Conclude, clientVars
<1>8. workExec' \notin {exec, request'} /\ plan' = plan /\ pc' = "idle"
  BY <1>4, <1>6, TypeFacts DEF TypeInv, Conclude, clientVars
<1>9. plan.api = "structured" => heap'[workExec'] = History' BY <1>3, <1>6 DEF made, p, HistoryInv
<1>10. WithoutForeign(heap'[workExec']) = History'
 <2> SUFFICES WithoutForeign(made) = History' BY <1>6
 <2>1. WithoutForeign(heap[p]) = History BY DEF p, HistoryInv
 <2>2. WithoutForeign(made) = WithoutForeign(heap[p]) \o WithoutForeign(trace)
  <3> HIDE DEF p
  <3> QED BY <1>1, <1>2, WithoutForeignConcat DEF made
 <2>3. WithoutForeign(trace) = trace BY <1>2, WithoutForeignNative
 <2> QED BY <1>3, <2>1, <2>2, <2>3
<1>11. HistoryInv' BY <1>8, <1>9, <1>10 DEF HistoryInv, WithoutForeign
<1> QED BY <1>7, <1>11

\* The request is a new object, or the caller's own.
LEMMA AttemptStep ==
    ASSUME TypeInv, HistoryInv, UNCHANGED clientVars, Attempt(plan.api = "execute")
    PROVE  TypeInv' /\ HistoryInv'
<1>1. /\ pc' = "waiting" /\ prompt' = prompt /\ workExec' = workExec /\ log' = log
      /\ scribbles' = scribbles /\ plan' = plan /\ provider' = provider
  BY DEF Attempt, clientVars
<1>2. History' = History BY <1>1 DEF History
<1>3. CASE plan.api = "execute"
 <2>1. request' = exec /\ heap' = heap BY <1>3 DEF Attempt, Direct
 <2>2. TypeInv' BY <1>1, <2>1, TypeFacts DEF TypeInv, exec, NoRequest
 <2>3. HistoryInv' BY <1>1, <1>2, <1>3, <2>1 DEF HistoryInv, WithoutForeign, exec
 <2> QED BY <2>2, <2>3
<1>4. CASE plan.api # "execute"
 <2>1. heap' = Append(heap, heap[workExec]) /\ request' = Len(heap) + 1
   BY <1>4 DEF Attempt, Prepare, Alloc, NewObject
 <2>2. heap[workExec] \in Seq(HeapMessage) /\ workExec \in 1..Len(heap) /\ Len(heap) \in Nat
   BY TypeFacts DEF TypeInv
 <2>3. /\ heap' \in Seq(Seq(HeapMessage)) /\ Len(heap') = Len(heap) + 1
       /\ heap'[workExec] = heap[workExec] /\ heap'[request'] = heap[workExec]
  <3>1. heap \in Seq(Seq(HeapMessage)) BY DEF TypeInv
  <3> QED BY <2>1, <2>2, <3>1
 <2>4. TypeInv' BY <1>1, <2>1, <2>2, <2>3 DEF TypeInv, NoRequest
 <2>5. workExec # request' BY <2>1, <2>2
 <2>6. HistoryInv' BY <1>1, <1>2, <1>4, <2>3, <2>5 DEF HistoryInv, WithoutForeign, exec
 <2> QED BY <2>4, <2>6
<1> QED BY <1>3, <1>4

\* What others write does not reach the working copy, or is left out.
LEMMA ScribbleStep ==
    ASSUME TypeInv, HistoryInv, UNCHANGED clientVars, Scribble
    PROVE  TypeInv' /\ HistoryInv'
<1>1. /\ scribbles' = scribbles + 1 /\ prompt' = prompt /\ workExec' = workExec
      /\ request' = request /\ pc' = pc /\ log' = log /\ plan' = plan /\ provider' = provider
  BY DEF Scribble, clientVars
<1>2. PICK p \in {exec, request} \ {NoRequest} : \E k \in 1..Len(heap[p]) :
          heap' = [heap EXCEPT ![p][k].content = Append(@, Text(<<Foreign>>))]
  BY DEF Scribble
<1>3. p \in 1..Len(heap) BY TypeFacts DEF TypeInv, NoRequest
<1>4. heap[p] \in Seq(HeapMessage) /\ Len(heap) \in Nat BY <1>3, TypeFacts
<1>5. PICK k \in 1..Len(heap[p]) :
          heap' = [heap EXCEPT ![p][k].content = Append(@, Text(<<Foreign>>))]
  BY <1>2
<1>6. heap' = [heap EXCEPT ![p] = Written(heap[p], k)] BY <1>5 DEF Written, Mark
<1>7. /\ Written(heap[p], k) \in Seq(HeapMessage)
      /\ WithoutForeign(Written(heap[p], k)) = WithoutForeign(heap[p])
  BY <1>4, WithoutForeignWritten
<1>8. /\ heap' \in Seq(Seq(HeapMessage)) /\ Len(heap') = Len(heap)
      /\ \A q \in 1..Len(heap) : heap'[q] = IF q = p THEN Written(heap[p], k) ELSE heap[q]
 <2>1. heap \in Seq(Seq(HeapMessage)) BY DEF TypeInv
 <2> DEFINE w == Written(heap[p], k)
 <2>2. w \in Seq(HeapMessage) /\ heap' = [heap EXCEPT ![p] = w] BY <1>6, <1>7
 <2> HIDE DEF w
 <2>3. /\ heap' \in Seq(Seq(HeapMessage)) /\ Len(heap') = Len(heap)
       /\ \A q \in 1..Len(heap) : heap'[q] = IF q = p THEN w ELSE heap[q]
   BY <1>3, <2>1, <2>2, ExceptSeq
 <2> QED BY <2>3 DEF w
<1>9. TypeInv'
 <2>1. scribbles' \in Nat BY <1>1 DEF TypeInv
 <2> QED BY <1>1, <1>8, <2>1 DEF TypeInv
<1>10. History' = History BY <1>1 DEF History
<1>11. \A q \in 1..Len(heap) : WithoutForeign(heap'[q]) = WithoutForeign(heap[q])
 <2> TAKE q \in 1..Len(heap)
 <2>1. CASE q = p BY <1>7, <1>8, <2>1
 <2>2. CASE q # p BY <1>8, <2>2
 <2> QED BY <2>1, <2>2
<1>12. workExec \in 1..Len(heap) /\ (pc = "waiting" => request \in 1..Len(heap))
  BY DEF TypeInv, NoRequest
<1>13. plan.api = "structured" => p # workExec BY DEF HistoryInv
<1>14. HistoryInv'
 <2>1. plan.api = "structured" => heap'[workExec] = heap[workExec] BY <1>8, <1>12, <1>13
 <2>2. WithoutForeign(heap'[workExec]) = WithoutForeign(heap[workExec]) BY <1>11, <1>12
 <2>3. pc = "waiting" => WithoutForeign(heap'[request]) = WithoutForeign(heap[request])
   BY <1>11, <1>12
 <2> HIDE DEF WithoutForeign
 <2> QED BY <1>1, <1>10, <2>1, <2>2, <2>3 DEF HistoryInv, exec
<1> QED BY <1>9, <1>14

\* What the caller's side makes of an answer.
LEMMA JudgeStep ==
    ASSUME TypeInv, HistoryInv, UNCHANGED clientVars, pc = "waiting",
           NEW content \in Seq(NativePart), Judge(content)
    PROVE  TypeInv' /\ HistoryInv'
<1> DEFINE calls == toolCallsFromContent(content)
<1>1. calls \in Seq(ToolCallPart) BY CallsType
<1>2. /\ \A invalid : toolValidationResults(calls, invalid) \in Seq(NativePart)
      /\ ToolOutput(calls) \in Seq(NativePart)
 <2>1. log \in Seq(OutcomeType) BY DEF TypeInv
 <2> HIDE DEF calls
 <2> QED BY <1>1, <2>1, ResultsType
<1>3. ASSUME NoCorrection("done") PROVE TypeInv' /\ HistoryInv'
  BY <1>3, NothingAdded DEF NoCorrection
<1>4. ASSUME plan.api = "structured", ValidationFails(content, TRUE)
      PROVE  TypeInv' /\ HistoryInv'
 <2> DEFINE o == Outcome("validation", content, <<>>, TRUE)
 <2>1. o \in OutcomeType BY DEF Outcome, OutcomeType, OutcomeKinds
 <2>2. Append(RawMessage(content, TRUE), Feedback(attempt)) = Trace(attempt, o)
   BY DEF RawMessage, newAssistantMessageWithContent, Trace, Outcome
 <2>3. AddMessages(workExec, Trace(attempt, o)) /\ Conclude(o) BY <1>4, <2>2 DEF ValidationFails
 <2> HIDE DEF o
 <2> QED BY <1>4, <2>1, <2>3, TraceAdded
<1>5. ASSUME NEW invalid, NEW raw \in BOOLEAN, plan.api # "execute",
             ToolCallFails(IF plan.api = "structured" THEN workExec ELSE request,
                           content, invalid, raw)
      PROVE  TypeInv' /\ HistoryInv'
 <2> DEFINE results == toolValidationResults(calls, invalid)
            o == Outcome("toolcall", content, results, raw)
            p == IF plan.api = "structured" THEN workExec ELSE request
 <2>1. o \in OutcomeType
  <3>1. results \in Seq(NativePart) BY <1>2
  <3> HIDE DEF results
  <3> QED BY <3>1 DEF Outcome, OutcomeType, OutcomeKinds
 <2>2. Append(RawMessage(content, raw), newToolMessageWithContent(results)) = Trace(attempt, o)
   BY DEF RawMessage, newAssistantMessageWithContent, newToolMessageWithContent, Trace, Outcome
 <2>3. ToolCallFails(p, content, invalid, raw) BY <1>5
 <2>4. AddMessages(p, Trace(attempt, o)) /\ Conclude(o)
  <3>1. /\ AddMessages(p, Append(RawMessage(content, raw), newToolMessageWithContent(results)))
        /\ Conclude(o)
   <4> HIDE DEF p
   <4> QED BY <2>3 DEF ToolCallFails
  <3> HIDE DEF p, o, results
  <3> QED BY <2>2, <3>1
 <2> HIDE DEF o, results
 <2> QED BY <1>5, <2>1, <2>4, TraceAdded
<1>6. ASSUME plan.api = "tools", Answered(content, ToolOutput(calls))
      PROVE  TypeInv' /\ HistoryInv'
 <2> DEFINE results == ToolOutput(calls)
            o == Outcome("valid", content, results, TRUE)
 <2>1. results \in Seq(NativePart) BY <1>2
 <2>2. Answered(content, results) BY <1>6
 <2> HIDE DEF results
 <2>3. o \in OutcomeType BY <2>1 DEF Outcome, OutcomeType, OutcomeKinds
 <2>4. <<newAssistantMessageWithContent(content)>> \o ToolMessage(results) = Trace(attempt, o)
   BY DEF newAssistantMessageWithContent, Trace, Outcome
 <2>5. AddMessages(request, Trace(attempt, o)) /\ Conclude(o) BY <2>2, <2>4 DEF Answered
 <2> HIDE DEF o
 <2> QED BY <1>6, <2>3, <2>5, TraceAdded
<1>7. CASE plan.api = "execute"
 <2>1. NoCorrection("done") BY <1>7 DEF Judge
 <2> QED BY <1>3, <2>1
<1>8. CASE plan.api = "structured"
 <2>1. \/ NoCorrection("done")
       \/ ValidationFails(content, TRUE)
       \/ \E invalid \in SUBSET DOMAIN calls, raw \in BOOLEAN :
             ToolCallFails(workExec, content, invalid, raw)
   BY <1>8 DEF Judge
 <2> QED BY <1>3, <1>4, <1>5, <1>8, <2>1
<1>9. CASE plan.api = "tools"
 <2>1. \/ Answered(content, ToolOutput(calls))
       \/ \E invalid \in SUBSET DOMAIN calls :
             ToolCallFails(request, content, invalid, TRUE)
   BY <1>9 DEF Judge
 <2> QED BY <1>5, <1>6, <1>9, <2>1
<1> QED BY <1>7, <1>8, <1>9, TypeFacts DEF Apis

LEMMA Receives ==
    ASSUME TypeInv, Receive
    PROVE  NoCorrection("error") \/ \E content \in Seq(AnswerPart(provider)) : Judge(content)
<1>1. PICK raw \in RawAnswers :
          LET response == ParseResponse(provider, raw)
          IN  IF response.err = "none" THEN Judge(response.out) ELSE NoCorrection("error")
  BY DEF Receive
<1>2. raw \in Seq(RawPart(provider)) /\ provider \in Providers BY RawAnswersType DEF TypeInv
<1>3. ParseResponse(provider, raw).out \in Seq(AnswerPart(provider)) BY <1>2, ParsedType
<1> QED BY <1>1, <1>3

LEMMA NextInv ==
    ASSUME TypeInv, HistoryInv, [Next]_vars
    PROVE  TypeInv' /\ HistoryInv'
<1>1. CASE StartAttempt
 <2>1. UNCHANGED clientVars BY <1>1 DEF StartAttempt
 <2>2. CASE Attempt(plan.api = "execute") BY <2>1, <2>2, AttemptStep
 <2>3. CASE AttemptCancelled BY <2>1, <2>3, NothingAdded DEF AttemptCancelled
 <2> QED BY <1>1, <2>2, <2>3 DEF StartAttempt
<1>2. CASE ClientTranslates
 <2>1. UNCHANGED clientVars /\ (UNCHANGED execVars \/ NoCorrection("error"))
   BY <1>2 DEF ClientTranslates
 <2>2. CASE UNCHANGED execVars
   BY <2>1, <2>2 DEF TypeInv, HistoryInv, History, WithoutForeign, execVars, clientVars, exec
 <2>3. CASE NoCorrection("error") BY <2>1, <2>3, NothingAdded DEF NoCorrection
 <2> QED BY <2>1, <2>2, <2>3
<1>3. CASE Receive
 <2>1. UNCHANGED clientVars /\ pc = "waiting" BY <1>3 DEF Receive
 <2>2. CASE NoCorrection("error") BY <2>1, <2>2, NothingAdded DEF NoCorrection
 <2>3. ASSUME NEW content \in Seq(AnswerPart(provider)), Judge(content)
       PROVE  TypeInv' /\ HistoryInv'
  <3>1. content \in Seq(NativePart) BY AnswerIsNative
  <3> QED BY <2>1, <2>3, <3>1, JudgeStep
 <2> QED BY <1>3, <2>2, <2>3, Receives
<1>4. CASE Fails BY <1>4, NothingAdded DEF Fails, NoCorrection
<1>5. CASE MiddlewareRefuses
 <2> DEFINE o == Outcome("validation", <<>>, <<>>, FALSE)
 <2>1. o \in OutcomeType BY DEF Outcome, OutcomeType, OutcomeKinds
 <2>2. Append(RawMessage(<<>>, FALSE), Feedback(attempt)) = Trace(attempt, o)
   BY DEF RawMessage, Trace, Outcome
 <2>3. AddMessages(workExec, Trace(attempt, o)) /\ Conclude(o)
   BY <1>5, <2>2 DEF MiddlewareRefuses, ValidationFails
 <2>4. plan.api = "structured" /\ pc = "waiting" /\ UNCHANGED clientVars
   BY <1>5 DEF MiddlewareRefuses
 <2> HIDE DEF o
 <2> QED BY <2>1, <2>3, <2>4, TraceAdded
<1>6. CASE Write BY <1>6, ScribbleStep DEF Write
<1>7. CASE UNCHANGED vars
  BY <1>7 DEF TypeInv, HistoryInv, History, WithoutForeign, vars, execVars, exec
<1> QED BY <1>1, <1>2, <1>3, <1>4, <1>5, <1>6, <1>7 DEF Next

(***************************************************************************)
(* The conversation sent in the next attempt is the prompt with the        *)
(* correction of every attempt that called for one, in order and once: for *)
(* NewStructuredExecutor exactly, whatever the caller and the invoker      *)
(* write on their copies; for ExecuteWithToolValidation apart from that.   *)
(***************************************************************************)
THEOREM NextConversationIsHistory == Spec => []WorkExecIsHistory
<1>1. TypeInv /\ HistoryInv => WorkExecIsHistory BY DEF HistoryInv, WorkExecIsHistory
<1> QED BY <1>1, InitInv, NextInv, PTL DEF Spec

----------------------------------------
\* Collect, and what is and is not in the parts of a kind.
LEMMA MinIsIn ==
    ASSUME NEW I \in SUBSET Nat, I # {}
    PROVE  Min(I) \in I /\ \A y \in I : Min(I) <= y
<1> DEFINE R == {ss \in Nat \X Nat : ss[1] < ss[2]}
<1>1. IsWellFoundedOn(R, Nat) BY NatLessThanWellFounded DEF OpToRel
<1>2. PICK x \in I : \A y \in I : ~(<<y, x>> \in R)
 <2> HIDE DEF R
 <2> QED BY <1>1, WFMin
<1>3. \A y \in I : x <= y
 <2>1. \A y \in I : ~(y < x) BY <1>2
 <2>2. x \in Nat /\ \A y \in I : y \in Nat OBVIOUS
 <2> QED BY <2>1, <2>2
<1> QED BY <1>3, Zenon DEF Min

LEMMA CollectIs ==
    ASSUME NEW n \in Nat, NEW results, DOMAIN results = 1..n, Len(results) = n
    PROVE  /\ (\A i \in 1..n : results[i].err = "none") =>
                  Collect(results) = Ok(FlattenSeq([i \in DOMAIN results |-> results[i].out]))
           /\ (\E i \in 1..n : results[i].err # "none") =>
                  \E i \in 1..n : results[i].err # "none" /\ Collect(results) = results[i]
<1> DEFINE I == {i \in 1..Len(results) : results[i].err # "none"}
           k == SelectInSeq(results, LAMBDA r : r.err # "none")
<1>1. k = IF I # {} THEN Min(I) ELSE 0 BY DEF SelectInSeq
<1>2. Collect(results) = IF k = 0 THEN Ok(FlattenSeq([i \in DOMAIN results |-> results[i].out]))
                                  ELSE results[k]
  BY DEF Collect
<1>3. I \in SUBSET Nat OBVIOUS
<1> HIDE DEF k
<1>4. CASE I = {} BY <1>1, <1>2, <1>4
<1>5. CASE I # {}
 <2>1. k \in I
  <3> HIDE DEF I
  <3> QED BY <1>1, <1>3, <1>5, MinIsIn
 <2>2. k # 0 /\ k \in 1..n /\ results[k].err # "none" BY <2>1
 <2> QED BY <1>2, <2>2
<1> QED BY <1>4, <1>5

LEMMA CollectErr ==
    ASSUME NEW n \in Nat, NEW results, DOMAIN results = 1..n, Len(results) = n
    PROVE  /\ Collect(results).err = "none" <=> \A i \in 1..n : results[i].err = "none"
           /\ \A E : "none" \in E /\ (\A i \in 1..n : results[i].err \in E) =>
                        Collect(results).err \in E
<1>1. CASE \A i \in 1..n : results[i].err = "none"
 <2> DEFINE built == FlattenSeq([i \in DOMAIN results |-> results[i].out])
 <2>1. Collect(results) = Ok(built) BY <1>1, CollectIs
 <2> HIDE DEF built
 <2>2. Collect(results).err = "none" BY <2>1 DEF Ok
 <2> QED BY <1>1, <2>2
<1>2. CASE \E i \in 1..n : results[i].err # "none"
 <2>1. PICK i \in 1..n : results[i].err # "none" /\ Collect(results) = results[i]
   BY <1>2, CollectIs
 <2> QED BY <1>2, <2>1
<1> QED BY <1>1, <1>2

LEMMA ThoseHas ==
    ASSUME NEW S, NEW s \in Seq(S), NEW B
    PROVE  /\ Len(Those(s, B)) \in Nat /\ DOMAIN Those(s, B) = 1..Len(Those(s, B))
           /\ \A j \in 1..Len(Those(s, B)) :
                  Those(s, B)[j] \in B /\ \E i \in 1..Len(s) : Those(s, B)[j] = s[i]
           /\ \A i \in 1..Len(s) : s[i] \in B =>
                  \E j \in 1..Len(Those(s, B)) : Those(s, B)[j] = s[i]
<1> DEFINE R == {s[i] : i \in 1..Len(s)}
<1>1. s \in Seq(R) OBVIOUS
<1>2. Those(s, B) \in Seq(R \cap B)
 <2>1. \A i \in DOMAIN s : s[i] \in B <=> s[i] \in R \cap B OBVIOUS
 <2>2. Those(s, B) = Those(s, R \cap B)
  <3> HIDE DEF R
  <3> QED BY <2>1 DEF Those
 <2>3. R \cap B \in SUBSET R OBVIOUS
 <2> HIDE DEF R
 <2> QED BY <1>1, <2>2, <2>3, ThoseType
<1>3. Len(Those(s, B)) \in Nat /\ DOMAIN Those(s, B) = 1..Len(Those(s, B)) BY <1>2
<1>4. \A j \in 1..Len(Those(s, B)) : Those(s, B)[j] \in R \cap B BY <1>2, ElementOfSeq
<1>5. ASSUME NEW i \in 1..Len(s), s[i] \in B
      PROVE  \E j \in 1..Len(Those(s, B)) : Those(s, B)[j] = s[i]
 <2> DEFINE kept == [n \in DOMAIN s |-> IF s[n] \in B THEN <<s[n]>> ELSE <<>>]
 <2>1. Those(s, B) = FlattenSeq(kept) BY DEF Those
 <2>2. /\ Len(s) \in Nat /\ DOMAIN s = 1..Len(s)
       /\ \A n \in 1..Len(s) : (IF s[n] \in B THEN <<s[n]>> ELSE <<>>) \in Seq(R)
  <3>1. ASSUME NEW n \in 1..Len(s) PROVE (IF s[n] \in B THEN <<s[n]>> ELSE <<>>) \in Seq(R)
   <4>1. s[n] \in R OBVIOUS
   <4> HIDE DEF R
   <4>2. <<s[n]>> \in Seq(R) /\ <<>> \in Seq(R) BY <4>1
   <4> QED BY <4>2
  <3> QED BY <3>1
 <2>3. kept \in Seq(Seq(R)) /\ Len(kept) = Len(s)
  <3> HIDE DEF R
  <3> QED BY <2>2
 <2>4. kept[i] = <<s[i]>> /\ Len(kept[i]) = 1 /\ kept[i][1] = s[i] BY <1>5, <2>2
 <2>5. i \in 1..Len(kept) /\ 1 \in 1..Len(kept[i]) BY <2>3, <2>4
 <2> HIDE DEF kept, R
 <2>6. \E j \in 1..Len(FlattenSeq(kept)) : FlattenSeq(kept)[j] = kept[i][1]
   BY <2>3, <2>5, FlattenHas
 <2> QED BY <2>1, <2>4, <2>6
<1> QED BY <1>3, <1>4, <1>5

LEMMA KindHas ==
    ASSUME NEW S, NEW s \in Seq(S), NEW k
    PROVE  /\ Len(Kind(s, k)) \in Nat /\ DOMAIN Kind(s, k) = 1..Len(Kind(s, k))
           /\ \A j \in 1..Len(Kind(s, k)) :
                  /\ Kind(s, k)[j].kind = k
                  /\ \E i \in 1..Len(s) : Kind(s, k)[j] = s[i]
           /\ \A i \in 1..Len(s) : s[i].kind = k =>
                  \E j \in 1..Len(Kind(s, k)) : Kind(s, k)[j] = s[i]
<1>1. Kind(s, k) = Those(s, OfKind(S, k)) BY KindIsThose
<1>2. \A p \in OfKind(S, k) : p.kind = k BY DEF OfKind
<1>3. \A i \in 1..Len(s) : s[i].kind = k => s[i] \in OfKind(S, k) BY ElementOfSeq DEF OfKind
<1> DEFINE found == Kind(s, k)
<1>4. /\ Len(found) \in Nat /\ DOMAIN found = 1..Len(found)
      /\ \A j \in 1..Len(found) : found[j] \in OfKind(S, k) /\ \E i \in 1..Len(s) : found[j] = s[i]
      /\ \A i \in 1..Len(s) : s[i] \in OfKind(S, k) => \E j \in 1..Len(found) : found[j] = s[i]
  BY <1>1, ThoseHas
<1> HIDE DEF found
<1>5. /\ Len(found) \in Nat /\ DOMAIN found = 1..Len(found)
      /\ \A j \in 1..Len(found) : found[j].kind = k /\ \E i \in 1..Len(s) : found[j] = s[i]
      /\ \A i \in 1..Len(s) : s[i].kind = k => \E j \in 1..Len(found) : found[j] = s[i]
  BY <1>2, <1>3, <1>4
<1> QED BY <1>5 DEF found

\* What is left without what others wrote.
LEMMA WithoutHas ==
    ASSUME NEW s \in Seq(HeapPart)
    PROVE  /\ Len(Without(s)) \in Nat /\ DOMAIN Without(s) = 1..Len(Without(s))
           /\ \A j \in 1..Len(Without(s)) : \E i \in 1..Len(s) : Without(s)[j] = s[i]
           /\ \A i \in 1..Len(s) : s[i] # Mark => \E j \in 1..Len(Without(s)) : Without(s)[j] = s[i]
<1>1. \A i \in 1..Len(s) : OfTheConversation(s[i]) <=> s[i] \in HeapPart \ {Mark}
  BY ElementOfSeq DEF OfTheConversation, Mark
<1>2. Without(s) = Those(s, HeapPart \ {Mark})
 <2>1. DOMAIN s = 1..Len(s) OBVIOUS
 <2>2. [i \in DOMAIN s |-> IF OfTheConversation(s[i]) THEN <<s[i]>> ELSE <<>>]
         = [i \in DOMAIN s |-> IF s[i] \in HeapPart \ {Mark} THEN <<s[i]>> ELSE <<>>]
   BY <1>1, <2>1
 <2> QED BY <2>2 DEF Without, Where, Those
<1>3. \A i \in 1..Len(s) : s[i] # Mark => s[i] \in HeapPart \ {Mark} BY ElementOfSeq
<1> DEFINE B    == HeapPart \ {Mark}
           left == Those(s, B)
<1>4. /\ Len(left) \in Nat /\ DOMAIN left = 1..Len(left)
      /\ \A j \in 1..Len(left) : left[j] \in B /\ \E i \in 1..Len(s) : left[j] = s[i]
      /\ \A i \in 1..Len(s) : s[i] \in B => \E j \in 1..Len(left) : left[j] = s[i]
 <2> HIDE DEF B
 <2> QED BY ThoseHas
<1>5. Without(s) = left BY <1>2
<1> HIDE DEF left
<1> QED BY <1>3, <1>4, <1>5

LEMMA NoneOfKind ==
    ASSUME NEW S, NEW s \in Seq(S), NEW k
    PROVE  Kind(s, k) = <<>> <=> \A i \in 1..Len(s) : s[i].kind # k
<1>1. Kind(s, k) \in Seq(OfKind(S, k)) BY KindType
<1>2. Kind(s, k) = <<>> <=> Len(Kind(s, k)) = 0 BY <1>1
<1>3. Len(Kind(s, k)) = 0 <=> 1 \notin 1..Len(Kind(s, k)) BY <1>1
<1> QED BY <1>2, <1>3, KindHas

----------------------------------------
\* What the adapters refuse.  Fit says what provider who takes; Errs is what an adapter
\* refuses with when all media are resolved.
Errs == {"none", "cache_control.type", "ErrUnsupportedContentType", "ErrMalformedArgs",
         "ErrUnsupportedRole"}

FitResult(p) ==
    /\ p.kind = "result" /\ p.cache # "other"
    /\ \A i \in DOMAIN p.content : p.content[i].kind = "text" /\ p.content[i].cache # "other"

FitPart(who, p, role) ==
    /\ p.cache # "other"
    /\ \/ p.kind = "text"
       \/ role = "user" /\ p.kind = "media" /\ p.mime = "image" /\ p.source = "data"
       \/ role = "assistant" /\ p.kind = "call" /\ p.args \in FitArgs(who)
       \/ role = "tool" /\ FitResult(p)

Fit(who, m) ==
    /\ m.cache # "other" /\ m.role \in Roles
    /\ m.role = "tool" => \E i \in 1..Len(m.content) : m.content[i].kind = "result"
    /\ \A i \in 1..Len(m.content) : FitPart(who, m.content[i], m.role)

IsResolved(m) == \A i \in 1..Len(m.content) :
                     ~(m.content[i].kind = "media" /\ m.content[i].source = "url")

\* An answer in m with arguments that are no JSON.
HasMalformed(m) ==
    m.role = "assistant" /\ \E i \in 1..Len(m.content) :
        m.content[i].kind = "call" /\ m.content[i].args = "malformed"

LEMMA CollectInErrs ==
    ASSUME NEW n \in Nat, NEW results, DOMAIN results = 1..n, Len(results) = n,
           \A i \in 1..n : results[i].err \in Errs
    PROVE  Collect(results).err \in Errs
<1>1. "none" \in Errs BY DEF Errs
<1> QED BY <1>1, CollectErr

LEMMA HeapParts ==
    ASSUME NEW m \in HeapMessage
    PROVE  /\ m.content \in Seq(HeapPart) /\ Len(m.content) \in Nat
           /\ DOMAIN m.content = 1..Len(m.content)
           /\ \A i \in 1..Len(m.content) : m.content[i] \in HeapPart
<1>1. m.content \in Seq(HeapPart) BY DEF HeapMessage
<1> QED BY <1>1, ElementOfSeq

LEMMA ResultOfHeap ==
    ASSUME NEW p \in HeapPart, p.kind = "result"
    PROVE  /\ p \in ToolResultPart(Native)
           /\ Len(p.content) \in Nat /\ DOMAIN p.content = 1..Len(p.content)
           /\ p.content \in Seq(TextPart(Native) \cup MediaPart \cup ReasoningPart(Native))
<1>1. p # Mark BY DEF Mark, Text
<1>2. p \in ToolResultPart(Native) BY <1>1, KindsOfPart DEF HeapPart
<1>3. p.content \in Seq(TextPart(Native) \cup MediaPart \cup ReasoningPart(Native))
  BY <1>2 DEF ToolResultPart
<1> QED BY <1>2, <1>3

LEMMA AnthropicBlocks ==
    ASSUME NEW p, NEW c
    PROVE  /\ systemBlock(p, c).err \in Errs
           /\ contentBlock(p, c).err \in Errs
           /\ assistantBlock(p, c).err \in Errs
           /\ c # "other" /\ p.cache # "other" =>
                 /\ p.kind = "text" => /\ systemBlock(p, c).err = "none"
                                       /\ contentBlock(p, c).err = "none"
                                       /\ assistantBlock(p, c).err = "none"
                 /\ p.kind = "media" /\ p.mime = "image" /\ p.source = "data" =>
                       contentBlock(p, c).err = "none"
                 /\ p.kind = "call" /\ p.args # "malformed" => assistantBlock(p, c).err = "none"
           /\ p.kind = "call" /\ p.args = "malformed" => assistantBlock(p, c).err # "none"
<1> DEFINE cache == resolveCacheControl(c, p.cache)
<1>1. c # "other" /\ p.cache # "other" => cache # "other" BY DEF resolveCacheControl
<1>2. /\ applyCacheControl(p, cache).err \in {"none", "cache_control.type"}
      /\ cache # "other" => applyCacheControl(p, cache).err = "none"
  BY DEF applyCacheControl, Ok, Fail
<1>3. Unsupported.err = "ErrUnsupportedContentType" /\ Fail("ErrMalformedArgs").err = "ErrMalformedArgs"
  BY DEF Unsupported, Fail
<1>4. /\ mediaBlock(p, cache).err \in {"none", "cache_control.type", "ErrUnsupportedContentType"}
      /\ cache # "other" /\ p.mime = "image" /\ p.source = "data" =>
            mediaBlock(p, cache).err = "none"
  BY <1>2, <1>3 DEF mediaBlock, mediaBlockFromData
<1> HIDE DEF cache
<1>5. systemBlock(p, c) = IF p.kind = "text" THEN applyCacheControl(p, cache) ELSE Unsupported
  BY DEF systemBlock, cache
<1>6. contentBlock(p, c) = CASE p.kind = "text"  -> applyCacheControl(p, cache)
                             [] p.kind = "media" -> mediaBlock(p, cache)
                             [] OTHER            -> Unsupported
  BY DEF contentBlock, cache
<1>7. assistantBlock(p, c) =
        CASE p.kind = "text"                           -> applyCacheControl(p, cache)
          [] p.kind = "call" /\ p.args # "malformed"   -> applyCacheControl(p, cache)
          [] p.kind = "call" /\ p.args = "malformed"   -> Fail("ErrMalformedArgs")
          [] OTHER                                     -> Unsupported
  BY DEF assistantBlock, cache
<1>8. /\ systemBlock(p, c).err \in Errs
      /\ c # "other" /\ p.cache # "other" /\ p.kind = "text" => systemBlock(p, c).err = "none"
  BY <1>1, <1>2, <1>3, <1>5 DEF Errs
<1>9. /\ contentBlock(p, c).err \in Errs
      /\ c # "other" /\ p.cache # "other" /\ p.kind = "text" => contentBlock(p, c).err = "none"
      /\ c # "other" /\ p.cache # "other" /\ p.kind = "media" /\ p.mime = "image"
           /\ p.source = "data" => contentBlock(p, c).err = "none"
 <2>1. CASE p.kind = "text" BY <1>1, <1>2, <1>6, <2>1 DEF Errs
 <2>2. CASE p.kind = "media" BY <1>1, <1>4, <1>6, <2>2 DEF Errs
 <2>3. CASE p.kind # "text" /\ p.kind # "media" BY <1>3, <1>6, <2>3 DEF Errs
 <2> QED BY <2>1, <2>2, <2>3
<1>10. /\ assistantBlock(p, c).err \in Errs
       /\ c # "other" /\ p.cache # "other" /\ p.kind = "text" => assistantBlock(p, c).err = "none"
       /\ c # "other" /\ p.cache # "other" /\ p.kind = "call" /\ p.args # "malformed" =>
             assistantBlock(p, c).err = "none"
       /\ p.kind = "call" /\ p.args = "malformed" => assistantBlock(p, c).err # "none"
 <2>1. CASE p.kind = "text" BY <1>1, <1>2, <1>7, <2>1 DEF Errs
 <2>2. CASE p.kind = "call" /\ p.args # "malformed" BY <1>1, <1>2, <1>7, <2>2 DEF Errs
 <2>3. CASE p.kind = "call" /\ p.args = "malformed" BY <1>3, <1>7, <2>3 DEF Errs
 <2>4. CASE p.kind # "text" /\ p.kind # "call" BY <1>3, <1>7, <2>4 DEF Errs
 <2> QED BY <2>1, <2>2, <2>3, <2>4
<1> QED BY <1>8, <1>9, <1>10

LEMMA AnthropicResult ==
    ASSUME NEW p, NEW c, NEW n \in Nat, DOMAIN p.content = 1..n, Len(p.content) = n
    PROVE  /\ toolResultBlock(p, c).err \in Errs
           /\ c # "other" /\ FitResult(p) => toolResultBlock(p, c).err = "none"
<1> DEFINE cache   == resolveCacheControl(c, p.cache)
           blocks  == [i \in DOMAIN p.content |-> contentBlock(p.content[i], cache)]
           content == Collect(blocks)
           whole   == [p EXCEPT !.content = content.out, !.name = ""]
<1>1. toolResultBlock(p, c) = IF content.err # "none" THEN content
                              ELSE applyCacheControl(whole, cache)
  BY DEF toolResultBlock, Each
<1>2. DOMAIN blocks = 1..n /\ Len(blocks) = n OBVIOUS
<1>3. \A i \in 1..n : blocks[i] = contentBlock(p.content[i], cache) OBVIOUS
<1>4. c # "other" /\ FitResult(p) => cache # "other" BY DEF resolveCacheControl, FitResult
<1>5. /\ applyCacheControl(whole, cache).err \in Errs
      /\ cache # "other" => applyCacheControl(whole, cache).err = "none"
 <2> HIDE DEF whole, cache
 <2> QED BY DEF applyCacheControl, Ok, Fail, Errs
<1> HIDE DEF whole, cache, blocks
<1>6. content.err \in Errs
 <2>1. \A i \in 1..n : blocks[i].err \in Errs BY <1>3, AnthropicBlocks
 <2> QED BY <1>2, <2>1, CollectInErrs
<1>7. c # "other" /\ FitResult(p) => content.err = "none"
 <2> SUFFICES ASSUME c # "other", FitResult(p) PROVE content.err = "none" OBVIOUS
 <2>1. \A i \in 1..n : p.content[i].kind = "text" /\ p.content[i].cache # "other" BY DEF FitResult
 <2>2. \A i \in 1..n : blocks[i].err = "none" BY <1>3, <1>4, <2>1, AnthropicBlocks
 <2> QED BY <1>2, <2>2, CollectErr
<1> HIDE DEF content
<1> QED BY <1>1, <1>4, <1>5, <1>6, <1>7

LEMMA WrapErr == \A role, r : Wrap(role, r).err = r.err
  BY DEF Wrap, Ok

LEMMA RefusalErr ==
    /\ Unsupported.err \in Errs \ {"none"}
    /\ \A why : Fail(why).err = why
    /\ \A out : Ok(out).err = "none"
  BY DEF Unsupported, Fail, Ok, Errs

\* The results in a tool message.
LEMMA ResultsOf ==
    ASSUME NEW m \in HeapMessage
    PROVE  LET results == Kind(m.content, "result")
           IN  /\ Len(results) \in Nat /\ DOMAIN results = 1..Len(results)
               /\ \A j \in 1..Len(results) :
                     /\ results[j] \in HeapPart /\ results[j].kind = "result"
                     /\ \E i \in 1..Len(m.content) : results[j] = m.content[i]
               /\ results = <<>> <=> \A i \in 1..Len(m.content) : m.content[i].kind # "result"
               /\ \A who : Fit(who, m) /\ m.role = "tool" =>
                     /\ results # <<>>
                     /\ \A j \in 1..Len(results) : FitResult(results[j])
<1> DEFINE results == Kind(m.content, "result")
<1>1. m.content \in Seq(HeapPart) BY HeapParts
<1>2. /\ Len(results) \in Nat /\ DOMAIN results = 1..Len(results)
      /\ \A j \in 1..Len(results) : results[j].kind = "result"
                                    /\ \E i \in 1..Len(m.content) : results[j] = m.content[i]
  BY <1>1, KindHas
<1>3. results = <<>> <=> \A i \in 1..Len(m.content) : m.content[i].kind # "result"
  BY <1>1, NoneOfKind
<1> HIDE DEF results
<1>4. \A j \in 1..Len(results) : results[j] \in HeapPart BY <1>2, HeapParts
<1>5. ASSUME NEW who, Fit(who, m), m.role = "tool"
      PROVE  results # <<>> /\ \A j \in 1..Len(results) : FitResult(results[j])
 <2>1. results # <<>> BY <1>3, <1>5 DEF Fit
 <2>2. ASSUME NEW j \in 1..Len(results) PROVE FitResult(results[j])
  <3>1. PICK i \in 1..Len(m.content) : results[j] = m.content[i] BY <1>2
  <3>2. FitPart(who, m.content[i], m.role) /\ m.content[i].kind = "result"
    BY <1>2, <1>5, <3>1 DEF Fit
  <3> QED BY <3>1, <3>2 DEF FitPart
 <2> QED BY <2>1, <2>2
<1> QED BY <1>2, <1>3, <1>4, <1>5 DEF results

LEMMA RolesApart ==
    ASSUME NEW role
    PROVE  /\ role \in SystemRoles => role \notin {"user", "assistant", "tool"}
           /\ role \in Roles <=> role \in SystemRoles \cup {"user", "assistant", "tool"}
  BY DEF SystemRoles, Roles

LEMMA AnthropicMessage ==
    ASSUME NEW m \in HeapMessage
    PROVE  /\ anthropicMessage(m).err \in Errs
           /\ Fit("anthropic", m) => anthropicMessage(m).err = "none"
           /\ HasMalformed(m) => anthropicMessage(m).err # "none"
<1> DEFINE n == Len(m.content)
<1>1. n \in Nat /\ DOMAIN m.content = 1..n BY HeapParts
<1>2. ASSUME Fit("anthropic", m)
      PROVE  m.cache # "other" /\ \A i \in 1..n : m.content[i].cache # "other"
  BY <1>2 DEF Fit, FitPart
<1>3. CASE m.role \in SystemRoles \cup {"user", "assistant"}
 <2> DEFINE block(p) == CASE m.role = "user"      -> contentBlock(p, m.cache)
                          [] m.role = "assistant" -> assistantBlock(p, m.cache)
                          [] OTHER                -> systemBlock(p, m.cache)
            blocks == [i \in DOMAIN m.content |-> block(m.content[i])]
 <2>1. anthropicMessage(m).err = Collect(blocks).err
  <3>1. CASE m.role \in SystemRoles
    BY <3>1, WrapErr, RolesApart DEF anthropicMessage, systemMessageBlocks, Each
  <3>2. CASE m.role = "user"
    BY <3>2, WrapErr, RolesApart DEF anthropicMessage, anthropicUserMessage, Each
  <3>3. CASE m.role = "assistant"
    BY <3>3, WrapErr, RolesApart DEF anthropicMessage, anthropicAssistantMessage, Each
  <3> QED BY <1>3, <3>1, <3>2, <3>3
 <2>2. DOMAIN blocks = 1..n /\ Len(blocks) = n /\ \A i \in 1..n : blocks[i] = block(m.content[i])
   BY <1>1
 <2>3. \A p : block(p).err \in Errs BY AnthropicBlocks
 <2> HIDE DEF blocks, n
 <2>4. Fit("anthropic", m) => \A i \in 1..n : blocks[i].err = "none"
  <3> SUFFICES ASSUME Fit("anthropic", m), NEW i \in 1..n PROVE block(m.content[i]).err = "none"
    BY <2>2
  <3>1. \/ m.content[i].kind = "text"
        \/ m.role = "user" /\ m.content[i].kind = "media" /\ m.content[i].mime = "image"
             /\ m.content[i].source = "data"
        \/ m.role = "assistant" /\ m.content[i].kind = "call" /\ m.content[i].args # "malformed"
    BY <1>3, RolesApart DEF Fit, FitPart, FitArgs, n
  <3> QED BY <1>2, <1>3, <3>1, AnthropicBlocks
 <2>5. HasMalformed(m) => \E i \in 1..n : blocks[i].err # "none"
   BY <2>2, AnthropicBlocks DEF HasMalformed, n
 <2> HIDE DEF block
 <2>6. Collect(blocks).err \in Errs BY <1>1, <2>2, <2>3, CollectInErrs
 <2> QED BY <1>1, <2>1, <2>2, <2>4, <2>5, <2>6, CollectErr
<1>4. CASE m.role = "tool"
 <2> DEFINE results == Kind(m.content, "result")
            blocks  == [i \in DOMAIN results |-> toolResultBlock(results[i], m.cache)]
 <2>1. anthropicMessage(m).err = IF results = <<>> THEN Unsupported.err ELSE Collect(blocks).err
   BY <1>4, WrapErr, RolesApart DEF anthropicMessage, toolResultMessage, ToolResults, Each
 <2>2. /\ Len(results) \in Nat /\ DOMAIN results = 1..Len(results)
       /\ \A j \in 1..Len(results) : results[j] \in HeapPart /\ results[j].kind = "result"
       /\ Fit("anthropic", m) => /\ results # <<>>
                                 /\ \A j \in 1..Len(results) : FitResult(results[j])
   BY <1>4, ResultsOf
 <2> HIDE DEF results
 <2>3. DOMAIN blocks = 1..Len(results) /\ Len(blocks) = Len(results) BY <2>2
 <2>4. \A i \in 1..Len(results) : blocks[i] = toolResultBlock(results[i], m.cache) BY <2>2
 <2> HIDE DEF blocks
 <2>5. ASSUME NEW j \in 1..Len(results)
       PROVE  /\ blocks[j].err \in Errs
              /\ Fit("anthropic", m) => blocks[j].err = "none"
  <3>1. /\ Len(results[j].content) \in Nat
        /\ DOMAIN results[j].content = 1..Len(results[j].content)
    BY <2>2, ResultOfHeap
  <3>2. /\ toolResultBlock(results[j], m.cache).err \in Errs
        /\ m.cache # "other" /\ FitResult(results[j]) =>
              toolResultBlock(results[j], m.cache).err = "none"
    BY <3>1, AnthropicResult
  <3> QED BY <1>2, <2>2, <2>4, <3>2
 <2>6. Collect(blocks).err \in Errs BY <2>2, <2>3, <2>5, CollectInErrs
 <2>7. Fit("anthropic", m) => Collect(blocks).err = "none" BY <2>2, <2>3, <2>5, CollectErr
 <2>8. ~HasMalformed(m) BY <1>4 DEF HasMalformed
 <2> QED BY <2>1, <2>2, <2>6, <2>7, <2>8, RefusalErr
<1>5. CASE m.role \notin Roles
 <2>1. anthropicMessage(m).err = "ErrUnsupportedRole"
   BY <1>5, RolesApart, RefusalErr DEF anthropicMessage
 <2> QED BY <1>5, <2>1 DEF Fit, Errs
<1> QED BY <1>3, <1>4, <1>5, RolesApart

\* Results as texts.
LEMMA TextResultErr ==
    ASSUME NEW p \in HeapPart, p.kind = "result"
    PROVE  /\ TextResult(p).err \in Errs
           /\ HasMedia(p.content) => TextResult(p) = Unsupported
           /\ ~HasMedia(p.content) => \E x : TextResult(p) = Ok(<<x>>)
           /\ FitResult(p) => ~HasMedia(p.content)
<1>1. \/ HasMedia(p.content) /\ TextResult(p) = Unsupported
      \/ ~HasMedia(p.content) /\ \E x : TextResult(p) = Ok(<<x>>)
  BY DEF TextResult
<1>2. TextResult(p).err \in Errs
 <2>1. "none" \in Errs BY DEF Errs
 <2> QED BY <1>1, <2>1, RefusalErr
<1>3. FitResult(p) => ~HasMedia(p.content)
 <2> SUFFICES ASSUME FitResult(p) PROVE Kind(p.content, "media") = <<>> BY DEF HasMedia
 <2>1. /\ p.content \in Seq(TextPart(Native) \cup MediaPart \cup ReasoningPart(Native))
       /\ DOMAIN p.content = 1..Len(p.content)
   BY ResultOfHeap
 <2>2. \A i \in 1..Len(p.content) : p.content[i].kind # "media" BY <2>1 DEF FitResult
 <2> QED BY <2>1, <2>2, NoneOfKind
<1> QED BY <1>1, <1>2, <1>3

LEMMA ToolMessagesErr ==
    ASSUME NEW m \in HeapMessage
    PROVE  /\ toolResultMessages(m).err \in Errs
           /\ \A who : Fit(who, m) /\ m.role = "tool" => toolResultMessages(m).err = "none"
<1> DEFINE results == Kind(m.content, "result")
           texts   == [i \in DOMAIN results |-> TextResult(results[i])]
<1>1. toolResultMessages(m).err = IF results = <<>> THEN Unsupported.err ELSE Collect(texts).err
  BY RefusalErr DEF toolResultMessages, ToolResults, Each
<1>2. /\ Len(results) \in Nat /\ DOMAIN results = 1..Len(results)
      /\ \A j \in 1..Len(results) : results[j] \in HeapPart /\ results[j].kind = "result"
      /\ \A who : Fit(who, m) /\ m.role = "tool" =>
            results # <<>> /\ \A j \in 1..Len(results) : FitResult(results[j])
  BY ResultsOf
<1> HIDE DEF results
<1>3. DOMAIN texts = 1..Len(results) /\ Len(texts) = Len(results) BY <1>2
<1>4. \A i \in 1..Len(results) : texts[i] = TextResult(results[i]) BY <1>2
<1> HIDE DEF texts
<1>5. \A i \in 1..Len(results) : texts[i].err \in Errs BY <1>2, <1>4, TextResultErr
<1>6. Collect(texts).err \in Errs BY <1>2, <1>3, <1>5, CollectInErrs
<1>7. ASSUME NEW who, Fit(who, m), m.role = "tool" PROVE Collect(texts).err = "none"
 <2>1. ASSUME NEW i \in 1..Len(results) PROVE texts[i].err = "none"
  <3>1. results[i] \in HeapPart /\ results[i].kind = "result" /\ FitResult(results[i])
    BY <1>2, <1>7
  <3>2. PICK x : TextResult(results[i]) = Ok(<<x>>) BY <3>1, TextResultErr
  <3> QED BY <1>4, <3>2, RefusalErr
 <2> QED BY <1>2, <1>3, <2>1, CollectErr
<1> QED BY <1>1, <1>2, <1>6, <1>7, RefusalErr

LEMMA OpenAIParts ==
    ASSUME NEW p
    PROVE  /\ openaiAssistantCall(p).err \in Errs
           /\ ~(p.kind = "media" /\ p.source = "url") => openaiUserPart(p).err \in Errs
           /\ p.kind = "text" => openaiUserPart(p).err = "none" /\ openaiAssistantCall(p).err = "none"
           /\ p.kind = "media" /\ p.mime = "image" /\ p.source = "data" =>
                 openaiUserPart(p).err = "none"
           /\ p.kind = "call" => (openaiAssistantCall(p).err = "none" <=> p.args # "malformed")
<1>1. Unsupported.err \in Errs /\ Fail("ErrMalformedArgs").err = "ErrMalformedArgs"
      /\ \A out : Ok(out).err = "none"
  BY RefusalErr
<1>2. mediaPartToOpenAI(p) = IF p.source = "nothing" THEN Unsupported
                             ELSE IF p.source = "url" /\ p.mime # "image"
                                  THEN Fail("ErrMediaNotResolved") ELSE Ok(<<OfItsKind(p)>>)
  BY DEF mediaPartToOpenAI
<1>3. openaiUserPart(p) = IF p.kind = "text" THEN Ok(<<Plain(p)>>)
                          ELSE IF p.kind = "media" THEN mediaPartToOpenAI(p) ELSE Unsupported
  BY DEF openaiUserPart
<1>4. openaiAssistantCall(p) =
         IF p.kind = "text" THEN Ok(<<>>)
         ELSE IF p.kind = "call"
              THEN IF p.args # "malformed" THEN Ok(<<Plain(p)>>) ELSE Fail("ErrMalformedArgs")
              ELSE Unsupported
  BY DEF openaiAssistantCall
<1>5. "none" \in Errs /\ "ErrMalformedArgs" \in Errs BY DEF Errs
<1> QED BY <1>1, <1>2, <1>3, <1>4, <1>5

LEMMA OpenAIMessage ==
    ASSUME NEW m \in HeapMessage
    PROVE  /\ IsResolved(m) => messageToUnions(m).err \in Errs
           /\ Fit("openai", m) => messageToUnions(m).err = "none"
           /\ HasMalformed(m) => messageToUnions(m).err # "none"
<1> DEFINE n == Len(m.content)
<1>1. n \in Nat /\ DOMAIN m.content = 1..n BY HeapParts
<1>2. "none" \in Errs /\ "ErrUnsupportedRole" \in Errs BY DEF Errs
<1>3. CASE m.role \in SystemRoles
 <2>1. messageToUnions(m).err = "none" BY <1>3, WrapErr, RolesApart, RefusalErr DEF messageToUnions
 <2> QED BY <1>2, <1>3, <2>1, RolesApart DEF HasMalformed
<1>4. CASE m.role = "user"
 <2> DEFINE parts == [i \in DOMAIN m.content |-> openaiUserPart(m.content[i])]
 <2>1. messageToUnions(m).err = Collect(parts).err
   BY <1>4, WrapErr, RolesApart, RefusalErr DEF messageToUnions, openaiUserMessage, Each
 <2>2. DOMAIN parts = 1..n /\ Len(parts) = n BY <1>1
 <2>3. \A i \in 1..n : parts[i] = openaiUserPart(m.content[i]) BY <1>1
 <2> HIDE DEF parts, n
 <2>4. IsResolved(m) => \A i \in 1..n : parts[i].err \in Errs
   BY <2>3, OpenAIParts DEF IsResolved, n
 <2>5. Fit("openai", m) => \A i \in 1..n : parts[i].err = "none"
  <3> SUFFICES ASSUME Fit("openai", m), NEW i \in 1..n PROVE parts[i].err = "none" OBVIOUS
  <3>1. \/ m.content[i].kind = "text"
        \/ m.content[i].kind = "media" /\ m.content[i].mime = "image"
             /\ m.content[i].source = "data"
    BY <1>4 DEF Fit, FitPart, n
  <3> QED BY <2>3, <3>1, OpenAIParts
 <2>6. ~HasMalformed(m) BY <1>4 DEF HasMalformed
 <2>7. IsResolved(m) => Collect(parts).err \in Errs BY <1>1, <2>2, <2>4, CollectInErrs
 <2> QED BY <1>1, <2>1, <2>2, <2>5, <2>6, <2>7, CollectErr
<1>5. CASE m.role = "assistant"
 <2> DEFINE calls == [i \in DOMAIN m.content |-> openaiAssistantCall(m.content[i])]
 <2>1. messageToUnions(m).err = Collect(calls).err
   BY <1>5, WrapErr, RolesApart, RefusalErr DEF messageToUnions, openaiAssistantMessage, Each
 <2>2. DOMAIN calls = 1..n /\ Len(calls) = n BY <1>1
 <2>3. \A i \in 1..n : calls[i] = openaiAssistantCall(m.content[i]) BY <1>1
 <2> HIDE DEF calls, n
 <2>4. \A i \in 1..n : calls[i].err \in Errs BY <2>3, OpenAIParts
 <2>5. Fit("openai", m) => \A i \in 1..n : calls[i].err = "none"
  <3> SUFFICES ASSUME Fit("openai", m), NEW i \in 1..n PROVE calls[i].err = "none" OBVIOUS
  <3>1. \/ m.content[i].kind = "text"
        \/ m.content[i].kind = "call" /\ m.content[i].args # "malformed"
    BY <1>5 DEF Fit, FitPart, FitArgs, n
  <3> QED BY <2>3, <3>1, OpenAIParts
 <2>6. HasMalformed(m) => \E i \in 1..n : calls[i].err # "none"
   BY <2>3, OpenAIParts DEF HasMalformed, n
 <2>7. Collect(calls).err \in Errs BY <1>1, <2>2, <2>4, CollectInErrs
 <2> QED BY <1>1, <2>1, <2>2, <2>5, <2>6, <2>7, CollectErr
<1>6. CASE m.role = "tool"
 <2>1. messageToUnions(m) = toolResultMessages(m) BY <1>6, RolesApart DEF messageToUnions
 <2> QED BY <1>6, <2>1, ToolMessagesErr DEF HasMalformed
<1>7. CASE m.role \notin Roles
 <2>1. messageToUnions(m).err = "ErrUnsupportedRole"
   BY <1>7, RolesApart, RefusalErr DEF messageToUnions
 <2> QED BY <1>2, <1>7, <2>1 DEF Fit
<1> QED BY <1>3, <1>4, <1>5, <1>6, <1>7, RolesApart

\* Gemini's results are records, of which one field is changed.
IsReply(r) == r = [err |-> r.err, out |-> r.out]

LEMMA Replies ==
    /\ IsReply(Unsupported) /\ \A why : IsReply(Fail(why))
    /\ \A out : IsReply(Ok(out))
    /\ \A role, r : IsReply(r) => Content(role, r).err = r.err
<1>1. IsReply(Unsupported) /\ (\A why : IsReply(Fail(why))) /\ \A out : IsReply(Ok(out))
  BY DEF IsReply, Unsupported, Fail, Ok
<1>2. ASSUME NEW role, NEW r, IsReply(r) PROVE Content(role, r).err = r.err
 <2>1. r = [err |-> r.err, out |-> r.out] BY <1>2 DEF IsReply
 <2>2. [r EXCEPT !.out = OrEmptyText(@)].err = r.err
  <3> DEFINE e == r.err
             o == r.out
  <3>1. r = [err |-> e, out |-> o] BY <2>1
  <3> HIDE DEF e, o
  <3>2. [r EXCEPT !.out = OrEmptyText(@)].err = e BY <3>1
  <3> QED BY <3>2 DEF e
 <2> QED BY <2>2, WrapErr DEF Content
<1> QED BY <1>1, <1>2

LEMMA CollectReply ==
    ASSUME NEW n \in Nat, NEW results, DOMAIN results = 1..n, Len(results) = n,
           \A i \in 1..n : IsReply(results[i])
    PROVE  IsReply(Collect(results))
<1>1. CASE \A i \in 1..n : results[i].err = "none" BY <1>1, CollectIs, Replies
<1>2. CASE \E i \in 1..n : results[i].err # "none" BY <1>2, CollectIs
<1> QED BY <1>1, <1>2

LEMMA GeminiParts ==
    ASSUME NEW p
    PROVE  /\ geminiUserPart(p).err \in Errs /\ geminiAssistantPart(p).err \in Errs
           /\ IsReply(geminiUserPart(p)) /\ IsReply(geminiAssistantPart(p))
           /\ p.kind = "text" => geminiUserPart(p).err = "none" /\ geminiAssistantPart(p).err = "none"
           /\ p.kind = "media" /\ p.source = "data" => geminiUserPart(p).err = "none"
           /\ p.kind = "call" /\ p.args \in {"", "{}", "object"} =>
                 geminiAssistantPart(p).err = "none"
           /\ p.kind = "call" /\ p.args = "malformed" => geminiAssistantPart(p).err # "none"
<1>2. geminiUserPart(p) \in {Ok(<<Plain(p)>>), Ok(<<WithMime(p)>>), Unsupported} BY DEF geminiUserPart
<1>3. p.kind = "text" \/ (p.kind = "media" /\ p.source = "data") =>
         geminiUserPart(p) \in {Ok(<<Plain(p)>>), Ok(<<WithMime(p)>>)}
  BY DEF geminiUserPart
<1>4. CASE p.kind = "text"
 <2>1. geminiAssistantPart(p) = Ok(<<Plain(p)>>) BY <1>4 DEF geminiAssistantPart
 <2> QED BY <1>2, <1>3, <1>4, <2>1, Replies, RefusalErr DEF Errs
<1>5. CASE p.kind = "call" /\ p.args \in {"", "{}", "object"}
 <2>1. geminiAssistantPart(p) = Ok(<<FunctionCall(p)>>) BY <1>5 DEF geminiAssistantPart
 <2> QED BY <1>2, <1>5, <2>1, Replies, RefusalErr DEF Errs
<1>6. CASE p.kind = "call" /\ p.args \in {"array", "malformed"}
 <2>1. geminiAssistantPart(p) = Fail("ErrMalformedArgs") BY <1>6 DEF geminiAssistantPart
 <2> QED BY <1>2, <1>6, <2>1, Replies, RefusalErr DEF Errs
<1>7. CASE p.kind # "text" /\ ~(p.kind = "call" /\ p.args \in {"", "{}", "object", "array", "malformed"})
 <2>1. geminiAssistantPart(p) = Unsupported BY <1>7 DEF geminiAssistantPart
 <2> QED BY <1>2, <1>3, <1>7, <2>1, Replies, RefusalErr DEF Errs
<1> QED BY <1>4, <1>5, <1>6, <1>7

LEMMA GeminiResult ==
    ASSUME NEW p \in HeapPart, p.kind = "result"
    PROVE  /\ geminiToolResult(p).err \in Errs
           /\ FitResult(p) => geminiToolResult(p).err = "none"
<1>1. CASE HasMedia(p.content) BY <1>1, RefusalErr, TextResultErr DEF geminiToolResult
<1>2. CASE ~HasMedia(p.content)
 <2>1. PICK x : TextResult(p) = Ok(<<x>>) BY <1>2, TextResultErr
 <2> DEFINE named == [i \in DOMAIN <<x>> |-> Ok(<<[<<x>>[i] EXCEPT !.id = NoId]>>)]
 <2>2. TextResult(p).out = <<x>> BY <2>1 DEF Ok
 <2>3. geminiToolResult(p) = Collect(named)
   BY <1>2, <2>2 DEF geminiToolResult, FunctionResponse, Each
 <2>4. DOMAIN named = 1..1 /\ Len(named) = 1 /\ 1 \in Nat OBVIOUS
 <2>5. \A i \in 1..1 : named[i].err = "none" BY DEF Ok
 <2> HIDE DEF named
 <2>6. Collect(named).err = "none" BY <2>4, <2>5, CollectErr
 <2> QED BY <2>3, <2>6 DEF Errs
<1> QED BY <1>1, <1>2

LEMMA GeminiMessage ==
    ASSUME NEW m \in HeapMessage
    PROVE  /\ geminiMessage(m).err \in Errs
           /\ Fit("gemini", m) => geminiMessage(m).err = "none"
           /\ HasMalformed(m) => geminiMessage(m).err # "none"
<1> DEFINE n == Len(m.content)
<1>1. n \in Nat /\ DOMAIN m.content = 1..n BY HeapParts
<1>2. "none" \in Errs /\ "ErrUnsupportedRole" \in Errs BY DEF Errs
<1>3. CASE m.role \in SystemRoles
 <2>1. geminiMessage(m).err = "none" BY <1>3, WrapErr, RolesApart, RefusalErr DEF geminiMessage
 <2> QED BY <1>2, <1>3, <2>1, RolesApart DEF HasMalformed
<1>4. CASE m.role \in {"user", "assistant"}
 <2> DEFINE part(p) == IF m.role = "user" THEN geminiUserPart(p) ELSE geminiAssistantPart(p)
            parts   == [i \in DOMAIN m.content |-> part(m.content[i])]
 <2>1. geminiMessage(m) = Content(m.role, Collect(parts))
  <3>1. CASE m.role = "user" BY <3>1, RolesApart DEF geminiMessage, userContent, Each
  <3>2. CASE m.role = "assistant" BY <3>2, RolesApart DEF geminiMessage, assistantContent, Each
  <3> QED BY <1>4, <3>1, <3>2
 <2>2. DOMAIN parts = 1..n /\ Len(parts) = n /\ \A i \in 1..n : parts[i] = part(m.content[i])
   BY <1>1
 <2>3. \A p : part(p).err \in Errs /\ IsReply(part(p)) BY GeminiParts
 <2> HIDE DEF parts, n
 <2>4. Fit("gemini", m) => \A i \in 1..n : parts[i].err = "none"
  <3> SUFFICES ASSUME Fit("gemini", m), NEW i \in 1..n PROVE part(m.content[i]).err = "none"
    BY <2>2
  <3>1. \/ m.content[i].kind = "text"
        \/ m.role = "user" /\ m.content[i].kind = "media" /\ m.content[i].source = "data"
        \/ m.role = "assistant" /\ m.content[i].kind = "call"
             /\ m.content[i].args \in {"", "{}", "object"}
    BY <1>4 DEF Fit, FitPart, FitArgs, n
  <3> QED BY <1>4, <3>1, GeminiParts
 <2>5. HasMalformed(m) => \E i \in 1..n : parts[i].err # "none"
   BY <2>2, GeminiParts DEF HasMalformed, n
 <2> HIDE DEF part
 <2>6. Collect(parts).err \in Errs /\ IsReply(Collect(parts))
   BY <1>1, <2>2, <2>3, CollectInErrs, CollectReply
 <2>7. geminiMessage(m).err = Collect(parts).err BY <2>1, <2>6, Replies
 <2> QED BY <1>1, <2>2, <2>4, <2>5, <2>6, <2>7, CollectErr
<1>5. CASE m.role = "tool"
 <2> DEFINE results == Kind(m.content, "result")
            texts   == [i \in DOMAIN results |-> geminiToolResult(results[i])]
 <2>1. geminiMessage(m).err = IF results = <<>> THEN Unsupported.err ELSE Collect(texts).err
   BY <1>5, WrapErr, RolesApart DEF geminiMessage, toolResultContent, ToolResults, Each
 <2>2. /\ Len(results) \in Nat /\ DOMAIN results = 1..Len(results)
       /\ \A j \in 1..Len(results) : results[j] \in HeapPart /\ results[j].kind = "result"
       /\ Fit("gemini", m) => /\ results # <<>>
                              /\ \A j \in 1..Len(results) : FitResult(results[j])
   BY <1>5, ResultsOf
 <2> HIDE DEF results
 <2>3. DOMAIN texts = 1..Len(results) /\ Len(texts) = Len(results) BY <2>2
 <2>4. \A i \in 1..Len(results) : texts[i] = geminiToolResult(results[i]) BY <2>2
 <2> HIDE DEF texts
 <2>5. \A i \in 1..Len(results) : texts[i].err \in Errs BY <2>2, <2>4, GeminiResult
 <2>6. Fit("gemini", m) => \A i \in 1..Len(results) : texts[i].err = "none"
   BY <2>2, <2>4, GeminiResult
 <2>7. Collect(texts).err \in Errs BY <2>2, <2>3, <2>5, CollectInErrs
 <2>8. Fit("gemini", m) => Collect(texts).err = "none" BY <2>2, <2>3, <2>6, CollectErr
 <2>9. ~HasMalformed(m) BY <1>5 DEF HasMalformed
 <2> QED BY <2>1, <2>2, <2>7, <2>8, <2>9, RefusalErr
<1>6. CASE m.role \notin Roles
 <2>1. geminiMessage(m).err = "ErrUnsupportedRole"
   BY <1>6, RolesApart, RefusalErr DEF geminiMessage
 <2> QED BY <1>2, <1>6, <2>1 DEF Fit
<1> QED BY <1>3, <1>4, <1>5, <1>6, RolesApart

LEMMA OllamaParts ==
    ASSUME NEW p
    PROVE  /\ ollamaToolCall(p).err \in Errs
           /\ p.source # "url" => ollamaImage(p).err \in Errs
           /\ p.mime = "image" /\ p.source = "data" => ollamaImage(p).err = "none"
           /\ p.args \in {"", "{}", "object"} => ollamaToolCall(p).err = "none"
           /\ p.args = "malformed" => ollamaToolCall(p).err # "none"
<1>1. "none" \in Errs /\ "ErrMalformedArgs" \in Errs /\ Unsupported.err \in Errs
  BY RefusalErr DEF Errs
<1>2. ollamaToolCall(p) = IF p.args \in {"array", "malformed"} THEN Fail("ErrMalformedArgs")
                          ELSE Ok(<<Plain(p)>>)
  BY DEF ollamaToolCall
<1>3. ollamaImage(p) = IF ~isOllamaImageMediaPart(p) THEN Unsupported
                       ELSE IF p.source = "url" THEN Fail("ErrMediaNotResolved")
                       ELSE IF p.source = "nothing" THEN Unsupported ELSE Ok(<<ImageData(p)>>)
  BY DEF ollamaImage
<1>4. p.mime = "image" => isOllamaImageMediaPart(p) BY DEF isOllamaImageMediaPart
<1>5. ollamaToolCall(p).err \in Errs
      /\ (p.args \in {"", "{}", "object"} => ollamaToolCall(p).err = "none")
      /\ (p.args = "malformed" => ollamaToolCall(p).err # "none")
  BY <1>1, <1>2, RefusalErr
<1>6. /\ p.source # "url" => ollamaImage(p).err \in Errs
      /\ p.mime = "image" /\ p.source = "data" => ollamaImage(p).err = "none"
  BY <1>1, <1>3, <1>4, RefusalErr
<1> QED BY <1>5, <1>6

LEMMA OllamaMessage ==
    ASSUME NEW m \in HeapMessage
    PROVE  /\ IsResolved(m) => translateMessage(m).err \in Errs
           /\ Fit("ollama", m) => translateMessage(m).err = "none"
           /\ HasMalformed(m) => translateMessage(m).err # "none"
<1>1. "none" \in Errs /\ "ErrUnsupportedRole" \in Errs /\ Unsupported.err \in Errs \ {"none"}
  BY RefusalErr DEF Errs
<1>2. \A role, blocks : ollamaPassingOver(role, m, blocks).err = blocks.err
  BY WrapErr, RefusalErr DEF ollamaPassingOver
<1>3. m.content \in Seq(HeapPart) BY HeapParts
<1>4. CASE m.role # "user" /\ m.role \in Roles /\ HasMedia(m.content)
 <2>1. translateMessage(m) = Unsupported BY <1>4 DEF translateMessage
 <2>2. ~Fit("ollama", m)
  <3>1. Kind(m.content, "media") # <<>> BY <1>4 DEF HasMedia
  <3>2. PICK i \in 1..Len(m.content) : m.content[i].kind = "media" BY <1>3, <3>1, NoneOfKind
  <3>3. ~FitPart("ollama", m.content[i], m.role) BY <1>4, <3>2 DEF FitPart, FitResult
  <3> QED BY <3>3 DEF Fit
 <2> QED BY <1>1, <2>1, <2>2
<1> DEFINE passes == ~(m.role # "user" /\ m.role \in Roles /\ HasMedia(m.content))
<1>5. CASE passes /\ m.role \in SystemRoles
 <2>1. translateMessage(m).err = "none" BY <1>2, <1>5, RolesApart, RefusalErr DEF translateMessage
 <2> QED BY <1>1, <1>5, <2>1, RolesApart DEF HasMalformed
<1>6. CASE m.role = "user"
 <2> DEFINE media  == Kind(m.content, "media")
            images == [i \in DOMAIN media |-> ollamaImage(media[i])]
 <2>1. translateMessage(m).err = Collect(images).err
   BY <1>2, <1>6, RolesApart DEF translateMessage, Each
 <2>2. /\ Len(media) \in Nat /\ DOMAIN media = 1..Len(media)
       /\ \A j \in 1..Len(media) : media[j].kind = "media"
                                   /\ \E i \in 1..Len(m.content) : media[j] = m.content[i]
   BY <1>3, KindHas
 <2> HIDE DEF media
 <2>3. DOMAIN images = 1..Len(media) /\ Len(images) = Len(media) BY <2>2
 <2>4. \A i \in 1..Len(media) : images[i] = ollamaImage(media[i]) BY <2>2
 <2> HIDE DEF images
 <2>5. IsResolved(m) => \A i \in 1..Len(media) : images[i].err \in Errs
   BY <2>2, <2>4, OllamaParts DEF IsResolved
 <2>6. Fit("ollama", m) => \A i \in 1..Len(media) : images[i].err = "none"
  <3> SUFFICES ASSUME Fit("ollama", m), NEW j \in 1..Len(media) PROVE images[j].err = "none"
    OBVIOUS
  <3>1. PICK i \in 1..Len(m.content) : media[j] = m.content[i] /\ m.content[i].kind = "media"
    BY <2>2
  <3>2. m.content[i].mime = "image" /\ m.content[i].source = "data"
    BY <3>1 DEF Fit, FitPart, FitResult
  <3> QED BY <2>4, <3>1, <3>2, OllamaParts
 <2>7. IsResolved(m) => Collect(images).err \in Errs BY <2>2, <2>3, <2>5, CollectInErrs
 <2>8. Fit("ollama", m) => Collect(images).err = "none" BY <2>2, <2>3, <2>6, CollectErr
 <2> QED BY <1>6, <2>1, <2>7, <2>8 DEF HasMalformed
<1>7. CASE passes /\ m.role = "assistant"
 <2> DEFINE calls  == Kind(m.content, "call")
            made   == [i \in DOMAIN calls |-> ollamaToolCall(calls[i])]
 <2>1. translateMessage(m).err = Collect(made).err
   BY <1>2, <1>7, RolesApart DEF translateMessage, Each
 <2>2. /\ Len(calls) \in Nat /\ DOMAIN calls = 1..Len(calls)
       /\ \A j \in 1..Len(calls) : calls[j].kind = "call"
                                   /\ \E i \in 1..Len(m.content) : calls[j] = m.content[i]
       /\ \A i \in 1..Len(m.content) : m.content[i].kind = "call" =>
             \E j \in 1..Len(calls) : calls[j] = m.content[i]
   BY <1>3, KindHas
 <2> HIDE DEF calls
 <2>3. DOMAIN made = 1..Len(calls) /\ Len(made) = Len(calls) BY <2>2
 <2>4. \A i \in 1..Len(calls) : made[i] = ollamaToolCall(calls[i]) BY <2>2
 <2> HIDE DEF made
 <2>5. \A i \in 1..Len(calls) : made[i].err \in Errs BY <2>4, OllamaParts
 <2>6. Fit("ollama", m) => \A i \in 1..Len(calls) : made[i].err = "none"
  <3> SUFFICES ASSUME Fit("ollama", m), NEW j \in 1..Len(calls) PROVE made[j].err = "none" OBVIOUS
  <3>1. PICK i \in 1..Len(m.content) : calls[j] = m.content[i] /\ m.content[i].kind = "call"
    BY <2>2
  <3>2. m.content[i].args \in {"", "{}", "object"} BY <3>1 DEF Fit, FitPart, FitArgs, FitResult
  <3> QED BY <2>4, <3>1, <3>2, OllamaParts
 <2>7. HasMalformed(m) => \E j \in 1..Len(calls) : made[j].err # "none"
  <3> SUFFICES ASSUME HasMalformed(m) PROVE \E j \in 1..Len(calls) : made[j].err # "none" OBVIOUS
  <3>1. PICK i \in 1..Len(m.content) : m.content[i].kind = "call" /\ m.content[i].args = "malformed"
    BY DEF HasMalformed
  <3>2. PICK j \in 1..Len(calls) : calls[j] = m.content[i] BY <2>2, <3>1
  <3> QED BY <2>4, <3>1, <3>2, OllamaParts
 <2>8. Collect(made).err \in Errs BY <2>2, <2>3, <2>5, CollectInErrs
 <2>9. Collect(made).err = "none" <=> \A i \in 1..Len(calls) : made[i].err = "none"
   BY <2>2, <2>3, CollectErr
 <2> QED BY <2>1, <2>6, <2>7, <2>8, <2>9
<1>8. CASE passes /\ m.role = "tool"
 <2>1. translateMessage(m) = toolResultMessages(m) BY <1>8, RolesApart DEF translateMessage
 <2> QED BY <1>8, <2>1, ToolMessagesErr DEF HasMalformed
<1>9. CASE m.role \notin Roles
 <2>1. translateMessage(m).err = "ErrUnsupportedRole"
   BY <1>9, RolesApart, RefusalErr DEF translateMessage
 <2>2. "assistant" \in Roles BY DEF Roles
 <2> QED BY <1>1, <1>9, <2>1, <2>2 DEF Fit, HasMalformed
<1> QED BY <1>4, <1>5, <1>6, <1>7, <1>8, <1>9, RolesApart

----------------------------------------
\* A whole execution.
MessageOf(who, m) ==
    CASE who = "openai"    -> messageToUnions(m)
      [] who = "anthropic" -> anthropicMessage(m)
      [] who = "gemini"    -> geminiMessage(m)
      [] who = "ollama"    -> translateMessage(m)

\* Whether a provider takes the format with the tools, and what it says if not.
FormatFits(who, e) ==
    CASE who = "anthropic" -> e.format = <<>> \/ e.tools = <<>>
      [] who = "ollama"    -> e.format = <<>>
      [] OTHER             -> TRUE

FormatErrs == {"ErrConflictingDirectives", "ErrStructuredOutputNotSupported"}

LEMMA MessageErr ==
    ASSUME NEW who \in Providers, NEW m \in HeapMessage
    PROVE  /\ IsResolved(m) => MessageOf(who, m).err \in Errs
           /\ Fit(who, m) => MessageOf(who, m).err = "none"
           /\ HasMalformed(m) => MessageOf(who, m).err # "none"
<1>1. CASE who = "openai" BY <1>1, OpenAIMessage DEF MessageOf
<1>2. CASE who = "anthropic" BY <1>2, AnthropicMessage DEF MessageOf
<1>3. CASE who = "gemini" BY <1>3, GeminiMessage DEF MessageOf
<1>4. CASE who = "ollama" BY <1>4, OllamaMessage DEF MessageOf
<1> QED BY <1>1, <1>2, <1>3, <1>4 DEF Providers

LEMMA TranslateErr ==
    ASSUME NEW who \in Providers, NEW e, e.messages \in Seq(HeapMessage)
    PROVE  /\ Translate(who, e).err = "none" <=>
                 /\ FormatFits(who, e)
                 /\ \A k \in 1..Len(e.messages) : MessageOf(who, e.messages[k]).err = "none"
           /\ (\A k \in 1..Len(e.messages) : MessageOf(who, e.messages[k]).err \in Errs) =>
                 Translate(who, e).err \in Errs \cup FormatErrs
<1> DEFINE n == Len(e.messages)
           r == Collect([k \in DOMAIN e.messages |-> MessageOf(who, e.messages[k])])
<1>1. n \in Nat /\ DOMAIN e.messages = 1..n OBVIOUS
<1>2. /\ r.err = "none" <=> \A k \in 1..n : MessageOf(who, e.messages[k]).err = "none"
      /\ (\A k \in 1..n : MessageOf(who, e.messages[k]).err \in Errs) => r.err \in Errs
 <2> DEFINE results == [k \in DOMAIN e.messages |-> MessageOf(who, e.messages[k])]
 <2>1. DOMAIN results = 1..n /\ Len(results) = n BY <1>1
 <2>2. \A k \in 1..n : results[k] = MessageOf(who, e.messages[k]) BY <1>1
 <2> HIDE DEF results, n
 <2> QED BY <1>1, <2>1, <2>2, CollectErr, CollectInErrs DEF results
<1>4. \A q, a, b, c, d : Request(q, a, b, c, d).err = q.err BY DEF Request, Refused
<1>5. \A why : Refused(why).err = why BY DEF Refused
<1>6. Translate(who, e).err = IF FormatFits(who, e) THEN r.err
                              ELSE IF who = "anthropic" THEN "ErrConflictingDirectives"
                                                        ELSE "ErrStructuredOutputNotSupported"
 <2>1. CASE who = "openai"
   BY <1>4, <2>1 DEF Translate, openaiTranslate, Each, MessageOf, FormatFits
 <2>2. CASE who = "anthropic"
   BY <1>4, <1>5, <2>2 DEF Translate, anthropicTranslate, Each, MessageOf, FormatFits
 <2>3. CASE who = "gemini"
   BY <1>4, <2>3 DEF Translate, geminiTranslate, Each, MessageOf, FormatFits
 <2>4. CASE who = "ollama"
   BY <1>4, <1>5, <2>4 DEF Translate, ollamaTranslate, Each, MessageOf, FormatFits
 <2> QED BY <2>1, <2>2, <2>3, <2>4 DEF Providers
<1> HIDE DEF r
<1> QED BY <1>2, <1>6 DEF FormatErrs

----------------------------------------
\* What was sent.
IsExecution(e) ==
    /\ e = [messages |-> e.messages, tools |-> e.tools, format |-> e.format]
    /\ e.messages \in Seq(HeapMessage)

SentInv == sent # <<>> => IsExecution(Requested) /\ Received = Translate(provider, Requested)

LEMMA NextSent ==
    ASSUME TypeInv, SentInv, [Next]_vars
    PROVE  SentInv'
<1>1. CASE UNCHANGED <<sent, provider>> BY <1>1 DEF SentInv, Requested, Received
<1>2. CASE sent' = <<>> BY <1>2 DEF SentInv
<1>3. CASE ClientTranslates
 <2>1. sent' = <<Execution, Translate(provider, Execution)>> /\ provider' = provider
   BY <1>3 DEF ClientTranslates, clientVars
 <2>2. heap[request] \in Seq(HeapMessage)
   BY <1>3, TypeFacts DEF ClientTranslates, TypeInv, NoRequest
 <2>3. IsExecution(Execution) BY <2>2 DEF Execution, IsExecution
 <2> QED BY <2>1, <2>3 DEF SentInv, Requested, Received
<1> QED
  BY <1>1, <1>2, <1>3 DEF Next, vars, clientVars, StartAttempt, Receive, Fails, MiddlewareRefuses,
                          Write

----------------------------------------
\* The portable vocabulary fits every provider.
IsPortable(m) ==
    /\ m.cache # "other" /\ m.role \in Roles
    /\ m.role = "tool" => m.content # <<>>
    /\ \A i \in DOMAIN m.content : Portable(m.content[i], m.role)

LEMMA PortablePart ==
    ASSUME NEW who, NEW p, NEW role \in Roles, Portable(p, role)
    PROVE  FitPart(who, p, role) /\ (role = "tool" => p.kind = "result")
<1>1. p.cache # "other" BY DEF Portable
<1>2. CASE role \in SystemRoles BY <1>1, <1>2, RolesApart DEF Portable, FitPart
<1>3. CASE role = "user" BY <1>1, <1>3, RolesApart DEF Portable, FitPart
<1>4. CASE role = "assistant"
 <2>1. {"", "{}", "object"} \subseteq FitArgs(who) BY DEF FitArgs, Args
 <2> QED BY <1>1, <1>4, <2>1, RolesApart DEF Portable, FitPart
<1>5. CASE role = "tool" BY <1>1, <1>5, RolesApart DEF Portable, FitPart, FitResult
<1> QED BY <1>2, <1>3, <1>4, <1>5, RolesApart

LEMMA PortableFits ==
    ASSUME NEW who, NEW m \in HeapMessage, IsPortable(m)
    PROVE  Fit(who, m)
<1>1. Len(m.content) \in Nat /\ DOMAIN m.content = 1..Len(m.content) BY HeapParts
<1>2. m.cache # "other" /\ m.role \in Roles BY DEF IsPortable
<1>3. \A i \in 1..Len(m.content) : FitPart(who, m.content[i], m.role)
  BY <1>1, <1>2, PortablePart DEF IsPortable
<1>4. m.role = "tool" => \E i \in 1..Len(m.content) : m.content[i].kind = "result"
 <2> SUFFICES ASSUME m.role = "tool"
              PROVE  \E i \in 1..Len(m.content) : m.content[i].kind = "result"
   OBVIOUS
 <2>1. m.content # <<>> BY DEF IsPortable
 <2>2. 1 \in 1..Len(m.content)
  <3>1. m.content \in Seq(HeapPart) BY HeapParts
  <3> QED BY <2>1, <3>1
 <2>3. Portable(m.content[1], "tool") BY <1>1, <2>2 DEF IsPortable
 <2> QED BY <2>2, <2>3, PortablePart DEF Roles
<1> QED BY <1>2, <1>3, <1>4 DEF Fit

\* ResolvedMedia gives messages with no media left to resolve, if no body was empty.
ResolvedPart(p, served) ==
    IF p.kind = "media" /\ p.source = "url" THEN [p EXCEPT !.source = "data", !.mime = served] ELSE p

LEMMA ResolvedPartType ==
    ASSUME NEW p \in HeapPart, NEW served \in Mimes
    PROVE  /\ ResolvedPart(p, served) \in HeapPart
           /\ ~(ResolvedPart(p, served).kind = "media" /\ ResolvedPart(p, served).source = "url")
<1>1. CASE p.kind = "media" /\ p.source = "url"
 <2>1. p \in MediaPart
   BY <1>1 DEF HeapPart, Mark, Text, NativePart, ContentPart, TextPart, ReasoningPart, ToolCallPart,
               ToolResultPart
 <2>2. [p EXCEPT !.source = "data", !.mime = served] \in MediaPart BY <2>1 DEF MediaPart, Sources
 <2>3. [p EXCEPT !.source = "data", !.mime = served].source = "data" BY <2>1 DEF MediaPart
 <2> QED BY <1>1, <2>2, <2>3 DEF ResolvedPart, HeapPart, NativePart, ContentPart
<1>2. CASE ~(p.kind = "media" /\ p.source = "url") BY <1>2 DEF ResolvedPart
<1> QED BY <1>1, <1>2

ResolvedMessage(m, served) ==
    [m EXCEPT !.content = [i \in DOMAIN @ |-> ResolvedPart(@[i], served)]]

LEMMA ResolvedMessageType ==
    ASSUME NEW m \in HeapMessage, NEW served \in Mimes
    PROVE  ResolvedMessage(m, served) \in HeapMessage /\ IsResolved(ResolvedMessage(m, served))
<1> DEFINE content == [i \in DOMAIN m.content |-> ResolvedPart(m.content[i], served)]
<1>1. Len(m.content) \in Nat /\ DOMAIN m.content = 1..Len(m.content) BY HeapParts
<1>2. \A i \in 1..Len(m.content) :
          /\ ResolvedPart(m.content[i], served) \in HeapPart
          /\ ~(/\ ResolvedPart(m.content[i], served).kind = "media"
               /\ ResolvedPart(m.content[i], served).source = "url")
  BY HeapParts, ResolvedPartType
<1>3. /\ DOMAIN content = 1..Len(m.content)
      /\ \A i \in 1..Len(m.content) : content[i] = ResolvedPart(m.content[i], served)
  BY <1>1
<1>4. content = [i \in 1..Len(m.content) |-> ResolvedPart(m.content[i], served)] BY <1>1
<1>5. content \in Seq(HeapPart) /\ Len(content) = Len(m.content) BY <1>1, <1>2, <1>4
<1>6. ResolvedMessage(m, served) = [m EXCEPT !.content = content] BY DEF ResolvedMessage
<1> HIDE DEF content
<1>7. /\ ResolvedMessage(m, served) \in HeapMessage
      /\ ResolvedMessage(m, served).content = content
  BY <1>5, <1>6 DEF HeapMessage
<1> QED BY <1>2, <1>3, <1>5, <1>7 DEF IsResolved

LEMMA ResolvedMediaType ==
    ASSUME NEW ms \in Seq(HeapMessage), NEW served \in Mimes
    PROVE  /\ ResolvedMedia(ms, served, FALSE) \in Seq(HeapMessage)
           /\ \A k \in 1..Len(ResolvedMedia(ms, served, FALSE)) : IsResolved(ResolvedMedia(ms, served, FALSE)[k])
<1>1. Len(ms) \in Nat /\ DOMAIN ms = 1..Len(ms) /\ \A k \in 1..Len(ms) : ms[k] \in HeapMessage
  BY ElementOfSeq
<1>2. ResolvedMedia(ms, served, FALSE) = [k \in 1..Len(ms) |-> ResolvedMessage(ms[k], served)]
  BY <1>1 DEF ResolvedMedia, ResolvedMessage, ResolvedPart
<1>3. \A k \in 1..Len(ms) : /\ ResolvedMessage(ms[k], served) \in HeapMessage
                            /\ IsResolved(ResolvedMessage(ms[k], served))
  BY <1>1, ResolvedMessageType
<1> DEFINE out == [k \in 1..Len(ms) |-> ResolvedMessage(ms[k], served)]
<1>4. Len(out) = Len(ms) /\ out \in Seq(HeapMessage) BY <1>1, <1>3
<1>5. \A k \in 1..Len(out) : IsResolved(out[k]) BY <1>3, <1>4
<1> QED BY <1>2, <1>4, <1>5

(***************************************************************************)
(* No adapter refuses a conversation in the portable vocabulary, and after *)
(* ResolvedMedia one says that a URL is unresolved only where an empty     *)
(* body was fetched.                                                       *)
(***************************************************************************)
THEOREM PortableConversationsAreTaken == Spec => []PortableIsAccepted
<1>1. Init => SentInv BY DEF Init, SentInv
<1>2. TypeInv /\ SentInv => PortableIsAccepted
 <2> SUFFICES ASSUME TypeInv, SentInv, sent # <<>>, Received.err # "none"
              PROVE  PortableIsAccepted
   BY DEF PortableIsAccepted
 <2> DEFINE e == Requested
 <2>1. /\ e = [messages |-> e.messages, tools |-> e.tools, format |-> e.format]
       /\ e.messages \in Seq(HeapMessage) /\ Received = Translate(provider, e)
       /\ provider \in Providers
   BY DEF SentInv, IsExecution, TypeInv
 <2>2. Len(e.messages) \in Nat /\ DOMAIN e.messages = 1..Len(e.messages)
       /\ \A k \in 1..Len(e.messages) : e.messages[k] \in HeapMessage
   BY <2>1, ElementOfSeq
 <2>3. e.format # <<>> \/ \E k \in DOMAIN e.messages : ~IsPortable(e.messages[k])
  <3> SUFFICES ASSUME e.format = <<>>, \A k \in DOMAIN e.messages : IsPortable(e.messages[k])
               PROVE  FALSE
    OBVIOUS
  <3>1. FormatFits(provider, e) BY DEF FormatFits
  <3> HIDE DEF e
  <3>2. \A k \in 1..Len(e.messages) : MessageOf(provider, e.messages[k]).err = "none"
    BY <2>1, <2>2, PortableFits, MessageErr
  <3> QED BY <2>1, <3>1, <3>2, TranslateErr
 <2>4. ASSUME NEW served \in Mimes
       PROVE  Translate(provider, [e EXCEPT !.messages = ResolvedMedia(@, served, FALSE)]).err
                # "ErrMediaNotResolved"
  <3> DEFINE r == [e EXCEPT !.messages = ResolvedMedia(@, served, FALSE)]
  <3> HIDE DEF e
  <3>1. r.messages = ResolvedMedia(e.messages, served, FALSE) BY <2>1
  <3>2. r.messages \in Seq(HeapMessage)
        /\ \A k \in 1..Len(r.messages) : IsResolved(r.messages[k])
    BY <2>1, <3>1, ResolvedMediaType
  <3> HIDE DEF r
  <3>3. \A k \in 1..Len(r.messages) : MessageOf(provider, r.messages[k]).err \in Errs
    BY <2>1, <3>2, MessageErr, ElementOfSeq
  <3>4. Translate(provider, r).err \in Errs \cup FormatErrs BY <2>1, <3>2, <3>3, TranslateErr
  <3> QED BY <3>4 DEF r, Errs, FormatErrs
 <2>5. ASSUME NEW served \in Mimes, NEW empty \in BOOLEAN
       PROVE  Translate(provider, [e EXCEPT !.messages = ResolvedMedia(@, served, empty)]).err
                = "ErrMediaNotResolved" => empty
  <3>1. CASE empty BY <3>1
  <3>2. CASE ~empty
   <4>1. empty = FALSE BY <3>2
   <4> QED BY <2>4, <4>1
  <3> QED BY <3>1, <3>2
 <2> QED BY <2>3, <2>5 DEF PortableIsAccepted, IsPortable
<1> QED BY <1>1, <1>2, InitInv, NextInv, NextSent, PTL DEF Spec

----------------------------------------
\* What the executors, and the caller, put after calls belongs to them: a result for
\* each, with its id and its name.
Belong(results, calls) ==
    /\ Len(results) = Len(calls)
    /\ \A k \in 1..Len(calls) : /\ results[k].kind = "result"
                                /\ results[k].id = calls[k].id /\ results[k].name = calls[k].name

\* What came of the attempts: answers made of what was said, and results that every
\* provider takes, those of the calls that were made.
GoodOutcome(who, o) ==
    /\ o.raw => o.kind \in {"validation", "toolcall", "valid"}
    /\ o.content \in Seq(AnswerPart(who))
    /\ \A i \in 1..Len(o.results) : FitResult(o.results[i])
    /\ o.kind = "toolcall" => o.results # <<>>
    /\ o.kind \in {"toolcall", "valid"} => Belong(o.results, Kind(o.content, "call"))
    /\ o.kind = "valid" => o.raw

LogInv == \A n \in 1..Len(log) : GoodOutcome(provider, log[n])

LEMMA LogGrows ==
    ASSUME LogInv, TypeInv, provider' = provider, NEW o, GoodOutcome(provider, o),
           log' = Append(log, o)
    PROVE  LogInv'
<1>1. log \in Seq(OutcomeType) BY DEF TypeInv
<1>2. /\ Len(log') = Len(log) + 1 /\ Len(log) \in Nat
      /\ \A n \in 1..Len(log) : log'[n] = log[n]
      /\ log'[Len(log) + 1] = o
  BY <1>1
<1>3. \A n \in 1..Len(log) + 1 : n \in 1..Len(log) \/ n = Len(log) + 1 BY <1>2
<1> QED BY <1>2, <1>3 DEF LogInv

LEMMA QuietIsGood ==
    \A who, kind : kind \notin {"toolcall", "valid"} => GoodOutcome(who, Quiet(kind))
  BY DEF GoodOutcome, Quiet, Outcome

LEMMA NewResultFits == \A id, name, t, isError : FitResult(newToolResultPart(id, name, t, isError))
  BY DEF newToolResultPart, Result, Text, FitResult

LEMMA ResultsFit ==
    ASSUME NEW calls \in Seq(ToolCallPart), NEW invalid
    PROVE  /\ Belong(toolValidationResults(calls, invalid), calls)
           /\ \A i \in 1..Len(calls) : FitResult(toolValidationResults(calls, invalid)[i])
           /\ Belong(ToolOutput(calls), calls)
           /\ \A i \in 1..Len(calls) : FitResult(ToolOutput(calls)[i])
<1>1. Len(calls) \in Nat /\ DOMAIN calls = 1..Len(calls) OBVIOUS
<1> DEFINE refused(i) ==
              newToolResultPart(calls[i].id, calls[i].name,
                                IF i \in invalid THEN << <<"invalid", 0>> >>
                                                 ELSE << <<"not executed", 0>> >>, TRUE)
           output(i) ==
              newToolResultPart(calls[i].id, calls[i].name, << <<"output", attempt, i>> >>, FALSE)
           Results(s) == /\ Len(s) = Len(calls)
                         /\ \A i \in 1..Len(calls) :
                               /\ FitResult(s[i]) /\ s[i].kind = "result"
                               /\ s[i].id = calls[i].id /\ s[i].name = calls[i].name
<1>2. /\ toolValidationResults(calls, invalid) = [i \in 1..Len(calls) |-> refused(i)]
      /\ ToolOutput(calls) = [i \in 1..Len(calls) |-> output(i)]
  BY <1>1 DEF toolValidationResults, ToolOutput
<1>3. \A i \in 1..Len(calls) : FitResult(refused(i)) /\ FitResult(output(i)) BY NewResultFits
<1>4. \A i \in 1..Len(calls) :
          /\ refused(i).kind = "result" /\ refused(i).id = calls[i].id /\ refused(i).name = calls[i].name
          /\ output(i).kind = "result" /\ output(i).id = calls[i].id /\ output(i).name = calls[i].name
  BY DEF newToolResultPart, Result
<1> HIDE DEF refused, output
<1>5. Results(toolValidationResults(calls, invalid)) /\ Results(ToolOutput(calls))
  BY <1>1, <1>2, <1>3, <1>4
<1> QED BY <1>5 DEF Belong

\* What comes of an answer.
ComesOf(content, o) ==
    LET calls == toolCallsFromContent(content)
    IN  \/ o = Quiet("done")
        \/ o = Outcome("validation", content, <<>>, TRUE)
        \/ \E invalid \in SUBSET DOMAIN calls, raw \in BOOLEAN :
              /\ invalid # {}
              /\ o = Outcome("toolcall", content, toolValidationResults(calls, invalid), raw)
        \/ o = Outcome("valid", content, ToolOutput(calls), TRUE)

LEMMA Judged ==
    ASSUME TypeInv, NEW content, Judge(content)
    PROVE  \E o : Conclude(o) /\ ComesOf(content, o)
<1> DEFINE calls == toolCallsFromContent(content)
<1>1. NoCorrection("done") => Conclude(Quiet("done")) BY DEF NoCorrection
<1>2. ValidationFails(content, TRUE) => Conclude(Outcome("validation", content, <<>>, TRUE))
  BY DEF ValidationFails
<1>3. Answered(content, ToolOutput(calls)) =>
          Conclude(Outcome("valid", content, ToolOutput(calls), TRUE))
  BY DEF Answered
<1>4. ASSUME NEW p, NEW invalid \in SUBSET DOMAIN calls, NEW raw \in BOOLEAN,
             ToolCallFails(p, content, invalid, raw)
      PROVE  \E o : Conclude(o) /\ ComesOf(content, o)
 <2>1. /\ invalid # {}
       /\ Conclude(Outcome("toolcall", content, toolValidationResults(calls, invalid), raw))
   BY <1>4 DEF ToolCallFails
 <2> QED BY <2>1 DEF ComesOf
<1>5. CASE plan.api = "execute"
 <2>1. NoCorrection("done") BY <1>5 DEF Judge
 <2> QED BY <1>1, <2>1 DEF ComesOf
<1>6. CASE plan.api = "structured"
 <2>1. \/ NoCorrection("done") \/ ValidationFails(content, TRUE)
       \/ \E invalid \in SUBSET DOMAIN calls, raw \in BOOLEAN :
             ToolCallFails(workExec, content, invalid, raw)
   BY <1>6 DEF Judge
 <2> QED BY <1>1, <1>2, <1>4, <2>1 DEF ComesOf
<1>7. CASE plan.api = "tools"
 <2>1. \/ Answered(content, ToolOutput(calls))
       \/ \E invalid \in SUBSET DOMAIN calls : ToolCallFails(request, content, invalid, TRUE)
   BY <1>7 DEF Judge
 <2> QED BY <1>3, <1>4, <2>1 DEF ComesOf
<1> QED BY <1>5, <1>6, <1>7, TypeFacts DEF Apis

LEMMA JudgeLog ==
    ASSUME TypeInv, LogInv, UNCHANGED clientVars,
           NEW content \in Seq(AnswerPart(provider)), Judge(content)
    PROVE  LogInv'
<1> DEFINE calls == toolCallsFromContent(content)
<1>1. calls \in Seq(ToolCallPart) /\ calls = Kind(content, "call")
  BY CallsType, AnswerIsNative DEF toolCallsFromContent
<1>2. ASSUME NEW results, NEW kind \in {"toolcall", "valid"}, NEW raw \in BOOLEAN,
             Belong(results, calls), \A i \in 1..Len(calls) : FitResult(results[i]),
             kind = "toolcall" => Len(calls) # 0, kind = "valid" => raw
      PROVE  GoodOutcome(provider, Outcome(kind, content, results, raw))
 <2>1. Len(results) = Len(calls) /\ Len(<<>>) = 0 BY <1>2 DEF Belong
 <2>2. kind = "toolcall" => results # <<>> BY <1>2, <2>1
 <2> HIDE DEF calls
 <2> QED BY <1>1, <1>2, <2>1, <2>2 DEF GoodOutcome, Outcome
<1>3. PICK o : Conclude(o) /\ ComesOf(content, o) BY Judged
<1> SUFFICES GoodOutcome(provider, o) BY <1>3, LogGrows DEF Conclude, clientVars
<1>4. CASE o = Quiet("done") BY <1>4, QuietIsGood
<1>5. CASE o = Outcome("validation", content, <<>>, TRUE) BY <1>5 DEF GoodOutcome, Outcome
<1>6. ASSUME NEW invalid \in SUBSET DOMAIN calls, NEW raw \in BOOLEAN, invalid # {}
      PROVE  GoodOutcome(provider, Outcome("toolcall", content,
                                           toolValidationResults(calls, invalid), raw))
 <2> HIDE DEF calls
 <2>1. Len(calls) # 0 BY <1>1, <1>6
 <2> QED BY <1>1, <1>2, <2>1, ResultsFit
<1>7. GoodOutcome(provider, Outcome("valid", content, ToolOutput(calls), TRUE))
 <2> HIDE DEF calls
 <2> QED BY <1>1, <1>2, ResultsFit
<1> QED BY <1>3, <1>4, <1>5, <1>6, <1>7 DEF ComesOf

LEMMA NextLog ==
    ASSUME TypeInv, LogInv, [Next]_vars
    PROVE  LogInv'
<1>1. ASSUME UNCHANGED <<provider, log>> PROVE LogInv' BY <1>1 DEF LogInv
<1>2. ASSUME provider' = provider, NEW kind \in {"error", "done"}, Conclude(Quiet(kind))
      PROVE  LogInv'
  BY <1>2, QuietIsGood, LogGrows DEF Conclude
<1>3. CASE StartAttempt BY <1>1, <1>2, <1>3 DEF StartAttempt, Attempt, AttemptCancelled, clientVars
<1>4. CASE ClientTranslates
  BY <1>1, <1>2, <1>4 DEF ClientTranslates, NoCorrection, execVars, clientVars
<1>5. CASE Receive
 <2>1. UNCHANGED clientVars /\ provider' = provider BY <1>5 DEF Receive, clientVars
 <2>2. CASE NoCorrection("error") BY <1>2, <2>1, <2>2 DEF NoCorrection
 <2>3. CASE \E content \in Seq(AnswerPart(provider)) : Judge(content) BY <2>1, <2>3, JudgeLog
 <2> QED BY <1>5, <2>2, <2>3, Receives
<1>6. CASE Fails BY <1>2, <1>6 DEF Fails, NoCorrection, clientVars
<1>7. CASE MiddlewareRefuses
 <2>1. GoodOutcome(provider, Outcome("validation", <<>>, <<>>, FALSE)) BY DEF GoodOutcome, Outcome
 <2> QED BY <1>7, <2>1, LogGrows DEF MiddlewareRefuses, ValidationFails, Conclude, clientVars
<1>8. CASE Write BY <1>1, <1>8 DEF Write, Scribble, clientVars
<1>9. CASE UNCHANGED vars BY <1>1, <1>9 DEF vars, execVars
<1> QED BY <1>3, <1>4, <1>5, <1>6, <1>7, <1>8, <1>9 DEF Next

----------------------------------------
\* What the attempts leave in the conversation fits the provider, but for answers with
\* arguments that are no JSON.
HasPoison(o) ==
    o.raw /\ \E k \in DOMAIN o.content :
        o.content[k].kind = "call" /\ o.content[k].args = "malformed"

Fitting(who) == {m \in NativeMessage : Fit(who, m)}

LEMMA MessageFields == \A role, content :
    /\ Message(role, content).role = role
    /\ Message(role, content).content = content
    /\ Message(role, content).cache = "unset"
  BY DEF Message

LEMMA FeedbackFits ==
    ASSUME NEW who, NEW n \in Nat
    PROVE  Feedback(n) \in Fitting(who)
<1> DEFINE t == Text(<< <<"feedback", n>> >>)
<1>1. t.kind = "text" /\ t.cache = "unset" BY DEF Text
<1>2. FitPart(who, t, "user")
 <2> HIDE DEF t
 <2> QED BY <1>1 DEF FitPart
<1>3. Feedback(n) = Message("user", <<t>>) BY DEF Feedback, NewUserMessage
<1> HIDE DEF t
<1>4. Feedback(n).content = <<t>> /\ Feedback(n).role = "user" /\ Feedback(n).cache = "unset"
  BY <1>3, MessageFields
<1>5. Fit(who, Feedback(n))
 <2>1. Len(<<t>>) = 1 /\ \A i \in 1..1 : <<t>>[i] = t OBVIOUS
 <2> QED BY <1>2, <1>4, <2>1 DEF Fit, Roles
<1> QED BY <1>5, MessageTypes DEF Fitting

LEMMA AnswerFits ==
    ASSUME NEW who, NEW content \in Seq(AnswerPart(who)),
           ~\E k \in DOMAIN content : content[k].kind = "call" /\ content[k].args = "malformed"
    PROVE  Message("assistant", content) \in Fitting(who)
<1> DEFINE m == Message("assistant", content)
<1>1. ASSUME NEW i \in 1..Len(content) PROVE FitPart(who, content[i], "assistant")
 <2>1. content[i] \in AnswerPart(who) /\ i \in DOMAIN content BY ElementOfSeq
 <2>2. CASE content[i] \in Spoken BY <2>2 DEF Spoken, TextPart, FitPart
 <2>3. CASE content[i] \in CallOf(who)
  <3>1. content[i].kind = "call" /\ content[i].cache = "unset"
        /\ content[i].args \in FitArgs(who) \cup {"malformed"}
    BY <2>3 DEF CallOf, ToolCallPart
  <3> QED BY <2>1, <3>1 DEF FitPart
 <2> QED BY <2>1, <2>2, <2>3 DEF AnswerPart
<1>2. m.role = "assistant" /\ m.content = content /\ m.cache = "unset" BY MessageFields
<1>3. m \in NativeMessage BY AnswerIsNative, MessageTypes
<1> HIDE DEF m
<1>4. Fit(who, m) BY <1>1, <1>2 DEF Fit, Roles
<1> QED BY <1>3, <1>4 DEF Fitting, m

LEMMA ToolMessageFits ==
    ASSUME NEW who, NEW results \in Seq(NativePart), results # <<>>,
           \A i \in 1..Len(results) : FitResult(results[i])
    PROVE  Message("tool", results) \in Fitting(who)
<1> DEFINE m == Message("tool", results)
<1>1. \A i \in 1..Len(results) : FitPart(who, results[i], "tool") /\ results[i].kind = "result"
  BY DEF FitPart, FitResult
<1>2. 1 \in 1..Len(results) OBVIOUS
<1>3. m.role = "tool" /\ m.content = results /\ m.cache = "unset" /\ m \in NativeMessage
  BY MessageFields, MessageTypes
<1> HIDE DEF m
<1>4. Fit(who, m) BY <1>1, <1>2, <1>3 DEF Fit, Roles
<1> QED BY <1>3, <1>4 DEF Fitting, m

LEMMA TraceFits ==
    ASSUME NEW who, NEW n \in Nat, NEW o \in OutcomeType, GoodOutcome(who, o), ~HasPoison(o)
    PROVE  Trace(n, o) \in Seq(Fitting(who))
<1> DEFINE raw == IF o.raw THEN <<Message("assistant", o.content)>> ELSE <<>>
<1>1. raw \in Seq(Fitting(who))
 <2>1. CASE o.raw
  <3>1. Message("assistant", o.content) \in Fitting(who)
    BY <2>1, AnswerFits DEF GoodOutcome, HasPoison
  <3> QED BY <2>1, <3>1
 <2>2. CASE ~o.raw BY <2>2
 <2> QED BY <2>1, <2>2
<1>2. o.results # <<>> => Message("tool", o.results) \in Fitting(who)
  BY ToolMessageFits DEF GoodOutcome, OutcomeType
<1>3. Feedback(n) \in Fitting(who) BY FeedbackFits
<1>4. CASE o.kind = "validation"
 <2>1. Trace(n, o) = Append(raw, Feedback(n)) BY <1>4 DEF Trace
 <2> HIDE DEF raw
 <2> QED BY <1>1, <1>3, <2>1
<1>5. CASE o.kind = "toolcall"
 <2>1. Trace(n, o) = Append(raw, Message("tool", o.results)) BY <1>5 DEF Trace
 <2>2. Message("tool", o.results) \in Fitting(who) BY <1>2, <1>5 DEF GoodOutcome
 <2> HIDE DEF raw
 <2> QED BY <1>1, <2>1, <2>2
<1>6. CASE o.kind = "valid"
 <2>1. Trace(n, o) = raw \o ToolMessage(o.results) BY <1>6 DEF Trace
 <2>2. ToolMessage(o.results) \in Seq(Fitting(who))
   BY <1>2 DEF ToolMessage, newToolMessageWithContent
 <2> HIDE DEF raw
 <2> QED BY <1>1, <2>1, <2>2
<1>7. CASE o.kind \notin {"validation", "toolcall", "valid"}
 <2>1. Trace(n, o) = <<>> BY <1>7 DEF Trace
 <2> QED BY <2>1
<1> QED BY <1>4, <1>5, <1>6, <1>7

LEMMA TraceHasPoison ==
    ASSUME NEW who, NEW n \in Nat, NEW o \in OutcomeType, GoodOutcome(who, o), HasPoison(o)
    PROVE  \E j \in 1..Len(Trace(n, o)) : HasMalformed(Trace(n, o)[j])
<1> DEFINE m == Message("assistant", o.content)
<1>1. o.raw /\ o.kind \in {"validation", "toolcall", "valid"} BY DEF HasPoison, GoodOutcome
<1>2. o.content \in Seq(NativePart) /\ o.results \in Seq(NativePart) BY DEF OutcomeType
<1>3. m.role = "assistant" /\ m.content = o.content BY MessageFields
<1>4. HasMalformed(m)
 <2>1. DOMAIN o.content = 1..Len(o.content) BY <1>2
 <2> HIDE DEF m
 <2> QED BY <1>3, <2>1 DEF HasMalformed, HasPoison
<1>5. ToolMessage(o.results) \in Seq(NativeMessage)
  BY <1>2, MessageTypes DEF ToolMessage, newToolMessageWithContent
<1>6. m \in NativeMessage BY <1>2, MessageTypes
<1>7. \/ Trace(n, o) = Append(<<m>>, Feedback(n))
      \/ Trace(n, o) = Append(<<m>>, Message("tool", o.results))
      \/ Trace(n, o) = <<m>> \o ToolMessage(o.results)
  BY <1>1 DEF Trace
<1> HIDE DEF m
<1>8. 1 \in 1..Len(Trace(n, o)) /\ Trace(n, o)[1] = m
 <2>1. ASSUME NEW x PROVE 1 \in 1..Len(Append(<<m>>, x)) /\ Append(<<m>>, x)[1] = m OBVIOUS
 <2>2. 1 \in 1..Len(<<m>> \o ToolMessage(o.results)) /\ (<<m>> \o ToolMessage(o.results))[1] = m
  <3>1. <<m>> \in Seq(NativeMessage) BY <1>6
  <3> QED BY <1>5, <3>1
 <2> QED BY <1>7, <2>1, <2>2
<1> QED BY <1>4, <1>8

----------------------------------------
\* What others write on a message is taken by every provider.
LEMMA BareFields ==
    ASSUME NEW m \in HeapMessage
    PROVE  /\ Bare(m).role = m.role /\ Bare(m).cache = m.cache
           /\ Bare(m).content = Without(m.content)
  BY DEF Bare, HeapMessage

LEMMA FitsWithMarks ==
    ASSUME NEW who, NEW m \in HeapMessage
    PROVE  /\ Fit(who, Bare(m)) => Fit(who, m)
           /\ HasMalformed(Bare(m)) => HasMalformed(m)
<1> DEFINE s == m.content
           w == Without(m.content)
<1>1. /\ s \in Seq(HeapPart)
      /\ Len(w) \in Nat
      /\ \A j \in 1..Len(w) : \E i \in 1..Len(s) : w[j] = s[i]
      /\ \A i \in 1..Len(s) : s[i] # Mark => \E j \in 1..Len(w) : w[j] = s[i]
 <2>1. s \in Seq(HeapPart) BY HeapParts
 <2> QED BY <2>1, WithoutHas
<1>2. \A role : FitPart(who, Mark, role) BY DEF FitPart, Mark, Text
<1>3. Bare(m).role = m.role /\ Bare(m).cache = m.cache /\ Bare(m).content = w BY BareFields
<1> HIDE DEF w
<1>4. ASSUME Fit(who, Bare(m)) PROVE Fit(who, m)
 <2>1. /\ m.cache # "other" /\ m.role \in Roles
       /\ m.role = "tool" => \E j \in 1..Len(w) : w[j].kind = "result"
       /\ \A j \in 1..Len(w) : FitPart(who, w[j], m.role)
   BY <1>3, <1>4 DEF Fit
 <2>2. \A i \in 1..Len(s) : FitPart(who, s[i], m.role) BY <1>1, <1>2, <2>1
 <2>3. m.role = "tool" => \E i \in 1..Len(s) : s[i].kind = "result" BY <1>1, <2>1
 <2> QED BY <2>1, <2>2, <2>3 DEF Fit
<1>5. ASSUME HasMalformed(Bare(m)) PROVE HasMalformed(m)
 <2>1. m.role = "assistant"
       /\ \E j \in 1..Len(w) : w[j].kind = "call" /\ w[j].args = "malformed"
   BY <1>3, <1>5 DEF HasMalformed
 <2> QED BY <1>1, <2>1 DEF HasMalformed
<1> QED BY <1>4, <1>5

\* The messages that the history has besides the prompt.
LEMMA PoisonIs ==
    \A n \in DOMAIN log : Poisoned(n) <=> HasPoison(log[n])
  BY DEF Poisoned, HasPoison

LEMMA HistoryFits ==
    ASSUME TypeInv, LogInv, \A n \in DOMAIN log : ~Poisoned(n)
    PROVE  \A k \in 1..Len(History) : k > Len(prompt) => Fit(provider, History[k])
<1> DEFINE traces == [n \in DOMAIN log |-> Trace(n, log[n])]
           added == FlattenSeq(traces)
<1>1. DOMAIN log = 1..Len(log) /\ Len(log) \in Nat
      /\ \A n \in 1..Len(log) : n \in Nat /\ log[n] \in OutcomeType
  BY TypeFacts
<1>2. \A n \in 1..Len(log) : Trace(n, log[n]) \in Seq(Fitting(provider))
  BY <1>1, PoisonIs, TraceFits DEF LogInv
<1>3. traces \in Seq(Seq(Fitting(provider))) BY <1>1, <1>2
<1>4. added \in Seq(Fitting(provider))
 <2> HIDE DEF traces
 <2> QED BY <1>3, FlattenType
<1>5. History = prompt \o added BY DEF History
<1> HIDE DEF added
<1>6. prompt \in Seq(NativeMessage) BY TypeFacts
<1> TAKE k \in 1..Len(History)
<1>7. k > Len(prompt) => History[k] = added[k - Len(prompt)] /\ k - Len(prompt) \in 1..Len(added)
  BY <1>4, <1>5, <1>6
<1>8. \A j \in 1..Len(added) : Fit(provider, added[j]) BY <1>4, ElementOfSeq DEF Fitting
<1> QED BY <1>7, <1>8

LEMMA HistoryHasPoison ==
    ASSUME TypeInv, LogInv, NEW n \in DOMAIN log, Poisoned(n)
    PROVE  \E k \in 1..Len(History) : HasMalformed(History[k])
<1> DEFINE traces == [i \in DOMAIN log |-> Trace(i, log[i])]
           added == FlattenSeq(traces)
<1>1. log \in Seq(OutcomeType) /\ DOMAIN log = 1..Len(log) /\ Len(log) \in Nat
      /\ n \in Nat /\ log[n] \in OutcomeType /\ n \in 1..Len(log)
  BY ElementOfSeq DEF TypeInv
<1>2. HasPoison(log[n]) /\ GoodOutcome(provider, log[n]) BY <1>1, PoisonIs DEF LogInv
<1>3. PICK j \in 1..Len(Trace(n, log[n])) : HasMalformed(Trace(n, log[n])[j])
  BY <1>1, <1>2, TraceHasPoison
<1>4. traces \in Seq(Seq(NativeMessage)) /\ traces[n] = Trace(n, log[n]) /\ n \in 1..Len(traces)
  BY <1>1, TracesType
<1> HIDE DEF traces
<1>5. PICK i \in 1..Len(added) : added[i] = traces[n][j] BY <1>3, <1>4, FlattenHas
<1>6. added \in Seq(NativeMessage) /\ prompt \in Seq(NativeMessage) BY <1>4, FlattenType, TypeFacts
<1>7. History = prompt \o added BY DEF History, traces
<1> HIDE DEF added
<1>8. Len(prompt) + i \in 1..Len(History) /\ History[Len(prompt) + i] = added[i] BY <1>6, <1>7
<1> QED BY <1>3, <1>4, <1>5, <1>8

\* A request is refused for what the prompt has in it, or for good.
LEMMA RequestRefused ==
    ASSUME TypeInv, HistoryInv, LogInv, pc = "waiting"
    PROVE  LET translated == Translate(provider, Execution)
               ofPrompt   == [Execution EXCEPT !.messages = SubSeq(@, 1, Len(prompt))]
           IN  /\ translated.err # "none" =>
                     \/ Translate(provider, ofPrompt).err # "none"
                     \/ \E n \in DOMAIN log : Poisoned(n)
               /\ translated.err = "none" => \A n \in DOMAIN log : ~Poisoned(n)
<1> DEFINE ms == heap[request]
           e  == Execution
           f  == [Execution EXCEPT !.messages = SubSeq(@, 1, Len(prompt))]
<1>1. ms \in Seq(HeapMessage) /\ provider \in Providers BY TypeFacts DEF TypeInv, NoRequest
<1>2. e.messages = ms /\ f.messages = SubSeq(ms, 1, Len(prompt)) /\ f.tools = e.tools
      /\ f.format = e.format
  BY DEF Execution
<1>3. WithoutForeign(ms) = History BY DEF HistoryInv
<1> HIDE DEF e, f, ms
<1>4. /\ Len(History) = Len(ms) /\ Len(ms) \in Nat
      /\ \A k \in 1..Len(ms) : History[k] = Bare(ms[k]) /\ ms[k] \in HeapMessage
  BY <1>1, <1>3, WithoutForeignAt, ElementOfSeq
<1>5. Len(prompt) \in Nat /\ Len(prompt) <= Len(ms)
 <2>1. prompt \in Seq(NativeMessage) /\ log \in Seq(OutcomeType) BY TypeFacts DEF TypeInv
 <2>2. FlattenSeq([n \in DOMAIN log |-> Trace(n, log[n])]) \in Seq(NativeMessage)
   BY <2>1, TracesType, FlattenType
 <2>3. Len(History) = Len(prompt) + Len(FlattenSeq([n \in DOMAIN log |-> Trace(n, log[n])]))
   BY <2>1, <2>2, ConcatProperties DEF History
 <2> QED BY <1>4, <2>1, <2>2, <2>3
<1>6. /\ f.messages \in Seq(HeapMessage) /\ Len(f.messages) = Len(prompt)
      /\ \A k \in 1..Len(prompt) : f.messages[k] = ms[k]
  BY <1>1, <1>2, <1>5
<1>7. ASSUME Translate(provider, e).err # "none", \A n \in DOMAIN log : ~Poisoned(n),
             Translate(provider, f).err = "none"
      PROVE  FALSE
 <2>1. FormatFits(provider, f) /\ \A k \in 1..Len(prompt) : MessageOf(provider, ms[k]).err = "none"
   BY <1>1, <1>6, <1>7, TranslateErr
 <2>2. FormatFits(provider, e) BY <1>2, <2>1 DEF FormatFits
 <2>3. ASSUME NEW k \in 1..Len(ms), k > Len(prompt)
       PROVE  MessageOf(provider, ms[k]).err = "none"
  <3>1. Fit(provider, Bare(ms[k])) BY <1>4, <1>7, <2>3, HistoryFits
  <3>2. Fit(provider, ms[k]) BY <1>4, <3>1, FitsWithMarks
  <3> QED BY <1>1, <1>4, <3>2, MessageErr
 <2>4. \A k \in 1..Len(ms) : k > Len(prompt) \/ k \in 1..Len(prompt) BY <1>4, <1>5
 <2>5. \A k \in 1..Len(ms) : MessageOf(provider, ms[k]).err = "none" BY <2>1, <2>3, <2>4
 <2> QED BY <1>1, <1>2, <1>7, <2>2, <2>5, TranslateErr
<1>8. ASSUME Translate(provider, e).err = "none", NEW n \in DOMAIN log, Poisoned(n)
      PROVE  FALSE
 <2>1. PICK k \in 1..Len(ms) : HasMalformed(Bare(ms[k])) BY <1>4, <1>8, HistoryHasPoison
 <2>2. HasMalformed(ms[k]) BY <1>4, <2>1, FitsWithMarks
 <2>3. MessageOf(provider, ms[k]).err # "none" BY <1>1, <1>4, <2>2, MessageErr
 <2> QED BY <1>1, <1>2, <1>8, <2>3, TranslateErr
<1> QED BY <1>7, <1>8 DEF e, f

\* What a step does to the request that is on its way.
LEMMA FlightStep ==
    ASSUME TypeInv, [Next]_vars
    PROVE  \/ UNCHANGED <<sent, provider, plan, prompt, log, pc>>
           \/ sent' = <<>>
           \/ /\ UNCHANGED <<sent, provider, plan, prompt>> /\ pc' = "idle"
              /\ \E o : log' = Append(log, o)
           \/ ClientTranslates
<1>1. CASE StartAttempt BY <1>1 DEF StartAttempt
<1>2. CASE Receive
 <2>1. \E o : Conclude(o) BY <1>2, Receives, Judged DEF NoCorrection
 <2> QED BY <1>2, <2>1 DEF Receive, clientVars, Conclude
<1>3. CASE Fails BY <1>3 DEF Fails, NoCorrection, clientVars, Conclude
<1>4. CASE MiddlewareRefuses BY <1>4 DEF MiddlewareRefuses, ValidationFails, clientVars, Conclude
<1>5. CASE Write BY <1>5 DEF Write, Scribble, clientVars
<1>6. CASE UNCHANGED vars BY <1>6 DEF vars, execVars, clientVars
<1> QED BY <1>1, <1>2, <1>3, <1>4, <1>5, <1>6 DEF Next

LEMMA NextCorrections ==
    ASSUME TypeInv, HistoryInv, LogInv, CorrectionsReachTheModel, [Next]_vars
    PROVE  CorrectionsReachTheModel'
<1>1. ASSUME sent' = <<>> PROVE CorrectionsReachTheModel'
  BY <1>1 DEF CorrectionsReachTheModel, InFlight
<1>2. log \in Seq(OutcomeType) BY DEF TypeInv
<1>3. ASSUME NEW o, log' = Append(log, o)
      PROVE  /\ DOMAIN log \subseteq DOMAIN log'
             /\ \A n \in DOMAIN log : Poisoned(n)' <=> Poisoned(n)
 <2>1. DOMAIN log \subseteq DOMAIN log' /\ \A n \in DOMAIN log : log'[n] = log[n] BY <1>2, <1>3
 <2> QED BY <2>1 DEF Poisoned
<1>4. ASSUME UNCHANGED <<sent, provider, plan, prompt>>, NEW o, log' = Append(log, o), pc' = "idle"
      PROVE  CorrectionsReachTheModel'
  BY <1>3, <1>4 DEF CorrectionsReachTheModel, InFlight, Requested, Received
<1>5. ASSUME UNCHANGED <<sent, provider, plan, prompt, log, pc>> PROVE CorrectionsReachTheModel'
  BY <1>5 DEF CorrectionsReachTheModel, InFlight, Requested, Received, Poisoned
<1>6. CASE ClientTranslates
 <2> DEFINE translated == Translate(provider, Execution)
            ofPrompt   == [Execution EXCEPT !.messages = SubSeq(@, 1, Len(prompt))]
 <2>1. /\ pc = "waiting" /\ sent' = <<Execution, translated>> /\ provider' = provider
       /\ IF translated.err = "none" THEN UNCHANGED <<execVars, answers>>
                                     ELSE NoCorrection("error") /\ NoAnswer
   BY <1>6 DEF ClientTranslates, clientVars
 <2>2. /\ translated.err # "none" =>
             \/ Translate(provider, ofPrompt).err # "none"
             \/ \E n \in DOMAIN log : Poisoned(n)
       /\ translated.err = "none" => \A n \in DOMAIN log : ~Poisoned(n)
   BY <2>1, RequestRefused
 <2>3. prompt' = prompt BY <2>1 DEF execVars, NoCorrection, Conclude
 <2>4. Requested' = Execution /\ Received' = translated BY <2>1 DEF Requested, Received
 <2>5. Translate(provider, [Requested EXCEPT !.messages = SubSeq(@, 1, Len(prompt))])'
         = Translate(provider, ofPrompt)
   BY <2>1, <2>3, <2>4
 <2> HIDE DEF translated, ofPrompt
 <2>6. CASE translated.err = "none"
  <3>1. log' = log BY <2>1, <2>6 DEF execVars
  <3> QED BY <2>2, <2>4, <2>6, <3>1 DEF CorrectionsReachTheModel, Poisoned
 <2>7. CASE translated.err # "none"
  <3>1. log' = Append(log, Quiet("error")) /\ pc' = "idle"
    BY <2>1, <2>7 DEF NoCorrection, Conclude
  <3>2. (\E n \in DOMAIN log : Poisoned(n)) => \E n \in DOMAIN log' : Poisoned(n)' BY <1>3, <3>1
  <3>3. \/ Translate(provider, [Requested EXCEPT !.messages = SubSeq(@, 1, Len(prompt))])'.err # "none"
        \/ \E n \in DOMAIN log' : Poisoned(n)'
    BY <2>2, <2>5, <2>7, <3>2
  <3>4. ~InFlight' BY <3>1 DEF InFlight
  <3> QED BY <3>3, <3>4 DEF CorrectionsReachTheModel
 <2> QED BY <2>6, <2>7
<1> QED BY <1>1, <1>4, <1>5, <1>6, FlightStep

(***************************************************************************)
(* A retry gets as far as the provider: only what the prompt has in it, or *)
(* an earlier answer with arguments that are no JSON, makes an adapter     *)
(* refuse a request, and such an answer makes it refuse every later one.   *)
(***************************************************************************)
THEOREM RetriesReachTheModel == Spec => []CorrectionsReachTheModel
<1>1. Init => LogInv /\ CorrectionsReachTheModel
  BY DEF Init, StartWith, LogInv, CorrectionsReachTheModel, InFlight
<1> QED BY <1>1, InitInv, NextInv, NextLog, NextCorrections, PTL DEF Spec

----------------------------------------
\* What is made of a sequence element by element: f gives a sequence for each, and
\* Spread puts them together.
Spread(s, f) == FlattenSeq([i \in DOMAIN s |-> f[s[i]]])
Maps(S, R)   == [S -> Seq(R)]

LEMMA SpreadType ==
    ASSUME NEW S, NEW R, NEW f \in Maps(S, R), NEW s \in Seq(S)
    PROVE  /\ [i \in DOMAIN s |-> f[s[i]]] \in Seq(Seq(R))
           /\ Spread(s, f) \in Seq(R)
<1>1. /\ DOMAIN s = 1..Len(s) /\ Len(s) \in Nat
      /\ \A i \in 1..Len(s) : f[s[i]] \in Seq(R)
  BY ElementOfSeq DEF Maps
<1>2. [i \in DOMAIN s |-> f[s[i]]] \in Seq(Seq(R)) BY <1>1
<1> QED BY <1>2, FlattenType DEF Spread

LEMMA SpreadEmpty == \A f : Spread(<<>>, f) = <<>>
<1> SUFFICES ASSUME NEW f PROVE Spread(<<>>, f) = <<>> OBVIOUS
<1>1. [i \in DOMAIN <<>> |-> f[<<>>[i]]] = <<>> OBVIOUS
<1> QED BY <1>1, FlattenEmpty DEF Spread

LEMMA SpreadAppend ==
    ASSUME NEW S, NEW R, NEW f \in Maps(S, R), NEW s \in Seq(S), NEW x \in S
    PROVE  Spread(Append(s, x), f) = Spread(s, f) \o f[x]
<1> DEFINE m == [i \in DOMAIN s |-> f[s[i]]]
<1>1. m \in Seq(Seq(R)) /\ f[x] \in Seq(R) BY SpreadType DEF Maps
<1>2. [i \in DOMAIN Append(s, x) |-> f[Append(s, x)[i]]] = Append(m, f[x]) BY MapAppend
<1>3. Spread(s, f) = FlattenSeq(m) BY DEF Spread
<1> HIDE DEF m
<1> QED BY <1>1, <1>2, <1>3, FlattenAppend DEF Spread

LEMMA SpreadOne ==
    ASSUME NEW S, NEW R, NEW f \in Maps(S, R), NEW x \in S
    PROVE  Spread(<<x>>, f) = f[x]
<1>1. <<>> \in Seq(S) /\ <<x>> = Append(<<>>, x) /\ f[x] \in Seq(R) BY DEF Maps
<1>2. Spread(<<x>>, f) = Spread(<<>>, f) \o f[x] BY <1>1, SpreadAppend
<1> QED BY <1>1, <1>2, SpreadEmpty, ConcatEmptySeq

LEMMA SpreadConcat ==
    ASSUME NEW S, NEW R, NEW f \in Maps(S, R), NEW s \in Seq(S), NEW t \in Seq(S)
    PROVE  Spread(s \o t, f) = Spread(s, f) \o Spread(t, f)
<1> DEFINE T == {u \in Seq(S) : Spread(s \o u, f) = Spread(s, f) \o Spread(u, f)}
<1>1. Spread(s, f) \in Seq(R) BY SpreadType
<1>2. <<>> \in T
 <2>1. s \o <<>> = s BY ConcatEmptySeq
 <2>2. Spread(s, f) \o <<>> = Spread(s, f) BY <1>1, ConcatEmptySeq
 <2>3. Spread(<<>>, f) = <<>> /\ <<>> \in Seq(S) BY SpreadEmpty
 <2>4. Spread(s \o <<>>, f) = Spread(s, f) \o Spread(<<>>, f) BY <2>1, <2>2, <2>3
 <2> QED BY <2>3, <2>4
<1>3. ASSUME NEW u \in Seq(S), NEW x \in S, u \in T PROVE Append(u, x) \in T
 <2>1. s \o Append(u, x) = Append(s \o u, x) /\ s \o u \in Seq(S) /\ Append(u, x) \in Seq(S)
   OBVIOUS
 <2>2. Spread(s \o Append(u, x), f) = Spread(s \o u, f) \o f[x] BY <2>1, SpreadAppend
 <2>3. Spread(Append(u, x), f) = Spread(u, f) \o f[x] BY SpreadAppend
 <2>4. Spread(u, f) \in Seq(R) /\ f[x] \in Seq(R) BY SpreadType DEF Maps
 <2>5. (Spread(s, f) \o Spread(u, f)) \o f[x] = Spread(s, f) \o (Spread(u, f) \o f[x])
  <3> DEFINE a == Spread(s, f)
             b == Spread(u, f)
             c == f[x]
  <3>1. a \in Seq(R) /\ b \in Seq(R) /\ c \in Seq(R) BY <1>1, <2>4
  <3> HIDE DEF a, b, c
  <3>2. (a \o b) \o c = a \o (b \o c) BY <3>1, ConcatAssociative
  <3> QED BY <3>2 DEF a, b, c
 <2>6. Spread(s \o u, f) = Spread(s, f) \o Spread(u, f) BY <1>3
 <2>7. Spread(s \o Append(u, x), f) = Spread(s, f) \o Spread(Append(u, x), f)
   BY <2>2, <2>3, <2>5, <2>6
 <2> QED BY <2>1, <2>7
<1>4. Seq(S) \subseteq T
 <2> HIDE DEF T
 <2> QED BY <1>2, <1>3, SeqInduction
<1> QED BY <1>4

\* To spread what was put together is to spread its parts.
LEMMA SpreadFlatten ==
    ASSUME NEW S, NEW R, NEW f \in Maps(S, R), NEW ss \in Seq(Seq(S))
    PROVE  Spread(FlattenSeq(ss), f) = FlattenSeq([i \in DOMAIN ss |-> Spread(ss[i], f)])
<1> DEFINE g == [s \in Seq(S) |-> Spread(s, f)]
           T == {tt \in Seq(Seq(S)) : Spread(FlattenSeq(tt), f) = Spread(tt, g)}
<1>1. g \in Maps(Seq(S), R) BY SpreadType DEF Maps
<1>2. <<>> \in T BY FlattenEmpty, SpreadEmpty
<1>3. ASSUME NEW tt \in Seq(Seq(S)), NEW t \in Seq(S), tt \in T PROVE Append(tt, t) \in T
 <2>1. FlattenSeq(Append(tt, t)) = FlattenSeq(tt) \o t /\ FlattenSeq(tt) \in Seq(S)
   BY FlattenAppend, FlattenType
 <2>2. Spread(FlattenSeq(tt) \o t, f) = Spread(FlattenSeq(tt), f) \o Spread(t, f)
   BY <2>1, SpreadConcat
 <2>3. Spread(Append(tt, t), g) = Spread(tt, g) \o g[t]
  <3> HIDE DEF g
  <3> QED BY <1>1, SpreadAppend
 <2>4. g[t] = Spread(t, f) /\ Append(tt, t) \in Seq(Seq(S)) OBVIOUS
 <2> QED BY <1>3, <2>1, <2>2, <2>3, <2>4
<1>4. Seq(Seq(S)) \subseteq T
 <2> HIDE DEF T
 <2> QED BY <1>2, <1>3, SeqInduction
<1>5. [i \in DOMAIN ss |-> g[ss[i]]] = [i \in DOMAIN ss |-> Spread(ss[i], f)]
 <2>1. \A i \in DOMAIN ss : ss[i] \in Seq(S) OBVIOUS
 <2> QED BY <2>1
<1>6. ss \in T BY <1>4
<1>7. Spread(FlattenSeq(ss), f) = Spread(ss, g) BY <1>6
<1> QED BY <1>5, <1>7 DEF Spread

\* Two steps in one.
Composed(S, g, f, k) == \A x \in S : Spread(g[x], f) = k[x]

LEMMA SpreadTwice ==
    ASSUME NEW S, NEW Q, NEW R, NEW g \in Maps(S, Q), NEW f \in Maps(Q, R), NEW k,
           NEW s \in Seq(S), Composed(S, g, f, k)
    PROVE  Spread(Spread(s, g), f) = Spread(s, k)
<1> DEFINE m == [i \in DOMAIN s |-> g[s[i]]]
<1>1. m \in Seq(Seq(Q)) /\ DOMAIN m = DOMAIN s /\ \A i \in DOMAIN s : m[i] = g[s[i]] /\ s[i] \in S
 <2>1. m \in Seq(Seq(Q)) BY SpreadType
 <2>2. \A i \in DOMAIN s : s[i] \in S OBVIOUS
 <2> QED BY <2>1, <2>2
<1>2. Spread(s, g) = FlattenSeq(m) BY DEF Spread
<1> HIDE DEF m
<1>3. Spread(Spread(s, g), f) = FlattenSeq([i \in DOMAIN m |-> Spread(m[i], f)])
  BY <1>1, <1>2, SpreadFlatten
<1>4. [i \in DOMAIN m |-> Spread(m[i], f)] = [i \in DOMAIN s |-> k[s[i]]] BY <1>1 DEF Composed
<1> QED BY <1>3, <1>4 DEF Spread

LEMMA SpreadNothing ==
    ASSUME NEW S, NEW s \in Seq(S), NEW f, \A i \in 1..Len(s) : f[s[i]] = <<>>
    PROVE  Spread(s, f) = <<>>
<1> DEFINE T == {t \in Seq({<<>>}) : FlattenSeq(t) = <<>>}
<1>1. <<>> \in T BY FlattenEmpty
<1>2. ASSUME NEW t \in Seq({<<>>}), NEW x \in {<<>>}, t \in T PROVE Append(t, x) \in T
 <2>1. t \in Seq(Seq({})) /\ x \in Seq({})
  <3>1. {<<>>} \subseteq Seq({}) OBVIOUS
  <3>2. t \in Seq(Seq({})) BY <3>1, SeqMonotonic
  <3> QED BY <3>1, <3>2
 <2>2. FlattenSeq(Append(t, x)) = FlattenSeq(t) \o x BY <2>1, FlattenAppend
 <2> QED BY <1>2, <2>2
<1>3. Seq({<<>>}) \subseteq T
 <2> HIDE DEF T
 <2> QED BY <1>1, <1>2, SeqInduction
<1>4. [i \in DOMAIN s |-> f[s[i]]] \in Seq({<<>>})
 <2>1. DOMAIN s = 1..Len(s) /\ Len(s) \in Nat OBVIOUS
 <2> QED BY <2>1
<1> QED BY <1>3, <1>4 DEF Spread

\* One element for each.
Singly(S, g, f) == \A x \in S : g[x] = <<f[x]>>

LEMMA SpreadSingles ==
    ASSUME NEW S, NEW R, NEW f, NEW g \in Maps(S, R), NEW s \in Seq(S), Singly(S, g, f)
    PROVE  Spread(s, g) = [i \in DOMAIN s |-> f[s[i]]]
<1> DEFINE map(t) == [i \in DOMAIN t |-> f[t[i]]]
           one == [x \in S |-> <<f[x]>>]
           T == {t \in Seq(S) : Spread(t, one) = map(t)}
<1>0. \A x \in S : f[x] \in R
 <2>1. \A x \in S : <<f[x]>> \in Seq(R) BY DEF Maps, Singly
 <2> QED BY <2>1
<1>1. one \in Maps(S, R) BY <1>0 DEF Maps
<1>2. \A t \in Seq(S) : map(t) \in Seq(R) BY <1>0
<1>3. <<>> \in T BY SpreadEmpty
<1>4. ASSUME NEW t \in Seq(S), NEW x \in S, t \in T PROVE Append(t, x) \in T
 <2>1. Spread(Append(t, x), one) = Spread(t, one) \o one[x]
  <3> HIDE DEF one
  <3> QED BY <1>1, SpreadAppend
 <2>2. map(Append(t, x)) = Append(map(t), f[x]) BY MapAppend
 <2>3. one[x] = <<f[x]>> /\ f[x] \in R BY <1>0
 <2>4. map(t) \o <<f[x]>> = Append(map(t), f[x])
  <3>1. map(t) \in Seq(R) BY <1>2
  <3> HIDE DEF map
  <3> QED BY <2>3, <3>1
 <2>5. Spread(t, one) = map(t) /\ Append(t, x) \in Seq(S) BY <1>4
 <2> HIDE DEF map, one
 <2>6. Spread(Append(t, x), one) = map(Append(t, x)) BY <2>1, <2>2, <2>3, <2>4, <2>5
 <2> QED BY <2>5, <2>6
<1>5. Seq(S) \subseteq T
 <2> HIDE DEF T
 <2> QED BY <1>3, <1>4, SeqInduction
<1>6. Spread(s, g) = Spread(s, one)
 <2>1. [i \in DOMAIN s |-> g[s[i]]] = [i \in DOMAIN s |-> one[s[i]]]
  <3>1. \A i \in DOMAIN s : s[i] \in S OBVIOUS
  <3> QED BY <3>1 DEF Singly
 <2> HIDE DEF one
 <2> QED BY <2>1 DEF Spread
<1>7. s \in T BY <1>5
<1> QED BY <1>6, <1>7

----------------------------------------
\* What parts say.  Whatever a translation does to a part, one can read from it what it
\* says of a kind: nothing, if it is of another.
Atoms == Native \cup {Foreign, separator}
Block == ContentPart(Atoms)
Inner == TextPart(Atoms) \cup MediaPart \cup ReasoningPart(Atoms)

Readable == {"text", "call", "result", "media"}
Says(p, k) ==
    CASE k = "text"   -> p.text
      [] k = "call"   -> <<CallSays(p)>>
      [] k = "result" -> <<ResultSays(p)>>
      [] k = "media"  -> <<MediaSays(p)>>
Read(k) == [p \in Block |-> IF p.kind = k THEN Says(p, k) ELSE <<>>]
Meant   == Atoms \cup {CallSays(p) : p \in Block} \cup {ResultSays(p) : p \in Block}
             \cup {MediaSays(p) : p \in Block}

Pick(k) == [p \in Block |-> IF p.kind = k THEN <<p>> ELSE <<>>]

LEMMA NativeIsBlock ==
    /\ Seq(Native) \subseteq Seq(Atoms)
    /\ NativePart \subseteq Block /\ HeapPart \subseteq Block
    /\ Inner \subseteq Block
    /\ TextPart(Native) \cup MediaPart \cup ReasoningPart(Native) \subseteq Inner
<1>1. Seq(Native) \subseteq Seq(Atoms) BY DEF Atoms
<1>2. TextPart(Native) \subseteq TextPart(Atoms) /\ ReasoningPart(Native) \subseteq ReasoningPart(Atoms)
  BY <1>1 DEF TextPart, ReasoningPart
<1>3. TextPart(Native) \cup MediaPart \cup ReasoningPart(Native) \subseteq Inner BY <1>2 DEF Inner
<1>4. ToolResultPart(Native) \subseteq ToolResultPart(Atoms)
 <2>1. Seq(TextPart(Native) \cup MediaPart \cup ReasoningPart(Native)) \subseteq Seq(Inner) BY <1>3
 <2> QED BY <2>1 DEF ToolResultPart, Inner
<1>5. NativePart \subseteq Block BY <1>2, <1>4 DEF NativePart, Block, ContentPart
<1>6. Mark \in Block
 <2>1. <<Foreign>> \in Seq(Atoms) BY DEF Atoms
 <2> QED BY <2>1 DEF Mark, Text, Block, ContentPart, TextPart, Caches
<1>7. Inner \subseteq Block BY DEF Inner, Block, ContentPart
<1> QED BY <1>1, <1>3, <1>5, <1>6, <1>7 DEF HeapPart

LEMMA BlockKinds ==
    ASSUME NEW p \in Block
    PROVE  /\ p.kind = "text" => p \in TextPart(Atoms)
           /\ p.kind = "media" => p \in MediaPart
           /\ p.kind = "call" => p \in ToolCallPart
           /\ p.kind = "result" => p \in ToolResultPart(Atoms)
           /\ p.kind = "reasoning" => p \in ReasoningPart(Atoms)
           /\ p.kind \in {"text", "media", "call", "result", "reasoning"}
           /\ p.cache \in Caches
  BY DEF Block, ContentPart, TextPart, MediaPart, ReasoningPart, ToolCallPart, ToolResultPart

LEMMA ReadIs ==
    /\ \A k \in Readable : Read(k) \in Maps(Block, Meant)
    /\ \A p \in Block : /\ p.kind = "text" => Read("text")[p] = p.text
                        /\ p.kind = "call" => Read("call")[p] = <<CallSays(p)>>
                        /\ p.kind = "result" => Read("result")[p] = <<ResultSays(p)>>
                        /\ p.kind = "media" => Read("media")[p] = <<MediaSays(p)>>
                        /\ \A k : p.kind # k => Read(k)[p] = <<>>
<1>1. \A p \in Block : \A k : Read(k)[p] = IF p.kind = k THEN Says(p, k) ELSE <<>> BY DEF Read
<1>2. \A p : /\ Says(p, "text") = p.text /\ Says(p, "call") = <<CallSays(p)>>
             /\ Says(p, "result") = <<ResultSays(p)>> /\ Says(p, "media") = <<MediaSays(p)>>
  BY DEF Says
<1>3. ASSUME NEW k \in Readable, NEW p \in Block PROVE Read(k)[p] \in Seq(Meant)
 <2>0. Read(k)[p] = IF p.kind = k THEN Says(p, k) ELSE <<>> BY <1>1
 <2>1. CASE p.kind # k
  <3>1. Read(k)[p] = <<>> BY <2>0, <2>1
  <3> QED BY <3>1
 <2>2. CASE p.kind = k /\ k = "text"
  <3>1. p.text \in Seq(Atoms) BY <2>2, BlockKinds DEF TextPart
  <3>2. p.text \in Seq(Meant) BY <3>1 DEF Meant
  <3> QED BY <1>1, <1>2, <2>2, <3>2
 <2>3. CASE p.kind = k /\ k # "text"
  <3>1. CallSays(p) \in Meant /\ ResultSays(p) \in Meant /\ MediaSays(p) \in Meant BY DEF Meant
  <3>2. Says(p, k) \in {<<CallSays(p)>>, <<ResultSays(p)>>, <<MediaSays(p)>>}
    BY <1>2, <2>3 DEF Readable
  <3>3. Says(p, k) \in Seq(Meant)
   <4>1. <<CallSays(p)>> \in Seq(Meant) /\ <<ResultSays(p)>> \in Seq(Meant)
         /\ <<MediaSays(p)>> \in Seq(Meant)
     BY <3>1
   <4> QED BY <3>2, <4>1
  <3>4. Read(k)[p] = Says(p, k) BY <2>0, <2>3
  <3> QED BY <3>3, <3>4
 <2> QED BY <2>1, <2>2, <2>3
<1>4. \A k \in Readable : Read(k) = [p \in Block |-> Read(k)[p]] BY DEF Read
<1>5. \A k \in Readable : Read(k) \in Maps(Block, Meant) BY <1>3, <1>4 DEF Maps
<1> QED BY <1>1, <1>2, <1>5

LEMMA KindIsSpread ==
    ASSUME NEW s \in Seq(Block), NEW k
    PROVE  /\ Pick(k) \in Maps(Block, Block)
           /\ Kind(s, k) = Spread(s, Pick(k)) /\ Kind(s, k) \in Seq(Block)
<1>1. Pick(k) \in Maps(Block, Block) BY DEF Pick, Maps
<1>2. [i \in DOMAIN s |-> IF s[i].kind = k THEN <<s[i]>> ELSE <<>>] = [i \in DOMAIN s |-> Pick(k)[s[i]]]
 <2>1. \A i \in DOMAIN s : s[i] \in Block OBVIOUS
 <2> QED BY <2>1 DEF Pick
<1>3. Kind(s, k) = Spread(s, Pick(k)) BY <1>2 DEF Kind, Where, Spread
<1> DEFINE f == Pick(k)
<1>4. Spread(s, f) \in Seq(Block)
 <2>1. f \in Maps(Block, Block) BY <1>1
 <2> HIDE DEF f
 <2> QED BY <2>1, SpreadType
<1> QED BY <1>1, <1>3, <1>4

LEMMA KindReads ==
    ASSUME NEW s \in Seq(Block), NEW k, NEW j \in Readable
    PROVE  Spread(Kind(s, k), Read(j)) = IF j = k THEN Spread(s, Read(j)) ELSE <<>>
<1>1. Kind(s, k) = Spread(s, Pick(k)) /\ Pick(k) \in Maps(Block, Block)
      /\ Read(j) \in Maps(Block, Meant)
  BY KindIsSpread, ReadIs
<1> DEFINE both == [p \in Block |-> IF p.kind = k THEN Read(j)[p] ELSE <<>>]
<1>2. ASSUME NEW p \in Block PROVE Spread(Pick(k)[p], Read(j)) = both[p]
 <2>1. CASE p.kind = k
  <3>1. Pick(k)[p] = <<p>> /\ both[p] = Read(j)[p] BY <2>1 DEF Pick
  <3> DEFINE f == Read(j)
  <3>2. f \in Maps(Block, Meant) BY <1>1
  <3>3. Spread(<<p>>, f) = f[p]
   <4> HIDE DEF f
   <4> QED BY <3>2, SpreadOne
  <3> QED BY <3>1, <3>3
 <2>2. CASE p.kind # k
  <3>1. Pick(k)[p] = <<>> /\ both[p] = <<>> BY <2>2 DEF Pick
  <3> QED BY <3>1, SpreadEmpty
 <2> QED BY <2>1, <2>2
<1> HIDE DEF both
<1>3. Spread(Spread(s, Pick(k)), Read(j)) = Spread(s, both)
 <2> DEFINE f == Read(j)
            g == Pick(k)
 <2>1. f \in Maps(Block, Meant) /\ g \in Maps(Block, Block)
       /\ Composed(Block, g, f, both)
   BY <1>1, <1>2 DEF Composed
 <2>2. Spread(Spread(s, g), f) = Spread(s, both)
  <3> HIDE DEF f, g
  <3> QED BY <2>1, SpreadTwice
 <2> QED BY <2>2
<1>4. CASE j = k
 <2>1. \A p \in Block : both[p] = Read(j)[p] BY <1>4, ReadIs DEF both
 <2>2. \A i \in DOMAIN s : s[i] \in Block OBVIOUS
 <2>3. Spread(s, both) = Spread(s, Read(j)) BY <2>1, <2>2 DEF Spread
 <2> QED BY <1>1, <1>3, <1>4, <2>3
<1>5. CASE j # k
 <2>1. \A p \in Block : both[p] = <<>> BY <1>5, ReadIs DEF both
 <2>2. \A i \in 1..Len(s) : both[s[i]] = <<>> BY <2>1, ElementOfSeq
 <2> QED BY <1>1, <1>3, <1>5, <2>2, SpreadNothing
<1> QED BY <1>4, <1>5

\* The text of parts, and what else they say, as in the property.
LEMMA TextIsSpread ==
    ASSUME NEW s \in Seq(Block)
    PROVE  TextFromParts(s) = Spread(s, Read("text")) /\ TextFromParts(s) \in Seq(Atoms)
<1> DEFINE texts == Kind(s, "text")
<1>1. texts \in Seq(Block) /\ DOMAIN texts = 1..Len(texts) BY KindIsSpread
<1>2. \A i \in 1..Len(texts) : texts[i] \in Block /\ texts[i].kind = "text"
  BY <1>1, KindHas, ElementOfSeq
<1>3. Spread(texts, Read("text")) = Spread(s, Read("text")) BY KindReads DEF Readable
<1>4. TextFromParts(s) = FlattenSeq([i \in 1..Len(texts) |-> texts[i].text]) BY DEF TextFromParts
<1> HIDE DEF texts
<1>5. [i \in 1..Len(texts) |-> texts[i].text] = [i \in DOMAIN texts |-> Read("text")[texts[i]]]
  BY <1>1, <1>2, ReadIs
<1>6. TextFromParts(s) = Spread(texts, Read("text")) BY <1>4, <1>5 DEF Spread
<1>7. [i \in 1..Len(texts) |-> texts[i].text] \in Seq(Seq(Atoms))
 <2>1. \A i \in 1..Len(texts) : texts[i].text \in Seq(Atoms) BY <1>2, BlockKinds DEF TextPart
 <2> QED BY <1>1, <2>1
<1> QED BY <1>3, <1>4, <1>6, <1>7, FlattenType

LEMMA TextBlock ==
    ASSUME NEW t \in Seq(Atoms)
    PROVE  /\ Text(t) \in Block /\ Text(t) \in TextPart(Atoms)
           /\ Text(t).kind = "text" /\ Text(t).text = t
  BY DEF Text, Block, ContentPart, TextPart, Caches

LEMMA JoinedReads ==
    ASSUME NEW s \in Seq(Block)
    PROVE  /\ Joined(s) \in Seq(Block) /\ Joined(s) \in Seq(TextPart(Atoms))
           /\ \A k \in Readable : Spread(Joined(s), Read(k))
                                    = IF k = "text" THEN Spread(s, Read("text")) ELSE <<>>
<1> DEFINE t == TextFromParts(s)
<1>1. t = Spread(s, Read("text")) /\ t \in Seq(Atoms) BY TextIsSpread
<1>2. Joined(s) = IF t = <<>> THEN <<>> ELSE <<Text(t)>> BY DEF Joined
<1> HIDE DEF t
<1>3. Text(t) \in Block /\ Text(t) \in TextPart(Atoms) /\ Text(t).kind = "text" /\ Text(t).text = t
  BY <1>1, TextBlock
<1>4. ASSUME NEW k \in Readable
      PROVE  Spread(Joined(s), Read(k)) = IF k = "text" THEN t ELSE <<>>
 <2>1. CASE t = <<>> BY <1>2, <2>1, SpreadEmpty
 <2>2. CASE t # <<>>
  <3>1. Spread(<<Text(t)>>, Read(k)) = Read(k)[Text(t)] BY <1>3, ReadIs, SpreadOne
  <3> QED BY <1>2, <1>3, <2>2, <3>1, ReadIs
 <2> QED BY <2>1, <2>2
<1> QED BY <1>1, <1>2, <1>3, <1>4

LEMMA ListedIs ==
    ASSUME NEW s \in Seq(Block)
    PROVE  /\ Listed(Kind(s, "call"), CallSays) = Spread(s, Read("call"))
           /\ Listed(Kind(s, "result"), ResultSays) = Spread(s, Read("result"))
           /\ Listed(Kind(s, "media"), MediaSays) = Spread(s, Read("media"))
<1>1. ASSUME NEW k \in Readable, NEW f, \A p \in OfKind(Block, k) : Read(k)[p] = <<f[p]>>
      PROVE  Spread(s, Read(k)) = [i \in DOMAIN Kind(s, k) |-> f[Kind(s, k)[i]]]
 <2> DEFINE found == Kind(s, k)
            S == OfKind(Block, k)
            g == [p \in S |-> <<f[p]>>]
            R == {f[p] : p \in S}
 <2>1. found \in Seq(S) BY KindType
 <2>2. g \in Maps(S, R) BY DEF Maps
 <2>3. Singly(S, g, f) BY DEF Singly
 <2>4. Spread(found, Read(k)) = Spread(s, Read(k)) BY KindReads
 <2>5. [i \in DOMAIN found |-> Read(k)[found[i]]] = [i \in DOMAIN found |-> g[found[i]]]
  <3>1. \A i \in DOMAIN found : found[i] \in S
   <4> HIDE DEF found, S
   <4> QED BY <2>1
  <3> HIDE DEF found
  <3> QED BY <1>1, <3>1
 <2>6. Spread(found, g) = [i \in DOMAIN found |-> f[found[i]]]
  <3> HIDE DEF found, R, S, g
  <3> QED BY <2>1, <2>2, <2>3, SpreadSingles
 <2> QED BY <2>4, <2>5, <2>6 DEF Spread
<1>2. ASSUME NEW k \in Readable, NEW p \in OfKind(Block, k)
      PROVE  p \in Block /\ p.kind = k
  BY DEF OfKind
<1>3. \A k, i : i \in DOMAIN Kind(s, k) => Kind(s, k)[i] \in OfKind(Block, k)
 <2> SUFFICES ASSUME NEW k, NEW i \in DOMAIN Kind(s, k) PROVE Kind(s, k)[i] \in OfKind(Block, k)
   OBVIOUS
 <2>1. Kind(s, k) \in Seq(OfKind(Block, k)) BY KindType
 <2> QED BY <2>1
<1>4. Listed(Kind(s, "call"), CallSays) = Spread(s, Read("call"))
 <2> DEFINE f == [p \in OfKind(Block, "call") |-> CallSays(p)]
 <2>1. \A p \in OfKind(Block, "call") : Read("call")[p] = <<f[p]>> BY ReadIs, <1>2 DEF Readable
 <2>2. f = [p \in OfKind(Block, "call") |-> f[p]] /\ \A p \in OfKind(Block, "call") : f[p] = CallSays(p)
   OBVIOUS
 <2> HIDE DEF f
 <2>3. Spread(s, Read("call")) = [i \in DOMAIN Kind(s, "call") |-> f[Kind(s, "call")[i]]]
   BY <1>1, <2>1, <2>2 DEF Readable
 <2> QED BY <1>3, <2>2, <2>3 DEF Listed
<1>5. Listed(Kind(s, "result"), ResultSays) = Spread(s, Read("result"))
 <2> DEFINE f == [p \in OfKind(Block, "result") |-> ResultSays(p)]
 <2>1. \A p \in OfKind(Block, "result") : Read("result")[p] = <<f[p]>> BY ReadIs, <1>2 DEF Readable
 <2>2. f = [p \in OfKind(Block, "result") |-> f[p]] /\ \A p \in OfKind(Block, "result") : f[p] = ResultSays(p)
   OBVIOUS
 <2> HIDE DEF f
 <2>3. Spread(s, Read("result")) = [i \in DOMAIN Kind(s, "result") |-> f[Kind(s, "result")[i]]]
   BY <1>1, <2>1, <2>2 DEF Readable
 <2> QED BY <1>3, <2>2, <2>3 DEF Listed
<1>6. Listed(Kind(s, "media"), MediaSays) = Spread(s, Read("media"))
 <2> DEFINE f == [p \in OfKind(Block, "media") |-> MediaSays(p)]
 <2>1. \A p \in OfKind(Block, "media") : Read("media")[p] = <<f[p]>> BY ReadIs, <1>2 DEF Readable
 <2>2. f = [p \in OfKind(Block, "media") |-> f[p]] /\ \A p \in OfKind(Block, "media") : f[p] = MediaSays(p)
   OBVIOUS
 <2> HIDE DEF f
 <2>3. Spread(s, Read("media")) = [i \in DOMAIN Kind(s, "media") |-> f[Kind(s, "media")[i]]]
   BY <1>1, <2>1, <2>2 DEF Readable
 <2> QED BY <1>3, <2>2, <2>3 DEF Listed
<1> QED BY <1>4, <1>5, <1>6

----------------------------------------
\* A loop that appends what each element becomes: if every part of the result reads as
\* k has it, so does the whole.
Given(results, s, R, f, k) ==
    \A i \in DOMAIN s : results[i].err = "none" =>
        results[i].out \in Seq(R) /\ Spread(results[i].out, f) = k[s[i]]

LEMMA CollectSpread ==
    ASSUME NEW S, NEW R, NEW Q, NEW s \in Seq(S), NEW f \in Maps(R, Q), NEW k, NEW results,
           DOMAIN results = DOMAIN s, Len(results) = Len(s),
           Given(results, s, R, f, k), Collect(results).err = "none"
    PROVE  /\ \A i \in DOMAIN s : results[i].err = "none"
           /\ Collect(results).out \in Seq(R)
           /\ Spread(Collect(results).out, f) = Spread(s, k)
<1> DEFINE outs == [i \in DOMAIN results |-> results[i].out]
<1>1. DOMAIN s = 1..Len(s) /\ Len(s) \in Nat OBVIOUS
<1>2. \A i \in DOMAIN s : results[i].err = "none" BY <1>1, CollectErr
<1>3. Collect(results).out = FlattenSeq(outs) BY <1>1, <1>2, CollectIs DEF Ok
<1>4. outs \in Seq(Seq(R))
 <2>1. \A i \in DOMAIN s : results[i].out \in Seq(R) BY <1>2 DEF Given
 <2> QED BY <1>1, <2>1
<1>5. [i \in DOMAIN outs |-> Spread(outs[i], f)] = [i \in DOMAIN s |-> k[s[i]]]
 <2>1. \A i \in DOMAIN s : Spread(results[i].out, f) = k[s[i]] BY <1>2 DEF Given
 <2> QED BY <2>1
<1> HIDE DEF outs
<1>6. FlattenSeq(outs) \in Seq(R) BY <1>4, FlattenType
<1>7. Spread(FlattenSeq(outs), f) = FlattenSeq([i \in DOMAIN outs |-> Spread(outs[i], f)])
  BY <1>4, SpreadFlatten
<1> QED BY <1>2, <1>3, <1>5, <1>6, <1>7 DEF Spread

\* What a part becomes says what the part says of the kinds, and no more.
Becomes(r, p, kinds) ==
    r.err = "none" =>
        /\ r.out \in Seq(Block)
        /\ \A k \in Readable : Spread(r.out, Read(k)) = IF k \in kinds THEN Read(k)[p] ELSE <<>>

Carries(out, s, kinds) ==
    /\ out \in Seq(Block)
    /\ \A k \in Readable :
          Spread(out, Read(k)) = IF k \in kinds THEN Spread(s, Read(k)) ELSE <<>>

AllBecome(results, s, kinds) == \A i \in DOMAIN s : Becomes(results[i], s[i], kinds)

LEMMA EachCarries ==
    ASSUME NEW s \in Seq(Block), NEW kinds, NEW results, DOMAIN results = DOMAIN s,
           Len(results) = Len(s), AllBecome(results, s, kinds), Collect(results).err = "none"
    PROVE  /\ \A i \in DOMAIN s : results[i].err = "none"
           /\ Carries(Collect(results).out, s, kinds)
<1>1. ASSUME NEW k \in Readable
      PROVE  /\ \A i \in DOMAIN s : results[i].err = "none"
             /\ Collect(results).out \in Seq(Block)
             /\ Spread(Collect(results).out, Read(k))
                   = IF k \in kinds THEN Spread(s, Read(k)) ELSE <<>>
 <2> DEFINE f == Read(k)
            to == [p \in Block |-> IF k \in kinds THEN f[p] ELSE <<>>]
 <2>1. \A i \in DOMAIN s : s[i] \in Block OBVIOUS
 <2>2. Given(results, s, Block, f, to) BY <2>1 DEF Given, AllBecome, Becomes
 <2>3. f \in Maps(Block, Meant) BY ReadIs
 <2>4. /\ \A i \in DOMAIN s : results[i].err = "none"
       /\ Collect(results).out \in Seq(Block)
       /\ Spread(Collect(results).out, f) = Spread(s, to)
  <3> HIDE DEF f, to
  <3> QED BY <2>2, <2>3, CollectSpread
 <2>5. CASE k \in kinds
  <3>1. [i \in DOMAIN s |-> to[s[i]]] = [i \in DOMAIN s |-> f[s[i]]] BY <2>1, <2>5
  <3>2. Spread(s, to) = Spread(s, f)
   <4> HIDE DEF f, to
   <4> QED BY <3>1 DEF Spread
  <3> QED BY <2>4, <2>5, <3>2
 <2>6. CASE k \notin kinds
  <3>1. \A i \in 1..Len(s) : to[s[i]] = <<>> BY <2>1, <2>6
  <3>2. Spread(s, to) = <<>>
   <4> HIDE DEF to
   <4> QED BY <3>1, SpreadNothing
  <3> QED BY <2>4, <2>6, <3>2
 <2> QED BY <2>5, <2>6
<1>2. "text" \in Readable BY DEF Readable
<1> QED BY <1>1, <1>2 DEF Carries

----------------------------------------
\* Single parts.
SameReading(q, p) == q \in Block /\ \A k \in Readable : Read(k)[q] = Read(k)[p]

LEMMA BecomesOne ==
    ASSUME NEW p \in Block, NEW q, SameReading(q, p), NEW kinds, p.kind \in kinds,
           NEW r, r.out = <<q>>
    PROVE  Becomes(r, p, kinds)
<1>1. q \in Block BY DEF SameReading
<1>2. ASSUME NEW k \in Readable
      PROVE  Spread(<<q>>, Read(k)) = IF k \in kinds THEN Read(k)[p] ELSE <<>>
 <2>1. Spread(<<q>>, Read(k)) = Read(k)[q]
  <3> DEFINE f == Read(k)
  <3>1. f \in Maps(Block, Meant) BY ReadIs
  <3> HIDE DEF f
  <3>2. Spread(<<q>>, f) = f[q] BY <1>1, <3>1, SpreadOne
  <3> QED BY <3>2 DEF f
 <2>2. Read(k)[q] = Read(k)[p] BY DEF SameReading
 <2>3. k \notin kinds => Read(k)[p] = <<>> BY ReadIs
 <2> QED BY <2>1, <2>2, <2>3
<1> QED BY <1>1, <1>2 DEF Becomes

LEMMA SameReadingBy ==
    ASSUME NEW p \in Block, NEW q \in Block, p.kind = q.kind,
           p.kind = "text" => p.text = q.text,
           p.kind = "call" => CallSays(p) = CallSays(q),
           p.kind = "result" => ResultSays(p) = ResultSays(q),
           p.kind = "media" => MediaSays(p) = MediaSays(q)
    PROVE  SameReading(q, p)
<1>1. ASSUME NEW k \in Readable PROVE Read(k)[q] = Read(k)[p]
 <2>1. CASE k # p.kind BY <2>1, ReadIs
 <2>2. CASE k = p.kind /\ k = "text" BY <2>2, ReadIs
 <2>3. CASE k = p.kind /\ k = "call" BY <2>3, ReadIs
 <2>4. CASE k = p.kind /\ k = "result" BY <2>4, ReadIs
 <2>5. CASE k = p.kind /\ k = "media" BY <2>5, ReadIs
 <2> QED BY <2>1, <2>2, <2>3, <2>4, <2>5 DEF Readable
<1> QED BY <1>1 DEF SameReading

LEMMA Recached ==
    ASSUME NEW p \in Block, NEW cache \in Caches
    PROVE  SameReading([p EXCEPT !.cache = cache], p)
           /\ [p EXCEPT !.cache = cache].kind = p.kind
<1> DEFINE q == [p EXCEPT !.cache = cache]
<1>1. q \in Block /\ q.kind = p.kind
  BY DEF Block, ContentPart, TextPart, MediaPart, ReasoningPart, ToolCallPart, ToolResultPart
<1>2. p.kind = "text" => p.text = q.text BY BlockKinds DEF TextPart
<1>3. p.kind = "call" => CallSays(p) = CallSays(q)
  BY BlockKinds DEF ToolCallPart, CallSays, OrEmptyObject
<1>4. p.kind = "result" => ResultSays(p) = ResultSays(q)
  BY BlockKinds DEF ToolResultPart, ResultSays
<1>5. p.kind = "media" => MediaSays(p) = MediaSays(q) BY BlockKinds DEF MediaPart, MediaSays
<1>6. SameReading(q, p)
 <2> HIDE DEF q
 <2> QED BY <1>1, <1>2, <1>3, <1>4, <1>5, SameReadingBy
<1> QED BY <1>1, <1>6

LEMMA PlainReads ==
    ASSUME NEW p \in Block
    PROVE  SameReading(Plain(p), p) /\ Plain(p).kind = p.kind /\ Plain(p) \in Block
  BY Recached DEF Plain, Caches, SameReading

LEMMA UnsupportedBecomes ==
    \A p, kinds : Becomes(Unsupported, p, kinds)
  BY DEF Becomes, Unsupported, Fail

LEMMA FailBecomes ==
    ASSUME NEW why, why # "none" PROVE \A p, kinds : Becomes(Fail(why), p, kinds)
  BY DEF Becomes, Fail

LEMMA PlainBecomes ==
    ASSUME NEW p \in Block, NEW kinds, p.kind \in kinds
    PROVE  Becomes(Ok(<<Plain(p)>>), p, kinds)
<1>1. Ok(<<Plain(p)>>).out = <<Plain(p)>> BY DEF Ok
<1> QED BY <1>1, PlainReads, BecomesOne

LEMMA CachedBecomes ==
    ASSUME NEW p \in Block, NEW q, SameReading(q, p), NEW cache \in Caches, NEW kinds,
           p.kind \in kinds
    PROVE  Becomes(applyCacheControl(q, cache), p, kinds)
<1>1. CASE cache = "other" BY <1>1, FailBecomes DEF applyCacheControl
<1>2. CASE cache # "other"
 <2> DEFINE b == [q EXCEPT !.cache = cache]
 <2>1. q \in Block BY DEF SameReading
 <2>2. SameReading(b, q) BY <2>1, Recached
 <2>3. SameReading(b, p) BY <2>2 DEF SameReading
 <2>4. applyCacheControl(q, cache) = Ok(<<b>>) /\ Ok(<<b>>).out = <<b>>
   BY <1>2 DEF applyCacheControl, Ok
 <2> HIDE DEF b
 <2>5. Becomes(Ok(<<b>>), p, kinds) BY <2>3, <2>4, BecomesOne
 <2> QED BY <2>4, <2>5
<1> QED BY <1>1, <1>2

----------------------------------------
LEMMA CollectType ==
    ASSUME NEW R, NEW n \in Nat, NEW results, DOMAIN results = 1..n, Len(results) = n,
           \A i \in 1..n : results[i].err = "none" => results[i].out \in Seq(R),
           Collect(results).err = "none"
    PROVE  Collect(results).out \in Seq(R)
<1> DEFINE outs == [i \in DOMAIN results |-> results[i].out]
<1>1. \A i \in 1..n : results[i].err = "none" BY CollectErr
<1>2. Collect(results).out = FlattenSeq(outs) BY <1>1, CollectIs DEF Ok
<1>3. outs \in Seq(Seq(R)) BY <1>1
<1> HIDE DEF outs
<1> QED BY <1>2, <1>3, FlattenType

LEMMA MediaCount ==
    ASSUME NEW s \in Seq(Block)
    PROVE  Len(Kind(s, "media")) = Len(Spread(s, Read("media")))
<1>1. Kind(s, "media") \in Seq(Block) BY KindIsSpread
<1>2. Len(Listed(Kind(s, "media"), MediaSays)) = Len(Kind(s, "media")) BY <1>1 DEF Listed
<1> QED BY <1>2, ListedIs

SaysTheSame(c, d) ==
    /\ Spread(c, Read("text")) = Spread(d, Read("text"))
    /\ Spread(c, Read("media")) = Spread(d, Read("media"))

LEMMA InnerIsBlock == \A s \in Seq(Inner) : s \in Seq(Block)
<1>1. Inner \subseteq Block BY NativeIsBlock
<1> QED BY <1>1, SeqMonotonic

LEMMA SameResult ==
    ASSUME NEW p \in ToolResultPart(Atoms), NEW q \in ToolResultPart(Atoms),
           IF provider = "gemini" THEN q.name = p.name ELSE q.id = p.id,
           SaysTheSame(q.content, p.content)
    PROVE  SameReading(q, p) /\ p \in Block /\ p.kind = "result"
<1>1. p \in Block /\ q \in Block /\ p.kind = "result" /\ q.kind = "result"
  BY DEF Block, ContentPart, ToolResultPart
<1>2. p.content \in Seq(Block) /\ q.content \in Seq(Block)
 <2>1. p.content \in Seq(Inner) /\ q.content \in Seq(Inner) BY DEF ToolResultPart, Inner
 <2> QED BY <2>1, InnerIsBlock
<1>3. TextFromParts(p.content) = TextFromParts(q.content) BY <1>2, TextIsSpread DEF SaysTheSame
<1>4. Len(Kind(p.content, "media")) = Len(Kind(q.content, "media"))
  BY <1>2, MediaCount DEF SaysTheSame
<1>5. ResultSays(p) = ResultSays(q) BY <1>3, <1>4 DEF ResultSays
<1> QED BY <1>1, <1>5, SameReadingBy

----------------------------------------
\* Anthropic
LEMMA Resolved ==
    ASSUME NEW c \in Caches, NEW d \in Caches PROVE resolveCacheControl(c, d) \in Caches
  BY DEF resolveCacheControl

LEMMA AnthropicParts ==
    ASSUME NEW p \in Block, NEW c \in Caches
    PROVE  /\ Becomes(systemBlock(p, c), p, {"text"})
           /\ Becomes(contentBlock(p, c), p, {"text", "media"})
           /\ Becomes(assistantBlock(p, c), p, {"text", "call"})
<1> DEFINE cache == resolveCacheControl(c, p.cache)
<1>1. cache \in Caches BY BlockKinds, Resolved
<1>2. SameReading(p, p) BY DEF SameReading
<1> HIDE DEF cache
<1>3. \A kinds : p.kind \in kinds => Becomes(applyCacheControl(p, cache), p, kinds)
  BY <1>1, <1>2, CachedBecomes
<1>4. Becomes(systemBlock(p, c), p, {"text"})
 <2>1. systemBlock(p, c) = IF p.kind = "text" THEN applyCacheControl(p, cache) ELSE Unsupported
   BY DEF systemBlock, cache
 <2> QED BY <1>3, <2>1, UnsupportedBecomes
<1>5. Becomes(contentBlock(p, c), p, {"text", "media"})
 <2>1. CASE p.kind = "text"
  <3>1. contentBlock(p, c) = applyCacheControl(p, cache) BY <2>1 DEF contentBlock, cache
  <3> QED BY <1>3, <2>1, <3>1
 <2>2. CASE p.kind = "media"
  <3>1. contentBlock(p, c) = mediaBlock(p, cache) BY <2>2 DEF contentBlock, cache
  <3>2. mediaBlock(p, cache) \in {applyCacheControl(p, cache), Unsupported} BY DEF mediaBlock
  <3> QED BY <1>3, <2>2, <3>1, <3>2, UnsupportedBecomes
 <2>3. CASE p.kind \notin {"text", "media"}
  <3>1. contentBlock(p, c) = Unsupported BY <2>3 DEF contentBlock
  <3> QED BY <3>1, UnsupportedBecomes
 <2> QED BY <2>1, <2>2, <2>3
<1>6. Becomes(assistantBlock(p, c), p, {"text", "call"})
 <2>1. CASE p.kind = "text"
  <3>1. assistantBlock(p, c) = applyCacheControl(p, cache) BY <2>1 DEF assistantBlock, cache
  <3> QED BY <1>3, <2>1, <3>1
 <2>2. CASE p.kind = "call" /\ p.args # "malformed"
  <3>1. assistantBlock(p, c) = applyCacheControl(p, cache) BY <2>2 DEF assistantBlock, cache
  <3> QED BY <1>3, <2>2, <3>1
 <2>3. CASE p.kind = "call" /\ p.args = "malformed"
  <3>1. assistantBlock(p, c) = Fail("ErrMalformedArgs") BY <2>3 DEF assistantBlock
  <3> QED BY <3>1, FailBecomes
 <2>4. CASE p.kind \notin {"text", "call"}
  <3>1. assistantBlock(p, c) = Unsupported BY <2>4 DEF assistantBlock
  <3> QED BY <3>1, UnsupportedBecomes
 <2> QED BY <2>1, <2>2, <2>3, <2>4
<1> QED BY <1>4, <1>5, <1>6

\* What a tool result holds stays such.
LEMMA ContentBlockInner ==
    ASSUME NEW p \in Inner, NEW c \in Caches, contentBlock(p, c).err = "none"
    PROVE  contentBlock(p, c).out \in Seq(Inner)
<1> DEFINE cache == resolveCacheControl(c, p.cache)
<1>1. p \in Block /\ p.kind \in {"text", "media", "reasoning"}
 <2>1. p.kind \in {"text", "media", "reasoning"} BY DEF Inner, TextPart, MediaPart, ReasoningPart
 <2> QED BY <2>1, NativeIsBlock
<1>2. cache \in Caches BY <1>1, BlockKinds, Resolved
<1>3. [p EXCEPT !.cache = cache] \in Inner
 <2> HIDE DEF cache
 <2> QED BY <1>2 DEF Inner, TextPart, MediaPart, ReasoningPart
<1>4. contentBlock(p, c) \in {applyCacheControl(p, cache), Unsupported}
  BY DEF contentBlock, mediaBlock
<1> HIDE DEF cache
<1>5. contentBlock(p, c) = applyCacheControl(p, cache) BY <1>4 DEF Unsupported, Fail
<1>6. applyCacheControl(p, cache) = Ok(<<[p EXCEPT !.cache = cache]>>)
  BY <1>5 DEF applyCacheControl, Fail
<1> QED BY <1>3, <1>5, <1>6 DEF Ok

LEMMA AnthropicToolResult ==
    ASSUME NEW p \in Block, p.kind = "result", NEW c \in Caches, provider # "gemini"
    PROVE  Becomes(toolResultBlock(p, c), p, {"result"})
<1> DEFINE cache   == resolveCacheControl(c, p.cache)
           results == [i \in DOMAIN p.content |-> contentBlock(p.content[i], cache)]
           content == Collect(results)
           q       == [p EXCEPT !.content = content.out, !.name = ""]
<1>1. cache \in Caches BY BlockKinds, Resolved
<1>2. p \in ToolResultPart(Atoms) /\ p.content \in Seq(Inner) /\ p.content \in Seq(Block)
 <2>1. p \in ToolResultPart(Atoms) BY BlockKinds
 <2>2. p.content \in Seq(Inner) BY <2>1 DEF ToolResultPart, Inner
 <2> QED BY <2>1, <2>2, InnerIsBlock
<1>3. toolResultBlock(p, c) = IF content.err # "none" THEN content ELSE applyCacheControl(q, cache)
  BY DEF toolResultBlock, Each
<1> HIDE DEF cache
<1>4. CASE content.err # "none" BY <1>3, <1>4 DEF Becomes
<1>5. CASE content.err = "none"
 <2>1. /\ DOMAIN p.content = 1..Len(p.content) /\ Len(p.content) \in Nat
       /\ DOMAIN results = 1..Len(p.content) /\ Len(results) = Len(p.content)
       /\ \A i \in DOMAIN p.content : p.content[i] \in Inner /\ p.content[i] \in Block
   BY <1>2
 <2>2. AllBecome(results, p.content, {"text", "media"}) BY <1>1, <2>1, AnthropicParts DEF AllBecome
 <2>3. \A i \in 1..Len(p.content) : results[i].err = "none" => results[i].out \in Seq(Inner)
   BY <1>1, <2>1, ContentBlockInner
 <2> HIDE DEF results
 <2>4. Carries(content.out, p.content, {"text", "media"}) BY <1>2, <1>5, <2>1, <2>2, EachCarries
 <2>5. content.out \in Seq(Inner) BY <1>5, <2>1, <2>3, CollectType
 <2>6. SaysTheSame(content.out, p.content) BY <2>4 DEF Carries, SaysTheSame, Readable
 <2> HIDE DEF content
 <2>7. q \in ToolResultPart(Atoms) /\ q.content = content.out /\ q.id = p.id
  <3>1. "" \in Strings BY StringsAssumption
  <3> QED BY <1>2, <2>5, <3>1 DEF ToolResultPart, Inner
 <2> HIDE DEF q
 <2>8. SameReading(q, p) BY <1>2, <2>6, <2>7, SameResult
 <2> QED BY <1>1, <1>3, <1>5, <2>8, CachedBecomes
<1> QED BY <1>4, <1>5

----------------------------------------
\* OpenAI, Gemini and Ollama
\* A type that the provider's form cannot state may be replaced by another such.
LEMMA RetypedBecomes ==
    ASSUME NEW p \in Block, p.kind = "media", NEW mime \in Mimes, Stated(mime) = Stated(p.mime)
    PROVE  Becomes(Ok(<<[Plain(p) EXCEPT !.mime = mime]>>), p, {"media"})
<1> DEFINE q == [Plain(p) EXCEPT !.mime = mime]
<1>1. p \in MediaPart BY BlockKinds
<1>2. q \in MediaPart /\ q.mime = mime /\ q.source = p.source /\ q.kind = "media"
  BY <1>1 DEF Plain, MediaPart, Caches
<1>3. q \in Block BY <1>2 DEF Block, ContentPart
<1>4. Ok(<<q>>).out = <<q>> BY DEF Ok
<1> HIDE DEF q
<1>5. MediaSays(p) = MediaSays(q) BY <1>2 DEF MediaSays
<1>6. SameReading(q, p) BY <1>2, <1>3, <1>5, SameReadingBy
<1>7. Becomes(Ok(<<q>>), p, {"media"}) BY <1>4, <1>6, BecomesOne
<1> QED BY <1>7 DEF q

LEMMA RetypedUserParts ==
    ASSUME NEW p \in Block, p.kind = "media"
    PROVE  /\ provider = "openai" => Becomes(Ok(<<OfItsKind(p)>>), p, {"media"})
           /\ provider = "gemini" => Becomes(Ok(<<WithMime(p)>>), p, {"media"})
           /\ provider = "ollama" => Becomes(Ok(<<ImageData(p)>>), p, {"media"})
<1>1. p.mime \in Mimes /\ p \in MediaPart BY BlockKinds DEF MediaPart
<1>2. Plain(p).mime = p.mime BY <1>1 DEF Plain, MediaPart
<1>3. ASSUME provider = "openai" PROVE Becomes(Ok(<<OfItsKind(p)>>), p, {"media"})
  <2> DEFINE mime == IF p.mime \in {"image", "audio"} THEN p.mime ELSE "blank"
  <2>1. mime \in Mimes /\ Stated(mime) = Stated(p.mime) BY <1>1, <1>3 DEF Mimes, Stated
  <2>2. OfItsKind(p) = [Plain(p) EXCEPT !.mime = mime] BY <1>2 DEF OfItsKind
  <2> HIDE DEF mime
  <2> QED BY <2>1, <2>2, RetypedBecomes
<1>4. ASSUME provider = "gemini" PROVE Becomes(Ok(<<WithMime(p)>>), p, {"media"})
  <2> DEFINE mime == IF p.mime \in {"blank", "blank image"} THEN "other" ELSE p.mime
  <2>1. mime \in Mimes /\ Stated(mime) = Stated(p.mime) BY <1>1, <1>4 DEF Mimes, Stated
  <2>2. WithMime(p) = [Plain(p) EXCEPT !.mime = mime] BY <1>2 DEF WithMime
  <2> HIDE DEF mime
  <2> QED BY <2>1, <2>2, RetypedBecomes
<1>5. ASSUME provider = "ollama" PROVE Becomes(Ok(<<ImageData(p)>>), p, {"media"})
  <2>1. "image" \in Mimes /\ Stated("image") = Stated(p.mime) BY <1>1, <1>5 DEF Mimes, Stated
  <2> QED BY <2>1, RetypedBecomes DEF ImageData
<1> QED BY <1>3, <1>4, <1>5

\* What carries media only carries texts and media: there is no text in it.
LEMMA MediaBecomes ==
    ASSUME NEW p \in Block, p.kind = "media", NEW r, Becomes(r, p, {"media"})
    PROVE  Becomes(r, p, {"text", "media"})
  BY ReadIs DEF Becomes

LEMMA OpenAIBlocks ==
    ASSUME NEW p \in Block, provider = "openai"
    PROVE  /\ Becomes(openaiUserPart(p), p, {"text", "media"})
           /\ Becomes(openaiAssistantCall(p), p, {"call"})
<1>1. \A kinds : p.kind \in kinds => Becomes(Ok(<<Plain(p)>>), p, kinds) BY PlainBecomes
<1>2. \A why, kinds : why # "none" => Becomes(Fail(why), p, kinds) BY FailBecomes
<1>3. Becomes(openaiUserPart(p), p, {"text", "media"})
 <2>1. CASE p.kind = "text"
  <3>1. openaiUserPart(p) = Ok(<<Plain(p)>>) BY <2>1 DEF openaiUserPart
  <3> QED BY <1>1, <2>1, <3>1
 <2>2. CASE p.kind = "media"
  <3>1. openaiUserPart(p) = mediaPartToOpenAI(p) BY <2>2 DEF openaiUserPart
  <3>2. mediaPartToOpenAI(p) \in {Unsupported, Fail("ErrMediaNotResolved"), Ok(<<OfItsKind(p)>>)}
   <4>1. CASE p.source = "nothing" BY <4>1 DEF mediaPartToOpenAI
   <4>2. CASE p.source = "url" /\ p.mime # "image" BY <4>2 DEF mediaPartToOpenAI
   <4>3. CASE p.source # "nothing" /\ ~(p.source = "url" /\ p.mime # "image")
     BY <4>3 DEF mediaPartToOpenAI
   <4> QED BY <4>1, <4>2, <4>3
  <3>3. Becomes(Ok(<<OfItsKind(p)>>), p, {"text", "media"})
    BY <2>2, RetypedUserParts, MediaBecomes
  <3> QED BY <1>2, <3>1, <3>2, <3>3, UnsupportedBecomes
 <2>3. CASE p.kind \notin {"text", "media"}
  <3>1. openaiUserPart(p) = Unsupported BY <2>3 DEF openaiUserPart
  <3> QED BY <3>1, UnsupportedBecomes
 <2> QED BY <2>1, <2>2, <2>3
<1>4. Becomes(openaiAssistantCall(p), p, {"call"})
 <2>1. CASE p.kind = "text"
  <3>1. openaiAssistantCall(p).out = <<>> BY <2>1 DEF openaiAssistantCall, Ok
  <3>2. Read("call")[p] = <<>> BY <2>1, ReadIs
  <3> QED BY <3>1, <3>2, SpreadEmpty DEF Becomes
 <2>2. CASE p.kind = "call" /\ p.args # "malformed"
  <3>1. openaiAssistantCall(p) = Ok(<<Plain(p)>>) BY <2>2 DEF openaiAssistantCall
  <3> QED BY <1>1, <2>2, <3>1
 <2>3. CASE p.kind = "call" /\ p.args = "malformed"
  <3>1. openaiAssistantCall(p) = Fail("ErrMalformedArgs") BY <2>3 DEF openaiAssistantCall
  <3> QED BY <1>2, <3>1
 <2>4. CASE p.kind \notin {"text", "call"}
  <3>1. openaiAssistantCall(p) = Unsupported BY <2>4 DEF openaiAssistantCall
  <3> QED BY <3>1, UnsupportedBecomes
 <2> QED BY <2>1, <2>2, <2>3, <2>4
<1> QED BY <1>3, <1>4

\* A result that is sent as a text has only texts.
AsText(p) == [Plain(p) EXCEPT !.content = Joined(p.content), !.isError = FALSE]

LEMMA AsTextReads ==
    ASSUME NEW p \in Block, p.kind = "result", ~HasMedia(p.content)
    PROVE  SameReading(AsText(p), p) /\ AsText(p).kind = "result"
<1>1. p \in ToolResultPart(Atoms) /\ p.content \in Seq(Inner) /\ p.content \in Seq(Block)
 <2>1. p \in ToolResultPart(Atoms) BY BlockKinds
 <2>2. p.content \in Seq(Inner) BY <2>1 DEF ToolResultPart, Inner
 <2> QED BY <2>1, <2>2, InnerIsBlock
<1>2. Joined(p.content) \in Seq(Inner)
 <2>1. TextPart(Atoms) \subseteq Inner BY DEF Inner
 <2>2. Joined(p.content) \in Seq(TextPart(Atoms)) BY <1>1, JoinedReads
 <2> QED BY <2>1, <2>2, SeqMonotonic
<1>3. SaysTheSame(Joined(p.content), p.content)
 <2>1. Kind(p.content, "media") = <<>> BY DEF HasMedia
 <2>2. Len(Spread(p.content, Read("media"))) = 0
  <3>1. Len(Kind(p.content, "media")) = 0 BY <2>1
  <3> QED BY <1>1, <3>1, MediaCount
 <2>3. Spread(p.content, Read("media")) = <<>>
  <3> DEFINE f == Read("media")
             c == p.content
  <3>1. f \in Maps(Block, Meant) BY ReadIs DEF Readable
  <3>2. c \in Seq(Block) BY <1>1
  <3>3. Len(Spread(c, f)) = 0 BY <2>2
  <3> HIDE DEF f, c
  <3>4. Spread(c, f) \in Seq(Meant) BY <3>1, <3>2, SpreadType
  <3>5. Spread(c, f) = <<>> BY <3>3, <3>4
  <3> QED BY <3>5 DEF f, c
 <2> QED BY <1>1, <2>3, JoinedReads DEF SaysTheSame, Readable
<1> DEFINE q == AsText(p)
           s == Joined(p.content)
<1>4. q \in ToolResultPart(Atoms) /\ q.content = s /\ q.id = p.id /\ q.name = p.name
      /\ q.kind = "result"
 <2>1. s \in Seq(Inner) BY <1>2
 <2> HIDE DEF s
 <2>2. q = [[p EXCEPT !.cache = "unset"] EXCEPT !.content = s, !.isError = FALSE]
   BY DEF AsText, Plain, s
 <2> HIDE DEF q
 <2> QED BY <1>1, <2>1, <2>2 DEF ToolResultPart, Inner, Caches
<1> HIDE DEF q
<1>5. SameReading(q, p) BY <1>1, <1>3, <1>4, SameResult
<1> QED BY <1>4, <1>5 DEF q

LEMMA TextResultBecomes ==
    ASSUME NEW p \in Block, p.kind = "result"
    PROVE  Becomes(TextResult(p), p, {"result"})
<1>1. CASE HasMedia(p.content)
 <2>1. TextResult(p) = Unsupported BY <1>1 DEF TextResult
 <2> QED BY <2>1, UnsupportedBecomes
<1>2. CASE ~HasMedia(p.content)
 <2>1. TextResult(p).out = <<AsText(p)>> BY <1>2 DEF TextResult, AsText, Ok
 <2>2. SameReading(AsText(p), p) BY <1>2, AsTextReads
 <2> QED BY <2>1, <2>2, BecomesOne
<1> QED BY <1>1, <1>2

LEMMA GeminiBlocks ==
    ASSUME NEW p \in Block, provider = "gemini"
    PROVE  /\ Becomes(geminiUserPart(p), p, {"text", "media"})
           /\ Becomes(geminiAssistantPart(p), p, {"text", "call"})
<1>1. \A kinds : p.kind \in kinds => Becomes(Ok(<<Plain(p)>>), p, kinds) BY PlainBecomes
<1>2. Becomes(geminiUserPart(p), p, {"text", "media"})
 <2>1. \/ geminiUserPart(p) = Ok(<<Plain(p)>>) /\ p.kind = "text"
       \/ geminiUserPart(p) = Ok(<<WithMime(p)>>) /\ p.kind = "media"
       \/ geminiUserPart(p) = Unsupported
   BY DEF geminiUserPart
 <2>2. p.kind = "media" => Becomes(Ok(<<WithMime(p)>>), p, {"text", "media"})
   BY RetypedUserParts, MediaBecomes
 <2> QED BY <1>1, <2>1, <2>2, UnsupportedBecomes
<1>3. ASSUME p.kind = "call", p.args \in {"", "{}", "object"}
      PROVE  Becomes(Ok(<<FunctionCall(p)>>), p, {"text", "call"})
 <2> DEFINE q == FunctionCall(p)
 <2>1. p \in ToolCallPart BY <1>3, BlockKinds
 <2>2. q \in ToolCallPart /\ q.name = p.name /\ q.args = IF p.args = "" THEN "{}" ELSE p.args
   BY <1>3, <2>1 DEF FunctionCall, Plain, ToolCallPart, Id, Caches, Args
 <2>3. Ok(<<q>>).out = <<q>> BY DEF Ok
 <2> HIDE DEF q
 <2>4. q \in Block /\ q.kind = "call" BY <2>2 DEF Block, ContentPart, ToolCallPart
 <2>5. OrEmptyObject(q).args = OrEmptyObject(p).args BY <2>1, <2>2 DEF OrEmptyObject, ToolCallPart
 <2>6. CallSays(p) = CallSays(q) BY <2>2, <2>5 DEF CallSays
 <2>7. SameReading(q, p) BY <1>3, <2>4, <2>6, SameReadingBy
 <2>8. Becomes(Ok(<<q>>), p, {"text", "call"}) BY <1>3, <2>3, <2>7, BecomesOne
 <2> QED BY <2>8 DEF q
<1>4. Becomes(geminiAssistantPart(p), p, {"text", "call"})
 <2>1. CASE p.kind = "text"
  <3>1. geminiAssistantPart(p) = Ok(<<Plain(p)>>) BY <2>1 DEF geminiAssistantPart
  <3> QED BY <1>1, <2>1, <3>1
 <2>2. CASE p.kind = "call" /\ p.args \in {"", "{}", "object"}
  <3>1. geminiAssistantPart(p) = Ok(<<FunctionCall(p)>>) BY <2>2 DEF geminiAssistantPart
  <3> QED BY <1>3, <2>2, <3>1
 <2>3. CASE p.kind = "call" /\ p.args \in {"array", "malformed"}
  <3>1. geminiAssistantPart(p) = Fail("ErrMalformedArgs") BY <2>3 DEF geminiAssistantPart
  <3> QED BY <3>1, FailBecomes
 <2>4. CASE p.kind = "call" /\ p.args \notin Args BY <2>4, BlockKinds DEF ToolCallPart
 <2>5. CASE p.kind \notin {"text", "call"}
  <3>1. geminiAssistantPart(p) = Unsupported BY <2>5 DEF geminiAssistantPart
  <3> QED BY <3>1, UnsupportedBecomes
 <2> QED BY <2>1, <2>2, <2>3, <2>4, <2>5 DEF Args
<1> QED BY <1>2, <1>4

LEMMA GeminiResultIs ==
    ASSUME NEW p \in Block, p.kind = "result", provider = "gemini", ~HasMedia(p.content)
    PROVE  \E r : geminiToolResult(p).out = <<r>> /\ SameReading(r, p) /\ r.kind = "result"
<1> DEFINE q == AsText(p)
           r == [q EXCEPT !.id = NoId]
           results == [i \in DOMAIN <<q>> |-> Ok(<<[<<q>>[i] EXCEPT !.id = NoId]>>)]
<1>1. SameReading(q, p) /\ q.kind = "result" /\ q \in Block BY AsTextReads DEF SameReading
<1>2. geminiToolResult(p) = Collect(results)
 <2>1. TextResult(p).out = <<q>> BY DEF TextResult, AsText, Ok
 <2>2. FunctionResponse(p) = Collect(results) BY <2>1 DEF FunctionResponse, Each
 <2> QED BY <2>2 DEF geminiToolResult
<1> HIDE DEF q
<1>3. SameReading(r, q)
 <2>1. q \in ToolResultPart(Atoms) BY <1>1, BlockKinds
 <2>2. r \in ToolResultPart(Atoms) /\ r.name = q.name /\ r.content = q.content
   BY <2>1 DEF ToolResultPart, Id
 <2>3. SaysTheSame(r.content, q.content) BY <2>2 DEF SaysTheSame
 <2> HIDE DEF r
 <2> QED BY <2>1, <2>2, <2>3, SameResult
<1>4. results = <<Ok(<<r>>)>> /\ Ok(<<r>>).err = "none" /\ Ok(<<r>>).out = <<r>> BY DEF Ok
<1>5. r.kind = "result"
 <2>1. q \in ToolResultPart(Atoms) BY <1>1, BlockKinds
 <2> QED BY <2>1 DEF ToolResultPart
<1> HIDE DEF r, results
<1>6. SameReading(r, p) BY <1>1, <1>3 DEF SameReading
<1>7. Collect(results).out = <<r>>
 <2>1. DOMAIN results = 1..1 /\ Len(results) = 1 /\ \A i \in 1..1 : results[i].err = "none" BY <1>4
 <2>2. Collect(results) = Ok(FlattenSeq([i \in DOMAIN results |-> results[i].out]))
   BY <2>1, CollectIs
 <2>3. [i \in DOMAIN results |-> results[i].out] = <<<<r>>>> BY <1>4
 <2>4. FlattenSeq(<<<<r>>>>) = <<r>>
  <3>1. <<>> \in Seq(Seq({r})) /\ <<r>> \in Seq({r}) /\ <<<<r>>>> = Append(<<>>, <<r>>) OBVIOUS
  <3>2. FlattenSeq(Append(<<>>, <<r>>)) = FlattenSeq(<<>>) \o <<r>> BY <3>1, FlattenAppend
  <3>3. FlattenSeq(<<>>) \o <<r>> = <<r>> BY <3>1, FlattenEmpty, ConcatEmptySeq
  <3> QED BY <3>1, <3>2, <3>3
 <2> QED BY <2>2, <2>3, <2>4 DEF Ok
<1> QED BY <1>2, <1>5, <1>6, <1>7

LEMMA GeminiResultBecomes ==
    ASSUME NEW p \in Block, p.kind = "result", provider = "gemini"
    PROVE  Becomes(geminiToolResult(p), p, {"result"})
<1>1. CASE HasMedia(p.content)
 <2>1. geminiToolResult(p) = Unsupported BY <1>1 DEF geminiToolResult
 <2> QED BY <2>1, UnsupportedBecomes
<1>2. CASE ~HasMedia(p.content) BY <1>2, GeminiResultIs, BecomesOne
<1> QED BY <1>1, <1>2

LEMMA OllamaBlocks ==
    ASSUME NEW p \in Block, provider = "ollama"
    PROVE  /\ p.kind = "media" => Becomes(ollamaImage(p), p, {"media"})
           /\ p.kind = "call" => Becomes(ollamaToolCall(p), p, {"call"})
<1>1. \A kinds : p.kind \in kinds => Becomes(Ok(<<Plain(p)>>), p, kinds) BY PlainBecomes
<1>2. \A why, kinds : why # "none" => Becomes(Fail(why), p, kinds) BY FailBecomes
<1>3. ollamaImage(p) \in {Unsupported, Fail("ErrMediaNotResolved"), Ok(<<ImageData(p)>>)}
 <2>1. CASE ~isOllamaImageMediaPart(p) BY <2>1 DEF ollamaImage
 <2>2. CASE isOllamaImageMediaPart(p) /\ p.source = "url" BY <2>2 DEF ollamaImage
 <2>3. CASE isOllamaImageMediaPart(p) /\ p.source = "nothing" BY <2>3 DEF ollamaImage
 <2>4. CASE isOllamaImageMediaPart(p) /\ p.source \notin {"url", "nothing"} BY <2>4 DEF ollamaImage
 <2> QED BY <2>1, <2>2, <2>3, <2>4
<1>4. ollamaToolCall(p) \in {Fail("ErrMalformedArgs"), Ok(<<Plain(p)>>)} BY DEF ollamaToolCall
<1>5. p.kind = "media" => Becomes(Ok(<<ImageData(p)>>), p, {"media"}) BY RetypedUserParts
<1> QED BY <1>1, <1>2, <1>3, <1>4, <1>5, UnsupportedBecomes

----------------------------------------
\* Whole messages.  A role is made of certain kinds, a request shows a role as another,
\* and a property looks at one kind in the messages of some roles.
BlockMessage == ChatMessage(Atoms)
RequestMessage == [role : Strings, content : Seq(Block)]
Talk == {"user", "assistant"}

MadeOf(role) ==
    CASE role \in SystemRoles -> {"text"}
      [] role = "user"      -> {"text", "media"}
      [] role = "assistant" -> {"text", "call"}
      [] role = "tool"      -> {"result"}
ShownAs(role) ==
    CASE role \in SystemRoles -> {"system"}
      [] role = "user"      -> {"user"}
      [] role = "assistant" -> {"assistant"}
      [] role = "tool"      -> {"user", "tool"}

Tell(M, k, roles) == [m \in M |-> IF m.role \in roles THEN Spread(m.content, Read(k)) ELSE <<>>]

\* What is said of a kind in the roles to of a request is what it was in the
\* roles from of the conversation.
Seen(k, to, from) ==
    \/ k = "text" /\ to = {"system"} /\ from = SystemRoles
    \/ k = "text" /\ to = Talk /\ from = Talk
    \/ k = "call" /\ "assistant" \in to /\ from = {"assistant"}
    \/ k = "result" /\ "user" \in to /\ "tool" \in to /\ from = {"tool"}
    \/ k = "media" /\ "user" \in to /\ from = {"user"}

Kept(m, out) ==
    /\ out \in Seq(RequestMessage)
    /\ \A k, to, from : Seen(k, to, from) =>
          Spread(out, Tell(RequestMessage, k, to)) = Tell(BlockMessage, k, from)[m]

LEMMA MadeAndShown ==
    /\ \A role \in SystemRoles : MadeOf(role) = {"text"} /\ ShownAs(role) = {"system"}
    /\ MadeOf("user") = {"text", "media"} /\ ShownAs("user") = {"user"}
    /\ MadeOf("assistant") = {"text", "call"} /\ ShownAs("assistant") = {"assistant"}
    /\ MadeOf("tool") = {"result"} /\ ShownAs("tool") = {"user", "tool"}
<1>1. \A role \in SystemRoles : role # "user" /\ role # "assistant" /\ role # "tool"
  BY DEF SystemRoles
<1>2. "user" \notin SystemRoles /\ "assistant" \notin SystemRoles /\ "tool" \notin SystemRoles
  BY DEF SystemRoles
<1>3. ASSUME NEW role \in SystemRoles PROVE MadeOf(role) = {"text"} /\ ShownAs(role) = {"system"}
  BY <1>1, <1>3 DEF MadeOf, ShownAs
<1>4. MadeOf("user") = {"text", "media"} /\ ShownAs("user") = {"user"} BY <1>2 DEF MadeOf, ShownAs
<1>5. MadeOf("assistant") = {"text", "call"} /\ ShownAs("assistant") = {"assistant"}
  BY <1>2 DEF MadeOf, ShownAs
<1>6. MadeOf("tool") = {"result"} /\ ShownAs("tool") = {"user", "tool"} BY <1>2 DEF MadeOf, ShownAs
<1> QED BY <1>3, <1>4, <1>5, <1>6

LEMMA SeenFits ==
    ASSUME NEW role \in Roles, NEW r \in ShownAs(role), NEW k, NEW to, NEW from, Seen(k, to, from)
    PROVE  /\ k \in Readable
           /\ (r \in to /\ k \in MadeOf(role)) <=> role \in from
<1>1. CASE role \in SystemRoles
 <2>1. r = "system" /\ MadeOf(role) = {"text"} /\ role \notin {"user", "assistant", "tool"}
   BY <1>1, MadeAndShown, RolesApart
 <2> QED BY <1>1, <2>1 DEF Seen, Talk, Readable
<1>2. CASE role = "user"
 <2>1. r = "user" /\ MadeOf(role) = {"text", "media"} /\ role \notin SystemRoles
   BY <1>2, MadeAndShown, RolesApart
 <2> QED BY <1>2, <2>1 DEF Seen, Talk, Readable
<1>3. CASE role = "assistant"
 <2>1. r = "assistant" /\ MadeOf(role) = {"text", "call"} /\ role \notin SystemRoles
   BY <1>3, MadeAndShown, RolesApart
 <2> QED BY <1>3, <2>1 DEF Seen, Talk, Readable
<1>4. CASE role = "tool"
 <2>1. r \in {"user", "tool"} /\ MadeOf(role) = {"result"} /\ role \notin SystemRoles
   BY <1>4, MadeAndShown, RolesApart
 <2> QED BY <1>4, <2>1 DEF Seen, Talk, Readable
<1> QED BY <1>1, <1>2, <1>3, <1>4, RolesApart

LEMMA TellType ==
    ASSUME NEW k \in Readable, NEW roles
    PROVE  /\ Tell(RequestMessage, k, roles) \in Maps(RequestMessage, Meant)
           /\ Tell(BlockMessage, k, roles) \in Maps(BlockMessage, Meant)
<1> DEFINE f == Read(k)
<1>1. f \in Maps(Block, Meant) BY ReadIs
<1> HIDE DEF f
<1>2. \A c \in Seq(Block) : Spread(c, f) \in Seq(Meant) BY <1>1, SpreadType
<1>3. \A m \in RequestMessage : m.content \in Seq(Block) BY DEF RequestMessage
<1>4. \A m \in BlockMessage : m.content \in Seq(Block) BY DEF BlockMessage, ChatMessage, Block
<1>5. Tell(RequestMessage, k, roles)
         = [m \in RequestMessage |-> IF m.role \in roles THEN Spread(m.content, f) ELSE <<>>]
  BY DEF Tell, f
<1>6. Tell(BlockMessage, k, roles)
         = [m \in BlockMessage |-> IF m.role \in roles THEN Spread(m.content, f) ELSE <<>>]
  BY DEF Tell, f
<1> QED BY <1>2, <1>3, <1>4, <1>5, <1>6 DEF Maps

LEMMA ShownIsString == \A role \in Roles : ShownAs(role) \subseteq Strings
<1>1. Roles \subseteq Strings BY StringsAssumption
<1>2. \A role \in Roles : ShownAs(role) \subseteq {"system", "user", "assistant", "tool"}
 <2> SUFFICES ASSUME NEW role \in Roles
              PROVE  ShownAs(role) \subseteq {"system", "user", "assistant", "tool"}
   OBVIOUS
 <2>1. CASE role \in SystemRoles BY <2>1, MadeAndShown
 <2>2. CASE role \in {"user", "assistant", "tool"} BY <2>2, MadeAndShown
 <2> QED BY <2>1, <2>2, RolesApart
<1> QED BY <1>1, <1>2 DEF Roles

LEMMA KeptOne ==
    ASSUME NEW m \in BlockMessage, m.role \in Roles, NEW c, Carries(c, m.content, MadeOf(m.role)),
           NEW r \in ShownAs(m.role)
    PROVE  Kept(m, <<[role |-> r, content |-> c]>>)
<1> DEFINE x == [role |-> r, content |-> c]
<1>1. x \in RequestMessage /\ x.role = r /\ x.content = c
 <2>1. r \in Strings BY ShownIsString
 <2> QED BY <2>1 DEF RequestMessage, Carries
<1> HIDE DEF x
<1>2. ASSUME NEW k, NEW to, NEW from, Seen(k, to, from)
      PROVE  Spread(<<x>>, Tell(RequestMessage, k, to)) = Tell(BlockMessage, k, from)[m]
 <2>1. k \in Readable /\ ((r \in to /\ k \in MadeOf(m.role)) <=> m.role \in from) BY <1>2, SeenFits
 <2> DEFINE f == Tell(RequestMessage, k, to)
 <2>2. f \in Maps(RequestMessage, Meant) BY <2>1, TellType
 <2>3. f[x] = IF r \in to THEN Spread(c, Read(k)) ELSE <<>> BY <1>1 DEF Tell
 <2>4. Tell(BlockMessage, k, from)[m] = IF m.role \in from THEN Spread(m.content, Read(k)) ELSE <<>>
   BY DEF Tell
 <2> HIDE DEF f
 <2>5. Spread(<<x>>, f) = f[x] BY <1>1, <2>2, SpreadOne
 <2>6. Spread(c, Read(k)) = IF k \in MadeOf(m.role) THEN Spread(m.content, Read(k)) ELSE <<>>
   BY <2>1 DEF Carries
 <2>7. Spread(<<x>>, f) = Tell(BlockMessage, k, from)[m] BY <2>1, <2>3, <2>4, <2>5, <2>6
 <2> QED BY <2>7 DEF f
<1>3. <<x>> \in Seq(RequestMessage) BY <1>1
<1> QED BY <1>2, <1>3 DEF Kept, x

\* Each result in a message of its own.
LEMMA KeptMany ==
    ASSUME NEW m \in BlockMessage, m.role = "tool", NEW c, Carries(c, m.content, {"result"})
    PROVE  Kept(m, [i \in DOMAIN c |-> [role |-> "tool", content |-> <<c[i]>>]])
<1> DEFINE out == [i \in DOMAIN c |-> [role |-> "tool", content |-> <<c[i]>>]]
<1>1. /\ c \in Seq(Block) /\ DOMAIN c = 1..Len(c) /\ Len(c) \in Nat
      /\ \A i \in DOMAIN c : c[i] \in Block
 <2>1. c \in Seq(Block) BY DEF Carries
 <2> QED BY <2>1
<1>2. \A b \in Block : [role |-> "tool", content |-> <<b>>] \in RequestMessage
 <2>1. "tool" \in Strings BY StringsAssumption DEF Roles
 <2> QED BY <2>1 DEF RequestMessage
<1>3. out \in Seq(RequestMessage) BY <1>1, <1>2
<1>4. ASSUME NEW k, NEW to, NEW from, Seen(k, to, from)
      PROVE  Spread(out, Tell(RequestMessage, k, to)) = Tell(BlockMessage, k, from)[m]
 <2>0. "tool" \in Roles /\ "tool" \in ShownAs("tool") /\ MadeOf(m.role) = {"result"}
   BY MadeAndShown DEF Roles
 <2>1. k \in Readable /\ (("tool" \in to /\ k = "result") <=> m.role \in from)
   BY <1>4, <2>0, SeenFits
 <2>2. Tell(BlockMessage, k, from)[m] = IF m.role \in from THEN Spread(m.content, Read(k)) ELSE <<>>
   BY DEF Tell
 <2>3. Spread(c, Read(k)) = IF k = "result" THEN Spread(m.content, Read(k)) ELSE <<>>
   BY <2>1 DEF Carries
 <2> DEFINE f == Read(k)
            g == Tell(RequestMessage, k, to)
 <2>4. \A b \in Block : Spread(<<b>>, f) = f[b]
  <3>1. f \in Maps(Block, Meant) BY <2>1, ReadIs
  <3> HIDE DEF f
  <3> QED BY <3>1, SpreadOne
 <2>5. \A i \in DOMAIN c : g[out[i]] = IF "tool" \in to THEN f[c[i]] ELSE <<>>
  <3> SUFFICES ASSUME NEW i \in DOMAIN c PROVE g[out[i]] = IF "tool" \in to THEN f[c[i]] ELSE <<>>
    OBVIOUS
  <3> DEFINE x == [role |-> "tool", content |-> <<c[i]>>]
  <3>1. x \in RequestMessage /\ x.role = "tool" /\ x.content = <<c[i]>> /\ out[i] = x
    BY <1>1, <1>2
  <3> HIDE DEF x, out
  <3>2. g[x] = IF "tool" \in to THEN Spread(<<c[i]>>, f) ELSE <<>> BY <3>1 DEF Tell
  <3> HIDE DEF g, f
  <3> QED BY <1>1, <2>4, <3>1, <3>2
 <2>6. DOMAIN out = DOMAIN c OBVIOUS
 <2> HIDE DEF out, g
 <2>7. CASE "tool" \in to
  <3>1. [i \in DOMAIN out |-> g[out[i]]] = [i \in DOMAIN c |-> f[c[i]]]
   <4> HIDE DEF f
   <4> QED BY <2>5, <2>6, <2>7
  <3>2. Spread(out, g) = Spread(c, f)
   <4> HIDE DEF f
   <4> QED BY <3>1 DEF Spread
  <3> QED BY <2>1, <2>2, <2>3, <2>7, <3>2 DEF g
 <2>8. CASE "tool" \notin to
  <3>1. \A i \in 1..Len(out) : g[out[i]] = <<>>
   <4>1. DOMAIN out = 1..Len(out) BY <1>3
   <4> HIDE DEF f
   <4> QED BY <2>5, <2>6, <2>8, <4>1
  <3>2. Spread(out, g) = <<>> BY <1>3, <3>1, SpreadNothing
  <3> QED BY <2>1, <2>2, <2>8, <3>2 DEF g
 <2> QED BY <2>7, <2>8
<1> HIDE DEF out
<1>5. Kept(m, out) BY <1>3, <1>4 DEF Kept
<1> QED BY <1>5 DEF out

LEMMA WrapKept ==
    ASSUME NEW m \in BlockMessage, m.role \in Roles, NEW r, NEW role \in ShownAs(m.role),
           Wrap(role, r).err = "none",
           r.err = "none" => Carries(r.out, m.content, MadeOf(m.role))
    PROVE  Kept(m, Wrap(role, r).out)
<1>1. r.err = "none" BY WrapErr
<1>2. Wrap(role, r).out = <<[role |-> role, content |-> r.out]>> BY <1>1 DEF Wrap, Ok
<1> QED BY <1>1, <1>2, KeptOne

LEMMA CarriesKind ==
    ASSUME NEW s \in Seq(Block), NEW k, NEW out, Carries(out, Kind(s, k), {k})
    PROVE  Carries(out, s, {k})
  BY KindReads DEF Carries

LEMMA CarriesConcat ==
    ASSUME NEW s, NEW a, NEW K, NEW b, NEW L, Carries(a, s, K), Carries(b, s, L), K \cap L = {}
    PROVE  Carries(a \o b, s, K \cup L)
<1>1. a \in Seq(Block) /\ b \in Seq(Block) /\ a \o b \in Seq(Block) BY DEF Carries
<1>2. ASSUME NEW k \in Readable
      PROVE  Spread(a \o b, Read(k)) = IF k \in K \cup L THEN Spread(s, Read(k)) ELSE <<>>
 <2> DEFINE f == Read(k)
            u == Spread(a, f)
            v == Spread(b, f)
 <2>1. f \in Maps(Block, Meant) BY ReadIs
 <2>2. /\ u = IF k \in K THEN Spread(s, f) ELSE <<>>
       /\ v = IF k \in L THEN Spread(s, f) ELSE <<>>
   BY DEF Carries
 <2> HIDE DEF f
 <2>3. Spread(a \o b, f) = u \o v /\ u \in Seq(Meant) /\ v \in Seq(Meant)
   BY <1>1, <2>1, SpreadConcat, SpreadType
 <2> HIDE DEF u, v
 <2>4. u \o <<>> = u /\ <<>> \o v = v /\ <<>> \o <<>> = <<>> BY <2>3, ConcatEmptySeq
 <2>5. Spread(a \o b, f) = IF k \in K \cup L THEN Spread(s, f) ELSE <<>> BY <2>2, <2>3, <2>4
 <2> QED BY <2>5 DEF f
<1> QED BY <1>1, <1>2 DEF Carries

LEMMA JoinedCarries ==
    ASSUME NEW s \in Seq(Block)
    PROVE  Carries(Joined(s), s, {"text"}) /\ Carries(<<>>, s, {})
<1>1. Carries(Joined(s), s, {"text"}) BY JoinedReads DEF Carries
<1>2. Carries(<<>>, s, {}) BY SpreadEmpty DEF Carries
<1> QED BY <1>1, <1>2

LEMMA OrEmptyCarries ==
    ASSUME NEW s, NEW b, NEW kinds, Carries(b, s, kinds)
    PROVE  Carries(OrEmptyText(b), s, kinds)
<1>1. CASE b # <<>> BY <1>1 DEF OrEmptyText
<1>2. CASE b = <<>>
 <2> DEFINE t == Text(<<>>)
 <2>0. <<>> \in Seq(Atoms) OBVIOUS
 <2>1. t \in Block /\ t.kind = "text" /\ t.text = <<>> BY <2>0, TextBlock
 <2>2. OrEmptyText(b) = <<t>> BY <1>2 DEF OrEmptyText
 <2> HIDE DEF t
 <2>3. ASSUME NEW k \in Readable PROVE Spread(<<t>>, Read(k)) = Spread(b, Read(k))
  <3> DEFINE f == Read(k)
  <3>1. f \in Maps(Block, Meant) /\ f[t] = <<>> BY <2>1, ReadIs
  <3> HIDE DEF f
  <3>2. Spread(<<t>>, f) = <<>> /\ Spread(b, f) = <<>> BY <1>2, <2>1, <3>1, SpreadOne, SpreadEmpty
  <3> QED BY <3>2 DEF f
 <2>4. <<t>> \in Seq(Block) BY <2>1
 <2> QED BY <2>2, <2>3, <2>4 DEF Carries
<1> QED BY <1>1, <1>2

----------------------------------------
LEMMA MessageContent ==
    ASSUME NEW m \in BlockMessage
    PROVE  /\ m.content \in Seq(Block) /\ DOMAIN m.content = 1..Len(m.content)
           /\ Len(m.content) \in Nat /\ \A i \in DOMAIN m.content : m.content[i] \in Block
           /\ m.cache \in Caches
<1>1. m.content \in Seq(Block) /\ m.cache \in Caches BY DEF BlockMessage, ChatMessage, Block
<1> QED BY <1>1

LEMMA EachKept ==
    ASSUME NEW m \in BlockMessage, m.role \in Roles, NEW role \in ShownAs(m.role), NEW results,
           DOMAIN results = DOMAIN m.content, Len(results) = Len(m.content),
           AllBecome(results, m.content, MadeOf(m.role)),
           Wrap(role, Collect(results)).err = "none"
    PROVE  Kept(m, Wrap(role, Collect(results)).out)
<1> DEFINE r == Collect(results)
<1>1. r.err = "none" => Carries(r.out, m.content, MadeOf(m.role)) BY MessageContent, EachCarries
<1>2. Wrap(role, r).err = "none" OBVIOUS
<1> HIDE DEF r
<1>3. Kept(m, Wrap(role, r).out) BY <1>1, <1>2, WrapKept
<1> QED BY <1>3 DEF r

\* The results of a tool message.
LEMMA ResultsBecome ==
    ASSUME NEW m \in BlockMessage, NEW results,
           DOMAIN results = DOMAIN Kind(m.content, "result"),
           Len(results) = Len(Kind(m.content, "result")),
           AllBecome(results, Kind(m.content, "result"), {"result"}),
           Collect(results).err = "none"
    PROVE  Carries(Collect(results).out, m.content, {"result"})
<1> DEFINE s == Kind(m.content, "result")
<1>1. s \in Seq(Block) BY MessageContent, KindIsSpread
<1>2. Carries(Collect(results).out, s, {"result"})
 <2> HIDE DEF s
 <2> QED BY <1>1, EachCarries DEF s
<1> QED BY <1>2, MessageContent, CarriesKind

LEMMA KindBlocks ==
    ASSUME NEW m \in BlockMessage, NEW k
    PROVE  LET s == Kind(m.content, k)
           IN  /\ s \in Seq(Block) /\ Len(s) \in Nat /\ DOMAIN s = 1..Len(s)
               /\ \A i \in DOMAIN s : s[i] \in Block /\ s[i].kind = k
<1> DEFINE s == Kind(m.content, k)
<1>1. s \in Seq(Block) BY MessageContent, KindIsSpread
<1>2. Len(s) \in Nat /\ DOMAIN s = 1..Len(s) /\ \A i \in 1..Len(s) : s[i].kind = k
  BY MessageContent, KindHas
<1> HIDE DEF s
<1>3. \A i \in DOMAIN s : s[i] \in Block BY <1>1
<1> QED BY <1>1, <1>2, <1>3 DEF s

LEMMA RefusedMessages ==
    ASSUME NEW m, m.role \notin Roles
    PROVE  /\ anthropicMessage(m).err # "none" /\ messageToUnions(m).err # "none"
           /\ geminiMessage(m).err # "none" /\ translateMessage(m).err # "none"
<1>1. m.role \notin SystemRoles /\ m.role # "user" /\ m.role # "assistant" /\ m.role # "tool"
  BY RolesApart
<1>2. Fail("ErrUnsupportedRole").err # "none" BY DEF Fail
<1> QED BY <1>1, <1>2 DEF anthropicMessage, messageToUnions, geminiMessage, translateMessage

LEMMA AnthropicKeeps ==
    ASSUME NEW m \in BlockMessage, provider # "gemini", anthropicMessage(m).err = "none"
    PROVE  Kept(m, anthropicMessage(m).out)
<1>0. m.role \in Roles BY RefusedMessages
<1> DEFINE c == m.content
           n == Len(c)
<1>1. /\ n \in Nat /\ DOMAIN c = 1..n /\ m.cache \in Caches
      /\ \A i \in DOMAIN c : c[i] \in Block
  BY MessageContent
<1>2. CASE m.role \in SystemRoles
 <2> DEFINE blocks == [i \in DOMAIN c |-> systemBlock(c[i], m.cache)]
 <2>1. anthropicMessage(m) = Wrap("system", Collect(blocks))
   BY <1>2, RolesApart DEF anthropicMessage, systemMessageBlocks, Each
 <2>2. DOMAIN blocks = DOMAIN c /\ Len(blocks) = n BY <1>1
 <2>3. AllBecome(blocks, c, {"text"}) BY <1>1, AnthropicParts DEF AllBecome
 <2>4. "system" \in ShownAs(m.role) BY <1>2, MadeAndShown
 <2>5. AllBecome(blocks, c, MadeOf(m.role)) BY <1>2, <2>3, MadeAndShown
 <2> HIDE DEF blocks
 <2> QED BY <1>0, <2>1, <2>2, <2>4, <2>5, EachKept
<1>3. CASE m.role = "user"
 <2> DEFINE blocks == [i \in DOMAIN c |-> contentBlock(c[i], m.cache)]
 <2>1. anthropicMessage(m) = Wrap("user", Collect(blocks))
   BY <1>3, RolesApart DEF anthropicMessage, anthropicUserMessage, Each
 <2>2. DOMAIN blocks = DOMAIN c /\ Len(blocks) = n BY <1>1
 <2>3. AllBecome(blocks, c, {"text", "media"}) BY <1>1, AnthropicParts DEF AllBecome
 <2>4. "user" \in ShownAs(m.role) BY <1>3, MadeAndShown
 <2>5. AllBecome(blocks, c, MadeOf(m.role)) BY <1>3, <2>3, MadeAndShown
 <2> HIDE DEF blocks
 <2> QED BY <1>0, <2>1, <2>2, <2>4, <2>5, EachKept
<1>4. CASE m.role = "assistant"
 <2> DEFINE blocks == [i \in DOMAIN c |-> assistantBlock(c[i], m.cache)]
 <2>1. anthropicMessage(m) = Wrap("assistant", Collect(blocks))
   BY <1>4, RolesApart DEF anthropicMessage, anthropicAssistantMessage, Each
 <2>2. DOMAIN blocks = DOMAIN c /\ Len(blocks) = n BY <1>1
 <2>3. AllBecome(blocks, c, {"text", "call"}) BY <1>1, AnthropicParts DEF AllBecome
 <2>4. "assistant" \in ShownAs(m.role) BY <1>4, MadeAndShown
 <2>5. AllBecome(blocks, c, MadeOf(m.role)) BY <1>4, <2>3, MadeAndShown
 <2> HIDE DEF blocks
 <2> QED BY <1>0, <2>1, <2>2, <2>4, <2>5, EachKept
<1>5. CASE m.role = "tool"
 <2> DEFINE s == Kind(c, "result")
            blocks == [i \in DOMAIN s |-> toolResultBlock(s[i], m.cache)]
            r == IF s = <<>> THEN Unsupported ELSE Collect(blocks)
 <2>1. anthropicMessage(m) = Wrap("user", r)
   BY <1>5, RolesApart DEF anthropicMessage, toolResultMessage, ToolResults, Each
 <2>2. /\ Len(s) \in Nat /\ DOMAIN s = 1..Len(s)
       /\ \A i \in DOMAIN s : s[i] \in Block /\ s[i].kind = "result"
   BY KindBlocks
 <2>3. r.err = "none" => Carries(r.out, c, {"result"})
  <3> SUFFICES ASSUME r.err = "none" PROVE Carries(r.out, c, {"result"}) OBVIOUS
  <3>1. r = Collect(blocks) BY DEF Unsupported, Fail
  <3> HIDE DEF s, r
  <3>2. DOMAIN blocks = DOMAIN s /\ Len(blocks) = Len(s) BY <2>2
  <3>3. AllBecome(blocks, s, {"result"}) BY <1>1, <2>2, AnthropicToolResult DEF AllBecome
  <3> HIDE DEF blocks
  <3> QED BY <3>1, <3>2, <3>3, ResultsBecome DEF s
 <2>4. "user" \in ShownAs(m.role) /\ MadeOf(m.role) = {"result"} BY <1>5, MadeAndShown
 <2> HIDE DEF r
 <2> QED BY <1>0, <2>1, <2>3, <2>4, WrapKept
<1> QED BY <1>0, <1>2, <1>3, <1>4, <1>5, RolesApart

----------------------------------------
LEMMA ToolMessagesKeep ==
    ASSUME NEW m \in BlockMessage, m.role = "tool", provider # "gemini",
           toolResultMessages(m).err = "none"
    PROVE  Kept(m, toolResultMessages(m).out)
<1> DEFINE s == Kind(m.content, "result")
           texts == [i \in DOMAIN s |-> TextResult(s[i])]
           r == IF s = <<>> THEN Unsupported ELSE Collect(texts)
           out == r.out
           named == [i \in DOMAIN out |-> [out[i] EXCEPT !.name = ""]]
           made == [i \in DOMAIN out |->
                       [role |-> "tool", content |-> <<[out[i] EXCEPT !.name = ""]>>]]
<1>1. /\ Len(s) \in Nat /\ DOMAIN s = 1..Len(s)
      /\ \A i \in DOMAIN s : s[i] \in Block /\ s[i].kind = "result"
  BY KindBlocks
<1>2. toolResultMessages(m)
         = IF r.err # "none" THEN r ELSE Ok(made)
  BY DEF toolResultMessages, ToolResults, Each
<1>3. r.err = "none" /\ r = Collect(texts)
 <2>1. r.err = "none" BY <1>2
 <2> QED BY <2>1 DEF Unsupported, Fail
<1> HIDE DEF s, r, made
<1>4. DOMAIN texts = 1..Len(s) /\ Len(texts) = Len(s)
      /\ \A i \in DOMAIN s : texts[i] = TextResult(s[i])
  BY <1>1
<1> HIDE DEF texts
<1>5. AllBecome(texts, s, {"result"}) BY <1>1, <1>4, TextResultBecomes DEF AllBecome
<1>6. Carries(out, m.content, {"result"}) BY <1>1, <1>3, <1>4, <1>5, ResultsBecome DEF s
<1>7. out \in Seq(OfKind(Block, "result"))
 <2>1. ASSUME NEW i \in 1..Len(s), texts[i].err = "none"
       PROVE  texts[i].out \in Seq(OfKind(Block, "result"))
  <3>1. s[i] \in Block /\ s[i].kind = "result" BY <1>1
  <3>2. ~HasMedia(s[i].content) /\ texts[i].out = <<AsText(s[i])>>
   <4>1. TextResult(s[i]).err = "none" /\ texts[i].out = TextResult(s[i]).out BY <1>1, <1>4, <2>1
   <4>2. TextResult(s[i]) = IF HasMedia(s[i].content) THEN Unsupported ELSE Ok(<<AsText(s[i])>>)
     BY DEF TextResult, AsText
   <4>3. Unsupported.err # "none" /\ Ok(<<AsText(s[i])>>).out = <<AsText(s[i])>>
     BY DEF Unsupported, Fail, Ok
   <4> QED BY <4>1, <4>2, <4>3
  <3>3. AsText(s[i]) \in OfKind(Block, "result")
    BY <3>1, <3>2, AsTextReads DEF SameReading, OfKind
  <3> QED BY <3>2, <3>3
 <2> QED BY <1>1, <1>3, <1>4, <2>1, CollectType
<1> HIDE DEF out
<1>8. /\ DOMAIN out = 1..Len(out) /\ Len(out) \in Nat
      /\ \A i \in DOMAIN out : out[i] \in Block /\ out[i].kind = "result"
 <2>1. \A i \in DOMAIN out : out[i] \in OfKind(Block, "result") BY <1>7
 <2> QED BY <1>7, <2>1 DEF OfKind
<1>9. \A p \in Block : p.kind = "result" => SameReading([p EXCEPT !.name = ""], p)
 <2> SUFFICES ASSUME NEW p \in Block, p.kind = "result" PROVE SameReading([p EXCEPT !.name = ""], p)
   OBVIOUS
 <2> DEFINE q == [p EXCEPT !.name = ""]
 <2>1. p \in ToolResultPart(Atoms) BY BlockKinds
 <2>2. q \in ToolResultPart(Atoms) /\ q.id = p.id /\ q.content = p.content
  <3>1. "" \in Strings BY StringsAssumption
  <3> QED BY <2>1, <3>1 DEF ToolResultPart
 <2>3. SaysTheSame(q.content, p.content) BY <2>2 DEF SaysTheSame
 <2> HIDE DEF q
 <2>4. SameReading(q, p) BY <2>1, <2>2, <2>3, SameResult
 <2> QED BY <2>4 DEF q
<1>10. Carries(named, m.content, {"result"})
 <2>1. \A i \in DOMAIN out : SameReading(named[i], out[i]) BY <1>8, <1>9
 <2>2. DOMAIN named = DOMAIN out /\ named = [i \in DOMAIN out |-> named[i]] OBVIOUS
 <2> HIDE DEF named
 <2>3. named \in Seq(Block) BY <1>8, <2>1, <2>2 DEF SameReading
 <2>4. ASSUME NEW k \in Readable PROVE Spread(named, Read(k)) = Spread(out, Read(k))
  <3>1. \A i \in DOMAIN out : Read(k)[named[i]] = Read(k)[out[i]] BY <2>1 DEF SameReading
  <3> QED BY <2>2, <3>1 DEF Spread
 <2> QED BY <1>6, <2>3, <2>4 DEF Carries
<1>11. toolResultMessages(m).out
          = [i \in DOMAIN named |-> [role |-> "tool", content |-> <<named[i]>>]]
 <2>1. toolResultMessages(m).out = made BY <1>2, <1>3 DEF Ok
 <2>2. made = [i \in DOMAIN named |-> [role |-> "tool", content |-> <<named[i]>>]] BY DEF made
 <2> QED BY <2>1, <2>2
<1> HIDE DEF named
<1> QED BY <1>10, <1>11, KeptMany

LEMMA OpenAIKeeps ==
    ASSUME NEW m \in BlockMessage, provider = "openai", messageToUnions(m).err = "none"
    PROVE  Kept(m, messageToUnions(m).out)
<1>0. m.role \in Roles BY RefusedMessages
<1> DEFINE c == m.content
           n == Len(c)
<1>1. /\ n \in Nat /\ DOMAIN c = 1..n /\ c \in Seq(Block)
      /\ \A i \in DOMAIN c : c[i] \in Block
  BY MessageContent
<1>2. CASE m.role \in SystemRoles
 <2> DEFINE r == Ok(Joined(c))
 <2>1. messageToUnions(m) = Wrap("system", r) BY <1>2, RolesApart DEF messageToUnions
 <2>2. r.out = Joined(c) BY DEF Ok
 <2> HIDE DEF r
 <2>3. "system" \in ShownAs(m.role) /\ MadeOf(m.role) = {"text"} BY <1>2, MadeAndShown
 <2>4. Carries(r.out, c, MadeOf(m.role)) BY <1>1, <2>2, <2>3, JoinedCarries
 <2> QED BY <1>0, <2>1, <2>3, <2>4, WrapKept
<1>3. CASE m.role = "user"
 <2> DEFINE parts == [i \in DOMAIN c |-> openaiUserPart(c[i])]
            q == Collect(parts)
            r == IF q.err = "none" /\ ~HasMedia(c) THEN Ok(Joined(c)) ELSE q
 <2>1. messageToUnions(m) = Wrap("user", r)
   BY <1>3, RolesApart DEF messageToUnions, openaiUserMessage, Each
 <2>2. DOMAIN parts = DOMAIN c /\ Len(parts) = n BY <1>1
 <2>3. AllBecome(parts, c, {"text", "media"}) BY <1>1, OpenAIBlocks DEF AllBecome
 <2> HIDE DEF parts
 <2>4. q.err = "none" => Carries(q.out, c, {"text", "media"}) BY <1>1, <2>2, <2>3, EachCarries
 <2>5. "user" \in ShownAs(m.role) /\ MadeOf(m.role) = {"text", "media"} BY <1>3, MadeAndShown
 <2>6. ~HasMedia(c) => Carries(Joined(c), c, {"text", "media"})
  <3> SUFFICES ASSUME ~HasMedia(c) PROVE Carries(Joined(c), c, {"text", "media"}) OBVIOUS
  <3>1. Kind(c, "media") = <<>> BY DEF HasMedia
  <3>2. Spread(c, Read("media")) = <<>> BY <1>1, <3>1, KindReads, SpreadEmpty DEF Readable
  <3>3. Carries(Joined(c), c, {"text"}) BY <1>1, JoinedCarries
  <3> QED BY <3>2, <3>3 DEF Carries
 <2> HIDE DEF q
 <2>7. r.err = "none" => Carries(r.out, c, {"text", "media"}) BY <2>4, <2>6 DEF Ok
 <2> HIDE DEF r
 <2> QED BY <1>0, <2>1, <2>5, <2>7, WrapKept
<1>4. CASE m.role = "assistant"
 <2> DEFINE calls == [i \in DOMAIN c |-> openaiAssistantCall(c[i])]
            q == Collect(calls)
            r == IF q.err = "none" THEN Ok(Joined(c) \o q.out) ELSE q
 <2>1. messageToUnions(m) = Wrap("assistant", r)
   BY <1>4, RolesApart DEF messageToUnions, openaiAssistantMessage, Each
 <2>2. DOMAIN calls = DOMAIN c /\ Len(calls) = n BY <1>1
 <2>3. AllBecome(calls, c, {"call"}) BY <1>1, OpenAIBlocks DEF AllBecome
 <2> HIDE DEF calls
 <2>4. q.err = "none" => Carries(q.out, c, {"call"}) BY <1>1, <2>2, <2>3, EachCarries
 <2>5. "assistant" \in ShownAs(m.role) /\ MadeOf(m.role) = {"text"} \cup {"call"}
   BY <1>4, MadeAndShown
 <2>6. Carries(Joined(c), c, {"text"}) /\ {"text"} \cap {"call"} = {} BY <1>1, JoinedCarries
 <2> HIDE DEF q
 <2>7. q.err = "none" => Carries(Joined(c) \o q.out, c, {"text"} \cup {"call"})
   BY <2>4, <2>6, CarriesConcat
 <2>8. r.err = "none" => Carries(r.out, c, MadeOf(m.role)) BY <2>5, <2>7 DEF Ok
 <2> HIDE DEF r
 <2> QED BY <1>0, <2>1, <2>5, <2>8, WrapKept
<1>5. CASE m.role = "tool"
 <2>1. messageToUnions(m) = toolResultMessages(m) BY <1>5, RolesApart DEF messageToUnions
 <2> QED BY <1>5, <2>1, ToolMessagesKeep
<1> QED BY <1>0, <1>2, <1>3, <1>4, <1>5, RolesApart

LEMMA ContentKept ==
    ASSUME NEW m \in BlockMessage, m.role \in Roles, NEW role \in ShownAs(m.role), NEW r,
           IsReply(r), r.err = "none" => Carries(r.out, m.content, MadeOf(m.role)),
           Content(role, r).err = "none"
    PROVE  Kept(m, Content(role, r).out)
<1>1. r.err = "none" BY Replies
<1> DEFINE e == r.err
           o == r.out
           s == [r EXCEPT !.out = OrEmptyText(@)]
<1>2. r = [err |-> e, out |-> o] BY DEF IsReply
<1>3. Carries(OrEmptyText(o), m.content, MadeOf(m.role)) BY <1>1, OrEmptyCarries
<1>4. s.err = "none" /\ s.out = OrEmptyText(o)
 <2> HIDE DEF e, o
 <2>1. s = [err |-> e, out |-> OrEmptyText(o)] BY <1>2
 <2> QED BY <1>1, <2>1 DEF e
<1>5. Content(role, r) = Wrap(role, s) BY DEF Content
<1> HIDE DEF s
<1> QED BY <1>3, <1>4, <1>5, WrapKept

LEMMA GeminiKeeps ==
    ASSUME NEW m \in BlockMessage, provider = "gemini", geminiMessage(m).err = "none"
    PROVE  Kept(m, geminiMessage(m).out)
<1>0. m.role \in Roles BY RefusedMessages
<1> DEFINE c == m.content
           n == Len(c)
<1>1. /\ n \in Nat /\ DOMAIN c = 1..n /\ c \in Seq(Block)
      /\ \A i \in DOMAIN c : c[i] \in Block
  BY MessageContent
<1>2. CASE m.role \in SystemRoles
 <2> DEFINE r == Ok(Joined(c))
 <2>1. geminiMessage(m) = Wrap("system", r) BY <1>2, RolesApart DEF geminiMessage
 <2>2. r.out = Joined(c) BY DEF Ok
 <2> HIDE DEF r
 <2>3. "system" \in ShownAs(m.role) /\ MadeOf(m.role) = {"text"} BY <1>2, MadeAndShown
 <2>4. Carries(r.out, c, MadeOf(m.role)) BY <1>1, <2>2, <2>3, JoinedCarries
 <2> QED BY <1>0, <2>1, <2>3, <2>4, WrapKept
<1>3. CASE m.role = "user"
 <2> DEFINE parts == [i \in DOMAIN c |-> geminiUserPart(c[i])]
            q == Collect(parts)
 <2>1. geminiMessage(m) = Content("user", q)
   BY <1>3, RolesApart DEF geminiMessage, userContent, Each
 <2>2. DOMAIN parts = DOMAIN c /\ Len(parts) = n BY <1>1
 <2>3. AllBecome(parts, c, {"text", "media"}) BY <1>1, GeminiBlocks DEF AllBecome
 <2>4. \A i \in 1..n : IsReply(parts[i]) BY <1>1, GeminiParts
 <2> HIDE DEF parts
 <2>5. q.err = "none" => Carries(q.out, c, {"text", "media"}) BY <1>1, <2>2, <2>3, EachCarries
 <2>6. IsReply(q)
  <3> HIDE DEF n
  <3> QED BY <1>1, <2>2, <2>4, CollectReply
 <2>7. "user" \in ShownAs(m.role) /\ MadeOf(m.role) = {"text", "media"} BY <1>3, MadeAndShown
 <2> HIDE DEF q
 <2> QED BY <1>0, <2>1, <2>5, <2>6, <2>7, ContentKept
<1>4. CASE m.role = "assistant"
 <2> DEFINE parts == [i \in DOMAIN c |-> geminiAssistantPart(c[i])]
            q == Collect(parts)
 <2>1. geminiMessage(m) = Content("assistant", q)
   BY <1>4, RolesApart DEF geminiMessage, assistantContent, Each
 <2>2. DOMAIN parts = DOMAIN c /\ Len(parts) = n BY <1>1
 <2>3. AllBecome(parts, c, {"text", "call"}) BY <1>1, GeminiBlocks DEF AllBecome
 <2>4. \A i \in 1..n : IsReply(parts[i]) BY <1>1, GeminiParts
 <2> HIDE DEF parts
 <2>5. q.err = "none" => Carries(q.out, c, {"text", "call"}) BY <1>1, <2>2, <2>3, EachCarries
 <2>6. IsReply(q)
  <3> HIDE DEF n
  <3> QED BY <1>1, <2>2, <2>4, CollectReply
 <2>7. "assistant" \in ShownAs(m.role) /\ MadeOf(m.role) = {"text", "call"} BY <1>4, MadeAndShown
 <2> HIDE DEF q
 <2> QED BY <1>0, <2>1, <2>5, <2>6, <2>7, ContentKept
<1>5. CASE m.role = "tool"
 <2> DEFINE s == Kind(c, "result")
            texts == [i \in DOMAIN s |-> geminiToolResult(s[i])]
            r == IF s = <<>> THEN Unsupported ELSE Collect(texts)
 <2>1. geminiMessage(m) = Wrap("user", r)
   BY <1>5, RolesApart DEF geminiMessage, toolResultContent, ToolResults, Each
 <2>2. /\ Len(s) \in Nat /\ DOMAIN s = 1..Len(s)
       /\ \A i \in DOMAIN s : s[i] \in Block /\ s[i].kind = "result"
   BY KindBlocks
 <2>3. r.err = "none" => Carries(r.out, c, {"result"})
  <3> SUFFICES ASSUME r.err = "none" PROVE Carries(r.out, c, {"result"}) OBVIOUS
  <3>1. r = Collect(texts) BY DEF Unsupported, Fail
  <3> HIDE DEF s, r
  <3>2. DOMAIN texts = DOMAIN s /\ Len(texts) = Len(s) BY <2>2
  <3>3. AllBecome(texts, s, {"result"}) BY <2>2, GeminiResultBecomes DEF AllBecome
  <3> HIDE DEF texts
  <3> QED BY <3>1, <3>2, <3>3, ResultsBecome DEF s
 <2>4. "user" \in ShownAs(m.role) /\ MadeOf(m.role) = {"result"} BY <1>5, MadeAndShown
 <2> HIDE DEF r
 <2> QED BY <1>0, <2>1, <2>3, <2>4, WrapKept
<1> QED BY <1>0, <1>2, <1>3, <1>4, <1>5, RolesApart

\* What Ollama looks for, and the text.
LEMMA PassingOver ==
    ASSUME NEW m \in BlockMessage, m.role \in Roles, NEW role \in ShownAs(m.role), NEW k,
           k # "text", NEW blocks, MadeOf(m.role) = {"text"} \cup {k},
           blocks.err = "none" => Carries(blocks.out, m.content, {k}),
           ollamaPassingOver(role, m, blocks).err = "none"
    PROVE  Kept(m, ollamaPassingOver(role, m, blocks).out)
<1> DEFINE c == m.content
           r == IF blocks.err = "none" THEN Ok(Joined(c) \o blocks.out) ELSE blocks
<1>1. ollamaPassingOver(role, m, blocks) = Wrap(role, r) BY DEF ollamaPassingOver
<1>2. Carries(Joined(c), c, {"text"}) /\ {"text"} \cap {k} = {} BY MessageContent, JoinedCarries
<1>3. blocks.err = "none" => Carries(Joined(c) \o blocks.out, c, {"text"} \cup {k})
  BY <1>2, CarriesConcat
<1>4. r.err = "none" => Carries(r.out, c, MadeOf(m.role)) BY <1>3 DEF Ok
<1> HIDE DEF r
<1> QED BY <1>1, <1>4, WrapKept

LEMMA OllamaKeeps ==
    ASSUME NEW m \in BlockMessage, provider = "ollama", translateMessage(m).err = "none"
    PROVE  Kept(m, translateMessage(m).out)
<1>0. m.role \in Roles BY RefusedMessages
<1> DEFINE c == m.content
<1>1. c \in Seq(Block) BY MessageContent
<1>2. ASSUME NEW k \in {"media", "call"}, NEW results,
             DOMAIN results = DOMAIN Kind(c, k), Len(results) = Len(Kind(c, k)),
             AllBecome(results, Kind(c, k), {k}), Collect(results).err = "none"
      PROVE  Carries(Collect(results).out, c, {k})
 <2> DEFINE s == Kind(c, k)
 <2>1. s \in Seq(Block) BY <1>1, KindIsSpread
 <2>2. Carries(Collect(results).out, s, {k})
  <3>1. DOMAIN results = DOMAIN s /\ Len(results) = Len(s) /\ AllBecome(results, s, {k}) BY <1>2
  <3> HIDE DEF s
  <3> QED BY <1>2, <2>1, <3>1, EachCarries
 <2> QED BY <1>1, <2>2, CarriesKind
<1>3. Unsupported.err # "none" BY DEF Unsupported, Fail
<1>4. CASE m.role \in SystemRoles
 <2> DEFINE r == Ok(Joined(c) \o Ok(<<>>).out)
 <2>1. translateMessage(m) = Wrap("system", r)
  <3>1. translateMessage(m) = ollamaPassingOver("system", m, Ok(<<>>))
    BY <1>3, <1>4, RolesApart DEF translateMessage
  <3>2. Ok(<<>>).err = "none" BY DEF Ok
  <3> QED BY <3>1, <3>2 DEF ollamaPassingOver
 <2>2. r.out = Joined(c)
  <3>1. Joined(c) \in Seq(Block) BY <1>1, JoinedReads
  <3>2. Joined(c) \o <<>> = Joined(c) BY <3>1, ConcatEmptySeq
  <3> QED BY <3>2 DEF Ok
 <2> HIDE DEF r
 <2>3. "system" \in ShownAs(m.role) /\ MadeOf(m.role) = {"text"} BY <1>4, MadeAndShown
 <2>4. Carries(r.out, c, MadeOf(m.role)) BY <1>1, <2>2, <2>3, JoinedCarries
 <2> QED BY <1>0, <2>1, <2>3, <2>4, WrapKept
<1>5. CASE m.role = "user"
 <2> DEFINE s == Kind(c, "media")
            images == [i \in DOMAIN s |-> ollamaImage(s[i])]
 <2>1. translateMessage(m) = ollamaPassingOver("user", m, Collect(images))
   BY <1>5, RolesApart DEF translateMessage, Each
 <2>2. /\ Len(s) \in Nat /\ DOMAIN s = 1..Len(s)
       /\ \A i \in DOMAIN s : s[i] \in Block /\ s[i].kind = "media"
   BY KindBlocks
 <2>3. DOMAIN images = DOMAIN s /\ Len(images) = Len(s) /\ AllBecome(images, s, {"media"})
  <3> HIDE DEF s
  <3> QED BY <2>2, OllamaBlocks DEF AllBecome
 <2> HIDE DEF images
 <2>4. Collect(images).err = "none" => Carries(Collect(images).out, c, {"media"}) BY <1>2, <2>3
 <2>5. "user" \in ShownAs(m.role) /\ MadeOf(m.role) = {"text"} \cup {"media"} BY <1>5, MadeAndShown
 <2> QED BY <1>0, <2>1, <2>4, <2>5, PassingOver
<1>6. CASE m.role = "assistant"
 <2> DEFINE s == Kind(c, "call")
            calls == [i \in DOMAIN s |-> ollamaToolCall(s[i])]
 <2>1. translateMessage(m) = ollamaPassingOver("assistant", m, Collect(calls))
   BY <1>3, <1>6, RolesApart DEF translateMessage, Each
 <2>2. /\ Len(s) \in Nat /\ DOMAIN s = 1..Len(s)
       /\ \A i \in DOMAIN s : s[i] \in Block /\ s[i].kind = "call"
   BY KindBlocks
 <2>3. DOMAIN calls = DOMAIN s /\ Len(calls) = Len(s) /\ AllBecome(calls, s, {"call"})
  <3> HIDE DEF s
  <3> QED BY <2>2, OllamaBlocks DEF AllBecome
 <2> HIDE DEF calls
 <2>4. Collect(calls).err = "none" => Carries(Collect(calls).out, c, {"call"}) BY <1>2, <2>3
 <2>5. "assistant" \in ShownAs(m.role) /\ MadeOf(m.role) = {"text"} \cup {"call"}
   BY <1>6, MadeAndShown
 <2> QED BY <1>0, <2>1, <2>4, <2>5, PassingOver
<1>7. CASE m.role = "tool"
 <2>1. translateMessage(m) = toolResultMessages(m) BY <1>3, <1>7, RolesApart DEF translateMessage
 <2> QED BY <1>7, <2>1, ToolMessagesKeep
<1> QED BY <1>0, <1>4, <1>5, <1>6, <1>7, RolesApart

LEMMA MessageKept ==
    ASSUME provider \in Providers, NEW m \in BlockMessage, MessageOf(provider, m).err = "none"
    PROVE  Kept(m, MessageOf(provider, m).out)
<1>1. CASE provider = "openai" BY <1>1, OpenAIKeeps DEF MessageOf
<1>2. CASE provider = "anthropic" BY <1>2, AnthropicKeeps DEF MessageOf
<1>3. CASE provider = "gemini" BY <1>3, GeminiKeeps DEF MessageOf
<1>4. CASE provider = "ollama" BY <1>4, OllamaKeeps DEF MessageOf
<1> QED BY <1>1, <1>2, <1>3, <1>4 DEF Providers

----------------------------------------
\* Conversations and requests.
Sorts == {RequestMessage, BlockMessage}

LEMMA SortContent == \A M \in Sorts : \A m \in M : m.content \in Seq(Block)
<1>1. \A m \in RequestMessage : m.content \in Seq(Block) BY DEF RequestMessage
<1>2. \A m \in BlockMessage : m.content \in Seq(Block) BY MessageContent
<1> QED BY <1>1, <1>2 DEF Sorts

LEMMA AllOfKind ==
    ASSUME NEW k, NEW s \in Seq(OfKind(Block, k))
    PROVE  Kind(s, k) = s /\ s \in Seq(Block)
<1> DEFINE S == OfKind(Block, k)
           f == [p \in S |-> p]
           g == [p \in S |-> <<p>>]
<1>1. s \in Seq(S) /\ \A i \in DOMAIN s : s[i] \in S OBVIOUS
<1>2. \A p \in S : p \in Block /\ p.kind = k BY DEF OfKind
<1>3. S \subseteq Block BY <1>2
<1>4. s \in Seq(Block) BY <1>3, SeqMonotonic
<1>5. [i \in DOMAIN s |-> IF s[i].kind = k THEN <<s[i]>> ELSE <<>>] = [i \in DOMAIN s |-> g[s[i]]]
 <2>1. \A i \in DOMAIN s : s[i].kind = k /\ g[s[i]] = <<s[i]>> BY <1>1, <1>2
 <2> HIDE DEF g
 <2> QED BY <2>1
<1>6. Kind(s, k) = Spread(s, g) BY <1>5 DEF Kind, Where, Spread
<1>7. g \in Maps(S, S) /\ Singly(S, g, f) BY DEF Maps, Singly
<1>8. [i \in DOMAIN s |-> f[s[i]]] = s
 <2>1. \A i \in DOMAIN s : f[s[i]] = s[i] BY <1>1
 <2> HIDE DEF f
 <2> QED BY <2>1
<1>9. Spread(s, g) = [i \in DOMAIN s |-> f[s[i]]]
 <2> HIDE DEF S, f, g
 <2> QED BY <1>1, <1>7, SpreadSingles
<1> QED BY <1>4, <1>6, <1>8, <1>9

LEMMA PartsRead ==
    ASSUME NEW M \in Sorts, NEW s \in Seq(M), NEW roles, NEW k \in Readable
    PROVE  /\ Parts(s, roles, k) \in Seq(OfKind(Block, k))
           /\ Spread(Parts(s, roles, k), Read(k)) = Spread(s, Tell(M, k, roles))
<1> DEFINE S == OfKind(Block, k)
           g == [m \in M |-> IF m.role \in roles THEN Kind(m.content, k) ELSE <<>>]
           f == Read(k)
           t == Tell(M, k, roles)
<1>1. \A m \in M : m.content \in Seq(Block) BY SortContent
<1>2. \A m \in M : Kind(m.content, k) \in Seq(S) /\ Kind(m.content, k) \in Seq(Block)
  BY <1>1, KindType, KindIsSpread
<1>3. g \in Maps(M, S) /\ g \in Maps(M, Block) BY <1>2 DEF Maps
<1>4. [i \in DOMAIN s |-> IF s[i].role \in roles THEN Kind(s[i].content, k) ELSE <<>>]
         = [i \in DOMAIN s |-> g[s[i]]]
 <2>1. \A i \in DOMAIN s : s[i] \in M OBVIOUS
 <2> QED BY <2>1
<1>5. Parts(s, roles, k) = Spread(s, g)
 <2> HIDE DEF g
 <2> QED BY <1>4 DEF Parts, Spread
<1>6. Composed(M, g, f, t)
 <2> SUFFICES ASSUME NEW m \in M PROVE Spread(g[m], f) = t[m] BY DEF Composed
 <2>1. CASE m.role \in roles
  <3>1. g[m] = Kind(m.content, k) /\ t[m] = Spread(m.content, Read(k)) BY <2>1 DEF Tell
  <3>2. Spread(Kind(m.content, k), Read(k)) = Spread(m.content, Read(k)) BY <1>1, KindReads
  <3> QED BY <3>1, <3>2
 <2>2. CASE m.role \notin roles
  <3>1. g[m] = <<>> /\ t[m] = <<>> BY <2>2 DEF Tell
  <3> QED BY <3>1, SpreadEmpty
 <2> QED BY <2>1, <2>2
<1>7. f \in Maps(Block, Meant) BY ReadIs
<1> HIDE DEF f, g, t, S
<1>8. Spread(s, g) \in Seq(S) BY <1>3, SpreadType
<1>9. Spread(Spread(s, g), f) = Spread(s, t) BY <1>3, <1>6, <1>7, SpreadTwice
<1> QED BY <1>5, <1>8, <1>9 DEF f, t, S

\* The terms of the property.
LEMMA WhatIsSeen ==
    ASSUME NEW M \in Sorts, NEW s \in Seq(M), NEW roles
    PROVE  /\ Texts(s, roles) = Spread(s, Tell(M, "text", roles))
           /\ Listed(Parts(s, roles, "call"), CallSays) = Spread(s, Tell(M, "call", roles))
           /\ Listed(Parts(s, roles, "result"), ResultSays) = Spread(s, Tell(M, "result", roles))
           /\ Listed(Parts(s, roles, "media"), MediaSays) = Spread(s, Tell(M, "media", roles))
<1>1. ASSUME NEW k \in Readable
      PROVE  LET p == Parts(s, roles, k)
             IN  p \in Seq(Block) /\ Kind(p, k) = p /\ Spread(p, Read(k)) = Spread(s, Tell(M, k, roles))
  BY PartsRead, AllOfKind
<1>2. Texts(s, roles) = Spread(s, Tell(M, "text", roles))
 <2> DEFINE p == Parts(s, roles, "text")
 <2>1. p \in Seq(Block) /\ Spread(p, Read("text")) = Spread(s, Tell(M, "text", roles))
   BY <1>1 DEF Readable
 <2> HIDE DEF p
 <2>2. TextFromParts(p) = Spread(p, Read("text")) BY <2>1, TextIsSpread
 <2> QED BY <2>1, <2>2 DEF Texts, p
<1>3. Listed(Parts(s, roles, "call"), CallSays) = Spread(s, Tell(M, "call", roles))
 <2> DEFINE p == Parts(s, roles, "call")
 <2>1. /\ p \in Seq(Block) /\ Kind(p, "call") = p
       /\ Spread(p, Read("call")) = Spread(s, Tell(M, "call", roles))
   BY <1>1 DEF Readable
 <2> HIDE DEF p
 <2>2. Listed(p, CallSays) = Listed(Kind(p, "call"), CallSays) BY <2>1
 <2>3. Listed(p, CallSays) = Spread(p, Read("call")) BY <2>1, <2>2, ListedIs
 <2> QED BY <2>1, <2>3 DEF p
<1>4. Listed(Parts(s, roles, "result"), ResultSays) = Spread(s, Tell(M, "result", roles))
 <2> DEFINE p == Parts(s, roles, "result")
 <2>1. /\ p \in Seq(Block) /\ Kind(p, "result") = p
       /\ Spread(p, Read("result")) = Spread(s, Tell(M, "result", roles))
   BY <1>1 DEF Readable
 <2> HIDE DEF p
 <2>2. Listed(p, ResultSays) = Listed(Kind(p, "result"), ResultSays) BY <2>1
 <2>3. Listed(p, ResultSays) = Spread(p, Read("result")) BY <2>1, <2>2, ListedIs
 <2> QED BY <2>1, <2>3 DEF p
<1>5. Listed(Parts(s, roles, "media"), MediaSays) = Spread(s, Tell(M, "media", roles))
 <2> DEFINE p == Parts(s, roles, "media")
 <2>1. /\ p \in Seq(Block) /\ Kind(p, "media") = p
       /\ Spread(p, Read("media")) = Spread(s, Tell(M, "media", roles))
   BY <1>1 DEF Readable
 <2> HIDE DEF p
 <2>2. Listed(p, MediaSays) = Listed(Kind(p, "media"), MediaSays) BY <2>1
 <2>3. Listed(p, MediaSays) = Spread(p, Read("media")) BY <2>1, <2>2, ListedIs
 <2> QED BY <2>1, <2>3 DEF p
<1> QED BY <1>2, <1>3, <1>4, <1>5

\* All messages of a conversation.
Translated(messages) == Collect([k \in DOMAIN messages |-> MessageOf(provider, messages[k])])

LEMMA AllKept ==
    ASSUME provider \in Providers, NEW s \in Seq(BlockMessage), Translated(s).err = "none"
    PROVE  /\ Translated(s).out \in Seq(RequestMessage)
           /\ \A k, to, from : Seen(k, to, from) =>
                 Spread(Translated(s).out, Tell(RequestMessage, k, to))
                    = Spread(s, Tell(BlockMessage, k, from))
<1> DEFINE results == [j \in DOMAIN s |-> MessageOf(provider, s[j])]
<1>1. /\ DOMAIN s = 1..Len(s) /\ Len(s) \in Nat /\ DOMAIN results = DOMAIN s
      /\ Len(results) = Len(s) /\ \A j \in DOMAIN s : s[j] \in BlockMessage
  OBVIOUS
<1>2. \A j \in DOMAIN s : results[j].err = "none" => Kept(s[j], results[j].out) BY <1>1, MessageKept
<1>3. Translated(s) = Collect(results) BY DEF Translated
<1> HIDE DEF results
<1>4. ASSUME NEW k, NEW to, NEW from, Seen(k, to, from)
      PROVE  /\ Collect(results).out \in Seq(RequestMessage)
             /\ Spread(Collect(results).out, Tell(RequestMessage, k, to))
                   = Spread(s, Tell(BlockMessage, k, from))
 <2> DEFINE f == Tell(RequestMessage, k, to)
            g == Tell(BlockMessage, k, from)
 <2>1. k \in Readable BY <1>4 DEF Seen, Readable
 <2>2. f \in Maps(RequestMessage, Meant) BY <2>1, TellType
 <2>3. Given(results, s, RequestMessage, f, g) BY <1>2, <1>4 DEF Given, Kept
 <2> HIDE DEF f, g
 <2>4. /\ Collect(results).out \in Seq(RequestMessage)
       /\ Spread(Collect(results).out, f) = Spread(s, g)
   BY <1>1, <1>3, <2>2, <2>3, CollectSpread
 <2> QED BY <2>4 DEF f, g
<1>5. Seen("text", Talk, Talk) BY DEF Seen
<1> QED BY <1>3, <1>4, <1>5

----------------------------------------
\* What is taken out of the conversation for the system.
LEMMA WithoutSystem ==
    ASSUME NEW s \in Seq(RequestMessage), NEW k \in Readable, NEW to
    PROVE  /\ NotSystem(s) \in Seq(RequestMessage)
           /\ Spread(NotSystem(s), Tell(RequestMessage, k, to))
                 = Spread(s, Tell(RequestMessage, k, to \ {"system"}))
<1> DEFINE M == RequestMessage
           g == [m \in M |-> IF m.role # "system" THEN <<m>> ELSE <<>>]
           f == Tell(M, k, to)
           t == Tell(M, k, to \ {"system"})
<1>1. g \in Maps(M, M) BY DEF Maps
<1>2. [i \in DOMAIN s |-> IF s[i].role # "system" THEN <<s[i]>> ELSE <<>>] = [i \in DOMAIN s |-> g[s[i]]]
 <2>1. \A i \in DOMAIN s : s[i] \in M OBVIOUS
 <2> QED BY <2>1
<1>3. NotSystem(s) = Spread(s, g)
 <2> HIDE DEF g
 <2> QED BY <1>2 DEF NotSystem, Where, Spread
<1>4. f \in Maps(M, Meant) BY TellType
<1>5. Composed(M, g, f, t)
 <2> SUFFICES ASSUME NEW m \in M PROVE Spread(g[m], f) = t[m] BY DEF Composed
 <2>1. CASE m.role # "system"
  <3>1. g[m] = <<m>> /\ t[m] = f[m] BY <2>1 DEF Tell
  <3> HIDE DEF f, g, t
  <3> QED BY <1>4, <3>1, SpreadOne
 <2>2. CASE m.role = "system"
  <3>1. g[m] = <<>> /\ t[m] = <<>> BY <2>2 DEF Tell
  <3> QED BY <3>1, SpreadEmpty
 <2> QED BY <2>1, <2>2
<1>6. s \in Seq(M) OBVIOUS
<1>7. Spread(s, g) \in Seq(M) /\ Spread(Spread(s, g), f) = Spread(s, t)
 <2> HIDE DEF f, g, t, M
 <2>1. Spread(s, g) \in Seq(M) BY <1>1, <1>6, SpreadType
 <2>2. Spread(Spread(s, g), f) = Spread(s, t) BY <1>1, <1>4, <1>5, <1>6, SpreadTwice
 <2> QED BY <2>1, <2>2
<1> HIDE DEF f, g, t
<1> QED BY <1>3, <1>7 DEF f, t

LEMMA SystemIs ==
    ASSUME NEW s \in Seq(RequestMessage)
    PROVE  /\ SystemContents(s) \in Seq(Seq(Block))
           /\ FlattenSeq(SystemContents(s)) \in Seq(Block)
           /\ Spread(FlattenSeq(SystemContents(s)), Read("text"))
                 = Spread(s, Tell(RequestMessage, "text", {"system"}))
<1> DEFINE M == RequestMessage
           g == [m \in M |-> IF m.role = "system" THEN <<m>> ELSE <<>>]
           found == Where(s, LAMBDA m : m.role = "system")
           inside == [m \in M |-> m.content]
           all == [m \in M |-> IF m.role = "system" THEN m.content ELSE <<>>]
           f == Read("text")
           t == Tell(M, "text", {"system"})
<1>1. \A m \in M : m.content \in Seq(Block) BY DEF RequestMessage
<1>2. g \in Maps(M, M) /\ inside \in Maps(M, Block) /\ all \in Maps(M, Block) BY <1>1 DEF Maps
<1>3. [i \in DOMAIN s |-> IF s[i].role = "system" THEN <<s[i]>> ELSE <<>>] = [i \in DOMAIN s |-> g[s[i]]]
 <2>1. \A i \in DOMAIN s : s[i] \in M OBVIOUS
 <2> QED BY <2>1
<1>4. found = Spread(s, g)
 <2> HIDE DEF g
 <2> QED BY <1>3 DEF Where, Spread
<1>5. found \in Seq(M)
 <2> HIDE DEF found, g
 <2> QED BY <1>2, <1>4, SpreadType
<1>6. SystemContents(s) = [i \in DOMAIN found |-> found[i].content] BY DEF SystemContents
<1>7. Composed(M, g, inside, all)
 <2> SUFFICES ASSUME NEW m \in M PROVE Spread(g[m], inside) = all[m] BY DEF Composed
 <2>1. CASE m.role = "system"
  <3>1. g[m] = <<m>> /\ all[m] = inside[m] BY <2>1
  <3> HIDE DEF g, inside, all
  <3> QED BY <1>2, <3>1, SpreadOne
 <2>2. CASE m.role # "system"
  <3>1. g[m] = <<>> /\ all[m] = <<>> BY <2>2
  <3> QED BY <3>1, SpreadEmpty
 <2> QED BY <2>1, <2>2
<1>8. Composed(M, all, f, t)
 <2> SUFFICES ASSUME NEW m \in M PROVE Spread(all[m], f) = t[m] BY DEF Composed
 <2>1. CASE m.role = "system" BY <2>1 DEF Tell
 <2>2. CASE m.role # "system"
  <3>1. all[m] = <<>> /\ t[m] = <<>> BY <2>2 DEF Tell
  <3> QED BY <3>1, SpreadEmpty
 <2> QED BY <2>1, <2>2
<1>9. f \in Maps(Block, Meant) BY ReadIs DEF Readable
<1> HIDE DEF found
<1>10. [i \in DOMAIN found |-> found[i].content] = [i \in DOMAIN found |-> inside[found[i]]]
 <2>1. \A i \in DOMAIN found : found[i] \in M BY <1>5
 <2> QED BY <2>1
<1>11. [i \in DOMAIN found |-> inside[found[i]]] \in Seq(Seq(Block))
 <2> HIDE DEF inside
 <2> QED BY <1>2, <1>5, SpreadType
<1> HIDE DEF f, g, t, all, inside
<1>12. FlattenSeq(SystemContents(s)) = Spread(found, inside) BY <1>6, <1>10 DEF Spread
<1>13. Spread(found, inside) = Spread(s, all) /\ Spread(s, all) \in Seq(Block)
 <2>1. s \in Seq(M) OBVIOUS
 <2> HIDE DEF M
 <2>2. Spread(s, all) \in Seq(Block) BY <1>2, <2>1, SpreadType
 <2>3. Spread(Spread(s, g), inside) = Spread(s, all) BY <1>2, <1>7, <2>1, SpreadTwice
 <2> QED BY <1>4, <2>2, <2>3
<1>14. Spread(Spread(s, all), f) = Spread(s, t) BY <1>2, <1>8, <1>9, SpreadTwice
<1> QED BY <1>6, <1>10, <1>11, <1>12, <1>13, <1>14 DEF f, t

\* Separators aside.
Proper == [a \in Meant |-> IF a # separator THEN <<a>> ELSE <<>>]

LEMMA NoSeparatorsIs ==
    /\ Proper \in Maps(Meant, Meant)
    /\ \A s \in Seq(Meant) : NoSeparators(s) = Spread(s, Proper)
<1>1. Proper \in Maps(Meant, Meant) BY DEF Proper, Maps
<1>2. ASSUME NEW s \in Seq(Meant) PROVE NoSeparators(s) = Spread(s, Proper)
 <2>1. \A i \in DOMAIN s : s[i] \in Meant OBVIOUS
 <2>2. [i \in DOMAIN s |-> IF s[i] # separator THEN <<s[i]>> ELSE <<>>]
          = [i \in DOMAIN s |-> Proper[s[i]]]
   BY <2>1 DEF Proper
 <2> QED BY <2>2 DEF NoSeparators, Where, Spread
<1> QED BY <1>1, <1>2

LEMMA InstructionIs ==
    ASSUME NEW cs \in Seq(Seq(Block))
    PROVE  /\ SystemInstruction(cs) \in Seq(Block)
           /\ NoSeparators(Spread(SystemInstruction(cs), Read("text")))
                 = NoSeparators(Spread(FlattenSeq(cs), Read("text")))
<1> DEFINE sep == Text(<<separator>>)
           with == [i \in DOMAIN cs |-> (IF i = 1 THEN <<>> ELSE <<sep>>) \o cs[i]]
           f == Read("text")
           h == Proper
<1>1. /\ DOMAIN cs = 1..Len(cs) /\ Len(cs) \in Nat /\ \A i \in DOMAIN cs : cs[i] \in Seq(Block)
  OBVIOUS
<1>2. sep \in Block /\ sep.kind = "text" /\ sep.text = <<separator>> /\ separator \in Atoms
 <2>1. separator \in Atoms BY DEF Atoms
 <2>2. <<separator>> \in Seq(Atoms) BY <2>1
 <2> QED BY <2>1, <2>2, TextBlock
<1>3. SystemInstruction(cs) = Joined(FlattenSeq(with)) BY DEF SystemInstruction
<1>4. f \in Maps(Block, Meant) /\ h \in Maps(Meant, Meant) /\ separator \in Meant
      /\ f[sep] = <<separator>> /\ h[separator] = <<>>
 <2>1. f \in Maps(Block, Meant) /\ f[sep] = <<separator>> BY <1>2, ReadIs DEF Readable
 <2>2. separator \in Meant BY <1>2 DEF Meant
 <2>3. h[separator] = <<>> BY <2>2 DEF Proper
 <2> QED BY <2>1, <2>2, <2>3, NoSeparatorsIs
<1> HIDE DEF sep, f, h
<1>5. \A i \in DOMAIN cs : with[i] \in Seq(Block)
 <2> SUFFICES ASSUME NEW i \in DOMAIN cs PROVE with[i] \in Seq(Block) OBVIOUS
 <2>1. <<sep>> \in Seq(Block) /\ <<>> \in Seq(Block) /\ cs[i] \in Seq(Block) BY <1>1, <1>2
 <2>2. <<sep>> \o cs[i] \in Seq(Block) /\ <<>> \o cs[i] \in Seq(Block) BY <2>1
 <2> QED BY <2>2
<1>6. with \in Seq(Seq(Block)) /\ DOMAIN with = DOMAIN cs BY <1>1, <1>5
<1>7. ASSUME NEW i \in DOMAIN cs
      PROVE  Spread(Spread(with[i], f), h) = Spread(Spread(cs[i], f), h)
 <2> DEFINE c == cs[i]
            u == Spread(c, f)
 <2>1. c \in Seq(Block) BY <1>1
 <2> HIDE DEF c
 <2>2. u \in Seq(Meant) BY <1>4, <2>1, SpreadType
 <2>3. Spread(<<sep>> \o c, f) = <<separator>> \o u
  <3>1. <<sep>> \in Seq(Block) BY <1>2
  <3>2. Spread(<<sep>> \o c, f) = Spread(<<sep>>, f) \o Spread(c, f)
    BY <1>4, <2>1, <3>1, SpreadConcat
  <3>3. Spread(<<sep>>, f) = <<separator>> BY <1>2, <1>4, SpreadOne
  <3> QED BY <3>2, <3>3
 <2> HIDE DEF u
 <2>4. Spread(<<separator>> \o u, h) = Spread(u, h)
  <3>1. <<separator>> \in Seq(Meant) BY <1>4
  <3>2. Spread(<<separator>> \o u, h) = Spread(<<separator>>, h) \o Spread(u, h)
    BY <1>4, <2>2, <3>1, SpreadConcat
  <3>3. Spread(<<separator>>, h) = <<>> BY <1>4, SpreadOne
  <3>4. Spread(u, h) \in Seq(Meant) BY <1>4, <2>2, SpreadType
  <3>5. <<>> \o Spread(u, h) = Spread(u, h) BY <3>4, ConcatEmptySeq
  <3> QED BY <3>2, <3>3, <3>5
 <2>5. <<>> \o c = c BY <2>1, ConcatEmptySeq
 <2>6. with[i] = <<>> \o c \/ with[i] = <<sep>> \o c BY DEF c
 <2>7. with[i] = c \/ with[i] = <<sep>> \o c BY <2>5, <2>6
 <2>8. Spread(Spread(with[i], f), h) = Spread(u, h) BY <2>3, <2>4, <2>7 DEF u
 <2> QED BY <2>8 DEF u, c
<1> HIDE DEF with
<1>8. ASSUME NEW xs \in Seq(Seq(Block))
      PROVE  Spread(Spread(FlattenSeq(xs), f), h)
                = FlattenSeq([i \in DOMAIN xs |-> Spread(Spread(xs[i], f), h)])
 <2> DEFINE ys == [i \in DOMAIN xs |-> Spread(xs[i], f)]
 <2>1. Spread(FlattenSeq(xs), f) = FlattenSeq(ys) BY <1>4, SpreadFlatten
 <2>2. ys \in Seq(Seq(Meant)) /\ DOMAIN ys = DOMAIN xs
  <3>1. \A i \in DOMAIN xs : xs[i] \in Seq(Block) OBVIOUS
  <3>2. \A i \in DOMAIN xs : Spread(xs[i], f) \in Seq(Meant) BY <1>4, <3>1, SpreadType
  <3> QED BY <3>2
 <2>3. [i \in DOMAIN ys |-> Spread(ys[i], h)] = [i \in DOMAIN xs |-> Spread(Spread(xs[i], f), h)]
   OBVIOUS
 <2> HIDE DEF ys
 <2>4. Spread(FlattenSeq(ys), h) = FlattenSeq([i \in DOMAIN ys |-> Spread(ys[i], h)])
   BY <1>4, <2>2, SpreadFlatten
 <2> QED BY <2>1, <2>3, <2>4
<1>9. [i \in DOMAIN with |-> Spread(Spread(with[i], f), h)]
         = [i \in DOMAIN cs |-> Spread(Spread(cs[i], f), h)]
  BY <1>6, <1>7
<1>10. Spread(Spread(FlattenSeq(with), f), h) = Spread(Spread(FlattenSeq(cs), f), h)
  BY <1>6, <1>8, <1>9
<1>11. FlattenSeq(with) \in Seq(Block) /\ FlattenSeq(cs) \in Seq(Block) BY <1>6, FlattenType
<1>12. /\ Joined(FlattenSeq(with)) \in Seq(Block)
       /\ Spread(Joined(FlattenSeq(with)), f) = Spread(FlattenSeq(with), f)
  BY <1>11, JoinedReads DEF Readable, f
<1>13. Spread(FlattenSeq(with), f) \in Seq(Meant) /\ Spread(FlattenSeq(cs), f) \in Seq(Meant)
  BY <1>4, <1>11, SpreadType
<1> QED BY <1>3, <1>10, <1>12, <1>13, NoSeparatorsIs DEF f, h

----------------------------------------
\* Requests.
LEMMA HeapIsBlock == \A s \in Seq(HeapMessage) : s \in Seq(BlockMessage)
<1>1. HeapMessage \subseteq BlockMessage
 <2>1. \A c \in Seq(HeapPart) : c \in Seq(Block) BY NativeIsBlock, SeqMonotonic
 <2> QED BY <2>1 DEF HeapMessage, BlockMessage, ChatMessage, Block
<1> QED BY <1>1, SeqMonotonic

TakesSystemOut == provider \in {"anthropic", "gemini"}

LEMMA TranslateIs ==
    ASSUME provider \in Providers, NEW e, e.messages \in Seq(HeapMessage),
           Translate(provider, e).err = "none"
    PROVE  LET out == Translated(e.messages).out
               r   == Translate(provider, e)
           IN  /\ Translated(e.messages).err = "none"
               /\ r.messages = IF TakesSystemOut THEN NotSystem(out) ELSE out
               /\ r.system = CASE provider = "anthropic" -> FlattenSeq(SystemContents(out))
                               [] provider = "gemini"    -> SystemInstruction(SystemContents(out))
                               [] provider \in {"openai", "ollama"} -> <<>>
<1> DEFINE q == Translated(e.messages)
<1>1. FormatFits(provider, e) BY TranslateErr
<1>2. \A a, b, c, d : q.err = "none" =>
         Request(q, a, b, c, d).messages = b /\ Request(q, a, b, c, d).system = a
  BY DEF Request
<1>3. \A a, b, c, d : Request(q, a, b, c, d).err = q.err BY DEF Request, Refused
<1>4. CASE provider = "openai"
 <2>1. Translate(provider, e)
          = Request(q, <<>>, q.out, e.tools, Map(StrictSchema, e.format))
   BY <1>4 DEF Translate, openaiTranslate, Each, Translated, MessageOf
 <2> HIDE DEF q
 <2>2. q.err = "none" BY <1>3, <2>1
 <2> QED BY <1>2, <1>4, <2>1, <2>2 DEF TakesSystemOut, q
<1>5. CASE provider = "anthropic"
 <2>1. Translate(provider, e)
          = Request(q, FlattenSeq(SystemContents(q.out)), NotSystem(q.out),
                    [i \in DOMAIN e.format |-> outputFormatToolName] \o e.tools,
                    Map(ToolInputSchema, e.format))
   BY <1>1, <1>5 DEF Translate, anthropicTranslate, Each, Translated, MessageOf, FormatFits
 <2> HIDE DEF q
 <2>2. q.err = "none" BY <1>3, <2>1
 <2> QED BY <1>2, <1>5, <2>1, <2>2 DEF TakesSystemOut, q
<1>6. CASE provider = "gemini"
 <2>1. Translate(provider, e)
          = Request(q, SystemInstruction(SystemContents(q.out)), NotSystem(q.out), e.tools,
                    Map(GenaiSchema, e.format))
   BY <1>6 DEF Translate, geminiTranslate, Each, Translated, MessageOf
 <2> HIDE DEF q
 <2>2. q.err = "none" BY <1>3, <2>1
 <2> QED BY <1>2, <1>6, <2>1, <2>2 DEF TakesSystemOut, q
<1>7. CASE provider = "ollama"
 <2>1. Translate(provider, e) = Request(q, <<>>, q.out, e.tools, <<>>)
   BY <1>1, <1>7 DEF Translate, ollamaTranslate, Each, Translated, MessageOf, FormatFits
 <2> HIDE DEF q
 <2>2. q.err = "none" BY <1>3, <2>1
 <2> QED BY <1>2, <1>7, <2>1, <2>2 DEF TakesSystemOut, q
<1> QED BY <1>4, <1>5, <1>6, <1>7 DEF Providers

\* The system's words, where they were put, are those of the system messages.
LEMMA SystemWords ==
    ASSUME provider \in Providers, NEW out \in Seq(RequestMessage), NEW system, NEW messages,
           messages = IF TakesSystemOut THEN NotSystem(out) ELSE out,
           system = CASE provider = "anthropic" -> FlattenSeq(SystemContents(out))
                      [] provider = "gemini"    -> SystemInstruction(SystemContents(out))
                      [] provider \in {"openai", "ollama"} -> <<>>
    PROVE  NoSeparators(TextFromParts(system) \o Texts(messages, {"system"}))
              = NoSeparators(Spread(out, Tell(RequestMessage, "text", {"system"})))
<1> DEFINE said == Spread(out, Tell(RequestMessage, "text", {"system"}))
           none == Tell(RequestMessage, "text", {})
           f == Tell(RequestMessage, "text", {"system"})
<1>1. "text" \in Readable /\ RequestMessage \in Sorts BY DEF Readable, Sorts
<1>2. said \in Seq(Meant)
 <2>1. f \in Maps(RequestMessage, Meant) BY <1>1, TellType
 <2> HIDE DEF f
 <2>2. Spread(out, f) \in Seq(Meant) BY <2>1, SpreadType
 <2> QED BY <2>2 DEF f
<1>3. CASE TakesSystemOut
 <2>1. messages \in Seq(RequestMessage)
       /\ Spread(messages, f) = Spread(out, Tell(RequestMessage, "text", {"system"} \ {"system"}))
   BY <1>1, <1>3, WithoutSystem
 <2>2. Spread(out, none) = <<>>
  <3>1. \A i \in 1..Len(out) : none[out[i]] = <<>> BY ElementOfSeq DEF Tell
  <3> HIDE DEF none
  <3> QED BY <3>1, SpreadNothing
 <2>3. {"system"} \ {"system"} = {} OBVIOUS
 <2>4. Texts(messages, {"system"}) = <<>> BY <1>1, <2>1, <2>2, <2>3, WhatIsSeen
 <2> DEFINE words == TextFromParts(system)
 <2>5. words \in Seq(Meant) /\ NoSeparators(words) = NoSeparators(said)
  <3> DEFINE cs == SystemContents(out)
             flat == FlattenSeq(cs)
  <3>1. cs \in Seq(Seq(Block)) /\ flat \in Seq(Block) /\ Spread(flat, Read("text")) = said
    BY SystemIs
  <3>2. system \in Seq(Block)
        /\ NoSeparators(Spread(system, Read("text"))) = NoSeparators(Spread(flat, Read("text")))
   <4>1. CASE provider = "anthropic" BY <3>1, <4>1
   <4>2. CASE provider = "gemini"
    <5>1. system = SystemInstruction(cs) BY <4>2
    <5> HIDE DEF cs
    <5> QED BY <3>1, <5>1, InstructionIs
   <4> QED BY <1>3, <4>1, <4>2 DEF TakesSystemOut
  <3> HIDE DEF cs, flat, said
  <3>3. words = Spread(system, Read("text")) BY <3>2, TextIsSpread
  <3>4. words \in Seq(Atoms) BY <3>2, TextIsSpread
  <3>5. Atoms \subseteq Meant BY DEF Meant
  <3>6. words \in Seq(Meant)
   <4> HIDE DEF words
   <4> QED BY <3>4, <3>5, SeqMonotonic
  <3> QED BY <3>1, <3>2, <3>3, <3>6
 <2> HIDE DEF words, said
 <2>6. words \o <<>> = words BY <2>5, ConcatEmptySeq
 <2> QED BY <2>4, <2>5, <2>6 DEF words, said
<1>4. CASE ~TakesSystemOut
 <2>1. system = <<>> /\ messages = out BY <1>4 DEF TakesSystemOut, Providers
 <2>2. TextFromParts(<<>>) = <<>>
  <3>1. <<>> \in Seq(Block) OBVIOUS
  <3> QED BY <3>1, TextIsSpread, SpreadEmpty
 <2>3. Texts(messages, {"system"}) = said BY <1>1, <2>1, WhatIsSeen
 <2> HIDE DEF said
 <2>4. <<>> \o said = said BY <1>2, ConcatEmptySeq
 <2> QED BY <2>1, <2>2, <2>3, <2>4 DEF said
<1> QED BY <1>3, <1>4

\* What is asked of a request.
KeepsContent(e, r) ==
    /\ NoSeparators(TextFromParts(r.system) \o Texts(r.messages, {"system"}))
          = NoSeparators(Texts(e.messages, SystemRoles))
    /\ Texts(r.messages, Talk) = Texts(e.messages, Talk)
    /\ Listed(Parts(r.messages, Roles, "call"), CallSays)
          = Listed(Parts(e.messages, {"assistant"}, "call"), CallSays)
    /\ Listed(Parts(r.messages, Roles, "result"), ResultSays)
          = Listed(Parts(e.messages, {"tool"}, "result"), ResultSays)
    /\ Listed(Parts(r.messages, Roles, "media"), MediaSays)
          = Listed(Parts(e.messages, {"user"}, "media"), MediaSays)

LEMMA TranslateKeeps ==
    ASSUME provider \in Providers, NEW e, e.messages \in Seq(HeapMessage),
           Translate(provider, e).err = "none"
    PROVE  KeepsContent(e, Translate(provider, e))
<1> DEFINE from == e.messages
           out == Translated(from).out
           r == Translate(provider, e)
           to == r.messages
<1>1. from \in Seq(BlockMessage) /\ Translated(from).err = "none" BY HeapIsBlock, TranslateIs
<1>2. /\ to = IF TakesSystemOut THEN NotSystem(out) ELSE out
      /\ r.system = CASE provider = "anthropic" -> FlattenSeq(SystemContents(out))
                      [] provider = "gemini"    -> SystemInstruction(SystemContents(out))
                      [] provider \in {"openai", "ollama"} -> <<>>
  BY TranslateIs
<1> HIDE DEF from
<1>3. /\ out \in Seq(RequestMessage)
      /\ \A k, roles, of : Seen(k, roles, of) =>
            Spread(out, Tell(RequestMessage, k, roles)) = Spread(from, Tell(BlockMessage, k, of))
  BY <1>1, AllKept
<1> HIDE DEF out, r
<1>4. RequestMessage \in Sorts /\ BlockMessage \in Sorts BY DEF Sorts
<1>5. to \in Seq(RequestMessage)
 <2>1. "text" \in Readable BY DEF Readable
 <2> QED BY <1>2, <1>3, <2>1, WithoutSystem
<1>6. ASSUME NEW k, NEW roles, NEW of, Seen(k, roles, of), Seen(k, roles \ {"system"}, of)
      PROVE  Spread(to, Tell(RequestMessage, k, roles)) = Spread(from, Tell(BlockMessage, k, of))
 <2>1. k \in Readable BY <1>6 DEF Seen, Readable
 <2>2. CASE TakesSystemOut
  <3>1. to = NotSystem(out) BY <1>2, <2>2
  <3> HIDE DEF to
  <3>2. Spread(to, Tell(RequestMessage, k, roles))
           = Spread(out, Tell(RequestMessage, k, roles \ {"system"}))
    BY <1>3, <2>1, <3>1, WithoutSystem
  <3> QED BY <1>3, <1>6, <3>2
 <2>3. CASE ~TakesSystemOut BY <1>2, <1>3, <1>6, <2>3
 <2> QED BY <2>2, <2>3
<1> HIDE DEF to
<1>7. NoSeparators(TextFromParts(r.system) \o Texts(to, {"system"}))
         = NoSeparators(Texts(from, SystemRoles))
 <2>1. Seen("text", {"system"}, SystemRoles) BY DEF Seen
 <2>2. Texts(from, SystemRoles) = Spread(out, Tell(RequestMessage, "text", {"system"}))
   BY <1>1, <1>3, <1>4, <2>1, WhatIsSeen
 <2>3. NoSeparators(TextFromParts(r.system) \o Texts(to, {"system"}))
          = NoSeparators(Spread(out, Tell(RequestMessage, "text", {"system"})))
  <3> DEFINE sys == r.system
  <3>1. sys = CASE provider = "anthropic" -> FlattenSeq(SystemContents(out))
                [] provider = "gemini"    -> SystemInstruction(SystemContents(out))
                [] provider \in {"openai", "ollama"} -> <<>>
    BY <1>2
  <3>2. to = IF TakesSystemOut THEN NotSystem(out) ELSE out BY <1>2
  <3> HIDE DEF sys
  <3>3. NoSeparators(TextFromParts(sys) \o Texts(to, {"system"}))
           = NoSeparators(Spread(out, Tell(RequestMessage, "text", {"system"})))
    BY <1>3, <3>1, <3>2, SystemWords
  <3> QED BY <3>3 DEF sys
 <2> QED BY <2>2, <2>3
<1>8. Texts(to, Talk) = Texts(from, Talk)
 <2>1. Talk \ {"system"} = Talk BY DEF Talk
 <2>2. Seen("text", Talk, Talk) BY DEF Seen
 <2> QED BY <1>1, <1>4, <1>5, <1>6, <2>1, <2>2, WhatIsSeen
<1>9. Listed(Parts(to, Roles, "call"), CallSays) = Listed(Parts(from, {"assistant"}, "call"), CallSays)
 <2>1. Seen("call", Roles, {"assistant"}) /\ Seen("call", Roles \ {"system"}, {"assistant"})
   BY DEF Seen, Roles
 <2> QED BY <1>1, <1>4, <1>5, <1>6, <2>1, WhatIsSeen
<1>10. Listed(Parts(to, Roles, "result"), ResultSays) = Listed(Parts(from, {"tool"}, "result"), ResultSays)
 <2>1. Seen("result", Roles, {"tool"}) /\ Seen("result", Roles \ {"system"}, {"tool"})
   BY DEF Seen, Roles
 <2> QED BY <1>1, <1>4, <1>5, <1>6, <2>1, WhatIsSeen
<1>11. Listed(Parts(to, Roles, "media"), MediaSays) = Listed(Parts(from, {"user"}, "media"), MediaSays)
 <2>1. Seen("media", Roles, {"user"}) /\ Seen("media", Roles \ {"system"}, {"user"})
   BY DEF Seen, Roles
 <2> QED BY <1>1, <1>4, <1>5, <1>6, <2>1, WhatIsSeen
<1> QED BY <1>7, <1>8, <1>9, <1>10, <1>11 DEF KeepsContent, from, to, r

\* Only a request that was translated waits for its answer.
WaitInv == InFlight => Received.err = "none"

LEMMA NextWait ==
    ASSUME TypeInv, WaitInv, [Next]_vars
    PROVE  WaitInv'
<1>1. CASE UNCHANGED <<sent, pc>> BY <1>1 DEF WaitInv, InFlight, Received
<1>2. CASE sent' = <<>> \/ pc' = "idle" BY <1>2 DEF WaitInv, InFlight
<1>3. CASE ClientTranslates
 <2>1. /\ sent' = <<Execution, Translate(provider, Execution)>>
       /\ Translate(provider, Execution).err # "none" => NoCorrection("error")
   BY <1>3 DEF ClientTranslates
 <2> QED BY <1>2, <2>1 DEF WaitInv, Received, NoCorrection, Conclude
<1> QED BY <1>1, <1>2, <1>3, FlightStep

LEMMA KeptWhileWaiting ==
    ASSUME TypeInv, SentInv, WaitInv
    PROVE  TranslationKeepsContent
<1> SUFFICES ASSUME InFlight PROVE TranslationKeepsContent BY DEF TranslationKeepsContent
<1>1. /\ Received = Translate(provider, Requested) /\ Received.err = "none"
      /\ Requested.messages \in Seq(HeapMessage)
  BY DEF SentInv, WaitInv, InFlight, IsExecution
<1>2. provider \in Providers BY DEF TypeInv
<1>3. KeepsContent(Requested, Received) BY <1>1, <1>2, TranslateKeeps
<1> QED BY <1>3 DEF TranslationKeepsContent, KeepsContent, Talk

(***************************************************************************)
(* A request that an adapter lets through has all of the conversation, for *)
(* every provider and every prompt: the words, calls, results and media,   *)
(* each once and in order, with what says which call a result answers.     *)
(***************************************************************************)
THEOREM TranslationsKeepTheConversation == Spec => []TranslationKeepsContent
<1>1. Init => SentInv /\ WaitInv BY DEF Init, SentInv, WaitInv, InFlight
<1> QED BY <1>1, InitInv, NextInv, NextSent, NextWait, KeptWhileWaiting, PTL DEF Spec

----------------------------------------
\* What the assistant says.  Those who pass a test, one by one.
Sends(S, R, f) == \A x \in S : f[x] \in R
Mapped(s, f) == [k \in DOMAIN s |-> f[s[k]]]
OneOf(S, B, f) == [x \in S |-> IF x \in B THEN <<f[x]>> ELSE <<>>]

LEMMA ThoseMap ==
    ASSUME NEW S, NEW R, NEW B \in SUBSET S, NEW f, Sends(S, R, f), NEW s \in Seq(S)
    PROVE  /\ OneOf(S, B, f) \in Maps(S, R)
           /\ Spread(s, OneOf(S, B, f)) = Mapped(Those(s, B), f)
<1> DEFINE pick == [x \in S |-> IF x \in B THEN <<x>> ELSE <<>>]
           g    == [x \in B |-> <<f[x]>>]
           both == OneOf(S, B, f)
<1>1. pick \in Maps(S, B) /\ g \in Maps(B, R) /\ both \in Maps(S, R) BY DEF Sends, Maps, OneOf
<1>2. Singly(B, g, f) BY DEF Singly
<1>3. Those(s, B) = Spread(s, pick)
 <2>1. [i \in DOMAIN s |-> IF s[i] \in B THEN <<s[i]>> ELSE <<>>] = [i \in DOMAIN s |-> pick[s[i]]]
  <3>1. \A i \in DOMAIN s : s[i] \in S OBVIOUS
  <3> QED BY <3>1
 <2> HIDE DEF pick
 <2> QED BY <2>1 DEF Those, Spread
<1>4. Composed(S, pick, g, both)
 <2> SUFFICES ASSUME NEW x \in S PROVE Spread(pick[x], g) = both[x] BY DEF Composed
 <2>1. CASE x \in B
  <3>1. pick[x] = <<x>> /\ both[x] = g[x] BY <2>1 DEF OneOf
  <3> HIDE DEF pick, g, both
  <3> QED BY <1>1, <2>1, <3>1, SpreadOne
 <2>2. CASE x \notin B
  <3>1. pick[x] = <<>> /\ both[x] = <<>> BY <2>2 DEF OneOf
  <3> QED BY <3>1, SpreadEmpty
 <2> QED BY <2>1, <2>2
<1> HIDE DEF pick, g, both
<1>5. Spread(Spread(s, pick), g) = Spread(s, both) BY <1>1, <1>4, SpreadTwice
<1>6. Spread(s, pick) \in Seq(B) BY <1>1, SpreadType
<1>7. Spread(Spread(s, pick), g) = [k \in DOMAIN Spread(s, pick) |-> f[Spread(s, pick)[k]]]
  BY <1>1, <1>2, <1>6, SpreadSingles
<1> QED BY <1>1, <1>3, <1>5, <1>7 DEF both, Mapped

\* What is the same for each element is the same for all.
LEMMA SpreadEqual ==
    ASSUME NEW S, NEW s \in Seq(S), NEW f, NEW g, \A x \in S : f[x] = g[x]
    PROVE  Spread(s, f) = Spread(s, g)
<1>1. \A i \in DOMAIN s : s[i] \in S OBVIOUS
<1>2. [i \in DOMAIN s |-> f[s[i]]] = [i \in DOMAIN s |-> g[s[i]]] BY <1>1
<1> QED BY <1>2 DEF Spread

\* The words and calls of a part.
Own == [a \in Atoms |-> IF a # Foreign THEN <<a>> ELSE <<>>]
WordsOf == [p \in Block |-> IF p.kind = "text" THEN Spread(p.text, Own) ELSE <<>>]
SayWord == [p \in Block |-> CASE p.kind = "text" -> Spread(p.text, Own)
                              [] IsFormat(p)     -> << <<p.args, 0>> >>
                              [] OTHER           -> <<>>]
SayCall == [p \in Block |-> IF p.kind = "call" /\ ~IsFormat(p) THEN <<OrEmptyObject(p)>> ELSE <<>>]
Sayings == [text : Seq(Atoms), calls : Seq(ToolCallPart)]
Saying(blocks) == [text |-> Spread(blocks, SayWord), calls |-> Spread(blocks, SayCall)]

LEMMA OwnType ==
    /\ Own \in Maps(Atoms, Atoms)
    /\ \A t \in Seq(Atoms) : NoForeignAtoms(t) = Spread(t, Own) /\ Spread(t, Own) \in Seq(Atoms)
    /\ \A a \in Native : Spread(<<a>>, Own) = <<a>>
    /\ Spread(<<Foreign>>, Own) = <<>>
<1>1. Own \in Maps(Atoms, Atoms) BY DEF Own, Maps
<1>2. ASSUME NEW t \in Seq(Atoms) PROVE NoForeignAtoms(t) = Spread(t, Own)
 <2>1. \A i \in DOMAIN t : t[i] \in Atoms OBVIOUS
 <2>2. [i \in DOMAIN t |-> IF t[i] # Foreign THEN <<t[i]>> ELSE <<>>] = [i \in DOMAIN t |-> Own[t[i]]]
   BY <2>1 DEF Own
 <2> QED BY <2>2 DEF NoForeignAtoms, Where, Spread
<1>3. \A t \in Seq(Atoms) : Spread(t, Own) \in Seq(Atoms) BY <1>1, SpreadType
<1>4. \A a \in Atoms : Spread(<<a>>, Own) = Own[a] BY <1>1, SpreadOne
<1>5. Foreign \in Atoms /\ Own[Foreign] = <<>> /\ \A a \in Native : a \in Atoms /\ Own[a] = <<a>>
  BY DEF Own, Atoms, Native
<1> QED BY <1>1, <1>2, <1>3, <1>4, <1>5

LEMMA SayTypes ==
    /\ SayWord \in Maps(Block, Atoms) /\ WordsOf \in Maps(Block, Atoms)
    /\ SayCall \in Maps(Block, ToolCallPart)
    /\ \A p \in Block : /\ p.kind = "text" => SayWord[p] = WordsOf[p] /\ SayCall[p] = <<>>
                        /\ p.kind # "text" => WordsOf[p] = <<>>
                        /\ p.kind # "text" /\ ~IsFormat(p) => SayWord[p] = <<>>
                        /\ IsFormat(p) => SayWord[p] = << <<p.args, 0>> >> /\ SayCall[p] = <<>>
                        /\ p.kind # "call" => SayCall[p] = <<>>
                        /\ p.kind = "call" /\ ~IsFormat(p) => SayCall[p] = <<OrEmptyObject(p)>>
    /\ \A s \in Seq(Block) : Saying(s) \in Sayings
<1>1. ASSUME NEW p \in Block, p.kind = "text" PROVE Spread(p.text, Own) \in Seq(Atoms)
 <2>1. p.text \in Seq(Atoms) BY <1>1, BlockKinds DEF TextPart
 <2> QED BY <2>1, OwnType
<1>2. ASSUME NEW p \in Block, IsFormat(p) PROVE << <<p.args, 0>> >> \in Seq(Atoms)
 <2>1. p.args \in Args BY <1>2, BlockKinds DEF IsFormat, ToolCallPart
 <2>2. <<p.args, 0>> \in Atoms BY <2>1, AtomTypes DEF Atoms
 <2> QED BY <2>2
<1>3. ASSUME NEW p \in Block, p.kind = "call" PROVE OrEmptyObject(p) \in ToolCallPart
 <2>1. p \in ToolCallPart BY <1>3, BlockKinds
 <2>2. "{}" \in Args BY DEF Args
 <2> QED BY <2>1, <2>2 DEF OrEmptyObject, ToolCallPart
<1>4. \A p : IsFormat(p) => p.kind = "call" /\ p.kind # "text" BY DEF IsFormat
<1>5. SayWord \in Maps(Block, Atoms) BY <1>1, <1>2 DEF SayWord, Maps
<1>6. WordsOf \in Maps(Block, Atoms) BY <1>1 DEF WordsOf, Maps
<1>7. SayCall \in Maps(Block, ToolCallPart) BY <1>3 DEF SayCall, Maps
<1>8. \A p \in Block : /\ p.kind = "text" => SayWord[p] = WordsOf[p] /\ SayCall[p] = <<>>
                       /\ p.kind # "text" => WordsOf[p] = <<>>
                       /\ p.kind # "text" /\ ~IsFormat(p) => SayWord[p] = <<>>
                       /\ IsFormat(p) => SayWord[p] = << <<p.args, 0>> >> /\ SayCall[p] = <<>>
                       /\ p.kind # "call" => SayCall[p] = <<>>
                       /\ p.kind = "call" /\ ~IsFormat(p) => SayCall[p] = <<OrEmptyObject(p)>>
  BY <1>4 DEF SayWord, WordsOf, SayCall
<1>9. \A s \in Seq(Block) : Saying(s) \in Sayings
 <2>1. \A s \in Seq(Block) : Spread(s, SayWord) \in Seq(Atoms) /\ Spread(s, SayCall) \in Seq(ToolCallPart)
   BY <1>5, <1>7, SpreadType
 <2> QED BY <2>1 DEF Saying, Sayings
<1> QED BY <1>5, <1>6, <1>7, <1>8, <1>9

LEMMA WordsArePut ==
    ASSUME NEW s \in Seq(Block)
    PROVE  Spread(TextFromParts(s), Own) = Spread(s, WordsOf)
<1> DEFINE f == Read("text")
<1>1. TextFromParts(s) = Spread(s, f) BY TextIsSpread
<1>2. f \in Maps(Block, Meant) /\ \A p \in Block : f[p] = IF p.kind = "text" THEN p.text ELSE <<>>
  BY ReadIs DEF Readable
<1>3. f \in Maps(Block, Atoms)
 <2>1. \A p \in Block : p.kind = "text" => p.text \in Seq(Atoms) BY BlockKinds DEF TextPart
 <2>2. \A p \in Block : f[p] \in Seq(Atoms)
  <3> HIDE DEF f
  <3> SUFFICES ASSUME NEW p \in Block PROVE f[p] \in Seq(Atoms) OBVIOUS
  <3>1. CASE p.kind = "text"
   <4>1. f[p] = p.text BY <1>2, <3>1
   <4> QED BY <2>1, <3>1, <4>1
  <3>2. CASE p.kind # "text"
   <4>1. f[p] = <<>> BY <1>2, <3>2
   <4> QED BY <4>1
  <3> QED BY <3>1, <3>2
 <2> QED BY <1>2, <2>2 DEF Maps
<1> HIDE DEF f
<1>4. Composed(Block, f, Own, WordsOf) BY <1>2, SpreadEmpty DEF Composed, WordsOf
<1>5. Spread(Spread(s, f), Own) = Spread(s, WordsOf) BY <1>3, <1>4, OwnType, SpreadTwice
<1> QED BY <1>1, <1>5

LEMMA JoinedSays ==
    ASSUME NEW s \in Seq(Block)
    PROVE  /\ Joined(s) \in Seq(Block)
           /\ Spread(Joined(s), SayWord) = Spread(s, WordsOf)
           /\ Spread(Joined(s), SayCall) = <<>>
<1> DEFINE t == TextFromParts(s)
<1>1. t \in Seq(Atoms) /\ Spread(t, Own) = Spread(s, WordsOf) BY TextIsSpread, WordsArePut
<1>2. Joined(s) = IF t = <<>> THEN <<>> ELSE <<Text(t)>> BY DEF Joined
<1> HIDE DEF t
<1>3. Text(t) \in Block /\ Text(t).kind = "text" /\ Text(t).text = t BY <1>1, TextBlock
<1>4. SayWord[Text(t)] = Spread(t, Own) /\ SayCall[Text(t)] = <<>> BY <1>3, SayTypes DEF WordsOf
<1>5. Spread(<<Text(t)>>, SayWord) = Spread(t, Own) /\ Spread(<<Text(t)>>, SayCall) = <<>>
 <2>1. Spread(<<Text(t)>>, SayWord) = SayWord[Text(t)] BY <1>3, SayTypes, SpreadOne
 <2>2. Spread(<<Text(t)>>, SayCall) = SayCall[Text(t)] BY <1>3, SayTypes, SpreadOne
 <2> QED BY <1>4, <2>1, <2>2
<1>6. CASE t = <<>>
 <2>1. Joined(s) = <<>> /\ Spread(t, Own) = <<>> BY <1>2, <1>6, SpreadEmpty
 <2> QED BY <1>1, <2>1, SpreadEmpty
<1>7. CASE t # <<>>
 <2>1. Joined(s) = <<Text(t)>> BY <1>2, <1>7
 <2> QED BY <1>1, <1>3, <1>5, <2>1
<1> QED BY <1>6, <1>7

LEMMA WithArgsIs ==
    ASSUME NEW s \in Seq(ToolCallPart)
    PROVE  /\ WithArgs(s) \in Seq(ToolCallPart) /\ Len(WithArgs(s)) = Len(s)
           /\ \A i \in 1..Len(s) : WithArgs(s)[i] = OrEmptyObject(s[i])
<1>1. DOMAIN s = 1..Len(s) /\ Len(s) \in Nat /\ \A i \in 1..Len(s) : s[i] \in ToolCallPart OBVIOUS
<1>2. \A p \in ToolCallPart : OrEmptyObject(p) \in ToolCallPart
 <2>1. "{}" \in Args BY DEF Args
 <2> QED BY <2>1 DEF OrEmptyObject, ToolCallPart
<1>3. \A i \in 1..Len(s) : OrEmptyObject(s[i]) \in ToolCallPart BY <1>1, <1>2
<1> QED BY <1>1, <1>3 DEF WithArgs

LEMMA CallFacts ==
    /\ ToolCallPart \subseteq Block
    /\ \A p \in ToolCallPart :
          /\ p.kind = "call" /\ OrEmptyObject(p).kind = "call"
          /\ IsFormat(OrEmptyObject(p)) <=> IsFormat(p)
          /\ OrEmptyObject(OrEmptyObject(p)) = OrEmptyObject(p)
          /\ OrEmptyObject(p).id = p.id /\ OrEmptyObject(p).name = p.name
          /\ OrEmptyObject(p).cache = p.cache
          /\ p.args # "" => OrEmptyObject(p).args = p.args
          /\ p.args # "" => OrEmptyObject(p) = p
          /\ OrEmptyObject(p).args # ""
          /\ OrEmptyObject(p) \in ToolCallPart
<1>1. ToolCallPart \subseteq Block BY DEF Block, ContentPart
<1>2. "{}" \in Args BY DEF Args
<1> QED BY <1>1, <1>2 DEF OrEmptyObject, ToolCallPart, IsFormat

LEMMA KindCalls ==
    ASSUME NEW s \in Seq(Block)
    PROVE  /\ Kind(s, "call") \in Seq(ToolCallPart)
           /\ Spread(Kind(s, "call"), SayCall) = Spread(s, SayCall)
           /\ Spread(WithArgs(Kind(s, "call")), SayCall) = Spread(s, SayCall)
<1> DEFINE calls == Kind(s, "call")
<1>1. calls \in Seq(ToolCallPart)
 <2>1. calls \in Seq(OfKind(Block, "call")) BY KindType
 <2>2. OfKind(Block, "call") \subseteq ToolCallPart BY BlockKinds DEF OfKind
 <2> HIDE DEF calls
 <2> QED BY <2>1, <2>2
<1>2. calls = Spread(s, Pick("call")) /\ Pick("call") \in Maps(Block, Block) BY KindIsSpread
<1>3. Composed(Block, Pick("call"), SayCall, SayCall)
 <2> SUFFICES ASSUME NEW p \in Block PROVE Spread(Pick("call")[p], SayCall) = SayCall[p]
   BY DEF Composed
 <2>1. CASE p.kind = "call"
  <3>1. Pick("call")[p] = <<p>> BY <2>1 DEF Pick
  <3> QED BY <3>1, SayTypes, SpreadOne
 <2>2. CASE p.kind # "call"
  <3>1. Pick("call")[p] = <<>> BY <2>2 DEF Pick
  <3> QED BY <2>2, <3>1, SayTypes, SpreadEmpty
 <2> QED BY <2>1, <2>2
<1>4. Spread(calls, SayCall) = Spread(s, SayCall)
 <2> DEFINE g == Pick("call")
 <2>1. g \in Maps(Block, Block) /\ Composed(Block, g, SayCall, SayCall) /\ calls = Spread(s, g)
   BY <1>2, <1>3
 <2> HIDE DEF g, calls
 <2>2. Spread(Spread(s, g), SayCall) = Spread(s, SayCall) BY <2>1, SayTypes, SpreadTwice
 <2> QED BY <2>1, <2>2
<1> HIDE DEF calls
<1>5. Spread(WithArgs(calls), SayCall) = Spread(calls, SayCall)
 <2>1. DOMAIN WithArgs(calls) = DOMAIN calls /\ DOMAIN calls = 1..Len(calls) BY <1>1, WithArgsIs
 <2>2. \A i \in DOMAIN calls : SayCall[WithArgs(calls)[i]] = SayCall[calls[i]]
  <3> SUFFICES ASSUME NEW i \in DOMAIN calls PROVE SayCall[WithArgs(calls)[i]] = SayCall[calls[i]]
    OBVIOUS
  <3>1. calls[i] \in ToolCallPart /\ WithArgs(calls)[i] = OrEmptyObject(calls[i])
    BY <1>1, <2>1, WithArgsIs, ElementOfSeq
  <3> DEFINE p == calls[i]
             q == OrEmptyObject(p)
  <3>2. p \in Block /\ q \in Block /\ p.kind = "call" /\ q.kind = "call" /\ (IsFormat(p) <=> IsFormat(q))
        /\ OrEmptyObject(q) = q
    BY <3>1, CallFacts
  <3>3. WithArgs(calls)[i] = q BY <3>1
  <3> HIDE DEF p, q
  <3>4. SayCall[q] = SayCall[p]
   <4>1. CASE IsFormat(p)
    <5>1. SayCall[p] = <<>> /\ SayCall[q] = <<>> BY <3>2, <4>1, SayTypes
    <5> QED BY <5>1
   <4>2. CASE ~IsFormat(p)
    <5>1. SayCall[q] = <<OrEmptyObject(q)>> BY <3>2, <4>2, SayTypes
    <5>2. SayCall[p] = <<OrEmptyObject(p)>> BY <3>2, <4>2, SayTypes
    <5> QED BY <3>2, <5>1, <5>2 DEF q
   <4> QED BY <4>1, <4>2
  <3> QED BY <3>3, <3>4 DEF p
 <2>3. [i \in DOMAIN WithArgs(calls) |-> SayCall[WithArgs(calls)[i]]] = [i \in DOMAIN calls |-> SayCall[calls[i]]]
   BY <2>1, <2>2
 <2> QED BY <2>3 DEF Spread
<1> QED BY <1>1, <1>4, <1>5 DEF calls

\* The words of the property.
LEMMA SaidIs ==
    ASSUME NEW s \in Seq(Block)
    PROVE  Said(s) = Saying(s)
<1> DEFINE one(p) == CASE p.kind = "text" -> p.text
                       [] IsFormat(p)     -> << <<p.args, 0>> >>
                       [] OTHER           -> <<>>
           f == [p \in Block |-> one(p)]
           words == FlattenSeq([i \in DOMAIN s |-> one(s[i])])
           calls == WithArgs(Kind(s, "call"))
           B     == {p \in ToolCallPart : ~IsFormat(p)}
<1>1. \A i \in DOMAIN s : s[i] \in Block OBVIOUS
<1>2. \A p \in Block : one(p) \in Seq(Atoms)
 <2> SUFFICES ASSUME NEW p \in Block PROVE one(p) \in Seq(Atoms) OBVIOUS
 <2>1. p.kind = "text" => p.text \in Seq(Atoms) BY BlockKinds DEF TextPart
 <2>2. IsFormat(p) => << <<p.args, 0>> >> \in Seq(Atoms)
  <3>1. IsFormat(p) => SayWord[p] = << <<p.args, 0>> >> /\ SayWord[p] \in Seq(Atoms)
    BY SayTypes DEF Maps
  <3> QED BY <3>1
 <2> QED BY <2>1, <2>2
<1>3. f \in Maps(Block, Atoms)
 <2> HIDE DEF one
 <2> QED BY <1>2 DEF Maps
<1>4. Composed(Block, f, Own, SayWord)
 <2> SUFFICES ASSUME NEW p \in Block PROVE Spread(f[p], Own) = SayWord[p] BY DEF Composed
 <2>1. CASE p.kind = "text"
  <3>1. f[p] = p.text /\ WordsOf[p] = Spread(p.text, Own)
   <4>1. ~IsFormat(p) BY <2>1 DEF IsFormat
   <4>2. one(p) = p.text BY <2>1, <4>1
   <4>3. f[p] = one(p)
    <5> HIDE DEF one
    <5> QED OBVIOUS
   <4>4. WordsOf[p] = Spread(p.text, Own) BY <2>1 DEF WordsOf
   <4> HIDE DEF one, f
   <4> QED BY <4>2, <4>3, <4>4
  <3>2. SayWord[p] = WordsOf[p] BY <2>1, SayTypes
  <3> HIDE DEF f
  <3> QED BY <3>1, <3>2
 <2>2. CASE IsFormat(p)
  <3>1. p.kind # "text" /\ p.kind = "call" BY <2>2 DEF IsFormat
  <3>2. f[p] = << <<p.args, 0>> >> BY <2>2, <3>1
  <3>3. p.args \in Args BY <3>1, BlockKinds DEF ToolCallPart
  <3> HIDE DEF f
  <3> QED BY <2>2, <3>2, <3>3, AtomTypes, OwnType, SayTypes
 <2>3. CASE p.kind # "text" /\ ~IsFormat(p)
  <3>1. f[p] = <<>> BY <2>3
  <3> QED BY <2>3, <3>1, SayTypes, SpreadEmpty
 <2> QED BY <2>1, <2>2, <2>3
<1>5. words = Spread(s, f)
 <2>1. [i \in DOMAIN s |-> one(s[i])] = [i \in DOMAIN s |-> f[s[i]]] BY <1>1
 <2> HIDE DEF f, one
 <2> QED BY <2>1 DEF Spread
<1> HIDE DEF f, one
<1>6. NoForeignAtoms(words) = Spread(s, SayWord)
 <2>1. words \in Seq(Atoms) BY <1>3, <1>5, SpreadType
 <2>2. Spread(Spread(s, f), Own) = Spread(s, SayWord) BY <1>3, <1>4, OwnType, SpreadTwice
 <2> HIDE DEF words
 <2> QED BY <1>5, <2>1, <2>2, OwnType
<1>7. calls \in Seq(ToolCallPart) /\ Spread(calls, SayCall) = Spread(s, SayCall)
  BY KindCalls, WithArgsIs
<1>8. \A i \in DOMAIN calls : calls[i] \in ToolCallPart /\ OrEmptyObject(calls[i]) = calls[i]
 <2> DEFINE c == Kind(s, "call")
 <2>1. c \in Seq(ToolCallPart) BY KindCalls
 <2>2. \A i \in 1..Len(c) : c[i] \in ToolCallPart BY <2>1
 <2>3. DOMAIN calls = 1..Len(c) /\ \A i \in 1..Len(c) : calls[i] = OrEmptyObject(c[i])
  <3> HIDE DEF c
  <3>1. WithArgs(c) \in Seq(ToolCallPart) /\ Len(WithArgs(c)) = Len(c)
        /\ \A i \in 1..Len(c) : WithArgs(c)[i] = OrEmptyObject(c[i])
    BY <2>1, WithArgsIs
  <3> QED BY <3>1 DEF c
 <2> HIDE DEF c, calls
 <2>4. \A i \in 1..Len(c) : OrEmptyObject(c[i]) \in ToolCallPart
                          /\ OrEmptyObject(OrEmptyObject(c[i])) = OrEmptyObject(c[i])
   BY <2>2, CallFacts
 <2> QED BY <2>3, <2>4
<1>9. Where(calls, LAMBDA b : ~IsFormat(b)) = Spread(calls, SayCall)
 <2>1. \A i \in DOMAIN calls :
           (IF ~IsFormat(calls[i]) THEN <<calls[i]>> ELSE <<>>) = SayCall[calls[i]]
  <3> SUFFICES ASSUME NEW p \in ToolCallPart, OrEmptyObject(p) = p
               PROVE  (IF ~IsFormat(p) THEN <<p>> ELSE <<>>) = SayCall[p]
    BY <1>8
  <3>1. p \in Block /\ p.kind = "call" BY CallFacts
  <3> QED BY <3>1, SayTypes
 <2> HIDE DEF calls
 <2>2. [i \in DOMAIN calls |-> IF ~IsFormat(calls[i]) THEN <<calls[i]>> ELSE <<>>]
         = [i \in DOMAIN calls |-> SayCall[calls[i]]]
   BY <2>1
 <2> QED BY <2>2 DEF Where, Spread
<1>10. Said(s) = [text |-> NoForeignAtoms(words), calls |-> Where(calls, LAMBDA b : ~IsFormat(b))]
  BY DEF Said, words, calls, one
<1> QED BY <1>6, <1>7, <1>9, <1>10 DEF Saying

----------------------------------------
\* What a provider sends says the same as what is made of it: a call of the tool that
\* stands for the format comes from Anthropic only, with an input, and is a text
\* afterwards.
Sayable(who) ==
    {b \in RawPart(who) : b.kind = "call" => /\ IsFormat(b) => who = "anthropic" /\ b.args # ""
                                             /\ who = "gemini" => b.id = NoId}
ShowPart(who) ==
    {p \in AnswerPart(who) : p.kind = "call" => ~IsFormat(p) /\ (who = "gemini" => p.id = NoId)}

LEMMA SayableTypes ==
    ASSUME NEW who
    PROVE  /\ Sayable(who) \subseteq RawPart(who) /\ ShowPart(who) \subseteq AnswerPart(who)
           /\ Sayable(who) \subseteq Block /\ ShowPart(who) \subseteq Block
           /\ Spoken \subseteq ShowPart(who)
           /\ \A b \in Sayable(who) : b.kind = "call" => b \in CallOf(who) /\ b \in ToolCallPart
           /\ \A b \in Sayable(who) : b.kind = "call" /\ ~IsFormat(b) =>
                  b \in ShowPart(who) /\ OrEmptyObject(b) \in ShowPart(who)
<1>1. Sayable(who) \subseteq RawPart(who) /\ ShowPart(who) \subseteq AnswerPart(who)
  BY DEF Sayable, ShowPart
<1>2. Sayable(who) \subseteq Block /\ ShowPart(who) \subseteq Block
  BY <1>1, AnswerIsNative, NativeIsBlock
<1>3. Spoken \subseteq ShowPart(who)
 <2>1. \A p \in Spoken : p.kind = "text" /\ p \in AnswerPart(who)
   BY DEF Spoken, TextPart, AnswerPart
 <2> QED BY <2>1 DEF ShowPart
<1>4. \A b \in Sayable(who) : b.kind = "call" => b \in CallOf(who) /\ b \in ToolCallPart
 <2>1. CallOf(who) \subseteq ToolCallPart BY DEF CallOf
 <2> QED BY <1>1, <2>1, AnswerIsNative
<1>5. ASSUME NEW b \in Sayable(who), b.kind = "call", ~IsFormat(b)
      PROVE  b \in ShowPart(who) /\ OrEmptyObject(b) \in ShowPart(who)
 <2>1. b \in CallOf(who) /\ b \in ToolCallPart BY <1>4, <1>5
 <2>2. OrEmptyObject(b) \in CallOf(who) BY <2>1, CallWithArgs
 <2>3. ~IsFormat(OrEmptyObject(b)) /\ OrEmptyObject(b).id = b.id BY <1>5, <2>1, CallFacts
 <2>4. who = "gemini" => b.id = NoId BY <1>5 DEF Sayable
 <2> QED BY <1>5, <2>1, <2>2, <2>3, <2>4 DEF ShowPart, AnswerPart
<1> QED BY <1>1, <1>2, <1>3, <1>4, <1>5

LEMMA RawAnswersSay ==
    ASSUME log \in Seq(OutcomeType), NEW raw \in RawAnswers
    PROVE  raw \in Seq(Sayable(provider))
<1>1. /\ Text(<< <<"answer", attempt>> >>) \in Sayable(provider)
      /\ Reasoning(<< <<"thought", attempt>> >>) \in Sayable(provider)
 <2>1. \A t : Text(t).kind # "call" /\ Reasoning(t).kind # "call" BY DEF Text, Reasoning
 <2> QED BY <2>1, RawPartsType DEF Sayable
<1>2. \A i \in {1, 2}, args \in FitArgs(provider) \cup {"malformed"} :
          Call(CallId(i), "search", args) \in Sayable(provider)
 <2>1. \A i, args : /\ ~IsFormat(Call(CallId(i), "search", args))
                    /\ Call(CallId(i), "search", args).id = CallId(i)
   BY DEF Call, IsFormat, outputFormatToolName
 <2>2. \A i : provider = "gemini" => CallId(i) = NoId BY DEF CallId
 <2> QED BY <2>1, <2>2, RawPartsType DEF Sayable
<1>3. provider = "anthropic" => Call(CallId(1), outputFormatToolName, "object") \in Sayable(provider)
 <2>1. Call(CallId(1), outputFormatToolName, "object").args = "object" BY DEF Call
 <2> QED BY <2>1, RawPartsType DEF Sayable
<1> QED BY <1>1, <1>2, <1>3, RawAnswersAre

\* The text in one piece, and then the calls.
LEMMA JoinedAndCalls ==
    ASSUME NEW s \in Seq(Block), NEW c \in Seq(Block),
           \A i \in 1..Len(c) : c[i].kind = "call" /\ ~IsFormat(c[i]),
           Spread(c, SayCall) = Spread(s, SayCall)
    PROVE  /\ Spread(Joined(s) \o c, SayWord) = Spread(s, WordsOf)
           /\ Spread(Joined(s) \o c, SayCall) = Spread(s, SayCall)
<1>1. /\ Joined(s) \in Seq(Block)
      /\ Spread(Joined(s), SayWord) = Spread(s, WordsOf) /\ Spread(Joined(s), SayCall) = <<>>
  BY JoinedSays
<1>2. Spread(c, SayWord) = <<>>
 <2>1. \A i \in 1..Len(c) : SayWord[c[i]] = <<>>
  <3>1. \A i \in 1..Len(c) : c[i] \in Block /\ c[i].kind # "text" BY ElementOfSeq
  <3> QED BY <3>1, SayTypes
 <2> QED BY <2>1, SpreadNothing
<1>3. /\ Spread(s, WordsOf) \in Seq(Atoms) /\ Spread(s, SayCall) \in Seq(ToolCallPart)
  BY SayTypes, SpreadType
<1>4. Spread(Joined(s) \o c, SayWord) = Spread(Joined(s), SayWord) \o Spread(c, SayWord)
  BY <1>1, SayTypes, SpreadConcat
<1>5. Spread(Joined(s) \o c, SayCall) = Spread(Joined(s), SayCall) \o Spread(c, SayCall)
  BY <1>1, SayTypes, SpreadConcat
<1>6. \A x \in Seq(Atoms) : x \o <<>> = x OBVIOUS
<1>7. \A x \in Seq(ToolCallPart) : <<>> \o x = x OBVIOUS
<1> QED BY <1>1, <1>2, <1>3, <1>4, <1>5, <1>6, <1>7

\* Where no call stands for the format, only texts have words.
LEMMA WordsAreSaid ==
    ASSUME NEW S \in SUBSET Block, NEW s \in Seq(S), \A p \in S : ~IsFormat(p)
    PROVE  Spread(s, WordsOf) = Spread(s, SayWord)
<1>1. \A p \in S : WordsOf[p] = SayWord[p] BY SayTypes
<1> QED BY <1>1, SpreadEqual

LEMMA ParsedSays ==
    ASSUME NEW who \in Providers, NEW blocks \in Seq(Sayable(who)),
           ParseResponse(who, blocks).err = "none"
    PROVE  /\ ParseResponse(who, blocks).out \in Seq(ShowPart(who))
           /\ Saying(ParseResponse(who, blocks).out) = Saying(blocks)
<1>1. \A content : Response(content).err = "none" => Response(content).out = content
  BY DEF Response, Ok, Fail
<1>2. blocks \in Seq(Block) BY SayableTypes
<1> DEFINE calls == Kind(blocks, "call")
<1>3. ASSUME who # "anthropic", NEW c \in {calls, WithArgs(calls)}
      PROVE  /\ Joined(blocks) \o c \in Seq(ShowPart(who))
             /\ Saying(Joined(blocks) \o c) = Saying(blocks)
 <2>1. \A b \in Sayable(who) : ~IsFormat(b)
  <3>1. \A b : IsFormat(b) => b.kind = "call" BY DEF IsFormat
  <3> QED BY <1>3, <3>1 DEF Sayable
 <2>2. calls \in Seq(OfKind(Sayable(who), "call")) BY KindType
 <2>3. calls \in Seq(ToolCallPart) /\ Spread(calls, SayCall) = Spread(blocks, SayCall)
       /\ Spread(WithArgs(calls), SayCall) = Spread(blocks, SayCall)
   BY <1>2, KindCalls
 <2>4. \A b \in OfKind(Sayable(who), "call") :
           /\ b \in ShowPart(who) /\ OrEmptyObject(b) \in ShowPart(who)
           /\ b.kind = "call" /\ ~IsFormat(b)
           /\ OrEmptyObject(b).kind = "call" /\ ~IsFormat(OrEmptyObject(b))
   BY <2>1, SayableTypes, CallFacts DEF OfKind
 <2> HIDE DEF calls
 <2>5. /\ WithArgs(calls) \in Seq(ToolCallPart) /\ Len(WithArgs(calls)) = Len(calls)
       /\ \A i \in 1..Len(calls) : WithArgs(calls)[i] = OrEmptyObject(calls[i])
   BY <2>3, WithArgsIs
 <2>6. \A i \in 1..Len(calls) : calls[i] \in OfKind(Sayable(who), "call") BY <2>2, ElementOfSeq
 <2>7. \A i \in 1..Len(calls) : /\ calls[i] \in ShowPart(who)
                                /\ calls[i].kind = "call" /\ ~IsFormat(calls[i])
   BY <2>4, <2>6
 <2>8. \A i \in 1..Len(calls) : /\ WithArgs(calls)[i] \in ShowPart(who)
                                /\ WithArgs(calls)[i].kind = "call" /\ ~IsFormat(WithArgs(calls)[i])
   BY <2>4, <2>5, <2>6
 <2>9. /\ c \in Seq(ToolCallPart) /\ Spread(c, SayCall) = Spread(blocks, SayCall)
       /\ \A i \in 1..Len(c) : c[i] \in ShowPart(who) /\ c[i].kind = "call" /\ ~IsFormat(c[i])
  <3>1. CASE c = calls BY <2>3, <2>7, <3>1
  <3>2. CASE c = WithArgs(calls) BY <2>3, <2>5, <2>8, <3>2
  <3> QED BY <1>3, <3>1, <3>2
 <2>10. c \in Seq(ShowPart(who)) /\ c \in Seq(Block)
  <3>1. c \in Seq(ShowPart(who)) BY <2>9
  <3> QED BY <3>1, SayableTypes
 <2>11. Joined(blocks) \in Seq(ShowPart(who))
  <3>1. blocks \in Seq(NativePart) BY SayableTypes, AnswerIsNative
  <3>2. Joined(blocks) \in Seq(Spoken) BY <3>1, JoinedType
  <3> QED BY <3>2, SayableTypes
 <2>12. Spread(blocks, WordsOf) = Spread(blocks, SayWord) BY <2>1, SayableTypes, WordsAreSaid
 <2>13. Saying(Joined(blocks) \o c) = Saying(blocks)
  <3>1. /\ Spread(Joined(blocks) \o c, SayWord) = Spread(blocks, WordsOf)
        /\ Spread(Joined(blocks) \o c, SayCall) = Spread(blocks, SayCall)
    BY <1>2, <2>9, <2>10, JoinedAndCalls
  <3> QED BY <2>12, <3>1 DEF Saying
 <2>14. Joined(blocks) \o c \in Seq(ShowPart(who)) BY <2>10, <2>11, ConcatProperties
 <2> QED BY <2>13, <2>14
<1>4. CASE who \in {"openai", "gemini", "ollama"}
 <2>1. /\ who = "openai" => ParseResponse(who, blocks) = Response(Joined(blocks) \o calls)
       /\ who = "gemini" => ParseResponse(who, blocks) = Response(Joined(blocks) \o WithArgs(calls))
       /\ who = "ollama" => ParseResponse(who, blocks) = Response(Joined(blocks) \o WithArgs(calls))
   BY <1>4 DEF ParseResponse, openaiParseResponse, geminiParseResponse, ollamaParseResponse
 <2>2. who # "anthropic" BY <1>4
 <2> HIDE DEF calls
 <2>3. \E c \in {calls, WithArgs(calls)} : ParseResponse(who, blocks) = Response(Joined(blocks) \o c)
   BY <1>4, <2>1
 <2> QED BY <1>1, <1>3, <2>2, <2>3
<1>5. CASE who = "anthropic"
 <2> DEFINE read(b) ==
       CASE b.kind = "text" -> Joined(<<b>>)
         [] b.kind = "call" /\ b.name = outputFormatToolName ->
               <<Text(<< <<OrEmptyObject(b).args, 0>> >>)>>
         [] b.kind = "call" /\ b.name # outputFormatToolName -> <<OrEmptyObject(b)>>
         [] OTHER -> <<>>
 <2>1. ASSUME NEW b \in Sayable(who)
       PROVE  /\ read(b) \in Seq(ShowPart(who))
              /\ Spread(read(b), SayWord) = SayWord[b] /\ Spread(read(b), SayCall) = SayCall[b]
  <3>0. b \in Block BY SayableTypes
  <3>1. CASE b.kind = "text"
   <4>1. read(b) = Joined(<<b>>) BY <3>1
   <4>2. <<b>> \in Seq(Block) /\ <<b>> \in Seq(NativePart)
    <5>1. b \in NativePart BY SayableTypes, AnswerIsNative
    <5> QED BY <3>0, <5>1
   <4>3. Joined(<<b>>) \in Seq(ShowPart(who))
    <5>1. Joined(<<b>>) \in Seq(Spoken) BY <4>2, JoinedType
    <5> QED BY <5>1, SayableTypes
   <4>4. Spread(Joined(<<b>>), SayWord) = Spread(<<b>>, WordsOf)
         /\ Spread(Joined(<<b>>), SayCall) = <<>>
     BY <4>2, JoinedSays
   <4>5. Spread(<<b>>, WordsOf) = WordsOf[b] BY <3>0, SayTypes, SpreadOne
   <4>6. SayWord[b] = WordsOf[b] /\ SayCall[b] = <<>> BY <3>0, <3>1, SayTypes
   <4> HIDE DEF read
   <4> QED BY <4>1, <4>3, <4>4, <4>5, <4>6
  <3>2. CASE IsFormat(b)
   <4>1. b.kind = "call" /\ b.name = outputFormatToolName BY <3>2 DEF IsFormat
   <4>2. b \in ToolCallPart /\ b.args # "" BY <3>2, <4>1, SayableTypes DEF Sayable
   <4>3. OrEmptyObject(b).args = b.args /\ b.args \in Args BY <4>2, CallFacts DEF ToolCallPart
   <4> DEFINE t == << <<b.args, 0>> >>
   <4>4. read(b) = <<Text(t)>> BY <4>1, <4>3
   <4>5. <<b.args, 0>> \in Native /\ t \in Seq(Native) /\ t \in Seq(Atoms)
     BY <4>3, AtomTypes DEF Atoms
   <4>6. SayWord[b] = t /\ SayCall[b] = <<>> BY <3>0, <3>2, SayTypes
   <4>7. Spread(t, Own) = t BY <4>5, OwnType
   <4> HIDE DEF t, read
   <4>8. Text(t) \in Spoken /\ Text(t) \in Block /\ Text(t).kind = "text" /\ Text(t).text = t
     BY <4>5, TextType, TextBlock
   <4>9. SayWord[Text(t)] = t /\ SayCall[Text(t)] = <<>> BY <4>7, <4>8, SayTypes DEF WordsOf
   <4>10. Spread(<<Text(t)>>, SayWord) = SayWord[Text(t)] BY <4>8, SayTypes, SpreadOne
   <4>11. Spread(<<Text(t)>>, SayCall) = SayCall[Text(t)] BY <4>8, SayTypes, SpreadOne
   <4>12. <<Text(t)>> \in Seq(ShowPart(who))
    <5>1. Text(t) \in ShowPart(who) BY <4>8, SayableTypes
    <5> QED BY <5>1
   <4> QED BY <4>4, <4>6, <4>9, <4>10, <4>11, <4>12
  <3>3. CASE b.kind = "call" /\ ~IsFormat(b)
   <4>1. b.name # outputFormatToolName BY <3>3 DEF IsFormat
   <4>2. read(b) = <<OrEmptyObject(b)>> BY <3>3, <4>1
   <4> DEFINE q == OrEmptyObject(b)
   <4>3. b \in ToolCallPart /\ q \in ShowPart(who) /\ q \in Block BY <3>3, SayableTypes
   <4>4. q.kind = "call" /\ ~IsFormat(q) /\ OrEmptyObject(q) = q BY <3>3, <4>3, CallFacts
   <4>5. SayWord[b] = <<>> /\ SayCall[b] = <<q>> BY <3>0, <3>3, SayTypes
   <4> HIDE DEF q, read
   <4>6. SayWord[q] = <<>> /\ SayCall[q] = <<q>> BY <4>3, <4>4, SayTypes
   <4>7. Spread(<<q>>, SayWord) = SayWord[q] BY <4>3, SayTypes, SpreadOne
   <4>8. Spread(<<q>>, SayCall) = SayCall[q] BY <4>3, SayTypes, SpreadOne
   <4>9. <<q>> \in Seq(ShowPart(who)) BY <4>3
   <4>10. read(b) = <<q>> BY <4>2 DEF q
   <4> QED BY <4>5, <4>6, <4>7, <4>8, <4>9, <4>10
  <3>4. CASE b.kind # "text" /\ b.kind # "call"
   <4>1. read(b) = <<>> BY <3>4
   <4>2. ~IsFormat(b) BY <3>4 DEF IsFormat
   <4>3. SayWord[b] = <<>> /\ SayCall[b] = <<>> BY <3>0, <3>4, <4>2, SayTypes
   <4> HIDE DEF read
   <4> QED BY <4>1, <4>3, SpreadEmpty
  <3>5. IsFormat(b) => b.kind = "call" BY DEF IsFormat
  <3> HIDE DEF read
  <3> QED BY <3>1, <3>2, <3>3, <3>4, <3>5
 <2> DEFINE g == [b \in Sayable(who) |-> read(b)]
            out == FlattenSeq([i \in DOMAIN blocks |-> read(blocks[i])])
 <2>2. ParseResponse(who, blocks) = Response(out) BY <1>5 DEF ParseResponse, anthropicParseResponse
 <2> HIDE DEF read
 <2>3. out = Spread(blocks, g)
  <3>1. \A i \in DOMAIN blocks : blocks[i] \in Sayable(who) OBVIOUS
  <3>2. [i \in DOMAIN blocks |-> read(blocks[i])] = [i \in DOMAIN blocks |-> g[blocks[i]]] BY <3>1
  <3> HIDE DEF g
  <3> QED BY <3>2 DEF Spread
 <2>4. g \in Maps(Sayable(who), ShowPart(who)) /\ g \in Maps(Sayable(who), Block)
  <3>1. \A b \in Sayable(who) : read(b) \in Seq(ShowPart(who)) /\ read(b) \in Seq(Block)
    BY <2>1, SayableTypes
  <3> QED BY <3>1 DEF Maps
 <2>5. /\ Composed(Sayable(who), g, SayWord, SayWord)
       /\ Composed(Sayable(who), g, SayCall, SayCall)
   BY <2>1 DEF Composed
 <2> HIDE DEF g, out
 <2>6. out \in Seq(ShowPart(who)) BY <2>3, <2>4, SpreadType
 <2>7. Spread(Spread(blocks, g), SayWord) = Spread(blocks, SayWord)
   BY <2>4, <2>5, SayTypes, SpreadTwice
 <2>8. Spread(Spread(blocks, g), SayCall) = Spread(blocks, SayCall)
   BY <2>4, <2>5, SayTypes, SpreadTwice
 <2>9. ParseResponse(who, blocks).out = out BY <1>1, <2>2
 <2> QED BY <2>3, <2>6, <2>7, <2>8, <2>9 DEF Saying
<1> QED BY <1>4, <1>5 DEF Providers

----------------------------------------
\* What an answer that stays in the conversation is translated to.
Show(who) == ShowPart(who) \cup {Mark}
OpenCall  == {p \in ToolCallPart : ~IsFormat(p)}

LEMMA ShowTypes ==
    ASSUME NEW who
    PROVE  /\ Show(who) \subseteq Block /\ Show(who) \subseteq HeapPart
           /\ \A p \in Show(who) : /\ p.cache = "unset" /\ ~IsFormat(p) /\ Plain(p) = p
                                   /\ p.kind = "text" \/ p.kind = "call"
                                   /\ p.kind = "text" => p \in TextPart(Atoms)
                                   /\ p.kind = "call" => /\ p \in OpenCall
                                                         /\ p \in CallOf(who)
                                                         /\ who = "gemini" => p.id = NoId
           /\ OpenCall \subseteq Block
           /\ \A p \in OpenCall : p.kind = "call" /\ ~IsFormat(p)
<1>1. Mark \in HeapPart /\ Mark.kind = "text" /\ Mark.cache = "unset" BY DEF Mark, Text, HeapPart
<1>2. ShowPart(who) \subseteq HeapPart BY SayableTypes, AnswerIsNative DEF HeapPart
<1>3. Show(who) \subseteq HeapPart /\ Show(who) \subseteq Block
  BY <1>1, <1>2, NativeIsBlock DEF Show
<1>4. \A p \in CallOf(who) : p \in ToolCallPart /\ p.cache = "unset" /\ p.kind = "call"
  BY DEF CallOf, ToolCallPart
<1>5. \A p \in Spoken : p.cache = "unset" /\ p.kind = "text" BY DEF Spoken, TextPart
<1>6. \A p : IsFormat(p) => p.kind = "call" BY DEF IsFormat
<1>7. OpenCall \subseteq Block /\ \A p \in OpenCall : p.kind = "call" /\ ~IsFormat(p)
  BY CallFacts DEF OpenCall
<1> SUFFICES ASSUME NEW p \in Show(who)
             PROVE  /\ p.cache = "unset" /\ ~IsFormat(p) /\ Plain(p) = p
                    /\ p.kind = "text" \/ p.kind = "call"
                    /\ p.kind = "text" => p \in TextPart(Atoms)
                    /\ p.kind = "call" => /\ p \in OpenCall
                                          /\ p \in CallOf(who)
                                          /\ who = "gemini" => p.id = NoId
  BY <1>3, <1>7
<1>8. p \in Spoken \/ p = Mark \/ (p \in CallOf(who) /\ ~IsFormat(p) /\ (who = "gemini" => p.id = NoId))
  BY <1>4 DEF Show, ShowPart, AnswerPart
<1>9. p.cache = "unset" /\ ~IsFormat(p) /\ (p.kind = "text" \/ p.kind = "call")
  BY <1>1, <1>4, <1>5, <1>6, <1>8
<1>10. p.kind = "text" => p \in TextPart(Atoms) BY <1>3, BlockKinds
<1>11. p.kind = "call" => p \in ToolCallPart /\ p \in CallOf(who) /\ (who = "gemini" => p.id = NoId)
  BY <1>1, <1>4, <1>5, <1>8
<1>12. Plain(p) = p
 <2>1. CASE p.kind = "text"
  <3>1. p \in TextPart(Atoms) BY <1>10, <2>1
  <3> QED BY <1>9, <3>1 DEF TextPart, Plain
 <2>2. CASE p.kind = "call"
  <3>1. p \in ToolCallPart BY <1>11, <2>2
  <3> QED BY <1>9, <3>1 DEF ToolCallPart, Plain
 <2> QED BY <1>9, <2>1, <2>2
<1> QED BY <1>9, <1>10, <1>11, <1>12 DEF OpenCall

\* Part by part.
LEMMA ShownParts ==
    ASSUME NEW who, NEW p \in Show(who)
    PROVE  /\ assistantBlock(p, "unset").err = "none" => assistantBlock(p, "unset").out = <<p>>
           /\ openaiAssistantCall(p).err = "none" =>
                 openaiAssistantCall(p).out = IF p.kind = "call" THEN <<p>> ELSE <<>>
           /\ who = "gemini" /\ geminiAssistantPart(p).err = "none" =>
                 geminiAssistantPart(p).out
                    = IF p.kind = "call" THEN <<OrEmptyObject(p)>> ELSE <<p>>
           /\ p.kind = "call" /\ ollamaToolCall(p).err = "none" => ollamaToolCall(p).out = <<p>>
<1>1. /\ p.cache = "unset" /\ Plain(p) = p /\ (p.kind = "text" \/ p.kind = "call")
      /\ [p EXCEPT !.cache = "unset"] = p
  BY ShowTypes DEF Plain
<1>2. \A o : Ok(o).out = o BY DEF Ok
<1>3. Unsupported.err # "none" /\ Fail("ErrMalformedArgs").err # "none" /\ Fail("cache_control.type").err # "none"
  BY DEF Unsupported, Fail
<1>4. assistantBlock(p, "unset").err = "none" => assistantBlock(p, "unset").out = <<p>>
 <2>1. applyCacheControl(p, "unset") = Ok(<<p>>) BY <1>1 DEF applyCacheControl
 <2>2. resolveCacheControl("unset", p.cache) = "unset" BY <1>1 DEF resolveCacheControl
 <2> QED BY <1>1, <1>2, <1>3, <2>1, <2>2 DEF assistantBlock
<1>5. openaiAssistantCall(p).err = "none" =>
        openaiAssistantCall(p).out = IF p.kind = "call" THEN <<p>> ELSE <<>>
  BY <1>1, <1>2, <1>3 DEF openaiAssistantCall
<1>6. who = "gemini" /\ geminiAssistantPart(p).err = "none" =>
        geminiAssistantPart(p).out = IF p.kind = "call" THEN <<OrEmptyObject(p)>> ELSE <<p>>
 <2>1. CASE p.kind = "text" BY <1>1, <1>2, <2>1 DEF geminiAssistantPart
 <2>2. CASE p.kind = "call" /\ who = "gemini"
  <3>1. p \in ToolCallPart /\ p.id = NoId /\ p.args \in Args
    BY <2>2, ShowTypes DEF OpenCall, ToolCallPart
  <3>2. FunctionCall(p) = OrEmptyObject(p)
    BY <1>1, <3>1 DEF FunctionCall, OrEmptyObject, ToolCallPart
  <3>3. CASE p.args \in {"", "{}", "object"}
   <4>1. geminiAssistantPart(p) = Ok(<<FunctionCall(p)>>) BY <2>2, <3>3 DEF geminiAssistantPart
   <4> QED BY <1>2, <2>2, <3>2, <4>1
  <3>4. CASE p.args \in {"array", "malformed"}
   <4>1. geminiAssistantPart(p) = Fail("ErrMalformedArgs") BY <2>2, <3>4 DEF geminiAssistantPart
   <4> QED BY <1>3, <4>1
  <3> QED BY <3>1, <3>3, <3>4 DEF Args
 <2> QED BY <1>1, <2>1, <2>2
<1>7. p.kind = "call" /\ ollamaToolCall(p).err = "none" => ollamaToolCall(p).out = <<p>>
  BY <1>1, <1>2, <1>3 DEF ollamaToolCall
<1> QED BY <1>4, <1>5, <1>6, <1>7

LEMMA WrapIs ==
    ASSUME NEW role, NEW r, Wrap(role, r).err = "none"
    PROVE  r.err = "none" /\ Wrap(role, r).out = <<[role |-> role, content |-> r.out]>>
  BY WrapErr DEF Wrap, Ok

\* A loop over the parts, each of which becomes one that says the same.
SaysAs(r, p) ==
    r.err = "none" => /\ r.out \in Seq(Block)
                      /\ Spread(r.out, SayWord) = SayWord[p] /\ Spread(r.out, SayCall) = SayCall[p]

LEMMA EachSays ==
    ASSUME NEW s \in Seq(Block), NEW results, DOMAIN results = DOMAIN s, Len(results) = Len(s),
           \A i \in DOMAIN s : SaysAs(results[i], s[i]), Collect(results).err = "none"
    PROVE  Collect(results).out \in Seq(Block) /\ Saying(Collect(results).out) = Saying(s)
<1>1. /\ Given(results, s, Block, SayWord, SayWord) /\ Given(results, s, Block, SayCall, SayCall)
  BY DEF Given, SaysAs
<1>2. /\ Collect(results).out \in Seq(Block)
      /\ Spread(Collect(results).out, SayWord) = Spread(s, SayWord)
  BY <1>1, SayTypes, CollectSpread
<1>3. Spread(Collect(results).out, SayCall) = Spread(s, SayCall) BY <1>1, SayTypes, CollectSpread
<1> QED BY <1>2, <1>3 DEF Saying

LEMMA OneSays ==
    ASSUME NEW p \in Block, NEW q \in Block, SayWord[q] = SayWord[p], SayCall[q] = SayCall[p],
           NEW r, r.out = <<q>>
    PROVE  SaysAs(r, p)
<1>1. Spread(<<q>>, SayWord) = SayWord[q] BY SayTypes, SpreadOne
<1>2. Spread(<<q>>, SayCall) = SayCall[q] BY SayTypes, SpreadOne
<1>3. <<q>> \in Seq(Block) OBVIOUS
<1> QED BY <1>1, <1>2, <1>3 DEF SaysAs

\* The text in one piece, and the calls that a loop makes of the calls.
LEMMA JoinedAndEach ==
    ASSUME NEW who, NEW c \in Seq(Show(who)), NEW s \in Seq(Show(who)),
           Spread(s, SayCall) = Spread(c, SayCall), NEW results,
           DOMAIN results = DOMAIN s, Len(results) = Len(s),
           \A i \in DOMAIN s : results[i].err = "none" =>
               results[i].out = IF s[i].kind = "call" THEN <<s[i]>> ELSE <<>>,
           Collect(results).err = "none"
    PROVE  /\ Joined(c) \o Collect(results).out \in Seq(Block)
           /\ Saying(Joined(c) \o Collect(results).out) = Saying(c)
<1>1. c \in Seq(Block) /\ s \in Seq(Block) BY ShowTypes
<1>2. \A i \in DOMAIN s : s[i] \in Show(who) OBVIOUS
<1>3. ASSUME NEW i \in DOMAIN s, results[i].err = "none"
      PROVE  results[i].out \in Seq(OpenCall) /\ Spread(results[i].out, SayCall) = SayCall[s[i]]
 <2> DEFINE p == s[i]
 <2>1. p \in Show(who) /\ p \in Block /\ results[i].out = IF p.kind = "call" THEN <<p>> ELSE <<>>
   BY <1>2, <1>3, ShowTypes
 <2> HIDE DEF p
 <2>2. CASE p.kind = "call"
  <3>1. p \in OpenCall /\ results[i].out = <<p>> BY <2>1, <2>2, ShowTypes
  <3>2. Spread(<<p>>, SayCall) = SayCall[p] BY <2>1, SayTypes, SpreadOne
  <3> QED BY <3>1, <3>2 DEF p
 <2>3. CASE p.kind # "call"
  <3>1. results[i].out = <<>> /\ SayCall[p] = <<>> BY <2>1, <2>3, SayTypes
  <3> QED BY <3>1, SpreadEmpty DEF p
 <2> QED BY <2>2, <2>3
<1>5. Given(results, s, Block, SayCall, SayCall)
 <2>1. Seq(OpenCall) \subseteq Seq(Block) BY ShowTypes
 <2> QED BY <1>3, <2>1 DEF Given
<1> DEFINE out == Collect(results).out
<1>6. /\ \A i \in DOMAIN s : results[i].err = "none"
      /\ out \in Seq(Block) /\ Spread(out, SayCall) = Spread(s, SayCall)
  BY <1>1, <1>5, SayTypes, CollectSpread
<1>7. out \in Seq(OpenCall)
 <2>1. DOMAIN results = 1..Len(s) /\ Len(s) \in Nat OBVIOUS
 <2>2. \A i \in 1..Len(s) : results[i].err = "none" => results[i].out \in Seq(OpenCall) BY <1>3
 <2> QED BY <2>1, <2>2, CollectType
<1> HIDE DEF out
<1>8. \A i \in 1..Len(out) : out[i].kind = "call" /\ ~IsFormat(out[i])
 <2>1. \A i \in 1..Len(out) : out[i] \in OpenCall BY <1>7, ElementOfSeq
 <2> QED BY <2>1, ShowTypes
<1>9. /\ Spread(Joined(c) \o out, SayWord) = Spread(c, WordsOf)
      /\ Spread(Joined(c) \o out, SayCall) = Spread(c, SayCall)
  BY <1>1, <1>6, <1>8, JoinedAndCalls
<1>10. Spread(c, WordsOf) = Spread(c, SayWord) BY ShowTypes, WordsAreSaid
<1>11. Joined(c) \o out \in Seq(Block) BY <1>1, <1>6, JoinedSays, ConcatProperties
<1> QED BY <1>9, <1>10, <1>11 DEF Saying, out

LEMMA EmptyTextSays ==
    ASSUME NEW b \in Seq(Block)
    PROVE  OrEmptyText(b) \in Seq(Block) /\ Saying(OrEmptyText(b)) = Saying(b)
<1> DEFINE t == Text(<<>>)
<1>1. t \in Block /\ t.kind = "text" /\ t.text = <<>>
 <2>1. <<>> \in Seq(Atoms) OBVIOUS
 <2> QED BY <2>1, TextBlock
<1>2. SayWord[t] = <<>> /\ SayCall[t] = <<>> BY <1>1, SayTypes, SpreadEmpty DEF WordsOf
<1> HIDE DEF t
<1>3. Spread(<<t>>, SayWord) = <<>> BY <1>1, <1>2, SayTypes, SpreadOne
<1>4. Spread(<<t>>, SayCall) = <<>> BY <1>1, <1>2, SayTypes, SpreadOne
<1>5. Saying(<<t>>) = Saying(<<>>) BY <1>3, <1>4, SpreadEmpty DEF Saying
<1>6. <<t>> \in Seq(Block) BY <1>1
<1>7. OrEmptyText(b) = IF b = <<>> THEN <<t>> ELSE b BY DEF OrEmptyText, t
<1> QED BY <1>5, <1>6, <1>7

LEMMA AnswerShown ==
    ASSUME NEW who \in Providers, NEW m \in HeapMessage, m.role = "assistant", m.cache = "unset",
           m.content \in Seq(Show(who)), MessageOf(who, m).err = "none"
    PROVE  \E c \in Seq(Block) : /\ MessageOf(who, m).out = <<[role |-> "assistant", content |-> c]>>
                                 /\ Saying(c) = Saying(m.content)
<1> DEFINE c == m.content
<1>1. c \in Seq(Show(who)) /\ c \in Seq(Block) /\ DOMAIN c = 1..Len(c)
      /\ \A i \in DOMAIN c : c[i] \in Show(who) /\ c[i] \in Block
 <2>1. Show(who) \subseteq Block BY ShowTypes
 <2> QED BY <2>1
<1>2. ASSUME NEW r, MessageOf(who, m) = Wrap("assistant", r),
             r.err = "none" => r.out \in Seq(Block) /\ Saying(r.out) = Saying(c)
      PROVE  \E d \in Seq(Block) : /\ MessageOf(who, m).out = <<[role |-> "assistant", content |-> d]>>
                                   /\ Saying(d) = Saying(c)
 <2>1. r.err = "none" /\ MessageOf(who, m).out = <<[role |-> "assistant", content |-> r.out]>>
   BY <1>2, WrapIs
 <2> QED BY <1>2, <2>1
<1>3. Unsupported.err # "none" /\ \A o : Ok(o).err = "none" /\ Ok(o).out = o
  BY DEF Unsupported, Fail, Ok
<1>4. CASE who = "anthropic"
 <2> DEFINE blocks == [i \in DOMAIN c |-> assistantBlock(c[i], "unset")]
            q == Collect(blocks)
 <2>1. MessageOf(who, m) = Wrap("assistant", q)
   BY <1>4, RolesApart DEF MessageOf, anthropicMessage, anthropicAssistantMessage, Each
 <2>2. DOMAIN blocks = DOMAIN c /\ Len(blocks) = Len(c) BY <1>1
 <2>3. \A i \in DOMAIN c : SaysAs(blocks[i], c[i])
  <3> SUFFICES ASSUME NEW i \in DOMAIN c PROVE SaysAs(blocks[i], c[i]) OBVIOUS
  <3>1. blocks[i].err = "none" => blocks[i].out = <<c[i]>> BY <1>1, ShownParts
  <3> HIDE DEF blocks
  <3>2. CASE blocks[i].err = "none" BY <1>1, <3>1, <3>2, OneSays
  <3>3. CASE blocks[i].err # "none" BY <3>3 DEF SaysAs
  <3> QED BY <3>2, <3>3
 <2> HIDE DEF blocks
 <2>4. q.err = "none" => q.out \in Seq(Block) /\ Saying(q.out) = Saying(c)
   BY <1>1, <2>2, <2>3, EachSays
 <2> HIDE DEF q
 <2> QED BY <1>2, <2>1, <2>4
<1>5. CASE who = "openai"
 <2> DEFINE calls == [i \in DOMAIN c |-> openaiAssistantCall(c[i])]
            q == Collect(calls)
            r == IF q.err = "none" THEN Ok(Joined(c) \o q.out) ELSE q
 <2>1. MessageOf(who, m) = Wrap("assistant", r)
   BY <1>5, RolesApart DEF MessageOf, messageToUnions, openaiAssistantMessage, Each
 <2>2. DOMAIN calls = DOMAIN c /\ Len(calls) = Len(c) BY <1>1
 <2>3. \A i \in DOMAIN c : calls[i].err = "none" =>
           calls[i].out = IF c[i].kind = "call" THEN <<c[i]>> ELSE <<>>
   BY <1>1, ShownParts
 <2> HIDE DEF calls
 <2>4. q.err = "none" => /\ Joined(c) \o q.out \in Seq(Block)
                         /\ Saying(Joined(c) \o q.out) = Saying(c)
   BY <1>1, <2>2, <2>3, JoinedAndEach
 <2> HIDE DEF q
 <2>5. r.err = "none" => r.out \in Seq(Block) /\ Saying(r.out) = Saying(c) BY <1>3, <2>4
 <2> HIDE DEF r
 <2> QED BY <1>2, <2>1, <2>5
<1>6. CASE who = "gemini"
 <2> DEFINE parts == [i \in DOMAIN c |-> geminiAssistantPart(c[i])]
            q == Collect(parts)
            r == [q EXCEPT !.out = OrEmptyText(@)]
 <2>1. MessageOf(who, m) = Wrap("assistant", r)
   BY <1>6, RolesApart DEF MessageOf, geminiMessage, assistantContent, Content, Each
 <2>2. DOMAIN parts = DOMAIN c /\ Len(parts) = Len(c) BY <1>1
 <2>3. \A i \in DOMAIN c : SaysAs(parts[i], c[i])
  <3> SUFFICES ASSUME NEW i \in DOMAIN c PROVE SaysAs(parts[i], c[i]) OBVIOUS
  <3> DEFINE p == c[i]
  <3>1. parts[i].err = "none" =>
            parts[i].out = IF p.kind = "call" THEN <<OrEmptyObject(p)>> ELSE <<p>>
    BY <1>1, <1>6, ShownParts
  <3>2. p \in Show(who) /\ p \in Block BY <1>1
  <3> HIDE DEF parts, p
  <3>3. CASE parts[i].err = "none" /\ p.kind = "call"
   <4> DEFINE o == OrEmptyObject(p)
   <4>1. p \in OpenCall /\ p \in ToolCallPart /\ ~IsFormat(p)
     BY <3>2, <3>3, ShowTypes DEF OpenCall
   <4>2. o \in Block /\ o.kind = "call" /\ ~IsFormat(o) /\ OrEmptyObject(o) = o
     BY <4>1, CallFacts
   <4>3. SayCall[p] = <<o>> /\ SayWord[p] = <<>> BY <3>2, <3>3, <4>1, SayTypes
   <4>4. parts[i].out = <<o>> BY <3>1, <3>3
   <4> HIDE DEF o
   <4>5. SayCall[o] = <<o>> /\ SayWord[o] = <<>> BY <4>2, SayTypes
   <4>6. SaysAs(parts[i], p) BY <3>2, <4>2, <4>3, <4>4, <4>5, OneSays
   <4> QED BY <4>6 DEF p
  <3>4. CASE parts[i].err = "none" /\ p.kind # "call"
   <4>1. SaysAs(parts[i], p) BY <3>1, <3>2, <3>4, OneSays
   <4> QED BY <4>1 DEF p
  <3>5. CASE parts[i].err # "none" BY <3>5 DEF SaysAs
  <3> QED BY <3>3, <3>4, <3>5
 <2>4. \A i \in 1..Len(c) : IsReply(parts[i]) BY <1>1, GeminiParts
 <2> HIDE DEF parts
 <2>5. q.err = "none" => q.out \in Seq(Block) /\ Saying(q.out) = Saying(c)
   BY <1>1, <2>2, <2>3, EachSays
 <2>6. IsReply(q)
  <3>1. Len(c) \in Nat /\ DOMAIN parts = 1..Len(c) /\ Len(parts) = Len(c) BY <1>1, <2>2
  <3> QED BY <2>4, <3>1, CollectReply
 <2> HIDE DEF q
 <2>7. r.err = q.err /\ r.out = OrEmptyText(q.out)
  <3> DEFINE e == q.err
             o == q.out
  <3>1. q = [err |-> e, out |-> o] BY <2>6 DEF IsReply
  <3> HIDE DEF e, o
  <3>2. r = [err |-> e, out |-> OrEmptyText(o)] BY <3>1
  <3> QED BY <3>2 DEF e, o
 <2>8. r.err = "none" => r.out \in Seq(Block) /\ Saying(r.out) = Saying(c)
  <3> HIDE DEF r
  <3> QED BY <2>5, <2>7, EmptyTextSays
 <2> HIDE DEF r
 <2> QED BY <1>2, <2>1, <2>8
<1>7. CASE who = "ollama"
 <2> DEFINE s == Kind(c, "call")
            calls == [i \in DOMAIN s |-> ollamaToolCall(s[i])]
            q == Collect(calls)
            r == IF q.err = "none" THEN Ok(Joined(c) \o q.out) ELSE q
 <2>1. MessageOf(who, m) = Wrap("assistant", r)
  <3>1. ~(m.role # "user" /\ m.role \in Roles /\ HasMedia(m.content))
   <4>1. MessageOf(who, m) = translateMessage(m) BY <1>7 DEF MessageOf
   <4>2. m.role # "user" /\ m.role \in Roles /\ HasMedia(m.content) => translateMessage(m) = Unsupported
     BY DEF translateMessage
   <4> QED BY <1>3, <4>1, <4>2
  <3>2. MessageOf(who, m) = ollamaPassingOver("assistant", m, q)
    BY <1>7, <3>1, RolesApart DEF MessageOf, translateMessage, Each
  <3> QED BY <3>2 DEF ollamaPassingOver
 <2>2. s \in Seq(OfKind(Show(who), "call")) BY <1>1, KindType
 <2>3. Spread(s, SayCall) = Spread(c, SayCall) BY <1>1, KindCalls
 <2>4. OfKind(Show(who), "call") \subseteq Show(who) /\ \A p \in OfKind(Show(who), "call") : p.kind = "call"
   BY DEF OfKind
 <2> HIDE DEF s
 <2>5. s \in Seq(Show(who)) /\ DOMAIN calls = DOMAIN s /\ Len(calls) = Len(s) BY <2>2, <2>4
 <2>6. \A i \in DOMAIN s : s[i] \in Show(who) /\ s[i].kind = "call" BY <2>2, <2>4
 <2>7. \A i \in DOMAIN s : calls[i].err = "none" =>
           calls[i].out = IF s[i].kind = "call" THEN <<s[i]>> ELSE <<>>
   BY <2>6, ShownParts
 <2> HIDE DEF calls
 <2>8. q.err = "none" => /\ Joined(c) \o q.out \in Seq(Block)
                         /\ Saying(Joined(c) \o q.out) = Saying(c)
   BY <1>1, <2>3, <2>5, <2>7, JoinedAndEach
 <2> HIDE DEF q
 <2>9. r.err = "none" => r.out \in Seq(Block) /\ Saying(r.out) = Saying(c) BY <1>3, <2>8
 <2> HIDE DEF r
 <2> QED BY <1>2, <2>1, <2>9
<1> QED BY <1>4, <1>5, <1>6, <1>7 DEF Providers

\* What the messages of each role become: one message, or tool messages.
ShownRole(who, role) ==
    CASE role \in SystemRoles -> "system"
      [] role = "tool" /\ who \in {"openai", "ollama"} -> "tool"
      [] role = "tool" /\ who \notin {"openai", "ollama"} -> "user"
      [] OTHER -> role

\* Each result is a message of its own.
EachItsOwn(results) ==
    [i \in DOMAIN results |->
        [role |-> "tool", content |-> <<[results[i] EXCEPT !.name = ""]>>]]

LEMMA MessageShape ==
    ASSUME NEW who \in Providers, NEW m, MessageOf(who, m).err = "none"
    PROVE  /\ m.role \in Roles
           /\ ~(m.role = "tool" /\ who \in {"openai", "ollama"}) =>
                 \E c : MessageOf(who, m).out = <<[role |-> ShownRole(who, m.role), content |-> c]>>
           /\ m.role = "tool" /\ who \in {"openai", "ollama"} =>
                 /\ ToolResults(m, TextResult).err = "none"
                 /\ MessageOf(who, m).out = EachItsOwn(ToolResults(m, TextResult).out)
<1>1. m.role \in Roles
 <2>1. m.role \notin Roles => MessageOf(who, m).err # "none"
   BY RefusedMessages DEF MessageOf, Providers
 <2> QED BY <2>1
<1>2. Unsupported.err # "none" BY DEF Unsupported, Fail
<1>3. who = "ollama" => ~(m.role # "user" /\ m.role \in Roles /\ HasMedia(m.content))
 <2>1. m.role # "user" /\ m.role \in Roles /\ HasMedia(m.content) => translateMessage(m) = Unsupported
   BY DEF translateMessage
 <2> QED BY <1>2, <2>1 DEF MessageOf
<1>4. ASSUME ~(m.role = "tool" /\ who \in {"openai", "ollama"})
      PROVE  \E r : MessageOf(who, m) = Wrap(ShownRole(who, m.role), r)
 <2>1. CASE m.role \in SystemRoles
  <3>1. ShownRole(who, m.role) = "system" BY <2>1, RolesApart DEF ShownRole
  <3>2. /\ who = "openai" => \E r : MessageOf(who, m) = Wrap("system", r)
        /\ who = "anthropic" => \E r : MessageOf(who, m) = Wrap("system", r)
        /\ who = "gemini" => \E r : MessageOf(who, m) = Wrap("system", r)
    BY <2>1, RolesApart DEF MessageOf, messageToUnions, anthropicMessage, geminiMessage
  <3>3. who = "ollama" => MessageOf(who, m) = ollamaPassingOver("system", m, Ok(<<>>))
    BY <1>3, <2>1, RolesApart DEF MessageOf, translateMessage
  <3>4. who = "ollama" => \E r : MessageOf(who, m) = Wrap("system", r)
    BY <3>3 DEF ollamaPassingOver
  <3> QED BY <3>1, <3>2, <3>4 DEF Providers
 <2>2. CASE m.role = "user"
  <3>1. ShownRole(who, m.role) = "user" /\ m.role \notin SystemRoles
    BY <2>2, RolesApart DEF ShownRole
  <3>2. /\ who = "openai" => \E r : MessageOf(who, m) = Wrap("user", r)
        /\ who = "anthropic" => \E r : MessageOf(who, m) = Wrap("user", r)
    BY <2>2, <3>1 DEF MessageOf, messageToUnions, anthropicMessage, openaiUserMessage, anthropicUserMessage
  <3>3. who = "gemini" => \E r : MessageOf(who, m) = Wrap("user", r)
    BY <2>2, <3>1 DEF MessageOf, geminiMessage, userContent, Content
  <3>4. who = "ollama" => \E b : MessageOf(who, m) = ollamaPassingOver("user", m, b)
    BY <1>3, <2>2, <3>1 DEF MessageOf, translateMessage
  <3>5. who = "ollama" => \E r : MessageOf(who, m) = Wrap("user", r) BY <3>4 DEF ollamaPassingOver
  <3> QED BY <3>1, <3>2, <3>3, <3>5 DEF Providers
 <2>3. CASE m.role = "assistant"
  <3>1. ShownRole(who, m.role) = "assistant" /\ m.role \notin SystemRoles
    BY <2>3, RolesApart DEF ShownRole
  <3>2. /\ who = "openai" => \E r : MessageOf(who, m) = Wrap("assistant", r)
        /\ who = "anthropic" => \E r : MessageOf(who, m) = Wrap("assistant", r)
    BY <2>3, <3>1 DEF MessageOf, messageToUnions, anthropicMessage, openaiAssistantMessage,
                      anthropicAssistantMessage
  <3>3. who = "gemini" => \E r : MessageOf(who, m) = Wrap("assistant", r)
    BY <2>3, <3>1 DEF MessageOf, geminiMessage, assistantContent, Content
  <3>4. who = "ollama" => \E b : MessageOf(who, m) = ollamaPassingOver("assistant", m, b)
    BY <1>3, <2>3, <3>1 DEF MessageOf, translateMessage
  <3>5. who = "ollama" => \E r : MessageOf(who, m) = Wrap("assistant", r)
    BY <3>4 DEF ollamaPassingOver
  <3> QED BY <3>1, <3>2, <3>3, <3>5 DEF Providers
 <2>4. CASE m.role = "tool"
  <3>1. who \in {"anthropic", "gemini"} BY <1>4, <2>4 DEF Providers
  <3>2. ShownRole(who, m.role) = "user" /\ m.role \notin SystemRoles
    BY <2>4, <3>1, RolesApart DEF ShownRole
  <3>3. /\ who = "anthropic" => \E r : MessageOf(who, m) = Wrap("user", r)
        /\ who = "gemini" => \E r : MessageOf(who, m) = Wrap("user", r)
    BY <2>4, <3>2 DEF MessageOf, anthropicMessage, geminiMessage, toolResultMessage, toolResultContent
  <3> QED BY <3>1, <3>2, <3>3
 <2> QED BY <1>1, <2>1, <2>2, <2>3, <2>4, RolesApart
<1>5. ASSUME m.role = "tool", who \in {"openai", "ollama"}
      PROVE  /\ ToolResults(m, TextResult).err = "none"
             /\ MessageOf(who, m).out = EachItsOwn(ToolResults(m, TextResult).out)
 <2>1. MessageOf(who, m) = toolResultMessages(m)
   BY <1>3, <1>5, RolesApart DEF MessageOf, messageToUnions, translateMessage
 <2> DEFINE r == ToolResults(m, TextResult)
 <2>2. toolResultMessages(m) = IF r.err # "none" THEN r ELSE Ok(EachItsOwn(r.out))
   BY DEF toolResultMessages, EachItsOwn
 <2> HIDE DEF r
 <2>3. r.err = "none" /\ MessageOf(who, m).out = EachItsOwn(r.out) BY <2>1, <2>2 DEF Ok
 <2> QED BY <2>3 DEF r
<1>6. ASSUME ~(m.role = "tool" /\ who \in {"openai", "ollama"})
      PROVE  \E c : MessageOf(who, m).out = <<[role |-> ShownRole(who, m.role), content |-> c]>>
 <2>1. PICK r : MessageOf(who, m) = Wrap(ShownRole(who, m.role), r) BY <1>4, <1>6
 <2>2. MessageOf(who, m).out = <<[role |-> ShownRole(who, m.role), content |-> r.out]>>
   BY <2>1, WrapIs
 <2> QED BY <2>2
<1> QED BY <1>1, <1>5, <1>6

----------------------------------------
\* What the assistant says, message by message.
SaidIn(M) == [m \in M |-> IF IsAnswer(m) THEN <<Saying(m.content)>> ELSE <<>>]

\* A conversation whose answers are a provider's own, and one that others wrote on.
OwnTurn(who) ==
    {m \in NativeMessage : IsAnswer(m) => m.cache = "unset" /\ m.content \in Seq(ShowPart(who))}
Turn(who) ==
    {m \in HeapMessage : IsAnswer(m) => m.cache = "unset" /\ m.content \in Seq(Show(who))}

LEMMA SaidTypes ==
    /\ SaidIn(RequestMessage) \in Maps(RequestMessage, Sayings)
    /\ SaidIn(HeapMessage) \in Maps(HeapMessage, Sayings)
    /\ \A m \in HeapMessage : m \in BlockMessage /\ m.content \in Seq(Block)
    /\ \A m \in NativeMessage : m \in HeapMessage
<1>1. \A m \in RequestMessage : m.content \in Seq(Block) BY DEF RequestMessage
<1>2. \A m \in HeapMessage : m \in BlockMessage /\ m.content \in Seq(Block)
 <2> SUFFICES ASSUME NEW m \in HeapMessage PROVE m \in BlockMessage /\ m.content \in Seq(Block)
   OBVIOUS
 <2>1. <<m>> \in Seq(BlockMessage)
  <3>1. <<m>> \in Seq(HeapMessage) OBVIOUS
  <3> QED BY <3>1, HeapIsBlock
 <2>2. m \in BlockMessage BY <2>1
 <2> QED BY <2>2, MessageContent
<1>3. \A s \in Seq(Block) : <<Saying(s)>> \in Seq(Sayings)
 <2>1. \A s \in Seq(Block) : Saying(s) \in Sayings BY SayTypes
 <2> QED BY <2>1
<1>4. SaidIn(RequestMessage) \in Maps(RequestMessage, Sayings) BY <1>1, <1>3 DEF SaidIn, Maps
<1>5. SaidIn(HeapMessage) \in Maps(HeapMessage, Sayings) BY <1>2, <1>3 DEF SaidIn, Maps
<1> QED BY <1>2, <1>4, <1>5, NativeIsHeap

LEMMA ShownRoles ==
    ASSUME NEW who \in Providers, NEW role \in Roles, role # "assistant"
    PROVE  ShownRole(who, role) \in {"system", "user", "tool"}
<1>1. CASE role \in SystemRoles BY <1>1, RolesApart DEF ShownRole
<1>2. CASE role = "user"
 <2>1. "user" \notin SystemRoles BY RolesApart
 <2> QED BY <1>2, <2>1 DEF ShownRole
<1>3. CASE role = "tool"
 <2>1. "tool" \notin SystemRoles BY RolesApart
 <2> QED BY <1>3, <2>1 DEF ShownRole
<1> QED BY <1>1, <1>2, <1>3, RolesApart

\* A message of another role becomes no answer.
LEMMA OthersAreNoAnswers ==
    ASSUME NEW who \in Providers, NEW m, m.role # "assistant", MessageOf(who, m).err = "none",
           MessageOf(who, m).out \in Seq(RequestMessage)
    PROVE  \A i \in 1..Len(MessageOf(who, m).out) : ~IsAnswer(MessageOf(who, m).out[i])
<1>1. m.role \in Roles BY MessageShape
<1>2. CASE m.role = "tool" /\ who \in {"openai", "ollama"}
 <2> DEFINE q == ToolResults(m, TextResult).out
 <2>1. MessageOf(who, m).out = EachItsOwn(q) BY <1>2, MessageShape
 <2> HIDE DEF q
 <2>2. \A i \in DOMAIN EachItsOwn(q) : EachItsOwn(q)[i].role = "tool" BY DEF EachItsOwn
 <2>3. \A i \in 1..Len(MessageOf(who, m).out) : i \in DOMAIN MessageOf(who, m).out OBVIOUS
 <2> QED BY <2>1, <2>2, <2>3 DEF IsAnswer
<1>3. CASE ~(m.role = "tool" /\ who \in {"openai", "ollama"})
 <2>1. PICK c : MessageOf(who, m).out = <<[role |-> ShownRole(who, m.role), content |-> c]>>
   BY <1>3, MessageShape
 <2>2. ShownRole(who, m.role) # "assistant" BY <1>1, ShownRoles
 <2> QED BY <2>1, <2>2 DEF IsAnswer
<1> QED BY <1>2, <1>3

LEMMA TurnShown ==
    ASSUME provider \in Providers, NEW m \in Turn(provider), MessageOf(provider, m).err = "none"
    PROVE  /\ MessageOf(provider, m).out \in Seq(RequestMessage)
           /\ Spread(MessageOf(provider, m).out, SaidIn(RequestMessage)) = SaidIn(HeapMessage)[m]
<1> DEFINE out == MessageOf(provider, m).out
           f   == SaidIn(RequestMessage)
<1>1. m \in HeapMessage /\ m \in BlockMessage BY SaidTypes DEF Turn
<1>2. out \in Seq(RequestMessage) BY <1>1, MessageKept DEF Kept
<1>3. CASE IsAnswer(m)
 <2>1. m.role = "assistant" /\ m.cache = "unset" /\ m.content \in Seq(Show(provider))
   BY <1>3 DEF Turn, IsAnswer
 <2>2. PICK c \in Seq(Block) : /\ out = <<[role |-> "assistant", content |-> c]>>
                               /\ Saying(c) = Saying(m.content)
   BY <1>1, <2>1, AnswerShown
 <2> DEFINE x == [role |-> "assistant", content |-> c]
 <2>3. x \in RequestMessage
  <3>1. "assistant" \in Strings BY StringsAssumption DEF Roles
  <3> QED BY <3>1 DEF RequestMessage
 <2>4. f[x] = <<Saying(c)>> BY <2>3 DEF SaidIn, IsAnswer
 <2>5. out = <<x>> BY <2>2
 <2> HIDE DEF x, f, out
 <2>6. Spread(out, f) = f[x] BY <2>3, <2>5, SaidTypes, SpreadOne DEF f
 <2>7. SaidIn(HeapMessage)[m] = <<Saying(m.content)>> BY <1>1, <1>3 DEF SaidIn
 <2> QED BY <1>2, <2>2, <2>4, <2>6, <2>7 DEF f, out
<1>4. CASE ~IsAnswer(m)
 <2>1. SaidIn(HeapMessage)[m] = <<>> BY <1>1, <1>4 DEF SaidIn
 <2>2. m.role # "assistant" BY <1>4 DEF IsAnswer
 <2>3. \A i \in 1..Len(out) : ~IsAnswer(out[i]) BY <1>2, <2>2, OthersAreNoAnswers
 <2> HIDE DEF out
 <2>4. \A i \in 1..Len(out) : f[out[i]] = <<>>
  <3>1. \A i \in 1..Len(out) : out[i] \in RequestMessage BY <1>2, ElementOfSeq
  <3> QED BY <2>3, <3>1 DEF SaidIn
 <2> HIDE DEF f
 <2>5. Spread(out, f) = <<>> BY <1>2, <2>4, SpreadNothing
 <2> QED BY <1>2, <2>1, <2>5 DEF f, out
<1> QED BY <1>3, <1>4

LEMMA TurnsShown ==
    ASSUME provider \in Providers, NEW s \in Seq(Turn(provider)), Translated(s).err = "none"
    PROVE  /\ Translated(s).out \in Seq(RequestMessage)
           /\ Spread(Translated(s).out, SaidIn(RequestMessage)) = Spread(s, SaidIn(HeapMessage))
<1> DEFINE results == [j \in DOMAIN s |-> MessageOf(provider, s[j])]
           f == SaidIn(RequestMessage)
           g == SaidIn(HeapMessage)
<1>1. /\ DOMAIN results = DOMAIN s /\ Len(results) = Len(s)
      /\ \A j \in DOMAIN s : s[j] \in Turn(provider)
  OBVIOUS
<1>2. Given(results, s, RequestMessage, f, g) BY <1>1, TurnShown DEF Given
<1>3. Translated(s) = Collect(results) BY DEF Translated
<1> HIDE DEF results
<1>4. f \in Maps(RequestMessage, Sayings) BY SaidTypes
<1> HIDE DEF f, g
<1> QED BY <1>1, <1>2, <1>3, <1>4, CollectSpread DEF f, g

LEMMA SystemSaysNothing ==
    ASSUME NEW s \in Seq(RequestMessage)
    PROVE  /\ NotSystem(s) \in Seq(RequestMessage)
           /\ Spread(NotSystem(s), SaidIn(RequestMessage)) = Spread(s, SaidIn(RequestMessage))
<1> DEFINE M == RequestMessage
           g == [m \in M |-> IF m.role # "system" THEN <<m>> ELSE <<>>]
           f == SaidIn(M)
<1>1. g \in Maps(M, M) BY DEF Maps
<1>2. [i \in DOMAIN s |-> IF s[i].role # "system" THEN <<s[i]>> ELSE <<>>] = [i \in DOMAIN s |-> g[s[i]]]
 <2>1. \A i \in DOMAIN s : s[i] \in M OBVIOUS
 <2> QED BY <2>1
<1>3. NotSystem(s) = Spread(s, g)
 <2> HIDE DEF g
 <2> QED BY <1>2 DEF NotSystem, Where, Spread
<1>4. f \in Maps(M, Sayings) BY SaidTypes
<1>5. Composed(M, g, f, f)
 <2> SUFFICES ASSUME NEW m \in M PROVE Spread(g[m], f) = f[m] BY DEF Composed
 <2>1. CASE m.role # "system"
  <3>1. g[m] = <<m>> BY <2>1
  <3> HIDE DEF f, g
  <3> QED BY <1>4, <3>1, SpreadOne
 <2>2. CASE m.role = "system"
  <3>1. g[m] = <<>> BY <2>2
  <3>2. f[m] = <<>> BY <2>2 DEF SaidIn, IsAnswer
  <3> QED BY <3>1, <3>2, SpreadEmpty
 <2> QED BY <2>1, <2>2
<1>6. s \in Seq(M) OBVIOUS
<1> HIDE DEF f, g, M
<1>7. Spread(s, g) \in Seq(M) BY <1>1, <1>6, SpreadType
<1>8. Spread(Spread(s, g), f) = Spread(s, f) BY <1>1, <1>4, <1>5, <1>6, SpreadTwice
<1> QED BY <1>3, <1>7, <1>8 DEF f, M

\* What others wrote says nothing.
LEMMA WithoutMarks ==
    ASSUME NEW R, NEW f \in Maps(Block, R), f[Mark] = <<>>, NEW s \in Seq(HeapPart)
    PROVE  Spread(Without(s), f) = Spread(s, f)
<1> DEFINE g == [p \in HeapPart |-> IF p # Mark THEN <<p>> ELSE <<>>]
<1>1. Without(s) = Spread(s, g)
 <2>1. \A i \in DOMAIN s : s[i] \in HeapPart OBVIOUS
 <2>2. [i \in DOMAIN s |-> IF OfTheConversation(s[i]) THEN <<s[i]>> ELSE <<>>] = [i \in DOMAIN s |-> g[s[i]]]
   BY <2>1 DEF OfTheConversation, Mark
 <2> HIDE DEF g
 <2> QED BY <2>2 DEF Without, Where, Spread
<1>2. HeapPart \subseteq Block BY NativeIsBlock
<1>3. g \in Maps(HeapPart, Block) BY <1>2 DEF Maps
<1>4. Composed(HeapPart, g, f, f)
 <2> SUFFICES ASSUME NEW p \in HeapPart PROVE Spread(g[p], f) = f[p] BY DEF Composed
 <2>1. CASE p = Mark
  <3>1. g[p] = <<>> BY <2>1
  <3> QED BY <2>1, <3>1, SpreadEmpty
 <2>2. CASE p # Mark
  <3>1. g[p] = <<p>> /\ p \in Block BY <1>2, <2>2
  <3> QED BY <3>1, SpreadOne
 <2> QED BY <2>1, <2>2
<1> HIDE DEF g
<1> QED BY <1>1, <1>3, <1>4, SpreadTwice

LEMMA MarksSayNothing ==
    ASSUME NEW s \in Seq(HeapPart)
    PROVE  Saying(Without(s)) = Saying(s)
<1>1. SayWord[Mark] = <<>> /\ SayCall[Mark] = <<>>
 <2>1. Mark \in Block /\ Mark.kind = "text" /\ Mark.text = <<Foreign>>
   BY NativeIsBlock DEF HeapPart, Mark, Text
 <2>2. Spread(Mark.text, Own) = <<>> BY <2>1, OwnType
 <2> QED BY <2>1, <2>2, SayTypes DEF WordsOf
<1>2. Spread(Without(s), SayWord) = Spread(s, SayWord) BY <1>1, SayTypes, WithoutMarks
<1>3. Spread(Without(s), SayCall) = Spread(s, SayCall) BY <1>1, SayTypes, WithoutMarks
<1> QED BY <1>2, <1>3 DEF Saying

LEMMA BareTurns ==
    ASSUME NEW who, NEW s \in Seq(HeapMessage), WithoutForeign(s) \in Seq(OwnTurn(who))
    PROVE  /\ s \in Seq(Turn(who))
           /\ Spread(s, SaidIn(HeapMessage)) = Spread(WithoutForeign(s), SaidIn(HeapMessage))
<1> DEFINE b == WithoutForeign(s)
           f == SaidIn(HeapMessage)
<1>1. Len(b) = Len(s) /\ \A k \in 1..Len(s) : b[k] = Bare(s[k]) BY WithoutForeignAt
<1>2. DOMAIN s = 1..Len(s) /\ DOMAIN b = 1..Len(s) /\ Len(s) \in Nat
 <2> HIDE DEF b
 <2> QED BY <1>1
<1> HIDE DEF b
<1>3. ASSUME NEW k \in 1..Len(s) PROVE s[k] \in Turn(who) /\ f[s[k]] = f[b[k]]
 <2> DEFINE m == s[k]
 <2>1. m \in HeapMessage /\ b[k] \in OwnTurn(who) /\ b[k] = Bare(m) BY <1>1, <1>2 DEF b
 <2> HIDE DEF m
 <2>2. /\ b[k].role = m.role /\ b[k].cache = m.cache /\ b[k].content = Without(m.content)
   BY <2>1, BareFields
 <2>3. m.content \in Seq(HeapPart) /\ Saying(Without(m.content)) = Saying(m.content)
   BY <2>1, HeapParts, MarksSayNothing
 <2>4. IsAnswer(m) => m.cache = "unset" /\ m.content \in Seq(Show(who))
  <3> SUFFICES ASSUME IsAnswer(m) PROVE m.cache = "unset" /\ m.content \in Seq(Show(who)) OBVIOUS
  <3>1. m.cache = "unset" /\ Without(m.content) \in Seq(ShowPart(who))
    BY <2>1, <2>2 DEF OwnTurn, IsAnswer
  <3> DEFINE c == m.content
             w == Without(c)
  <3>2. /\ Len(w) \in Nat
        /\ \A i \in 1..Len(c) : c[i] # Mark => \E j \in 1..Len(w) : w[j] = c[i]
    BY <2>3, WithoutHas
  <3>3. c \in Seq(HeapPart) /\ w \in Seq(ShowPart(who)) BY <2>3, <3>1
  <3> HIDE DEF w, c
  <3>4. \A j \in 1..Len(w) : w[j] \in ShowPart(who) BY <3>3, ElementOfSeq
  <3>5. \A i \in 1..Len(c) : c[i] \in Show(who) BY <3>2, <3>4 DEF Show
  <3>6. c \in Seq(Show(who)) BY <3>3, <3>5
  <3> QED BY <3>1, <3>6 DEF c
 <2>5. f[b[k]] = f[m]
  <3>1. b[k] \in HeapMessage BY <2>1, SaidTypes DEF OwnTurn
  <3> QED BY <2>1, <2>2, <2>3, <3>1 DEF SaidIn, IsAnswer
 <2> QED BY <2>1, <2>4, <2>5 DEF Turn, m
<1> HIDE DEF f
<1>4. s \in Seq(Turn(who)) BY <1>2, <1>3
<1>5. [i \in DOMAIN s |-> f[s[i]]] = [i \in DOMAIN b |-> f[b[i]]] BY <1>2, <1>3
<1> QED BY <1>4, <1>5 DEF Spread, b, f

\* What an attempt leaves says what was answered.
LEMMA TraceSays ==
    ASSUME NEW who, NEW n \in Nat, NEW o \in OutcomeType, GoodOutcome(who, o),
           o.raw => o.content \in Seq(ShowPart(who))
    PROVE  /\ Trace(n, o) \in Seq(OwnTurn(who))
           /\ Spread(Trace(n, o), SaidIn(HeapMessage))
                 = IF o.raw THEN <<Saying(o.content)>> ELSE <<>>
<1> DEFINE raw == IF o.raw THEN <<Message("assistant", o.content)>> ELSE <<>>
           f   == SaidIn(HeapMessage)
           M   == OwnTurn(who)
           says == IF o.raw THEN <<Saying(o.content)>> ELSE <<>>
<1>1. f \in Maps(HeapMessage, Sayings) /\ M \subseteq HeapMessage BY SaidTypes DEF OwnTurn
<1>2. o.content \in Seq(NativePart) /\ o.results \in Seq(NativePart) BY DEF OutcomeType
<1>3. raw \in Seq(M) /\ Spread(raw, f) = says /\ says \in Seq(Sayings)
 <2>1. CASE o.raw
  <3> DEFINE a == Message("assistant", o.content)
  <3>1. a \in NativeMessage /\ a.role = "assistant" /\ a.content = o.content /\ a.cache = "unset"
    BY <1>2, MessageTypes, MessageFields
  <3>2. raw = <<a>> /\ says = <<Saying(o.content)>> BY <2>1
  <3> HIDE DEF a
  <3>3. a \in M /\ a \in HeapMessage BY <2>1, <3>1, SaidTypes DEF OwnTurn
  <3>4. f[a] = says BY <3>1, <3>2, <3>3 DEF SaidIn, IsAnswer
  <3> HIDE DEF f, raw, says, M
  <3>5. Spread(<<a>>, f) = f[a] BY <1>1, <3>3, SpreadOne
  <3>6. Spread(<<a>>, f) \in Seq(Sayings) /\ <<a>> \in Seq(M)
   <4>1. <<a>> \in Seq(HeapMessage) /\ <<a>> \in Seq(M) BY <3>3
   <4> QED BY <1>1, <4>1, SpreadType
  <3> QED BY <3>2, <3>4, <3>5, <3>6
 <2>2. CASE ~o.raw
  <3>1. raw = <<>> /\ says = <<>> BY <2>2
  <3> QED BY <3>1, SpreadEmpty
 <2> QED BY <2>1, <2>2
<1>4. ASSUME NEW x \in NativeMessage, x.role # "assistant"
      PROVE  x \in M /\ Spread(Append(raw, x), f) = says /\ Append(raw, x) \in Seq(M)
 <2>1. x \in M /\ x \in HeapMessage /\ f[x] = <<>> BY <1>4, SaidTypes DEF OwnTurn, IsAnswer, SaidIn
 <2> HIDE DEF raw, f, M, says
 <2>2. Spread(Append(raw, x), f) = Spread(raw, f) \o f[x]
  <3>1. raw \in Seq(HeapMessage) BY <1>1, <1>3
  <3> QED BY <1>1, <2>1, <3>1, SpreadAppend
 <2>3. says \o <<>> = says BY <1>3
 <2> QED BY <1>3, <2>1, <2>2, <2>3
<1>5. Feedback(n) \in NativeMessage /\ Feedback(n).role # "assistant"
  BY MessageTypes, MessageFields DEF Feedback, NewUserMessage
<1>6. Message("tool", o.results) \in NativeMessage /\ Message("tool", o.results).role # "assistant"
  BY <1>2, MessageTypes, MessageFields
<1>7. o.raw => o.kind \in {"validation", "toolcall", "valid"} BY DEF GoodOutcome
<1>8. CASE o.kind = "validation"
 <2>1. Trace(n, o) = Append(raw, Feedback(n)) BY <1>8 DEF Trace
 <2> HIDE DEF raw, f, M, says
 <2>2. Spread(Trace(n, o), f) = says /\ Trace(n, o) \in Seq(M) BY <1>4, <1>5, <2>1
 <2> QED BY <2>2 DEF f, M, says
<1>9. CASE o.kind = "toolcall"
 <2>1. Trace(n, o) = Append(raw, Message("tool", o.results)) BY <1>9 DEF Trace
 <2> HIDE DEF raw, f, M, says
 <2>2. Spread(Trace(n, o), f) = says /\ Trace(n, o) \in Seq(M) BY <1>4, <1>6, <2>1
 <2> QED BY <2>2 DEF f, M, says
<1>10. CASE o.kind = "valid"
 <2>1. Trace(n, o) = raw \o ToolMessage(o.results) BY <1>10 DEF Trace
 <2>2. ToolMessage(o.results) = IF o.results = <<>> THEN <<>> ELSE <<Message("tool", o.results)>>
   BY DEF ToolMessage, newToolMessageWithContent
 <2> HIDE DEF raw, f, M, says
 <2>3. CASE o.results = <<>>
  <3>1. Trace(n, o) = raw BY <1>3, <2>1, <2>2, <2>3
  <3> QED BY <1>3, <3>1 DEF f, M, says
 <2>4. CASE o.results # <<>>
  <3> DEFINE x == Message("tool", o.results)
  <3>1. Trace(n, o) = raw \o <<x>> BY <2>1, <2>2, <2>4
  <3> HIDE DEF x
  <3>2. raw \o <<x>> = Append(raw, x) BY <1>3
  <3>3. Spread(Append(raw, x), f) = says /\ Append(raw, x) \in Seq(M) BY <1>4, <1>6 DEF x
  <3> QED BY <3>1, <3>2, <3>3 DEF f, M, says
 <2> QED BY <2>3, <2>4
<1>11. CASE o.kind \notin {"validation", "toolcall", "valid"}
 <2>1. Trace(n, o) = <<>> BY <1>11 DEF Trace
 <2>2. ~o.raw BY <1>7, <1>11
 <2> QED BY <2>1, <2>2, SpreadEmpty
<1> QED BY <1>8, <1>9, <1>10, <1>11

----------------------------------------
\* The attempts that were corrected, or whose calls were run, have in their outcome
\* what the provider said.
Told(who, o, a) == o.raw => o.content \in Seq(ShowPart(who)) /\ Saying(o.content) = Saying(a)

AnswersInv ==
    /\ answers \in Seq(Seq(Block)) /\ Len(answers) = Len(log)
    /\ \A n \in 1..Len(log) : Told(provider, log[n], answers[n])

\* What waits for an answer was translated from the conversation.
ShownInv == InFlight => WithoutForeign(Requested.messages) = History

LEMMA AnswersGrow ==
    ASSUME AnswersInv, TypeInv, provider' = provider, NEW o, NEW a \in Seq(Block),
           Told(provider, o, a), log' = Append(log, o), answers' = Append(answers, a)
    PROVE  AnswersInv'
<1>1. log \in Seq(OutcomeType) BY DEF TypeInv
<1>2. answers \in Seq(Seq(Block)) /\ Len(answers) = Len(log)
      /\ \A n \in 1..Len(log) : Told(provider, log[n], answers[n])
  BY DEF AnswersInv
<1>3. /\ Len(log') = Len(log) + 1 /\ Len(log) \in Nat
      /\ \A n \in 1..Len(log) : log'[n] = log[n]
      /\ log'[Len(log) + 1] = o
  BY <1>1
<1>4. /\ answers' \in Seq(Seq(Block)) /\ Len(answers') = Len(log) + 1
      /\ \A n \in 1..Len(log) : answers'[n] = answers[n]
      /\ answers'[Len(log) + 1] = a
  BY <1>2
<1>5. \A n \in 1..Len(log) + 1 : n \in 1..Len(log) \/ n = Len(log) + 1 BY <1>3
<1>6. \A n \in 1..Len(log') : Told(provider', log'[n], answers'[n]) BY <1>2, <1>3, <1>4, <1>5
<1> QED BY <1>3, <1>4, <1>6 DEF AnswersInv

LEMMA QuietTellsNothing ==
    ASSUME AnswersInv, TypeInv, provider' = provider, NEW kind, Conclude(Quiet(kind)), NoAnswer
    PROVE  AnswersInv'
<1>1. Told(provider, Quiet(kind), <<>>) BY DEF Told, Quiet, Outcome
<1>2. log' = Append(log, Quiet(kind)) /\ answers' = Append(answers, <<>>) BY DEF Conclude, NoAnswer
<1>3. <<>> \in Seq(Block) OBVIOUS
<1> QED BY <1>1, <1>2, <1>3, AnswersGrow

LEMMA JudgeKeepsContent ==
    ASSUME TypeInv, NEW content, Judge(content)
    PROVE  \E o : Conclude(o) /\ (o.raw => o.content = content)
<1>1. \A kind, results, raw : Outcome(kind, content, results, raw).content = content BY DEF Outcome
<1>2. ~Quiet("done").raw BY DEF Quiet, Outcome
<1>3. PICK o : Conclude(o) /\ ComesOf(content, o) BY Judged
<1>4. o.raw => o.content = content BY <1>1, <1>2, <1>3 DEF ComesOf
<1> QED BY <1>3, <1>4

LEMMA NextAnswers ==
    ASSUME TypeInv, AnswersInv, [Next]_vars
    PROVE  AnswersInv'
<1>1. ASSUME UNCHANGED <<provider, log, answers>> PROVE AnswersInv' BY <1>1 DEF AnswersInv
<1>2. CASE StartAttempt
 <2>1. provider' = provider BY <1>2 DEF StartAttempt, clientVars
 <2>2. CASE AttemptCancelled /\ NoAnswer BY <2>1, <2>2, QuietTellsNothing DEF AttemptCancelled
 <2>3. CASE Attempt(plan.api = "execute") /\ UNCHANGED answers BY <1>1, <2>1, <2>3 DEF Attempt
 <2> QED BY <1>2, <2>2, <2>3 DEF StartAttempt
<1>3. CASE ClientTranslates
 <2>1. provider' = provider BY <1>3 DEF ClientTranslates, clientVars
 <2>2. CASE NoCorrection("error") /\ NoAnswer BY <2>1, <2>2, QuietTellsNothing DEF NoCorrection
 <2>3. CASE UNCHANGED <<execVars, answers>> BY <1>1, <2>1, <2>3 DEF execVars
 <2> QED BY <1>3, <2>2, <2>3 DEF ClientTranslates
<1>4. CASE Receive
 <2>1. provider' = provider BY <1>4 DEF Receive, clientVars
 <2>2. PICK raw \in RawAnswers :
           /\ answers' = Append(answers, raw)
           /\ LET response == ParseResponse(provider, raw)
              IN  IF response.err = "none" THEN Judge(response.out) ELSE NoCorrection("error")
   BY <1>4 DEF Receive
 <2>3. raw \in Seq(Sayable(provider)) /\ raw \in Seq(Block) /\ provider \in Providers
  <3>1. raw \in Seq(Sayable(provider)) /\ provider \in Providers
    BY <2>2, RawAnswersSay DEF TypeInv
  <3> QED BY <3>1, SayableTypes
 <2> DEFINE response == ParseResponse(provider, raw)
 <2>4. CASE response.err = "none"
  <3>1. response.out \in Seq(ShowPart(provider)) /\ Saying(response.out) = Saying(raw)
    BY <2>3, <2>4, ParsedSays
  <3>2. Judge(response.out) BY <2>2, <2>4
  <3> HIDE DEF response
  <3>3. PICK o : Conclude(o) /\ (o.raw => o.content = response.out)
    BY <3>2, TypeFacts, JudgeKeepsContent
  <3>4. Told(provider, o, raw) /\ log' = Append(log, o) BY <3>1, <3>3 DEF Told, Conclude
  <3> QED BY <2>1, <2>2, <2>3, <3>4, AnswersGrow
 <2>5. CASE response.err # "none"
  <3>1. NoCorrection("error") BY <2>2, <2>5
  <3>2. Told(provider, Quiet("error"), raw) /\ log' = Append(log, Quiet("error"))
    BY <3>1 DEF Told, Quiet, Outcome, NoCorrection, Conclude
  <3> QED BY <2>1, <2>2, <2>3, <3>2, AnswersGrow
 <2> QED BY <2>4, <2>5
<1>5. CASE Fails BY <1>5, QuietTellsNothing DEF Fails, NoCorrection, clientVars
<1>6. CASE MiddlewareRefuses
 <2> DEFINE o == Outcome("validation", <<>>, <<>>, FALSE)
 <2>1. Told(provider, o, <<>>) BY DEF Told, Outcome
 <2>2. log' = Append(log, o) /\ answers' = Append(answers, <<>>) /\ provider' = provider
   BY <1>6 DEF MiddlewareRefuses, ValidationFails, Conclude, NoAnswer, clientVars
 <2>3. <<>> \in Seq(Block) OBVIOUS
 <2> HIDE DEF o
 <2> QED BY <2>1, <2>2, <2>3, AnswersGrow
<1>7. CASE Write BY <1>1, <1>7 DEF Write, Scribble, clientVars
<1>8. CASE UNCHANGED vars BY <1>1, <1>8 DEF vars, execVars
<1> QED BY <1>2, <1>3, <1>4, <1>5, <1>6, <1>7, <1>8 DEF Next

LEMMA NextShown ==
    ASSUME TypeInv, HistoryInv, ShownInv, [Next]_vars
    PROVE  ShownInv'
<1>1. CASE UNCHANGED <<sent, pc, prompt, log>> BY <1>1 DEF ShownInv, InFlight, Requested, History
<1>2. CASE sent' = <<>> \/ pc' = "idle" BY <1>2 DEF ShownInv, InFlight
<1>3. CASE ClientTranslates
 <2>1. /\ pc = "waiting" /\ sent' = <<Execution, Translate(provider, Execution)>>
       /\ UNCHANGED execVars \/ NoCorrection("error")
   BY <1>3 DEF ClientTranslates
 <2>2. WithoutForeign(heap[request]) = History BY <2>1 DEF HistoryInv
 <2>3. Requested'.messages = heap[request] BY <2>1 DEF Requested, Execution
 <2>4. CASE UNCHANGED execVars
  <3>1. History' = History BY <2>4 DEF History, execVars
  <3> QED BY <2>2, <2>3, <3>1 DEF ShownInv
 <2>5. CASE NoCorrection("error") BY <1>2, <2>5 DEF NoCorrection, Conclude
 <2> QED BY <2>1, <2>4, <2>5
<1> QED BY <1>1, <1>2, <1>3, FlightStep

\* What the conversation says, answer by answer.
OfAttempt == [n \in 1..Len(log) |-> IF log[n].raw THEN <<Saying(answers[n])>> ELSE <<>>]

LEMMA HistorySays ==
    ASSUME TypeInv, LogInv, AnswersInv, ~(\E i \in DOMAIN prompt : IsAnswer(prompt[i]))
    PROVE  /\ History \in Seq(OwnTurn(provider))
           /\ Spread(History, SaidIn(HeapMessage)) = FlattenSeq(OfAttempt)
<1> DEFINE traces == [n \in DOMAIN log |-> Trace(n, log[n])]
           added == FlattenSeq(traces)
           f == SaidIn(HeapMessage)
           M == OwnTurn(provider)
<1>1. DOMAIN log = 1..Len(log) /\ Len(log) \in Nat
      /\ \A n \in 1..Len(log) : n \in Nat /\ log[n] \in OutcomeType
  BY TypeFacts
<1>2. f \in Maps(HeapMessage, Sayings) /\ M \subseteq HeapMessage BY SaidTypes DEF OwnTurn
<1>3. ASSUME NEW n \in 1..Len(log)
      PROVE  Trace(n, log[n]) \in Seq(M) /\ Spread(Trace(n, log[n]), f) = OfAttempt[n]
 <2>1. n \in Nat /\ log[n] \in OutcomeType /\ GoodOutcome(provider, log[n])
       /\ Told(provider, log[n], answers[n])
   BY <1>1, <1>3 DEF LogInv, AnswersInv
 <2> DEFINE o == log[n]
 <2>2. /\ Trace(n, o) \in Seq(OwnTurn(provider))
       /\ Spread(Trace(n, o), SaidIn(HeapMessage)) = IF o.raw THEN <<Saying(o.content)>> ELSE <<>>
  <3>1. o.raw => o.content \in Seq(ShowPart(provider)) BY <2>1 DEF Told
  <3> HIDE DEF o
  <3> QED BY <2>1, <3>1, TraceSays DEF o
 <2>3. OfAttempt[n] = IF o.raw THEN <<Saying(o.content)>> ELSE <<>>
  <3>1. OfAttempt[n] = IF log[n].raw THEN <<Saying(answers[n])>> ELSE <<>> BY DEF OfAttempt
  <3>2. log[n].raw => Saying(log[n].content) = Saying(answers[n]) BY <2>1 DEF Told
  <3> QED BY <3>1, <3>2
 <2> QED BY <2>2, <2>3
<1>4. traces \in Seq(Seq(M)) /\ traces \in Seq(Seq(HeapMessage))
 <2> HIDE DEF M
 <2>1. \A n \in 1..Len(log) : Trace(n, log[n]) \in Seq(M) /\ Trace(n, log[n]) \in Seq(HeapMessage)
   BY <1>2, <1>3
 <2> QED BY <1>1, <2>1
<1>5. [n \in DOMAIN traces |-> Spread(traces[n], f)] = OfAttempt
 <2> HIDE DEF f
 <2>1. DOMAIN traces = 1..Len(log) /\ \A n \in 1..Len(log) : traces[n] = Trace(n, log[n]) BY <1>1
 <2>2. OfAttempt = [n \in 1..Len(log) |-> OfAttempt[n]] BY DEF OfAttempt
 <2> HIDE DEF traces
 <2> QED BY <1>3, <2>1, <2>2
<1>6. History = prompt \o added BY DEF History
<1>7. prompt \in Seq(NativeMessage) /\ DOMAIN prompt = 1..Len(prompt) BY TypeFacts
<1>8. \A i \in 1..Len(prompt) : prompt[i] \in M /\ prompt[i] \in HeapMessage /\ f[prompt[i]] = <<>>
  BY <1>7, SaidTypes DEF OwnTurn, SaidIn
<1>9. prompt \in Seq(M) /\ prompt \in Seq(HeapMessage)
 <2> HIDE DEF M
 <2> QED BY <1>7, <1>8
<1> HIDE DEF traces, f, M
<1>10. added \in Seq(M) /\ added \in Seq(HeapMessage)
 <2>1. added \in Seq(M) BY <1>4, FlattenType
 <2> QED BY <1>2, <2>1
<1>11. Spread(prompt, f) = <<>> BY <1>8, <1>9, SpreadNothing
<1>12. Spread(added, f) = FlattenSeq(OfAttempt) BY <1>2, <1>4, <1>5, SpreadFlatten
<1>13. Spread(added, f) \in Seq(Sayings) BY <1>2, <1>10, SpreadType
<1> HIDE DEF added
<1>14. Spread(prompt \o added, f) = Spread(prompt, f) \o Spread(added, f)
  BY <1>2, <1>9, <1>10, SpreadConcat
<1>15. <<>> \o Spread(added, f) = Spread(added, f) BY <1>13
<1>16. prompt \o added \in Seq(M) BY <1>9, <1>10, ConcatProperties
<1> QED BY <1>6, <1>11, <1>12, <1>14, <1>15, <1>16 DEF f, M

LEMMA ShownWhileWaiting ==
    ASSUME TypeInv, LogInv, SentInv, WaitInv, AnswersInv, ShownInv
    PROVE  AnswerIsShownBack
<1> SUFFICES ASSUME InFlight, ~(\E i \in DOMAIN prompt : IsAnswer(prompt[i]))
             PROVE  LET turns == Where(Received.messages, IsAnswer)
                        kept  == Where([n \in DOMAIN log |-> n], LAMBDA n : log[n].raw)
                    IN  /\ Len(turns) = Len(kept)
                        /\ \A k \in DOMAIN kept : Said(turns[k].content) = Said(answers[kept[k]])
  BY DEF AnswerIsShownBack
<1> DEFINE to    == Received.messages
           from  == Requested.messages
           M     == RequestMessage
           T     == {m \in M : IsAnswer(m)}
           says  == [m \in M |-> Saying(m.content)]
           N     == 1..Len(log)
           all   == [n \in DOMAIN log |-> n]
           K     == {n \in N : log[n].raw}
           was   == [n \in N |-> Saying(answers[n])]
           turns == Where(to, IsAnswer)
           kept  == Where(all, LAMBDA n : log[n].raw)
<1>1. /\ Received = Translate(provider, Requested) /\ Received.err = "none"
      /\ from \in Seq(HeapMessage) /\ WithoutForeign(from) = History
      /\ provider \in Providers
  BY DEF SentInv, WaitInv, InFlight, IsExecution, ShownInv, TypeInv
<1>2. /\ History \in Seq(OwnTurn(provider))
      /\ Spread(History, SaidIn(HeapMessage)) = FlattenSeq(OfAttempt)
  BY HistorySays
<1>3. from \in Seq(Turn(provider))
      /\ Spread(from, SaidIn(HeapMessage)) = FlattenSeq(OfAttempt)
 <2> HIDE DEF from
 <2> QED BY <1>1, <1>2, BareTurns
<1> DEFINE out == Translated(from).out
<1>4. /\ Translated(from).err = "none"
      /\ to = IF TakesSystemOut THEN NotSystem(out) ELSE out
  BY <1>1, TranslateIs
<1>5. out \in Seq(M) /\ Spread(out, SaidIn(M)) = FlattenSeq(OfAttempt)
 <2> HIDE DEF from
 <2> QED BY <1>1, <1>3, <1>4, TurnsShown
<1>6. to \in Seq(M) /\ Spread(to, SaidIn(M)) = FlattenSeq(OfAttempt)
 <2> HIDE DEF out, to
 <2>1. NotSystem(out) \in Seq(M) /\ Spread(NotSystem(out), SaidIn(M)) = Spread(out, SaidIn(M))
   BY <1>5, SystemSaysNothing
 <2> QED BY <1>4, <1>5, <2>1
<1> HIDE DEF to, from, out
<1>7. \A s \in Seq(Block) : Said(s) = Saying(s) /\ Saying(s) \in Sayings BY SaidIs, SayTypes
<1>8. turns = Those(to, T) /\ turns \in Seq(T)
      /\ Spread(to, SaidIn(M)) = [k \in DOMAIN turns |-> says[turns[k]]]
 <2>1. \A i \in DOMAIN to : to[i] \in M BY <1>6
 <2>2. [i \in DOMAIN to |-> IF IsAnswer(to[i]) THEN <<to[i]>> ELSE <<>>]
         = [i \in DOMAIN to |-> IF to[i] \in T THEN <<to[i]>> ELSE <<>>]
   BY <2>1
 <2>3. turns = Those(to, T) BY <2>2 DEF Where, Those
 <2>4. T \in SUBSET M /\ Sends(M, Sayings, says) BY <1>7 DEF RequestMessage, Sends
 <2>5. SaidIn(M) = OneOf(M, T, says) BY DEF SaidIn, OneOf
 <2> HIDE DEF T, says, M, turns
 <2>6. /\ OneOf(M, T, says) \in Maps(M, Sayings)
       /\ Spread(to, OneOf(M, T, says)) = Mapped(Those(to, T), says)
   BY <1>6, <2>4, ThoseMap
 <2>7. Those(to, T) \in Seq(T) BY <1>6, <2>4, ThoseType
 <2> QED BY <2>3, <2>5, <2>6, <2>7 DEF Mapped
<1>9. log \in Seq(OutcomeType) /\ DOMAIN log = N /\ Len(log) \in Nat /\ all \in Seq(N)
      /\ DOMAIN all = N /\ \A n \in N : all[n] = n
 <2>1. log \in Seq(OutcomeType) BY DEF TypeInv
 <2>2. DOMAIN log = N /\ Len(log) \in Nat BY <2>1
 <2> QED BY <2>1, <2>2
<1>10. \A n \in N : answers[n] \in Seq(Block) /\ was[n] \in Sayings
 <2>1. answers \in Seq(Seq(Block)) /\ Len(answers) = Len(log) BY DEF AnswersInv
 <2>2. \A n \in N : answers[n] \in Seq(Block) BY <2>1, ElementOfSeq
 <2> QED BY <1>7, <2>2
<1>11. kept \in Seq(K) /\ DOMAIN kept = 1..Len(kept)
       /\ FlattenSeq(OfAttempt) = [k \in DOMAIN kept |-> was[kept[k]]]
 <2>1. [i \in DOMAIN all |-> IF log[all[i]].raw THEN <<all[i]>> ELSE <<>>]
         = [i \in DOMAIN all |-> IF all[i] \in K THEN <<all[i]>> ELSE <<>>]
  <3> HIDE DEF all, N
  <3> QED BY <1>9
 <2>2. kept = Those(all, K) BY <2>1 DEF Where, Those
 <2>3. [i \in DOMAIN all |-> OneOf(N, K, was)[all[i]]] = OfAttempt
  <3>1. \A n \in N : OneOf(N, K, was)[n] = OfAttempt[n] BY DEF OneOf, OfAttempt
  <3>2. OfAttempt = [n \in N |-> OfAttempt[n]] BY DEF OfAttempt
  <3> HIDE DEF all, N, K, was
  <3> QED BY <1>9, <3>1, <3>2
 <2>4. K \in SUBSET N /\ Sends(N, Sayings, was) BY <1>10 DEF Sends
 <2> HIDE DEF all, N, K, was, kept
 <2>5. /\ OneOf(N, K, was) \in Maps(N, Sayings)
       /\ Spread(all, OneOf(N, K, was)) = Mapped(Those(all, K), was)
  <3>1. all \in Seq(N) BY <1>9
  <3>2. K \in SUBSET N /\ Sends(N, Sayings, was) BY <2>4
  <3> QED BY <3>1, <3>2, ThoseMap
 <2>6. Those(all, K) \in Seq(K) BY <1>9, <2>4, ThoseType
 <2>7. Spread(all, OneOf(N, K, was)) = FlattenSeq(OfAttempt) BY <2>3 DEF Spread
 <2> QED BY <2>2, <2>5, <2>6, <2>7 DEF Mapped
<1>12. \A k \in DOMAIN turns : Said(turns[k].content) = says[turns[k]]
 <2>1. \A k \in DOMAIN turns : turns[k] \in M
  <3> HIDE DEF turns, M
  <3> QED BY <1>8
 <2>2. \A m \in M : m.content \in Seq(Block) BY DEF RequestMessage
 <2>3. \A m \in M : says[m] = Saying(m.content) OBVIOUS
 <2> HIDE DEF turns, M, says
 <2> QED BY <1>7, <2>1, <2>2, <2>3
<1>13. \A k \in DOMAIN kept : Said(answers[kept[k]]) = was[kept[k]]
 <2>1. \A k \in DOMAIN kept : kept[k] \in N
  <3>1. \A k \in DOMAIN kept : kept[k] \in K
   <4> HIDE DEF kept, K
   <4> QED BY <1>11
  <3> QED BY <3>1
 <2>2. \A n \in N : was[n] = Saying(answers[n]) OBVIOUS
 <2> HIDE DEF kept, N, was
 <2> QED BY <1>7, <1>10, <2>1, <2>2
<1> HIDE DEF turns, kept, says, was
<1>14. [k \in DOMAIN turns |-> says[turns[k]]] = [k \in DOMAIN kept |-> was[kept[k]]]
  BY <1>6, <1>8, <1>11
<1>15. DOMAIN turns = DOMAIN kept /\ \A k \in DOMAIN kept : says[turns[k]] = was[kept[k]]
 <2> DEFINE F == [k \in DOMAIN turns |-> says[turns[k]]]
            G == [k \in DOMAIN kept |-> was[kept[k]]]
 <2>1. DOMAIN F = DOMAIN turns /\ DOMAIN G = DOMAIN kept OBVIOUS
 <2>2. DOMAIN turns = DOMAIN kept
  <3> HIDE DEF F, G
  <3> QED BY <1>14, <2>1 DEF F, G
 <2>3. \A k \in DOMAIN kept : F[k] = says[turns[k]] /\ G[k] = was[kept[k]] BY <2>2
 <2> HIDE DEF F, G
 <2>4. F = G BY <1>14 DEF F, G
 <2> QED BY <2>2, <2>3, <2>4
<1>16. Len(turns) = Len(kept)
 <2>1. DOMAIN turns = 1..Len(turns) /\ Len(turns) \in Nat /\ Len(kept) \in Nat BY <1>8, <1>11
 <2> QED BY <1>11, <1>15, <2>1
<1>17. \A k \in DOMAIN kept : Said(turns[k].content) = Said(answers[kept[k]]) BY <1>12, <1>13, <1>15
<1> QED BY <1>16, <1>17 DEF turns, kept, to, all

(***************************************************************************)
(* The model is shown its own answers, turn by turn, for every provider,   *)
(* every prompt and however often its caller tries.                        *)
(***************************************************************************)
THEOREM AnswersAreShownBack == Spec => []AnswerIsShownBack
<1>1. Init => SentInv /\ WaitInv /\ LogInv /\ AnswersInv /\ ShownInv
 <2> SUFFICES ASSUME Init PROVE SentInv /\ WaitInv /\ LogInv /\ AnswersInv /\ ShownInv OBVIOUS
 <2>1. log = <<>> /\ answers = <<>> /\ sent = <<>> BY DEF Init, StartWith
 <2>2. <<>> \in Seq(Seq(Block)) /\ Len(<<>>) = 0 /\ 1..0 = {} OBVIOUS
 <2> QED BY <2>1, <2>2 DEF SentInv, WaitInv, LogInv, AnswersInv, ShownInv, InFlight
<1> QED
  BY <1>1, InitInv, NextInv, NextSent, NextWait, NextLog, NextAnswers, NextShown,
     ShownWhileWaiting, PTL DEF Spec

----------------------------------------
\* Which messages follow a call.  The results after message i are those of the messages
\* up to e, where the next one has none.
NoResults(m) == Kind(m.content, "result") = <<>>

Run(s, i, e) ==
    /\ e \in i..Len(s)
    /\ \A j \in (i + 1)..e : ~NoResults(s[j])
    /\ e < Len(s) => NoResults(s[e + 1])

Gathered(s, i, e) == FlattenSeq([j \in 1..(e - i) |-> s[i + j].content])

\* A window of a sequence.
LEMMA WindowIs ==
    ASSUME NEW S, NEW s \in Seq(S), NEW i \in 0..Len(s), NEW n \in Nat, i + n <= Len(s)
    PROVE  /\ SubSeq(s, i + 1, i + n) \in Seq(S) /\ Len(SubSeq(s, i + 1, i + n)) = n
           /\ DOMAIN SubSeq(s, i + 1, i + n) = 1..n
           /\ \A j \in 1..n : SubSeq(s, i + 1, i + n)[j] = s[i + j]
<1>1. Len(s) \in Nat /\ i \in Nat OBVIOUS
<1>2. /\ i + 1 \in 1..(Len(s) + 1) /\ i + n \in i..Len(s) /\ (i + n) - (i + 1) + 1 = n
      /\ (i + 1 <= i + n) <=> (n # 0)
  BY <1>1
<1>3. CASE n = 0 BY <1>1, <1>2, <1>3
<1>4. CASE n # 0
 <2> DEFINE a == i + 1
            b == i + n
 <2>1. a \in 1..(Len(s) + 1) /\ b \in (a - 1)..Len(s) /\ b - a + 1 = n BY <1>1, <1>2
 <2>2. \A j \in 1..n : a + j - 1 = i + j BY <1>1
 <2>3. /\ SubSeq(s, a, b) \in Seq(S)
       /\ Len(SubSeq(s, a, b)) = b - a + 1
       /\ \A j \in 1..(b - a + 1) : SubSeq(s, a, b)[j] = s[a + j - 1]
   BY <2>1, SubSeqProperties
 <2> HIDE DEF a, b
 <2>4. DOMAIN SubSeq(s, a, b) = 1..n /\ Len(SubSeq(s, a, b)) = n
       /\ \A j \in 1..n : SubSeq(s, a, b)[j] = s[i + j]
   BY <2>1, <2>2, <2>3
 <2> QED BY <2>3, <2>4 DEF a, b
<1> QED BY <1>3, <1>4

\* With the messages and nothing else.
LEMMA FollowingIs ==
    ASSUME NEW s \in Seq(RequestMessage), NEW i \in 1..Len(s)
    PROVE  /\ \E e \in i..Len(s) : Run(s, i, e)
           /\ \A e : Run(s, i, e) => Following(s, i) = Gathered(s, i, e)
<1> DEFINE N    == Len(s)
           n    == N - i
           rest == SubSeq(s, i + 1, N)
           I    == {j \in 1..Len(rest) : NoResults(rest[j])}
           k    == SelectInSeq(rest, LAMBDA m : Kind(m.content, "result") = <<>>)
           run  == IF k = 0 THEN rest ELSE SubSeq(rest, 1, k - 1)
<1>1. N \in Nat /\ i \in Nat /\ i \in 1..N /\ n \in Nat /\ i + n = N /\ i \in 0..N OBVIOUS
<1>2. /\ rest \in Seq(RequestMessage) /\ Len(rest) = n /\ DOMAIN rest = 1..n
      /\ \A j \in 1..n : rest[j] = s[i + j]
 <2>1. /\ SubSeq(s, i + 1, i + n) \in Seq(RequestMessage) /\ Len(SubSeq(s, i + 1, i + n)) = n
       /\ DOMAIN SubSeq(s, i + 1, i + n) = 1..n
       /\ \A j \in 1..n : SubSeq(s, i + 1, i + n)[j] = s[i + j]
  <3> HIDE DEF n
  <3> QED BY <1>1, WindowIs
 <2> QED BY <1>1, <2>1
<1>3. k = IF I # {} THEN Min(I) ELSE 0 BY DEF SelectInSeq, NoResults
<1>4. Following(s, i) = FlattenSeq([j \in DOMAIN run |-> run[j].content]) BY DEF Following
<1>5. I = {j \in 1..n : NoResults(s[i + j])}
 <2> HIDE DEF rest, n
 <2> QED BY <1>2
<1> DEFINE last == IF I = {} THEN N ELSE i + k - 1
<1>6. /\ k \in Nat /\ last \in Nat /\ last \in i..N
      /\ Run(s, i, last)
      /\ run = SubSeq(rest, 1, last - i)
 <2> HIDE DEF rest, n
 <2>1. CASE I = {}
  <3>1. k = 0 /\ last = N BY <1>3, <2>1
  <3>2. \A j \in (i + 1)..N : ~NoResults(s[j])
   <4> SUFFICES ASSUME NEW j \in (i + 1)..N PROVE ~NoResults(s[j]) OBVIOUS
   <4>1. j - i \in 1..n /\ i + (j - i) = j BY <1>1
   <4> QED BY <1>5, <2>1, <4>1
  <3> HIDE DEF k, last
  <3>3. run = rest BY <3>1
  <3>4. N - i = n BY <1>1
  <3>5. SubSeq(rest, 1, n) = rest BY <1>1, <1>2
  <3> HIDE DEF I, run
  <3> QED BY <1>1, <3>1, <3>2, <3>3, <3>4, <3>5 DEF Run
 <2>2. CASE I # {}
  <3>1. k = Min(I) /\ last = i + k - 1 BY <1>3, <2>2
  <3>2. I \in SUBSET Nat /\ \A j \in I : j \in 1..n BY <1>5, <1>1
  <3> HIDE DEF I, k, last
  <3>3. k \in I /\ k \in 1..n /\ \A j \in I : k <= j BY <2>2, <3>1, <3>2, MinIsIn
  <3>4. k \in Nat /\ k # 0 /\ last \in i..N /\ last \in Nat /\ last - i = k - 1
        /\ last + 1 = i + k
    BY <1>1, <3>1, <3>3
  <3>5. NoResults(s[last + 1]) BY <1>5, <3>3, <3>4
  <3>6. \A j \in (i + 1)..last : ~NoResults(s[j])
   <4> SUFFICES ASSUME NEW j \in (i + 1)..last PROVE ~NoResults(s[j]) OBVIOUS
   <4>1. j - i \in 1..n /\ i + (j - i) = j /\ ~(k <= j - i) BY <1>1, <3>1, <3>3
   <4> QED BY <1>5, <3>3, <4>1
  <3>7. run = SubSeq(rest, 1, last - i) BY <3>4
  <3> QED BY <3>4, <3>5, <3>6, <3>7 DEF Run
 <2> QED BY <2>1, <2>2
<1> HIDE DEF rest, run, k, I, last, n
<1>7. Following(s, i) = Gathered(s, i, last)
 <2> DEFINE l == last - i
 <2>1. l \in Nat /\ l <= n /\ 0 + l <= Len(rest) /\ 0 \in 0..Len(rest) /\ 0 + 1 = 1 /\ 0 + l = l
       /\ \A j \in 1..l : j \in 1..n /\ 0 + j = j
   BY <1>1, <1>2, <1>6
 <2> HIDE DEF l
 <2>2. /\ DOMAIN SubSeq(rest, 0 + 1, 0 + l) = 1..l
       /\ \A j \in 1..l : SubSeq(rest, 0 + 1, 0 + l)[j] = rest[0 + j]
   BY <1>2, <2>1, WindowIs
 <2>3. run = SubSeq(rest, 1, l) BY <1>6 DEF l
 <2>4. DOMAIN run = 1..l /\ \A j \in 1..l : run[j] = s[i + j] BY <1>2, <2>1, <2>2, <2>3
 <2>5. [j \in DOMAIN run |-> run[j].content] = [j \in 1..l |-> s[i + j].content] BY <2>4
 <2> QED BY <1>4, <2>5 DEF Gathered, l
<1>8. ASSUME NEW e, Run(s, i, e) PROVE e = last
 <2>1. e \in i..N /\ last \in i..N /\ e \in Nat /\ last \in Nat BY <1>1, <1>6, <1>8 DEF Run
 <2>2. CASE e < last
  <3>1. e < N /\ e + 1 \in (i + 1)..last BY <1>1, <2>1, <2>2
  <3> QED BY <1>6, <1>8, <3>1 DEF Run
 <2>3. CASE last < e
  <3>1. last < N /\ last + 1 \in (i + 1)..e BY <1>1, <2>1, <2>3
  <3> QED BY <1>6, <1>8, <3>1 DEF Run
 <2> QED BY <2>1, <2>2, <2>3
<1> QED BY <1>6, <1>7, <1>8

\* A conversation whose calls are answered, part of a longer one, is closed there as
\* well if no results come after it.
Closes(s, i) ==
    LET calls == Kind(s[i].content, "call")
    IN  calls # <<>> => \/ Answers(Following(s, i), calls)
                        \/ FeedbackFollows(s, i)
Closed(s) == \A i \in 1..Len(s) : Closes(s, i)
Begins(s) == s # <<>> => NoResults(s[1])

\* s is the part of t after the first d messages.
Inside(s, t, d) ==
    /\ d \in Nat /\ d + Len(s) <= Len(t)
    /\ \A j \in 1..Len(s) : t[d + j] = s[j]
    /\ d + Len(s) < Len(t) => NoResults(t[d + Len(s) + 1])

LEMMA ClosesInside ==
    ASSUME NEW s \in Seq(RequestMessage), NEW t \in Seq(RequestMessage), NEW d, Inside(s, t, d),
           NEW i \in 1..Len(s), Closes(s, i)
    PROVE  Closes(t, d + i)
<1> DEFINE n == Len(s)
           N == Len(t)
<1>1. /\ n \in Nat /\ N \in Nat /\ d \in Nat /\ i \in 1..n /\ d + n <= N
      /\ d + i \in 1..N
  BY DEF Inside
<1>2. \A j \in 1..n : t[d + j] = s[j] BY DEF Inside
<1>3. d + n < N => NoResults(t[d + n + 1]) BY DEF Inside
<1>4. PICK e \in i..n : Run(s, i, e) BY FollowingIs
<1>5. e \in Nat /\ e <= n /\ i <= e /\ d + e \in Nat /\ d + e <= N /\ (d + e) - (d + i) = e - i
  BY <1>1
<1>6. Run(t, d + i, d + e)
 <2>1. d + e \in (d + i)..N BY <1>1, <1>5
 <2>2. ASSUME NEW j \in ((d + i) + 1)..(d + e) PROVE ~NoResults(t[j])
  <3> DEFINE h == j - d
  <3>1. h \in (i + 1)..e /\ h \in 1..n /\ d + h = j BY <1>1, <1>5
  <3> HIDE DEF h
  <3>2. ~NoResults(s[h]) BY <1>4, <3>1 DEF Run
  <3> QED BY <1>2, <3>1, <3>2
 <2>3. ASSUME d + e < N PROVE NoResults(t[d + e + 1])
  <3>1. CASE e = n BY <1>3, <2>3, <3>1
  <3>2. CASE e # n
   <4>1. e < n /\ e + 1 \in 1..n /\ d + (e + 1) = d + e + 1 BY <1>1, <1>5, <3>2
   <4>2. NoResults(s[e + 1]) BY <1>4, <4>1 DEF Run
   <4> QED BY <1>2, <4>1, <4>2
  <3> QED BY <3>1, <3>2
 <2> QED BY <2>1, <2>2, <2>3 DEF Run
<1>7. Following(s, i) = Gathered(s, i, e) /\ Following(t, d + i) = Gathered(t, d + i, d + e)
 <2>1. Following(s, i) = Gathered(s, i, e) BY <1>4, FollowingIs
 <2>2. Following(t, d + i) = Gathered(t, d + i, d + e) BY <1>1, <1>6, FollowingIs
 <2> QED BY <2>1, <2>2
<1>8. Gathered(t, d + i, d + e) = Gathered(s, i, e)
 <2>1. ASSUME NEW j \in 1..(e - i) PROVE t[(d + i) + j] = s[i + j]
  <3>1. i + j \in 1..n /\ d + (i + j) = (d + i) + j BY <1>1, <1>5
  <3> QED BY <1>2, <3>1
 <2>2. [j \in 1..((d + e) - (d + i)) |-> t[(d + i) + j].content]
         = [j \in 1..(e - i) |-> s[i + j].content]
   BY <1>5, <2>1
 <2> QED BY <2>2 DEF Gathered
<1>9. t[d + i] = s[i] BY <1>1, <1>2
<1>10. FeedbackFollows(s, i) => FeedbackFollows(t, d + i)
 <2> SUFFICES ASSUME FeedbackFollows(s, i) PROVE FeedbackFollows(t, d + i) OBVIOUS
 <2>1. i < n BY DEF FeedbackFollows
 <2>2. i + 1 \in 1..n /\ d + (i + 1) = (d + i) + 1 /\ d + i < N BY <1>1, <2>1
 <2>3. t[(d + i) + 1] = s[i + 1] BY <1>2, <2>2
 <2> QED BY <2>2, <2>3 DEF FeedbackFollows
<1> QED BY <1>7, <1>8, <1>9, <1>10 DEF Closes

LEMMA ClosedConcat ==
    ASSUME NEW a \in Seq(RequestMessage), Closed(a), NEW b \in Seq(RequestMessage), Closed(b),
           Begins(b)
    PROVE  Closed(a \o b)
<1> DEFINE t == a \o b
           n == Len(a)
           p == Len(b)
<1>1. n \in Nat /\ p \in Nat OBVIOUS
<1>2. /\ t \in Seq(RequestMessage) /\ Len(t) = n + p
      /\ \A j \in 1..n : t[j] = a[j]
      /\ \A j \in 1..p : t[n + j] = b[j]
 <2>1. \A j \in 1..p : (n + j) - n = j /\ n + j \in 1..(n + p) /\ ~(n + j <= n) BY <1>1
 <2> QED BY <2>1, ConcatProperties
<1> HIDE DEF t
<1>3. Inside(a, t, 0)
 <2>1. 0 \in Nat /\ 0 + n = n /\ n <= n + p /\ \A j \in 1..n : 0 + j = j BY <1>1
 <2>2. ASSUME n < Len(t) PROVE NoResults(t[n + 1])
  <3>1. 1 \in 1..p /\ b # <<>> BY <1>1, <1>2, <2>2
  <3> QED BY <1>2, <3>1 DEF Begins
 <2> QED BY <1>2, <2>1, <2>2 DEF Inside
<1>4. Inside(b, t, n) BY <1>1, <1>2 DEF Inside
<1> SUFFICES ASSUME NEW i \in 1..Len(t) PROVE Closes(t, i) BY DEF Closed, t
<1>5. CASE i <= n
 <2>1. i \in 1..n /\ 0 + i = i BY <1>1, <1>2, <1>5
 <2>2. Closes(a, i) BY <2>1 DEF Closed
 <2>3. Closes(t, 0 + i) BY <1>2, <1>3, <2>1, <2>2, ClosesInside
 <2> QED BY <2>1, <2>3
<1>6. CASE ~(i <= n)
 <2> DEFINE h == i - n
 <2>1. h \in 1..p /\ n + h = i BY <1>1, <1>2, <1>6
 <2> HIDE DEF h
 <2>2. Closes(b, h) BY <2>1 DEF Closed
 <2>3. Closes(t, n + h)
  <3> HIDE DEF n
  <3> QED BY <1>2, <1>4, <2>1, <2>2, ClosesInside
 <2> QED BY <2>1, <2>3
<1> QED BY <1>5, <1>6

----------------------------------------
\* What a tool message is shown as: messages that hold results and nothing else, at
\* least one each.
ResultBlock == OfKind(Block, "result")
HoldsResults(m) == /\ m.role \in {"user", "tool"}
                   /\ m.content \in Seq(ResultBlock) /\ m.content # <<>>

LEMMA OneResult ==
    ASSUME NEW p \in Block, p.kind = "result"
    PROVE  /\ TextResult(p).err = "none" => TextResult(p).out \in Seq(ResultBlock)
           /\ \A c \in Caches : provider # "gemini" /\ toolResultBlock(p, c).err = "none" =>
                                   toolResultBlock(p, c).out \in Seq(ResultBlock)
           /\ provider = "gemini" /\ geminiToolResult(p).err = "none" =>
                 geminiToolResult(p).out \in Seq(ResultBlock)
<1>1. Unsupported.err # "none" BY DEF Unsupported, Fail
<1>2. TextResult(p).err = "none" => TextResult(p).out \in Seq(ResultBlock)
 <2> SUFFICES ASSUME TextResult(p).err = "none" PROVE TextResult(p).out \in Seq(ResultBlock)
   OBVIOUS
 <2>1. TextResult(p) = IF HasMedia(p.content) THEN Unsupported ELSE Ok(<<AsText(p)>>)
   BY DEF TextResult, AsText
 <2>2. ~HasMedia(p.content) /\ TextResult(p).out = <<AsText(p)>> BY <1>1, <2>1 DEF Ok
 <2>3. AsText(p) \in ResultBlock BY <2>2, AsTextReads DEF SameReading, OfKind, ResultBlock
 <2> QED BY <2>2, <2>3
<1>3. ASSUME NEW c \in Caches, provider # "gemini", toolResultBlock(p, c).err = "none"
      PROVE  toolResultBlock(p, c).out \in Seq(ResultBlock)
 <2> DEFINE cache   == resolveCacheControl(c, p.cache)
            content == Each(p.content, LAMBDA x : contentBlock(x, cache))
            q       == [p EXCEPT !.content = content.out, !.name = ""]
            b       == [q EXCEPT !.cache = cache]
 <2>1. toolResultBlock(p, c) = IF content.err # "none" THEN content ELSE applyCacheControl(q, cache)
   BY DEF toolResultBlock
 <2>2. p \in ToolResultPart(Atoms) BY BlockKinds
 <2>3. b.kind = "result"
  <3> HIDE DEF content, cache
  <3> QED BY <2>2 DEF ToolResultPart
 <2> HIDE DEF content, cache, q, b
 <2>4. applyCacheControl(q, cache) = IF cache = "other" THEN Fail("cache_control.type") ELSE Ok(<<b>>)
   BY DEF applyCacheControl, b
 <2>5. toolResultBlock(p, c).out = <<b>> BY <1>3, <2>1, <2>4 DEF Fail, Ok
 <2>6. toolResultBlock(p, c).out \in Seq(Block) BY <1>3, AnthropicToolResult DEF Becomes
 <2>7. b \in Block
  <3>1. 1 \in 1..Len(<<b>>) /\ <<b>>[1] = b OBVIOUS
  <3> QED BY <2>5, <2>6, <3>1, ElementOfSeq
 <2> QED BY <2>3, <2>5, <2>7 DEF OfKind, ResultBlock
<1>4. ASSUME provider = "gemini", geminiToolResult(p).err = "none"
      PROVE  geminiToolResult(p).out \in Seq(ResultBlock)
 <2>1. ~HasMedia(p.content) BY <1>1, <1>4 DEF geminiToolResult
 <2>2. PICK r : geminiToolResult(p).out = <<r>> /\ SameReading(r, p) /\ r.kind = "result"
   BY <1>4, <2>1, GeminiResultIs
 <2> QED BY <2>2 DEF SameReading, OfKind, ResultBlock
<1> QED BY <1>2, <1>3, <1>4

\* What a message has of a kind is what it reads as.
LEMMA NoneRead ==
    ASSUME NEW s \in Seq(Block), NEW k \in {"call", "result"}
    PROVE  Kind(s, k) = <<>> <=> Spread(s, Read(k)) = <<>>
<1>1. Kind(s, k) \in Seq(Block) /\ Len(Kind(s, k)) \in Nat BY KindIsSpread
<1>2. Spread(s, Read("call")) = [i \in DOMAIN Kind(s, "call") |-> CallSays(Kind(s, "call")[i])]
      /\ Spread(s, Read("result")) = [i \in DOMAIN Kind(s, "result") |-> ResultSays(Kind(s, "result")[i])]
  BY ListedIs DEF Listed
<1>3. ASSUME NEW t \in Seq(Block), NEW f, f = [i \in DOMAIN t |-> f[i]] PROVE t = <<>> <=> f = <<>>
 <2>1. DOMAIN t = DOMAIN f BY <1>3
 <2> QED BY <1>3, <2>1
<1>4. Spread(s, Read(k)) = [i \in DOMAIN Kind(s, k) |-> Spread(s, Read(k))[i]] BY <1>2
<1> QED BY <1>1, <1>3, <1>4

LEMMA ToolMessageShown ==
    ASSUME provider \in Providers, NEW m \in BlockMessage, m.role = "tool",
           MessageOf(provider, m).err = "none"
    PROVE  LET out == MessageOf(provider, m).out
           IN  \A j \in 1..Len(out) : HoldsResults(out[j])
<1> DEFINE out == MessageOf(provider, m).out
           s   == Kind(m.content, "result")
<1>1. /\ s \in Seq(Block) /\ Len(s) \in Nat /\ DOMAIN s = 1..Len(s)
      /\ \A i \in DOMAIN s : s[i] \in Block /\ s[i].kind = "result"
  BY KindBlocks
<1>2. m.cache \in Caches BY MessageContent
<1>3. Unsupported.err # "none" BY DEF Unsupported, Fail
<1>4. CASE provider \in {"openai", "ollama"}
 <2> DEFINE results == [i \in DOMAIN s |-> TextResult(s[i])]
            q       == ToolResults(m, TextResult)
 <2>1. q.err = "none" /\ out = EachItsOwn(q.out) BY <1>4, MessageShape
 <2>2. q = IF s = <<>> THEN Unsupported ELSE Collect(results) BY DEF ToolResults, Each
 <2> HIDE DEF q, out
 <2>3. q = Collect(results) BY <1>3, <2>1, <2>2
 <2>4. \A i \in 1..Len(s) : results[i].err = "none" => results[i].out \in Seq(ResultBlock)
   BY <1>1, OneResult
 <2>5. DOMAIN results = 1..Len(s) /\ Len(results) = Len(s) BY <1>1
 <2> HIDE DEF results, s
 <2>6. q.out \in Seq(ResultBlock) BY <1>1, <2>1, <2>3, <2>4, <2>5, CollectType
 <2> DEFINE c == q.out
 <2>7. \A j \in DOMAIN c : c[j] \in ResultBlock /\ [c[j] EXCEPT !.name = ""] \in ResultBlock
  <3>1. "" \in Strings BY StringsAssumption
  <3> SUFFICES ASSUME NEW j \in DOMAIN c
               PROVE  c[j] \in ResultBlock /\ [c[j] EXCEPT !.name = ""] \in ResultBlock
    OBVIOUS
  <3>2. c[j] \in ResultBlock BY <2>6
  <3>3. c[j] \in ToolResultPart(Atoms) BY <3>2, BlockKinds DEF ResultBlock, OfKind
  <3> HIDE DEF c
  <3>4. [c[j] EXCEPT !.name = ""] \in ToolResultPart(Atoms) BY <3>1, <3>3 DEF ToolResultPart
  <3>5. ToolResultPart(Atoms) \subseteq ResultBlock
    BY DEF ToolResultPart, ResultBlock, OfKind, Block, ContentPart
  <3> QED BY <3>2, <3>4, <3>5
 <2>8. DOMAIN out = DOMAIN c /\ \A j \in DOMAIN c :
           out[j] = [role |-> "tool", content |-> <<[c[j] EXCEPT !.name = ""]>>]
   BY <2>1 DEF EachItsOwn
 <2> HIDE DEF c
 <2>9. \A j \in DOMAIN out : HoldsResults(out[j])
  <3> SUFFICES ASSUME NEW j \in DOMAIN out PROVE HoldsResults(out[j]) OBVIOUS
  <3> DEFINE x == [c[j] EXCEPT !.name = ""]
  <3>1. x \in ResultBlock /\ out[j] = [role |-> "tool", content |-> <<x>>] BY <2>7, <2>8
  <3> HIDE DEF x
  <3> QED BY <3>1 DEF HoldsResults
 <2>10. \A j \in 1..Len(out) : j \in DOMAIN out
  <3>1. out \in Seq(RequestMessage) BY MessageKept DEF Kept, out
  <3> QED BY <3>1
 <2> QED BY <2>9, <2>10 DEF out
<1>5. CASE provider \in {"anthropic", "gemini"}
 <2> DEFINE results == [i \in DOMAIN s |-> IF provider = "gemini" THEN geminiToolResult(s[i])
                                           ELSE toolResultBlock(s[i], m.cache)]
            r == IF s = <<>> THEN Unsupported ELSE Collect(results)
 <2>1. MessageOf(provider, m) = Wrap("user", r)
  <3>1. CASE provider = "gemini"
    BY <3>1, RolesApart DEF MessageOf, geminiMessage, toolResultContent, ToolResults, Each
  <3>2. CASE provider = "anthropic"
    BY <3>2, RolesApart DEF MessageOf, anthropicMessage, toolResultMessage, ToolResults, Each
  <3> QED BY <1>5, <3>1, <3>2
 <2> HIDE DEF out
 <2>2. r.err = "none" /\ out = <<[role |-> "user", content |-> r.out]>>
  <3> HIDE DEF r
  <3> QED BY <2>1, WrapIs DEF out
 <2>3. r = Collect(results) /\ s # <<>> BY <1>3, <2>2
 <2>4. \A i \in 1..Len(s) : results[i].err = "none" => results[i].out \in Seq(ResultBlock)
   BY <1>1, <1>2, OneResult
 <2>5. DOMAIN results = 1..Len(s) /\ Len(results) = Len(s) BY <1>1
 <2> HIDE DEF results, r, s
 <2>6. r.out \in Seq(ResultBlock) BY <1>1, <2>2, <2>3, <2>4, <2>5, CollectType
 <2>7. r.out # <<>>
  <3>1. Kept(m, out) BY MessageKept DEF out
  <3>2. Seen("result", Roles, {"tool"}) BY DEF Seen, Roles
  <3> DEFINE f == Tell(RequestMessage, "result", Roles)
             x == [role |-> "user", content |-> r.out]
  <3>3. Spread(out, f) = Tell(BlockMessage, "result", {"tool"})[m] BY <3>1, <3>2 DEF Kept
  <3>4. Tell(BlockMessage, "result", {"tool"})[m] = Spread(m.content, Read("result")) BY DEF Tell
  <3>5. Spread(m.content, Read("result")) # <<>> BY <2>3, MessageContent, NoneRead DEF s
  <3>6. x \in RequestMessage
   <4>1. "user" \in Strings BY StringsAssumption DEF Roles
   <4>2. r.out \in Seq(Block)
    <5>1. ResultBlock \subseteq Block BY DEF ResultBlock, OfKind
    <5> QED BY <2>6, <5>1, SeqMonotonic
   <4> QED BY <4>1, <4>2 DEF RequestMessage
  <3>7. f[x] = Spread(r.out, Read("result")) BY <3>6 DEF Tell, Roles
  <3>8. out = <<x>> BY <2>2
  <3> HIDE DEF x, f
  <3>9. Spread(out, f) = f[x] BY <3>6, <3>8, TellType, SpreadOne DEF f, Readable
  <3> QED BY <3>3, <3>4, <3>5, <3>7, <3>9, SpreadEmpty
 <2>8. HoldsResults([role |-> "user", content |-> r.out]) BY <2>6, <2>7 DEF HoldsResults
 <2> QED BY <2>2, <2>8 DEF out
<1> QED BY <1>4, <1>5 DEF Providers

\* What a message is shown as: one of user or assistant as one of the same role, with
\* its words and its calls; a tool message as its results; and no calls come from a
\* message without any.
Contents(s) == FlattenSeq([j \in DOMAIN s |-> s[j].content])

ShowsTalk(m, s) ==
    \E c \in Seq(Block) :
        /\ s = <<[role |-> m.role, content |-> c]>>
        /\ Spread(c, Read("text")) = Spread(m.content, Read("text"))
        /\ Spread(c, Read("call")) = IF m.role = "assistant" THEN Spread(m.content, Read("call")) ELSE <<>>
        /\ Spread(c, Read("result")) = <<>>
ShowsResults(m, s) ==
    /\ \A j \in 1..Len(s) : HoldsResults(s[j])
    /\ Spread(Contents(s), Read("result")) = Spread(m.content, Read("result"))
Shows(m, s) ==
    /\ s \in Seq(RequestMessage)
    /\ m.role \in Talk => ShowsTalk(m, s)
    /\ m.role = "tool" => ShowsResults(m, s)
    /\ Spread(m.content, Read("call")) = <<>> => \A j \in 1..Len(s) : Kind(s[j].content, "call") = <<>>

LEMMA OneShown ==
    ASSUME provider \in Providers, NEW m \in BlockMessage, NEW x,
           MessageOf(provider, m).err = "none", MessageOf(provider, m).out = <<x>>, x.role \in Roles
    PROVE  /\ x \in RequestMessage /\ x.content \in Seq(Block)
           /\ Spread(x.content, Read("call"))
                = IF m.role = "assistant" THEN Spread(m.content, Read("call")) ELSE <<>>
           /\ Spread(x.content, Read("result"))
                = IF m.role = "tool" THEN Spread(m.content, Read("result")) ELSE <<>>
           /\ x.role \in Talk /\ m.role \in Talk =>
                 Spread(x.content, Read("text")) = Spread(m.content, Read("text"))
<1> DEFINE out == MessageOf(provider, m).out
<1>1. Kept(m, out) BY MessageKept
<1>2. x \in RequestMessage /\ x.content \in Seq(Block)
 <2>1. <<x>> \in Seq(RequestMessage) BY <1>1 DEF Kept
 <2>2. x \in RequestMessage
  <3>1. 1 \in 1..Len(<<x>>) /\ <<x>>[1] = x OBVIOUS
  <3> QED BY <2>1, <3>1, ElementOfSeq
 <2> QED BY <2>2 DEF RequestMessage
<1> HIDE DEF out
<1>3. ASSUME NEW k \in Readable, NEW to, NEW from, Seen(k, to, from), x.role \in to
      PROVE  Spread(x.content, Read(k)) = IF m.role \in from THEN Spread(m.content, Read(k)) ELSE <<>>
 <2> DEFINE f == Tell(RequestMessage, k, to)
 <2>1. Spread(out, f) = Tell(BlockMessage, k, from)[m] BY <1>1, <1>3 DEF Kept
 <2>2. Tell(BlockMessage, k, from)[m] = IF m.role \in from THEN Spread(m.content, Read(k)) ELSE <<>>
   BY DEF Tell
 <2>3. f[x] = Spread(x.content, Read(k)) BY <1>2, <1>3 DEF Tell
 <2>4. out = <<x>> BY DEF out
 <2>5. f \in Maps(RequestMessage, Meant) BY TellType
 <2> HIDE DEF f
 <2>6. Spread(out, f) = f[x] BY <1>2, <2>4, <2>5, SpreadOne
 <2> QED BY <2>1, <2>2, <2>3, <2>6
<1>4. /\ Seen("call", Roles, {"assistant"}) /\ Seen("result", Roles, {"tool"})
      /\ Seen("text", Talk, Talk)
  BY DEF Seen, Roles
<1>5. {"call", "result", "text"} \subseteq Readable BY DEF Readable
<1>6. Spread(x.content, Read("call"))
        = IF m.role \in {"assistant"} THEN Spread(m.content, Read("call")) ELSE <<>>
  BY <1>3, <1>4, <1>5
<1>7. Spread(x.content, Read("result"))
        = IF m.role \in {"tool"} THEN Spread(m.content, Read("result")) ELSE <<>>
  BY <1>3, <1>4, <1>5
<1>8. x.role \in Talk =>
        Spread(x.content, Read("text")) = IF m.role \in Talk THEN Spread(m.content, Read("text")) ELSE <<>>
  BY <1>3, <1>4, <1>5
<1> QED BY <1>2, <1>6, <1>7, <1>8

\* Nothing but results is read of contents that hold nothing else.
LEMMA ContentsRead ==
    ASSUME NEW s \in Seq(RequestMessage), \A j \in 1..Len(s) : s[j].role \in Roles
    PROVE  /\ Contents(s) \in Seq(Block)
           /\ Spread(Contents(s), Read("result")) = Spread(s, Tell(RequestMessage, "result", Roles))
<1> DEFINE ss == [j \in DOMAIN s |-> s[j].content]
           f  == Tell(RequestMessage, "result", Roles)
<1>1. DOMAIN s = 1..Len(s) /\ Len(s) \in Nat /\ \A j \in DOMAIN s : s[j] \in RequestMessage OBVIOUS
<1>2. ss \in Seq(Seq(Block)) /\ DOMAIN ss = DOMAIN s
 <2>1. \A j \in DOMAIN s : s[j].content \in Seq(Block) BY <1>1 DEF RequestMessage
 <2> QED BY <1>1, <2>1
<1>3. Contents(s) = FlattenSeq(ss) BY DEF Contents
<1>4. \A j \in DOMAIN s : ss[j] = s[j].content OBVIOUS
<1>5. \A j \in DOMAIN s : f[s[j]] = Spread(s[j].content, Read("result")) BY <1>1 DEF Tell
<1> HIDE DEF ss, f
<1>6. [j \in DOMAIN ss |-> Spread(ss[j], Read("result"))] = [j \in DOMAIN s |-> f[s[j]]]
  BY <1>2, <1>4, <1>5
<1>7. Read("result") \in Maps(Block, Meant) BY ReadIs DEF Readable
<1>8. Spread(FlattenSeq(ss), Read("result")) = FlattenSeq([j \in DOMAIN ss |-> Spread(ss[j], Read("result"))])
  BY <1>2, <1>7, SpreadFlatten
<1>9. FlattenSeq(ss) \in Seq(Block) BY <1>2, FlattenType
<1> QED BY <1>3, <1>6, <1>8, <1>9 DEF Spread, f

LEMMA MessageShows ==
    ASSUME provider \in Providers, NEW m \in HeapMessage, MessageOf(provider, m).err = "none"
    PROVE  Shows(m, MessageOf(provider, m).out)
<1> DEFINE out == MessageOf(provider, m).out
<1>1. m \in BlockMessage /\ m.content \in Seq(Block) BY SaidTypes
<1>2. m.role \in Roles BY MessageShape
<1>3. Kept(m, out) BY <1>1, MessageKept
<1>4. out \in Seq(RequestMessage) BY <1>3 DEF Kept
<1>5. CASE m.role # "tool"
 <2>1. PICK c : out = <<[role |-> ShownRole(provider, m.role), content |-> c]>>
   BY <1>5, MessageShape
 <2> DEFINE x == [role |-> ShownRole(provider, m.role), content |-> c]
 <2>2. /\ ShownRole(provider, m.role) \in Roles
       /\ m.role \in Talk => ShownRole(provider, m.role) = m.role
   BY <1>2, <1>5, RolesApart DEF ShownRole, Roles, Talk
 <2>3. x.role = ShownRole(provider, m.role) /\ x.content = c OBVIOUS
 <2>4. out = <<x>> BY <2>1
 <2> HIDE DEF x
 <2>5. /\ x.content \in Seq(Block)
       /\ Spread(x.content, Read("call"))
            = IF m.role = "assistant" THEN Spread(m.content, Read("call")) ELSE <<>>
       /\ Spread(x.content, Read("result"))
            = IF m.role = "tool" THEN Spread(m.content, Read("result")) ELSE <<>>
       /\ x.role \in Talk /\ m.role \in Talk =>
             Spread(x.content, Read("text")) = Spread(m.content, Read("text"))
   BY <1>1, <2>2, <2>3, <2>4, OneShown
 <2>6. m.role \in Talk => ShowsTalk(m, out) BY <1>5, <2>1, <2>2, <2>3, <2>5 DEF ShowsTalk
 <2>7. Spread(m.content, Read("call")) = <<>> => Kind(x.content, "call") = <<>> BY <2>5, NoneRead
 <2>8. \A j \in 1..Len(out) : out[j] = x BY <2>4
 <2> QED BY <1>4, <1>5, <2>6, <2>7, <2>8 DEF Shows
<1>6. CASE m.role = "tool"
 <2>1. \A j \in 1..Len(out) : HoldsResults(out[j]) BY <1>1, <1>6, ToolMessageShown
 <2>2. Seen("result", Roles, {"tool"}) BY DEF Seen, Roles
 <2>3. Spread(out, Tell(RequestMessage, "result", Roles)) = Spread(m.content, Read("result"))
   BY <1>1, <1>3, <1>6, <2>2 DEF Kept, Tell
 <2> HIDE DEF out
 <2>4. \A j \in 1..Len(out) : out[j].role \in Roles BY <2>1 DEF HoldsResults, Roles
 <2>5. ShowsResults(m, out) BY <1>4, <2>1, <2>3, <2>4, ContentsRead DEF ShowsResults
 <2>6. \A j \in 1..Len(out) : Kind(out[j].content, "call") = <<>>
  <3> SUFFICES ASSUME NEW j \in 1..Len(out) PROVE Kind(out[j].content, "call") = <<>> OBVIOUS
  <3> DEFINE t == out[j].content
  <3>1. t \in Seq(ResultBlock) BY <2>1 DEF HoldsResults
  <3> HIDE DEF t
  <3>2. \A i \in 1..Len(t) : t[i].kind # "call" BY <3>1 DEF ResultBlock, OfKind
  <3> QED BY <3>1, <3>2, NoneOfKind DEF t
 <2>7. m.role \notin Talk BY <1>6 DEF Talk
 <2> QED BY <1>4, <2>5, <2>6, <2>7 DEF Shows, out
<1> QED BY <1>5, <1>6

----------------------------------------
\* How the messages of a trace may be shown, whatever others wrote on them.
Views(h) == {s \in Seq(RequestMessage) : \E m \in HeapMessage : Bare(m) = h /\ Shows(m, s)}

LEMMA MarksAreNoCalls ==
    ASSUME NEW s \in Seq(HeapPart), NEW k \in {"call", "result"}
    PROVE  Spread(Without(s), Read(k)) = Spread(s, Read(k))
<1>1. Mark \in Block /\ Mark.kind = "text" BY NativeIsBlock DEF HeapPart, Mark, Text
<1>2. Read(k)[Mark] = <<>> BY <1>1, ReadIs
<1>3. Read(k) \in Maps(Block, Meant) BY ReadIs DEF Readable
<1> QED BY <1>2, <1>3, WithoutMarks

LEMMA AnswerViews ==
    ASSUME NEW content \in Seq(NativePart), NEW s \in Views(Message("assistant", content))
    PROVE  \E c \in Seq(Block) : /\ s = <<[role |-> "assistant", content |-> c]>>
                                 /\ Spread(c, Read("call")) = Spread(content, Read("call"))
                                 /\ Spread(c, Read("result")) = <<>>
<1>1. PICK m \in HeapMessage : Bare(m) = Message("assistant", content) /\ Shows(m, s) BY DEF Views
<1>2. m.role = "assistant" /\ Without(m.content) = content BY <1>1, BareFields, MessageFields
<1>3. ShowsTalk(m, s) BY <1>1, <1>2 DEF Shows, Talk
<1>4. PICK c \in Seq(Block) :
        /\ s = <<[role |-> m.role, content |-> c]>>
        /\ Spread(c, Read("call")) = IF m.role = "assistant" THEN Spread(m.content, Read("call")) ELSE <<>>
        /\ Spread(c, Read("result")) = <<>>
  BY <1>3 DEF ShowsTalk
<1>5. Spread(content, Read("call")) = Spread(m.content, Read("call"))
  BY <1>2, HeapParts, MarksAreNoCalls
<1> QED BY <1>2, <1>4, <1>5

LEMMA ResultsViews ==
    ASSUME NEW results \in Seq(NativePart), NEW s \in Views(Message("tool", results))
    PROVE  /\ s \in Seq(RequestMessage)
           /\ \A j \in 1..Len(s) : HoldsResults(s[j])
           /\ Spread(Contents(s), Read("result")) = Spread(results, Read("result"))
<1>1. PICK m \in HeapMessage : Bare(m) = Message("tool", results) /\ Shows(m, s) BY DEF Views
<1>2. m.role = "tool" /\ Without(m.content) = results BY <1>1, BareFields, MessageFields
<1>3. ShowsResults(m, s) /\ s \in Seq(RequestMessage) BY <1>1, <1>2 DEF Shows
<1>4. Spread(results, Read("result")) = Spread(m.content, Read("result"))
  BY <1>2, HeapParts, MarksAreNoCalls
<1> QED BY <1>3, <1>4 DEF ShowsResults

LEMMA FeedbackViews ==
    ASSUME NEW n \in Nat, NEW s \in Views(Feedback(n))
    PROVE  \E c \in Seq(Block) : /\ s = <<[role |-> "user", content |-> c]>>
                                 /\ Spread(c, Read("call")) = <<>>
                                 /\ Spread(c, Read("result")) = <<>>
                                 /\ Contains(TextFromParts(c), <<"feedback", n>>)
<1> DEFINE p == Text(<< <<"feedback", n>> >>)
<1>1. PICK m \in HeapMessage : Bare(m) = Feedback(n) /\ Shows(m, s) BY DEF Views
<1>2. m.role = "user" /\ Without(m.content) = <<p>>
  BY <1>1, BareFields, MessageFields DEF Feedback, NewUserMessage
<1>3. ShowsTalk(m, s) BY <1>1, <1>2 DEF Shows, Talk
<1>4. PICK c \in Seq(Block) :
        /\ s = <<[role |-> m.role, content |-> c]>>
        /\ Spread(c, Read("text")) = Spread(m.content, Read("text"))
        /\ Spread(c, Read("call")) = IF m.role = "assistant" THEN Spread(m.content, Read("call")) ELSE <<>>
        /\ Spread(c, Read("result")) = <<>>
  BY <1>3 DEF ShowsTalk
<1>5. m.content \in Seq(HeapPart) /\ m.content \in Seq(Block) /\ DOMAIN m.content = 1..Len(m.content)
      /\ Len(m.content) \in Nat
  BY HeapParts, SaidTypes
<1>6. PICK i \in 1..Len(m.content) : m.content[i] = p
 <2>1. 1 \in 1..Len(Without(m.content)) /\ Without(m.content)[1] = p BY <1>2
 <2> HIDE DEF p
 <2> QED BY <1>5, <2>1, WithoutHas
<1>7. Read("text")[p] = << <<"feedback", n>> >>
 <2>1. p \in Block BY <1>5, <1>6, ElementOfSeq
 <2>2. p.kind = "text" /\ p.text = << <<"feedback", n>> >> BY DEF Text
 <2> HIDE DEF p
 <2> QED BY <2>1, <2>2, ReadIs
<1> DEFINE ss == [j \in DOMAIN m.content |-> Read("text")[m.content[j]]]
<1>8. ss \in Seq(Seq(Meant))
 <2>1. Read("text") \in Maps(Block, Meant) BY ReadIs DEF Readable
 <2> QED BY <1>5, <2>1, SpreadType
<1>9. Len(ss) = Len(m.content) /\ ss[i] = << <<"feedback", n>> >> BY <1>5, <1>6, <1>7
<1> HIDE DEF ss
<1>10. Contains(FlattenSeq(ss), <<"feedback", n>>)
 <2>1. 1 \in 1..Len(ss[i]) /\ ss[i][1] = <<"feedback", n>> BY <1>9
 <2>2. i \in 1..Len(ss) BY <1>9
 <2>3. \E j \in 1..Len(FlattenSeq(ss)) : FlattenSeq(ss)[j] = ss[i][1]
   BY <1>8, <2>1, <2>2, FlattenHas
 <2>4. \E j \in 1..Len(FlattenSeq(ss)) : FlattenSeq(ss)[j] = <<"feedback", n>> BY <2>1, <2>3
 <2> QED BY <2>4 DEF Contains
<1>11. TextFromParts(c) = Spread(m.content, Read("text")) BY <1>4, TextIsSpread
<1> QED BY <1>2, <1>4, <1>10, <1>11 DEF Spread, ss

\* Whoever reads the same of calls and of results finds each call answered.
LEMMA AnswersByReading ==
    ASSUME NEW content \in Seq(Block), NEW results \in Seq(ResultBlock),
           Belong(results, Kind(content, "call")),
           NEW c \in Seq(Block), Spread(c, Read("call")) = Spread(content, Read("call")),
           NEW t \in Seq(ResultBlock), Spread(t, Read("result")) = Spread(results, Read("result"))
    PROVE  Answers(t, Kind(c, "call"))
<1> DEFINE calls == Kind(content, "call")
           shown == Kind(c, "call")
<1>1. calls \in Seq(Block) /\ shown \in Seq(Block) BY KindIsSpread
<1>2. /\ [k \in DOMAIN calls |-> CallSays(calls[k])] = Spread(content, Read("call"))
      /\ [k \in DOMAIN shown |-> CallSays(shown[k])] = Spread(c, Read("call"))
  BY ListedIs DEF Listed
<1>3. Kind(t, "result") = t /\ Kind(results, "result") = results /\ t \in Seq(Block) /\ results \in Seq(Block)
  BY AllOfKind DEF ResultBlock
<1>4. /\ [k \in DOMAIN t |-> ResultSays(t[k])] = Spread(t, Read("result"))
      /\ [k \in DOMAIN results |-> ResultSays(results[k])] = Spread(results, Read("result"))
 <2>1. /\ Listed(Kind(t, "result"), ResultSays) = Spread(t, Read("result"))
       /\ Listed(Kind(results, "result"), ResultSays) = Spread(results, Read("result"))
   BY <1>3, ListedIs
 <2> QED BY <1>3, <2>1 DEF Listed
<1> HIDE DEF calls, shown
<1>5. [k \in DOMAIN shown |-> CallSays(shown[k])] = [k \in DOMAIN calls |-> CallSays(calls[k])]
  BY <1>2
<1>6. [k \in DOMAIN t |-> ResultSays(t[k])] = [k \in DOMAIN results |-> ResultSays(results[k])]
  BY <1>4
<1>7. DOMAIN shown = DOMAIN calls /\ \A k \in DOMAIN calls : CallSays(shown[k]) = CallSays(calls[k])
 <2> DEFINE F == [k \in DOMAIN shown |-> CallSays(shown[k])]
            G == [k \in DOMAIN calls |-> CallSays(calls[k])]
 <2>1. /\ DOMAIN F = DOMAIN shown /\ DOMAIN G = DOMAIN calls
       /\ \A k \in DOMAIN shown : F[k] = CallSays(shown[k])
       /\ \A k \in DOMAIN calls : G[k] = CallSays(calls[k])
   OBVIOUS
 <2>2. F = G BY <1>5
 <2> HIDE DEF F, G
 <2> QED BY <2>1, <2>2
<1>8. DOMAIN t = DOMAIN results /\ \A k \in DOMAIN results : ResultSays(t[k]) = ResultSays(results[k])
 <2> DEFINE F == [k \in DOMAIN t |-> ResultSays(t[k])]
            G == [k \in DOMAIN results |-> ResultSays(results[k])]
 <2>1. /\ DOMAIN F = DOMAIN t /\ DOMAIN G = DOMAIN results
       /\ \A k \in DOMAIN t : F[k] = ResultSays(t[k])
       /\ \A k \in DOMAIN results : G[k] = ResultSays(results[k])
   OBVIOUS
 <2>2. F = G BY <1>6
 <2> HIDE DEF F, G
 <2> QED BY <2>1, <2>2
<1>9. /\ DOMAIN calls = 1..Len(calls) /\ DOMAIN shown = 1..Len(shown) /\ DOMAIN t = 1..Len(t)
      /\ DOMAIN results = 1..Len(results)
      /\ Len(calls) \in Nat /\ Len(shown) \in Nat /\ Len(t) \in Nat /\ Len(results) \in Nat
  BY <1>1, <1>3
<1>10. Len(results) = Len(calls)
       /\ \A k \in 1..Len(calls) : results[k].id = calls[k].id /\ results[k].name = calls[k].name
  BY DEF Belong, calls
<1>11. Len(t) = Len(shown) /\ DOMAIN shown = DOMAIN results /\ DOMAIN calls = DOMAIN results
 <2>1. ASSUME NEW x \in Nat, NEW y \in Nat, 1..x = 1..y PROVE x = y
  <3>1. x # 0 => x \in 1..y BY <2>1
  <3>2. y # 0 => y \in 1..x BY <2>1
  <3> QED BY <3>1, <3>2
 <2>2. Len(t) = Len(results) /\ Len(shown) = Len(calls) BY <1>7, <1>8, <1>9, <2>1
 <2> QED BY <1>7, <1>9, <1>10, <2>2
<1>12. ASSUME NEW k \in DOMAIN shown
       PROVE  IF provider = "gemini" THEN t[k].name = shown[k].name ELSE t[k].id = shown[k].id
 <2>1. CallSays(shown[k]) = CallSays(calls[k]) /\ ResultSays(t[k]) = ResultSays(results[k])
   BY <1>7, <1>8, <1>11
 <2>2. results[k].id = calls[k].id /\ results[k].name = calls[k].name BY <1>9, <1>10, <1>11
 <2>3. CASE provider = "gemini"
  <3>1. CallSays(shown[k])[2] = shown[k].name /\ CallSays(calls[k])[2] = calls[k].name
    BY DEF CallSays
  <3>2. ResultSays(t[k])[1] = t[k].name /\ ResultSays(results[k])[1] = results[k].name
    BY <2>3 DEF ResultSays
  <3> QED BY <2>1, <2>2, <2>3, <3>1, <3>2
 <2>4. CASE provider # "gemini"
  <3>1. CallSays(shown[k])[1] = shown[k].id /\ CallSays(calls[k])[1] = calls[k].id
    BY <2>4 DEF CallSays
  <3>2. ResultSays(t[k])[1] = t[k].id /\ ResultSays(results[k])[1] = results[k].id
    BY <2>4 DEF ResultSays
  <3> QED BY <2>1, <2>2, <2>4, <3>1, <3>2
 <2> QED BY <2>3, <2>4
<1> QED BY <1>11, <1>12 DEF Answers, shown

\* Conversations that may follow any other.
ClosedTalk == {s \in Seq(RequestMessage) :
                  Closed(s) /\ Begins(s) /\ \A j \in 1..Len(s) : s[j].role # "system"}

LEMMA HoldsNoCalls ==
    ASSUME NEW m, HoldsResults(m)
    PROVE  Kind(m.content, "call") = <<>> /\ ~NoResults(m) /\ m.role # "system"
<1> DEFINE t == m.content
<1>1. t \in Seq(ResultBlock) /\ t # <<>> BY DEF HoldsResults
<1> HIDE DEF t
<1>2. \A i \in 1..Len(t) : t[i].kind = "result" BY <1>1 DEF ResultBlock, OfKind
<1>3. Kind(t, "call") = <<>> BY <1>1, <1>2, NoneOfKind
<1>4. Kind(t, "result") = t BY <1>1, AllOfKind DEF ResultBlock
<1> QED BY <1>1, <1>3, <1>4 DEF NoResults, t, HoldsResults

LEMMA AnsweredIsClosed ==
    ASSUME NEW content \in Seq(NativePart), NEW results \in Seq(NativePart),
           Belong(results, Kind(content, "call")),
           NEW s \in Views(Message("assistant", content)), NEW r \in Views(Message("tool", results))
    PROVE  s \o r \in ClosedTalk
<1>1. PICK c \in Seq(Block) : /\ s = <<[role |-> "assistant", content |-> c]>>
                              /\ Spread(c, Read("call")) = Spread(content, Read("call"))
                              /\ Spread(c, Read("result")) = <<>>
  BY AnswerViews
<1>2. /\ r \in Seq(RequestMessage)
      /\ \A j \in 1..Len(r) : HoldsResults(r[j])
      /\ Spread(Contents(r), Read("result")) = Spread(results, Read("result"))
  BY ResultsViews
<1> DEFINE x == [role |-> "assistant", content |-> c]
           t == s \o r
           n == Len(r)
<1>3. s \in Seq(RequestMessage) /\ Len(s) = 1 /\ s[1] = x BY <1>1 DEF Views
<1>4. n \in Nat /\ t \in Seq(RequestMessage) /\ Len(t) = 1 + n /\ t[1] = x
      /\ \A j \in 1..n : t[1 + j] = r[j]
 <2>1. n \in Nat BY <1>2
 <2>2. \A j \in 1..n : (1 + j) - 1 = j /\ 1 + j \in 1..(1 + n) /\ ~(1 + j <= 1) BY <2>1
 <2>3. 1 \in 1..(1 + n) BY <2>1
 <2> HIDE DEF x
 <2>4. /\ t \in Seq(RequestMessage) /\ Len(t) = Len(s) + n
       /\ \A i \in 1..(Len(s) + n) : t[i] = IF i <= Len(s) THEN s[i] ELSE r[i - Len(s)]
   BY <1>2, <1>3, ConcatProperties
 <2> HIDE DEF t, n
 <2>5. Len(t) = 1 + n /\ \A i \in 1..(1 + n) : t[i] = IF i <= 1 THEN s[i] ELSE r[i - 1]
   BY <1>3, <2>4
 <2>6. t[1] = s[1] BY <2>3, <2>5
 <2>7. \A j \in 1..n : t[1 + j] = r[j] BY <2>2, <2>5
 <2> QED BY <1>3, <2>1, <2>4, <2>5, <2>6, <2>7
<1>5. NoResults(x) /\ x.content = c BY <1>1, NoneRead DEF NoResults
<1> HIDE DEF t, x
<1>6. Contents(r) \in Seq(ResultBlock)
 <2>1. [j \in DOMAIN r |-> r[j].content] \in Seq(Seq(ResultBlock))
  <3>1. DOMAIN r = 1..n BY <1>2
  <3>2. \A j \in 1..n : r[j].content \in Seq(ResultBlock) BY <1>2 DEF HoldsResults
  <3> QED BY <1>4, <3>1, <3>2
 <2> QED BY <2>1, FlattenType DEF Contents
<1>7. Following(t, 1) = Contents(r)
 <2>1. Run(t, 1, 1 + n)
  <3>1. 1 + n \in 1..Len(t) /\ ~(1 + n < Len(t)) BY <1>4
  <3>2. ASSUME NEW j \in (1 + 1)..(1 + n) PROVE ~NoResults(t[j])
   <4> DEFINE h == j - 1
   <4>1. h \in 1..n /\ 1 + h = j BY <1>4
   <4> HIDE DEF h
   <4> QED BY <1>2, <1>4, <4>1, HoldsNoCalls
  <3> QED BY <3>1, <3>2 DEF Run
 <2>2. Following(t, 1) = Gathered(t, 1, 1 + n) BY <1>4, <2>1, FollowingIs
 <2>3. [j \in 1..((1 + n) - 1) |-> t[1 + j].content] = [j \in DOMAIN r |-> r[j].content]
  <3>1. (1 + n) - 1 = n BY <1>4
  <3>2. DOMAIN r = 1..n BY <1>2
  <3> HIDE DEF n
  <3> QED BY <1>4, <3>1, <3>2
 <2> QED BY <2>2, <2>3 DEF Gathered, Contents
<1>8. Answers(Contents(r), Kind(c, "call"))
 <2>1. content \in Seq(Block) /\ results \in Seq(Block) BY NativeIsBlock, SeqMonotonic
 <2>2. Len(results) = Len(Kind(content, "call"))
       /\ \A k \in 1..Len(Kind(content, "call")) : results[k].kind = "result"
   BY DEF Belong
 <2>3. results \in Seq(ResultBlock)
  <3>1. \A k \in 1..Len(results) : results[k] \in ResultBlock
   <4> SUFFICES ASSUME NEW k \in 1..Len(results) PROVE results[k] \in ResultBlock OBVIOUS
   <4>1. results[k] \in Block BY <2>1, ElementOfSeq
   <4> QED BY <2>2, <4>1 DEF ResultBlock, OfKind
  <3> QED BY <2>1, <3>1
 <2> QED BY <1>1, <1>2, <1>6, <2>1, <2>3, AnswersByReading
<1>9. Closed(t)
 <2> SUFFICES ASSUME NEW i \in 1..Len(t) PROVE Closes(t, i) BY DEF Closed
 <2>1. CASE i = 1 BY <1>4, <1>5, <1>7, <1>8, <2>1 DEF Closes
 <2>2. CASE i # 1
  <3> DEFINE h == i - 1
  <3>1. h \in 1..n /\ 1 + h = i BY <1>4, <2>2
  <3> HIDE DEF h
  <3>2. Kind(t[i].content, "call") = <<>> BY <1>2, <1>4, <3>1, HoldsNoCalls
  <3> QED BY <3>2 DEF Closes
 <2> QED BY <2>1, <2>2
<1>10. \A j \in 1..Len(t) : t[j].role # "system"
 <2> SUFFICES ASSUME NEW j \in 1..Len(t) PROVE t[j].role # "system" OBVIOUS
 <2>1. CASE j = 1 BY <1>4, <2>1 DEF x
 <2>2. CASE j # 1
  <3> DEFINE h == j - 1
  <3>1. h \in 1..n /\ 1 + h = j BY <1>4, <2>2
  <3> HIDE DEF h
  <3> QED BY <1>2, <1>4, <3>1, HoldsNoCalls
 <2> QED BY <2>1, <2>2
<1> QED BY <1>4, <1>5, <1>9, <1>10 DEF ClosedTalk, Begins, t

LEMMA LoneIsClosed ==
    ASSUME NEW c \in Seq(Block), NEW role \in Talk,
           Kind(c, "call") = <<>>, Spread(c, Read("result")) = <<>>
    PROVE  <<[role |-> role, content |-> c]>> \in ClosedTalk
<1> DEFINE x == [role |-> role, content |-> c]
<1>1. x \in RequestMessage
 <2>1. role \in Strings BY StringsAssumption DEF Roles, Talk
 <2> QED BY <2>1 DEF RequestMessage
<1>2. NoResults(x) /\ x.content = c /\ x.role # "system" BY NoneRead DEF NoResults, Talk
<1> HIDE DEF x
<1>3. <<x>> \in Seq(RequestMessage) /\ Len(<<x>>) = 1 /\ <<x>>[1] = x /\ 1..1 = {1} BY <1>1
<1>4. Closed(<<x>>) BY <1>2, <1>3 DEF Closed, Closes
<1>5. Begins(<<x>>) BY <1>2, <1>3 DEF Begins
<1>6. <<x>> \in ClosedTalk BY <1>2, <1>3, <1>4, <1>5 DEF ClosedTalk
<1> QED BY <1>6 DEF x

LEMMA TwoAreConcat ==
    ASSUME NEW S, NEW x \in S, NEW y \in S
    PROVE  <<x>> \o <<y>> = <<x, y>>
<1> DEFINE a == <<x>>
           b == <<y>>
           t == <<x, y>>
<1>1. a \in Seq(S) /\ b \in Seq(S) /\ Len(a) = 1 /\ Len(b) = 1 /\ a[1] = x /\ b[1] = y OBVIOUS
<1>2. t \in Seq(S) /\ Len(t) = 2 /\ t[1] = x /\ t[2] = y OBVIOUS
<1> HIDE DEF a, b, t
<1>3. /\ a \o b \in Seq(S) /\ Len(a \o b) = 1 + 1
      /\ \A i \in 1..(1 + 1) : (a \o b)[i] = IF i <= 1 THEN a[i] ELSE b[i - 1]
  BY <1>1, ConcatProperties
<1>4. (a \o b)[1] = x /\ (a \o b)[2] = y BY <1>1, <1>3
<1>5. \A i \in 1..2 : i = 1 \/ i = 2 OBVIOUS
<1>6. a \o b = t BY <1>2, <1>3, <1>4, <1>5, SeqEqual
<1> QED BY <1>6 DEF a, b, t

LEMMA FedBackIsClosed ==
    ASSUME NEW n \in DOMAIN log, n \in Nat, log[n].kind = "validation",
           NEW content \in Seq(NativePart),
           NEW s \in Views(Message("assistant", content)), NEW r \in Views(Feedback(n))
    PROVE  s \o r \in ClosedTalk
<1>1. PICK c \in Seq(Block) : /\ s = <<[role |-> "assistant", content |-> c]>>
                              /\ Spread(c, Read("result")) = <<>>
  BY AnswerViews
<1>2. PICK d \in Seq(Block) : /\ r = <<[role |-> "user", content |-> d]>>
                              /\ Spread(d, Read("call")) = <<>>
                              /\ Spread(d, Read("result")) = <<>>
                              /\ Contains(TextFromParts(d), <<"feedback", n>>)
  BY FeedbackViews
<1> DEFINE x == [role |-> "assistant", content |-> c]
           y == [role |-> "user", content |-> d]
           t == <<x, y>>
<1>3. x \in RequestMessage /\ y \in RequestMessage /\ x.content = c /\ y.content = d
      /\ x.role # "system" /\ y.role # "system"
 <2>1. "assistant" \in Strings /\ "user" \in Strings BY StringsAssumption DEF Roles
 <2> QED BY <2>1 DEF RequestMessage
<1>4. s = <<x>> /\ r = <<y>> BY <1>1, <1>2
<1> HIDE DEF x, y
<1>5. s \o r = t BY <1>3, <1>4, TwoAreConcat
<1>6. t \in Seq(RequestMessage) /\ Len(t) = 2 /\ t[1] = x /\ t[2] = y /\ 1..2 = {1, 2} BY <1>3
<1> HIDE DEF t
<1>7. FeedbackFollows(t, 1)
 <2>1. 1 < Len(t) /\ t[1 + 1].content = d BY <1>3, <1>6
 <2> QED BY <1>2, <2>1 DEF FeedbackFollows
<1>8. Closes(t, 1) BY <1>7 DEF Closes
<1>9. Closes(t, 2)
 <2>1. Kind(t[2].content, "call") = <<>> BY <1>2, <1>3, <1>6, NoneRead
 <2> QED BY <2>1 DEF Closes
<1>10. Closed(t) BY <1>6, <1>8, <1>9 DEF Closed
<1>11. Begins(t)
 <2>1. NoResults(t[1]) BY <1>1, <1>3, <1>6, NoneRead DEF NoResults
 <2> QED BY <2>1 DEF Begins
<1> QED BY <1>3, <1>5, <1>6, <1>10, <1>11 DEF ClosedTalk

----------------------------------------
\* Parts of a conversation which are closed however they are shown.
IsView(w, c) == Len(w) = Len(c) /\ \A j \in 1..Len(c) : w[j] \in Views(c[j])
Chunks == {c \in Seq(NativeMessage) :
              \A w \in Seq(Seq(RequestMessage)) : IsView(w, c) => FlattenSeq(w) \in ClosedTalk}

LEMMA FlattenConcat ==
    ASSUME NEW S, NEW ss \in Seq(Seq(S)), NEW tt \in Seq(Seq(S))
    PROVE  FlattenSeq(ss \o tt) = FlattenSeq(ss) \o FlattenSeq(tt)
<1> DEFINE f == [s \in Seq(S) |-> s]
<1>1. f \in Maps(Seq(S), S) BY DEF Maps
<1>2. ASSUME NEW uu \in Seq(Seq(S)) PROVE Spread(uu, f) = FlattenSeq(uu)
 <2>1. [i \in DOMAIN uu |-> f[uu[i]]] = uu OBVIOUS
 <2> QED BY <2>1 DEF Spread
<1> HIDE DEF f
<1>3. ss \o tt \in Seq(Seq(S)) BY ConcatProperties
<1>4. Spread(ss \o tt, f) = Spread(ss, f) \o Spread(tt, f) BY <1>1, SpreadConcat
<1> QED BY <1>2, <1>3, <1>4

LEMMA FlattenFew ==
    ASSUME NEW S
    PROVE  /\ \A s \in Seq(S) : FlattenSeq(<<s>>) = s
           /\ \A s, t \in Seq(S) : FlattenSeq(<<s, t>>) = s \o t
<1>1. ASSUME NEW s \in Seq(S) PROVE FlattenSeq(<<s>>) = s
 <2>1. <<>> \in Seq(Seq(S)) /\ <<s>> = Append(<<>>, s) OBVIOUS
 <2>2. FlattenSeq(Append(<<>>, s)) = FlattenSeq(<<>>) \o s BY <2>1, FlattenAppend
 <2>3. <<>> \o s = s BY ConcatEmptySeq
 <2> QED BY <2>1, <2>2, <2>3, FlattenEmpty
<1>2. ASSUME NEW s \in Seq(S), NEW t \in Seq(S) PROVE FlattenSeq(<<s, t>>) = s \o t
 <2>1. <<s>> \in Seq(Seq(S)) /\ <<s, t>> = Append(<<s>>, t) OBVIOUS
 <2>2. FlattenSeq(Append(<<s>>, t)) = FlattenSeq(<<s>>) \o t BY <2>1, FlattenAppend
 <2> QED BY <1>1, <2>1, <2>2
<1> QED BY <1>1, <1>2

LEMMA ChunkOne ==
    ASSUME NEW h \in NativeMessage, \A s \in Views(h) : s \in ClosedTalk
    PROVE  <<h>> \in Chunks
<1> SUFFICES ASSUME NEW w \in Seq(Seq(RequestMessage)), IsView(w, <<h>>)
             PROVE  FlattenSeq(w) \in ClosedTalk
  BY DEF Chunks
<1>1. Len(w) = 1 /\ w[1] \in Views(h)
 <2>1. Len(<<h>>) = 1 /\ <<h>>[1] = h /\ 1 \in 1..1 OBVIOUS
 <2> QED BY <2>1 DEF IsView
<1>2. w[1] \in Seq(RequestMessage) /\ w = <<w[1]>> BY <1>1
<1> QED BY <1>1, <1>2, FlattenFew

LEMMA ChunkTwo ==
    ASSUME NEW h \in NativeMessage, NEW g \in NativeMessage,
           \A s \in Views(h) : \A r \in Views(g) : s \o r \in ClosedTalk
    PROVE  <<h, g>> \in Chunks
<1> SUFFICES ASSUME NEW w \in Seq(Seq(RequestMessage)), IsView(w, <<h, g>>)
             PROVE  FlattenSeq(w) \in ClosedTalk
  BY DEF Chunks
<1>1. Len(w) = 2 /\ w[1] \in Views(h) /\ w[2] \in Views(g)
 <2>1. Len(<<h, g>>) = 2 /\ <<h, g>>[1] = h /\ <<h, g>>[2] = g /\ 1 \in 1..2 /\ 2 \in 1..2 OBVIOUS
 <2> QED BY <2>1 DEF IsView
<1>2. w[1] \in Seq(RequestMessage) /\ w[2] \in Seq(RequestMessage) /\ w = <<w[1], w[2]>>
 <2> DEFINE T == Seq(RequestMessage)
            v == <<w[1], w[2]>>
 <2>1. w \in Seq(T) /\ 1 \in 1..Len(w) /\ 2 \in 1..Len(w) /\ 1..Len(w) = {1, 2} BY <1>1
 <2> HIDE DEF T
 <2>2. w[1] \in T /\ w[2] \in T BY <2>1, ElementOfSeq
 <2>3. v \in Seq(T) /\ Len(v) = 2 /\ v[1] = w[1] /\ v[2] = w[2] BY <2>2
 <2> HIDE DEF v
 <2>4. w = v BY <1>1, <2>1, <2>3, SeqEqual
 <2> QED BY <2>2, <2>4 DEF T, v
<1>3. FlattenSeq(<<w[1], w[2]>>) = w[1] \o w[2] BY <1>2, FlattenFew
<1> QED BY <1>1, <1>2, <1>3

LEMMA ClosedTalkConcat ==
    ASSUME NEW a \in ClosedTalk, NEW b \in ClosedTalk
    PROVE  a \o b \in ClosedTalk
<1> DEFINE n == Len(a)
           p == Len(b)
           t == a \o b
<1>1. /\ a \in Seq(RequestMessage) /\ Closed(a) /\ Begins(a) /\ \A j \in 1..n : a[j].role # "system"
      /\ b \in Seq(RequestMessage) /\ Closed(b) /\ Begins(b) /\ \A j \in 1..p : b[j].role # "system"
  BY DEF ClosedTalk
<1>2. Closed(t) BY <1>1, ClosedConcat
<1>3. /\ t \in Seq(RequestMessage) /\ Len(t) = n + p
      /\ \A j \in 1..(n + p) : t[j] = IF j <= n THEN a[j] ELSE b[j - n]
  BY <1>1, ConcatProperties
<1>4. n \in Nat /\ p \in Nat BY <1>1
<1> HIDE DEF t
<1>5. Begins(t)
 <2>1. CASE n = 0
  <3>1. a = <<>> /\ <<>> \o b = b BY <1>1, <2>1
  <3> QED BY <1>1, <3>1 DEF t
 <2>2. CASE n # 0
  <3>1. 1 <= n /\ 1 \in 1..(n + p) /\ a # <<>> BY <1>4, <2>2
  <3>2. t[1] = a[1] BY <1>3, <3>1
  <3> QED BY <1>1, <3>1, <3>2 DEF Begins
 <2> QED BY <2>1, <2>2
<1>6. \A j \in 1..Len(t) : t[j].role # "system"
 <2> SUFFICES ASSUME NEW j \in 1..(n + p) PROVE t[j].role # "system" BY <1>3
 <2>1. CASE j <= n
  <3>1. j \in 1..n /\ t[j] = a[j] BY <1>3, <1>4, <2>1
  <3> QED BY <1>1, <3>1
 <2>2. CASE ~(j <= n)
  <3>1. j - n \in 1..p /\ t[j] = b[j - n] BY <1>3, <1>4, <2>2
  <3> QED BY <1>1, <3>1
 <2> QED BY <2>1, <2>2
<1>7. t \in ClosedTalk BY <1>2, <1>3, <1>5, <1>6 DEF ClosedTalk
<1> QED BY <1>7 DEF t

LEMMA NothingIsClosed == <<>> \in ClosedTalk
  BY DEF ClosedTalk, Closed, Begins

\* A view of two parts is a view of the one and a view of the other.
LEMMA ViewSplit ==
    ASSUME NEW c \in Seq(NativeMessage), NEW d \in Seq(NativeMessage),
           NEW w \in Seq(Seq(RequestMessage)), IsView(w, c \o d)
    PROVE  \E u \in Seq(Seq(RequestMessage)), v \in Seq(Seq(RequestMessage)) :
              IsView(u, c) /\ IsView(v, d) /\ FlattenSeq(w) = FlattenSeq(u) \o FlattenSeq(v)
<1> DEFINE T == Seq(RequestMessage)
           n == Len(c)
           p == Len(d)
           b == c \o d
           u == SubSeq(w, 0 + 1, 0 + n)
           v == SubSeq(w, n + 1, n + p)
<1>1. n \in Nat /\ p \in Nat OBVIOUS
<1>2. /\ Len(b) = n + p
      /\ \A j \in 1..(n + p) : b[j] = IF j <= n THEN c[j] ELSE d[j - n]
  BY ConcatProperties
<1>3. Len(w) = n + p /\ \A j \in 1..(n + p) : w[j] \in Views(b[j]) BY <1>2 DEF IsView
<1>4. w \in Seq(T) OBVIOUS
<1> HIDE DEF n, p, b, T
<1>5. u \in Seq(T) /\ Len(u) = n /\ \A j \in 1..n : u[j] = w[0 + j]
 <2>1. 0 \in 0..Len(w) /\ 0 + n <= Len(w) BY <1>1, <1>3
 <2> QED BY <1>1, <1>4, <2>1, WindowIs
<1>6. v \in Seq(T) /\ Len(v) = p /\ \A j \in 1..p : v[j] = w[n + j]
 <2>1. n \in 0..Len(w) /\ n + p <= Len(w) BY <1>1, <1>3
 <2> QED BY <1>1, <1>4, <2>1, WindowIs
<1>7. u \o v = w
 <2>1. 1 \in 1..(Len(w) + 1) /\ n \in (1 - 1)..Len(w) /\ n + p \in n..Len(w) /\ n + p = Len(w)
       /\ 0 + 1 = 1 /\ 0 + n = n
   BY <1>1, <1>3
 <2>2. SubSeq(w, 1, n) \o SubSeq(w, n + 1, n + p) = SubSeq(w, 1, n + p)
  <3> DEFINE q == n + p
  <3>1. n \in (1 - 1)..Len(w) /\ q \in n..Len(w) /\ 1 \in 1..(Len(w) + 1) BY <2>1
  <3> HIDE DEF q
  <3>2. SubSeq(w, 1, n) \o SubSeq(w, n + 1, q) = SubSeq(w, 1, q)
    BY <1>4, <3>1, ConcatAdjacentSubSeq
  <3> QED BY <3>2 DEF q
 <2>3. SubSeq(w, 1, Len(w)) = w BY <1>4, SubSeqFull
 <2> QED BY <2>1, <2>2, <2>3
<1> HIDE DEF u, v
<1>8. IsView(u, c)
 <2>1. \A j \in 1..n : u[j] \in Views(c[j])
  <3> SUFFICES ASSUME NEW j \in 1..n PROVE u[j] \in Views(c[j]) OBVIOUS
  <3>1. j \in 1..(n + p) /\ j <= n /\ 0 + j = j BY <1>1
  <3> QED BY <1>2, <1>3, <1>5, <3>1
 <2> QED BY <1>5, <2>1 DEF IsView, n
<1>9. IsView(v, d)
 <2>1. \A j \in 1..p : v[j] \in Views(d[j])
  <3> SUFFICES ASSUME NEW j \in 1..p PROVE v[j] \in Views(d[j]) OBVIOUS
  <3>1. n + j \in 1..(n + p) /\ ~(n + j <= n) /\ (n + j) - n = j BY <1>1
  <3> QED BY <1>2, <1>3, <1>6, <3>1
 <2> QED BY <1>6, <2>1 DEF IsView, p
<1>10. FlattenSeq(w) = FlattenSeq(u) \o FlattenSeq(v)
 <2>1. u \in Seq(Seq(RequestMessage)) /\ v \in Seq(Seq(RequestMessage)) BY <1>5, <1>6 DEF T
 <2> QED BY <1>7, <2>1, FlattenConcat
<1> QED BY <1>5, <1>6, <1>8, <1>9, <1>10 DEF T

LEMMA ChunkConcat ==
    ASSUME NEW c \in Chunks, NEW d \in Chunks
    PROVE  c \o d \in Chunks
<1>1. c \in Seq(NativeMessage) /\ d \in Seq(NativeMessage) BY DEF Chunks
<1>2. c \o d \in Seq(NativeMessage) BY <1>1, ConcatProperties
<1>3. ASSUME NEW w \in Seq(Seq(RequestMessage)), IsView(w, c \o d)
      PROVE  FlattenSeq(w) \in ClosedTalk
 <2>1. PICK u \in Seq(Seq(RequestMessage)), v \in Seq(Seq(RequestMessage)) :
          IsView(u, c) /\ IsView(v, d) /\ FlattenSeq(w) = FlattenSeq(u) \o FlattenSeq(v)
   BY <1>1, <1>3, ViewSplit
 <2>2. FlattenSeq(u) \in ClosedTalk /\ FlattenSeq(v) \in ClosedTalk BY <2>1 DEF Chunks
 <2> QED BY <2>1, <2>2, ClosedTalkConcat
<1> QED BY <1>2, <1>3 DEF Chunks

LEMMA ChunkNone == <<>> \in Chunks
<1> SUFFICES ASSUME NEW w \in Seq(Seq(RequestMessage)), IsView(w, <<>>)
             PROVE  FlattenSeq(w) \in ClosedTalk
  BY DEF Chunks
<1>1. w = <<>> BY DEF IsView
<1> QED BY <1>1, FlattenEmpty, NothingIsClosed

LEMMA ChunksFlatten ==
    ASSUME NEW cc \in Seq(Chunks)
    PROVE  FlattenSeq(cc) \in Chunks
<1> DEFINE T == {tt \in Seq(Chunks) : FlattenSeq(tt) \in Chunks}
<1>1. <<>> \in T BY FlattenEmpty, ChunkNone
<1>2. ASSUME NEW tt \in Seq(Chunks), NEW t \in Chunks, tt \in T PROVE Append(tt, t) \in T
 <2>1. Chunks \subseteq Seq(NativeMessage) BY DEF Chunks
 <2>2. tt \in Seq(Seq(NativeMessage)) /\ t \in Seq(NativeMessage) BY <2>1, SeqMonotonic
 <2>3. FlattenSeq(Append(tt, t)) = FlattenSeq(tt) \o t BY <2>2, FlattenAppend
 <2>4. FlattenSeq(tt) \in Chunks BY <1>2
 <2>5. FlattenSeq(tt) \o t \in Chunks BY <2>4, ChunkConcat
 <2>6. Append(tt, t) \in Seq(Chunks) OBVIOUS
 <2> QED BY <2>3, <2>5, <2>6
<1>3. Seq(Chunks) \subseteq T
 <2> HIDE DEF T
 <2> QED BY <1>1, <1>2, SeqInduction
<1> QED BY <1>3

----------------------------------------
\* What an attempt leaves in the conversation is closed: the results are those of the
\* calls, and feedback follows an answer that did not decode.
LEMMA AppendFew ==
    ASSUME NEW S, NEW x \in S, NEW y \in S
    PROVE  Append(<<>>, y) = <<y>> /\ Append(<<x>>, y) = <<x, y>>
<1>1. <<x>> \in Seq(S) OBVIOUS
<1>2. Append(<<x>>, y) = <<x>> \o <<y>> BY <1>1, AppendIsConcat
<1>3. Append(<<>>, y) = <<y>> OBVIOUS
<1> QED BY <1>2, <1>3, TwoAreConcat

LEMMA FeedbackChunk ==
    ASSUME NEW n \in Nat
    PROVE  <<Feedback(n)>> \in Chunks
<1>1. Feedback(n) \in NativeMessage BY MessageTypes
<1>2. ASSUME NEW s \in Views(Feedback(n)) PROVE s \in ClosedTalk
 <2>1. PICK d \in Seq(Block) : /\ s = <<[role |-> "user", content |-> d]>>
                               /\ Spread(d, Read("call")) = <<>>
                               /\ Spread(d, Read("result")) = <<>>
   BY FeedbackViews
 <2>2. Kind(d, "call") = <<>> /\ "user" \in Talk BY <2>1, NoneRead DEF Talk
 <2> QED BY <2>1, <2>2, LoneIsClosed
<1> QED BY <1>1, <1>2, ChunkOne

LEMMA AnswerChunk ==
    ASSUME NEW content \in Seq(NativePart), Kind(content, "call") = <<>>
    PROVE  <<Message("assistant", content)>> \in Chunks
<1>1. Message("assistant", content) \in NativeMessage BY MessageTypes
<1>2. content \in Seq(Block) BY NativeIsBlock, SeqMonotonic
<1>3. Spread(content, Read("call")) = <<>> BY <1>2, NoneRead
<1>4. ASSUME NEW s \in Views(Message("assistant", content)) PROVE s \in ClosedTalk
 <2>1. PICK c \in Seq(Block) : /\ s = <<[role |-> "assistant", content |-> c]>>
                               /\ Spread(c, Read("call")) = Spread(content, Read("call"))
                               /\ Spread(c, Read("result")) = <<>>
   BY AnswerViews
 <2>2. Kind(c, "call") = <<>> /\ "assistant" \in Talk BY <1>3, <2>1, NoneRead DEF Talk
 <2> QED BY <2>1, <2>2, LoneIsClosed
<1> QED BY <1>1, <1>4, ChunkOne

LEMMA AnsweredChunk ==
    ASSUME NEW content \in Seq(NativePart), NEW results \in Seq(NativePart),
           Belong(results, Kind(content, "call"))
    PROVE  <<Message("assistant", content), Message("tool", results)>> \in Chunks
<1>1. Message("assistant", content) \in NativeMessage /\ Message("tool", results) \in NativeMessage
  BY MessageTypes
<1>2. \A s \in Views(Message("assistant", content)) :
        \A r \in Views(Message("tool", results)) : s \o r \in ClosedTalk
  BY AnsweredIsClosed
<1> QED BY <1>1, <1>2, ChunkTwo

LEMMA CorrectedChunk ==
    ASSUME NEW n \in DOMAIN log, n \in Nat, log[n].kind = "validation",
           NEW content \in Seq(NativePart)
    PROVE  <<Message("assistant", content), Feedback(n)>> \in Chunks
<1>1. Message("assistant", content) \in NativeMessage /\ Feedback(n) \in NativeMessage
  BY MessageTypes
<1>2. \A s \in Views(Message("assistant", content)) :
        \A r \in Views(Feedback(n)) : s \o r \in ClosedTalk
  BY FedBackIsClosed
<1> QED BY <1>1, <1>2, ChunkTwo

LEMMA TraceChunk ==
    ASSUME NEW who, NEW n \in DOMAIN log, n \in Nat, log[n] \in OutcomeType, GoodOutcome(who, log[n]),
           log[n].kind = "toolcall" => log[n].raw
    PROVE  Trace(n, log[n]) \in Chunks
<1> DEFINE o == log[n]
           a == Message("assistant", o.content)
           t == Message("tool", o.results)
           f == Feedback(n)
           raw == IF o.raw THEN <<a>> ELSE <<>>
<1>1. o.content \in Seq(NativePart) /\ o.results \in Seq(NativePart) BY DEF OutcomeType
<1>2. /\ o.kind \in {"toolcall", "valid"} => Belong(o.results, Kind(o.content, "call"))
      /\ o.kind = "valid" => o.raw
  BY DEF GoodOutcome
<1>3. CASE o.kind = "validation"
 <2>1. Trace(n, o) = Append(raw, f) BY <1>3 DEF Trace
 <2>2. <<f>> \in Chunks BY FeedbackChunk
 <2>3. <<a, f>> \in Chunks BY <1>1, <1>3, CorrectedChunk
 <2>4. (o.raw => raw = <<a>>) /\ (~o.raw => raw = <<>>) OBVIOUS
 <2>5. Append(<<>>, f) = <<f>> /\ Append(<<a>>, f) = <<a, f>>
  <3>1. a \in NativeMessage /\ f \in NativeMessage BY <1>1, MessageTypes
  <3> HIDE DEF a, f
  <3> QED BY <3>1, AppendFew
 <2> HIDE DEF a, f, raw
 <2> QED BY <2>1, <2>2, <2>3, <2>4, <2>5
<1>4. CASE o.kind = "toolcall"
 <2>1. Trace(n, o) = Append(<<a>>, t) BY <1>4 DEF Trace
 <2>2. <<a, t>> \in Chunks BY <1>1, <1>2, <1>4, AnsweredChunk
 <2>3. Append(<<a>>, t) = <<a, t>>
  <3>1. a \in NativeMessage /\ t \in NativeMessage BY <1>1, MessageTypes
  <3> HIDE DEF a, t
  <3> QED BY <3>1, AppendFew
 <2> HIDE DEF a, t
 <2> QED BY <2>1, <2>2, <2>3
<1>5. CASE o.kind = "valid"
 <2>1. Trace(n, o) = <<a>> \o ToolMessage(o.results) BY <1>2, <1>5 DEF Trace
 <2>2. CASE o.results = <<>>
  <3>1. Kind(o.content, "call") = <<>>
   <4> DEFINE calls == Kind(o.content, "call")
   <4>1. Len(<<>>) = Len(calls) /\ Len(<<>>) = 0 BY <1>2, <1>5, <2>2 DEF Belong
   <4>2. calls \in Seq(Block)
    <5>1. o.content \in Seq(Block) BY <1>1, NativeIsBlock, SeqMonotonic
    <5> QED BY <5>1, KindIsSpread
   <4> HIDE DEF calls
   <4>3. calls = <<>> BY <4>1, <4>2
   <4> QED BY <4>3 DEF calls
  <3>2. <<a>> \in Chunks BY <1>1, <3>1, AnswerChunk
  <3>3. ToolMessage(o.results) = <<>> BY <2>2 DEF ToolMessage
  <3> HIDE DEF a
  <3>4. <<a>> \o <<>> = <<a>> OBVIOUS
  <3> QED BY <2>1, <3>2, <3>3, <3>4
 <2>3. CASE o.results # <<>>
  <3>1. <<a, t>> \in Chunks BY <1>1, <1>2, <1>5, AnsweredChunk
  <3>2. ToolMessage(o.results) = <<t>> BY <2>3 DEF ToolMessage, newToolMessageWithContent
  <3>3. a \in NativeMessage /\ t \in NativeMessage BY <1>1, MessageTypes
  <3> HIDE DEF a, t
  <3>4. <<a>> \o <<t>> = <<a, t>> BY <3>3, TwoAreConcat
  <3> QED BY <2>1, <3>1, <3>2, <3>4
 <2> QED BY <2>2, <2>3
<1>6. CASE o.kind \notin {"validation", "toolcall", "valid"}
 <2>1. Trace(n, o) = <<>> BY <1>6 DEF Trace
 <2> QED BY <2>1, ChunkNone
<1> QED BY <1>3, <1>4, <1>5, <1>6

----------------------------------------
\* A request is a view of the prompt, which makes no calls, and one of what the
\* attempts left, which is closed.
Mute == {m \in RequestMessage : Kind(m.content, "call") = <<>>}

LEMMA MuteIsClosed ==
    ASSUME NEW s \in Seq(Mute)
    PROVE  Closed(s)
<1> SUFFICES ASSUME NEW i \in 1..Len(s) PROVE Closes(s, i) BY DEF Closed
<1>1. s[i] \in Mute BY ElementOfSeq
<1> QED BY <1>1 DEF Mute, Closes

LEMMA SeqOfOther ==
    ASSUME NEW S, NEW T, NEW s \in Seq(S), \A k \in 1..Len(s) : s[k] \in T
    PROVE  s \in Seq(T)
  OBVIOUS

LEMMA PromptIsMute ==
    ASSUME NEW c \in Seq(NativeMessage), WithoutCalls(c),
           NEW u \in Seq(Seq(RequestMessage)), IsView(u, c)
    PROVE  FlattenSeq(u) \in Seq(Mute)
<1>1. Len(u) = Len(c) /\ Len(c) \in Nat /\ \A j \in 1..Len(c) : u[j] \in Views(c[j]) BY DEF IsView
<1>2. ASSUME NEW j \in 1..Len(c) PROVE u[j] \in Seq(Mute)
 <2>1. PICK m \in HeapMessage : Bare(m) = c[j] /\ Shows(m, u[j]) BY <1>1 DEF Views
 <2>2. c[j].content = Without(m.content) BY <2>1, BareFields
 <2>3. m.content \in Seq(HeapPart) BY HeapParts
 <2>4. c[j].content \in Seq(Block)
  <3>1. c[j] \in NativeMessage BY ElementOfSeq
  <3>2. c[j].content \in Seq(NativePart) BY <3>1 DEF NativeMessage, ChatMessage, NativePart
  <3> QED BY <3>2, NativeIsBlock, SeqMonotonic
 <2>5. Kind(c[j].content, "call") = <<>> BY DEF WithoutCalls
 <2>6. Spread(c[j].content, Read("call")) = <<>> BY <2>4, <2>5, NoneRead
 <2>7. Spread(m.content, Read("call")) = <<>> BY <2>2, <2>3, <2>6, MarksAreNoCalls
 <2>8. u[j] \in Seq(RequestMessage) /\ \A k \in 1..Len(u[j]) : Kind(u[j][k].content, "call") = <<>>
   BY <2>1, <2>7 DEF Shows
 <2>9. \A k \in 1..Len(u[j]) : u[j][k] \in Mute BY <2>8, ElementOfSeq DEF Mute
 <2> QED BY <2>8, <2>9, SeqOfOther
<1>3. u \in Seq(Seq(Mute)) BY <1>1, <1>2, SeqOfOther
<1> QED BY <1>3, FlattenType

Aside(M) == [m \in M |-> IF m.role # "system" THEN <<m>> ELSE <<>>]

LEMMA NotSystemIs ==
    ASSUME NEW M, NEW s \in Seq(M)
    PROVE  NotSystem(s) = Spread(s, Aside(M)) /\ Aside(M) \in Maps(M, M) /\ NotSystem(s) \in Seq(M)
<1>1. Aside(M) \in Maps(M, M) BY DEF Aside, Maps
<1>2. [i \in DOMAIN s |-> IF s[i].role # "system" THEN <<s[i]>> ELSE <<>>]
        = [i \in DOMAIN s |-> Aside(M)[s[i]]]
 <2>1. \A i \in DOMAIN s : s[i] \in M OBVIOUS
 <2> QED BY <2>1 DEF Aside
<1>3. NotSystem(s) = Spread(s, Aside(M)) BY <1>2 DEF NotSystem, Where, Spread
<1> QED BY <1>1, <1>3, SpreadType

LEMMA NotSystemConcat ==
    ASSUME NEW M, NEW s \in Seq(M), NEW t \in Seq(M)
    PROVE  NotSystem(s \o t) = NotSystem(s) \o NotSystem(t)
<1>1. s \o t \in Seq(M) BY ConcatProperties
<1>2. Aside(M) \in Maps(M, M) BY NotSystemIs
<1>3. Spread(s \o t, Aside(M)) = Spread(s, Aside(M)) \o Spread(t, Aside(M)) BY <1>2, SpreadConcat
<1> QED BY <1>1, <1>3, NotSystemIs

LEMMA NotSystemSame ==
    ASSUME NEW M, \A m \in M : m.role # "system", NEW s \in Seq(M)
    PROVE  NotSystem(s) = s
<1> DEFINE f == [m \in M |-> m]
<1>1. Singly(M, Aside(M), f) BY DEF Singly, Aside
<1>2. NotSystem(s) = Spread(s, Aside(M)) /\ Aside(M) \in Maps(M, M) BY NotSystemIs
<1>3. [i \in DOMAIN s |-> f[s[i]]] = s OBVIOUS
<1> HIDE DEF f
<1>4. Spread(s, Aside(M)) = [i \in DOMAIN s |-> f[s[i]]] BY <1>1, <1>2, SpreadSingles
<1> QED BY <1>2, <1>3, <1>4

LEMMA ClosedWithoutSystem ==
    ASSUME NEW a \in Seq(Mute), NEW b \in ClosedTalk
    PROVE  Closed(a \o b) /\ Closed(NotSystem(a \o b))
<1>1. b \in Seq(RequestMessage) /\ Closed(b) /\ Begins(b)
      /\ \A j \in 1..Len(b) : b[j].role # "system"
  BY DEF ClosedTalk
<1>2. Mute \subseteq RequestMessage BY DEF Mute
<1>3. ASSUME NEW s \in Seq(Mute) PROVE Closed(s \o b)
 <2>1. s \in Seq(RequestMessage) BY <1>2, SeqMonotonic
 <2> QED BY <1>1, <2>1, MuteIsClosed, ClosedConcat
<1>4. NotSystem(a) \in Seq(Mute) BY NotSystemIs
<1>5. NotSystem(b) = b
 <2> DEFINE M == {m \in RequestMessage : m.role # "system"}
 <2>1. \A j \in 1..Len(b) : b[j] \in M BY <1>1, ElementOfSeq
 <2>2. b \in Seq(M) /\ \A m \in M : m.role # "system" BY <1>1, <2>1
 <2> HIDE DEF M
 <2> QED BY <2>2, NotSystemSame
<1>6. NotSystem(a \o b) = NotSystem(a) \o b
 <2>1. a \in Seq(RequestMessage) BY <1>2, SeqMonotonic
 <2> QED BY <1>1, <1>5, <2>1, NotSystemConcat
<1> QED BY <1>3, <1>4, <1>6

\* What was translated is a view of the conversation.
LEMMA RequestIsView ==
    ASSUME provider \in Providers, NEW from \in Seq(HeapMessage), Translated(from).err = "none"
    PROVE  \E w \in Seq(Seq(RequestMessage)) :
              IsView(w, WithoutForeign(from)) /\ Translated(from).out = FlattenSeq(w)
<1> DEFINE N == Len(from)
           results == [k \in DOMAIN from |-> MessageOf(provider, from[k])]
           w == [k \in DOMAIN from |-> MessageOf(provider, from[k]).out]
<1>1. N \in Nat /\ DOMAIN from = 1..N /\ \A k \in 1..N : from[k] \in HeapMessage BY ElementOfSeq
<1>2. DOMAIN results = 1..N /\ Len(results) = N /\ DOMAIN w = 1..N /\ Len(w) = N BY <1>1
<1>3. Translated(from) = Collect(results) BY DEF Translated
<1>4. \A k \in 1..N : results[k] = MessageOf(provider, from[k])
                      /\ w[k] = MessageOf(provider, from[k]).out
  BY <1>1
<1>5. [k \in DOMAIN results |-> results[k].out] = w BY <1>1, <1>2
<1>6. w = [k \in 1..N |-> w[k]] BY <1>1
<1> HIDE DEF results, w, N
<1>7. (\A k \in 1..N : results[k].err = "none") /\ Collect(results).out = FlattenSeq(w)
 <2>1. /\ (\A k \in 1..N : results[k].err = "none") => Collect(results) = Ok(FlattenSeq(w))
       /\ (\E k \in 1..N : results[k].err # "none") =>
             \E k \in 1..N : results[k].err # "none" /\ Collect(results) = results[k]
   BY <1>1, <1>2, <1>5, CollectIs
 <2>2. \A k \in 1..N : results[k].err = "none" BY <1>3, <2>1
 <2> QED BY <2>1, <2>2 DEF Ok
<1>8. ASSUME NEW k \in 1..N PROVE w[k] \in Seq(RequestMessage) /\ w[k] \in Views(Bare(from[k]))
 <2>1. from[k] \in HeapMessage /\ MessageOf(provider, from[k]).err = "none"
       /\ w[k] = MessageOf(provider, from[k]).out
   BY <1>1, <1>4, <1>7
 <2>2. Shows(from[k], w[k]) BY <2>1, MessageShows
 <2> QED BY <2>1, <2>2 DEF Shows, Views
<1>9. w \in Seq(Seq(RequestMessage)) BY <1>1, <1>6, <1>8
<1>10. IsView(w, WithoutForeign(from))
 <2>1. Len(WithoutForeign(from)) = N /\ \A k \in 1..N : WithoutForeign(from)[k] = Bare(from[k])
   BY WithoutForeignAt DEF N
 <2> QED BY <1>2, <1>8, <2>1 DEF IsView
<1> QED BY <1>3, <1>7, <1>9, <1>10

LEMMA AnsweredWhileWaiting ==
    ASSUME TypeInv, SentInv, WaitInv, ShownInv, LogInv
    PROVE  CallsAreAnswered
<1> SUFFICES ASSUME InFlight, WithoutCalls(prompt),
                    \A n \in DOMAIN log : log[n].kind = "toolcall" => log[n].raw
             PROVE  Closed(Received.messages)
 <2> SUFFICES ASSUME Closed(Received.messages), NEW i \in DOMAIN Received.messages
              PROVE  LET calls == Kind(Received.messages[i].content, "call")
                     IN  calls # <<>> => \/ Answers(Following(Received.messages, i), calls)
                                         \/ FeedbackFollows(Received.messages, i)
   BY DEF CallsAreAnswered
 <2> QED BY DEF Closed, Closes
<1> DEFINE to   == Received.messages
           from == Requested.messages
           out  == Translated(from).out
           traces == [n \in DOMAIN log |-> Trace(n, log[n])]
<1>1. /\ Received = Translate(provider, Requested) /\ Received.err = "none"
      /\ from \in Seq(HeapMessage) /\ WithoutForeign(from) = History
      /\ provider \in Providers
  BY DEF SentInv, WaitInv, InFlight, IsExecution, ShownInv, TypeInv
<1>2. /\ Translated(from).err = "none"
      /\ to = IF TakesSystemOut THEN NotSystem(out) ELSE out
  BY <1>1, TranslateIs
<1>3. PICK w \in Seq(Seq(RequestMessage)) : IsView(w, History) /\ out = FlattenSeq(w)
 <2> HIDE DEF from
 <2> QED BY <1>1, <1>2, RequestIsView
<1>4. FlattenSeq(traces) \in Chunks
 <2>1. DOMAIN log = 1..Len(log) /\ Len(log) \in Nat
       /\ \A n \in 1..Len(log) : n \in Nat /\ log[n] \in OutcomeType
   BY TypeFacts
 <2>2. \A n \in 1..Len(log) : Trace(n, log[n]) \in Chunks BY <2>1, TraceChunk DEF LogInv
 <2>3. traces \in Seq(Chunks) BY <2>1, <2>2
 <2> HIDE DEF traces
 <2> QED BY <2>3, ChunksFlatten
<1>5. prompt \in Seq(NativeMessage) /\ FlattenSeq(traces) \in Seq(NativeMessage)
  BY <1>4, TypeFacts DEF Chunks
<1>6. History = prompt \o FlattenSeq(traces) BY DEF History
<1> HIDE DEF to, from, out, traces
<1>7. PICK u \in Seq(Seq(RequestMessage)), v \in Seq(Seq(RequestMessage)) :
         IsView(u, prompt) /\ IsView(v, FlattenSeq(traces)) /\ FlattenSeq(w) = FlattenSeq(u) \o FlattenSeq(v)
  BY <1>3, <1>5, <1>6, ViewSplit
<1>8. FlattenSeq(u) \in Seq(Mute) BY <1>5, <1>7, PromptIsMute
<1>9. FlattenSeq(v) \in ClosedTalk BY <1>4, <1>7 DEF Chunks
<1>10. Closed(out) /\ Closed(NotSystem(out)) BY <1>3, <1>7, <1>8, <1>9, ClosedWithoutSystem
<1>11. Closed(to) BY <1>2, <1>10
<1> QED BY <1>11 DEF to

(***************************************************************************)
(* In every request of a conversation, for every provider, every prompt    *)
(* that makes no calls itself and however often its caller tries, the      *)
(* calls of each answer are followed by a result for each, or by the       *)
(* feedback on an answer that did not decode; unless an invoker kept back  *)
(* a message whose calls were refused.                                     *)
(***************************************************************************)
THEOREM CallsAreAlwaysAnswered == Spec => []CallsAreAnswered
<1>1. Init => SentInv /\ WaitInv /\ LogInv /\ ShownInv
  BY DEF Init, StartWith, SentInv, WaitInv, LogInv, ShownInv, InFlight
<1> QED
  BY <1>1, InitInv, NextInv, NextSent, NextWait, NextLog, NextShown, AnsweredWhileWaiting,
     PTL DEF Spec

=============================================================================
