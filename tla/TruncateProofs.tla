--------------------------- MODULE TruncateProofs ---------------------------
(***************************************************************************)
(* For conversations of any length, any token counter and any budget:      *)
(* truncation removes whole turns, exactly the oldest that have to go and  *)
(* nothing protected, so that the result fits or has nothing left to       *)
(* remove, and a call and the results that stand with it stay or go        *)
(* together.                                                               *)
(***************************************************************************)
EXTENDS Truncate, FiniteSetTheorems, WellFoundedInduction, TLAPS

\* A set of numbers has a least element, and if bounded a greatest.
LEMMA LeastElement ==
    ASSUME NEW T \in SUBSET Nat, T # {}
    PROVE  \E x \in T : \A y \in T : x <= y
<1> DEFINE R == {ss \in Nat \X Nat : ss[1] < ss[2]}
<1>1. IsWellFoundedOn(R, Nat)
  BY NatLessThanWellFounded DEF OpToRel
<1>2. PICK x \in T : \A y \in T : ~(<<y, x>> \in R)
  <2> HIDE DEF R
  <2> QED
    BY <1>1, WFMin
<1>3. \A y \in T : ~(y < x)
  BY <1>2
<1> QED
  BY <1>3

LEMMA MinIsLeast ==
    ASSUME NEW T \in SUBSET Nat, T # {}
    PROVE  Min(T) \in T /\ \A y \in T : Min(T) <= y
  BY LeastElement, Zenon DEF Min

LEMMA MaxIsGreatest ==
    ASSUME NEW n \in Nat, NEW T \in SUBSET (0..n), T # {}
    PROVE  Max(T) \in T /\ \A y \in T : Max(T) >= y
<1> DEFINE D == {n - x : x \in T}
<1>1. D \in SUBSET Nat /\ D # {}
  <2>1. \A x \in T : n - x \in Nat
    OBVIOUS
  <2> QED
    BY <2>1, Zenon
<1>2. PICK d \in D : \A y \in D : d <= y
  <2> HIDE DEF D
  <2> QED
    BY <1>1, LeastElement
<1>3. PICK x \in T : d = n - x
  OBVIOUS
<1>4. \A y \in T : n - x <= n - y
  BY <1>2, <1>3
<1>5. \A y \in T : x >= y
  BY <1>4
<1> QED
  BY <1>5, Zenon DEF Max

\* Induction over the numbers, with the set of those a fact holds of.
LEMMA SetInduction ==
    ASSUME NEW T \in SUBSET Nat, 0 \in T, \A n \in T : n + 1 \in T
    PROVE  T = Nat
<1> SUFFICES ASSUME Nat \ T # {} PROVE FALSE
  OBVIOUS
<1>1. PICK x \in Nat \ T : \A y \in Nat \ T : x <= y
  BY LeastElement
<1>2. x - 1 \in Nat
  BY <1>1
<1>3. x - 1 \in T
  BY <1>1, <1>2
<1>4. (x - 1) + 1 \in T
  BY <1>3
<1> QED
  BY <1>1, <1>4

LEMMA Pairs ==
    ASSUME NEW i \in Nat, NEW j \in Nat, i <= j
    PROVE  /\ Min({i, j}) = i /\ Max({i, j}) = j
           /\ Min({j, i}) = i /\ Max({j, i}) = j
<1>1. {i, j} = {j, i}
  OBVIOUS
<1>2. Min({i, j}) = i
  BY MinIsLeast
<1>3. Max({i, j}) = j
  BY MaxIsGreatest
<1> QED
  BY <1>1, <1>2, <1>3

-----------------------------------------------------------------------------
\* The inductive invariant.  A block to remove starts where a block starts,
\* and what was removed are whole turns.
InputInv   == messages \in Seq(Message) /\ WellFormed(messages) /\ maxTokens \in Int
BlockInv   == pc = "drop" /\ block \in Indices => StartsBlock(block)
RemovedInv ==
    /\ removed \subseteq Indices
    /\ \A i \in removed : ~Protected(i)
    /\ \A i \in removed, j \in Indices : SameTurn(i, j) => j \in removed

\* Once the tokens are counted, the running total is what is left, what was
\* removed is what is not protected before the block, and all of it had to go.
AfterCount == pc = "drop" \/ (pc = "done" /\ ~Unlimited)
Counted    == \A i \in Indices : messages[i].cost \in Nat
TotalInv ==
    /\ pc = "count" \/ (pc = "done" /\ Unlimited) => removed = {}
    /\ pc = "drop" => ~Unlimited
    /\ AfterCount =>
          /\ Counted
          /\ block \in Indices \cup {Len(messages) + 1}
          /\ total = Tokens(Indices \ removed)
          /\ \A i \in Indices : i \in removed <=> i < block /\ ~Protected(i)
          /\ \A i \in removed : MustGo(i)
    /\ pc = "done" /\ ~Unlimited => ~(OverBudget /\ block \in Indices)

TurnInv == InputInv /\ BlockInv /\ RemovedInv
IInv    == TurnInv /\ TotalInv

\* Between two messages of one turn there is nothing protected, and no user
\* message but the first.
LEMMA BetweenTurn ==
    ASSUME NEW i \in Nat, NEW j \in Nat, i <= j, SameTurn(i, j) \/ SameTurn(j, i)
    PROVE  \A k \in i..j : ~Protected(k) /\ (k # i => messages[k].kind # "user")
  BY Pairs DEF SameTurn

LEMMA NextBlockStarts ==
    ASSUME messages \in Seq(Message), NEW i \in Nat
    PROVE  NextBlock(i) \in Indices => StartsBlock(NextBlock(i))
<1> DEFINE S == {j \in Indices : j >= i /\ StartsBlock(j)}
<1>1. S \cup {Len(messages) + 1} \in SUBSET Nat
  BY DEF Indices
<1>2. NextBlock(i) \in S \cup {Len(messages) + 1}
  BY <1>1, MinIsLeast DEF NextBlock
<1>3. Len(messages) + 1 \notin Indices
  BY DEF Indices
<1> QED
  BY <1>2, <1>3

\* A block from its first message to the one before its end.
LEMMA BlockEnds ==
    ASSUME messages \in Seq(Message), NEW b \in Indices
    PROVE  \E e \in Nat :
              /\ Block(b) = b .. (e - 1) /\ b < e /\ e <= Len(messages) + 1
              /\ e \in Indices => Protected(e) \/ StartsBlock(e)
              /\ \A j \in b + 1 .. e - 1 : ~Protected(j) /\ ~StartsBlock(j)
<1> DEFINE S == {j \in Indices : j > b /\ (Protected(j) \/ StartsBlock(j))}
           T == S \cup {Len(messages) + 1}
           e == Min(T)
<1>1. T \in SUBSET Nat /\ T # {}
  BY DEF Indices
<1>2. e \in T /\ \A y \in T : e <= y
  <2> HIDE DEF T
  <2> QED
    BY <1>1, MinIsLeast
<1>3. Len(messages) + 1 \in T /\ Len(messages) + 1 \notin Indices
  BY DEF Indices
<1>4. b < e /\ e <= Len(messages) + 1 /\ e \in Nat
  BY <1>2, <1>3 DEF Indices
<1>5. e \in Indices => Protected(e) \/ StartsBlock(e)
  BY <1>2, <1>3
<1>6. \A j \in b + 1 .. e - 1 : ~Protected(j) /\ ~StartsBlock(j)
  <2> SUFFICES ASSUME NEW j \in b + 1 .. e - 1, Protected(j) \/ StartsBlock(j) PROVE FALSE
    OBVIOUS
  <2>1. j \in Indices /\ j > b /\ j < e
    BY <1>4 DEF Indices
  <2>2. j \in T
    BY <2>1
  <2> QED
    BY <1>2, <1>4, <2>1, <2>2
<1>7. Block(b) = b .. (e - 1)
  BY DEF Block
<1> HIDE DEF e
<1> QED
  BY <1>4, <1>5, <1>6, <1>7

\* A block that starts where one may start is a whole turn.
LEMMA BlockIsWhole ==
    ASSUME messages \in Seq(Message), NEW b \in Indices, StartsBlock(b)
    PROVE  /\ Block(b) \subseteq Indices
           /\ \A i \in Block(b) : ~Protected(i)
           /\ \A i \in Block(b), j \in Indices : SameTurn(i, j) => j \in Block(b)
<1>1. PICK e \in Nat : /\ Block(b) = b .. (e - 1) /\ b < e /\ e <= Len(messages) + 1
                       /\ e \in Indices => Protected(e) \/ StartsBlock(e)
                       /\ \A j \in b + 1 .. e - 1 : ~Protected(j)
  BY BlockEnds
<1>2. Indices = 1..Len(messages) /\ Len(messages) \in Nat
  BY DEF Indices
<1>3. Block(b) \subseteq Indices
  BY <1>1, <1>2
<1>4. ~Protected(b)
  BY DEF StartsBlock
<1>5. \A i \in Block(b) : ~Protected(i)
  BY <1>1, <1>2, <1>4
<1>6. ASSUME NEW i \in Block(b), NEW j \in Indices, SameTurn(i, j)
      PROVE  j \in Block(b)
  <2>1. i \in Nat /\ j \in Nat /\ b <= i /\ i < e
    BY <1>1, <1>2
  <2>2. CASE j < b
    <3>1. \A k \in j..i : ~Protected(k) /\ (k # j => messages[k].kind # "user")
      BY <1>6, <2>1, <2>2, BetweenTurn
    <3>2. b \in j..i /\ b - 1 \in j..i /\ b # j /\ b # 1
      BY <1>2, <2>1, <2>2
    <3> QED
      BY <3>1, <3>2 DEF StartsBlock
  <2>3. CASE j >= e
    <3>1. \A k \in i..j : ~Protected(k) /\ (k # i => messages[k].kind # "user")
      BY <1>6, <2>1, <2>3, <1>1, BetweenTurn
    <3>2. e \in i..j /\ e - 1 \in i..j /\ e # i /\ e # 1 /\ e \in Indices
      BY <1>1, <1>2, <2>1, <2>3
    <3> QED
      BY <1>1, <3>1, <3>2 DEF StartsBlock
  <2> QED
    BY <1>1, <1>2, <2>1, <2>2, <2>3
<1> QED
  BY <1>3, <1>5, <1>6

-----------------------------------------------------------------------------
(***************************************************************************)
(* Sums of tokens.  Tokens folds over a set in an order nobody knows; it   *)
(* is the same as going through the conversation from its start and adding *)
(* up what is in the set.                                                  *)
(***************************************************************************)
Share(S, i) == IF i \in S THEN messages[i].cost ELSE 0

Adds(f, S, n) ==
    f = [i \in 0..n |-> IF i = 0 THEN 0 ELSE f[i - 1] + Share(S, i)]

Prefix(S)  == CHOOSE f : Adds(f, S, Len(messages))
Upto(S, i) == Prefix(S)[i]

LEMMA AddsExists ==
    ASSUME NEW S, NEW m \in Nat
    PROVE  \E f : Adds(f, S, m)
<1> DEFINE T == {n \in Nat : \E f : Adds(f, S, n)}
<1>1. 0 \in T
  <2> DEFINE f == [i \in 0..0 |-> 0]
  <2>1. \A i \in 0..0 : i = 0
    OBVIOUS
  <2>2. f = [i \in 0..0 |-> IF i = 0 THEN 0 ELSE f[i - 1] + Share(S, i)]
    BY <2>1
  <2> QED
    BY <2>2 DEF Adds
<1>2. ASSUME NEW n \in T PROVE n + 1 \in T
  <2>1. PICK f : Adds(f, S, n)
    OBVIOUS
  <2> DEFINE g == [i \in 0..(n + 1) |-> IF i = n + 1 THEN f[n] + Share(S, i) ELSE f[i]]
  <2>2. \A i \in 0..n : f[i] = IF i = 0 THEN 0 ELSE f[i - 1] + Share(S, i)
    <3> HIDE DEF g
    <3> QED
      BY <2>1 DEF Adds
  <2>3. \A i \in 0..(n + 1) : g[i] = IF i = 0 THEN 0 ELSE g[i - 1] + Share(S, i)
    <3> TAKE i \in 0..(n + 1)
    <3>1. CASE i = n + 1
      <4>1. n \in 0..(n + 1) /\ n # n + 1 /\ i # 0 /\ i - 1 = n
        BY <3>1
      <4>2. g[n] = f[n] /\ g[i] = f[n] + Share(S, i)
        BY <3>1, <4>1
      <4> QED
        BY <4>1, <4>2
    <3>2. CASE i # n + 1 /\ i # 0
      <4>1. i \in 0..n /\ i - 1 \in 0..(n + 1) /\ i - 1 # n + 1
        BY <3>2
      <4>2. g[i] = f[i] /\ g[i - 1] = f[i - 1]
        BY <3>2, <4>1
      <4> QED
        BY <2>2, <3>2, <4>1, <4>2
    <3>3. CASE i = 0
      <4>1. i # n + 1 /\ i \in 0..n
        BY <3>3
      <4>2. g[i] = f[i] /\ f[i] = 0
        BY <2>2, <3>3, <4>1
      <4> QED
        BY <3>3, <4>2
    <3> QED
      BY <3>1, <3>2, <3>3
  <2>4. g = [i \in 0..(n + 1) |-> IF i = 0 THEN 0 ELSE g[i - 1] + Share(S, i)]
    <3>1. g = [i \in 0..(n + 1) |-> g[i]]
      OBVIOUS
    <3> HIDE DEF g
    <3> QED
      BY <2>3, <3>1
  <2>5. Adds(g, S, n + 1) /\ n + 1 \in Nat
    <3> HIDE DEF g
    <3> QED
      BY <2>4 DEF Adds
  <2> HIDE DEF g
  <2> QED
    BY <2>5
<1> QED
  <2>1. T = Nat
    <3> HIDE DEF T
    <3>1. T \in SUBSET Nat
      BY DEF T
    <3> QED
      BY <1>1, <1>2, <3>1, SetInduction
  <2> QED
    BY <2>1

LEMMA UptoStep ==
    ASSUME messages \in Seq(Message), NEW S
    PROVE  /\ Upto(S, 0) = 0
           /\ \A i \in Indices : Upto(S, i) = Upto(S, i - 1) + Share(S, i)
<1>1. Adds(Prefix(S), S, Len(messages))
  <2>1. \E f : Adds(f, S, Len(messages))
    BY AddsExists
  <2> QED
    BY <2>1 DEF Prefix
<1>2. Prefix(S) = [i \in 0..Len(messages) |->
                      IF i = 0 THEN 0 ELSE Prefix(S)[i - 1] + Share(S, i)]
  BY <1>1 DEF Adds
<1>3. \A i \in 0..Len(messages) :
         Prefix(S)[i] = IF i = 0 THEN 0 ELSE Prefix(S)[i - 1] + Share(S, i)
  BY <1>2
<1>4. Indices = 1..Len(messages) /\ 0 \in 0..Len(messages)
  BY DEF Indices
<1> QED
  BY <1>3, <1>4 DEF Upto

\* Induction along the conversation.
LEMMA AlongConversation ==
    ASSUME messages \in Seq(Message), NEW T, 0 \in T,
           \A i \in Indices : i - 1 \in T => i \in T
    PROVE  0..Len(messages) \subseteq T
<1> DEFINE U == {n \in Nat : n <= Len(messages) => n \in T}
<1>1. 0 \in U
  OBVIOUS
<1>2. ASSUME NEW n \in U PROVE n + 1 \in U
  <2>1. CASE n + 1 <= Len(messages)
    <3>1. n + 1 \in Indices /\ (n + 1) - 1 = n /\ n \in T
      BY <2>1 DEF Indices
    <3> QED
      BY <3>1
  <2> QED
    BY <2>1
<1>3. U = Nat
  <2>1. U \in SUBSET Nat
    OBVIOUS
  <2> HIDE DEF U
  <2> QED
    BY <1>1, <1>2, <2>1, SetInduction
<1> QED
  BY <1>3

LEMMA UptoIsNat ==
    ASSUME Counted, messages \in Seq(Message), NEW S
    PROVE  \A i \in 0..Len(messages) : Upto(S, i) \in Nat
<1> DEFINE T == {i \in 0..Len(messages) : Upto(S, i) \in Nat}
<1>1. 0 \in T
  BY UptoStep
<1>2. ASSUME NEW i \in Indices, i - 1 \in T PROVE i \in T
  <2>1. Share(S, i) \in Nat
    BY DEF Share, Counted
  <2>2. i \in 0..Len(messages)
    BY DEF Indices
  <2>3. Upto(S, i) = Upto(S, i - 1) + Share(S, i) /\ Upto(S, i - 1) \in Nat
    BY <1>2, UptoStep
  <2> QED
    BY <2>1, <2>2, <2>3
<1>3. 0..Len(messages) \subseteq T
  <2> HIDE DEF T
  <2> QED
    BY <1>1, <1>2, AlongConversation
<1> QED
  BY <1>3

LEMMA UptoUnion ==
    ASSUME Counted, messages \in Seq(Message), NEW S, NEW R, S \cap R = {}
    PROVE  \A i \in 0..Len(messages) : Upto(S \cup R, i) = Upto(S, i) + Upto(R, i)
<1> DEFINE T == {i \in 0..Len(messages) : Upto(S \cup R, i) = Upto(S, i) + Upto(R, i)}
<1>1. 0 \in T
  BY UptoStep
<1>2. ASSUME NEW i \in Indices, i - 1 \in T PROVE i \in T
  <2>1. /\ Share(S, i) \in Nat /\ Share(R, i) \in Nat
        /\ Share(S \cup R, i) = Share(S, i) + Share(R, i)
    BY DEF Share, Counted
  <2>2. i \in 0..Len(messages) /\ i - 1 \in 0..Len(messages)
    BY DEF Indices
  <2>3. /\ Upto(S, i) = Upto(S, i - 1) + Share(S, i)
        /\ Upto(R, i) = Upto(R, i - 1) + Share(R, i)
        /\ Upto(S \cup R, i) = Upto(S \cup R, i - 1) + Share(S \cup R, i)
    BY UptoStep
  <2>4. Upto(S, i - 1) \in Nat /\ Upto(R, i - 1) \in Nat
    BY <2>2, UptoIsNat
  <2> QED
    BY <1>2, <2>1, <2>2, <2>3, <2>4
<1>3. 0..Len(messages) \subseteq T
  <2> HIDE DEF T
  <2> QED
    BY <1>1, <1>2, AlongConversation
<1> QED
  BY <1>3

LEMMA UptoOne ==
    ASSUME Counted, messages \in Seq(Message), NEW x \in Indices
    PROVE  Upto({x}, Len(messages)) = messages[x].cost
<1> DEFINE T == {i \in 0..Len(messages) :
                    Upto({x}, i) = IF i < x THEN 0 ELSE messages[x].cost}
<1>1. 0 \in T
  BY UptoStep DEF Indices
<1>2. ASSUME NEW i \in Indices, i - 1 \in T PROVE i \in T
  <2>1. i \in 0..Len(messages) /\ x \in 1..Len(messages) /\ messages[x].cost \in Nat
    BY DEF Indices, Counted
  <2>2. Upto({x}, i) = Upto({x}, i - 1) + Share({x}, i)
    BY UptoStep
  <2>3. Upto({x}, i - 1) = IF i - 1 < x THEN 0 ELSE messages[x].cost
    BY <1>2
  <2>4. Share({x}, i) = IF i = x THEN messages[x].cost ELSE 0
    BY DEF Share
  <2>5. CASE i < x
    BY <2>1, <2>2, <2>3, <2>4, <2>5
  <2>6. CASE i = x
    BY <2>1, <2>2, <2>3, <2>4, <2>6
  <2>7. CASE i > x
    BY <2>1, <2>2, <2>3, <2>4, <2>7
  <2> QED
    BY <2>1, <2>5, <2>6, <2>7
<1>3. 0..Len(messages) \subseteq T
  <2> HIDE DEF T
  <2> QED
    BY <1>1, <1>2, AlongConversation
<1>4. Len(messages) \in 0..Len(messages) /\ ~(Len(messages) < x)
  BY DEF Indices
<1> QED
  BY <1>3, <1>4

LEMMA UptoNothing ==
    ASSUME Counted, messages \in Seq(Message)
    PROVE  Upto({}, Len(messages)) = 0
<1>1. Upto({} \cup {}, Len(messages)) = Upto({}, Len(messages)) + Upto({}, Len(messages))
  BY UptoUnion
<1>2. Upto({}, Len(messages)) \in Nat
  BY UptoIsNat
<1>3. {} \cup {} = {}
  OBVIOUS
<1> QED
  BY <1>1, <1>2, <1>3

\* What one element of a set adds, whichever it is.
LEMMA UptoRemove ==
    ASSUME Counted, messages \in Seq(Message), NEW S \in SUBSET Indices, NEW x \in S
    PROVE  Upto(S, Len(messages)) = messages[x].cost + Upto(S \ {x}, Len(messages))
<1>1. S = {x} \cup (S \ {x}) /\ {x} \cap (S \ {x}) = {}
  OBVIOUS
<1>2. Upto({x} \cup (S \ {x}), Len(messages))
        = Upto({x}, Len(messages)) + Upto(S \ {x}, Len(messages))
  <2>1. Len(messages) \in 0..Len(messages)
    OBVIOUS
  <2> QED
    BY <1>1, <2>1, UptoUnion
<1>3. Upto({x}, Len(messages)) = messages[x].cost
  BY UptoOne
<1> QED
  BY <1>1, <1>2, <1>3

Any(s) == CHOOSE x \in s : TRUE

FoldsTokens(f, S) ==
    f = [s \in SUBSET S |->
            IF s = {} THEN 0 ELSE messages[Any(s)].cost + f[s \ {Any(s)}]]

LEMMA FoldIsUpto ==
    ASSUME Counted, messages \in Seq(Message), NEW S \in SUBSET Indices,
           NEW f, FoldsTokens(f, S)
    PROVE  \A s \in SUBSET S : f[s] = Upto(s, Len(messages))
<1> DEFINE T == {n \in Nat : \A s \in SUBSET S :
                    Cardinality(s) = n => f[s] = Upto(s, Len(messages))}
<1>1. IsFiniteSet(Indices)
  <2>1. Indices = 1..Len(messages) /\ Len(messages) \in Int
    BY DEF Indices
  <2> QED
    BY <2>1, FS_Interval
<1>2. \A s \in SUBSET S : IsFiniteSet(s) /\ Cardinality(s) \in Nat
  BY <1>1, FS_Subset, FS_CardinalityType
<1>3. f = [s \in SUBSET S |->
              IF s = {} THEN 0 ELSE messages[Any(s)].cost + f[s \ {Any(s)}]]
  BY DEF FoldsTokens
<1>4. \A s \in SUBSET S :
         f[s] = IF s = {} THEN 0 ELSE messages[Any(s)].cost + f[s \ {Any(s)}]
  BY <1>3
<1>5. 0 \in T
  <2> SUFFICES ASSUME NEW s \in SUBSET S, Cardinality(s) = 0
               PROVE  f[s] = Upto(s, Len(messages))
    OBVIOUS
  <2>1. s = {}
    BY <1>2, FS_EmptySet
  <2> QED
    BY <1>4, <2>1, UptoNothing
<1>6. ASSUME NEW n \in T PROVE n + 1 \in T
  <2> SUFFICES ASSUME NEW s \in SUBSET S, Cardinality(s) = n + 1
               PROVE  f[s] = Upto(s, Len(messages))
    OBVIOUS
  <2>1. n \in Nat /\ IsFiniteSet(s)
    BY <1>2
  <2>2. s # {}
    BY <2>1, FS_EmptySet
  <2>3. Any(s) \in s
    BY <2>2 DEF Any
  <2>4. Cardinality(s \ {Any(s)}) = n
    <3>1. Cardinality(s \ {Any(s)}) = Cardinality(s) - 1
      BY <2>1, <2>3, FS_RemoveElement
    <3> QED
      BY <2>1, <3>1
  <2>5. f[s \ {Any(s)}] = Upto(s \ {Any(s)}, Len(messages))
    BY <2>4
  <2>6. Upto(s, Len(messages)) = messages[Any(s)].cost + Upto(s \ {Any(s)}, Len(messages))
    <3>1. s \in SUBSET Indices
      OBVIOUS
    <3> QED
      BY <2>3, <3>1, UptoRemove
  <2> QED
    BY <1>4, <2>2, <2>5, <2>6
<1>7. T = Nat
  <2>1. T \in SUBSET Nat
    OBVIOUS
  <2> HIDE DEF T
  <2> QED
    BY <1>5, <1>6, <2>1, SetInduction
<1> QED
  BY <1>2, <1>7

LEMMA FoldExists ==
    ASSUME Counted, messages \in Seq(Message), NEW S \in SUBSET Indices
    PROVE  \E f : FoldsTokens(f, S)
<1> DEFINE f == [s \in SUBSET S |-> Upto(s, Len(messages))]
<1>1. ASSUME NEW s \in SUBSET S
      PROVE  f[s] = IF s = {} THEN 0 ELSE messages[Any(s)].cost + f[s \ {Any(s)}]
  <2>1. CASE s = {}
    BY <2>1, UptoNothing
  <2>2. CASE s # {}
    <3>1. Any(s) \in s
      BY <2>2 DEF Any
    <3>2. s \in SUBSET Indices /\ s \ {Any(s)} \in SUBSET S
      OBVIOUS
    <3>3. Upto(s, Len(messages)) = messages[Any(s)].cost + Upto(s \ {Any(s)}, Len(messages))
      BY <3>1, <3>2, UptoRemove
    <3> QED
      BY <2>2, <3>2, <3>3
  <2> QED
    BY <2>1, <2>2
<1>2. f = [s \in SUBSET S |-> f[s]]
  OBVIOUS
<1>3. FoldsTokens(f, S)
  <2> HIDE DEF f
  <2> QED
    BY <1>1, <1>2 DEF FoldsTokens
<1> QED
  BY <1>3

\* The order does not matter: the fold is what going through them adds up to.
LEMMA TokensAreUpto ==
    ASSUME Counted, messages \in Seq(Message), NEW S \in SUBSET Indices
    PROVE  Tokens(S) = Upto(S, Len(messages))
<1> DEFINE f == CHOOSE g : FoldsTokens(g, S)
<1>1. FoldsTokens(f, S)
  BY FoldExists
<1>2. f[S] = Upto(S, Len(messages))
  <2> HIDE DEF f
  <2> QED
    BY <1>1, FoldIsUpto
<1>3. Tokens(S) = f[S]
  BY DEF Tokens, MapThenSumSet, MapThenFoldSet, FoldsTokens, Any
<1> QED
  BY <1>2, <1>3

LEMMA TokensAreAdded ==
    ASSUME Counted, messages \in Seq(Message)
    PROVE  /\ \A S \in SUBSET Indices : Tokens(S) \in Nat
           /\ \A S, R \in SUBSET Indices :
                 S \cap R = {} => Tokens(S \cup R) = Tokens(S) + Tokens(R)
<1>1. Len(messages) \in 0..Len(messages)
  OBVIOUS
<1>2. ASSUME NEW S \in SUBSET Indices PROVE Tokens(S) \in Nat
  BY <1>1, TokensAreUpto, UptoIsNat
<1>3. ASSUME NEW S \in SUBSET Indices, NEW R \in SUBSET Indices, S \cap R = {}
      PROVE  Tokens(S \cup R) = Tokens(S) + Tokens(R)
  <2>1. S \cup R \in SUBSET Indices
    OBVIOUS
  <2>2. Upto(S \cup R, Len(messages)) = Upto(S, Len(messages)) + Upto(R, Len(messages))
    BY <1>1, <1>3, UptoUnion
  <2> QED
    BY <2>1, <2>2, TokensAreUpto
<1> QED
  BY <1>2, <1>3

\* More messages are never fewer tokens.
LEMMA TokensGrow ==
    ASSUME Counted, messages \in Seq(Message),
           NEW R \in SUBSET Indices, NEW S \in SUBSET R
    PROVE  /\ Tokens(S) <= Tokens(R)
           /\ Tokens(R \ S) = Tokens(R) - Tokens(S)
<1>1. R = S \cup (R \ S) /\ S \cap (R \ S) = {}
  OBVIOUS
<1>2. S \in SUBSET Indices /\ R \ S \in SUBSET Indices
  OBVIOUS
<1>3. Tokens(S \cup (R \ S)) = Tokens(S) + Tokens(R \ S)
  BY <1>1, <1>2, TokensAreAdded
<1>4. Tokens(S) \in Nat /\ Tokens(R \ S) \in Nat
  BY <1>2, TokensAreAdded
<1>5. Tokens(R) = Tokens(S) + Tokens(R \ S)
  BY <1>1, <1>3, Zenon
<1> QED
  BY <1>4, <1>5

-----------------------------------------------------------------------------
LEMMA InitTurns == Init => TurnInv
<1> SUFFICES ASSUME Init PROVE TurnInv
  OBVIOUS
<1>1. PICK n \in 0..MaxLen : messages \in [1..n -> Message]
  BY DEF Init
<1>2. messages \in Seq(Message)
  BY <1>1
<1> QED
  BY <1>2, BudgetsAssumption DEF Init, TurnInv, InputInv, BlockInv, RemovedInv

\* The turns depend on the conversation only.
LEMMA TurnsAreStable ==
    ASSUME UNCHANGED messages
    PROVE  /\ Indices' = Indices
           /\ \A i : Protected(i)' <=> Protected(i)
           /\ \A i : StartsBlock(i)' <=> StartsBlock(i)
           /\ \A i, j : SameTurn(i, j)' <=> SameTurn(i, j)
  BY DEF Indices, Protected, StartsBlock, SameTurn

LEMMA RemoveBlockTurns == TurnInv /\ RemoveBlock => TurnInv'
<1> SUFFICES ASSUME TurnInv, RemoveBlock PROVE TurnInv'
  OBVIOUS
<1>1. /\ UNCHANGED <<messages, maxTokens>>
      /\ block \in Indices /\ StartsBlock(block)
      /\ removed' = removed \cup Block(block)
      /\ block' = NextBlock(block + 1)
  BY DEF RemoveBlock, TurnInv, BlockInv, inVars
<1>2. messages \in Seq(Message)
  BY DEF TurnInv, InputInv
<1>3. /\ Block(block) \subseteq Indices
      /\ \A i \in Block(block) : ~Protected(i)
      /\ \A i \in Block(block), j \in Indices : SameTurn(i, j) => j \in Block(block)
  BY <1>1, <1>2, BlockIsWhole
<1>4. InputInv'
  BY <1>1 DEF TurnInv, InputInv, WellFormed
<1>5. BlockInv'
  <2>1. block + 1 \in Nat
    BY <1>1, <1>2 DEF Indices
  <2>2. block' \in Indices => StartsBlock(block')
    BY <1>1, <1>2, <2>1, NextBlockStarts
  <2> QED
    BY <1>1, <2>2 DEF BlockInv, Indices, StartsBlock, Protected
<1>6. RemovedInv'
  BY <1>1, <1>3, TurnsAreStable DEF TurnInv, RemovedInv
<1> QED
  BY <1>4, <1>5, <1>6 DEF TurnInv

LEMMA CountTurns == TurnInv /\ Count => TurnInv'
<1> SUFFICES ASSUME TurnInv, Count PROVE TurnInv'
  OBVIOUS
<1>1. UNCHANGED <<messages, maxTokens>> /\ UNCHANGED removed /\ block' = NextBlock(1)
  BY DEF Count, inVars
<1>2. block' \in Indices => StartsBlock(block')
  BY <1>1, NextBlockStarts DEF TurnInv, InputInv
<1>3. InputInv' /\ RemovedInv'
  BY <1>1, TurnsAreStable DEF TurnInv, InputInv, RemovedInv, WellFormed
<1>4. BlockInv'
  BY <1>1, <1>2 DEF BlockInv, Indices, StartsBlock, Protected
<1> QED
  BY <1>3, <1>4 DEF TurnInv

LEMMA StepTurns == TurnInv /\ [Next]_vars => TurnInv'
<1> SUFFICES ASSUME TurnInv, [Next]_vars PROVE TurnInv'
  OBVIOUS
<1>1. CASE UNCHANGED <<messages, maxTokens, block, removed>> /\ (pc' = "drop" => pc = "drop")
  <2>1. InputInv' /\ RemovedInv'
    BY <1>1, TurnsAreStable DEF TurnInv, InputInv, RemovedInv, WellFormed
  <2>2. BlockInv'
    BY <1>1 DEF TurnInv, BlockInv, Indices, StartsBlock, Protected
  <2> QED
    BY <2>1, <2>2 DEF TurnInv
<1>2. CASE Skip
  BY <1>1, <1>2 DEF Skip, Stop, inVars
<1>3. CASE CountFails
  BY <1>1, <1>3 DEF CountFails, Stop, inVars
<1>4. CASE Count
  BY <1>4, CountTurns
<1>5. CASE RemoveBlock
  BY <1>5, RemoveBlockTurns
<1>6. CASE Finish
  BY <1>1, <1>6 DEF Finish, Stop, inVars
<1>7. CASE UNCHANGED vars
  BY <1>1, <1>7 DEF vars, inVars
<1> QED
  BY <1>2, <1>3, <1>4, <1>5, <1>6, <1>7 DEF Next

-----------------------------------------------------------------------------
(***************************************************************************)
(* How many turns go.                                                      *)
(***************************************************************************)

LEMMA NextBlockIsLeast ==
    ASSUME messages \in Seq(Message), NEW i \in Nat
    PROVE  /\ NextBlock(i) \in Indices \cup {Len(messages) + 1}
           /\ NextBlock(i) \in Indices => NextBlock(i) >= i
           /\ \A j \in Indices : j >= i /\ StartsBlock(j) => NextBlock(i) <= j
<1> DEFINE S == {j \in Indices : j >= i /\ StartsBlock(j)} \cup {Len(messages) + 1}
<1>1. S \in SUBSET Nat /\ S # {}
  BY DEF Indices
<1>2. NextBlock(i) = Min(S)
  BY DEF NextBlock
<1>3. NextBlock(i) \in S /\ \A y \in S : NextBlock(i) <= y
  <2> HIDE DEF S
  <2> QED
    BY <1>1, <1>2, MinIsLeast
<1>4. Len(messages) + 1 \notin Indices
  BY DEF Indices
<1> QED
  BY <1>3, <1>4

\* From where a stretch of protected messages or a block begins, no message
\* that is not protected comes before a start.
LEMMA StartComes ==
    ASSUME messages \in Seq(Message), NEW e \in Indices,
           e = 1 \/ Protected(e) \/ StartsBlock(e),
           NEW j \in Indices, e <= j, ~Protected(j)
    PROVE  \E k \in e..j : StartsBlock(k)
<1> DEFINE F == {k \in e..j : ~Protected(k)}
<1>1. Indices = 1..Len(messages) /\ e \in Nat /\ j \in Nat /\ e >= 1
  BY DEF Indices
<1>2. F \in SUBSET Nat /\ F # {}
  BY <1>1
<1>3. PICK k \in F : \A y \in F : k <= y
  <2> HIDE DEF F
  <2> QED
    BY <1>2, LeastElement
<1>4. CASE k = e
  BY <1>1, <1>3, <1>4 DEF StartsBlock
<1>5. CASE k # e
  <2>1. k - 1 \in e..j /\ ~(k <= k - 1)
    BY <1>1, <1>3, <1>5
  <2>2. Protected(k - 1)
    BY <1>3, <2>1
  <2> QED
    BY <1>3, <2>2 DEF StartsBlock
<1> QED
  BY <1>4, <1>5

\* The messages of the block at b are those up to the next block that are not
\* protected, and they are one turn.
LEMMA BlockReachesNext ==
    ASSUME messages \in Seq(Message), NEW b \in Indices, StartsBlock(b)
    PROVE  /\ b < NextBlock(b + 1)
           /\ \A i \in Indices :
                 i \in Block(b) <=> b <= i /\ i < NextBlock(b + 1) /\ ~Protected(i)
           /\ \A i, j \in Block(b) : i <= j => SameTurn(i, j)
<1> DEFINE n == NextBlock(b + 1)
<1>1. PICK e \in Nat : /\ Block(b) = b .. (e - 1) /\ b < e /\ e <= Len(messages) + 1
                       /\ e \in Indices => Protected(e) \/ StartsBlock(e)
                       /\ \A j \in b + 1 .. e - 1 : ~Protected(j) /\ ~StartsBlock(j)
  BY BlockEnds
<1>2. Indices = 1..Len(messages) /\ Len(messages) \in Nat /\ b + 1 \in Nat
  BY DEF Indices
<1>3. /\ n \in Indices \cup {Len(messages) + 1}
      /\ n \in Indices => n >= b + 1 /\ StartsBlock(n)
      /\ \A j \in Indices : j >= b + 1 /\ StartsBlock(j) => n <= j
  BY <1>2, NextBlockIsLeast, NextBlockStarts
<1> HIDE DEF n
<1>4. n \in Nat /\ b < n /\ ~Protected(b)
  BY <1>2, <1>3 DEF StartsBlock
<1>5. e <= n
  BY <1>1, <1>2, <1>3, <1>4
<1>6. ASSUME NEW i \in Indices, e <= i, i < n, ~Protected(i)
      PROVE  FALSE
  <2>1. e \in Indices
    BY <1>1, <1>2, <1>6
  <2>2. PICK k \in e..i : StartsBlock(k)
    BY <1>1, <1>6, <2>1, StartComes
  <2>3. k \in Indices /\ k >= b + 1 /\ k < n
    BY <1>1, <1>2, <1>4, <1>6
  <2> QED
    BY <1>2, <1>3, <1>4, <2>2, <2>3
<1>7. ASSUME NEW i \in Indices
      PROVE  i \in Block(b) <=> b <= i /\ i < n /\ ~Protected(i)
  <2>1. i \in Nat
    BY <1>2
  <2>2. i \in b..(e - 1) => i = b \/ i \in b + 1 .. e - 1
    BY <1>1, <1>2, <2>1
  <2> QED
    BY <1>1, <1>2, <1>4, <1>5, <1>6, <2>1, <2>2
<1>8. ASSUME NEW i \in Block(b), NEW j \in Block(b), i <= j
      PROVE  SameTurn(i, j)
  <2>1. i \in Nat /\ j \in Nat /\ b <= i /\ j < e
    BY <1>1, <1>2
  <2>2. Min({i, j}) = i /\ Max({i, j}) = j
    BY <1>8, <2>1, Pairs
  <2>3. ASSUME NEW k \in i..j
        PROVE  ~Protected(k) /\ (k # i => messages[k].kind # "user")
    <3>1. k = b \/ k \in b + 1 .. e - 1
      BY <1>1, <1>2, <2>1
    <3>2. k # i => k \in b + 1 .. e - 1
      BY <1>1, <1>2, <2>1
    <3> QED
      BY <1>1, <1>4, <3>1, <3>2 DEF StartsBlock
  <2> QED
    BY <2>2, <2>3 DEF SameTurn
<1> QED
  BY <1>4, <1>7, <1>8 DEF n

LEMMA SumsAreStable ==
    ASSUME UNCHANGED <<messages, maxTokens>>
    PROVE  /\ \A S : Tokens(S)' = Tokens(S)
           /\ \A i : MustGo(i)' <=> MustGo(i)
           /\ Unlimited' = Unlimited /\ Counted' = Counted
<1>1. \A S : Tokens(S)' = Tokens(S)
  BY DEF Tokens, MapThenSumSet, MapThenFoldSet
<1>2. \A i : MustGo(i)' <=> MustGo(i)
  BY DEF MustGo, Tokens, MapThenSumSet, MapThenFoldSet, Indices, Protected, SameTurn
<1> QED
  BY <1>1, <1>2 DEF Unlimited, Counted, Indices

\* What is older than a message of the next block is what was removed so far.
LEMMA OlderThanBlock ==
    ASSUME IInv, pc = "drop", block \in Indices, NEW i \in Block(block)
    PROVE  {j \in Indices : j < i /\ ~Protected(j) /\ ~SameTurn(j, i)} = removed
<1>1. messages \in Seq(Message) /\ StartsBlock(block)
  BY DEF IInv, TurnInv, InputInv, BlockInv
<1>2. Indices = 1..Len(messages) /\ Len(messages) \in Nat
  BY <1>1 DEF Indices
<1>3. \A j \in Indices : j \in removed <=> j < block /\ ~Protected(j)
  BY DEF IInv, TotalInv, AfterCount
<1>4. /\ Block(block) \subseteq Indices
      /\ block < NextBlock(block + 1)
      /\ \A j \in Indices :
            j \in Block(block) <=> block <= j /\ j < NextBlock(block + 1) /\ ~Protected(j)
      /\ \A j, k \in Block(block) : j <= k => SameTurn(j, k)
  BY <1>1, BlockIsWhole, BlockReachesNext
<1>5. block <= i /\ i < NextBlock(block + 1) /\ i \in Indices /\ NextBlock(block + 1) \in Nat
  <2>1. block + 1 \in Nat
    BY <1>2
  <2>2. NextBlock(block + 1) \in Nat
    BY <1>1, <1>2, <2>1, NextBlockIsLeast
  <2> QED
    BY <1>4, <2>2
<1>6. ASSUME NEW j \in Indices, j < i, ~Protected(j), ~SameTurn(j, i)
      PROVE  j \in removed
  <2>1. CASE j < block
    BY <1>3, <1>6, <2>1
  <2>2. CASE block <= j
    <3>1. j \in Block(block)
      BY <1>2, <1>4, <1>5, <1>6, <2>2
    <3> QED
      BY <1>2, <1>4, <1>6, <3>1
  <2> QED
    BY <1>2, <2>1, <2>2
<1>7. ASSUME NEW j \in removed
      PROVE  j \in Indices /\ j < i /\ ~Protected(j) /\ ~SameTurn(j, i)
  <2>1. j \in Indices /\ j < block /\ ~Protected(j)
    BY <1>3, <1>7 DEF IInv, TurnInv, RemovedInv
  <2>2. i \notin removed
    BY <1>2, <1>3, <1>5
  <2>3. ~SameTurn(j, i)
    BY <1>5, <2>2 DEF IInv, TurnInv, RemovedInv
  <2> QED
    BY <1>2, <1>5, <2>1, <2>3
<1> QED
  BY <1>6, <1>7

LEMMA RemoveBlockTotals == IInv /\ RemoveBlock => TotalInv'
<1> SUFFICES ASSUME IInv, RemoveBlock PROVE TotalInv'
  OBVIOUS
<1>1. /\ pc = "drop" /\ pc' = "drop" /\ UNCHANGED <<messages, maxTokens>>
      /\ OverBudget /\ block \in Indices
      /\ removed' = removed \cup Block(block)
      /\ total' = total - Tokens(Block(block))
      /\ block' = NextBlock(block + 1)
  BY DEF RemoveBlock, inVars, Freed
<1>2. messages \in Seq(Message) /\ StartsBlock(block)
  BY <1>1 DEF IInv, TurnInv, InputInv, BlockInv
<1>3. /\ Counted
      /\ total = Tokens(Indices \ removed)
      /\ removed \subseteq Indices
      /\ \A i \in Indices : i \in removed <=> i < block /\ ~Protected(i)
      /\ \A i \in removed : MustGo(i)
  BY <1>1 DEF IInv, TurnInv, RemovedInv, TotalInv, AfterCount
<1>4. Indices = 1..Len(messages) /\ Len(messages) \in Nat /\ block + 1 \in Nat
  BY <1>1, <1>2 DEF Indices
<1>5. /\ Block(block) \subseteq Indices
      /\ block < NextBlock(block + 1)
      /\ NextBlock(block + 1) \in Indices \cup {Len(messages) + 1}
      /\ \A i \in Indices :
            i \in Block(block) <=> block <= i /\ i < NextBlock(block + 1) /\ ~Protected(i)
  BY <1>1, <1>2, <1>4, BlockIsWhole, BlockReachesNext, NextBlockIsLeast
<1>6. \A i \in Indices : i \in removed' <=> i < block' /\ ~Protected(i)
  BY <1>1, <1>3, <1>4, <1>5
<1>7. total' = Tokens(Indices \ removed')
  <2>1. Block(block) \subseteq Indices \ removed
    <3> SUFFICES ASSUME NEW i \in Block(block) PROVE i \in Indices \ removed
      OBVIOUS
    <3>1. i \in Indices /\ block <= i
      BY <1>5
    <3> QED
      BY <1>1, <1>3, <1>4, <3>1
  <2>2. Indices \ removed' = (Indices \ removed) \ Block(block)
    BY <1>1
  <2>3. Tokens((Indices \ removed) \ Block(block))
          = Tokens(Indices \ removed) - Tokens(Block(block))
    BY <1>2, <1>3, <2>1, TokensGrow
  <2> QED
    BY <1>1, <1>3, <2>2, <2>3
<1>8. ASSUME NEW i \in Block(block) PROVE MustGo(i)
  <2>1. {j \in Indices : j < i /\ ~Protected(j) /\ ~SameTurn(j, i)} = removed
    BY <1>1, OlderThanBlock
  <2>2. ~Protected(i)
    BY <1>5
  <2> QED
    BY <1>1, <1>3, <2>1, <2>2 DEF MustGo, OverBudget
<1>9. \A i \in removed' : MustGo(i)
  BY <1>1, <1>3, <1>8
<1>10. Indices' = Indices /\ \A i : Protected(i)' <=> Protected(i)
  BY <1>1, TurnsAreStable
<1>11. /\ Counted' = Counted
       /\ \A S : Tokens(S)' = Tokens(S)
       /\ \A i : MustGo(i)' <=> MustGo(i)
  BY <1>1, SumsAreStable
<1>12. /\ Counted'
       /\ block' \in Indices \cup {Len(messages) + 1}
       /\ total' = Tokens(Indices \ removed)'
       /\ \A i \in Indices : i \in removed' <=> i < block' /\ ~Protected(i)'
       /\ \A i \in removed' : MustGo(i)'
  BY <1>1, <1>3, <1>5, <1>6, <1>7, <1>9, <1>10, <1>11
<1>13. ~Unlimited
  BY <1>1 DEF IInv, TotalInv
<1> QED
  BY <1>1, <1>10, <1>12, <1>13 DEF TotalInv, Unlimited

LEMMA CountTotals == IInv /\ Count => TotalInv'
<1> SUFFICES ASSUME IInv, Count PROVE TotalInv'
  OBVIOUS
<1>1. /\ pc' = "drop" /\ UNCHANGED <<messages, maxTokens>>
      /\ ~Unlimited /\ Countable /\ removed = {} /\ removed' = {}
      /\ total' = Tokens(Indices) /\ block' = NextBlock(1)
  BY DEF Count, inVars, IInv, TotalInv
<1>2. messages \in Seq(Message)
  BY DEF IInv, TurnInv, InputInv
<1>3. Counted
  <2> SUFFICES ASSUME NEW i \in Indices PROVE messages[i].cost \in Nat
    BY DEF Counted
  <2>1. messages[i] \in Message
    BY <1>2 DEF Indices
  <2>2. messages[i].cost \in Costs /\ messages[i].cost # CountError
    BY <1>1, <2>1 DEF Message, Countable
  <2> QED
    BY <2>2, CostsAssumption
<1>4. Indices = 1..Len(messages) /\ Len(messages) \in Nat
  BY <1>2 DEF Indices
<1>5. /\ NextBlock(1) \in Indices \cup {Len(messages) + 1}
      /\ NextBlock(1) \in Nat
      /\ \A j \in Indices : StartsBlock(j) => NextBlock(1) <= j
  BY <1>2, <1>4, NextBlockIsLeast
<1>6. ASSUME NEW i \in Indices, i < NextBlock(1) PROVE Protected(i)
  <2> SUFFICES ASSUME ~Protected(i) PROVE FALSE
    OBVIOUS
  <2>1. 1 \in Indices /\ 1 <= i
    BY <1>4
  <2>2. PICK k \in 1..i : StartsBlock(k)
    BY <1>2, <2>1, StartComes
  <2>3. k \in Indices /\ k < NextBlock(1)
    BY <1>4, <1>5, <1>6
  <2> QED
    BY <1>4, <1>5, <2>2, <2>3
<1>7. Indices \ removed' = Indices
  BY <1>1
<1>8. /\ Indices' = Indices /\ \A i : Protected(i)' <=> Protected(i)
      /\ Counted' = Counted /\ \A S : Tokens(S)' = Tokens(S)
  BY <1>1, TurnsAreStable, SumsAreStable
<1>9. /\ Counted'
      /\ block' \in Indices \cup {Len(messages) + 1}
      /\ total' = Tokens(Indices \ removed)'
      /\ \A i \in Indices : i \in removed' <=> i < block' /\ ~Protected(i)'
      /\ removed' = {}
  BY <1>1, <1>3, <1>5, <1>6, <1>7, <1>8
<1> QED
  BY <1>1, <1>8, <1>9 DEF TotalInv, Unlimited

LEMMA OtherTotals ==
    ASSUME IInv, UNCHANGED <<messages, maxTokens, total, block, removed>>,
           \/ pc' = pc
           \/ pc = "count" /\ Unlimited /\ pc' = "done"
           \/ pc = "count" /\ pc' = "failed"
           \/ pc = "drop" /\ ~(OverBudget /\ block \in Indices) /\ pc' = "done"
    PROVE  TotalInv'
<1>1. /\ Indices' = Indices /\ \A i : Protected(i)' <=> Protected(i)
      /\ Counted' = Counted /\ Unlimited' = Unlimited
      /\ \A S : Tokens(S)' = Tokens(S)
      /\ \A i : MustGo(i)' <=> MustGo(i)
  BY TurnsAreStable, SumsAreStable
<1>2. Tokens(Indices \ removed)' = Tokens(Indices \ removed)
  BY <1>1
<1>3. OverBudget' = OverBudget /\ Len(messages)' = Len(messages)
  BY DEF OverBudget
<1>4. AfterCount' => AfterCount
  BY <1>1 DEF AfterCount
<1>5. TotalInv
  BY DEF IInv
<1>6. (pc = "count" \/ (pc = "done" /\ Unlimited) => removed = {})'
  BY <1>1, <1>5 DEF TotalInv, IInv
<1>7. (pc = "done" /\ ~Unlimited => ~(OverBudget /\ block \in Indices))'
  BY <1>1, <1>3, <1>5 DEF TotalInv
<1>8. ASSUME AfterCount'
      PROVE  /\ Counted'
             /\ (block \in Indices \cup {Len(messages) + 1})'
             /\ (total = Tokens(Indices \ removed))'
             /\ (\A i \in Indices : i \in removed <=> i < block /\ ~Protected(i))'
             /\ (\A i \in removed : MustGo(i))'
  BY <1>1, <1>2, <1>3, <1>4, <1>5, <1>8 DEF TotalInv
<1>9. (pc = "drop" => ~Unlimited)'
  BY <1>1, <1>5 DEF TotalInv
<1> QED
  BY <1>6, <1>7, <1>8, <1>9 DEF TotalInv

LEMMA InitEstablishes == Init => IInv
  BY InitTurns DEF Init, IInv, TotalInv, AfterCount

LEMMA StepPreserves == IInv /\ [Next]_vars => IInv'
<1> SUFFICES ASSUME IInv, [Next]_vars PROVE IInv'
  OBVIOUS
<1>1. TurnInv'
  BY StepTurns DEF IInv
<1> SUFFICES TotalInv'
  BY <1>1 DEF IInv
<1>2. CASE Skip
  BY <1>2, OtherTotals DEF Skip, Stop, inVars
<1>3. CASE CountFails
  BY <1>3, OtherTotals DEF CountFails, Stop, inVars
<1>4. CASE Count
  BY <1>4, CountTotals
<1>5. CASE RemoveBlock
  BY <1>5, RemoveBlockTotals
<1>6. CASE Finish
  BY <1>6, OtherTotals DEF Finish, Stop, inVars
<1>7. CASE UNCHANGED vars
  BY <1>7, OtherTotals DEF vars, inVars
<1> QED
  BY <1>2, <1>3, <1>4, <1>5, <1>6, <1>7 DEF Next

\* What a run has removed is all that had to go, and nothing else.
LEMMA FewestAndOldest == IInv => DropsFewestOldestTurns
<1> SUFFICES ASSUME IInv, pc = "done"
             PROVE  removed = IF maxTokens <= 0 THEN {} ELSE {i \in Indices : MustGo(i)}
  BY DEF DropsFewestOldestTurns
<1>1. CASE Unlimited
  BY <1>1 DEF IInv, TotalInv, Unlimited
<1>2. CASE ~Unlimited
  <2>1. /\ Counted /\ total = Tokens(Indices \ removed)
        /\ block \in Indices \cup {Len(messages) + 1}
        /\ \A i \in Indices : i \in removed <=> i < block /\ ~Protected(i)
        /\ \A i \in removed : MustGo(i)
        /\ ~(total > maxTokens /\ block \in Indices)
    BY <1>2 DEF IInv, TotalInv, AfterCount, OverBudget
  <2>2. /\ messages \in Seq(Message) /\ maxTokens \in Int /\ removed \subseteq Indices
        /\ \A i \in removed, j \in Indices : SameTurn(i, j) => j \in removed
    BY DEF IInv, TurnInv, InputInv, RemovedInv
  <2>3. Indices = 1..Len(messages) /\ Len(messages) \in Nat
    BY <2>2 DEF Indices
  <2>4. ASSUME NEW i \in Indices, MustGo(i), i \notin removed
        PROVE  FALSE
    <3> DEFINE older == {j \in Indices : j < i /\ ~Protected(j) /\ ~SameTurn(j, i)}
    <3>1. block <= i /\ block \in Indices
      BY <2>1, <2>3, <2>4 DEF MustGo
    <3>2. removed \subseteq older
      <4> SUFFICES ASSUME NEW j \in removed PROVE j \in older
        OBVIOUS
      <4>1. j \in Indices /\ j < block /\ ~Protected(j)
        BY <2>1, <2>2
      <4>2. ~SameTurn(j, i)
        BY <2>2, <2>4
      <4> QED
        BY <2>3, <3>1, <4>1, <4>2
    <3>3. Tokens(Indices \ older) > maxTokens
      BY <2>4 DEF MustGo
    <3>4. Indices \ older \in SUBSET (Indices \ removed) /\ Indices \ removed \in SUBSET Indices
      BY <3>2
    <3> HIDE DEF older
    <3>5. Tokens(Indices \ older) <= Tokens(Indices \ removed)
      BY <2>1, <2>2, <3>4, TokensGrow
    <3>6. Tokens(Indices \ older) \in Nat /\ Tokens(Indices \ removed) \in Nat
      BY <2>1, <2>2, <3>4, TokensAreAdded
    <3> QED
      BY <2>1, <2>2, <3>1, <3>3, <3>5, <3>6
  <2> QED
    BY <1>2, <2>1, <2>2, <2>4 DEF Unlimited
<1> QED
  BY <1>1, <1>2

LEMMA FitsOrBare == IInv => FitsOrIsBare
<1> SUFFICES ASSUME IInv, pc = "done", maxTokens > 0,
                    ~(Tokens(Kept) <= maxTokens), NEW i \in Kept
             PROVE  Protected(i)
  BY DEF FitsOrIsBare
<1>1. messages \in Seq(Message) /\ maxTokens \in Int
  BY DEF IInv, TurnInv, InputInv
<1>2. ~Unlimited
  BY <1>1 DEF Unlimited
<1>3. /\ Counted /\ total = Tokens(Kept)
      /\ block \in Indices \cup {Len(messages) + 1}
      /\ i \in Indices /\ i \notin removed
      /\ i < block => Protected(i)
      /\ ~(total > maxTokens /\ block \in Indices)
  BY <1>2 DEF IInv, TotalInv, AfterCount, OverBudget, Kept
<1>4. Tokens(Kept) \in Nat
  <2>1. Kept \in SUBSET Indices
    BY DEF Kept
  <2> QED
    BY <1>1, <1>3, <2>1, TokensAreAdded
<1>5. block = Len(messages) + 1
  BY <1>1, <1>3, <1>4
<1> QED
  BY <1>1, <1>3, <1>5 DEF Indices

\* A tool message answers a call of the conversation.
LEMMA CallsExist ==
    ASSUME InputInv, NEW i \in Indices, Answered(i)
    PROVE  CallOf(i) \in Indices
<1> DEFINE T == {j \in 1..(i - 1) : messages[j].kind = "call"}
<1>1. Indices = 1..Len(messages) /\ Len(messages) \in Nat
  BY DEF InputInv, Indices
<1>2. i \in Nat /\ T \in SUBSET (0..i)
  BY <1>1
<1>3. T # {}
  BY DEF InputInv, WellFormed, Answered, Indices
<1>4. Max(T) \in T
  <2> HIDE DEF T
  <2> QED
    BY <1>2, <1>3, MaxIsGreatest
<1> QED
  BY <1>1, <1>4 DEF CallOf

LEMMA WholeTurnsAreWhole == IInv => ToolTurnsAreWhole
<1> SUFFICES ASSUME IInv, NEW i \in Indices, Answered(i), SameTurn(CallOf(i), i)
             PROVE  i \in removed <=> CallOf(i) \in removed
  BY DEF ToolTurnsAreWhole
<1>1. CallOf(i) \in Indices
  BY CallsExist DEF IInv, TurnInv
<1>2. SameTurn(i, CallOf(i))
  <2>1. {i, CallOf(i)} = {CallOf(i), i}
    OBVIOUS
  <2> QED
    BY <2>1 DEF SameTurn
<1> QED
  BY <1>1, <1>2 DEF IInv, TurnInv, RemovedInv

\* A call and the results that stand together with it are kept or removed
\* together, whatever the conversation, its token counts and the budget.
THEOREM ToolTurnsStayWhole == Spec => []ToolTurnsAreWhole
<1>1. Init => IInv
  BY InitEstablishes
<1>2. IInv /\ [Next]_vars => IInv'
  BY StepPreserves
<1>3. IInv => ToolTurnsAreWhole
  BY WholeTurnsAreWhole
<1> QED
  BY <1>1, <1>2, <1>3, PTL DEF Spec

\* What is removed is exactly the oldest turns that the budget makes
\* necessary, for any budget and any counter: no turn goes for nothing, none
\* goes before an older one.
THEOREM FewestOldestTurnsGo == Spec => []DropsFewestOldestTurns
<1>1. Init => IInv
  BY InitEstablishes
<1>2. IInv /\ [Next]_vars => IInv'
  BY StepPreserves
<1>3. IInv => DropsFewestOldestTurns
  BY FewestAndOldest
<1> QED
  BY <1>1, <1>2, <1>3, PTL DEF Spec

\* The running total is the sum of what is left, so that a result that is over
\* budget has nothing left to remove.
THEOREM ResultFits == Spec => []FitsOrIsBare
<1>1. Init => IInv
  BY InitEstablishes
<1>2. IInv /\ [Next]_vars => IInv'
  BY StepPreserves
<1>3. IInv => FitsOrIsBare
  BY FitsOrBare
<1> QED
  BY <1>1, <1>2, <1>3, PTL DEF Spec
=============================================================================
