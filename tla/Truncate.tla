------------------------------ MODULE Truncate ------------------------------
(***************************************************************************)
(* ext/truncate.DropOldest, behind middleware/contextx.WithTokenBudget: it *)
(* removes the oldest turns of a conversation, one at a time, until the    *)
(* rest fits a token budget.  System and developer messages are protected. *)
(* Between them a turn starts at a user message, or where the stretch of   *)
(* unprotected messages starts, and goes on to the next start.             *)
(*                                                                         *)
(* A message is its kind and what the token counter says of it; a "call"   *)
(* is an assistant message that makes a tool call, which the tool messages *)
(* after it answer.  The conversation is chosen when a behaviour starts.   *)
(***************************************************************************)
EXTENDS Integers, Sequences, FiniteSets, FiniteSetsExt

CONSTANTS
    Kinds,      \* the kinds of message in a conversation
    Costs,      \* what CountMessage can return; CountError for its error
    CountError,
    Budgets,    \* values of maxTokens
    MaxLen      \* bound: messages in a conversation

ASSUME KindsAssumption ==
    Kinds \subseteq {"system", "developer", "user", "assistant", "call", "tool"}
ASSUME CostsAssumption == Costs \subseteq Nat \cup {CountError}
ASSUME BudgetsAssumption == Budgets \subseteq Int

VARIABLES
    messages, maxTokens,    \* the input
    pc,
    total,      \* tokens of what is left
    block,      \* where the next block to remove starts; past the end: none
    removed     \* messages marked as removed

inVars == <<messages, maxTokens>>
vars == <<inVars, pc, total, block, removed>>

Message == [kind : Kinds, cost : Costs]

\* Conversations in which every tool message answers some earlier call.
WellFormed(ms) ==
    \A i \in DOMAIN ms :
        ms[i].kind = "tool" => \E j \in 1..(i - 1) : ms[j].kind = "call"

Init ==
    /\ messages \in {ms \in UNION {[1..n -> Message] : n \in 0..MaxLen} : WellFormed(ms)}
    /\ maxTokens \in Budgets
    /\ pc = "count"
    /\ total = 0
    /\ block = 1
    /\ removed = {}

-----------------------------------------------------------------------------
Indices == DOMAIN messages

Protected(i) == messages[i].kind \in {"system", "developer"}

StartsBlockAlways(i) == ~Protected(i)

\* A block starts where a segment does and at every user message.
StartsBlock(i) ==
    /\ ~Protected(i)
    /\ i = 1 \/ Protected(i - 1) \/ messages[i].kind = "user"

NextUserBlock(i) ==
    Min({j \in Indices : j >= i /\ messages[j].kind = "user"}
        \cup {Len(messages) + 1})

\* The first block start at i or after it, else the index after the last.
NextBlock(i) ==
    Min({j \in Indices : j >= i /\ StartsBlock(j)} \cup {Len(messages) + 1})

\* The block that starts at b ends before a protected message or the next
\* block start.
Block(b) ==
    b .. (Min({j \in Indices : j > b /\ (Protected(j) \/ StartsBlock(j))}
              \cup {Len(messages) + 1}) - 1)

Tokens(S) == MapThenSumSet(LAMBDA i : messages[i].cost, S)

Freed(b) == Tokens(Block(b))

Unlimited == maxTokens <= 0
Countable == \A i \in Indices : messages[i].cost # CountError

Stop(how) == pc' = how /\ UNCHANGED <<inVars, total, block, removed>>

\* No budget: a clone of the input.
Skip == pc = "count" /\ Unlimited /\ Stop("done")

CountFails == pc = "count" /\ ~Unlimited /\ ~Countable /\ Stop("failed")

Count ==
    /\ pc = "count" /\ ~Unlimited /\ Countable
    /\ total' = Tokens(Indices)
    /\ block' = NextBlock(1)
    /\ pc' = "drop"
    /\ UNCHANGED <<inVars, removed>>

OverBudgetOrAt == total >= maxTokens

OverBudget == total > maxTokens

RemoveBlock ==
    /\ pc = "drop"
    /\ OverBudget /\ block \in Indices
    /\ removed' = removed \cup Block(block)
    /\ total' = total - Freed(block)
    /\ block' = NextBlock(block + 1)
    /\ UNCHANGED <<inVars, pc>>

Finish == pc = "drop" /\ ~(OverBudget /\ block \in Indices) /\ Stop("done")

Next == Skip \/ CountFails \/ Count \/ RemoveBlock \/ Finish

Spec == Init /\ [][Next]_vars

-----------------------------------------------------------------------------
Kept == Indices \ removed

\* Two messages belong to one turn: nothing between them, the later one
\* included, starts another.
SameTurn(i, j) ==
    \A k \in Min({i, j}) .. Max({i, j}) :
        ~Protected(k) /\ (k # Min({i, j}) => messages[k].kind # "user")

\* The definition to compare with: an unprotected message goes when the
\* conversation without the turns older than its own is still over budget.
MustGo(i) ==
    /\ ~Protected(i)
    /\ Tokens(Indices \ {j \in Indices : j < i /\ ~Protected(j) /\ ~SameTurn(j, i)})
         > maxTokens

(***************************************************************************)
(* The result is the conversation without the fewest oldest whole turns    *)
(* that have to go: each one is needed, no turn is split, and protected    *)
(* messages stay wherever they are.                                        *)
(***************************************************************************)
DropsFewestOldestTurns ==
    pc = "done" =>
        removed = IF maxTokens <= 0 THEN {} ELSE {i \in Indices : MustGo(i)}

(***************************************************************************)
(* The running total, from which the loop decides, is that of what is left *)
(* and is never recounted, so a result is over budget only when nothing    *)
(* but protected messages is left.                                         *)
(***************************************************************************)
FitsOrIsBare ==
    pc = "done" /\ maxTokens > 0 =>
        Tokens(Kept) <= maxTokens \/ \A i \in Kept : Protected(i)

\* The call a tool message answers is the last one before it.
CallOf(i) == Max({j \in 1..(i - 1) : messages[j].kind = "call"})
Answered(i) == messages[i].kind = "tool"

(***************************************************************************)
(* Where a call and its results stand together, with neither a protected   *)
(* nor a user message between them, they stay or go together.              *)
(***************************************************************************)
ToolTurnsAreWhole ==
    pc = "done" =>
        \A i \in Indices :
            Answered(i) /\ SameTurn(CallOf(i), i) =>
                (i \in removed <=> CallOf(i) \in removed)

(***************************************************************************)
(* "preserving protected system/tool invariants": no tool message is left  *)
(* without the call that it answers.                                       *)
(***************************************************************************)
NoOrphanToolResult ==
    pc = "done" => \A i \in Kept : Answered(i) => CallOf(i) \in Kept
=============================================================================
