---------------------------- MODULE ReadThrough -----------------------------
(***************************************************************************)
(* What a caller of CachedRegistry.GetTemplate is promised, without caches *)
(* or flights: for each id there is a version the registry last obtained   *)
(* from its base, it only ever moves towards what the base holds, and a    *)
(* call answers with a version that the registry had obtained by then and  *)
(* that is no older than what it had when the call began.                  *)
(***************************************************************************)
EXTENDS Naturals

CONSTANTS Callers, Ids

VARIABLES
    source,   \* the base: current version of every id
    latest,   \* the version the registry last obtained
    asking,   \* callers inside GetTemplate
    want,     \* the id asked for
    floor,    \* latest[want] when the call began
    ctxDone,  \* the caller's context has ended
    answer    \* what the last call returned

vars == <<source, latest, asking, want, floor, ctxDone, answer>>

NoAnswer  == [kind |-> "none", ver |-> 0]
Ok(v)     == [kind |-> "ok", ver |-> v]
Failed    == [kind |-> "failed", ver |-> 0]
OwnCancel == [kind |-> "cancelled", ver |-> 0]

Init ==
    /\ source = [i \in Ids |-> 0]
    /\ latest = [i \in Ids |-> 0]
    /\ asking = [c \in Callers |-> FALSE]
    /\ want \in [Callers -> Ids]
    /\ floor = [c \in Callers |-> 0]
    /\ ctxDone = [c \in Callers |-> FALSE]
    /\ answer = [c \in Callers |-> NoAnswer]

Ask(c, i) ==
    /\ ~asking[c]
    /\ asking' = [asking EXCEPT ![c] = TRUE]
    /\ want' = [want EXCEPT ![c] = i]
    /\ floor' = [floor EXCEPT ![c] = latest[i]]
    /\ ctxDone' = [ctxDone EXCEPT ![c] = FALSE]
    /\ answer' = [answer EXCEPT ![c] = NoAnswer]
    /\ UNCHANGED <<source, latest>>

CancelCtx(c) ==
    /\ asking[c]
    /\ ctxDone' = [ctxDone EXCEPT ![c] = TRUE]
    /\ UNCHANGED <<source, latest, asking, want, floor, answer>>

\* A call fails only because its own context ended or its base failed.
Answers(c) ==
    {Failed} \cup {a \in {OwnCancel} : ctxDone[c]}
             \cup {Ok(v) : v \in floor[c]..latest[want[c]]}

Reply(c) ==
    /\ asking[c]
    /\ asking' = [asking EXCEPT ![c] = FALSE]
    /\ \E a \in Answers(c) : answer' = [answer EXCEPT ![c] = a]
    /\ UNCHANGED <<source, latest, want, floor, ctxDone>>

Obtain(i) ==
    /\ \E v \in latest[i]..source[i] : latest' = [latest EXCEPT ![i] = v]
    /\ UNCHANGED <<source, asking, want, floor, ctxDone, answer>>

Update(i) ==
    /\ source' = [source EXCEPT ![i] = @ + 1]
    /\ UNCHANGED <<latest, asking, want, floor, ctxDone, answer>>

Next ==
    \/ \E c \in Callers : CancelCtx(c) \/ Reply(c) \/ \E i \in Ids : Ask(c, i)
    \/ \E i \in Ids : Update(i) \/ Obtain(i)

Spec == Init /\ [][Next]_vars
=============================================================================
