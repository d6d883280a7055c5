--------------------------- MODULE RemoteRegistry ---------------------------
(***************************************************************************)
(* remoteregistry.Registry over the git Fetcher.  The registry itself      *)
(* keeps no state: a GetTemplate is a chain of Fetch and Stat calls, one   *)
(* candidate id after the other, each of which locks the fetcher for       *)
(* itself.  Other calls, Close, restarts and commits come in between.      *)
(***************************************************************************)
EXTENDS GitFetcher, Sequences

CONSTANTS
    Callers,    \* goroutines that call GetTemplate
    Ids,        \* template ids
    EnvOf,      \* the id.env of each template id; id itself without an env
    MaxCalls    \* bound: GetTemplate calls in a behaviour

AnyId == CHOOSE i \in Ids : TRUE
ASSUME IdsAssumption == Ids # {} /\ Ids \subseteq Cids \ EnvCids
ASSUME EnvOfAssumption == \A i \in Ids : EnvOf[i] \in EnvCids \cup {i}

VARIABLES
    pc, req, at, ctxDone, calls,
    loaded,     \* the manifest parsed, before Stat: its commit and extension
    answer,     \* what the last call of each caller returned
    \* history, read by no action: the head when the call began; whether the
    \* pull or clone of each of its Fetches succeeded
    since, refreshed

callVars == <<pc, req, at, ctxDone, calls, loaded, answer, since, refreshed>>
vars == <<gitVars, callVars>>

fetchCandidateIDs(i) == IF EnvOf[i] = i THEN <<i>> ELSE <<EnvOf[i], i>>

\* A template: the commit that last changed its manifest, and the commit
\* Stat gave as Metadata.Version, 0 for none; ext and vext, which no caller
\* sees, are the extensions of the files the two were found in.
Loaded   == [rev : Nat, ext : Exts]
Template == [rev : Nat, ext : Exts, version : Nat, vext : Exts]
Answer   == [kind : {"none", "ok", "notfound", "failed", "cancelled"}, tpl : Template]
NoTemplate == [rev |-> 0, ext |-> 1, version |-> 0, vext |-> 1]
Ok(body, v, x) == [kind |-> "ok",
                   tpl |-> [rev |-> body.rev, ext |-> body.ext, version |-> v, vext |-> x]]
Fail(k) == [kind |-> k, tpl |-> NoTemplate]

Init ==
    /\ GitInit
    /\ pc = [c \in Callers |-> "idle"]
    /\ req = [c \in Callers |-> AnyId]
    /\ at = [c \in Callers |-> 1]
    /\ ctxDone = [c \in Callers |-> FALSE]
    /\ calls = 0
    /\ loaded = [c \in Callers |-> [rev |-> 0, ext |-> 1]]
    /\ answer = [c \in Callers |-> Fail("none")]
    /\ since = [c \in Callers |-> Empty]
    /\ refreshed = [c \in Callers |-> TRUE]

-----------------------------------------------------------------------------
Call(c, i) ==
    /\ pc[c] = "idle"
    /\ calls < MaxCalls
    /\ calls' = calls + 1
    /\ pc' = [pc EXCEPT ![c] = "fetch"]
    /\ req' = [req EXCEPT ![c] = i]
    /\ at' = [at EXCEPT ![c] = 1]
    /\ ctxDone' = [ctxDone EXCEPT ![c] = FALSE]
    /\ answer' = [answer EXCEPT ![c] = Fail("none")]
    /\ since' = [since EXCEPT ![c] = upstream]
    /\ refreshed' = [refreshed EXCEPT ![c] = TRUE]
    /\ UNCHANGED <<gitVars, loaded>>

CancelCtx(c) ==
    /\ pc[c] # "idle" /\ ~ctxDone[c]
    /\ ctxDone' = [ctxDone EXCEPT ![c] = TRUE]
    /\ UNCHANGED <<gitVars, pc, req, at, calls, loaded, answer, since, refreshed>>

Return(c, a) ==
    /\ pc' = [pc EXCEPT ![c] = "idle"]
    /\ answer' = [answer EXCEPT ![c] = a]

Cid(c) == fetchCandidateIDs(req[c])[at[c]]

\* The next candidate, or NotFound after the last.
NextCandidate(c) ==
    IF at[c] < Len(fetchCandidateIDs(req[c]))
    THEN at' = [at EXCEPT ![c] = @ + 1] /\ UNCHANGED <<pc, answer>>
    ELSE Return(c, Fail("notfound")) /\ UNCHANGED at

\* ctx.Err(), Fetch and Parse for one candidate.  Parse may fail on any
\* manifest.
FetchCandidate(c) ==
    /\ pc[c] = "fetch"
    /\ IF ctxDone[c]
       THEN Return(c, Fail("cancelled")) /\ UNCHANGED <<gitVars, at, loaded, refreshed>>
       ELSE /\ Fetch(Cid(c))
            /\ refreshed' = [refreshed EXCEPT ![c] = @ /\ reply'.pulled]
            /\ \/ reply'.kind = "notfound" /\ NextCandidate(c) /\ UNCHANGED loaded
               \/ /\ reply'.kind \in {"failed", "ok"}
                  /\ Return(c, Fail("failed"))
                  /\ UNCHANGED <<at, loaded>>
               \/ /\ reply'.kind = "ok"
                  /\ pc' = [pc EXCEPT ![c] = "stat"]
                  /\ loaded' = [loaded EXCEPT ![c] = [rev |-> reply'.rev, ext |-> reply'.ext]]
                  /\ UNCHANGED <<at, answer>>
    /\ UNCHANGED <<req, ctxDone, calls, since>>

StatBaseId(c) == req[c]

StatId(c) == Cid(c)

\* Stat of the same candidate gives the version, unless the manifest has a
\* version of its own; Stat's errors are dropped.
StatCandidate(c) ==
    /\ pc[c] = "stat"
    /\ Stat(StatId(c))
    /\ \E own \in BOOLEAN :
          Return(c, Ok(loaded[c], IF own THEN 0 ELSE reply'.rev, reply'.ext))
    /\ UNCHANGED <<req, at, ctxDone, calls, loaded, since, refreshed>>

\* The callers' process is the fetcher's: its restart ends their calls.
RestartAll ==
    /\ Restart
    /\ pc' = [c \in Callers |-> "idle"]
    /\ answer' = [c \in Callers |-> Fail("none")]
    /\ UNCHANGED <<req, at, ctxDone, calls, loaded, since, refreshed>>

Next ==
    \/ \E c \in Callers :
          \/ \E i \in Ids : Call(c, i)
          \/ CancelCtx(c)
          \/ FetchCandidate(c)
          \/ StatCandidate(c)
    \/ RestartAll
    \/ /\ UNCHANGED callVars
       /\ \/ Close
          \/ \E id \in Cids, x \in Exts, removed \in BOOLEAN : Commit(id, x, removed)
          \/ Merge

Spec == Init /\ [][Next]_vars

-----------------------------------------------------------------------------
TypeOK ==
    /\ GitTypeOK
    /\ pc \in [Callers -> {"idle", "fetch", "stat"}]
    /\ req \in [Callers -> Ids]
    /\ at \in [Callers -> 1..2]
    /\ ctxDone \in [Callers -> BOOLEAN]
    /\ calls \in Nat
    /\ loaded \in [Callers -> Loaded]
    /\ answer \in [Callers -> Answer]
    /\ since \in [Callers -> Tree]
    /\ refreshed \in [Callers -> BOOLEAN]

(***************************************************************************)
(* When the branch is the remote's HEAD, a call all of whose pulls and     *)
(* clones succeeded returns what the branch held when the call began, or a *)
(* later commit: a kept clone is pulled after it is opened, and an open    *)
(* one before each read.                                                   *)
(***************************************************************************)
FreshUnlessPullFails ==
    \A c \in Callers :
        Remote /\ OnHead /\ answer[c].kind = "ok" /\ refreshed[c] =>
            \/ answer[c].tpl.rev > since[c].commit
            \/ \E id \in {EnvOf[req[c]], req[c]} :
                  answer[c].tpl.rev = since[c].files[id][answer[c].tpl.ext]

(***************************************************************************)
(* The version that Stat adds is the commit that wrote the returned        *)
(* manifest or a later one that changed a manifest of that candidate,      *)
(* never an older one: a pull in between, of any branch, a Close and a new *)
(* clone only go forward.  The one case where it is older is that the file *)
(* returned has been removed since, and Stat fell back on the next         *)
(* extension.                                                              *)
(***************************************************************************)
VersionNotOlderThanBody ==
    \A c \in Callers :
        LET tpl == answer[c].tpl
        IN  answer[c].kind = "ok" /\ tpl.version # 0 /\ tpl.vext <= tpl.ext =>
                tpl.rev <= tpl.version
=============================================================================
