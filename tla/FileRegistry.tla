---------------------------- MODULE FileRegistry ----------------------------
(***************************************************************************)
(* fileregistry.Registry: templates read lazily from a directory that      *)
(* editors and deployments may rewrite at any time, and kept until Reload. *)
(* A call looks in the cache under the read lock; on a miss it takes the   *)
(* write lock, looks again, and walks the candidate paths of the id with   *)
(* the lock held.  Every file access is a step of its own, so the files    *)
(* change between any two of them.                                         *)
(*                                                                         *)
(* A manifest is the number of the write that made it, which is also its   *)
(* modification time, and what parsing it gives.  Ids are valid ones, and  *)
(* the manifests of an id lie in one directory of the tree.  WithPartials  *)
(* gives a pattern that is taken relative to that directory, so each       *)
(* directory has partials of its own: here, one file.  A message whose     *)
(* text does not parse is found out after the partials are read, and is    *)
(* told from a partial that does not parse by nothing.                     *)
(***************************************************************************)
EXTENDS Integers, Sequences, FiniteSets

CONSTANTS
    Callers,    \* goroutines that call GetTemplate
    Ids,        \* template ids
    Exts,       \* the manifest extensions, in the order they are tried
    HasEnv,     \* whether the registry was made WithEnvironment
    HasPartials,\* and WithPartials
    Dirs,       \* directories in which manifests lie
    Root,       \* the registry's own,
    PartialsDir,\* and the one in which the root has its partials
    NoCaller,   \* nobody holds the write lock
    NoFile,     \* no such file
    NoEntry,    \* no such cache entry
    MaxCalls,   \* bound: GetTemplate calls in a behaviour
    MaxReloads, \* bound: Reload calls in a behaviour
    MaxWrites   \* bound: files written in a behaviour

AnyId == CHOOSE i \in Ids : TRUE
ASSUME IdsAssumption == Ids # {}
ASSUME ExtsAssumption ==
    /\ Exts \in Seq(STRING) /\ Len(Exts) > 0
    /\ \A j, k \in 1..Len(Exts) : Exts[j] = Exts[k] => j = k
ASSUME EnvAssumption == HasEnv \in BOOLEAN
ASSUME PartialsAssumption == HasPartials \in BOOLEAN /\ Root \in Dirs /\ PartialsDir # Root
ASSUME NoCallerAssumption == NoCaller \notin Callers

Path == [env : BOOLEAN, ext : {Exts[k] : k \in 1..Len(Exts)}]

\* What Parse makes of the content: a manifest without a version of its own,
\* one that names its version, or an error.
Contents == {"plain", "versioned", "malformed"}
File == [rev : Nat, content : Contents]

\* A partial parses or does not, or is a link to no file, which a glob lists
\* and nobody can open.
PartialContents == {"plain", "malformed", "dangling"}
Partial == [rev : Nat, content : PartialContents]

\* A template is known by the files it was parsed from; partial is 0 without
\* partials.  Metadata.Version is the modification time of a file, the
\* manifest's own version, or empty.
OwnVersion == -1
NoVersion  == 0
Template == [path : Path, rev : Nat, partial : Nat, version : Int]
ASSUME NoFileAssumption == NoFile \notin File \cup Partial
ASSUME NoEntryAssumption == NoEntry \notin Template

VARIABLES
    \* the environment: the manifests, the directory of each id, the partials
    \* of each directory, and what has been done so far
    disk, home, partial, writes, calls, reloads,
    \* Registry: the holder of mu for writing, and the cache
    lock, cache,
    \* the callers: where they are in GetTemplate, the id asked for, the
    \* candidate they are at, the template parsed, whether their context is
    \* done, and what the last call returned
    pc, req, at, loaded, ctxDone, answer,
    \* history, read by no action: per id, the candidates absent at some
    \* moment since the last Reload and the templates returned since it; the
    \* directories whose partial could at some moment since be listed and not
    \* opened; the writes no longer on disk at the last Reload, and what those
    \* were when a caller's call began
    holes, served, torn, gone, stale

fileVars == <<disk, home, partial, writes>>
envVars  == <<fileVars, calls, reloads>>
regVars  == <<lock, cache>>
callVars == <<pc, req, at, loaded, ctxDone, answer>>
histVars == <<holes, served, torn, gone, stale>>
vars == <<envVars, regVars, callVars, histVars>>

PCs   == {"idle", "rlock", "lock", "parse", "glob", "partial", "stat"}
Kinds == {"none", "ok", "notfound", "failed", "cancelled"}

\* The candidate paths of an id, in resolution order.
idToPaths ==
    LET Under(env) == [k \in 1..Len(Exts) |-> [env |-> env, ext |-> Exts[k]]]
    IN  (IF HasEnv THEN Under(TRUE) ELSE <<>>) \o Under(FALSE)

Candidates == {idToPaths[k] : k \in 1..Len(idToPaths)}
Before(p)  == {q \in Candidates :
                 \E j, k \in 1..Len(idToPaths) :
                    j < k /\ idToPaths[j] = q /\ idToPaths[k] = p}

NoTemplate == [path |-> idToPaths[1], rev |-> 0, partial |-> 0, version |-> NoVersion]
Answer     == [kind : Kinds, tpl : Template]
Ok(t)      == [kind |-> "ok", tpl |-> t]
Fail(k)    == [kind |-> k, tpl |-> NoTemplate]

Absent(i)  == {p \in Candidates : disk[i][p] = NoFile}
OnDisk     == (UNION {{disk[i][p].rev : p \in Candidates \ Absent(i)} : i \in Ids})
              \cup {partial[d].rev : d \in {e \in Dirs : partial[e] # NoFile}}

\* A listed partial that cannot be opened.
Dangling(f) == f # NoFile /\ f.content = "dangling"

\* The template can be returned by a call for which the writes r are too old.
UpToDate(t, r) == t.rev \notin r /\ (HasPartials => t.partial \notin r)

-----------------------------------------------------------------------------
\* What the partials are at first, made by write 0.
FirstPartial == [rev |-> 0, content |-> "plain"]

Init ==
    /\ disk = [i \in Ids |-> [p \in Candidates |-> NoFile]]
    /\ home \in [Ids -> Dirs]
    /\ partial = [d \in Dirs |-> FirstPartial]
    /\ writes = 0 /\ calls = 0 /\ reloads = 0
    /\ lock = NoCaller
    /\ cache = [i \in Ids |-> NoEntry]
    /\ pc = [c \in Callers |-> "idle"]
    /\ req = [c \in Callers |-> AnyId]
    /\ at = [c \in Callers |-> 1]
    /\ loaded = [c \in Callers |-> NoTemplate]
    /\ ctxDone = [c \in Callers |-> FALSE]
    /\ answer = [c \in Callers |-> Fail("none")]
    /\ holes = [i \in Ids |-> Candidates]
    /\ served = [i \in Ids |-> {}]
    /\ torn = {}
    /\ gone = {}
    /\ stale = [c \in Callers |-> {}]

(***************************************************************************)
(* GetTemplate                                                             *)
(***************************************************************************)

Call(c, i) ==
    /\ pc[c] = "idle"
    /\ calls < MaxCalls
    /\ calls' = calls + 1
    /\ pc' = [pc EXCEPT ![c] = "rlock"]
    /\ req' = [req EXCEPT ![c] = i]
    /\ answer' = [answer EXCEPT ![c] = Fail("none")]
    /\ stale' = [stale EXCEPT ![c] = gone]
    /\ UNCHANGED <<fileVars, reloads, regVars, at, loaded, ctxDone, holes, served, torn, gone>>

\* Only Lock looks at the context: ended sooner, it is found done there too.
CancelCtx(c) ==
    /\ pc[c] = "lock"
    /\ ~ctxDone[c]
    /\ ctxDone' = [ctxDone EXCEPT ![c] = TRUE]
    /\ UNCHANGED <<envVars, regVars, pc, req, at, loaded, answer, histVars>>

FirstCandidate == 1

\* The variables of the call end with it.
Return(c, a) ==
    /\ pc' = [pc EXCEPT ![c] = "idle"]
    /\ at' = [at EXCEPT ![c] = FirstCandidate]
    /\ loaded' = [loaded EXCEPT ![c] = NoTemplate]
    /\ ctxDone' = [ctxDone EXCEPT ![c] = FALSE]
    /\ answer' = [answer EXCEPT ![c] = a]
    /\ served' = IF a.kind = "ok"
                 THEN [served EXCEPT ![req[c]] = @ \cup {a.tpl}]
                 ELSE served

Goto(c, l) ==
    /\ pc' = [pc EXCEPT ![c] = l]
    /\ UNCHANGED <<answer, served>>

\* The lookup under the read lock, which waits for a loading writer.
ReadLookup(c) ==
    /\ pc[c] = "rlock"
    /\ lock = NoCaller
    /\ IF cache[req[c]] # NoEntry
       THEN Return(c, Ok(cache[req[c]]))
       ELSE Goto(c, "lock") /\ UNCHANGED <<at, loaded, ctxDone>>
    /\ UNCHANGED <<envVars, regVars, req, holes, torn, gone, stale>>

LockWithoutRecheck(c) ==
    /\ pc[c] = "lock"
    /\ lock = NoCaller
    /\ IF ctxDone[c]
       THEN Return(c, Fail("cancelled")) /\ UNCHANGED lock
       ELSE /\ Goto(c, "parse")
            /\ lock' = c
            /\ at' = [at EXCEPT ![c] = FirstCandidate]
            /\ UNCHANGED <<loaded, ctxDone>>
    /\ UNCHANGED <<envVars, cache, req, holes, torn, gone, stale>>

\* Lock, then the lookup again and ctx.Err(); the early returns unlock.
Lock(c) ==
    /\ pc[c] = "lock"
    /\ lock = NoCaller
    /\ IF cache[req[c]] # NoEntry
       THEN Return(c, Ok(cache[req[c]])) /\ UNCHANGED lock
       ELSE IF ctxDone[c]
       THEN Return(c, Fail("cancelled")) /\ UNCHANGED lock
       ELSE /\ Goto(c, "parse")
            /\ lock' = c
            /\ at' = [at EXCEPT ![c] = FirstCandidate]
            /\ UNCHANGED <<loaded, ctxDone>>
    /\ UNCHANGED <<envVars, cache, req, holes, torn, gone, stale>>

\* The deferred Unlock.
UnlockOnSuccess(k) == lock' = IF k = "ok" THEN NoCaller ELSE lock

Unlock(k) == lock' = NoCaller

\* The candidate caller c is at, its file, and the partial for it.
Candidate(c) == idToPaths[at[c]]
Found(c)     == disk[req[c]][Candidate(c)]
FoundPartial(c) == partial[home[req[c]]]

\* Errors that wrap fs.ErrNotExist let the walk go on: the manifest cannot be
\* opened, or a partial.
SkippableAny(f) == IF f = NoFile THEN TRUE ELSE f.content \in {"malformed", "dangling"}

Skippable(f) == IF f = NoFile THEN TRUE ELSE f.content = "dangling"

NextCandidate(c) ==
    /\ at' = [at EXCEPT ![c] = @ + 1]
    /\ Goto(c, "parse")
    /\ UNCHANGED <<loaded, ctxDone>>

Abandon(c, k) == Return(c, Fail(k)) /\ Unlock(k)

\* ParseFile is done, and the walk of Stat begins.
StartStat(c) == at' = [at EXCEPT ![c] = FirstCandidate] /\ Goto(c, "stat")

(***************************************************************************)
(* ParseFile of one candidate: go on when it is absent, return the error   *)
(* when it does not parse, look for its partials otherwise.                *)
(***************************************************************************)
Parse(c) ==
    /\ pc[c] = "parse"
    /\ \/ /\ at[c] > Len(idToPaths)
          /\ Abandon(c, "notfound")
       \/ /\ at[c] <= Len(idToPaths) /\ Skippable(Found(c))
          /\ NextCandidate(c)
          /\ UNCHANGED lock
       \/ /\ at[c] <= Len(idToPaths) /\ ~Skippable(Found(c))
          /\ Found(c).content = "malformed"
          /\ Abandon(c, "failed")
       \/ /\ at[c] <= Len(idToPaths) /\ ~Skippable(Found(c))
          /\ Found(c).content # "malformed"
          /\ loaded' = [loaded EXCEPT ![c] =
                          [path |-> Candidate(c), rev |-> Found(c).rev, partial |-> 0,
                           version |-> IF Found(c).content = "versioned"
                                       THEN OwnVersion ELSE NoVersion]]
          /\ IF HasPartials THEN Goto(c, "glob") /\ UNCHANGED at ELSE StartStat(c)
          /\ UNCHANGED <<lock, ctxDone>>
    /\ UNCHANGED <<envVars, cache, req, holes, torn, gone, stale>>

\* ParseGlob lists the partials.  No match is an error, but not ErrNotExist.
Glob(c) ==
    /\ pc[c] = "glob"
    /\ IF FoundPartial(c) = NoFile
       THEN Abandon(c, "failed")
       ELSE Goto(c, "partial") /\ UNCHANGED <<lock, at, loaded, ctxDone>>
    /\ UNCHANGED <<envVars, cache, req, holes, torn, gone, stale>>

\* It then reads what it has listed.
ReadPartial(c) ==
    /\ pc[c] = "partial"
    /\ \/ /\ Skippable(FoundPartial(c))
          /\ NextCandidate(c)
          /\ UNCHANGED lock
       \/ /\ ~Skippable(FoundPartial(c)) /\ FoundPartial(c).content = "malformed"
          /\ Abandon(c, "failed")
       \/ /\ ~Skippable(FoundPartial(c)) /\ FoundPartial(c).content # "malformed"
          /\ loaded' = [loaded EXCEPT ![c].partial = FoundPartial(c).rev]
          /\ StartStat(c)
          /\ UNCHANGED <<lock, ctxDone>>
    /\ UNCHANGED <<envVars, cache, req, holes, torn, gone, stale>>

WithVersion(t, v) ==
    IF t.version = NoVersion THEN [t EXCEPT !.version = v] ELSE t

(***************************************************************************)
(* Stat walks the candidates anew: the first one present now gives the     *)
(* version.  With its answer, or without one when no candidate is left,    *)
(* the template is cached and returned.                                    *)
(***************************************************************************)
Stat(c) ==
    /\ pc[c] = "stat"
    /\ IF at[c] <= Len(idToPaths) /\ Found(c) = NoFile
       THEN /\ at' = [at EXCEPT ![c] = @ + 1]
            /\ Goto(c, "stat")
            /\ UNCHANGED <<lock, cache, loaded, ctxDone>>
       ELSE LET t == WithVersion(loaded[c], IF at[c] <= Len(idToPaths)
                                            THEN Found(c).rev ELSE NoVersion)
            IN  /\ cache' = [cache EXCEPT ![req[c]] = t]
                /\ Return(c, Ok(t))
                /\ Unlock("ok")
    /\ UNCHANGED <<envVars, req, holes, torn, gone, stale>>

(***************************************************************************)
(* Reload                                                                  *)
(***************************************************************************)

ClearCache ==
    /\ cache' = [i \in Ids |-> NoEntry]
    /\ reloads < MaxReloads
    /\ reloads' = reloads + 1
    /\ holes' = [i \in Ids |-> Absent(i)]
    /\ torn' = {d \in Dirs : Dangling(partial[d])}
    /\ served' = [i \in Ids |-> {}]
    /\ gone' = (0..writes) \ OnDisk
    /\ UNCHANGED <<fileVars, calls, lock, callVars, stale>>

ReloadUnlocked == ClearCache

Reload == lock = NoCaller /\ ClearCache

(***************************************************************************)
(* The files                                                               *)
(***************************************************************************)

Write(i, p, content) ==
    /\ writes < MaxWrites
    /\ writes' = writes + 1
    /\ disk' = [disk EXCEPT ![i][p] = [rev |-> writes + 1, content |-> content]]
    /\ UNCHANGED <<home, partial, calls, reloads, regVars, callVars, histVars>>

Remove(i, p) ==
    /\ disk[i][p] # NoFile
    /\ disk' = [disk EXCEPT ![i][p] = NoFile]
    /\ holes' = [holes EXCEPT ![i] = @ \cup {p}]
    /\ UNCHANGED <<home, partial, writes, calls, reloads, regVars, callVars, served, torn, gone, stale>>

WritePartial(d, content) ==
    /\ HasPartials
    /\ writes < MaxWrites
    /\ writes' = writes + 1
    /\ partial' = [partial EXCEPT ![d] = [rev |-> writes + 1, content |-> content]]
    /\ torn' = IF content = "dangling" THEN torn \cup {d} ELSE torn
    /\ UNCHANGED <<disk, home, calls, reloads, regVars, callVars, holes, served, gone, stale>>

RemovePartial(d) ==
    /\ HasPartials
    /\ partial[d] # NoFile
    /\ partial' = [partial EXCEPT ![d] = NoFile]
    /\ torn' = torn \cup {d}
    /\ UNCHANGED <<disk, home, writes, calls, reloads, regVars, callVars, holes, served, gone, stale>>

-----------------------------------------------------------------------------
CallerStep(c) == ReadLookup(c) \/ Lock(c) \/ Parse(c) \/ Glob(c) \/ ReadPartial(c) \/ Stat(c)

\* The directories whose partials this registry reads.
Read == {home[i] : i \in Ids}

\* Bound: the files are left alone once every call has been made and answered.
Busy == calls < MaxCalls \/ \E c \in Callers : pc[c] # "idle"

FilesChange ==
    \/ \E i \in Ids, p \in Candidates :
          \/ \E content \in Contents : Write(i, p, content)
          \/ Remove(i, p)
    \/ \E d \in Read :
          \/ \E content \in PartialContents : WritePartial(d, content)
          \/ RemovePartial(d)

Next ==
    \/ \E c \in Callers :
          \/ \E i \in Ids : Call(c, i)
          \/ CancelCtx(c)
          \/ CallerStep(c)
    \/ Busy /\ (Reload \/ FilesChange)

Spec == Init /\ [][Next]_vars

\* A goroutine keeps running, and sync.RWMutex starves nobody: with a
\* bounded number of calls and reloads weak fairness of each caller says both.
Fairness == \A c \in Callers : WF_vars(CallerStep(c))
FairSpec == Spec /\ Fairness

-----------------------------------------------------------------------------
(***************************************************************************)
(* Properties                                                              *)
(***************************************************************************)

TypeOK ==
    /\ disk \in [Ids -> [Candidates -> File \cup {NoFile}]]
    /\ home \in [Ids -> Dirs]
    /\ partial \in [Dirs -> Partial \cup {NoFile}]
    /\ writes \in Nat /\ calls \in Nat /\ reloads \in Nat
    /\ lock \in Callers \cup {NoCaller}
    /\ cache \in [Ids -> Template \cup {NoEntry}]
    /\ pc \in [Callers -> PCs]
    /\ req \in [Callers -> Ids]
    /\ at \in [Callers -> 1..(Len(idToPaths) + 1)]
    /\ \A c \in Callers : pc[c] \in {"glob", "partial"} => at[c] <= Len(idToPaths)
    /\ loaded \in [Callers -> Template]
    /\ ctxDone \in [Callers -> BOOLEAN]
    /\ answer \in [Callers -> Answer]
    /\ holes \in [Ids -> SUBSET Candidates]
    /\ served \in [Ids -> SUBSET Template]
    /\ torn \in SUBSET Dirs
    /\ gone \in SUBSET Nat
    /\ stale \in [Callers -> SUBSET Nat]

(***************************************************************************)
(* Between two Reloads every call for an id that succeeds returns the same *)
(* template, whatever happens to the files: of several callers that missed *)
(* the cache together only the first one to get the lock loads.            *)
(***************************************************************************)
OneTemplatePerReload == \A i \in Ids : \A s, t \in served[i] : s = t

(***************************************************************************)
(* Reload takes effect for every call begun after it: no such call returns *)
(* a file that was already overwritten or removed when Reload ran, not     *)
(* even when a load was under way that had read it.                        *)
(***************************************************************************)
ReloadForcesReread ==
    \A c \in Callers :
        answer[c].kind = "ok" => UpToDate(answer[c].tpl, stale[c])

(***************************************************************************)
(* A candidate is passed over only when, at some moment since the last     *)
(* Reload, its file was missing, or a partial that was listed for it could *)
(* not be opened.  An environment's manifest that does not parse, or whose *)
(* partials do not or match nothing, is never replaced by the base file,   *)
(* and NotFound means that every candidate was seen missing.               *)
(***************************************************************************)
PassedOver(a) ==
    CASE a.kind = "ok"       -> Before(a.tpl.path)
      [] a.kind = "notfound" -> Candidates
      [] OTHER               -> {}

MayBeMissed(i) == IF HasPartials /\ home[i] \in torn THEN Candidates ELSE holes[i]

PassedOverWereAbsent ==
    [][\A c \in Callers :
         answer'[c] # answer[c] => PassedOver(answer'[c]) \subseteq MayBeMissed(req[c])]_vars

(***************************************************************************)
(* Every GetTemplate returns: the write lock is released on each of its    *)
(* paths, errors included.                                                 *)
(***************************************************************************)
CallsReturn == \A c \in Callers : pc[c] # "idle" ~> pc[c] = "idle"
=============================================================================
