--------------------------- MODULE CachedRegistry ---------------------------
(***************************************************************************)
(* remoteregistry.CachedRegistry: a TTL cache in front of any              *)
(* prompty.Registry that lets concurrent calls for one id share a single   *)
(* base fetch.  A fetch runs in a goroutine of its own, under a context    *)
(* detached from the callers'; the callers wait for it, may give up when   *)
(* their own context ends, and the last one to leave cancels it.           *)
(*                                                                         *)
(* One step is one critical section of r.mu, or one step taken outside of  *)
(* it.  Templates are abstracted to the version of the base that they were *)
(* read from; ids are valid ones (an invalid id makes every base fail, and *)
(* Evict return early).                                                    *)
(***************************************************************************)
EXTENDS Integers, FiniteSets

CONSTANTS
    Callers,    \* goroutines that call GetTemplate
    Ids,        \* template ids
    Flights,    \* *inflightFetch pointers, each allocated at most once
    NoFlight,   \* no entry in the inflight map / no flight joined
    NoEntry,    \* no entry in the cache map
    TTL,        \* 0 stands for every ttl <= 0: entries never expire
    MaxCalls,   \* bound: GetTemplate calls in a behaviour
    MaxTime,    \* bound: clock
    MaxVersion  \* bound: updates of the base

AnyId == CHOOSE i \in Ids : TRUE
ASSUME IdsAssumption == Ids # {}
ASSUME CallersAssumption == IsFiniteSet(Callers)
ASSUME FlightsAssumption == NoFlight \notin Flights
ASSUME BoundsAssumption ==
    TTL \in Nat /\ MaxCalls \in Nat /\ MaxTime \in Nat /\ MaxVersion \in Nat

Entry == [ver : Nat, expiresAt : Nat]
ASSUME NoEntryAssumption == NoEntry \notin Entry

VARIABLES
    \* the environment: clock, content of the base, GetTemplate calls made
    now, source, calls,
    \* CachedRegistry, guarded by r.mu
    cache, inflight,
    \* the inflightFetch objects; fstate is the progress of runInflightFetch
    fstate, fid, waiters, cancelled, result,
    \* the callers: where they are in GetTemplate, the id asked for, the
    \* clock they read, the flight they wait for, whether their context is
    \* done, and what the last call returned
    pc, req, at, ref, ctxDone, answer,
    \* history, read by no action: the version last put in the cache; what
    \* that was when a caller's call began; whether the call began with no
    \* valid entry for its id and none was stored since
    latest, floor, unserved

envVars    == <<now, source, calls>>
cacheVars  == <<cache, inflight>>
flightVars == <<fstate, fid, waiters, cancelled, result>>
callerVars == <<pc, req, at, ref, ctxDone, answer>>
histVars   == <<latest, floor, unserved>>
vars == <<envVars, cacheVars, flightVars, callerVars, histVars>>

Kinds == {"none", "ok", "failed", "shared", "cancelled"}
Answer == [kind : Kinds, ver : Nat]

NoAnswer     == [kind |-> "none", ver |-> 0]
Ok(v)        == [kind |-> "ok", ver |-> v]
Failed       == [kind |-> "failed", ver |-> 0]
\* ctx.Err() of the shared fetch context, reported by the base
SharedCancel == [kind |-> "shared", ver |-> 0]
\* ctx.Err() of the caller's own context
OwnCancel    == [kind |-> "cancelled", ver |-> 0]

PCs     == {"idle", "enter", "rlock", "lock", "wait", "release"}
FStates == {"none", "running", "read", "returned", "published", "closed"}

-----------------------------------------------------------------------------
Init ==
    /\ now = 0
    /\ source = [i \in Ids |-> 0]
    /\ calls = 0
    /\ cache = [i \in Ids |-> NoEntry]
    /\ inflight = [i \in Ids |-> NoFlight]
    /\ fstate = [f \in Flights |-> "none"]
    /\ fid = [f \in Flights |-> AnyId]
    /\ waiters = [f \in Flights |-> 0]
    /\ cancelled = [f \in Flights |-> FALSE]
    /\ result = [f \in Flights |-> NoAnswer]
    /\ pc = [c \in Callers |-> "idle"]
    /\ req = [c \in Callers |-> AnyId]
    /\ at = [c \in Callers |-> 0]
    /\ ref = [c \in Callers |-> NoFlight]
    /\ ctxDone = [c \in Callers |-> FALSE]
    /\ answer = [c \in Callers |-> NoAnswer]
    /\ latest = [i \in Ids |-> 0]
    /\ floor = [c \in Callers |-> 0]
    /\ unserved = [c \in Callers |-> FALSE]

\* Nothing in the cache for i that a TTL cache may serve now.
Stale(i) == cache[i] = NoEntry \/ (TTL > 0 /\ cache[i].expiresAt <= now)

(***************************************************************************)
(* GetTemplate                                                             *)
(***************************************************************************)

Call(c, i) ==
    /\ pc[c] = "idle"
    /\ calls < MaxCalls
    /\ calls' = calls + 1
    /\ pc' = [pc EXCEPT ![c] = "enter"]
    /\ req' = [req EXCEPT ![c] = i]
    /\ ctxDone' = [ctxDone EXCEPT ![c] = FALSE]
    /\ answer' = [answer EXCEPT ![c] = NoAnswer]
    /\ floor' = [floor EXCEPT ![c] = latest[i]]
    /\ unserved' = [unserved EXCEPT ![c] = Stale(i)]
    /\ UNCHANGED <<now, source, cacheVars, flightVars, at, ref, latest>>

\* The context of a call may end at any point of the call.
CancelCtx(c) ==
    /\ pc[c] # "idle"
    /\ ~ctxDone[c]
    /\ ctxDone' = [ctxDone EXCEPT ![c] = TRUE]
    /\ UNCHANGED <<envVars, cacheVars, flightVars, pc, req, at, ref, answer,
                   histVars>>

Return(c, a) ==
    /\ pc' = [pc EXCEPT ![c] = "idle"]
    /\ answer' = [answer EXCEPT ![c] = a]

EntryValidInclusive(i, t) ==
    cache[i] # NoEntry /\ (TTL = 0 \/ t <= cache[i].expiresAt)

EntryValid(i, t) ==
    cache[i] # NoEntry /\ (TTL = 0 \/ t < cache[i].expiresAt)

\* ctx.Err() first; then the clock is read, before the read lock is taken.
Enter(c) ==
    /\ pc[c] = "enter"
    /\ IF ctxDone[c]
       THEN Return(c, OwnCancel) /\ UNCHANGED at
       ELSE /\ pc' = [pc EXCEPT ![c] = "rlock"]
            /\ at' = [at EXCEPT ![c] = now]
            /\ UNCHANGED answer
    /\ UNCHANGED <<envVars, cacheVars, flightVars, req, ref, ctxDone, histVars>>

\* The lookup under the read lock, with the clock value read before it.
ReadLookup(c) ==
    /\ pc[c] = "rlock"
    /\ IF EntryValid(req[c], at[c])
       THEN Return(c, Ok(cache[req[c]].ver))
       ELSE pc' = [pc EXCEPT ![c] = "lock"] /\ UNCHANGED answer
    /\ UNCHANGED <<envVars, cacheVars, flightVars, req, at, ref, ctxDone,
                   histVars>>

LockedHit(c) ==
    /\ pc[c] = "lock"
    /\ EntryValid(req[c], now)
    /\ Return(c, Ok(cache[req[c]].ver))
    /\ UNCHANGED <<envVars, cacheVars, flightVars, req, at, ref, ctxDone,
                   histVars>>

\* The locked lookup missed: the caller goes on to wait for flight f.
WaitFor(c, f) ==
    /\ pc' = [pc EXCEPT ![c] = "wait"]
    /\ ref' = [ref EXCEPT ![c] = f]

JoinUncounted(c) ==
    /\ pc[c] = "lock"
    /\ ~EntryValid(req[c], now)
    /\ inflight[req[c]] # NoFlight
    /\ WaitFor(c, inflight[req[c]])
    /\ UNCHANGED <<envVars, cacheVars, flightVars, req, at, ctxDone, answer,
                   histVars>>

Join(c) ==
    /\ pc[c] = "lock"
    /\ ~EntryValid(req[c], now)
    /\ inflight[req[c]] # NoFlight
    /\ waiters' = [waiters EXCEPT ![inflight[req[c]]] = @ + 1]
    /\ WaitFor(c, inflight[req[c]])
    /\ UNCHANGED <<envVars, cacheVars, fstate, fid, cancelled, result, req, at,
                   ctxDone, answer, histVars>>

\* No flight for the id: allocate one, register it and spawn its goroutine.
Start(c, f) ==
    /\ pc[c] = "lock"
    /\ ~EntryValid(req[c], now)
    /\ inflight[req[c]] = NoFlight
    /\ fstate[f] = "none"
    /\ fstate' = [fstate EXCEPT ![f] = "running"]
    /\ fid' = [fid EXCEPT ![f] = req[c]]
    /\ waiters' = [waiters EXCEPT ![f] = 1]
    /\ inflight' = [inflight EXCEPT ![req[c]] = f]
    /\ WaitFor(c, f)
    /\ UNCHANGED <<envVars, cache, cancelled, result, req, at, ctxDone, answer,
                   histVars>>

(***************************************************************************)
(* waitForInflight and releaseInflightWaiter.  With both channels ready    *)
(* the select takes either branch.                                         *)
(***************************************************************************)

WaitDone(c) ==
    /\ pc[c] = "wait"
    /\ fstate[ref[c]] = "closed"
    /\ pc' = [pc EXCEPT ![c] = "release"]
    /\ answer' = [answer EXCEPT ![c] = result[ref[c]]]
    /\ UNCHANGED <<envVars, cacheVars, flightVars, req, at, ref, ctxDone,
                   histVars>>

WaitCancelledLate(c) ==
    /\ pc[c] = "wait"
    /\ ctxDone[c]
    /\ fstate[ref[c]] = "closed"
    /\ pc' = [pc EXCEPT ![c] = "release"]
    /\ answer' = [answer EXCEPT ![c] = OwnCancel]
    /\ UNCHANGED <<envVars, cacheVars, flightVars, req, at, ref, ctxDone,
                   histVars>>

WaitCancelled(c) ==
    /\ pc[c] = "wait"
    /\ ctxDone[c]
    /\ pc' = [pc EXCEPT ![c] = "release"]
    /\ answer' = [answer EXCEPT ![c] = OwnCancel]
    /\ UNCHANGED <<envVars, cacheVars, flightVars, req, at, ref, ctxDone,
                   histVars>>

ReleaseWithoutCancel(c) ==
    /\ pc[c] = "release"
    /\ pc' = [pc EXCEPT ![c] = "idle"]
    /\ ref' = [ref EXCEPT ![c] = NoFlight]
    /\ LET f == ref[c]
           i == req[c]
       IN IF inflight[i] = f
          THEN /\ waiters' = [waiters EXCEPT ![f] = @ - 1]
               /\ inflight' = [inflight EXCEPT
                     ![i] = IF waiters[f] <= 1 THEN NoFlight ELSE f]
          ELSE UNCHANGED <<waiters, inflight>>
    /\ UNCHANGED <<envVars, cache, fstate, fid, cancelled, result, req, at,
                   ctxDone, answer, histVars>>

ReleaseCancelsAlways(c) ==
    /\ pc[c] = "release"
    /\ pc' = [pc EXCEPT ![c] = "idle"]
    /\ ref' = [ref EXCEPT ![c] = NoFlight]
    /\ LET f == ref[c]
           i == req[c]
       IN IF inflight[i] = f
          THEN /\ waiters' = [waiters EXCEPT ![f] = @ - 1]
               /\ inflight' = [inflight EXCEPT ![i] = NoFlight]
               /\ cancelled' = [cancelled EXCEPT ![f] = TRUE]
          ELSE UNCHANGED <<waiters, inflight, cancelled>>
    /\ UNCHANGED <<envVars, cache, fstate, fid, result, req, at, ctxDone,
                   answer, histVars>>

\* Runs deferred, after the answer is chosen: only a flight that is still the
\* registered one counts its waiters, and the last to leave unregisters it
\* and cancels its context.
Release(c) ==
    /\ pc[c] = "release"
    /\ pc' = [pc EXCEPT ![c] = "idle"]
    /\ ref' = [ref EXCEPT ![c] = NoFlight]
    /\ LET f == ref[c]
           i == req[c]
       IN IF inflight[i] = f
          THEN /\ waiters' = [waiters EXCEPT ![f] = @ - 1]
               /\ IF waiters[f] - 1 <= 0
                  THEN /\ inflight' = [inflight EXCEPT ![i] = NoFlight]
                       /\ cancelled' = [cancelled EXCEPT ![f] = TRUE]
                  ELSE UNCHANGED <<inflight, cancelled>>
          ELSE UNCHANGED <<waiters, inflight, cancelled>>
    /\ UNCHANGED <<envVars, cache, fstate, fid, result, req, at, ctxDone,
                   answer, histVars>>

(***************************************************************************)
(* runInflightFetch: the base reads its content at one moment and returns  *)
(* at a later one; it may fail (a nil template counts as failure) at       *)
(* either, and a base whose context is cancelled may report that or may    *)
(* not notice.                                                             *)
(***************************************************************************)

FetchRead(f) ==
    /\ fstate[f] = "running"
    /\ fstate' = [fstate EXCEPT ![f] = "read"]
    /\ result' = [result EXCEPT ![f] = Ok(source[fid[f]])]
    /\ UNCHANGED <<envVars, cacheVars, fid, waiters, cancelled, callerVars,
                   histVars>>

FetchReturn(f) ==
    /\ \/ fstate[f] = "read" /\ UNCHANGED result
       \/ /\ fstate[f] \in {"running", "read"}
          /\ result' = [result EXCEPT ![f] = Failed]
       \/ /\ fstate[f] \in {"running", "read"}
          /\ cancelled[f]
          /\ result' = [result EXCEPT ![f] = SharedCancel]
    /\ fstate' = [fstate EXCEPT ![f] = "returned"]
    /\ UNCHANGED <<envVars, cacheVars, fid, waiters, cancelled, callerVars,
                   histVars>>

Expiry == IF TTL = 0 THEN 0 ELSE now + TTL

\* The effect of a fetch that is still registered when it ends.
Store(f) ==
    /\ inflight' = [inflight EXCEPT ![fid[f]] = NoFlight]
    /\ IF result[f].kind = "ok"
       THEN /\ cache' = [cache EXCEPT
                  ![fid[f]] = [ver |-> result[f].ver, expiresAt |-> Expiry]]
            /\ latest' = [latest EXCEPT ![fid[f]] = result[f].ver]
            /\ unserved' = [c \in Callers |->
                  unserved[c] /\ (pc[c] = "idle" \/ req[c] # fid[f])]
       ELSE UNCHANGED <<cache, latest, unserved>>

FetchPublishUnchecked(f) ==
    /\ fstate[f] = "returned"
    /\ Store(f)
    /\ fstate' = [fstate EXCEPT ![f] = "published"]
    /\ UNCHANGED <<envVars, fid, waiters, cancelled, result, callerVars, floor>>

FetchPublish(f) ==
    /\ fstate[f] = "returned"
    /\ IF inflight[fid[f]] = f
       THEN Store(f)
       ELSE UNCHANGED <<cacheVars, latest, unserved>>
    /\ fstate' = [fstate EXCEPT ![f] = "published"]
    /\ UNCHANGED <<envVars, fid, waiters, cancelled, result, callerVars, floor>>

FetchCloseOnSuccess(f) ==
    /\ fstate[f] = "published"
    /\ result[f].kind = "ok"
    /\ fstate' = [fstate EXCEPT ![f] = "closed"]
    /\ cancelled' = [cancelled EXCEPT ![f] = TRUE]
    /\ UNCHANGED <<envVars, cacheVars, fid, waiters, result, callerVars,
                   histVars>>

\* close(done), and the deferred cancel of the shared context.
FetchClose(f) ==
    /\ fstate[f] = "published"
    /\ fstate' = [fstate EXCEPT ![f] = "closed"]
    /\ cancelled' = [cancelled EXCEPT ![f] = TRUE]
    /\ UNCHANGED <<envVars, cacheVars, fid, waiters, result, callerVars,
                   histVars>>

(***************************************************************************)
(* Evict, EvictAll and the environment                                     *)
(***************************************************************************)

Evict(i) ==
    /\ cache' = [cache EXCEPT ![i] = NoEntry]
    /\ UNCHANGED <<envVars, inflight, flightVars, callerVars, histVars>>

EvictAll ==
    /\ cache' = [i \in Ids |-> NoEntry]
    /\ UNCHANGED <<envVars, inflight, flightVars, callerVars, histVars>>

Update(i) ==
    /\ source[i] < MaxVersion
    /\ source' = [source EXCEPT ![i] = @ + 1]
    /\ UNCHANGED <<now, calls, cacheVars, flightVars, callerVars, histVars>>

Tick ==
    /\ now < MaxTime
    /\ now' = now + 1
    /\ UNCHANGED <<source, calls, cacheVars, flightVars, callerVars, histVars>>

-----------------------------------------------------------------------------
CallerStep(c) ==
    \/ Enter(c)
    \/ ReadLookup(c)
    \/ LockedHit(c)
    \/ Join(c)
    \/ \E f \in Flights : Start(c, f)
    \/ WaitDone(c)
    \/ WaitCancelled(c)
    \/ Release(c)

FlightStep(f) ==
    \/ FetchRead(f)
    \/ FetchReturn(f)
    \/ FetchPublish(f)
    \/ FetchClose(f)

Environment ==
    \/ \E c \in Callers : CancelCtx(c) \/ \E i \in Ids : Call(c, i)
    \/ \E i \in Ids : Evict(i) \/ Update(i)
    \/ EvictAll
    \/ Tick

Next ==
    \/ \E c \in Callers : CallerStep(c)
    \/ \E f \in Flights : FlightStep(f)
    \/ Environment

Spec == Init /\ [][Next]_vars

(***************************************************************************)
(* Fairness.  A goroutine that can run eventually runs, and r.mu is held   *)
(* only for map operations, so callers are scheduled fairly.  Nothing is   *)
(* assumed of the base: FairSpec lets a fetch hang for ever, and that it   *)
(* does not is the premise of CallsReturn.                                 *)
(***************************************************************************)
CallerFairness == \A c \in Callers : WF_vars(CallerStep(c))
FetchFairness  == \A f \in Flights : WF_vars(FlightStep(f))

FairSpec == Spec /\ CallerFairness

-----------------------------------------------------------------------------
TypeOK ==
    /\ now \in 0..MaxTime /\ calls \in 0..MaxCalls
    /\ source \in [Ids -> 0..MaxVersion]
    /\ cache \in [Ids -> Entry \cup {NoEntry}]
    /\ inflight \in [Ids -> Flights \cup {NoFlight}]
    /\ fstate \in [Flights -> FStates]
    /\ fid \in [Flights -> Ids]
    /\ waiters \in [Flights -> Int]
    /\ cancelled \in [Flights -> BOOLEAN]
    /\ result \in [Flights -> Answer]
    /\ pc \in [Callers -> PCs]
    /\ req \in [Callers -> Ids]
    /\ at \in [Callers -> Nat]
    /\ ref \in [Callers -> Flights \cup {NoFlight}]
    /\ \A c \in Callers : pc[c] \in {"wait", "release"} <=> ref[c] # NoFlight
    /\ ctxDone \in [Callers -> BOOLEAN]
    /\ answer \in [Callers -> Answer]
    /\ latest \in [Ids -> Nat]
    /\ floor \in [Callers -> Nat]
    /\ unserved \in [Callers -> BOOLEAN]

Waiters(f) == {c \in Callers : ref[c] = f}

\* The waiters counter of a registered flight is exactly the number of
\* callers that wait for it or are about to release it: nobody leaves without
\* being counted out, nobody joins uncounted, and a registered flight always
\* has somebody to work for.
WaitersExact ==
    \A i \in Ids : inflight[i] # NoFlight =>
        /\ waiters[inflight[i]] = Cardinality(Waiters(inflight[i]))
        /\ Waiters(inflight[i]) # {}

\* A fetch that still runs and was not cancelled is the one registered for its
\* id: at most one fetch per id does work that anybody wants, and a fetch that
\* everybody has abandoned has been told to stop.
LiveFetchIsRegistered ==
    \A f \in Flights :
        fstate[f] \in {"running", "read", "returned"} /\ ~cancelled[f]
            => inflight[fid[f]] = f

\* The cancellation of the shared fetch context reaches no caller: a call
\* ends with context.Canceled only because its own context ended.
NoForeignCancellation ==
    \A c \in Callers :
        /\ answer[c].kind # "shared"
        /\ answer[c].kind = "cancelled" => ctxDone[c]

\* A call never returns a version older than the one the cache had last been
\* given when the call began, whatever entry or fetch answers it: a slow fetch
\* that all its callers left never replaces what a later one brought.
MonotoneReads ==
    \A c \in Callers : answer[c].kind = "ok" => answer[c].ver >= floor[c]

\* A call that began when nothing valid was cached (never fetched, evicted, or
\* older than the TTL) returns a template only when one was stored after the
\* call began.
ExpiredIsRefetched ==
    \A c \in Callers : answer[c].kind = "ok" => ~unserved[c]

\* If the base eventually returns from every fetch, every call returns.
CallsReturn ==
    FetchFairness => \A c \in Callers : pc[c] # "idle" ~> pc[c] = "idle"

\* Whatever the base does, a call whose context ends returns.
CancelledCallsReturn ==
    \A c \in Callers : ctxDone[c] /\ pc[c] # "idle" ~> pc[c] = "idle"

-----------------------------------------------------------------------------
\* A call is visible to the outside from its first step to its last; what it
\* is about to return is not.
RT == INSTANCE ReadThrough WITH
    asking <- [c \in Callers |-> pc[c] # "idle"],
    want <- req,
    answer <- [c \in Callers |->
                  IF pc[c] = "idle" THEN answer[c] ELSE NoAnswer]

\* CachedRegistry implements the read-through registry.
ImplementsReadThrough == RT!Spec
=============================================================================
