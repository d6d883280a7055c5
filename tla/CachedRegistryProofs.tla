------------------------ MODULE CachedRegistryProofs ------------------------
(***************************************************************************)
(* Theorems about CachedRegistry, for any set of ids, any finite set of    *)
(* callers, any TTL and any bounds.                                        *)
(***************************************************************************)
EXTENDS CachedRegistry, FiniteSetTheorems, TLAPS

LEMMA Constants ==
    /\ AnyId \in Ids
    /\ NoFlight \notin Flights
    /\ NoEntry \notin Entry
    /\ TTL \in Nat /\ MaxCalls \in Nat /\ MaxTime \in Nat /\ MaxVersion \in Nat
  BY IdsAssumption, FlightsAssumption, NoEntryAssumption, BoundsAssumption
     DEF AnyId

\* The values that flights and calls end with are answers.
LEMMA AnswerTypes ==
    /\ NoAnswer \in Answer /\ Failed \in Answer
    /\ SharedCancel \in Answer /\ OwnCancel \in Answer
    /\ \A v \in Nat : Ok(v) \in Answer
  BY DEF NoAnswer, Failed, SharedCancel, OwnCancel, Ok, Answer, Kinds

(***************************************************************************)
(* Type correctness                                                        *)
(***************************************************************************)

LEMMA InitTypeOK == Init => TypeOK
  BY Constants, AnswerTypes DEF Init, TypeOK, FStates, PCs

LEMMA CallerTypeOK ==
    ASSUME TypeOK, NEW c \in Callers, CallerStep(c)
    PROVE  TypeOK'
  <1> USE Constants, AnswerTypes
          DEF PCs, FStates, envVars, cacheVars, flightVars, callerVars, histVars
  <1>1. CASE Enter(c)
    BY <1>1 DEF Enter, Return, TypeOK
  <1>2. ASSUME NEW i \in Ids, cache[i] # NoEntry
        PROVE  Ok(cache[i].ver) \in Answer
    BY <1>2 DEF TypeOK, Entry
  <1>3. CASE ReadLookup(c)
    BY <1>2, <1>3 DEF ReadLookup, Return, EntryValid, TypeOK
  <1>4. CASE LockedHit(c)
    BY <1>2, <1>4 DEF LockedHit, Return, EntryValid, TypeOK
  <1>5. CASE Join(c)
    BY <1>5 DEF Join, WaitFor, TypeOK
  <1>6. ASSUME NEW f \in Flights, Start(c, f)
        PROVE  TypeOK'
    BY <1>6 DEF Start, WaitFor, TypeOK
  <1>7. CASE WaitDone(c)
    <2>1. ref[c] \in Flights
      BY <1>7 DEF WaitDone, TypeOK
    <2>2. QED
      BY <1>7, <2>1 DEF WaitDone, TypeOK
  <1>8. CASE WaitCancelled(c)
    BY <1>8 DEF WaitCancelled, TypeOK
  <1>9. CASE Release(c)
    <2>1. ref[c] \in Flights /\ req[c] \in Ids
      BY <1>9 DEF Release, TypeOK
    <2>2. CASE inflight[req[c]] = ref[c]
      <3>1. waiters' \in [Flights -> Int]
        BY <1>9, <2>1, <2>2 DEF Release, TypeOK
      <3>2. inflight' \in [Ids -> Flights \cup {NoFlight}]
        BY <1>9, <2>1, <2>2 DEF Release, TypeOK
      <3>3. cancelled' \in [Flights -> BOOLEAN]
        BY <1>9, <2>1, <2>2 DEF Release, TypeOK
      <3>4. QED
        BY <1>9, <3>1, <3>2, <3>3 DEF Release, TypeOK
    <2>3. CASE inflight[req[c]] # ref[c]
      BY <1>9, <2>3 DEF Release, TypeOK
    <2>4. QED
      BY <2>2, <2>3
  <1>10. QED
    BY <1>1, <1>3, <1>4, <1>5, <1>6, <1>7, <1>8, <1>9 DEF CallerStep

LEMMA FlightTypeOK ==
    ASSUME TypeOK, NEW f \in Flights, FlightStep(f)
    PROVE  TypeOK'
  <1> USE Constants, AnswerTypes
          DEF FStates, envVars, cacheVars, flightVars, callerVars, histVars
  <1>1. CASE FetchRead(f)
    <2>1. source[fid[f]] \in Nat
      BY DEF TypeOK
    <2>2. QED
      BY <1>1, <2>1 DEF FetchRead, TypeOK
  <1>2. CASE FetchReturn(f)
    BY <1>2 DEF FetchReturn, TypeOK
  <1>3. CASE FetchPublish(f)
    <2>1. result[f].ver \in Nat /\ Expiry \in Nat
      BY DEF TypeOK, Answer, Expiry
    <2>2. [ver |-> result[f].ver, expiresAt |-> Expiry] \in Entry
      BY <2>1 DEF Entry
    <2>3. /\ cache' \in [Ids -> Entry \cup {NoEntry}]
          /\ inflight' \in [Ids -> Flights \cup {NoFlight}]
      BY <1>3, <2>2 DEF FetchPublish, Store, TypeOK
    <2>4. latest' \in [Ids -> Nat]
      BY <1>3, <2>1 DEF FetchPublish, Store, TypeOK
    <2>5. unserved' \in [Callers -> BOOLEAN]
      <3>1. unserved \in [Callers -> BOOLEAN]
        BY DEF TypeOK
      <3>2. \/ unserved' = unserved
            \/ unserved' = [c \in Callers |->
                  unserved[c] /\ (pc[c] = "idle" \/ req[c] # fid[f])]
        BY <1>3 DEF FetchPublish, Store
      <3>3. QED
        BY <3>1, <3>2, Zenon
    <2>6. QED
      BY <1>3, <2>3, <2>4, <2>5 DEF FetchPublish, TypeOK
  <1>4. CASE FetchClose(f)
    BY <1>4 DEF FetchClose, TypeOK
  <1>5. QED
    BY <1>1, <1>2, <1>3, <1>4 DEF FlightStep

LEMMA EnvironmentTypeOK == TypeOK /\ Environment => TypeOK'
  <1> SUFFICES ASSUME TypeOK, Environment
               PROVE  TypeOK'
    OBVIOUS
  <1> USE Constants, AnswerTypes
          DEF PCs, envVars, cacheVars, flightVars, callerVars, histVars
  <1>1. ASSUME NEW c \in Callers, CancelCtx(c)
        PROVE  TypeOK'
    BY <1>1 DEF CancelCtx, TypeOK
  <1>2. ASSUME NEW c \in Callers, NEW i \in Ids, Call(c, i)
        PROVE  TypeOK'
    <2>1. Stale(i) \in BOOLEAN
      BY DEF Stale
    <2>2. QED
      BY <1>2, <2>1 DEF Call, TypeOK
  <1>3. ASSUME NEW i \in Ids, Evict(i)
        PROVE  TypeOK'
    BY <1>3 DEF Evict, TypeOK
  <1>4. ASSUME NEW i \in Ids, Update(i)
        PROVE  TypeOK'
    BY <1>4 DEF Update, TypeOK
  <1>5. CASE EvictAll
    BY <1>5 DEF EvictAll, TypeOK
  <1>6. CASE Tick
    BY <1>6 DEF Tick, TypeOK
  <1>7. QED
    BY <1>1, <1>2, <1>3, <1>4, <1>5, <1>6 DEF Environment

LEMMA NextTypeOK == TypeOK /\ [Next]_vars => TypeOK'
  <1>1. TypeOK /\ UNCHANGED vars => TypeOK'
    BY DEF vars, envVars, cacheVars, flightVars, callerVars, histVars, TypeOK,
           FStates, PCs
  <1>2. QED
    BY <1>1, CallerTypeOK, FlightTypeOK, EnvironmentTypeOK DEF Next

\* Every reachable state is of the type the code declares.
THEOREM TypeCorrect == Spec => []TypeOK
  BY InitTypeOK, NextTypeOK, PTL DEF Spec

(***************************************************************************)
(* The inductive invariant                                                 *)
(***************************************************************************)

\* A flight is registered exactly while its fetch runs uncancelled, and only
\* a cancelled fetch ends with the shared context's error.
FlightsInv ==
    /\ \A i \in Ids : inflight[i] # NoFlight =>
          /\ fid[inflight[i]] = i
          /\ fstate[inflight[i]] \in {"running", "read", "returned"}
          /\ ~cancelled[inflight[i]]
    /\ \A f \in Flights :
          /\ fstate[f] = "none" => ~cancelled[f]
          /\ ~cancelled[f] => result[f].kind # "shared"
          /\ result[f].kind # "cancelled"
          /\ fstate[f] \in {"none", "running"} => result[f].kind = "none"
    /\ LiveFetchIsRegistered

\* A caller waits for a flight that was started for the id it asked for.
RefsInv ==
    \A c \in Callers : ref[c] # NoFlight =>
        fid[ref[c]] = req[c] /\ fstate[ref[c]] # "none"

\* Versions move forward: base >= registered fetch >= cache.
VersionsInv ==
    /\ \A i \in Ids :
          /\ latest[i] <= source[i]
          /\ cache[i] # NoEntry => cache[i].ver = latest[i]
    /\ \A f \in Flights : inflight[fid[f]] = f /\ result[f].kind = "ok" =>
          latest[fid[f]] <= result[f].ver /\ result[f].ver <= source[fid[f]]
    /\ \A c \in Callers : floor[c] <= latest[req[c]]

\* What a caller that began with nothing valid cached may still find.
UnservedInv ==
    \A c \in Callers : unserved[c] =>
        /\ pc[c] \in {"enter", "rlock", "lock"} => Stale(req[c])
        /\ pc[c] = "rlock" => ~EntryValid(req[c], at[c])

\* The answers that satisfy all that is promised to caller c.
Good(c, a) ==
    /\ a.kind # "shared"
    /\ a.kind = "cancelled" => ctxDone[c]
    /\ a.kind = "ok" => /\ floor[c] <= a.ver
                        /\ a.ver <= latest[req[c]]
                        /\ ~unserved[c]

\* The flight a caller waits for is still registered or ended with a good
\* answer: it was not cancelled while the caller waited.
AnswersInv ==
    \A c \in Callers :
        /\ Good(c, answer[c])
        /\ pc[c] \notin {"idle", "release"} => answer[c] = NoAnswer
        /\ pc[c] = "wait" =>
              \/ inflight[req[c]] = ref[c]
              \/ /\ fstate[ref[c]] \in {"published", "closed"}
                 /\ Good(c, result[ref[c]])

IInv ==
    /\ TypeOK
    /\ FlightsInv
    /\ RefsInv
    /\ WaitersExact
    /\ VersionsInv
    /\ UnservedInv
    /\ AnswersInv

LEMMA InitIInv == Init => IInv
  <1> SUFFICES ASSUME Init PROVE IInv
    OBVIOUS
  <1> USE Constants
  <1>1. TypeOK
    BY InitTypeOK
  <1>2. FlightsInv /\ WaitersExact
    BY DEF Init, FlightsInv, LiveFetchIsRegistered, WaitersExact, NoAnswer
  <1>3. RefsInv
    BY DEF Init, RefsInv
  <1>4. VersionsInv
    BY DEF Init, VersionsInv, NoAnswer
  <1>5. UnservedInv
    BY DEF Init, UnservedInv
  <1>6. AnswersInv
    BY DEF Init, AnswersInv, Good, NoAnswer
  <1>7. QED
    BY <1>1, <1>2, <1>3, <1>4, <1>5, <1>6 DEF IInv

\* All other steps leave the flights, their registration and their users alone.
LEMMA QuietSteps ==
    ASSUME [Next]_vars
    PROVE  \/ \E c \in Callers : \/ Join(c) \/ Release(c)
                                 \/ \E f \in Flights : Start(c, f)
           \/ \E f \in Flights : FlightStep(f)
           \/ UNCHANGED <<inflight, flightVars, ref>>
  BY DEF Next, CallerStep, Environment, vars, cacheVars, flightVars, callerVars,
         Enter, ReadLookup, LockedHit, WaitDone, WaitCancelled, CancelCtx,
         Call, Evict, Update, EvictAll, Tick

LEMMA FlightsInvStep ==
    ASSUME IInv, [Next]_vars
    PROVE  FlightsInv'
  <1> USE Constants DEF IInv, FlightsInv, LiveFetchIsRegistered
  <1> TypeOK /\ FlightsInv
    OBVIOUS
  <1>1. CASE UNCHANGED <<inflight, flightVars, ref>>
    BY <1>1 DEF flightVars
  <1>2. ASSUME NEW c \in Callers, Join(c)
        PROVE  FlightsInv'
    BY <1>2 DEF Join, flightVars, cacheVars
  <1>3. ASSUME NEW c \in Callers, NEW f \in Flights, Start(c, f)
        PROVE  FlightsInv'
    BY <1>3 DEF Start, TypeOK
  <1>4. ASSUME NEW c \in Callers, Release(c)
        PROVE  FlightsInv'
    <2>1. ref[c] \in Flights /\ req[c] \in Ids
      BY <1>4 DEF Release, TypeOK
    <2>2. CASE inflight[req[c]] = ref[c] /\ waiters[ref[c]] - 1 <= 0
      BY <1>4, <2>1, <2>2 DEF Release, TypeOK
    <2>3. CASE ~(inflight[req[c]] = ref[c] /\ waiters[ref[c]] - 1 <= 0)
      BY <1>4, <2>3 DEF Release
    <2>4. QED
      BY <2>2, <2>3
  <1>5. ASSUME NEW f \in Flights, FetchRead(f)
        PROVE  FlightsInv'
    BY <1>5 DEF FetchRead, cacheVars, Ok, TypeOK
  <1>6. ASSUME NEW f \in Flights, FetchReturn(f)
        PROVE  FlightsInv'
    BY <1>6 DEF FetchReturn, cacheVars, Failed, SharedCancel, TypeOK
  <1>7. ASSUME NEW f \in Flights, FetchPublish(f)
        PROVE  FlightsInv'
    BY <1>7 DEF FetchPublish, Store, cacheVars, TypeOK
  <1>8. ASSUME NEW f \in Flights, FetchClose(f)
        PROVE  FlightsInv'
    BY <1>8 DEF FetchClose, cacheVars, TypeOK
  <1>9. QED
    BY <1>1, <1>2, <1>3, <1>4, <1>5, <1>6, <1>7, <1>8, QuietSteps
       DEF FlightStep

LEMMA RefsInvStep ==
    ASSUME IInv, [Next]_vars
    PROVE  RefsInv'
  <1> USE Constants DEF RefsInv, cacheVars, flightVars, callerVars
  <1> TypeOK /\ FlightsInv /\ RefsInv
    BY DEF IInv
  <1>1. ASSUME NEW c \in Callers, Join(c)
        PROVE  RefsInv'
    BY <1>1 DEF Join, WaitFor, TypeOK, FlightsInv
  <1>2. ASSUME NEW c \in Callers, NEW f \in Flights, Start(c, f)
        PROVE  RefsInv'
    BY <1>2 DEF Start, WaitFor, TypeOK
  <1>3. ASSUME NEW c \in Callers, Release(c)
        PROVE  RefsInv'
    BY <1>3 DEF Release, TypeOK
  <1>4. ASSUME NEW c \in Callers, NEW i \in Ids, Call(c, i)
        PROVE  RefsInv'
    BY <1>4 DEF Call, TypeOK
  <1>5. ASSUME NEW f \in Flights, FlightStep(f)
        PROVE  RefsInv'
    BY <1>5 DEF FlightStep, FetchRead, FetchReturn, FetchPublish, FetchClose,
                TypeOK
  <1>6. CASE UNCHANGED <<req, ref, fid, fstate>>
    BY <1>6
  <1>7. QED
    BY <1>1, <1>2, <1>3, <1>4, <1>5, <1>6
       DEF Next, CallerStep, Environment, vars, Enter, ReadLookup, LockedHit,
           WaitDone, WaitCancelled, CancelCtx, Evict, Update, EvictAll, Tick

LEMMA WaitersFinite ==
    ASSUME NEW f
    PROVE  IsFiniteSet(Waiters(f)) /\ Cardinality(Waiters(f)) \in Nat
  <1>1. IsFiniteSet(Waiters(f))
    BY CallersAssumption, FS_Subset DEF Waiters
  <1>2. QED
    BY <1>1, FS_CardinalityType

\* A caller that takes up flight f joins the waiters of f and of no other.
LEMMA WaitersGrow ==
    ASSUME TypeOK, NEW c \in Callers, NEW f \in Flights, NEW g \in Flights,
           ref[c] = NoFlight, ref' = [ref EXCEPT ![c] = f]
    PROVE  /\ g = f => /\ Waiters(g)' = Waiters(g) \cup {c}
                       /\ Cardinality(Waiters(g)') = Cardinality(Waiters(g)) + 1
           /\ g # f => Waiters(g)' = Waiters(g)
  <1>1. /\ g = f => Waiters(g)' = Waiters(g) \cup {c} /\ c \notin Waiters(g)
        /\ g # f => Waiters(g)' = Waiters(g)
    BY Constants DEF Waiters, TypeOK
  <1>2. QED
    BY <1>1, WaitersFinite, FS_AddElement

\* A caller that drops flight f leaves the waiters of f and of no other.
LEMMA WaitersShrink ==
    ASSUME TypeOK, NEW c \in Callers, NEW f \in Flights, NEW g \in Flights,
           ref[c] = f, ref' = [ref EXCEPT ![c] = NoFlight]
    PROVE  /\ g = f => /\ Waiters(g)' = Waiters(g) \ {c}
                       /\ Cardinality(Waiters(g)') = Cardinality(Waiters(g)) - 1
           /\ g # f => Waiters(g)' = Waiters(g)
  <1>1. /\ g = f => Waiters(g)' = Waiters(g) \ {c} /\ c \in Waiters(g)
        /\ g # f => Waiters(g)' = Waiters(g)
    BY Constants DEF Waiters, TypeOK
  <1>2. QED
    BY <1>1, WaitersFinite, FS_RemoveElement

LEMMA WaitersExactStep ==
    ASSUME IInv, [Next]_vars
    PROVE  WaitersExact'
  <1>1. TypeOK /\ TypeOK' /\ FlightsInv /\ RefsInv /\ WaitersExact
    BY NextTypeOK DEF IInv
  <1>2. ASSUME NEW f \in Flights, NEW i \in Ids, inflight[i] = f
        PROVE  waiters[f] = Cardinality(Waiters(f)) /\ Waiters(f) # {}
    BY <1>1, <1>2, Constants DEF WaitersExact
  <1>3. SUFFICES ASSUME NEW g \in Flights, NEW j \in Ids, inflight'[j] = g
                 PROVE  /\ waiters'[g] = Cardinality(Waiters(g)')
                        /\ Waiters(g)' # {}
    BY <1>1 DEF WaitersExact, TypeOK
  <1>4. ASSUME NEW c \in Callers, Join(c)
        PROVE  waiters'[g] = Cardinality(Waiters(g)') /\ Waiters(g)' # {}
    <2>1. PICK f \in Flights : f = inflight[req[c]]
      BY <1>1, <1>4 DEF Join, TypeOK
    <2>2. /\ waiters' = [waiters EXCEPT ![f] = @ + 1]
          /\ ref' = [ref EXCEPT ![c] = f]
          /\ inflight' = inflight
          /\ ref[c] = NoFlight
      BY <1>1, <1>4, <2>1 DEF Join, WaitFor, cacheVars, TypeOK
    <2>3. /\ g = f => /\ Waiters(g)' = Waiters(g) \cup {c}
                      /\ Cardinality(Waiters(g)') = Cardinality(Waiters(g)) + 1
          /\ g # f => Waiters(g)' = Waiters(g)
      BY <1>1, <2>2, WaitersGrow
    <2>4. QED
      BY <1>1, <1>2, <1>3, <2>2, <2>3 DEF TypeOK
  <1>5. ASSUME NEW c \in Callers, NEW f \in Flights, Start(c, f)
        PROVE  waiters'[g] = Cardinality(Waiters(g)') /\ Waiters(g)' # {}
    <2>1. /\ waiters' = [waiters EXCEPT ![f] = 1]
          /\ ref' = [ref EXCEPT ![c] = f]
          /\ inflight' = [inflight EXCEPT ![req[c]] = f]
          /\ fstate[f] = "none"
          /\ ref[c] = NoFlight
      BY <1>1, <1>5 DEF Start, WaitFor, TypeOK
    <2>2. g = f => Waiters(g) = {}
      BY <1>1, <2>1, Constants DEF RefsInv, Waiters
    <2>3. g = f => Cardinality(Waiters(g)) = 0
      BY <2>2, FS_EmptySet
    <2>4. /\ g = f => /\ Waiters(g)' = Waiters(g) \cup {c}
                      /\ Cardinality(Waiters(g)') = Cardinality(Waiters(g)) + 1
          /\ g # f => Waiters(g)' = Waiters(g)
      BY <1>1, <2>1, WaitersGrow
    <2>5. CASE g = f
      <3>1. waiters'[g] = 1
        BY <1>1, <2>1, <2>5 DEF TypeOK
      <3>2. Cardinality(Waiters(g)') = 1
        BY <2>3, <2>4, <2>5
      <3>3. Waiters(g)' # {}
        BY <2>4, <2>5
      <3>4. QED
        BY <3>1, <3>2, <3>3
    <2>6. CASE g # f
      BY <1>1, <1>2, <1>3, <2>1, <2>4, <2>6 DEF TypeOK
    <2>7. QED
      BY <2>5, <2>6
  <1>6. ASSUME NEW c \in Callers, Release(c)
        PROVE  waiters'[g] = Cardinality(Waiters(g)') /\ Waiters(g)' # {}
    <2>1. PICK f \in Flights : f = ref[c]
      BY <1>1, <1>6 DEF Release, TypeOK
    <2>2. fid[f] = req[c] /\ req[c] \in Ids
      BY <1>1, <2>1, Constants DEF RefsInv, TypeOK
    <2>3. ref' = [ref EXCEPT ![c] = NoFlight]
      BY <1>6 DEF Release
    <2>4. /\ g = f => /\ Waiters(g)' = Waiters(g) \ {c}
                      /\ Cardinality(Waiters(g)') = Cardinality(Waiters(g)) - 1
          /\ g # f => Waiters(g)' = Waiters(g)
      BY <1>1, <2>1, <2>3, WaitersShrink
    <2>5. CASE g # f
      <3>1. inflight[j] = g
        BY <1>1, <1>3, <1>6, <2>1, <2>2, <2>5, Constants DEF Release, TypeOK
      <3>2. waiters'[g] = waiters[g]
        BY <1>1, <1>6, <2>1, <2>5 DEF Release, TypeOK
      <3>3. QED
        BY <1>2, <2>4, <2>5, <3>1, <3>2
    <2>6. CASE g = f
      <3>1. inflight[j] = g /\ j = req[c]
        BY <1>1, <1>3, <1>6, <2>1, <2>2, <2>6, Constants
           DEF Release, TypeOK, FlightsInv
      <3>2. waiters[g] - 1 > 0 /\ waiters'[g] = waiters[g] - 1
        BY <1>1, <1>3, <1>6, <2>1, <2>6, <3>1, Constants DEF Release, TypeOK
      <3>3. Cardinality(Waiters(g)') = waiters'[g]
        BY <1>2, <2>4, <2>6, <3>1, <3>2
      <3>4. Waiters(g)' # {}
        BY <3>2, <3>3, FS_EmptySet
      <3>5. QED
        BY <3>3, <3>4
    <2>7. QED
      BY <2>5, <2>6
  <1>7. ASSUME NEW f \in Flights, FlightStep(f)
        PROVE  waiters'[g] = Cardinality(Waiters(g)') /\ Waiters(g)' # {}
    <2>1. UNCHANGED <<waiters, ref>>
      BY <1>7 DEF FlightStep, FetchRead, FetchReturn, FetchPublish, FetchClose,
                  callerVars
    <2>2. inflight[j] = g
      BY <1>1, <1>3, <1>7, Constants
         DEF FlightStep, FetchRead, FetchReturn, FetchPublish, Store,
             FetchClose, cacheVars, TypeOK
    <2>3. Waiters(g)' = Waiters(g)
      BY <2>1 DEF Waiters
    <2>4. QED
      BY <1>2, <2>1, <2>2, <2>3
  <1>8. CASE UNCHANGED <<inflight, flightVars, ref>>
    <2>1. Waiters(g)' = Waiters(g)
      BY <1>8 DEF Waiters
    <2>2. QED
      BY <1>2, <1>3, <1>8, <2>1 DEF flightVars
  <1>9. QED
    BY <1>4, <1>5, <1>6, <1>7, <1>8, QuietSteps

LEMMA VersionsInvStep ==
    ASSUME IInv, [Next]_vars
    PROVE  VersionsInv'
  <1>1. TypeOK /\ TypeOK' /\ FlightsInv /\ VersionsInv
    BY NextTypeOK DEF IInv
  <1> USE <1>1, Constants DEF VersionsInv
  <1> USE DEF envVars, cacheVars, flightVars, callerVars, histVars
  <1>2. ASSUME NEW c \in Callers, NEW f \in Flights, Start(c, f)
        PROVE  VersionsInv'
    BY <1>2 DEF Start, TypeOK, FlightsInv
  <1>3. ASSUME NEW c \in Callers, Release(c)
        PROVE  VersionsInv'
    BY <1>3 DEF Release, TypeOK
  <1>4. ASSUME NEW f \in Flights, FetchRead(f)
        PROVE  VersionsInv'
    BY <1>4 DEF FetchRead, Ok, TypeOK
  <1>5. ASSUME NEW f \in Flights, FetchReturn(f)
        PROVE  VersionsInv'
    BY <1>5 DEF FetchReturn, Failed, SharedCancel, TypeOK
  <1>6. ASSUME NEW f \in Flights, FetchPublish(f)
        PROVE  VersionsInv'
    <2>1. CASE inflight[fid[f]] = f /\ result[f].kind = "ok"
      <3>1. result[f].ver \in Nat /\ fid[f] \in Ids
        BY DEF TypeOK, Answer
      <3>2. /\ latest' = [latest EXCEPT ![fid[f]] = result[f].ver]
            /\ inflight' = [inflight EXCEPT ![fid[f]] = NoFlight]
            /\ cache' = [cache EXCEPT ![fid[f]] =
                           [ver |-> result[f].ver, expiresAt |-> Expiry]]
            /\ UNCHANGED <<source, fid, result, req, floor>>
        BY <1>6, <2>1 DEF FetchPublish, Store
      <3>3. latest[fid[f]] <= result[f].ver /\ result[f].ver <= source[fid[f]]
        BY <2>1
      <3>4. \A i \in Ids : /\ latest'[i] <= source'[i]
                           /\ latest[i] <= latest'[i]
                           /\ cache'[i] # NoEntry => cache'[i].ver = latest'[i]
        BY <3>1, <3>2, <3>3 DEF TypeOK
      <3>5. \A g \in Flights : inflight'[fid[g]] = g =>
                 inflight[fid[g]] = g /\ latest'[fid[g]] = latest[fid[g]]
        BY <3>1, <3>2 DEF TypeOK
      <3>6. \A g \in Flights : inflight'[fid'[g]] = g /\ result'[g].kind = "ok"
                => /\ latest'[fid'[g]] <= result'[g].ver
                   /\ result'[g].ver <= source'[fid'[g]]
        BY <3>2, <3>5 DEF TypeOK
      <3>7. \A c \in Callers : floor'[c] <= latest'[req'[c]]
        BY <3>2, <3>4 DEF TypeOK
      <3>8. QED
        BY <3>4, <3>6, <3>7
    <2>2. CASE ~(inflight[fid[f]] = f /\ result[f].kind = "ok")
      BY <1>6, <2>2 DEF FetchPublish, Store, TypeOK
    <2>3. QED
      BY <2>1, <2>2
  <1>7. ASSUME NEW f \in Flights, FetchClose(f)
        PROVE  VersionsInv'
    BY <1>7 DEF FetchClose
  <1>8. ASSUME NEW c \in Callers, NEW i \in Ids, Call(c, i)
        PROVE  VersionsInv'
    BY <1>8 DEF Call, TypeOK
  <1>9. ASSUME NEW i \in Ids, Evict(i)
        PROVE  VersionsInv'
    BY <1>9 DEF Evict, TypeOK
  <1>10. CASE EvictAll
    BY <1>10 DEF EvictAll
  <1>11. ASSUME NEW i \in Ids, Update(i)
         PROVE  VersionsInv'
    <2>1. /\ \A j \in Ids : source[j] <= source'[j]
          /\ UNCHANGED <<cacheVars, fid, result, req, latest, floor>>
      BY <1>11 DEF Update, TypeOK
    <2>2. \A j \in Ids : latest[j] \in Nat /\ source[j] \in Nat
                         /\ source'[j] \in Nat
      BY DEF TypeOK
    <2>3. \A g \in Flights : fid[g] \in Ids /\ result[g].ver \in Nat
      BY DEF TypeOK, Answer
    <2>4. QED
      BY <2>1, <2>2, <2>3
  <1>12. CASE UNCHANGED <<source, cacheVars, fid, result, req, latest, floor>>
    BY <1>12
  <1>13. QED
    BY <1>2, <1>3, <1>4, <1>5, <1>6, <1>7, <1>8, <1>9, <1>10, <1>11, <1>12
       DEF Next, CallerStep, FlightStep, Environment, vars, Enter, ReadLookup,
           LockedHit, Join, WaitDone, WaitCancelled, CancelCtx, Tick

LEMMA UnservedInvStep ==
    ASSUME IInv, [Next]_vars
    PROVE  UnservedInv'
  <1>1. TypeOK /\ TypeOK' /\ UnservedInv
    BY NextTypeOK DEF IInv
  <1> USE <1>1, Constants DEF UnservedInv, Stale, EntryValid
  <1> USE DEF envVars, cacheVars, flightVars, callerVars, histVars
  <1>2. ASSUME NEW c \in Callers, Enter(c)
        PROVE  UnservedInv'
    BY <1>2 DEF Enter, Return, TypeOK, Entry
  <1>3. ASSUME NEW c \in Callers,
               \/ ReadLookup(c) \/ LockedHit(c) \/ Join(c)
               \/ \E f \in Flights : Start(c, f)
               \/ WaitDone(c) \/ WaitCancelled(c) \/ Release(c)
        PROVE  UnservedInv'
    BY <1>3 DEF ReadLookup, LockedHit, Join, Start, WaitDone, WaitCancelled,
                Release, Return, WaitFor, TypeOK
  <1>4. ASSUME NEW f \in Flights, FetchPublish(f)
        PROVE  UnservedInv'
    BY <1>4 DEF FetchPublish, Store, TypeOK
  <1>5. ASSUME NEW c \in Callers, NEW i \in Ids, Call(c, i)
        PROVE  UnservedInv'
    BY <1>5 DEF Call, TypeOK
  <1>6. ASSUME NEW i \in Ids, Evict(i)
        PROVE  UnservedInv'
    BY <1>6 DEF Evict, TypeOK
  <1>7. CASE EvictAll
    BY <1>7 DEF EvictAll, TypeOK
  <1>8. CASE Tick
    BY <1>8 DEF Tick, TypeOK, Entry
  <1>9. CASE UNCHANGED <<now, cache, pc, req, at, unserved>>
    BY <1>9
  <1>10. QED
    BY <1>2, <1>3, <1>4, <1>5, <1>6, <1>7, <1>8, <1>9
       DEF Next, CallerStep, FlightStep, Environment, vars, FetchRead,
           FetchReturn, FetchClose, CancelCtx, Update

LEMMA AnswersInvStep ==
    ASSUME IInv, [Next]_vars
    PROVE  AnswersInv'
  <1>1. /\ TypeOK /\ TypeOK' /\ FlightsInv /\ RefsInv /\ WaitersExact
        /\ VersionsInv /\ VersionsInv' /\ UnservedInv /\ AnswersInv
    BY NextTypeOK, VersionsInvStep DEF IInv
  <1> USE <1>1, Constants DEF AnswersInv, Good
  <1> USE DEF envVars, cacheVars, flightVars, callerVars, histVars
  <1>2. ASSUME NEW c \in Callers, Enter(c)
        PROVE  AnswersInv'
    BY <1>2 DEF Enter, Return, OwnCancel, TypeOK
  <1>4. ASSUME NEW c \in Callers, ReadLookup(c)
        PROVE  AnswersInv'
    BY <1>4 DEF ReadLookup, Return, Ok, EntryValid, VersionsInv, UnservedInv,
                TypeOK
  <1>5. ASSUME NEW c \in Callers, LockedHit(c)
        PROVE  AnswersInv'
    BY <1>5 DEF LockedHit, Return, Ok, EntryValid, VersionsInv, UnservedInv,
                Stale, TypeOK, Entry
  <1>6. ASSUME NEW c \in Callers, Join(c)
        PROVE  AnswersInv'
    BY <1>6 DEF Join, WaitFor, TypeOK
  <1>7. ASSUME NEW c \in Callers, NEW f \in Flights, Start(c, f)
        PROVE  AnswersInv'
    BY <1>7 DEF Start, WaitFor, RefsInv, TypeOK
  <1>8. ASSUME NEW c \in Callers, WaitDone(c)
        PROVE  AnswersInv'
    BY <1>8 DEF WaitDone, FlightsInv, TypeOK
  <1>9. ASSUME NEW c \in Callers, WaitCancelled(c)
        PROVE  AnswersInv'
    BY <1>9 DEF WaitCancelled, OwnCancel, TypeOK
  <1>10. ASSUME NEW c \in Callers, Release(c)
         PROVE  AnswersInv'
    <2>1. ref[c] \in Flights /\ req[c] \in Ids
      BY <1>10 DEF Release, TypeOK
    <2>2. /\ UNCHANGED <<fstate, fid, result, latest, floor, unserved>>
          /\ UNCHANGED <<req, ctxDone, answer>>
          /\ pc' = [pc EXCEPT ![c] = "idle"]
          /\ ref' = [ref EXCEPT ![c] = NoFlight]
      BY <1>10 DEF Release
    <2>3. ASSUME NEW d \in Callers, d # c, pc[d] = "wait",
                 inflight[req[d]] = ref[d]
          PROVE  inflight'[req[d]] = ref[d]
      <3>1. ref[d] \in Flights /\ req[d] \in Ids
        BY <2>3 DEF TypeOK
      <3>2. CASE req[d] = req[c] /\ ref[d] = ref[c]
        <4>1. PICK f \in Flights : f = ref[c]
          BY <2>1
        <4>2. c \in Waiters(f) /\ d \in Waiters(f)
          BY <3>2, <4>1 DEF Waiters
        <4>3. Cardinality({c, d}) = 2
          <5>1. IsFiniteSet({c}) /\ Cardinality({c}) = 1
            BY FS_Singleton
          <5>2. Cardinality({c} \cup {d}) = 1 + 1
            <6>1. d \notin {c}
              BY <2>3
            <6> DEFINE S == {c}
            <6>2. IsFiniteSet(S) /\ d \notin S /\ Cardinality(S) = 1
              BY <5>1, <6>1
            <6> HIDE DEF S
            <6>3. Cardinality(S \cup {d}) = Cardinality(S) + 1
              BY <6>2, FS_AddElement
            <6>4. QED
              BY <6>2, <6>3 DEF S
          <5>3. {c} \cup {d} = {c, d}
            OBVIOUS
          <5>4. QED
            BY <5>2, <5>3
        <4>4. Cardinality({c, d}) <= Cardinality(Waiters(f))
          BY <4>2, WaitersFinite, FS_Subset
        <4>5. waiters[f] = Cardinality(Waiters(f))
          BY <2>3, <3>1, <3>2, <4>1 DEF WaitersExact
        <4>6. ~(waiters[f] - 1 <= 0)
          BY <4>3, <4>4, <4>5, WaitersFinite
        <4>7. QED
          BY <1>10, <2>3, <3>2, <4>1, <4>6 DEF Release
      <3>3. CASE ~(req[d] = req[c] /\ ref[d] = ref[c])
        BY <1>10, <2>1, <2>3, <3>1, <3>3 DEF Release, TypeOK
      <3>4. QED
        BY <3>2, <3>3
    <2>4. QED
      BY <2>1, <2>2, <2>3 DEF TypeOK
  <1>11. ASSUME NEW f \in Flights, FetchRead(f) \/ FetchReturn(f)
         PROVE  AnswersInv'
    BY <1>11 DEF FetchRead, FetchReturn, TypeOK
  <1>12. ASSUME NEW f \in Flights, FetchPublish(f)
         PROVE  AnswersInv'
    <2>1. /\ UNCHANGED <<fid, cancelled, result, callerVars, floor>>
          /\ fstate' = [fstate EXCEPT ![f] = "published"]
      BY <1>12 DEF FetchPublish
    <2>2. fid[f] \in Ids /\ result[f].ver \in Nat
      BY DEF TypeOK, Answer
    <2>3. /\ \A i \in Ids : latest[i] <= latest'[i]
          /\ \A c \in Callers : unserved'[c] => unserved[c]
      BY <1>12, <2>2 DEF FetchPublish, Store, VersionsInv, TypeOK
    <2>4. ASSUME NEW c \in Callers, NEW a \in Answer, Good(c, a)
          PROVE  Good(c, a)'
      BY <2>1, <2>2, <2>3, <2>4 DEF TypeOK, Answer
    <2>5. ASSUME NEW c \in Callers, pc[c] = "wait", inflight[req[c]] = ref[c],
                 inflight'[req[c]] # ref[c]
          PROVE  ref[c] = f /\ fid[f] = req[c] /\ inflight[fid[f]] = f
      BY <1>12, <2>2, <2>5 DEF FetchPublish, Store, TypeOK
    <2>6. ASSUME NEW c \in Callers, pc[c] = "wait", inflight[req[c]] = ref[c],
                 inflight'[req[c]] # ref[c]
          PROVE  Good(c, result[f])'
      <3>1. ref[c] = f /\ fid[f] = req[c] /\ inflight[fid[f]] = f
        BY <2>5, <2>6
      <3>2. result[f].kind \notin {"shared", "cancelled"}
        BY <3>1 DEF FlightsInv, TypeOK
      <3>3. CASE result[f].kind = "ok"
        <4>1. latest'[req[c]] = result[f].ver /\ unserved'[c] = FALSE
          BY <1>12, <2>2, <2>6, <3>1, <3>3 DEF FetchPublish, Store, TypeOK
        <4>2. floor'[c] <= latest'[req'[c]]
          BY DEF VersionsInv
        <4>3. QED
          BY <2>1, <2>2, <3>2, <4>1, <4>2
      <3>4. QED
        BY <2>1, <3>2, <3>3
    <2>7. QED
      BY <2>1, <2>4, <2>5, <2>6 DEF TypeOK
  <1>13. ASSUME NEW f \in Flights, FetchClose(f)
         PROVE  AnswersInv'
    BY <1>13 DEF FetchClose, TypeOK
  <1>14. ASSUME NEW c \in Callers, CancelCtx(c)
         PROVE  AnswersInv'
    BY <1>14 DEF CancelCtx, TypeOK
  <1>15. ASSUME NEW c \in Callers, NEW i \in Ids, Call(c, i)
         PROVE  AnswersInv'
    BY <1>15 DEF Call, NoAnswer, TypeOK
  <1>16. CASE UNCHANGED <<inflight, flightVars, callerVars, histVars>>
    BY <1>16
  <1>17. QED
    BY <1>2, <1>4, <1>5, <1>6, <1>7, <1>8, <1>9, <1>10, <1>11, <1>12, <1>13,
       <1>14, <1>15, <1>16
       DEF Next, CallerStep, FlightStep, Environment, vars, Evict, EvictAll,
           Update, Tick

LEMMA NextIInv == IInv /\ [Next]_vars => IInv'
  BY NextTypeOK, FlightsInvStep, RefsInvStep, WaitersExactStep,
     VersionsInvStep, UnservedInvStep, AnswersInvStep DEF IInv

LEMMA Invariance == Spec => []IInv
  BY InitIInv, NextIInv, PTL DEF Spec

(***************************************************************************)
(* What follows from it                                                    *)
(***************************************************************************)

\* releaseInflightWaiter's counter is exact: it reaches zero when, and only
\* when, the last caller of a registered fetch leaves.
THEOREM WaitersAreExact == Spec => []WaitersExact
  BY Invariance, PTL DEF IInv

\* At most one uncancelled fetch per id runs, and none that nobody waits for.
THEOREM LiveFetchesAreRegistered == Spec => []LiveFetchIsRegistered
  <1>1. IInv => LiveFetchIsRegistered
    BY DEF IInv, FlightsInv
  <1>2. QED
    BY <1>1, Invariance, PTL

\* A caller never receives the cancellation of the shared fetch context.
THEOREM CancellationIsOwn == Spec => []NoForeignCancellation
  <1>1. IInv => NoForeignCancellation
    BY DEF IInv, AnswersInv, Good, NoForeignCancellation
  <1>2. QED
    BY <1>1, Invariance, PTL

\* Reads never go back behind what the cache held when the call began.
THEOREM ReadsAreMonotone == Spec => []MonotoneReads
  <1>1. IInv => MonotoneReads
    <2> SUFFICES ASSUME IInv, NEW c \in Callers, answer[c].kind = "ok"
                 PROVE  answer[c].ver >= floor[c]
      BY DEF MonotoneReads
    <2>1. answer[c].ver \in Nat /\ floor[c] \in Nat
      BY DEF IInv, TypeOK, Answer
    <2>2. QED
      BY <2>1 DEF IInv, AnswersInv, Good
  <1>2. QED
    BY <1>1, Invariance, PTL

\* Nothing evicted or older than the TTL when the call began answers it.
THEOREM ExpiredEntriesAreRefetched == Spec => []ExpiredIsRefetched
  <1>1. IInv => ExpiredIsRefetched
    BY DEF IInv, AnswersInv, Good, ExpiredIsRefetched
  <1>2. QED
    BY <1>1, Invariance, PTL
-----------------------------------------------------------------------------
(***************************************************************************)
(* CachedRegistry implements ReadThrough: each of its steps is a step of   *)
(* the abstract registry seen through the mapping RT, or leaves it         *)
(* unchanged.                                                              *)
(***************************************************************************)

\* Only an ok answer carries a version; a fetch that ended has an outcome, and
\* a caller about to release its flight has an answer.
OutcomesInv ==
    /\ \A f \in Flights :
          /\ result[f].kind # "ok" => result[f].ver = 0
          /\ fstate[f] \in {"read", "returned", "published", "closed"} =>
                result[f].kind # "none"
    /\ \A c \in Callers :
          /\ answer[c].kind # "ok" => answer[c].ver = 0
          /\ pc[c] = "release" => answer[c].kind # "none"

LEMMA OutcomesInvStep == TypeOK /\ OutcomesInv /\ [Next]_vars => OutcomesInv'
  <1> SUFFICES ASSUME TypeOK, OutcomesInv, [Next]_vars
               PROVE  OutcomesInv'
    OBVIOUS
  <1> USE DEF OutcomesInv, NoAnswer, Ok, Failed, SharedCancel, OwnCancel
  <1> USE DEF envVars, cacheVars, flightVars, callerVars
  <1>1. ASSUME NEW c \in Callers, Enter(c) \/ ReadLookup(c) \/ LockedHit(c)
        PROVE  OutcomesInv'
    BY <1>1 DEF Enter, ReadLookup, LockedHit, Return, TypeOK
  <1>2. ASSUME NEW c \in Callers,
               Join(c) \/ Release(c) \/ \E f \in Flights : Start(c, f)
        PROVE  OutcomesInv'
    BY <1>2 DEF Join, Release, Start, WaitFor, TypeOK
  <1>3. ASSUME NEW c \in Callers, WaitDone(c) \/ WaitCancelled(c)
        PROVE  OutcomesInv'
    BY <1>3 DEF WaitDone, WaitCancelled, TypeOK
  <1>4. ASSUME NEW f \in Flights, FlightStep(f)
        PROVE  OutcomesInv'
    BY <1>4 DEF FlightStep, FetchRead, FetchReturn, FetchPublish, FetchClose,
                TypeOK
  <1>5. ASSUME NEW c \in Callers, NEW i \in Ids, Call(c, i)
        PROVE  OutcomesInv'
    BY <1>5 DEF Call, TypeOK
  <1>6. CASE UNCHANGED <<fstate, result, pc, answer>>
    BY <1>6
  <1>7. QED
    BY <1>1, <1>2, <1>3, <1>4, <1>5, <1>6
       DEF Next, CallerStep, Environment, vars, CancelCtx, Evict, Update,
           EvictAll, Tick

LEMMA Outcomes == Spec => []OutcomesInv
  <1>1. Init => OutcomesInv
    BY DEF Init, OutcomesInv, NoAnswer
  <1>2. QED
    BY <1>1, OutcomesInvStep, TypeCorrect, PTL DEF Spec

LEMMA InitRefines == Init => RT!Init
  BY Constants DEF Init, RT!Init, NoAnswer, RT!NoAnswer

\* A step in which caller c returns its answer is a Reply of the abstract
\* registry: the answer is one of those allowed to c.
LEMMA ReturnRefines ==
    ASSUME IInv, IInv', NEW c \in Callers, pc[c] # "idle",
           pc' = [pc EXCEPT ![c] = "idle"],
           answer' = [answer EXCEPT ![c] = answer'[c]],
           answer'[c].kind # "none",
           answer'[c].kind # "ok" => answer'[c].ver = 0,
           UNCHANGED <<source, latest, req, floor, ctxDone>>
    PROVE  RT!Reply(c)
  <1>1. answer'[c] \in RT!Answers(c)
    <2>1. /\ answer'[c] \in Answer
          /\ Good(c, answer[c])'
          /\ floor[c] \in Nat /\ latest[req[c]] \in Nat
      BY DEF IInv, TypeOK, AnswersInv
    <2>2. answer'[c] = [kind |-> answer'[c].kind, ver |-> answer'[c].ver]
      BY <2>1 DEF Answer
    <2>3. CASE answer'[c].kind = "ok"
      BY <2>1, <2>2, <2>3 DEF RT!Answers, RT!Ok, Good, Answer
    <2>4. CASE answer'[c].kind = "failed"
      BY <2>2, <2>4 DEF RT!Answers, RT!Failed
    <2>5. CASE answer'[c].kind = "cancelled"
      BY <2>1, <2>2, <2>5 DEF RT!Answers, RT!OwnCancel, Good
    <2>6. QED
      BY <2>1, <2>3, <2>4, <2>5 DEF Answer, Kinds, Good
  <1>2. [d \in Callers |-> pc'[d] # "idle"] =
            [[d \in Callers |-> pc[d] # "idle"] EXCEPT ![c] = FALSE]
    BY DEF IInv, TypeOK
  <1>3. [d \in Callers |-> IF pc'[d] = "idle" THEN answer'[d] ELSE NoAnswer] =
            [[d \in Callers |-> IF pc[d] = "idle" THEN answer[d] ELSE NoAnswer]
                EXCEPT ![c] = answer'[c]]
    BY DEF IInv, TypeOK
  <1>4. QED
    BY <1>1, <1>2, <1>3 DEF RT!Reply

\* A step that shows nothing outside.
LEMMA HiddenRefines ==
    ASSUME UNCHANGED <<source, latest, req, floor, ctxDone>>,
           \A c \in Callers : \/ pc'[c] = pc[c] /\ answer'[c] = answer[c]
                              \/ pc[c] # "idle" /\ pc'[c] # "idle"
    PROVE  UNCHANGED RT!vars
  <1>1. [c \in Callers |-> pc'[c] # "idle"] = [c \in Callers |-> pc[c] # "idle"]
    OBVIOUS
  <1>2. [c \in Callers |-> IF pc'[c] = "idle" THEN answer'[c] ELSE NoAnswer] =
            [c \in Callers |-> IF pc[c] = "idle" THEN answer[c] ELSE NoAnswer]
    OBVIOUS
  <1>3. QED
    BY <1>1, <1>2 DEF RT!vars

LEMMA NextRefines ==
    ASSUME IInv, IInv', OutcomesInv, [Next]_vars
    PROVE  [RT!Next]_(RT!vars)
  <1>1. TypeOK /\ TypeOK'
    BY DEF IInv
  <1> USE <1>1
  <1> USE DEF envVars, cacheVars, flightVars, callerVars, histVars
  <1>2. ASSUME NEW c \in Callers, NEW i \in Ids, Call(c, i)
        PROVE  RT!Ask(c, i)
    <2>1. [d \in Callers |-> pc'[d] # "idle"] =
              [[d \in Callers |-> pc[d] # "idle"] EXCEPT ![c] = TRUE]
      BY <1>2 DEF Call, TypeOK
    <2>2. [d \in Callers |-> IF pc'[d] = "idle" THEN answer'[d] ELSE NoAnswer] =
              [[d \in Callers |->
                  IF pc[d] = "idle" THEN answer[d] ELSE NoAnswer]
                    EXCEPT ![c] = RT!NoAnswer]
      BY <1>2 DEF Call, TypeOK, NoAnswer, RT!NoAnswer
    <2>3. QED
      BY <1>2, <2>1, <2>2 DEF Call, RT!Ask
  <1>3. ASSUME NEW c \in Callers, CancelCtx(c)
        PROVE  RT!CancelCtx(c)
    BY <1>3 DEF CancelCtx, RT!CancelCtx
  <1>4. ASSUME NEW c \in Callers, Enter(c)
        PROVE  RT!Reply(c) \/ UNCHANGED RT!vars
    <2>1. CASE ctxDone[c]
      BY <1>4, <2>1, ReturnRefines DEF Enter, Return, OwnCancel, TypeOK
    <2>2. CASE ~ctxDone[c]
      BY <1>4, <2>2, HiddenRefines DEF Enter, TypeOK
    <2>3. QED
      BY <2>1, <2>2
  <1>5. ASSUME NEW c \in Callers, ReadLookup(c)
        PROVE  RT!Reply(c) \/ UNCHANGED RT!vars
    <2>1. CASE EntryValid(req[c], at[c])
      BY <1>5, <2>1, ReturnRefines DEF ReadLookup, Return, Ok, TypeOK
    <2>2. CASE ~EntryValid(req[c], at[c])
      BY <1>5, <2>2, HiddenRefines DEF ReadLookup, TypeOK
    <2>3. QED
      BY <2>1, <2>2
  <1>6. ASSUME NEW c \in Callers, LockedHit(c)
        PROVE  RT!Reply(c)
    BY <1>6, ReturnRefines DEF LockedHit, Return, Ok, TypeOK
  <1>7. ASSUME NEW c \in Callers,
               \/ Join(c) \/ \E f \in Flights : Start(c, f)
               \/ WaitDone(c) \/ WaitCancelled(c)
        PROVE  UNCHANGED RT!vars
    BY <1>7, HiddenRefines
       DEF Join, Start, WaitDone, WaitCancelled, WaitFor, TypeOK
  <1>8. ASSUME NEW c \in Callers, Release(c)
        PROVE  RT!Reply(c)
    <2>1. /\ pc[c] = "release" /\ pc' = [pc EXCEPT ![c] = "idle"]
          /\ UNCHANGED <<source, latest, req, floor, ctxDone, answer>>
      BY <1>8 DEF Release
    <2>2. answer' = [answer EXCEPT ![c] = answer'[c]]
      BY <2>1 DEF TypeOK
    <2>3. answer[c].kind # "none" /\ (answer[c].kind # "ok" => answer[c].ver = 0)
      BY <2>1 DEF OutcomesInv
    <2>4. QED
      BY <2>1, <2>2, <2>3, ReturnRefines
  <1>9. ASSUME NEW f \in Flights, FetchPublish(f)
        PROVE  (\E i \in Ids : RT!Obtain(i)) \/ UNCHANGED RT!vars
    <2>1. CASE inflight[fid[f]] = f /\ result[f].kind = "ok"
      <3>1. /\ fid[f] \in Ids /\ result[f].ver \in Nat
            /\ latest[fid[f]] \in Nat /\ source[fid[f]] \in Nat
        BY DEF TypeOK, Answer
      <3>2. result[f].ver \in latest[fid[f]]..source[fid[f]]
        BY <2>1, <3>1 DEF IInv, VersionsInv
      <3>3. /\ latest' = [latest EXCEPT ![fid[f]] = result[f].ver]
            /\ UNCHANGED <<source, callerVars, floor>>
        BY <1>9, <2>1 DEF FetchPublish, Store
      <3>4. RT!Obtain(fid[f])
        BY <3>2, <3>3 DEF RT!Obtain
      <3>5. QED
        BY <3>1, <3>4
    <2>2. CASE ~(inflight[fid[f]] = f /\ result[f].kind = "ok")
      BY <1>9, <2>2, HiddenRefines DEF FetchPublish, Store
    <2>3. QED
      BY <2>1, <2>2
  <1>10. ASSUME NEW f \in Flights,
                FetchRead(f) \/ FetchReturn(f) \/ FetchClose(f)
         PROVE  UNCHANGED RT!vars
    BY <1>10, HiddenRefines DEF FetchRead, FetchReturn, FetchClose
  <1>11. ASSUME NEW i \in Ids, Update(i)
         PROVE  RT!Update(i)
    BY <1>11 DEF Update, RT!Update
  <1>12. ASSUME UNCHANGED <<source, callerVars, histVars>>
         PROVE  UNCHANGED RT!vars
    BY <1>12, HiddenRefines
  <1>13. QED
    BY <1>2, <1>3, <1>4, <1>5, <1>6, <1>7, <1>8, <1>9, <1>10, <1>11, <1>12
       DEF Next, CallerStep, FlightStep, Environment, vars, Evict, EvictAll,
           Tick, RT!Next

\* CachedRegistry implements ReadThrough: caching, deduplication, eviction and
\* abandoned fetches are invisible to a caller except for the age of what it
\* reads, which never decreases.
THEOREM CachedRegistryImplementsReadThrough == Spec => ImplementsReadThrough
  <1>1. IInv /\ IInv' /\ OutcomesInv /\ [Next]_vars => [RT!Next]_(RT!vars)
    BY NextRefines
  <1>2. QED
    BY <1>1, InitRefines, Invariance, Outcomes, PTL
       DEF Spec, ImplementsReadThrough, RT!Spec
=============================================================================
