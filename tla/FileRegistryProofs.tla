------------------------- MODULE FileRegistryProofs -------------------------
(***************************************************************************)
(* Theorems about FileRegistry and EmbedRegistry, for any callers, ids and *)
(* extensions, with or without an environment, any order of the walk and   *)
(* any bounds.                                                             *)
(***************************************************************************)
EXTENDS EmbedRegistry, SequenceTheorems, WellFoundedInduction, TLAPS

Last == Len(idToPaths)

\* Where a candidate is in the resolution order.
LEMMA Paths ==
    /\ AnyId \in Ids
    /\ idToPaths \in Seq(Path)
    /\ Last \in Nat /\ Last > 0
    /\ \A k \in 1..Last : idToPaths[k] \in Candidates /\ idToPaths[k] \in Path
    /\ \A j, k \in 1..Last : idToPaths[j] = idToPaths[k] => j = k
  <1> DEFINE A == [k \in 1..Len(Exts) |-> [env |-> TRUE, ext |-> Exts[k]]]
             B == [k \in 1..Len(Exts) |-> [env |-> FALSE, ext |-> Exts[k]]]
             N == Len(Exts)
  <1>1. N \in Nat /\ N > 0
    BY ExtsAssumption
  <1>2. A \in [1..N -> Path] /\ B \in [1..N -> Path]
    BY DEF Path
  <1>4. \A k \in 1..N : A[k].ext = Exts[k] /\ B[k].ext = Exts[k]
    OBVIOUS
  <1>5. \A k \in 1..N : A[k].env /\ ~B[k].env
    OBVIOUS
  <1>6. idToPaths = (IF HasEnv THEN A ELSE <<>>) \o B
    BY DEF idToPaths
  <1>7. \A k, m \in 1..N : Exts[k] = Exts[m] => k = m
    BY ExtsAssumption
  <1> HIDE DEF A, B, N
  <1>3. ASSUME NEW f \in [1..N -> Path]
        PROVE  f \in Seq(Path) /\ Len(f) = N
    <2>1. f \in Seq(Path)
      BY <1>1, SeqDef
    <2>2. Len(f) \in Nat /\ 1..Len(f) = 1..N
      BY <2>1, LenProperties
    <2>3. QED
      BY <1>1, <2>1, <2>2
  <1>8. \A k, m \in 1..N : /\ A[k] = A[m] => k = m
                           /\ B[k] = B[m] => k = m
                           /\ A[k] # B[m]
    <2>4. ASSUME NEW k \in 1..N, NEW m \in 1..N, A[k] = B[m]
          PROVE  FALSE
      BY <1>5, <2>4
    <2>5. ASSUME NEW k \in 1..N, NEW m \in 1..N
          PROVE  (A[k] = A[m] => k = m) /\ (B[k] = B[m] => k = m)
      BY <1>4, <1>7
    <2>6. QED
      BY <2>4, <2>5
  <1>9. /\ idToPaths \in Seq(Path) /\ Last \in Nat /\ Last > 0
        /\ \A j, k \in 1..Last : idToPaths[j] = idToPaths[k] => j = k
    <2>1. CASE HasEnv
      <3>1. idToPaths = A \o B
        BY <1>6, <2>1
      <3>2. /\ idToPaths \in Seq(Path) /\ Last = N + N
            /\ \A k \in 1..Last : idToPaths[k] = IF k <= N THEN A[k] ELSE B[k - N]
        <4>1. /\ A \in Seq(Path) /\ Len(A) = N
              /\ B \in Seq(Path) /\ Len(B) = N
          BY <1>2, <1>3
        <4>2. /\ A \o B \in Seq(Path)
              /\ Len(A \o B) = Len(A) + Len(B)
              /\ \A i \in 1..(Len(A) + Len(B)) :
                    (A \o B)[i] = IF i <= Len(A) THEN A[i] ELSE B[i - Len(A)]
          BY <4>1, ConcatProperties, Zenon
        <4>3. QED
          BY <3>1, <4>1, <4>2 DEF Last
      <3>3. ASSUME NEW j \in 1..Last, NEW k \in 1..Last, idToPaths[j] = idToPaths[k]
            PROVE  j = k
        BY <1>1, <1>8, <3>2, <3>3
      <3>4. QED
        BY <1>1, <3>2, <3>3
    <2>2. CASE ~HasEnv
      <3>1. idToPaths = B
        BY <1>2, <1>3, <1>6, <2>2, ConcatEmptySeq
      <3>2. QED
        BY <1>1, <1>2, <1>3, <1>8, <3>1 DEF Last
    <2>3. QED
      BY <2>1, <2>2
  <1>10. QED
    BY <1>9, IdsAssumption DEF AnyId, Candidates, Last

\* The candidates a walk at place k has passed.
Passed(k) == {idToPaths[j] : j \in 1..(k - 1)}

LEMMA Walks ==
    /\ Passed(1) = {}
    /\ Passed(Last + 1) = Candidates
    /\ \A k \in 1..Last : /\ Passed(k) = Before(idToPaths[k])
                          /\ Passed(k + 1) = Passed(k) \cup {idToPaths[k]}
  <1>1. Passed(1) = {} /\ Passed(Last + 1) = Candidates
    BY Paths DEF Passed, Candidates, Last
  <1>2. ASSUME NEW k \in 1..Last
        PROVE  /\ Passed(k) = Before(idToPaths[k])
               /\ Passed(k + 1) = Passed(k) \cup {idToPaths[k]}
    <2>1. 1..(k + 1 - 1) = 1..(k - 1) \cup {k}
      BY Paths
    <2>2. Passed(k + 1) = Passed(k) \cup {idToPaths[k]}
      BY <2>1 DEF Passed
    <2>3. ASSUME NEW q \in Passed(k)
          PROVE  q \in Before(idToPaths[k])
      BY Paths DEF Passed, Before, Last
    <2>4. ASSUME NEW q \in Before(idToPaths[k])
          PROVE  q \in Passed(k)
      BY Paths DEF Passed, Before, Last
    <2>5. QED
      BY <2>2, <2>3, <2>4
  <1>3. QED
    BY <1>1, <1>2

(***************************************************************************)
(* Type correctness                                                        *)
(***************************************************************************)

LEMMA Templates ==
    /\ NoTemplate \in Template
    /\ \A t \in Template : Ok(t) \in Answer /\ Ok(t).kind = "ok" /\ Ok(t).tpl = t
    /\ \A k \in Kinds : Fail(k) \in Answer /\ Fail(k).kind = k
    /\ \A t \in Template, v \in Int :
          /\ WithVersion(t, v) \in Template
          /\ WithVersion(t, v).path = t.path
          /\ WithVersion(t, v).rev = t.rev
          /\ WithVersion(t, v).partial = t.partial
  <1>1. NoTemplate \in Template
    BY Paths DEF NoTemplate, Template, NoVersion
  <1>2. \A t \in Template : Ok(t) \in Answer /\ Ok(t).kind = "ok" /\ Ok(t).tpl = t
    BY DEF Ok, Answer, Kinds
  <1>3. \A k \in Kinds : Fail(k) \in Answer /\ Fail(k).kind = k
    BY <1>1 DEF Fail, Answer
  <1>4. ASSUME NEW t \in Template, NEW v \in Int
        PROVE  /\ WithVersion(t, v) \in Template
               /\ WithVersion(t, v).path = t.path
               /\ WithVersion(t, v).rev = t.rev
               /\ WithVersion(t, v).partial = t.partial
    BY DEF WithVersion, Template
  <1>5. QED
    BY <1>1, <1>2, <1>3, <1>4

LEMMA InitTypeOK == Init => TypeOK
  <1>1. Fail("none") \in Answer
    BY Templates DEF Kinds
  <1>2. FirstPartial \in Partial
    BY DEF FirstPartial, Partial, PartialContents
  <1>3. QED
    BY <1>1, <1>2, Paths, Templates DEF Init, TypeOK, PCs, Last

\* The candidate that a caller is at, its file, and its partial.
LEMMA CandidateTypes ==
    ASSUME TypeOK, NEW c \in Callers, at[c] <= Last
    PROVE  /\ Candidate(c) = idToPaths[at[c]] /\ at[c] \in 1..Last
           /\ Candidate(c) \in Candidates /\ Candidate(c) \in Path
           /\ Found(c) = disk[req[c]][Candidate(c)]
           /\ Found(c) \in File \cup {NoFile}
           /\ Skippable(Found(c)) <=> Found(c) = NoFile
  <1>1. /\ Candidate(c) = idToPaths[at[c]] /\ at[c] \in 1..Last
        /\ Candidate(c) \in Candidates /\ Candidate(c) \in Path
        /\ Found(c) = disk[req[c]][Candidate(c)]
        /\ Found(c) \in File \cup {NoFile}
    BY Paths DEF TypeOK, Candidate, Found, Last
  <1>2. QED
    BY <1>1 DEF Skippable, File, Contents

LEMMA PartialTypes ==
    ASSUME TypeOK, NEW c \in Callers
    PROVE  /\ home[req[c]] \in Dirs
           /\ FoundPartial(c) = partial[home[req[c]]]
           /\ FoundPartial(c) \in Partial \cup {NoFile}
           /\ Skippable(FoundPartial(c)) <=> FoundPartial(c) = NoFile \/ Dangling(FoundPartial(c))
  BY DEF TypeOK, FoundPartial, Skippable, Dangling

\* A call that returns.
LEMMA Returns ==
    ASSUME TypeOK, NEW c \in Callers, NEW a \in Answer, Return(c, a)
    PROVE  /\ pc' \in [Callers -> PCs] /\ answer' \in [Callers -> Answer]
           /\ served' \in [Ids -> SUBSET Template]
           /\ at' \in [Callers -> 1..(Len(idToPaths) + 1)]
           /\ loaded' \in [Callers -> Template]
           /\ ctxDone' \in [Callers -> BOOLEAN]
           /\ \A d \in Callers : pc'[d] \in {"glob", "partial"} => at'[d] <= Len(idToPaths)
  <1>1. NoTemplate \in Template /\ 1 \in 1..(Len(idToPaths) + 1)
    BY Templates, Paths DEF Last
  <1>2. QED
    BY <1>1 DEF Return, FirstCandidate, TypeOK, Answer, PCs

LEMMA CallerTypeOK ==
    ASSUME TypeOK, NEW c \in Callers, CallerStep(c)
    PROVE  TypeOK'
  <1> USE DEF PCs, envVars, fileVars, regVars, histVars, Goto
  <1>1. /\ Fail("cancelled") \in Answer /\ Fail("notfound") \in Answer /\ Fail("failed") \in Answer
        /\ 1 \in 1..(Len(idToPaths) + 1)
        /\ lock \in Callers \cup {NoCaller}
    BY Templates, Paths DEF Kinds, Last, TypeOK
  <1>2. UNCHANGED <<disk, home, partial, writes, calls, reloads, req, holes, torn, gone, stale>>
    BY DEF CallerStep, ReadLookup, Lock, Parse, Glob, ReadPartial, Stat
  <1>3. ASSUME NEW k, Fail(k) \in Answer, Abandon(c, k), UNCHANGED cache
        PROVE  TypeOK'
    <2>1. Return(c, Fail(k)) /\ lock' = NoCaller
      BY <1>3 DEF Abandon, Unlock
    <2>2. QED
      BY <1>2, <1>3, <2>1, Returns DEF TypeOK
  <1>4. CASE ReadLookup(c)
    <2>1. CASE cache[req[c]] # NoEntry
      <3>1. Ok(cache[req[c]]) \in Answer
        BY <2>1, Templates DEF TypeOK
      <3>2. Return(c, Ok(cache[req[c]])) /\ UNCHANGED <<lock, cache>>
        BY <1>4, <2>1 DEF ReadLookup
      <3>3. QED
        BY <1>2, <3>1, <3>2, Returns DEF TypeOK
    <2>2. CASE cache[req[c]] = NoEntry
      BY <1>2, <1>4, <2>2 DEF ReadLookup, TypeOK
    <2>3. QED
      BY <2>1, <2>2
  <1>5. CASE Lock(c)
    <2>1. CASE cache[req[c]] # NoEntry
      <3>1. Ok(cache[req[c]]) \in Answer
        BY <2>1, Templates DEF TypeOK
      <3>2. Return(c, Ok(cache[req[c]])) /\ UNCHANGED <<lock, cache>>
        BY <1>5, <2>1 DEF Lock
      <3>3. QED
        BY <1>2, <3>1, <3>2, Returns DEF TypeOK
    <2>2. CASE cache[req[c]] = NoEntry /\ ctxDone[c]
      <3>1. Return(c, Fail("cancelled")) /\ UNCHANGED <<lock, cache>>
        BY <1>5, <2>2 DEF Lock
      <3>2. QED
        BY <1>1, <1>2, <3>1, Returns DEF TypeOK
    <2>3. CASE cache[req[c]] = NoEntry /\ ~ctxDone[c]
      BY <1>1, <1>2, <1>5, <2>3 DEF Lock, FirstCandidate, TypeOK
    <2>4. QED
      BY <2>1, <2>2, <2>3
  <1>6. ASSUME NextCandidate(c), at[c] <= Last, UNCHANGED <<lock, cache>>
        PROVE  TypeOK'
    <2>1. at' \in [Callers -> 1..(Len(idToPaths) + 1)]
      BY <1>6, Paths DEF NextCandidate, TypeOK, Last
    <2>2. /\ pc' = [pc EXCEPT ![c] = "parse"]
          /\ UNCHANGED <<lock, cache, answer, served, loaded, ctxDone>>
      BY <1>6 DEF NextCandidate
    <2>3. \A d \in Callers : pc'[d] \in {"glob", "partial"} => at'[d] <= Len(idToPaths)
      BY <1>6 DEF NextCandidate, TypeOK
    <2>4. QED
      BY <1>2, <2>1, <2>2, <2>3 DEF TypeOK
  <1>7. ASSUME NEW t \in Template, loaded' = [loaded EXCEPT ![c] = t],
               UNCHANGED <<lock, cache, ctxDone>>,
               \/ Goto(c, "glob") /\ at[c] <= Last /\ UNCHANGED at
               \/ StartStat(c)
        PROVE  TypeOK'
    <2>1. loaded' \in [Callers -> Template]
      BY <1>7 DEF TypeOK
    <2>2. at' \in [Callers -> 1..(Len(idToPaths) + 1)]
      BY <1>1, <1>7 DEF StartStat, FirstCandidate, TypeOK
    <2>3. /\ pc' \in [Callers -> PCs]
          /\ UNCHANGED <<answer, served>>
      BY <1>7 DEF StartStat, TypeOK
    <2>4. \A d \in Callers : pc'[d] \in {"glob", "partial"} => at'[d] <= Len(idToPaths)
      BY <1>7 DEF StartStat, TypeOK, Last
    <2>5. QED
      BY <1>2, <1>7, <2>1, <2>2, <2>3, <2>4 DEF TypeOK
  <1>8. CASE Parse(c)
    <2>1. UNCHANGED cache
      BY <1>8 DEF Parse
    <2>2. CASE Abandon(c, "notfound") \/ Abandon(c, "failed")
      BY <1>1, <1>3, <2>1, <2>2
    <2>3. CASE at[c] <= Last /\ NextCandidate(c) /\ UNCHANGED lock
      BY <1>6, <2>1, <2>3
    <2>4. CASE /\ at[c] <= Last /\ ~Skippable(Found(c)) /\ Found(c).content # "malformed"
               /\ loaded' = [loaded EXCEPT ![c] =
                               [path |-> Candidate(c), rev |-> Found(c).rev, partial |-> 0,
                                version |-> IF Found(c).content = "versioned"
                                            THEN OwnVersion ELSE NoVersion]]
               /\ IF HasPartials THEN Goto(c, "glob") /\ UNCHANGED at ELSE StartStat(c)
               /\ UNCHANGED <<lock, ctxDone>>
      <3> DEFINE t == [path |-> Candidate(c), rev |-> Found(c).rev, partial |-> 0,
                       version |-> IF Found(c).content = "versioned"
                                   THEN OwnVersion ELSE NoVersion]
      <3>1. Candidate(c) \in Path /\ Found(c).rev \in Nat
        BY <2>4, CandidateTypes DEF File
      <3>2. t \in Template
        BY <3>1 DEF Template, OwnVersion, NoVersion
      <3>3. loaded' = [loaded EXCEPT ![c] = t]
        BY <2>4
      <3>4. (Goto(c, "glob") /\ at[c] <= Last /\ UNCHANGED at) \/ StartStat(c)
        BY <2>4
      <3>5. UNCHANGED <<lock, cache, ctxDone>>
        BY <2>1, <2>4
      <3> HIDE DEF t, Goto
      <3>6. QED
        BY <1>7, <3>2, <3>3, <3>4, <3>5
    <2>5. QED
      BY <1>8, <2>2, <2>3, <2>4 DEF Parse, Last
  <1>9. CASE Glob(c)
    <2>1. CASE Abandon(c, "failed")
      <3>1. UNCHANGED cache
        BY <1>9 DEF Glob
      <3>2. QED
        BY <1>1, <1>3, <2>1, <3>1
    <2>2. CASE Goto(c, "partial") /\ UNCHANGED <<lock, at, loaded, ctxDone>>
      BY <1>2, <1>9, <2>2 DEF Glob, TypeOK
    <2>3. QED
      BY <1>9, <2>1, <2>2 DEF Glob
  <1>10. CASE ReadPartial(c)
    <2>1. UNCHANGED cache
      BY <1>10 DEF ReadPartial
    <2>2. CASE Abandon(c, "failed")
      BY <1>1, <1>3, <2>1, <2>2
    <2>3. CASE NextCandidate(c) /\ UNCHANGED lock
      <3>1. at[c] <= Last
        BY <1>10 DEF ReadPartial, TypeOK, Last
      <3>2. QED
        BY <1>6, <2>1, <2>3, <3>1
    <2>4. CASE /\ ~Skippable(FoundPartial(c))
               /\ loaded' = [loaded EXCEPT ![c].partial = FoundPartial(c).rev]
               /\ StartStat(c) /\ UNCHANGED <<lock, ctxDone>>
      <3> DEFINE t == [loaded[c] EXCEPT !.partial = FoundPartial(c).rev]
      <3>1. FoundPartial(c).rev \in Nat
        BY <2>4, PartialTypes DEF Partial
      <3>2. t \in Template
        BY <3>1 DEF TypeOK, Template
      <3>3. loaded' = [loaded EXCEPT ![c] = t]
        BY <2>4
      <3>4. UNCHANGED <<lock, cache, ctxDone>>
        BY <2>1, <2>4
      <3> HIDE DEF t, Goto
      <3>5. QED
        BY <1>7, <2>4, <3>2, <3>3, <3>4
    <2>5. QED
      BY <1>10, <2>2, <2>3, <2>4 DEF ReadPartial
  <1>11. CASE Stat(c)
    <2>1. CASE at[c] <= Last /\ Found(c) = NoFile
      <3>1. /\ at' = [at EXCEPT ![c] = @ + 1] /\ pc' = [pc EXCEPT ![c] = "stat"]
            /\ UNCHANGED <<lock, cache, answer, served, loaded, ctxDone>>
        BY <1>11, <2>1 DEF Stat, Last
      <3>2. at' \in [Callers -> 1..(Len(idToPaths) + 1)]
        BY <2>1, <3>1, Paths DEF TypeOK, Last
      <3>3. QED
        BY <1>2, <3>1, <3>2 DEF TypeOK
    <2>2. CASE ~(at[c] <= Last /\ Found(c) = NoFile)
      <3> DEFINE v == IF at[c] <= Last THEN Found(c).rev ELSE NoVersion
                 t == WithVersion(loaded[c], v)
      <3>1. v \in Int
        BY <2>2, CandidateTypes DEF File, NoVersion
      <3>2. t \in Template /\ Ok(t) \in Answer
        BY <3>1, Templates DEF TypeOK
      <3>3. /\ cache' = [cache EXCEPT ![req[c]] = t] /\ lock' = NoCaller
            /\ Return(c, Ok(t))
        BY <1>11, <2>2 DEF Stat, Last, Unlock
      <3> HIDE DEF t
      <3>4. cache' \in [Ids -> Template \cup {NoEntry}]
        BY <3>2, <3>3 DEF TypeOK
      <3>5. QED
        BY <1>2, <3>2, <3>3, <3>4, Returns DEF TypeOK
    <2>3. QED
      BY <2>1, <2>2
  <1>12. QED
    BY <1>4, <1>5, <1>8, <1>9, <1>10, <1>11 DEF CallerStep

LEMMA StepTypeOK == TypeOK /\ [Next]_vars => TypeOK'
  <1> SUFFICES ASSUME TypeOK, [Next]_vars
               PROVE  TypeOK'
    OBVIOUS
  <1> USE DEF PCs, envVars, fileVars, regVars, callVars, histVars
  <1>1. CASE UNCHANGED vars
    BY <1>1 DEF vars, TypeOK
  <1>2. ASSUME NEW c \in Callers, NEW i \in Ids, Call(c, i)
        PROVE  TypeOK'
    <2>1. Fail("none") \in Answer
      BY Templates DEF Kinds
    <2>2. QED
      BY <1>2, <2>1 DEF Call, TypeOK
  <1>3. ASSUME NEW c \in Callers, CancelCtx(c)
        PROVE  TypeOK'
    BY <1>3 DEF CancelCtx, TypeOK
  <1>4. CASE Reload
    BY <1>4 DEF Reload, ClearCache, TypeOK, Absent
  <1>5. ASSUME NEW i \in Ids, NEW p \in Candidates, NEW content \in Contents,
               Write(i, p, content)
        PROVE  TypeOK'
    BY <1>5 DEF Write, TypeOK, File
  <1>6. ASSUME NEW i \in Ids, NEW p \in Candidates, Remove(i, p)
        PROVE  TypeOK'
    BY <1>6 DEF Remove, TypeOK
  <1>7. ASSUME NEW d \in Read, NEW content \in PartialContents, WritePartial(d, content)
        PROVE  TypeOK'
    <2>1. d \in Dirs
      BY DEF Read, TypeOK
    <2>2. QED
      BY <1>7, <2>1 DEF WritePartial, TypeOK, Partial
  <1>8. ASSUME NEW d \in Read, RemovePartial(d)
        PROVE  TypeOK'
    <2>1. d \in Dirs
      BY DEF Read, TypeOK
    <2>2. QED
      BY <1>8, <2>1 DEF RemovePartial, TypeOK
  <1>9. QED
    BY <1>1, <1>2, <1>3, <1>4, <1>5, <1>6, <1>7, <1>8, CallerTypeOK DEF Next, FilesChange

\* Every reachable state is well typed.
THEOREM TypeCorrect == Spec => []TypeOK
  BY InitTypeOK, StepTypeOK, PTL DEF Spec

(***************************************************************************)
(* The inductive invariant                                                 *)
(***************************************************************************)

Loads == {"parse", "glob", "partial", "stat"}

\* A caller that loads holds the lock, and nothing is cached for its id yet.
LockInv ==
    \A c \in Callers : pc[c] \in Loads => lock = c /\ cache[req[c]] = NoEntry

\* What was returned since the last Reload is what is cached.
ServedInv == \A i \in Ids : \A t \in served[i] : cache[i] = t

\* Writes that are gone stay so: their numbers are not given again.
GoneInv ==
    /\ gone \subseteq 0..writes
    /\ \A i \in Ids, p \in Candidates :
          disk[i][p] # NoFile => disk[i][p].rev \in (0..writes) \ gone
    /\ \A d \in Dirs : partial[d] # NoFile => partial[d].rev \in (0..writes) \ gone
    /\ \A c \in Callers : stale[c] \subseteq gone

\* Nothing that was gone at the last Reload is cached or being loaded.
RevsInv ==
    /\ \A i \in Ids : cache[i] # NoEntry => UpToDate(cache[i], gone)
    /\ \A c \in Callers :
          /\ pc[c] \in {"glob", "partial", "stat"} => loaded[c].rev \notin gone
          /\ pc[c] = "stat" => UpToDate(loaded[c], gone)
    /\ ReloadForcesReread

\* Partials that can be listed and not opened are known.
TornInv ==
    /\ \A d \in Dirs : Dangling(partial[d]) => d \in torn
    /\ \A c \in Callers :
          /\ pc[c] \in {"glob", "partial"} => HasPartials
          /\ pc[c] = "partial" /\ FoundPartial(c) = NoFile => home[req[c]] \in torn

\* Every candidate that was passed over may have been missed.
HolesInv ==
    /\ \A i \in Ids : Absent(i) \subseteq holes[i] /\ holes[i] \subseteq Candidates
    /\ \A i \in Ids : cache[i] # NoEntry => Before(cache[i].path) \subseteq MayBeMissed(i)
    /\ \A c \in Callers :
          /\ pc[c] \in {"parse", "glob", "partial"} => Passed(at[c]) \subseteq MayBeMissed(req[c])
          /\ pc[c] \in {"glob", "partial"} => loaded[c].path = Candidate(c)
          /\ pc[c] = "stat" => Before(loaded[c].path) \subseteq MayBeMissed(req[c])

IInv == TypeOK /\ LockInv /\ ServedInv /\ GoneInv /\ RevsInv /\ TornInv /\ HolesInv

(***************************************************************************)
(* What a step of a caller comes to: it returns what is cached, or returns *)
(* an error, or goes on, or passes over a candidate, or loads one in one   *)
(* step or three, or stores and returns it.                                *)
(***************************************************************************)
Hit(c) ==
    /\ pc[c] \in {"rlock", "lock"} /\ cache[req[c]] # NoEntry
    /\ Return(c, Ok(cache[req[c]]))
    /\ UNCHANGED <<lock, cache>>

Refused(c, k) ==
    /\ Return(c, Fail(k))
    /\ \/ pc[c] = "lock" /\ UNCHANGED lock
       \/ pc[c] \in {"parse", "glob", "partial"} /\ lock' = NoCaller
    /\ UNCHANGED cache
    /\ k = "notfound" => pc[c] = "parse" /\ at[c] = Last + 1

Moved(c, l) ==
    /\ pc' = [pc EXCEPT ![c] = l]
    /\ UNCHANGED <<cache, answer, served, loaded>>
    /\ \/ l = "lock" /\ pc[c] = "rlock" /\ UNCHANGED <<lock, at>>
       \/ /\ l = "parse" /\ pc[c] = "lock" /\ cache[req[c]] = NoEntry
          /\ lock = NoCaller /\ lock' = c /\ at' = [at EXCEPT ![c] = 1]
       \/ /\ l = "partial" /\ pc[c] = "glob" /\ FoundPartial(c) # NoFile
          /\ UNCHANGED <<lock, at>>
       \/ /\ l = "stat" /\ pc[c] = "stat" /\ UNCHANGED lock
          /\ at' = [at EXCEPT ![c] = @ + 1]

Skipped(c) ==
    /\ pc[c] \in {"parse", "partial"} /\ pc' = [pc EXCEPT ![c] = "parse"]
    /\ UNCHANGED <<lock, cache, answer, served, loaded>>
    /\ at[c] \in 1..Last /\ at' = [at EXCEPT ![c] = @ + 1]
    /\ IF pc[c] = "parse" THEN Found(c) = NoFile
                          ELSE FoundPartial(c) = NoFile \/ Dangling(FoundPartial(c))

Parsed(c) ==
    /\ pc[c] = "parse"
    /\ at[c] \in 1..Last /\ Found(c) # NoFile
    /\ UNCHANGED <<lock, cache, answer, served>>
    /\ IF HasPartials THEN pc' = [pc EXCEPT ![c] = "glob"] /\ UNCHANGED at
                      ELSE pc' = [pc EXCEPT ![c] = "stat"] /\ at' = [at EXCEPT ![c] = 1]
    /\ \E t \in Template :
          /\ t.path = Candidate(c) /\ t.rev = Found(c).rev
          /\ loaded' = [loaded EXCEPT ![c] = t]

Completed(c) ==
    /\ pc[c] = "partial" /\ pc' = [pc EXCEPT ![c] = "stat"]
    /\ FoundPartial(c) # NoFile
    /\ UNCHANGED <<lock, cache, answer, served>>
    /\ at' = [at EXCEPT ![c] = 1]
    /\ \E t \in Template :
          /\ t.path = loaded[c].path /\ t.rev = loaded[c].rev /\ t.partial = FoundPartial(c).rev
          /\ loaded' = [loaded EXCEPT ![c] = t]

Stored(c) ==
    /\ pc[c] = "stat"
    /\ lock' = NoCaller
    /\ \E t \in Template :
          /\ t.path = loaded[c].path /\ t.rev = loaded[c].rev /\ t.partial = loaded[c].partial
          /\ cache' = [cache EXCEPT ![req[c]] = t]
          /\ Return(c, Ok(t))

StepOf(c) ==
    \/ Hit(c)
    \/ \E k \in Kinds \ {"ok"} : Refused(c, k)
    \/ \E l \in PCs : Moved(c, l)
    \/ Skipped(c)
    \/ Parsed(c)
    \/ Completed(c)
    \/ Stored(c)

LEMMA CallerSteps ==
    ASSUME TypeOK, NEW c \in Callers, CallerStep(c)
    PROVE  /\ UNCHANGED <<disk, home, partial, writes, reloads, req, holes, torn, gone, stale>>
           /\ StepOf(c)
  <1>1. UNCHANGED <<disk, home, partial, writes, reloads, req, holes, torn, gone, stale>>
    BY DEF CallerStep, ReadLookup, Lock, Parse, Glob, ReadPartial, Stat, envVars, fileVars, regVars
  <1>2. CASE ReadLookup(c)
    <2>1. CASE cache[req[c]] # NoEntry
      <3>1. Hit(c)
        BY <1>2, <2>1 DEF ReadLookup, Hit, regVars
      <3>2. QED
        BY <1>1, <3>1 DEF StepOf
    <2>2. CASE cache[req[c]] = NoEntry
      <3>1. Moved(c, "lock")
        BY <1>2, <2>2 DEF ReadLookup, Moved, regVars, Goto
      <3>2. QED
        BY <1>1, <3>1 DEF PCs, StepOf
    <2>3. QED
      BY <1>1, <2>1, <2>2
  <1>3. CASE Lock(c)
    <2>1. CASE cache[req[c]] # NoEntry
      BY <1>1, <1>3, <2>1 DEF Lock, Hit, StepOf
    <2>2. CASE cache[req[c]] = NoEntry /\ ctxDone[c]
      <3>1. Refused(c, "cancelled")
        BY <1>3, <2>2 DEF Lock, Refused
      <3>2. QED
        BY <1>1, <3>1 DEF Kinds, StepOf
    <2>3. CASE cache[req[c]] = NoEntry /\ ~ctxDone[c]
      <3>1. Moved(c, "parse")
        BY <1>3, <2>3 DEF Lock, Moved, Goto, FirstCandidate
      <3>2. QED
        BY <1>1, <3>1 DEF PCs, StepOf
    <2>4. QED
      BY <2>1, <2>2, <2>3
  <1>4. CASE Parse(c)
    <2>1. Last \in Nat /\ at[c] \in 1..(Last + 1) /\ pc[c] = "parse" /\ UNCHANGED cache
      BY <1>4, Paths DEF Parse, TypeOK, Last
    <2>2. CASE at[c] > Last
      <3>1. Refused(c, "notfound")
        BY <1>4, <2>1, <2>2 DEF Parse, Refused, Abandon, Unlock, Last
      <3>2. QED
        BY <1>1, <3>1 DEF Kinds, StepOf
    <2>3. CASE at[c] <= Last /\ Found(c) = NoFile
      <3>1. NextCandidate(c) /\ UNCHANGED lock
        BY <1>4, <2>1, <2>3, CandidateTypes DEF Parse, Last
      <3>2. Skipped(c)
        BY <2>1, <2>3, <3>1 DEF Skipped, NextCandidate, Goto
      <3>3. QED
        BY <1>1, <3>2 DEF StepOf
    <2>4. CASE at[c] <= Last /\ Found(c) # NoFile /\ Found(c).content = "malformed"
      <3>1. Abandon(c, "failed")
        BY <1>4, <2>1, <2>4, CandidateTypes DEF Parse, Last
      <3>2. Refused(c, "failed")
        BY <2>1, <3>1 DEF Refused, Abandon, Unlock
      <3>3. QED
        BY <1>1, <3>2 DEF Kinds, StepOf
    <2>5. CASE at[c] <= Last /\ Found(c) # NoFile /\ Found(c).content # "malformed"
      <3> DEFINE t == [path |-> Candidate(c), rev |-> Found(c).rev, partial |-> 0,
                       version |-> IF Found(c).content = "versioned"
                                   THEN OwnVersion ELSE NoVersion]
      <3>1. /\ t \in Template /\ t.path = Candidate(c) /\ t.rev = Found(c).rev
        BY <2>5, CandidateTypes DEF Template, File, OwnVersion, NoVersion
      <3>2. /\ loaded' = [loaded EXCEPT ![c] = t]
            /\ IF HasPartials THEN Goto(c, "glob") /\ UNCHANGED at ELSE StartStat(c)
            /\ UNCHANGED lock
        BY <1>4, <2>1, <2>5, CandidateTypes DEF Parse, Last
      <3> HIDE DEF t
      <3>3. \E u \in Template : /\ u.path = Candidate(c) /\ u.rev = Found(c).rev
                                /\ loaded' = [loaded EXCEPT ![c] = u]
        BY <3>1, <3>2
      <3>4. /\ IF HasPartials THEN pc' = [pc EXCEPT ![c] = "glob"] /\ UNCHANGED at
                              ELSE pc' = [pc EXCEPT ![c] = "stat"] /\ at' = [at EXCEPT ![c] = 1]
            /\ UNCHANGED <<lock, cache, answer, served>>
        BY <2>1, <3>2 DEF Goto, StartStat, FirstCandidate
      <3>5. pc[c] = "parse" /\ at[c] \in 1..Last /\ Found(c) # NoFile
        BY <2>1, <2>5
      <3>6. Parsed(c)
        BY <3>3, <3>4, <3>5, Zenon DEF Parsed
      <3>7. QED
        BY <1>1, <3>6 DEF StepOf
    <2>6. QED
      BY <2>1, <2>2, <2>3, <2>4, <2>5
  <1>5. CASE Glob(c)
    <2>1. CASE FoundPartial(c) = NoFile
      <3>1. Refused(c, "failed")
        BY <1>5, <2>1 DEF Glob, Refused, Abandon, Unlock
      <3>2. QED
        BY <1>1, <3>1 DEF Kinds, StepOf
    <2>2. CASE FoundPartial(c) # NoFile
      <3>1. Moved(c, "partial")
        BY <1>5, <2>2 DEF Glob, Moved, Goto
      <3>2. QED
        BY <1>1, <3>1 DEF PCs, StepOf
    <2>3. QED
      BY <2>1, <2>2
  <1>6. CASE ReadPartial(c)
    <2>1. pc[c] = "partial" /\ at[c] \in 1..Last /\ UNCHANGED cache
      BY <1>6, Paths DEF ReadPartial, TypeOK, Last
    <2>2. CASE Skippable(FoundPartial(c))
      <3>1. NextCandidate(c) /\ UNCHANGED lock
        BY <1>6, <2>2 DEF ReadPartial
      <3>2. Skipped(c)
        BY <2>1, <2>2, <3>1, PartialTypes DEF Skipped, NextCandidate, Goto
      <3>3. QED
        BY <1>1, <3>2 DEF StepOf
    <2>3. CASE ~Skippable(FoundPartial(c)) /\ FoundPartial(c).content = "malformed"
      <3>1. Abandon(c, "failed")
        BY <1>6, <2>3 DEF ReadPartial
      <3>2. Refused(c, "failed")
        BY <2>1, <3>1 DEF Refused, Abandon, Unlock
      <3>3. QED
        BY <1>1, <3>2 DEF Kinds, StepOf
    <2>4. CASE ~Skippable(FoundPartial(c)) /\ FoundPartial(c).content # "malformed"
      <3> DEFINE t == [loaded[c] EXCEPT !.partial = FoundPartial(c).rev]
      <3>1. FoundPartial(c) # NoFile /\ FoundPartial(c).rev \in Nat
        BY <2>4, PartialTypes DEF Partial
      <3>2. /\ t \in Template /\ t.path = loaded[c].path /\ t.rev = loaded[c].rev
            /\ t.partial = FoundPartial(c).rev
        BY <3>1 DEF TypeOK, Template
      <3>3. loaded' = [loaded EXCEPT ![c] = t] /\ StartStat(c) /\ UNCHANGED lock
        BY <1>6, <2>4 DEF ReadPartial
      <3> HIDE DEF t
      <3>4. \E u \in Template :
               /\ u.path = loaded[c].path /\ u.rev = loaded[c].rev
               /\ u.partial = FoundPartial(c).rev
               /\ loaded' = [loaded EXCEPT ![c] = u]
        BY <3>2, <3>3
      <3>5. Completed(c)
        BY <2>1, <3>1, <3>3, <3>4 DEF Completed, StartStat, Goto, FirstCandidate
      <3>6. QED
        BY <1>1, <3>5 DEF StepOf
    <2>5. QED
      BY <2>2, <2>3, <2>4
  <1>7. CASE Stat(c)
    <2>1. Last \in Nat /\ at[c] \in 1..(Last + 1)
      BY Paths DEF TypeOK, Last
    <2>2. CASE at[c] <= Last /\ Found(c) = NoFile
      <3>1. Moved(c, "stat")
        BY <1>7, <2>1, <2>2 DEF Stat, Moved, Goto, Last
      <3>2. QED
        BY <1>1, <3>1 DEF PCs, StepOf
    <2>3. CASE ~(at[c] <= Last /\ Found(c) = NoFile)
      <3> DEFINE v == IF at[c] <= Last THEN Found(c).rev ELSE NoVersion
                 t == WithVersion(loaded[c], v)
      <3>1. v \in Int
        BY <2>3, CandidateTypes DEF File, NoVersion
      <3>2. /\ t \in Template /\ t.path = loaded[c].path /\ t.rev = loaded[c].rev
            /\ t.partial = loaded[c].partial
        BY <3>1, Templates DEF TypeOK
      <3>3. /\ cache' = [cache EXCEPT ![req[c]] = t] /\ lock' = NoCaller
            /\ Return(c, Ok(t)) /\ pc[c] = "stat"
        BY <1>7, <2>3 DEF Stat, Last, Unlock
      <3> HIDE DEF t
      <3>4. Stored(c)
        BY <3>2, <3>3 DEF Stored
      <3>5. QED
        BY <1>1, <3>4 DEF StepOf
    <2>4. QED
      BY <2>2, <2>3
  <1>8. QED
    BY <1>2, <1>3, <1>4, <1>5, <1>6, <1>7 DEF CallerStep

LEMMA InitInv == Init => IInv
  <1> SUFFICES ASSUME Init PROVE IInv
    OBVIOUS
  <1>1. TypeOK
    BY InitTypeOK
  <1>2. LockInv /\ ServedInv
    BY DEF Init, LockInv, ServedInv, Loads
  <1>3. GoneInv
    BY DEF Init, GoneInv, FirstPartial
  <1>4. \A c \in Callers : answer[c].kind = "none"
    BY Templates DEF Init, Kinds
  <1>5. RevsInv
    BY <1>4 DEF Init, RevsInv, ReloadForcesReread
  <1>6. TornInv
    BY DEF Init, TornInv, Dangling, FirstPartial
  <1>7. HolesInv
    BY DEF Init, HolesInv, Absent
  <1>8. QED
    BY <1>1, <1>2, <1>3, <1>5, <1>6, <1>7 DEF IInv

\* A candidate that may have been missed stays one until the next Reload.
LEMMA MissedGrows ==
    ASSUME NEW i \in Ids, holes[i] \subseteq holes'[i], holes[i] \subseteq Candidates,
           holes'[i] \subseteq Candidates, torn \subseteq torn', UNCHANGED home
    PROVE  /\ holes[i] \subseteq MayBeMissed(i)
           /\ MayBeMissed(i) \subseteq MayBeMissed(i)'
           /\ MayBeMissed(i) \subseteq Candidates
  BY DEF MayBeMissed, Candidates, idToPaths

LEMMA CallerInv ==
    ASSUME IInv, NEW c \in Callers, CallerStep(c), TypeOK'
    PROVE  LockInv' /\ ServedInv' /\ GoneInv' /\ RevsInv' /\ TornInv' /\ HolesInv'
  <1> USE DEF IInv
  <1>1. UNCHANGED <<disk, home, partial, writes, reloads, req, holes, torn, gone, stale>>
    BY CallerSteps
  <1>2. GoneInv'
    BY <1>1 DEF GoneInv
  <1>3. \A i \in Ids : Absent(i)' = Absent(i) /\ MayBeMissed(i)' = MayBeMissed(i)
    BY <1>1 DEF Absent, MayBeMissed, Candidates, idToPaths
  <1>4. req[c] \in Ids /\ pc \in [Callers -> PCs] /\ answer \in [Callers -> Answer]
    BY DEF TypeOK
  <1>5. stale[c] \subseteq gone
    BY DEF GoneInv
  <1>6. \A d \in Callers : FoundPartial(d)' = FoundPartial(d)
    BY <1>1 DEF FoundPartial
  <1>7. \A d \in Callers \ {c} : pc'[d] = pc[d] /\ at'[d] = at[d] /\ loaded'[d] = loaded[d]
    <2>1. ASSUME NEW a, Return(c, a)
          PROVE  \A d \in Callers \ {c} : pc'[d] = pc[d] /\ at'[d] = at[d] /\ loaded'[d] = loaded[d]
      BY <2>1 DEF Return, TypeOK
    <2>2. ASSUME Skipped(c) \/ Parsed(c) \/ Completed(c) \/ \E l \in PCs : Moved(c, l)
          PROVE  \A d \in Callers \ {c} : pc'[d] = pc[d] /\ at'[d] = at[d] /\ loaded'[d] = loaded[d]
      BY <2>2 DEF Skipped, Parsed, Completed, Moved, TypeOK
    <2>3. QED
      BY <2>1, <2>2, CallerSteps DEF StepOf, Hit, Refused, Stored
  <1>8. \A d \in Callers \ {c} : at'[d] = at[d] => Candidate(d)' = Candidate(d)
    BY DEF Candidate, idToPaths
  <1>9. \A d \in Callers : pc[d] \in Loads \/ lock = d => d = c \/ (pc[c] \notin Loads /\ lock # c)
    BY NoCallerAssumption DEF LockInv
  <1> DEFINE Mine == /\ pc'[c] \in {"parse", "glob", "partial"} => Passed(at'[c]) \subseteq MayBeMissed(req[c])
                     /\ pc'[c] \in {"glob", "partial"} => loaded'[c].path = Candidate(c)'
                     /\ pc'[c] = "stat" => Before(loaded'[c].path) \subseteq MayBeMissed(req[c])
  <1>10. ASSUME Mine, \A i \in Ids : cache'[i] # NoEntry => Before(cache'[i].path) \subseteq MayBeMissed(i)
         PROVE  HolesInv'
    <2>1. \A i \in Ids : Absent(i)' \subseteq holes'[i] /\ holes'[i] \subseteq Candidates
      BY <1>1, <1>3 DEF HolesInv
    <2>2. \A i \in Ids : cache'[i] # NoEntry => Before(cache'[i].path) \subseteq MayBeMissed(i)'
      BY <1>3, <1>10
    <2>3. \A d \in Callers :
            /\ pc'[d] \in {"parse", "glob", "partial"} => Passed(at'[d]) \subseteq MayBeMissed(req[d])'
            /\ pc'[d] \in {"glob", "partial"} => loaded'[d].path = Candidate(d)'
            /\ pc'[d] = "stat" => Before(loaded'[d].path) \subseteq MayBeMissed(req[d])'
      <3>1. \A d \in Callers : req'[d] = req[d] /\ MayBeMissed(req[d])' = MayBeMissed(req[d])
        BY <1>1, <1>3 DEF TypeOK, MayBeMissed, Candidates, idToPaths
      <3>2. QED
        BY <1>7, <1>8, <1>10, <3>1 DEF HolesInv
    <2>4. QED
      BY <1>1, <2>1, <2>2, <2>3 DEF HolesInv, Passed, Before, Candidates, idToPaths
  <1>11. CASE Hit(c)
    <2> DEFINE t == cache[req[c]]
    <2>1. t \in Template /\ Ok(t).kind = "ok" /\ Ok(t).tpl = t
      BY <1>4, <1>11, Templates DEF Hit, TypeOK
    <2>2. /\ pc' = [pc EXCEPT ![c] = "idle"] /\ answer' = [answer EXCEPT ![c] = Ok(t)]
          /\ served' = [served EXCEPT ![req[c]] = @ \cup {t}]
          /\ UNCHANGED <<lock, cache>>
      BY <1>11, <2>1 DEF Hit, Return
    <2>3. LockInv'
      BY <1>1, <1>4, <2>2 DEF LockInv, Loads
    <2>4. ServedInv'
      BY <1>4, <2>2 DEF ServedInv, TypeOK
    <2>5. RevsInv'
      <3>1. UpToDate(t, gone) /\ UpToDate(t, stale[c])
        BY <1>4, <1>5, <1>11 DEF RevsInv, Hit, UpToDate
      <3>2. QED
        BY <1>1, <1>4, <1>7, <2>1, <2>2, <3>1 DEF RevsInv, ReloadForcesReread
    <2>6. TornInv'
      BY <1>1, <1>4, <1>6, <2>2 DEF TornInv
    <2>7. HolesInv'
      BY <1>4, <1>10, <2>2 DEF HolesInv
    <2>8. QED
      BY <1>2, <2>3, <2>4, <2>5, <2>6, <2>7
  <1>12. ASSUME NEW k \in Kinds \ {"ok"}, Refused(c, k)
         PROVE  LockInv' /\ ServedInv' /\ RevsInv' /\ TornInv' /\ HolesInv'
    <2>1. Fail(k).kind # "ok"
      BY Templates
    <2>2. /\ pc' = [pc EXCEPT ![c] = "idle"] /\ answer' = [answer EXCEPT ![c] = Fail(k)]
          /\ UNCHANGED <<cache, served>>
      BY <1>12, <2>1 DEF Refused, Return
    <2>3. LockInv'
      BY <1>1, <1>4, <1>12, <2>2, NoCallerAssumption DEF LockInv, Refused, Loads
    <2>4. ServedInv'
      BY <2>2 DEF ServedInv
    <2>5. RevsInv'
      BY <1>1, <1>4, <1>7, <2>1, <2>2 DEF RevsInv, ReloadForcesReread
    <2>6. TornInv'
      BY <1>1, <1>4, <1>6, <2>2 DEF TornInv
    <2>7. HolesInv'
      BY <1>4, <1>10, <2>2 DEF HolesInv
    <2>8. QED
      BY <2>3, <2>4, <2>5, <2>6, <2>7
  <1>13. ASSUME NEW l \in PCs, Moved(c, l)
         PROVE  LockInv' /\ ServedInv' /\ RevsInv' /\ TornInv' /\ HolesInv'
    <2>1. ServedInv'
      BY <1>13 DEF ServedInv, Moved
    <2>2. LockInv'
      <3>1. \A d \in Callers : lock = NoCaller => pc[d] \notin Loads
        BY NoCallerAssumption DEF LockInv
      <3>2. QED
        BY <1>1, <1>4, <1>13, <3>1 DEF LockInv, Moved, Loads
    <2>3. RevsInv'
      BY <1>1, <1>4, <1>13 DEF RevsInv, ReloadForcesReread, Moved
    <2>4. TornInv'
      BY <1>1, <1>4, <1>6, <1>13 DEF TornInv, Moved
    <2>5. Mine
      <3>1. CASE l = "parse"
        <4>1. pc'[c] = "parse" /\ at'[c] = 1
          BY <1>4, <1>13, <3>1 DEF Moved, TypeOK
        <4>2. QED
          BY <4>1, Walks
      <3>2. CASE l = "partial"
        <4>1. pc'[c] = "partial" /\ pc[c] = "glob" /\ UNCHANGED <<at, loaded>>
          BY <1>4, <1>13, <3>2 DEF Moved
        <4>2. Candidate(c)' = Candidate(c)
          BY <4>1 DEF Candidate, idToPaths
        <4>3. QED
          BY <4>1, <4>2 DEF HolesInv
      <3>3. CASE l = "stat"
        BY <1>4, <1>13, <3>3 DEF Moved, HolesInv
      <3>4. CASE l = "lock"
        BY <1>4, <1>13, <3>4 DEF Moved
      <3>5. QED
        BY <1>13, <3>1, <3>2, <3>3, <3>4 DEF Moved
    <2>6. HolesInv'
      <3>1. UNCHANGED cache
        BY <1>13 DEF Moved
      <3> HIDE DEF Mine
      <3>2. QED
        BY <1>10, <2>5, <3>1 DEF HolesInv
    <2>7. QED
      BY <2>1, <2>2, <2>3, <2>4, <2>6
  <1>14. CASE Skipped(c)
    <2>1. /\ pc' = [pc EXCEPT ![c] = "parse"]
          /\ UNCHANGED <<lock, cache, answer, served, loaded>>
          /\ pc[c] \in {"parse", "partial"}
          /\ at[c] \in 1..Last /\ at'[c] = at[c] + 1
      BY <1>14 DEF Skipped, TypeOK
    <2>2. LockInv' /\ ServedInv'
      BY <1>1, <1>4, <2>1 DEF LockInv, ServedInv, Loads
    <2>3. RevsInv' /\ TornInv'
      BY <1>1, <1>4, <1>6, <2>1 DEF RevsInv, ReloadForcesReread, TornInv
    <2>4. /\ Candidate(c) = idToPaths[at[c]] /\ Candidate(c) \in Candidates
          /\ Found(c) = disk[req[c]][Candidate(c)]
      BY <2>1, CandidateTypes
    <2>5. idToPaths[at[c]] \in MayBeMissed(req[c])
      <3>1. CASE pc[c] = "parse"
        <4>1. Candidate(c) \in Absent(req[c])
          BY <1>14, <2>4, <3>1 DEF Skipped, Absent
        <4>2. QED
          BY <1>4, <2>4, <4>1 DEF HolesInv, MayBeMissed
      <3>2. CASE pc[c] = "partial"
        <4>1. HasPartials /\ home[req[c]] \in torn
          BY <1>14, <3>2, PartialTypes DEF Skipped, TornInv
        <4>2. QED
          BY <2>4, <4>1 DEF MayBeMissed
      <3>3. QED
        BY <2>1, <3>1, <3>2
    <2>6. Passed(at'[c]) \subseteq MayBeMissed(req[c])
      BY <2>1, <2>5, Walks DEF HolesInv
    <2>7. Mine
      BY <1>4, <2>1, <2>6
    <2>8. HolesInv'
      <3> HIDE DEF Mine
      <3>1. QED
        BY <1>10, <2>1, <2>7 DEF HolesInv
    <2>9. QED
      BY <1>2, <2>2, <2>3, <2>8
  <1>15. CASE Parsed(c)
    <2>1. PICK t \in Template : /\ t.path = Candidate(c) /\ t.rev = Found(c).rev
                                /\ loaded' = [loaded EXCEPT ![c] = t]
      BY <1>15 DEF Parsed
    <2>2. /\ pc[c] = "parse"
          /\ UNCHANGED <<lock, cache, answer, served>>
          /\ at[c] \in 1..Last /\ Found(c) # NoFile
          /\ loaded'[c] = t
      BY <1>15, <2>1 DEF Parsed, TypeOK
    <2>3. \/ HasPartials /\ pc'[c] = "glob" /\ UNCHANGED at
          \/ ~HasPartials /\ pc'[c] = "stat"
      BY <1>4, <1>15 DEF Parsed
    <2>4. /\ Candidate(c) = idToPaths[at[c]] /\ Candidate(c) \in Candidates
          /\ Found(c) = disk[req[c]][Candidate(c)]
      BY <2>2, CandidateTypes
    <2>5. LockInv' /\ ServedInv'
      BY <1>1, <1>4, <1>7, <2>2 DEF LockInv, ServedInv, Loads
    <2>6. t.rev \notin gone
      BY <1>4, <2>1, <2>2, <2>4 DEF GoneInv
    <2>7. RevsInv'
      <3>1. pc'[c] = "stat" => UpToDate(t, gone)
        BY <2>3, <2>6 DEF UpToDate
      <3>2. QED
        BY <1>1, <1>4, <1>7, <2>2, <2>6, <3>1 DEF RevsInv, ReloadForcesReread
    <2>8. TornInv'
      BY <1>1, <1>6, <1>7, <2>3 DEF TornInv
    <2>9. Passed(at[c]) \subseteq MayBeMissed(req[c]) /\ Passed(at[c]) = Before(t.path)
      BY <2>1, <2>2, <2>4, Walks DEF HolesInv
    <2>10. Mine
      <3>1. UNCHANGED at => Candidate(c)' = Candidate(c)
        BY DEF Candidate, idToPaths
      <3>2. QED
        BY <2>1, <2>2, <2>3, <2>9, <3>1
    <2>11. HolesInv'
      <3> HIDE DEF Mine
      <3>1. QED
        BY <1>10, <2>2, <2>10 DEF HolesInv
    <2>12. QED
      BY <1>2, <2>5, <2>7, <2>8, <2>11
  <1>16. CASE Completed(c)
    <2>1. PICK t \in Template :
             /\ t.path = loaded[c].path /\ t.rev = loaded[c].rev /\ t.partial = FoundPartial(c).rev
             /\ loaded' = [loaded EXCEPT ![c] = t]
      BY <1>16 DEF Completed
    <2>2. /\ pc[c] = "partial" /\ pc' = [pc EXCEPT ![c] = "stat"]
          /\ UNCHANGED <<lock, cache, answer, served>>
          /\ FoundPartial(c) # NoFile /\ loaded'[c] = t /\ at[c] \in 1..Last
      BY <1>16, <2>1, Paths DEF Completed, TypeOK, Last
    <2>3. LockInv' /\ ServedInv'
      BY <1>1, <1>4, <2>2 DEF LockInv, ServedInv, Loads
    <2>4. UpToDate(t, gone)
      BY <2>1, <2>2, PartialTypes DEF UpToDate, RevsInv, GoneInv
    <2>5. RevsInv'
      BY <1>1, <1>4, <1>7, <2>2, <2>4 DEF RevsInv, ReloadForcesReread, UpToDate
    <2>6. TornInv'
      BY <1>1, <1>4, <1>6, <2>2 DEF TornInv
    <2>7. Before(t.path) \subseteq MayBeMissed(req[c])
      BY <2>1, <2>2, CandidateTypes, Walks DEF HolesInv
    <2>8. Mine
      BY <1>4, <2>2, <2>7
    <2>9. HolesInv'
      <3> HIDE DEF Mine
      <3>1. QED
        BY <1>10, <2>2, <2>8 DEF HolesInv
    <2>10. QED
      BY <1>2, <2>3, <2>5, <2>6, <2>9
  <1>17. CASE Stored(c)
    <2>1. PICK t \in Template :
             /\ t.path = loaded[c].path /\ t.rev = loaded[c].rev /\ t.partial = loaded[c].partial
             /\ cache' = [cache EXCEPT ![req[c]] = t]
             /\ Return(c, Ok(t))
      BY <1>17 DEF Stored
    <2>2. Ok(t).kind = "ok" /\ Ok(t).tpl = t
      BY Templates
    <2>3. /\ pc' = [pc EXCEPT ![c] = "idle"] /\ answer' = [answer EXCEPT ![c] = Ok(t)]
          /\ served' = [served EXCEPT ![req[c]] = @ \cup {t}]
          /\ pc[c] = "stat"
      BY <1>17, <2>1, <2>2 DEF Stored, Return
    <2>4. cache[req[c]] = NoEntry /\ served[req[c]] = {}
      <3>1. cache[req[c]] = NoEntry
        BY <2>3 DEF LockInv, Loads
      <3>2. QED
        BY <1>4, <3>1, NoEntryAssumption DEF ServedInv, TypeOK
    <2>5. \A d \in Callers \ {c} : pc[d] \notin Loads
      BY <2>3 DEF LockInv, Loads
    <2>6. LockInv'
      BY <1>4, <2>3, <2>5 DEF LockInv, Loads
    <2>7. ServedInv'
      BY <1>4, <2>1, <2>3, <2>4 DEF ServedInv, TypeOK
    <2>8. UpToDate(t, gone) /\ UpToDate(t, stale[c]) /\ Before(t.path) \subseteq MayBeMissed(req[c])
      <3>1. UpToDate(t, gone) /\ Before(t.path) \subseteq MayBeMissed(req[c])
        BY <2>1, <2>3 DEF RevsInv, HolesInv, UpToDate
      <3>2. QED
        BY <1>5, <3>1 DEF UpToDate
    <2>9. \A i \in Ids : cache'[i] = IF i = req[c] THEN t ELSE cache[i]
      BY <1>4, <2>1 DEF TypeOK
    <2>10. RevsInv'
      <3>1. \A i \in Ids : cache'[i] # NoEntry => UpToDate(cache'[i], gone)
        BY <2>8, <2>9 DEF RevsInv
      <3>2. ReloadForcesReread'
        BY <1>1, <1>4, <2>2, <2>3, <2>8 DEF RevsInv, ReloadForcesReread
      <3>3. QED
        BY <1>1, <1>4, <1>7, <2>3, <3>1, <3>2 DEF RevsInv
    <2>11. TornInv'
      BY <1>1, <1>4, <1>6, <2>3 DEF TornInv
    <2>12. HolesInv'
      BY <1>4, <1>10, <2>3, <2>8, <2>9 DEF HolesInv
    <2>13. QED
      BY <1>2, <2>6, <2>7, <2>10, <2>11, <2>12
  <1>18. StepOf(c)
    BY CallerSteps
  <1> HIDE DEF Mine, IInv
  <1>19. QED
    BY <1>2, <1>11, <1>12, <1>13, <1>14, <1>15, <1>16, <1>17, <1>18 DEF StepOf

LEMMA StepInv == IInv /\ [Next]_vars => IInv'
  <1> SUFFICES ASSUME IInv, [Next]_vars
               PROVE  IInv'
    OBVIOUS
  <1> USE DEF envVars, fileVars, regVars, callVars, histVars
  <1>1. TypeOK'
    BY StepTypeOK DEF IInv
  <1>2. ASSUME UNCHANGED <<disk, home, partial, torn, holes, cache, pc, at, loaded, req>>
        PROVE  TornInv' /\ HolesInv'
    <2>1. \A i \in Ids : Absent(i)' = Absent(i) /\ MayBeMissed(i)' = MayBeMissed(i)
      BY <1>2 DEF Absent, MayBeMissed, Candidates, idToPaths
    <2>2. \A c \in Callers : /\ FoundPartial(c)' = FoundPartial(c) /\ Candidate(c)' = Candidate(c)
                             /\ MayBeMissed(req[c])' = MayBeMissed(req[c])
      BY <1>2 DEF FoundPartial, Candidate, MayBeMissed, Candidates, idToPaths
    <2>3. TornInv'
      BY <1>2, <2>2 DEF TornInv, IInv
    <2>4. HolesInv'
      <3>1. \A i \in Ids : Absent(i)' \subseteq holes'[i] /\ holes'[i] \subseteq Candidates
        BY <1>2, <2>1 DEF HolesInv, IInv
      <3>2. \A i \in Ids : cache'[i] # NoEntry => Before(cache'[i].path) \subseteq MayBeMissed(i)'
        BY <1>2, <2>1 DEF HolesInv, IInv
      <3>3. \A c \in Callers :
              /\ pc'[c] \in {"parse", "glob", "partial"} => Passed(at'[c]) \subseteq MayBeMissed(req[c])'
              /\ pc'[c] \in {"glob", "partial"} => loaded'[c].path = Candidate(c)'
              /\ pc'[c] = "stat" => Before(loaded'[c].path) \subseteq MayBeMissed(req[c])'
        BY <1>2, <2>2 DEF HolesInv, IInv
      <3>4. QED
        BY <3>1, <3>2, <3>3 DEF HolesInv
    <2>5. QED
      BY <2>3, <2>4
  <1>3. CASE UNCHANGED vars
    <2>1. LockInv' /\ ServedInv' /\ GoneInv' /\ RevsInv'
      BY <1>3 DEF vars, IInv, LockInv, ServedInv, GoneInv, RevsInv, ReloadForcesReread
    <2>2. TornInv' /\ HolesInv'
      BY <1>2, <1>3 DEF vars
    <2>3. QED
      BY <1>1, <2>1, <2>2 DEF IInv
  <1>4. ASSUME NEW c \in Callers, NEW i \in Ids, Call(c, i)
        PROVE  IInv'
    <2>1. Fail("none").kind # "ok"
      BY Templates DEF Kinds
    <2>2. LockInv' /\ ServedInv'
      BY <1>4 DEF Call, IInv, TypeOK, LockInv, ServedInv, Loads
    <2>3. GoneInv'
      BY <1>4 DEF Call, IInv, TypeOK, GoneInv
    <2>4. RevsInv'
      BY <1>4, <2>1 DEF Call, IInv, TypeOK, RevsInv, ReloadForcesReread
    <2>5. \A d \in Callers : pc'[d] # "rlock" => pc'[d] = pc[d] /\ req'[d] = req[d]
      BY <1>4 DEF Call, IInv, TypeOK
    <2>6. TornInv'
      BY <1>4, <2>5 DEF Call, IInv, TornInv, FoundPartial
    <2>7. HolesInv'
      <3>1. \A j \in Ids : Absent(j)' = Absent(j) /\ MayBeMissed(j)' = MayBeMissed(j)
        BY <1>4 DEF Call, Absent, MayBeMissed, Candidates, idToPaths
      <3>2. \A d \in Callers : Candidate(d)' = Candidate(d) /\ at'[d] = at[d] /\ loaded'[d] = loaded[d]
        BY <1>4 DEF Call, Candidate, idToPaths
      <3>3. UNCHANGED <<cache, holes>>
        BY <1>4 DEF Call
      <3>4. ASSUME NEW d \in Callers, pc'[d] # "rlock"
            PROVE  /\ pc'[d] = pc[d] /\ MayBeMissed(req[d])' = MayBeMissed(req[d])
        <4>1. req'[d] = req[d] /\ pc'[d] = pc[d]
          BY <2>5, <3>4
        <4>2. UNCHANGED <<home, torn, holes>>
          BY <1>4 DEF Call
        <4>3. QED
          BY <4>1, <4>2 DEF MayBeMissed
      <3>5. \A j \in Ids : Absent(j)' \subseteq holes'[j] /\ holes'[j] \subseteq Candidates
        BY <3>1, <3>3 DEF HolesInv, IInv
      <3>6. \A j \in Ids : cache'[j] # NoEntry => Before(cache'[j].path) \subseteq MayBeMissed(j)'
        BY <3>1, <3>3 DEF HolesInv, IInv
      <3>7. \A d \in Callers :
              /\ pc'[d] \in {"parse", "glob", "partial"} => Passed(at'[d]) \subseteq MayBeMissed(req[d])'
              /\ pc'[d] \in {"glob", "partial"} => loaded'[d].path = Candidate(d)'
              /\ pc'[d] = "stat" => Before(loaded'[d].path) \subseteq MayBeMissed(req[d])'
        BY <3>2, <3>4 DEF HolesInv, IInv
      <3>8. QED
        BY <3>5, <3>6, <3>7 DEF HolesInv
    <2>8. QED
      BY <1>1, <2>2, <2>3, <2>4, <2>6, <2>7 DEF IInv
  <1>5. ASSUME NEW c \in Callers, CancelCtx(c)
        PROVE  IInv'
    <2>1. LockInv' /\ ServedInv' /\ GoneInv' /\ RevsInv'
      BY <1>5 DEF CancelCtx, IInv, LockInv, ServedInv, GoneInv, RevsInv, ReloadForcesReread
    <2>2. TornInv' /\ HolesInv'
      BY <1>2, <1>5 DEF CancelCtx
    <2>3. QED
      BY <1>1, <2>1, <2>2 DEF IInv
  <1>6. ASSUME NEW c \in Callers, CallerStep(c)
        PROVE  IInv'
    BY <1>1, <1>6, CallerInv DEF IInv
  <1>7. CASE Reload
    <2>1. \A c \in Callers : pc[c] \notin Loads
      BY <1>7, NoCallerAssumption DEF Reload, IInv, LockInv
    <2>2. gone \subseteq gone'
      <3>1. GoneInv
        BY DEF IInv
      <3>2. ASSUME NEW r \in gone
            PROVE  r \in 0..writes /\ r \notin OnDisk
        <4>1. r \in 0..writes
          BY <3>1 DEF GoneInv
        <4>2. \A i \in Ids, p \in Candidates : disk[i][p] # NoFile => disk[i][p].rev # r
          BY <3>1 DEF GoneInv
        <4>3. \A d \in Dirs : partial[d] # NoFile => partial[d].rev # r
          BY <3>1 DEF GoneInv
        <4>4. QED
          BY <4>1, <4>2, <4>3 DEF OnDisk, Absent
      <3>3. QED
        BY <1>7, <3>2 DEF Reload, ClearCache
    <2>3. GoneInv'
      <3>1. \A i \in Ids, p \in Candidates : disk[i][p] # NoFile => disk[i][p].rev \in OnDisk
        BY DEF OnDisk, Absent
      <3>2. \A d \in Dirs : partial[d] # NoFile => partial[d].rev \in OnDisk
        BY DEF OnDisk
      <3>3. QED
        BY <1>7, <2>2, <3>1, <3>2 DEF Reload, ClearCache, IInv, GoneInv
    <2>4. LockInv' /\ ServedInv'
      BY <1>7, <2>1 DEF Reload, ClearCache, LockInv, ServedInv, IInv, TypeOK
    <2>5. RevsInv'
      BY <1>7, <2>1 DEF Reload, ClearCache, IInv, RevsInv, ReloadForcesReread, Loads
    <2>6. TornInv'
      BY <1>7, <2>1 DEF Reload, ClearCache, TornInv, Loads
    <2>7. HolesInv'
      BY <1>7, <2>1 DEF Reload, ClearCache, HolesInv, Absent, Loads
    <2>8. QED
      BY <1>1, <2>3, <2>4, <2>5, <2>6, <2>7 DEF IInv
  <1>8. ASSUME NEW i \in Ids, NEW p \in Candidates, NEW content \in Contents,
               Write(i, p, content)
        PROVE  IInv'
    <2>1. /\ writes \in Nat /\ writes' = writes + 1
          /\ UNCHANGED <<home, partial, regVars, callVars, histVars>>
          /\ disk' = [disk EXCEPT ![i][p] = [rev |-> writes + 1, content |-> content]]
      BY <1>8 DEF Write, IInv, TypeOK
    <2>2. \A j \in Ids, q \in Candidates :
             disk'[j][q] = IF j = i /\ q = p THEN [rev |-> writes + 1, content |-> content]
                           ELSE disk[j][q]
      BY <2>1 DEF IInv, TypeOK
    <2>3. GoneInv'
      BY <2>1, <2>2 DEF IInv, GoneInv
    <2>4. [rev |-> writes + 1, content |-> content] # NoFile
      BY <2>1, NoFileAssumption DEF File
    <2>5. \A j \in Ids : Absent(j)' \subseteq Absent(j)
      BY <2>2, <2>4 DEF Absent
    <2>6. HolesInv'
      <3>1. \A j \in Ids : MayBeMissed(j)' = MayBeMissed(j)
        BY <2>1 DEF MayBeMissed
      <3>2. \A d \in Callers : Candidate(d)' = Candidate(d) /\ MayBeMissed(req[d])' = MayBeMissed(req[d])
        BY <2>1 DEF Candidate, MayBeMissed
      <3>3. QED
        BY <2>1, <2>5, <3>1, <3>2 DEF IInv, HolesInv
    <2>7. TornInv'
      BY <2>1 DEF IInv, TornInv, FoundPartial
    <2>8. LockInv' /\ ServedInv' /\ RevsInv'
      BY <2>1 DEF IInv, LockInv, ServedInv, RevsInv, ReloadForcesReread
    <2>9. QED
      BY <1>1, <2>3, <2>6, <2>7, <2>8 DEF IInv
  <1>9. ASSUME NEW i \in Ids, NEW p \in Candidates, Remove(i, p)
        PROVE  IInv'
    <2>1. /\ disk' = [disk EXCEPT ![i][p] = NoFile]
          /\ holes' = [holes EXCEPT ![i] = @ \cup {p}]
          /\ UNCHANGED <<home, partial, writes, regVars, callVars, served, torn, gone, stale>>
      BY <1>9 DEF Remove
    <2>2. \A j \in Ids, q \in Candidates :
             disk'[j][q] = IF j = i /\ q = p THEN NoFile ELSE disk[j][q]
      BY <2>1 DEF IInv, TypeOK
    <2>3. GoneInv'
      BY <2>1, <2>2 DEF IInv, GoneInv
    <2>4. \A j \in Ids : holes'[j] = IF j = i THEN holes[j] \cup {p} ELSE holes[j]
      BY <2>1 DEF IInv, TypeOK
    <2>5. \A j \in Ids : Absent(j)' \subseteq IF j = i THEN Absent(j) \cup {p} ELSE Absent(j)
      BY <2>2 DEF Absent
    <2>6. \A c \in Callers : req[c] \in Ids
      BY DEF IInv, TypeOK
    <2>7. \A j \in Ids : holes[j] \subseteq holes'[j] /\ holes'[j] \subseteq Candidates
      BY <2>4 DEF IInv, HolesInv
    <2>8. \A j \in Ids : MayBeMissed(j) \subseteq MayBeMissed(j)'
      BY <2>1, <2>7, MissedGrows DEF IInv, HolesInv
    <2>9. \A c \in Callers : Candidate(c)' = Candidate(c)
      BY <2>1 DEF Candidate
    <2>10. HolesInv'
      <3>1. \A j \in Ids : Absent(j)' \subseteq holes'[j]
        BY <2>4, <2>5 DEF IInv, HolesInv
      <3>2. \A j \in Ids : cache'[j] # NoEntry => Before(cache'[j].path) \subseteq MayBeMissed(j)'
        BY <2>1, <2>8 DEF IInv, HolesInv
      <3>3. \A c \in Callers : MayBeMissed(req[c]) \subseteq MayBeMissed(req[c])'
        BY <2>1, <2>4, <2>6, <2>7 DEF MayBeMissed, IInv, HolesInv
      <3>4. QED
        BY <2>1, <2>7, <2>9, <3>1, <3>2, <3>3 DEF IInv, HolesInv
    <2>11. TornInv'
      BY <2>1 DEF IInv, TornInv, FoundPartial
    <2>12. LockInv' /\ ServedInv' /\ RevsInv'
      BY <2>1 DEF IInv, LockInv, ServedInv, RevsInv, ReloadForcesReread
    <2>13. QED
      BY <1>1, <2>3, <2>10, <2>11, <2>12 DEF IInv
  <1>10. ASSUME NEW d \in Dirs, HasPartials, torn \subseteq torn',
                UNCHANGED <<disk, home, holes, cache, pc, req, at, loaded>>,
                \A e \in Dirs : partial'[e] = partial[e] \/ (e = d /\ partial'[e] # NoFile) \/ e \in torn',
                \A e \in Dirs : Dangling(partial'[e]) => e \in torn'
         PROVE  TornInv' /\ HolesInv'
    <2>1. \A c \in Callers : home[req[c]] \in Dirs
      BY DEF IInv, TypeOK
    <2>2. \A c \in Callers : FoundPartial(c)' = partial'[home[req[c]]]
      BY <1>10 DEF FoundPartial
    <2>3. TornInv'
      BY <1>10, <2>1, <2>2 DEF IInv, TornInv, FoundPartial, Dangling
    <2>4. \A i \in Ids : Absent(i)' = Absent(i) /\ MayBeMissed(i) \subseteq MayBeMissed(i)'
      BY <1>10, MissedGrows DEF IInv, HolesInv, Absent
    <2>5. \A c \in Callers : MayBeMissed(req[c]) \subseteq MayBeMissed(req[c])'
      <3>1. \A c \in Callers : req[c] \in Ids /\ holes[req[c]] \subseteq Candidates
        BY DEF IInv, TypeOK, HolesInv
      <3>2. QED
        BY <1>10, <3>1 DEF MayBeMissed
    <2>6. \A c \in Callers : Candidate(c)' = Candidate(c)
      BY <1>10 DEF Candidate
    <2>7. HolesInv'
      BY <1>10, <2>4, <2>5, <2>6 DEF IInv, HolesInv
    <2>8. QED
      BY <2>3, <2>7
  <1>11. ASSUME NEW d \in Read, NEW content \in PartialContents, WritePartial(d, content)
         PROVE  IInv'
    <2>1. /\ writes \in Nat /\ writes' = writes + 1 /\ HasPartials /\ d \in Dirs
          /\ UNCHANGED <<disk, home, regVars, callVars, holes, served, gone, stale>>
          /\ partial' = [partial EXCEPT ![d] = [rev |-> writes + 1, content |-> content]]
          /\ torn' = IF content = "dangling" THEN torn \cup {d} ELSE torn
      BY <1>11 DEF WritePartial, IInv, TypeOK, Read
    <2>2. \A e \in Dirs : partial'[e] = IF e = d THEN [rev |-> writes + 1, content |-> content]
                                        ELSE partial[e]
      BY <2>1 DEF IInv, TypeOK
    <2>3. GoneInv'
      BY <2>1, <2>2 DEF IInv, GoneInv
    <2>4. [rev |-> writes + 1, content |-> content] # NoFile
      BY <2>1, NoFileAssumption DEF Partial
    <2>5. TornInv' /\ HolesInv'
      <3>1. \A e \in Dirs : partial'[e] = partial[e] \/ (e = d /\ partial'[e] # NoFile) \/ e \in torn'
        BY <2>2, <2>4
      <3>2. \A e \in Dirs : Dangling(partial'[e]) => e \in torn'
        BY <2>1, <2>2 DEF Dangling, IInv, TornInv
      <3>3. QED
        BY <1>10, <2>1, <3>1, <3>2
    <2>6. LockInv' /\ ServedInv' /\ RevsInv'
      BY <2>1 DEF IInv, LockInv, ServedInv, RevsInv, ReloadForcesReread
    <2>7. QED
      BY <1>1, <2>3, <2>5, <2>6 DEF IInv
  <1>12. ASSUME NEW d \in Read, RemovePartial(d)
         PROVE  IInv'
    <2>1. /\ HasPartials /\ d \in Dirs
          /\ UNCHANGED <<disk, home, writes, regVars, callVars, holes, served, gone, stale>>
          /\ partial' = [partial EXCEPT ![d] = NoFile]
          /\ torn' = torn \cup {d}
      BY <1>12 DEF RemovePartial, IInv, TypeOK, Read
    <2>2. \A e \in Dirs : partial'[e] = IF e = d THEN NoFile ELSE partial[e]
      BY <2>1 DEF IInv, TypeOK
    <2>3. GoneInv'
      BY <2>1, <2>2 DEF IInv, GoneInv
    <2>4. TornInv' /\ HolesInv'
      <3>1. \A e \in Dirs : partial'[e] = partial[e] \/ (e = d /\ partial'[e] # NoFile) \/ e \in torn'
        BY <2>1, <2>2
      <3>2. \A e \in Dirs : Dangling(partial'[e]) => e \in torn'
        BY <2>1, <2>2 DEF Dangling, IInv, TornInv
      <3>3. QED
        BY <1>10, <2>1, <3>1, <3>2
    <2>5. LockInv' /\ ServedInv' /\ RevsInv'
      BY <2>1 DEF IInv, LockInv, ServedInv, RevsInv, ReloadForcesReread
    <2>6. QED
      BY <1>1, <2>3, <2>4, <2>5 DEF IInv
  <1>13. QED
    BY <1>3, <1>4, <1>5, <1>6, <1>7, <1>8, <1>9, <1>11, <1>12 DEF Next, FilesChange

THEOREM Invariant == Spec => []IInv
  BY InitInv, StepInv, PTL DEF Spec

(***************************************************************************)
(* Between two Reloads all calls for an id return the same template: what  *)
(* was returned is what is cached (ServedInv).                             *)
(***************************************************************************)
THEOREM TemplatesAreStable == Spec => []OneTemplatePerReload
  <1>1. IInv => OneTemplatePerReload
    BY DEF IInv, ServedInv, OneTemplatePerReload
  <1>2. QED
    BY <1>1, Invariant, PTL

(***************************************************************************)
(* A call begun after a Reload returns no file that was gone by then.      *)
(***************************************************************************)
THEOREM ReloadTakesEffect == Spec => []ReloadForcesReread
  <1>1. IInv => ReloadForcesReread
    BY DEF IInv, RevsInv
  <1>2. QED
    BY <1>1, Invariant, PTL

LEMMA StepPassesOver ==
    IInv /\ [Next]_vars =>
        [\A c \in Callers :
            answer'[c] # answer[c] => PassedOver(answer'[c]) \subseteq MayBeMissed(req[c])]_vars
  <1> SUFFICES ASSUME IInv, Next, NEW c \in Callers, answer'[c] # answer[c]
               PROVE  PassedOver(answer'[c]) \subseteq MayBeMissed(req[c])
    OBVIOUS
  <1>1. ASSUME NEW d \in Callers, NEW i \in Ids, Call(d, i)
        PROVE  PassedOver(answer'[c]) \subseteq MayBeMissed(req[c])
    <2>1. answer'[c] = Fail("none") /\ Fail("none").kind = "none"
      BY <1>1, Templates DEF Call, IInv, TypeOK, Kinds
    <2>2. QED
      BY <2>1 DEF PassedOver
  <1>2. ASSUME NEW d \in Callers, CallerStep(d)
        PROVE  PassedOver(answer'[c]) \subseteq MayBeMissed(req[c])
    <2>1. CASE Hit(d)
      <3>1. /\ cache[req[d]] \in Template /\ Ok(cache[req[d]]).kind = "ok"
            /\ Ok(cache[req[d]]).tpl = cache[req[d]]
        BY <2>1, Templates DEF Hit, IInv, TypeOK
      <3>2. d = c /\ answer'[c] = Ok(cache[req[c]]) /\ cache[req[c]] # NoEntry
        BY <2>1 DEF Hit, Return, IInv, TypeOK
      <3>3. QED
        BY <3>1, <3>2 DEF PassedOver, IInv, HolesInv, TypeOK
    <2>2. ASSUME NEW k \in Kinds \ {"ok"}, Refused(d, k)
          PROVE  PassedOver(answer'[c]) \subseteq MayBeMissed(req[c])
      <3>1. d = c /\ answer'[c] = Fail(k) /\ Fail(k).kind = k
        BY <2>2, Templates DEF Refused, Return, IInv, TypeOK
      <3>2. k = "notfound" => Candidates \subseteq MayBeMissed(req[c])
        BY <2>2, <3>1, Walks DEF Refused, IInv, HolesInv
      <3>3. QED
        BY <3>1, <3>2 DEF PassedOver
    <2>3. CASE Skipped(d) \/ Parsed(d) \/ Completed(d) \/ \E l \in PCs : Moved(d, l)
      BY <2>3 DEF Skipped, Parsed, Completed, Moved
    <2>4. CASE Stored(d)
      <3>1. PICK t \in Template : t.path = loaded[d].path /\ Return(d, Ok(t))
        BY <2>4 DEF Stored
      <3>2. Ok(t).kind = "ok" /\ Ok(t).tpl = t
        BY Templates
      <3>3. d = c /\ answer'[c] = Ok(t) /\ pc[c] = "stat"
        BY <2>4, <3>1 DEF Return, Stored, IInv, TypeOK
      <3>4. QED
        BY <3>1, <3>2, <3>3 DEF PassedOver, IInv, HolesInv
    <2>5. StepOf(d)
      BY <1>2, CallerSteps DEF IInv
    <2>6. QED
      BY <2>1, <2>2, <2>3, <2>4, <2>5 DEF StepOf
  <1>3. CASE UNCHANGED answer
    BY <1>3
  <1>4. ASSUME ~UNCHANGED answer
        PROVE  \E d \in Callers : (\E i \in Ids : Call(d, i)) \/ CallerStep(d)
    BY <1>4 DEF Next, FilesChange, CancelCtx, Reload, ClearCache, Write, Remove, WritePartial,
                RemovePartial, callVars
  <1>5. QED
    BY <1>1, <1>2, <1>3, <1>4

(***************************************************************************)
(* A candidate is passed over only when, since the last Reload, it has     *)
(* been absent or a partial listed for it could not be opened.             *)
(***************************************************************************)
THEOREM PassedOverOnlyAbsent == Spec => PassedOverWereAbsent
  BY Invariant, StepPassesOver, PTL DEF Spec, PassedOverWereAbsent

(***************************************************************************)
(* The embedded registry                                                   *)
(***************************************************************************)

\* A set of numbers has a least element, and if bounded a greatest.
LEMMA LeastElement ==
    ASSUME NEW T \in SUBSET Nat, T # {}
    PROVE  \E x \in T : \A y \in T : x <= y
<1> DEFINE R == {ss \in Nat \X Nat : ss[1] < ss[2]}
<1>1. IsWellFoundedOn(R, Nat)
  BY NatLessThanWellFounded DEF OpToRel
<1>2. PICK x \in T : \A y \in T : ~(<<y, x>> \in R)
  <2> HIDE DEF R
  <2> QED
    BY <1>1, WFMin
<1>3. \A y \in T : ~(y < x)
  BY <1>2
<1> QED
  BY <1>3

LEMMA MinIsLeast ==
    ASSUME NEW T \in SUBSET Nat, T # {}
    PROVE  Min(T) \in T /\ \A y \in T : Min(T) <= y
  BY LeastElement, Zenon DEF Min

LEMMA MaxIsGreatest ==
    ASSUME NEW n \in Nat, NEW T \in SUBSET (0..n), T # {}
    PROVE  Max(T) \in T /\ \A y \in T : Max(T) >= y
<1> DEFINE D == {n - x : x \in T}
<1>1. D \in SUBSET Nat /\ D # {}
  <2>1. \A x \in T : n - x \in Nat
    OBVIOUS
  <2> QED
    BY <2>1, Zenon
<1>2. PICK d \in D : \A y \in D : d <= y
  <2> HIDE DEF D
  <2> QED
    BY <1>1, LeastElement
<1>3. PICK x \in T : d = n - x
  OBVIOUS
<1>4. \A y \in T : n - x <= n - y
  BY <1>2, <1>3
<1>5. \A y \in T : x >= y
  BY <1>4
<1> QED
  BY <1>5, Zenon DEF Max

\* The candidates are the files of the environment, if there is one, and then
\* the base files, one for each extension.
LEMMA Order ==
    /\ \A p \in Path : p \in Candidates <=> (p.env => HasEnv)
    /\ \A p \in Candidates : p \in Path
    /\ \A k \in 1..Last, p \in Candidates :
          p.env /\ ~idToPaths[k].env => p \in Passed(k)
  <1> DEFINE A == [k \in 1..Len(Exts) |-> [env |-> TRUE, ext |-> Exts[k]]]
             B == [k \in 1..Len(Exts) |-> [env |-> FALSE, ext |-> Exts[k]]]
             N == Len(Exts)
  <1>1. N \in Nat /\ N > 0
    BY ExtsAssumption
  <1>2. A \in [1..N -> Path] /\ B \in [1..N -> Path]
    BY DEF Path
  <1>3. ASSUME NEW p \in Path
        PROVE  \E k \in 1..N : p = IF p.env THEN A[k] ELSE B[k]
    BY DEF Path
  <1>4. \A k \in 1..N : A[k].env /\ ~B[k].env
    OBVIOUS
  <1>5. idToPaths = (IF HasEnv THEN A ELSE <<>>) \o B
    BY DEF idToPaths
  <1> HIDE DEF A, B, N
  <1>6. /\ A \in Seq(Path) /\ Len(A) = N
        /\ B \in Seq(Path) /\ Len(B) = N
    <2>1. ASSUME NEW f \in [1..N -> Path]
          PROVE  f \in Seq(Path) /\ Len(f) = N
      <3>1. f \in Seq(Path)
        BY <1>1, SeqDef
      <3>2. Len(f) \in Nat /\ 1..Len(f) = 1..N
        BY <3>1, LenProperties
      <3>3. QED
        BY <1>1, <3>1, <3>2
    <2>2. QED
      BY <1>2, <2>1
  <1>7. \A p \in Candidates : p \in Path
    BY Paths DEF Candidates, Last
  <1>8. CASE HasEnv
    <2>1. /\ Last = N + N
          /\ \A k \in 1..Last : idToPaths[k] = IF k <= N THEN A[k] ELSE B[k - N]
      <3>1. idToPaths = A \o B
        BY <1>5, <1>8
      <3>2. /\ Len(A \o B) = Len(A) + Len(B)
            /\ \A k \in 1..(Len(A) + Len(B)) :
                  (A \o B)[k] = IF k <= Len(A) THEN A[k] ELSE B[k - Len(A)]
        BY <1>6, ConcatProperties, Zenon
      <3>3. QED
        BY <1>6, <3>1, <3>2 DEF Last
    <2>2. ASSUME NEW p \in Path
          PROVE  p \in Candidates
      <3>1. PICK k \in 1..N : p = IF p.env THEN A[k] ELSE B[k]
        BY <1>3
      <3>2. CASE p.env
        <4>1. k \in 1..Last /\ idToPaths[k] = p
          BY <1>1, <2>1, <3>1, <3>2
        <4>2. QED
          BY <4>1 DEF Candidates, Last
      <3>3. CASE ~p.env
        <4>1. k + N \in 1..Last /\ idToPaths[k + N] = p
          BY <1>1, <2>1, <3>1, <3>3
        <4>2. QED
          BY <4>1 DEF Candidates, Last
      <3>4. QED
        BY <3>2, <3>3
    <2>3. ASSUME NEW k \in 1..Last, NEW p \in Candidates, p.env, ~idToPaths[k].env
          PROVE  p \in Passed(k)
      <3>1. PICK j \in 1..Last : idToPaths[j] = p
        BY DEF Candidates, Last
      <3>2. j <= N
        <4>1. ASSUME j > N
              PROVE  FALSE
          <5>1. j - N \in 1..N /\ idToPaths[j] = B[j - N]
            BY <1>1, <2>1, <4>1
          <5>2. QED
            BY <1>4, <2>3, <3>1, <5>1
        <4>2. QED
          BY <1>1, <2>1, <4>1
      <3>3. k > N
        <4>1. ASSUME k <= N
              PROVE  FALSE
          <5>1. k \in 1..N /\ idToPaths[k] = A[k]
            BY <1>1, <2>1, <4>1
          <5>2. QED
            BY <1>4, <2>3, <5>1
        <4>2. QED
          BY <1>1, <2>1, <4>1
      <3>4. j \in 1..(k - 1)
        BY <1>1, <2>1, <3>2, <3>3
      <3>5. QED
        BY <3>1, <3>4 DEF Passed
    <2>4. QED
      BY <1>7, <1>8, <2>2, <2>3
  <1>9. CASE ~HasEnv
    <2>1. idToPaths = B /\ Last = N
      <3>1. idToPaths = B
        BY <1>5, <1>6, <1>9, ConcatEmptySeq
      <3>2. QED
        BY <1>6, <3>1 DEF Last
    <2>2. \A p \in Candidates : ~p.env
      BY <1>4, <2>1 DEF Candidates, Last
    <2>3. ASSUME NEW p \in Path, ~p.env
          PROVE  p \in Candidates
      <3>1. PICK k \in 1..N : p = B[k]
        BY <1>3, <2>3
      <3>2. QED
        BY <2>1, <3>1 DEF Candidates, Last
    <2>4. QED
      BY <1>7, <1>9, <2>2, <2>3
  <1>10. QED
    BY <1>8, <1>9

\* The candidates of an environment, or of none, that New parses.
PresentFor(i, env) == {p \in Embedded(i) : p.env = env}

\* The walk comes to each of them.
LEMMA WalkFinds ==
    ASSUME NEW i \in Ids, NEW env \in BOOLEAN
    PROVE  PresentFor(i, env) = {FileAt(env, k) : k \in Manifests(i, env)}
  <1>1. ASSUME NEW p \in PresentFor(i, env)
        PROVE  \E k \in Manifests(i, env) : p = FileAt(env, k)
    <2>1. p \in Path /\ p.env = env /\ p \in Embedded(i)
      BY Order DEF PresentFor, Embedded
    <2>2. p.ext \in {Walked[k] : k \in 1..Len(Walked)}
      BY <2>1, WalkedAssumption DEF Path
    <2>3. PICK k \in 1..Len(Walked) : p.ext = Walked[k]
      BY <2>2
    <2>4. p = FileAt(env, k)
      BY <2>1, <2>3 DEF Path, FileAt
    <2>5. QED
      BY <2>1, <2>4 DEF Manifests
  <1>2. ASSUME NEW k \in Manifests(i, env)
        PROVE  FileAt(env, k) \in PresentFor(i, env)
    BY DEF Manifests, PresentFor, FileAt
  <1>3. QED
    BY <1>1, <1>2

\* What New caches under an id is read from one of them, if there is any.
RootPartial == IF HasPartials THEN partial[Root].rev ELSE 0

LEMMA EntryIs ==
    ASSUME TypeOK, ~NewFails, NEW i \in Ids, NEW env \in BOOLEAN
    PROVE  /\ PresentFor(i, env) = {} => Entry(i, env) = NoEntry
           /\ PresentFor(i, env) # {} =>
                 /\ Entry(i, env) \in Template
                 /\ Entry(i, env).path \in PresentFor(i, env)
                 /\ Entry(i, env).rev = disk[i][Entry(i, env).path].rev
                 /\ Entry(i, env).partial = RootPartial
  <1>1. CASE PresentFor(i, env) = {}
    <2>1. Manifests(i, env) = {}
      BY <1>1, WalkFinds
    <2>2. QED
      BY <1>1, <2>1 DEF Entry
  <1>2. CASE PresentFor(i, env) # {}
    <2> DEFINE M == Manifests(i, env)
               p == FileAt(env, Max(M))
               f == disk[i][p]
               e == [path |-> p, rev |-> f.rev, partial |-> RootPartial,
                     version |-> IF f.content = "versioned" THEN OwnVersion ELSE NoVersion]
    <2>1. M # {}
      BY <1>2, WalkFinds
    <2>2. Entry(i, env) = e
      BY <2>1 DEF Entry, RootPartial
    <2>3. Len(Walked) \in Nat /\ M \in SUBSET (0..Len(Walked))
      BY WalkedAssumption DEF Manifests
    <2>4. Max(M) \in M
      <3> HIDE DEF M
      <3>1. QED
        BY <2>1, <2>3, MaxIsGreatest
    <2> HIDE DEF M
    <2>5. p \in PresentFor(i, env)
      BY <2>4, WalkFinds DEF M
    <2> HIDE DEF p
    <2>6. p \in Candidates /\ p \in Path /\ f # NoFile /\ p \in Embedded(i)
      BY <2>5, Order DEF PresentFor, Embedded, Absent
    <2>7. f \in File
      BY <2>6 DEF TypeOK
    <2>8. f.rev \in Nat
      BY <2>7 DEF File
    <2>9. RootPartial \in Nat
      <3>1. HasPartials => ~Skippable(partial[Root])
        BY <2>6 DEF NewFails
      <3>2. HasPartials => partial[Root] \in Partial
        BY <3>1, PartialsAssumption DEF TypeOK, Skippable
      <3>3. QED
        BY <3>2 DEF RootPartial, Partial
    <2>10. e \in Template /\ e.path = p /\ e.rev = f.rev /\ e.partial = RootPartial
      BY <2>6, <2>8, <2>9 DEF Template, OwnVersion, NoVersion
    <2>11. QED
      BY <1>2, <2>2, <2>5, <2>10
  <1>3. QED
    BY <1>1, <1>2

\* What the embedded registry serves, and with which version.
Serves(i, env) ==
    LET e == Entry(i, env)
        a == EmbedGetTemplate(i)
    IN  /\ a.kind = "ok"
        /\ a.tpl.path = e.path /\ a.tpl.rev = e.rev /\ a.tpl.partial = e.partial
        /\ a.tpl.version = NoVersion => env \/ BuildVersion = NoVersion

LEMMA ServesWhat ==
    ASSUME TypeOK, ~NewFails, NEW i \in Ids, NEW env \in BOOLEAN, PresentFor(i, env) # {},
           EmbedGetTemplate(i) = Ok(WithVersion(Entry(i, env), StatVersion(env)))
    PROVE  Serves(i, env)
  <1> DEFINE e == Entry(i, env)
             v == StatVersion(env)
             t == WithVersion(e, v)
  <1>1. e \in Template
    BY EntryIs
  <1> HIDE DEF e
  <1>2. t.path = e.path /\ t.rev = e.rev /\ t.partial = e.partial
    BY <1>1 DEF WithVersion, Template
  <1>3. t.version = NoVersion => v = NoVersion
    BY <1>1 DEF WithVersion, Template
  <1>4. v = NoVersion => env \/ BuildVersion = NoVersion
    BY DEF StatVersion
  <1> HIDE DEF v, t
  <1>5. EmbedGetTemplate(i) = Ok(t)
    BY DEF e, v, t
  <1>6. EmbedGetTemplate(i).kind = "ok" /\ EmbedGetTemplate(i).tpl = t
    BY <1>5 DEF Ok
  <1>7. QED
    BY <1>2, <1>3, <1>4, <1>6 DEF Serves, e

\* The environment's file comes first.
LEMMA EmbedGets ==
    ASSUME TypeOK, ~NewFails, NEW i \in Ids
    PROVE  /\ PresentFor(i, TRUE) # {} => HasEnv /\ Serves(i, TRUE)
           /\ PresentFor(i, TRUE) = {} /\ PresentFor(i, FALSE) # {} => Serves(i, FALSE)
           /\ PresentFor(i, TRUE) = {} /\ PresentFor(i, FALSE) = {} =>
                 EmbedGetTemplate(i).kind = "notfound"
  <1> DEFINE cached == {k \in 1..Len(candidateIDs) : Entry(i, candidateIDs[k]) # NoEntry}
             env    == candidateIDs[Min(cached)]
  <1>1. \A b \in BOOLEAN : Entry(i, b) # NoEntry <=> PresentFor(i, b) # {}
    BY EntryIs, NoEntryAssumption
  <1>2. EmbedGetTemplate(i) = IF cached = {} THEN Fail("notfound")
                              ELSE Ok(WithVersion(Entry(i, env), StatVersion(env)))
    BY DEF EmbedGetTemplate
  <1>3. PresentFor(i, TRUE) # {} => HasEnv
    BY Order DEF PresentFor, Embedded
  <1>4. /\ Len(candidateIDs) = IF HasEnv THEN 2 ELSE 1
        /\ candidateIDs[1] = HasEnv
        /\ HasEnv => candidateIDs[2] = FALSE
    BY EnvAssumption DEF candidateIDs
  <1>5. \A k \in cached : k \in 1..2 /\ Entry(i, candidateIDs[k]) # NoEntry
    BY <1>4
  <1>6. \A k : k \in cached <=> k \in 1..Len(candidateIDs) /\ Entry(i, candidateIDs[k]) # NoEntry
    OBVIOUS
  <1>7. /\ 1 \in cached <=> PresentFor(i, HasEnv) # {}
        /\ HasEnv => (2 \in cached <=> PresentFor(i, FALSE) # {})
        /\ ~HasEnv => 2 \notin cached
    <2>1. CASE HasEnv
      <3>1. Len(candidateIDs) = 2 /\ candidateIDs[1] = TRUE /\ candidateIDs[2] = FALSE
        BY <2>1 DEF candidateIDs
      <3>2. HasEnv = TRUE
        BY <2>1, EnvAssumption
      <3>3. /\ 1 \in cached <=> Entry(i, TRUE) # NoEntry
            /\ 2 \in cached <=> Entry(i, FALSE) # NoEntry
        <4> HIDE DEF cached
        <4>1. 1 \in 1..Len(candidateIDs) /\ 2 \in 1..Len(candidateIDs)
          BY <3>1
        <4>2. QED
          BY <1>6, <3>1, <4>1, Zenon
      <3>4. QED
        BY <1>1, <2>1, <3>2, <3>3
    <2>2. CASE ~HasEnv
      <3>1. Len(candidateIDs) = 1 /\ candidateIDs[1] = FALSE
        BY <2>2 DEF candidateIDs
      <3>2. HasEnv = FALSE
        BY <2>2, EnvAssumption
      <3>3. 2 \notin cached /\ (1 \in cached <=> Entry(i, FALSE) # NoEntry)
        <4> HIDE DEF cached
        <4>1. 1 \in 1..Len(candidateIDs) /\ 2 \notin 1..Len(candidateIDs)
          BY <3>1
        <4>2. QED
          BY <1>6, <3>1, <4>1, Zenon
      <3>4. QED
        BY <1>1, <2>2, <3>2, <3>3
    <2>3. QED
      BY <2>1, <2>2
  <1>8. cached \in SUBSET Nat
    BY <1>5
  <1> HIDE DEF cached
  <1>9. cached # {} => Min(cached) \in cached /\ \A k \in cached : Min(cached) <= k
    BY <1>8, MinIsLeast
  <1>10. 1 \in cached => Min(cached) = 1
    BY <1>5, <1>9
  <1>11. 1 \notin cached /\ 2 \in cached => Min(cached) = 2
    BY <1>5, <1>9
  <1>12. CASE PresentFor(i, TRUE) # {}
    <2>1. HasEnv /\ env = TRUE /\ cached # {}
      BY <1>3, <1>4, <1>7, <1>10, <1>12
    <2>2. EmbedGetTemplate(i) = Ok(WithVersion(Entry(i, TRUE), StatVersion(TRUE)))
      BY <1>2, <2>1
    <2>3. Serves(i, TRUE)
      BY <1>12, <2>2, ServesWhat
    <2>4. QED
      BY <1>12, <2>1, <2>3
  <1>13. CASE PresentFor(i, TRUE) = {} /\ PresentFor(i, FALSE) # {}
    <2>1. env = FALSE /\ cached # {}
      <3>1. CASE HasEnv
        BY <1>4, <1>7, <1>11, <1>13, <3>1
      <3>2. CASE ~HasEnv
        BY <1>4, <1>7, <1>10, <1>13, <3>2, EnvAssumption
      <3>3. QED
        BY <3>1, <3>2
    <2>2. EmbedGetTemplate(i) = Ok(WithVersion(Entry(i, FALSE), StatVersion(FALSE)))
      BY <1>2, <2>1
    <2>3. Serves(i, FALSE)
      BY <1>13, <2>2, ServesWhat
    <2>4. QED
      BY <1>13, <2>3
  <1>14. CASE PresentFor(i, TRUE) = {} /\ PresentFor(i, FALSE) = {}
    <2>1. PresentFor(i, HasEnv) = {}
      BY <1>14, EnvAssumption
    <2>2. 1 \notin cached /\ 2 \notin cached
      BY <1>7, <1>14, <2>1
    <2>3. \A k \in cached : k = 1 \/ k = 2
      BY <1>5
    <2>4. cached = {}
      BY <2>2, <2>3
    <2>5. EmbedGetTemplate(i) = Fail("notfound")
      BY <1>2, <2>4
    <2>6. EmbedGetTemplate(i).kind = "notfound"
      BY <2>5 DEF Fail
    <2>7. QED
      BY <1>14, <2>6
  <1>15. QED
    BY <1>12, <1>13, <1>14

\* Nothing has been returned by a call that is under way.
PendingInv == \A c \in Callers : pc[c] # "idle" => answer[c].kind = "none"

LEMMA InitPending == Init => PendingInv
  BY DEF Init, PendingInv

LEMMA StepPending == IInv /\ PendingInv /\ [Next]_vars => PendingInv'
  <1> SUFFICES ASSUME IInv, PendingInv, [Next]_vars
               PROVE  PendingInv'
    OBVIOUS
  <1>1. pc \in [Callers -> PCs] /\ answer \in [Callers -> Answer] /\ TypeOK
    BY DEF IInv, TypeOK
  <1>2. ASSUME NEW d \in Callers, NEW i \in Ids, Call(d, i)
        PROVE  PendingInv'
    <2>1. Fail("none").kind = "none"
      BY Templates DEF Kinds
    <2>2. QED
      BY <1>1, <1>2, <2>1 DEF Call, PendingInv
  <1>3. ASSUME NEW d \in Callers, CallerStep(d)
        PROVE  PendingInv'
    <2>1. ASSUME NEW a, Return(d, a)
          PROVE  PendingInv'
      BY <1>1, <2>1 DEF Return, PendingInv
    <2>2. ASSUME NEW l \in PCs, pc' = [pc EXCEPT ![d] = l], pc[d] # "idle", UNCHANGED answer
          PROVE  PendingInv'
      BY <1>1, <2>2 DEF PendingInv
    <2>3. CASE Hit(d)
      BY <2>1, <2>3 DEF Hit
    <2>4. ASSUME NEW k \in Kinds \ {"ok"}, Refused(d, k)
          PROVE  PendingInv'
      BY <2>1, <2>4 DEF Refused
    <2>5. ASSUME NEW l \in PCs, Moved(d, l)
          PROVE  PendingInv'
      <3>1. pc[d] # "idle"
        BY <2>5 DEF Moved
      <3>2. QED
        BY <2>2, <2>5, <3>1 DEF Moved
    <2>6. CASE Skipped(d) \/ Parsed(d) \/ Completed(d)
      BY <2>2, <2>6 DEF Skipped, Parsed, Completed, PCs
    <2>7. CASE Stored(d)
      BY <2>1, <2>7 DEF Stored
    <2>8. StepOf(d)
      BY <1>1, <1>3, CallerSteps
    <2>9. QED
      BY <2>3, <2>4, <2>5, <2>6, <2>7, <2>8 DEF StepOf
  <1>4. CASE UNCHANGED <<pc, answer>>
    BY <1>4 DEF PendingInv
  <1>5. ASSUME ~UNCHANGED <<pc, answer>>
        PROVE  \E d \in Callers : (\E i \in Ids : Call(d, i)) \/ CallerStep(d)
    BY <1>5 DEF Next, FilesChange, CancelCtx, Reload, ClearCache, Write, Remove, WritePartial,
                RemovePartial, callVars, vars
  <1>6. QED
    BY <1>2, <1>3, <1>4, <1>5

(***************************************************************************)
(* A load that ends: with every candidate passed, at a manifest or without *)
(* partials or at one that does not parse, or with a template.             *)
(***************************************************************************)
Exhausted(c) == pc[c] = "parse" /\ at[c] = Last + 1 /\ answer'[c].kind = "notfound"

Broken(c) ==
    /\ answer'[c].kind = "failed"
    /\ \/ /\ pc[c] = "parse" /\ at[c] \in 1..Last
          /\ Found(c) # NoFile /\ Found(c).content = "malformed"
       \/ pc[c] = "glob" /\ FoundPartial(c) = NoFile
       \/ /\ pc[c] = "partial" /\ FoundPartial(c) # NoFile
          /\ FoundPartial(c).content = "malformed"

Loaded(c) ==
    /\ UNCHANGED answer
    /\ \/ /\ pc[c] = "parse" /\ ~HasPartials /\ at[c] \in 1..Last /\ Found(c) # NoFile
          /\ loaded'[c].path = Candidate(c) /\ loaded'[c].rev = Found(c).rev
          /\ loaded'[c].partial = 0
       \/ /\ pc[c] = "partial" /\ FoundPartial(c) # NoFile
          /\ loaded'[c].path = loaded[c].path /\ loaded'[c].rev = loaded[c].rev
          /\ loaded'[c].partial = FoundPartial(c).rev

LEMMA LoadEnds ==
    ASSUME TypeOK, Next, NEW c \in Callers, pc[c] \in Loading, pc'[c] \notin Loading
    PROVE  \/ (Exhausted(c) \/ Broken(c)) /\ pc'[c] = "idle"
           \/ Loaded(c)
  <1>1. /\ pc \in [Callers -> PCs] /\ answer \in [Callers -> Answer]
        /\ loaded \in [Callers -> Template]
    BY DEF TypeOK
  <1>2. Parse(c) \/ Glob(c) \/ ReadPartial(c)
    <2>1. ASSUME NEW d \in Callers, NEW i \in Ids, Call(d, i)
          PROVE  FALSE
      BY <1>1, <2>1 DEF Call, Loading
    <2>2. ASSUME NEW d \in Callers, CallerStep(d)
          PROVE  d = c
      <3>1. \A l : pc' = [pc EXCEPT ![d] = l] => d = c
        BY <1>1 DEF Loading
      <3>2. QED
        BY <2>2, <3>1 DEF CallerStep, ReadLookup, Lock, Parse, Glob, ReadPartial, Stat, Return,
                           Goto, Abandon, NextCandidate, StartStat
    <2>3. PICK d \in Callers : (\E i \in Ids : Call(d, i)) \/ CallerStep(d)
      BY DEF Next, FilesChange, CancelCtx, Reload, ClearCache, Write, Remove, WritePartial,
             RemovePartial, callVars
    <2>4. CallerStep(c)
      BY <2>1, <2>2, <2>3
    <2>5. QED
      BY <2>4 DEF CallerStep, ReadLookup, Lock, Stat, Loading
  <1>3. Last \in Nat /\ at[c] \in 1..(Last + 1)
    BY Paths DEF TypeOK, Last
  <1>4. Fail("notfound").kind = "notfound" /\ Fail("failed").kind = "failed"
    BY Templates DEF Kinds
  <1>5. ASSUME NEW k, Abandon(c, k)
        PROVE  answer'[c] = Fail(k) /\ pc'[c] = "idle"
    BY <1>1, <1>5 DEF Abandon, Return
  <1>6. ~NextCandidate(c)
    BY <1>1 DEF NextCandidate, Goto, Loading
  <1>7. CASE Parse(c)
    <2>1. CASE at[c] > Last
      <3>1. Abandon(c, "notfound") /\ at[c] = Last + 1 /\ pc[c] = "parse"
        BY <1>3, <1>7, <2>1 DEF Parse, Last
      <3>2. QED
        BY <1>4, <1>5, <3>1 DEF Exhausted
    <2>2. CASE at[c] <= Last /\ Found(c) = NoFile
      BY <1>3, <1>6, <1>7, <2>2, CandidateTypes DEF Parse, Last
    <2>3. CASE at[c] <= Last /\ Found(c) # NoFile /\ Found(c).content = "malformed"
      <3>1. Abandon(c, "failed") /\ pc[c] = "parse" /\ at[c] \in 1..Last
        BY <1>3, <1>7, <2>3, CandidateTypes DEF Parse, Last
      <3>2. QED
        BY <1>4, <1>5, <2>3, <3>1 DEF Broken
    <2>4. CASE at[c] <= Last /\ Found(c) # NoFile /\ Found(c).content # "malformed"
      <3> DEFINE t == [path |-> Candidate(c), rev |-> Found(c).rev, partial |-> 0,
                       version |-> IF Found(c).content = "versioned"
                                   THEN OwnVersion ELSE NoVersion]
      <3>1. /\ loaded' = [loaded EXCEPT ![c] = t] /\ pc[c] = "parse"
            /\ IF HasPartials THEN Goto(c, "glob") /\ UNCHANGED at ELSE StartStat(c)
        BY <1>3, <1>7, <2>4, CandidateTypes DEF Parse, Last
      <3>2. loaded'[c] = t
        BY <1>1, <3>1
      <3>3. t.path = Candidate(c) /\ t.rev = Found(c).rev /\ t.partial = 0
        OBVIOUS
      <3> HIDE DEF t
      <3>4. ~HasPartials
        BY <1>1, <3>1 DEF Goto, Loading
      <3>5. UNCHANGED answer
        BY <3>1, <3>4 DEF StartStat, Goto
      <3>6. QED
        BY <1>3, <2>4, <3>1, <3>2, <3>3, <3>4, <3>5 DEF Loaded
    <2>5. QED
      BY <1>3, <2>1, <2>2, <2>3, <2>4
  <1>8. CASE Glob(c)
    <2>1. CASE FoundPartial(c) = NoFile
      BY <1>4, <1>5, <1>8, <2>1 DEF Glob, Broken
    <2>2. CASE FoundPartial(c) # NoFile
      BY <1>1, <1>8, <2>2 DEF Glob, Goto, Loading
    <2>3. QED
      BY <2>1, <2>2
  <1>9. CASE ReadPartial(c)
    <2>1. CASE Skippable(FoundPartial(c))
      BY <1>6, <1>9, <2>1 DEF ReadPartial
    <2>2. CASE ~Skippable(FoundPartial(c)) /\ FoundPartial(c).content = "malformed"
      <3>1. Abandon(c, "failed") /\ pc[c] = "partial" /\ FoundPartial(c) # NoFile
        BY <1>9, <2>2, PartialTypes DEF ReadPartial
      <3>2. QED
        BY <1>4, <1>5, <2>2, <3>1 DEF Broken
    <2>3. CASE ~Skippable(FoundPartial(c)) /\ FoundPartial(c).content # "malformed"
      <3>1. /\ loaded' = [loaded EXCEPT ![c].partial = FoundPartial(c).rev]
            /\ StartStat(c) /\ pc[c] = "partial" /\ FoundPartial(c) # NoFile
        BY <1>9, <2>3, PartialTypes DEF ReadPartial
      <3>2. /\ loaded'[c].path = loaded[c].path /\ loaded'[c].rev = loaded[c].rev
            /\ loaded'[c].partial = FoundPartial(c).rev
        BY <1>1, <3>1 DEF Template
      <3>3. UNCHANGED answer
        BY <3>1 DEF StartStat, Goto
      <3>4. QED
        BY <3>1, <3>2, <3>3 DEF Loaded
    <2>4. QED
      BY <2>1, <2>2, <2>3
  <1>10. QED
    BY <1>2, <1>7, <1>8, <1>9

LEMMA StepAgrees ==
    ASSUME IInv, PendingInv, Next, NEW c \in Callers, pc[c] \in Loading, pc'[c] \notin Loading,
           StillThere(c)
    PROVE  Agrees(c)
  <1> DEFINE i == req[c]
             e == EmbedGetTemplate(i)
             t == loaded'[c]
             p == Candidate(c)
  <1>1. TypeOK /\ i \in Ids
    BY DEF IInv, TypeOK
  <1>2. Passed(at[c]) \subseteq Absent(i)
    BY DEF Passed, StillThere
  <1>3. answer[c].kind = "none"
    BY DEF PendingInv, Loading
  <1>4. ASSUME at[c] \in 1..Last, Found(c) # NoFile
        PROVE  /\ p \in Candidates \ Absent(i) /\ p = idToPaths[at[c]]
               /\ Found(c) = disk[i][p]
    <2>1. p \in Candidates /\ p = idToPaths[at[c]] /\ Found(c) = disk[i][p]
      BY <1>1, <1>4, CandidateTypes DEF i
    <2>2. QED
      BY <1>4, <2>1 DEF Absent
  <1>5. pc[c] \in {"glob", "partial"} =>
           HasPartials /\ at[c] \in 1..Last /\ Found(c) # NoFile /\ Found(c).rev = loaded[c].rev
    BY Paths DEF IInv, TypeOK, TornInv, StillThere, Last
  <1> HIDE DEF i, e, t, p
  <1>6. CASE UnderPartialsDir(i)
    <2>1. ASSUME ~NewFails
          PROVE  e.kind = "notfound"
      <3>1. PresentFor(i, TRUE) = {} /\ PresentFor(i, FALSE) = {}
        BY <1>6 DEF PresentFor, Embedded
      <3>2. QED
        BY <1>1, <2>1, <3>1, EmbedGets DEF e
    <2>2. QED
      BY <1>6, <2>1 DEF Agrees, i, e
  <1>7. CASE ~UnderPartialsDir(i) /\ Exhausted(c) /\ pc'[c] = "idle"
    <2>1. Candidates \subseteq Absent(i)
      BY <1>2, <1>7, Walks DEF Exhausted
    <2>2. PresentFor(i, TRUE) = {} /\ PresentFor(i, FALSE) = {}
      BY <2>1 DEF PresentFor, Embedded
    <2>3. ~NewFails => e.kind = "notfound"
      BY <1>1, <2>2, EmbedGets DEF e
    <2>4. QED
      BY <1>7, <2>3 DEF e, i, Agrees, Exhausted
  <1>8. CASE ~UnderPartialsDir(i) /\ Broken(c) /\ pc'[c] = "idle"
    <2>1. at[c] \in 1..Last /\ Found(c) # NoFile
      BY <1>5, <1>8 DEF Broken
    <2>2. p \in Embedded(i) /\ Found(c) = disk[i][p]
      BY <1>4, <1>8, <2>1 DEF Embedded
    <2>3. ASSUME pc[c] = "parse" \/ SamePartials(i)
          PROVE  NewFails
      <3>1. CASE pc[c] = "parse"
        BY <1>1, <1>8, <2>2, <3>1 DEF NewFails, Broken
      <3>2. CASE pc[c] \in {"glob", "partial"}
        <4>1. HasPartials /\ FoundPartial(c) = partial[Root]
          BY <1>5, <2>3, <3>2 DEF SamePartials, FoundPartial, i
        <4>2. Skippable(partial[Root]) \/ partial[Root].content = "malformed"
          BY <1>8, <3>2, <4>1 DEF Broken, Skippable
        <4>3. QED
          BY <1>1, <2>2, <4>1, <4>2 DEF NewFails
      <3>3. QED
        BY <3>1, <3>2 DEF Loading
    <2>4. QED
      BY <1>8, <2>3 DEF Agrees, Broken, i
  <1>9. CASE ~UnderPartialsDir(i) /\ Loaded(c)
    <2> DEFINE b == p.env
    <2>1. at[c] \in 1..Last /\ Found(c) # NoFile
      BY <1>5, <1>9 DEF Loaded
    <2>2. /\ p \in Embedded(i) /\ p = idToPaths[at[c]]
          /\ t.path = p /\ t.rev = disk[i][p].rev
      <3>1. loaded'[c].path = Candidate(c) /\ loaded'[c].rev = Found(c).rev
        BY <1>5, <1>9 DEF Loaded, IInv, HolesInv
      <3>2. QED
        BY <1>4, <1>9, <2>1, <3>1 DEF Embedded, t, p
    <2>3. SamePartials(i) => t.partial = RootPartial
      <3>1. CASE pc[c] = "parse"
        BY <1>9, <3>1 DEF Loaded, RootPartial, t
      <3>2. CASE pc[c] = "partial"
        BY <1>5, <1>9, <3>2 DEF Loaded, RootPartial, t, SamePartials, FoundPartial, i
      <3>3. QED
        BY <1>9, <3>1, <3>2 DEF Loaded
    <2>4. b \in BOOLEAN
      BY <2>2, Order DEF Path, Embedded
    <2>5. p \in PresentFor(i, b)
      BY <2>2 DEF PresentFor
    <2>6. ~b => PresentFor(i, TRUE) = {}
      <3>1. ASSUME ~b, NEW q \in PresentFor(i, TRUE)
            PROVE  FALSE
        <4>1. q \in Candidates /\ q \notin Absent(i) /\ q.env
          BY DEF PresentFor, Embedded
        <4>2. q \in Passed(at[c])
          BY <2>1, <2>2, <3>1, <4>1, Order
        <4>3. QED
          BY <1>2, <4>1, <4>2
      <3>2. QED
        BY <3>1
    <2> HIDE DEF b
    <2>7. ASSUME ~NewFails
          PROVE  /\ e.kind = "ok"
                 /\ e.tpl.path.env = t.path.env
                 /\ OnlyManifest(i, t.path) => e.tpl.rev = t.rev
                 /\ SamePartials(i) => e.tpl.partial = t.partial
                 /\ e.tpl.version = NoVersion => e.tpl.path.env \/ BuildVersion = NoVersion
      <3>1. Serves(i, b)
        <4>1. CASE b = TRUE
          BY <1>1, <2>5, <2>7, <4>1, EmbedGets
        <4>2. CASE b = FALSE
          BY <1>1, <2>5, <2>6, <2>7, <4>2, EmbedGets
        <4>3. QED
          BY <2>4, <4>1, <4>2
      <3>2. /\ Entry(i, b).path \in PresentFor(i, b)
            /\ Entry(i, b).rev = disk[i][Entry(i, b).path].rev
            /\ Entry(i, b).partial = RootPartial
        BY <1>1, <2>4, <2>5, <2>7, EntryIs
      <3>3. e.kind = "ok" /\ e.tpl.path.env = b /\ b = t.path.env
        BY <2>2, <3>1, <3>2 DEF Serves, PresentFor, e, b
      <3>4. OnlyManifest(i, t.path) => e.tpl.rev = t.rev
        <4>1. ASSUME OnlyManifest(i, p)
              PROVE  Entry(i, b).path = p
          BY <3>2, <4>1 DEF OnlyManifest, PresentFor, Embedded, b
        <4>2. QED
          BY <2>2, <3>1, <3>2, <4>1 DEF Serves, e
      <3>5. SamePartials(i) => e.tpl.partial = t.partial
        BY <2>3, <3>1, <3>2 DEF Serves, e
      <3>6. e.tpl.version = NoVersion => e.tpl.path.env \/ BuildVersion = NoVersion
        BY <3>1, <3>3 DEF Serves, e
      <3>7. QED
        BY <3>3, <3>4, <3>5, <3>6
    <2>8. answer'[c].kind = "none"
      BY <1>3, <1>9 DEF Loaded
    <2>9. QED
      BY <1>9, <2>7, <2>8 DEF e, t, i, Agrees
  <1>10. QED
    BY <1>1, <1>6, <1>7, <1>8, <1>9, LoadEnds

(***************************************************************************)
(* The registry made of the files of a moment finds what a load of the     *)
(* file registry that ends then finds, as EmbeddedAgrees says.             *)
(***************************************************************************)
THEOREM EmbeddedServesTheSame == Spec => EmbeddedAgrees
  <1>1. IInv /\ PendingInv /\ [Next]_vars =>
           [\A c \in Callers : pc[c] \in Loading /\ pc'[c] \notin Loading => Agrees(c)]_vars
    <2>1. ASSUME IInv, PendingInv, Next, NEW c \in Callers, pc[c] \in Loading, pc'[c] \notin Loading
          PROVE  Agrees(c)
      <3>1. CASE StillThere(c)
        BY <2>1, <3>1, StepAgrees
      <3>2. CASE ~StillThere(c)
        BY <3>2 DEF Agrees
      <3>3. QED
        BY <3>1, <3>2
    <2>2. QED
      BY <2>1
  <1>2. QED
    BY <1>1, InitPending, StepPending, Invariant, PTL DEF Spec, EmbeddedAgrees

=============================================================================
