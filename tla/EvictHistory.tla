---------------------------- MODULE EvictHistory ----------------------------
(***************************************************************************)
(* CachedRegistry with a history of evictions: which version the base held *)
(* when each id was last evicted, and what that was when a call began.     *)
(***************************************************************************)
EXTENDS MCCachedRegistry

VARIABLES evictedAt, asOf

hvars == <<vars, evictedAt, asOf>>

HInit ==
    /\ Init
    /\ evictedAt = [i \in Ids |-> 0]
    /\ asOf = [c \in Callers |-> 0]

HCall(c, i) ==
    /\ Call(c, i)
    /\ asOf' = [asOf EXCEPT ![c] = evictedAt[i]]
    /\ UNCHANGED evictedAt

HEvict(i) ==
    /\ Evict(i)
    /\ evictedAt' = [evictedAt EXCEPT ![i] = source[i]]
    /\ UNCHANGED asOf

HOther ==
    /\ \/ \E c \in Callers : CallerStep(c) \/ CancelCtx(c)
       \/ \E f \in Flights : FlightStep(f)
       \/ \E i \in Ids : Update(i)
    /\ UNCHANGED <<evictedAt, asOf>>

HNext ==
    \/ \E c \in Callers, i \in Ids : HCall(c, i)
    \/ \E i \in Ids : HEvict(i)
    \/ HOther

HSpec == HInit /\ [][HNext]_hvars

\* "After Evict, next GetTemplate should fetch again"
\* (remoteregistry/registry_test.go:507): a call begun after an Evict answers
\* with a version read from the base after that Evict.
EvictForcesRefetch ==
    \A c \in Callers : answer[c].kind = "ok" => answer[c].ver >= asOf[c]
=============================================================================
