-------------------------- MODULE MCCachedRegistry --------------------------
(***************************************************************************)
(* CachedRegistry for TLC.  Callers and flights are interchangeable, so    *)
(* the safety runs identify states that differ by a permutation of them.   *)
(***************************************************************************)
EXTENDS CachedRegistry, TLC

Symmetry == Permutations(Callers) \cup Permutations(Flights)
=============================================================================
