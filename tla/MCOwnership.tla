---------------------------- MODULE MCOwnership -----------------------------
(***************************************************************************)
(* Ownership for TLC.  Callers are interchangeable, and so are objects.    *)
(***************************************************************************)
EXTENDS Ownership, TLC

Symmetry == Permutations(Callers) \cup Permutations(Objects)
=============================================================================
