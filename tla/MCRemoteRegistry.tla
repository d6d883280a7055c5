-------------------------- MODULE MCRemoteRegistry --------------------------
(***************************************************************************)
(* RemoteRegistry for TLC: one template id, a, with the environment file   *)
(* aprod.  The branch begins with a.yml; a.yaml and aprod.yaml come and go. *)
(* Callers are interchangeable.                                            *)
(***************************************************************************)
EXTENDS RemoteRegistry, TLC

CONSTANTS a, aprod

MCEnvOf == [i \in {a} |-> aprod]
MCInitial == [commit |-> 1, files |-> [i \in {a, aprod} |-> [x \in 1..3 |->
                  IF i = a /\ x = 2 THEN 1 ELSE 0]]]
MCWritten == {<<a, 1>>, <<aprod, 1>>}
Symmetry == Permutations(Callers)
=============================================================================
