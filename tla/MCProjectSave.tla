-------------------------- MODULE MCProjectSave --------------------------
(* Instance of ProjectSave for TLC: two results, one of which needs an    *)
(* imported artifact.                                                     *)
EXTENDS ProjectSave, TLC

CONSTANTS n1, a1, r1, r2

MCOwner == (r1 :> n1) @@ (r2 :> n1)
MCNeeds == (r1 :> {a1}) @@ (r2 :> {})
MCSymmetry == Permutations(Paths)
===========================================================================
