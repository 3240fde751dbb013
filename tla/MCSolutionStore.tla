-------------------------- MODULE MCSolutionStore --------------------------
(* Instance of SolutionStore for TLC: node "b" is computed from node "a". *)
EXTENDS SolutionStore, TLC

MCNodes == {"a", "b"}
MCInputs == [n \in MCNodes |-> IF n = "b" THEN {"a"} ELSE {}]
MCAbove == [n \in MCNodes |-> IF n = "b" THEN {"a", "b"} ELSE {"a"}]

(* Two nodes that have nothing to do with each other.                     *)
MCApartInputs == [n \in MCNodes |-> {}]
MCApartAbove == [n \in MCNodes |-> {n}]

MCSymmetry == Permutations(Slots) \union Permutations(Contents)
                    \union Permutations(Results)
============================================================================
