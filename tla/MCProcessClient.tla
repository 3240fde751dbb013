--------------------------- MODULE MCProcessClient ---------------------------
(* Small instances of ProcessClient for TLC.                               *)
EXTENDS ProcessClient, TLC

Symmetry == Permutations(Callers) \cup Permutations(Runs)
            \cup Permutations(Contracts)

===============================================================================
