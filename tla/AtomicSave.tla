---------------------------- MODULE AtomicSave ----------------------------
(***************************************************************************)
(* What saving a project promises about the documents on disk: a document  *)
(* is replaced as a whole, by what the window shows at that moment, and    *)
(* everything it points to can be read from then on.  No copies, no        *)
(* generations of results, no cleaning: those are ProjectSave's business.  *)
(***************************************************************************)
CONSTANTS Paths,     \* where projects are saved
          Contents,  \* what a project can contain
          Nothing    \* no document, or no window

VARIABLES shown,     \* the content in the window
          stored     \* stored[p]: the content that can be read at p

vars == <<shown, stored>>

Init == /\ shown \in Contents
        /\ stored = [p \in Paths |-> Nothing]

(* Editing, opening another project, a crash, a restart: no document       *)
(* changes.                                                                *)
Turn == /\ shown' \in Contents \union {Nothing}
        /\ UNCHANGED stored

Publish(p) == /\ shown # Nothing
              /\ stored' = [stored EXCEPT ![p] = shown]
              /\ UNCHANGED shown

Next == Turn \/ \E p \in Paths : Publish(p)

Spec == Init /\ [][Next]_vars
===========================================================================
