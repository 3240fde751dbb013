------------------------- MODULE ResourceLifetime -------------------------
(***************************************************************************)
(* What the handle registry promises about the objects nodes register in   *)
(* a worker (meshes, database connections, open result files): an object   *)
(* lives exactly as long as some owner scope holds a lease on it, and when *)
(* the last lease goes an object somebody gave a disposer for is closed,   *)
(* once, before anybody can acquire it again.  No handle ids, no indexes,  *)
(* no records: those are HandleRegistry's business.                        *)
(***************************************************************************)
EXTENDS Naturals

CONSTANTS Values,   \* the Python objects
          Owners    \* owner scopes: "run:...", "node:...", "solution:..."

VARIABLES holders,  \* holders[v][o]: leases scope o holds on object v
          owed,     \* held objects that must be closed when the last lease goes
          closing   \* objects whose close has been decided and is not finished

vars == <<holders, owed, closing>>

NoHolders == [o \in Owners |-> 0]

Held(v) == holders[v] # NoHolders

Init == /\ holders = [v \in Values |-> NoHolders]
        /\ owed = {}
        /\ closing = {}

(* A scope takes one more lease, perhaps bringing the object its disposer. *)
Acquire(v, o, disposable) ==
    /\ v \notin closing
    /\ holders' = [holders EXCEPT ![v][o] = @ + 1]
    /\ owed' = IF disposable THEN owed \union {v} ELSE owed
    /\ UNCHANGED closing

(* The leases named by "left" are what remains; everything that lost its   *)
(* last lease by that is gone, and closing if it is owed a close.          *)
Surrender(left) ==
    /\ \A v \in Values, o \in Owners : left[v][o] <= holders[v][o]
    /\ holders' = left
    /\ closing' = closing \union {v \in owed : left[v] = NoHolders}
    /\ owed' = {v \in owed : left[v] # NoHolders}

Release(v, o) ==
    /\ holders[v][o] > 0
    /\ Surrender([holders EXCEPT ![v][o] = @ - 1])

ReleaseScope(o) ==
    Surrender([v \in Values |-> [holders[v] EXCEPT ![o] = 0]])

ReleaseAll == Surrender([v \in Values |-> NoHolders])

Closed(v) ==
    /\ v \in closing
    /\ closing' = closing \ {v}
    /\ UNCHANGED <<holders, owed>>

Next == \/ \E v \in Values, o \in Owners, disposable \in BOOLEAN : Acquire(v, o, disposable)
        \/ \E v \in Values, o \in Owners : Release(v, o)
        \/ \E o \in Owners : ReleaseScope(o)
        \/ ReleaseAll
        \/ \E v \in Values : Closed(v)

Spec == Init /\ [][Next]_vars

---------------------------------------------------------------------------
(* An object being closed is held by nobody.                               *)
ClosedObjectsAreFree == \A v \in closing : ~Held(v)
===========================================================================
