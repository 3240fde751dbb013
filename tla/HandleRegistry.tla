-------------------------- MODULE HandleRegistry --------------------------
(***************************************************************************)
(* HandleRegistry of a worker process (execution/handle_registry.py): the  *)
(* table from handle ids to live objects, with one lease count per owner   *)
(* scope, an identity index and an owner index.                            *)
(*                                                                         *)
(* Every public operation runs under the registry's lock and is one        *)
(* action.  The disposers are the exception: release, release_owner_scope  *)
(* and reset detach records under the lock and call record.dispose() after *)
(* it is released, so other threads, and the disposer itself, operate on   *)
(* the registry between the detach, the call and its return.  phase[h]     *)
(* follows a handle through that.  The disposers one operation detached    *)
(* run one after the other in the code; the model lets them run in any     *)
(* order.  Operations that raise before changing anything are not steps.   *)
(***************************************************************************)
EXTENDS Integers, FiniteSets

CONSTANTS HandleIds,     \* uuid4 values: each is drawn once
          Values,        \* the registered objects; id(value) is the object
          Owners,        \* owner scopes
          Contracts,     \* (data_type_id, schema_version, kind, metadata)
          NoHandle,      \* absent entry of the identity index
          MaxLeases,     \* bound on one owner's leases of one handle
          MaxGeneration  \* bound on reset

ASSUME HandleAssumption == /\ NoHandle \notin HandleIds
                           /\ Values # {}
                           /\ Contracts # {}
                           /\ MaxLeases \in Nat \ {0}
                           /\ MaxGeneration \in Nat \ {0}

VARIABLES
    generation,      \* _worker_generation
    catalog,         \* contracts the bound data-type catalog validates
    phase,           \* "free", "live" (in _records), "detached", "disposing", "gone"
    valueOf,         \* _HandleRecord.value
    contractOf,      \* _HandleRecord.data_type_id, schema_version, kind, metadata
    disposer,        \* _HandleRecord.dispose is not None
    leases,          \* _HandleRecord.leases (0: no entry)
    born,            \* the worker_generation carried by the refs of a handle
    identityIndex,   \* _identity_index
    ownerIndex,      \* _owner_index ({}: no entry)
    disposingIds     \* _disposing_identity_ids

recordVars == <<valueOf, contractOf, born>>
vars == <<generation, catalog, phase, valueOf, contractOf, disposer, leases,
          born, identityIndex, ownerIndex, disposingIds>>

NoLeases == [o \in Owners |-> 0]
Live == {h \in HandleIds : phase[h] = "live"}
Detached == {h \in HandleIds : phase[h] \in {"detached", "disposing"}}

(* Type invariant: the fields of HandleRegistry and of its records have     *)
(* their types; a lease count is never negative.                            *)
TypeOK ==
    /\ generation \in Nat
    /\ catalog \subseteq Contracts
    /\ phase \in [HandleIds -> {"free", "live", "detached", "disposing", "gone"}]
    /\ valueOf \in [HandleIds -> Values]
    /\ contractOf \in [HandleIds -> Contracts]
    /\ disposer \in [HandleIds -> BOOLEAN]
    /\ leases \in [HandleIds -> [Owners -> Nat]]
    /\ born \in [HandleIds -> Nat]
    /\ identityIndex \in [Values -> HandleIds \union {NoHandle}]
    /\ ownerIndex \in [Owners -> SUBSET HandleIds]
    /\ disposingIds \subseteq Values

Init ==
    /\ generation = 1
    /\ catalog = {}
    /\ phase = [h \in HandleIds |-> "free"]
    /\ valueOf = [h \in HandleIds |-> CHOOSE v \in Values : TRUE]
    /\ contractOf = [h \in HandleIds |-> CHOOSE c \in Contracts : TRUE]
    /\ disposer = [h \in HandleIds |-> FALSE]
    /\ leases = [h \in HandleIds |-> NoLeases]
    /\ born = [h \in HandleIds |-> 0]
    /\ identityIndex = [v \in Values |-> NoHandle]
    /\ ownerIndex = [o \in Owners |-> {}]
    /\ disposingIds = {}

---------------------------------------------------------------------------

(* bind_data_types: every live record must be valid in the new catalog,    *)
(* else it raises and the old catalog stays.                               *)
BindDataTypes(accepted) ==
    /\ \A h \in Live : contractOf[h] \in accepted
    /\ catalog' = accepted
    /\ UNCHANGED <<generation, phase, disposer, leases, identityIndex,
                   ownerIndex, disposingIds, recordVars>>

AddLease(h, o) ==
    /\ leases[h][o] < MaxLeases
    /\ leases' = [leases EXCEPT ![h][o] = @ + 1]
    /\ ownerIndex' = [ownerIndex EXCEPT ![o] = @ \union {h}]

(* register: a value already registered under the same contract gets one   *)
(* more lease, and its first disposer if it had none ...                   *)
RegisterAgain(v, c, o, disposable) ==
    LET h == identityIndex[v] IN
    /\ c \in catalog
    /\ v \notin disposingIds
    /\ h # NoHandle
    /\ h \in Live
    /\ contractOf[h] = c
    /\ disposer' = [disposer EXCEPT ![h] = @ \/ disposable]
    /\ AddLease(h, o)
    /\ UNCHANGED <<generation, catalog, phase, identityIndex, disposingIds,
                   recordVars>>

(* ... any other value a new record under a fresh handle id.               *)
RegisterNew(h, v, c, o, disposable) ==
    /\ c \in catalog
    /\ v \notin disposingIds
    /\ identityIndex[v] = NoHandle
    /\ phase[h] = "free"
    /\ phase' = [phase EXCEPT ![h] = "live"]
    /\ valueOf' = [valueOf EXCEPT ![h] = v]
    /\ contractOf' = [contractOf EXCEPT ![h] = c]
    /\ disposer' = [disposer EXCEPT ![h] = disposable]
    /\ leases' = [leases EXCEPT ![h] = [NoLeases EXCEPT ![o] = 1]]
    /\ born' = [born EXCEPT ![h] = generation]
    /\ identityIndex' = [identityIndex EXCEPT ![v] = h]
    /\ ownerIndex' = [ownerIndex EXCEPT ![o] = @ \union {h}]
    /\ UNCHANGED <<generation, catalog, disposingIds>>

(* _resolve_record_locked on a reference (h, o, born[h]) some earlier      *)
(* register or lease returned.                                             *)
Resolves(h, o) ==
    /\ born[h] = generation
    /\ phase[h] = "live"
    /\ leases[h][o] > 0

(* lease: the holder of a valid reference takes a lease for scope o.       *)
Lease(h, holder, o) ==
    /\ Resolves(h, holder)
    /\ contractOf[h] \in catalog
    /\ AddLease(h, o)
    /\ UNCHANGED <<generation, catalog, phase, disposer, identityIndex,
                   disposingIds, recordVars>>

---------------------------------------------------------------------------

(* Mutant: the leases of the other scopes are not asked for.               *)
OrphansShared(H, o) == H

(* The handles that lose their last lease when scope o gives up all its    *)
(* leases on the handles H.                                                *)
Orphans(H, o) == {h \in H : \A p \in Owners \ {o} : leases[h][p] = 0}

(* Mutant: the detached values are not blocked while their disposer runs.  *)
DetachUnguarded(H) ==
    /\ phase' = [h \in HandleIds |->
                    IF h \notin H THEN phase[h]
                    ELSE IF disposer[h] THEN "detached" ELSE "gone"]
    /\ identityIndex' = [v \in Values |->
                    IF \E h \in H : valueOf[h] = v THEN NoHandle
                    ELSE identityIndex[v]]
    /\ UNCHANGED disposingIds

(* _detach_record_locked on every handle of H.                             *)
Detach(H) ==
    /\ phase' = [h \in HandleIds |->
                    IF h \notin H THEN phase[h]
                    ELSE IF disposer[h] THEN "detached" ELSE "gone"]
    /\ identityIndex' = [v \in Values |->
                    IF \E h \in H : valueOf[h] = v THEN NoHandle
                    ELSE identityIndex[v]]
    /\ disposingIds' = disposingIds \union
                       {valueOf[h] : h \in {x \in H : disposer[x]}}

(* Mutant: the scope keeps its entry in the owner index.                   *)
RemoveOwnerKeepsIndex(H, o) ==
    /\ leases' = [h \in HandleIds |->
                    IF h \in H THEN [leases[h] EXCEPT ![o] = 0] ELSE leases[h]]
    /\ UNCHANGED ownerIndex

(* _remove_owner_lease_locked on every handle of H.                        *)
RemoveOwner(H, o) ==
    /\ leases' = [h \in HandleIds |->
                    IF h \in H THEN [leases[h] EXCEPT ![o] = 0] ELSE leases[h]]
    /\ ownerIndex' = [ownerIndex EXCEPT ![o] = @ \ H]

(* Mutant: the reference's scope is not checked against the leases.        *)
ReleaseOneUnchecked(h, o) ==
    /\ phase[h] = "live"
    /\ leases[h][o] # 1
    /\ leases' = [leases EXCEPT ![h][o] = @ - 1]
    /\ UNCHANGED <<generation, catalog, phase, disposer, identityIndex,
                   ownerIndex, disposingIds, recordVars>>

(* release with leases left in the scope.                                  *)
ReleaseOne(h, o) ==
    /\ Resolves(h, o)
    /\ leases[h][o] > 1
    /\ leases' = [leases EXCEPT ![h][o] = @ - 1]
    /\ UNCHANGED <<generation, catalog, phase, disposer, identityIndex,
                   ownerIndex, disposingIds, recordVars>>

(* release of the scope's last lease; the record goes with its last scope. *)
ReleaseLast(h, o) ==
    /\ Resolves(h, o)
    /\ leases[h][o] = 1
    /\ RemoveOwner({h}, o)
    /\ Detach(Orphans({h}, o))
    /\ UNCHANGED <<generation, catalog, disposer, recordVars>>

(* release_owner_scope, driven by the owner index.                         *)
ReleaseOwnerScope(o) ==
    LET H == ownerIndex[o] \intersect Live IN
    /\ H # {}
    /\ RemoveOwner(H, o)
    /\ Detach(Orphans(H, o))
    /\ UNCHANGED <<generation, catalog, disposer, recordVars>>

(* reset: everything is dropped and a new worker generation begins.        *)
Reset ==
    /\ generation < MaxGeneration
    /\ generation' = generation + 1
    /\ phase' = [h \in HandleIds |->
                    IF h \notin Live THEN phase[h]
                    ELSE IF disposer[h] THEN "detached" ELSE "gone"]
    /\ leases' = [h \in HandleIds |-> NoLeases]
    /\ identityIndex' = [v \in Values |-> NoHandle]
    /\ ownerIndex' = [o \in Owners |-> {}]
    /\ disposingIds' = disposingIds \union
                       {valueOf[h] : h \in {x \in Live : disposer[x]}}
    /\ UNCHANGED <<catalog, disposer, recordVars>>

---------------------------------------------------------------------------
(* Mutant: the guard against registration also skips the disposer itself.  *)
CallDisposerSkipped(h) ==
    /\ phase[h] = "detached"
    /\ valueOf[h] \notin disposingIds
    /\ phase' = [phase EXCEPT ![h] = "disposing"]
    /\ UNCHANGED <<generation, catalog, disposer, leases, identityIndex,
                   ownerIndex, disposingIds, recordVars>>

(* _dispose_explicitly, _dispose_automatically: the call ...               *)
CallDisposer(h) ==
    /\ phase[h] = "detached"
    /\ phase' = [phase EXCEPT ![h] = "disposing"]
    /\ UNCHANGED <<generation, catalog, disposer, leases, identityIndex,
                   ownerIndex, disposingIds, recordVars>>

(* ... and its "finally": the value may be registered again, whether the   *)
(* disposer returned or raised.                                            *)
DisposerEnds(h) ==
    /\ phase[h] = "disposing"
    /\ phase' = [phase EXCEPT ![h] = "gone"]
    /\ disposingIds' = disposingIds \ {valueOf[h]}
    /\ UNCHANGED <<generation, catalog, disposer, leases, identityIndex,
                   ownerIndex, recordVars>>

Register ==
    \E v \in Values, c \in Contracts, o \in Owners, disposable \in BOOLEAN :
        \/ RegisterAgain(v, c, o, disposable)
        \/ \E h \in HandleIds : RegisterNew(h, v, c, o, disposable)

Next ==
    \/ \E accepted \in SUBSET Contracts : BindDataTypes(accepted)
    \/ Register
    \/ \E h \in HandleIds, holder \in Owners, o \in Owners : Lease(h, holder, o)
    \/ \E h \in HandleIds, o \in Owners : ReleaseOne(h, o)
    \/ \E h \in HandleIds, o \in Owners : ReleaseLast(h, o)
    \/ \E o \in Owners : ReleaseOwnerScope(o)
    \/ Reset
    \/ \E h \in HandleIds : CallDisposer(h)
    \/ \E h \in HandleIds : DisposerEnds(h)

(* A thread that detached a record goes on to call its disposer; disposers *)
(* are assumed to return.  Nobody is obliged to register or to release.    *)
Fairness == \A h \in HandleIds : WF_vars(CallDisposer(h)) /\ WF_vars(DisposerEnds(h))

Spec == Init /\ [][Next]_vars /\ Fairness

---------------------------------------------------------------------------
(* The indexes are exactly the inverse of the records: a live handle is    *)
(* found under its value and under each scope that leases it, and under    *)
(* nothing else; release_owner_scope, which walks the owner index, and     *)
(* register, which trusts the identity index, miss nothing.                *)
IndexesExact ==
    /\ \A v \in Values, h \in HandleIds :
          identityIndex[v] = h <=> h \in Live /\ valueOf[h] = v
    /\ \A o \in Owners, h \in HandleIds :
          h \in ownerIndex[o] <=> h \in Live /\ leases[h][o] > 0

(* A live record is leased by somebody (bind_data_types takes the first    *)
(* scope of each) and belongs to the current generation.                   *)
LiveIsLeased ==
    \A h \in Live : /\ \E o \in Owners : leases[h][o] > 0
                    /\ born[h] = generation

(* A value with a disposer pending or running is blocked by               *)
(* _disposing_identity_ids until that disposer ends: it is not live under  *)
(* any handle, and no second disposer for it is pending.                   *)
DisposedOnce ==
    /\ disposingIds = {valueOf[h] : h \in Detached}
    /\ \A h \in Live : valueOf[h] \notin disposingIds
    /\ \A h, k \in Detached : valueOf[h] = valueOf[k] => h = k

(* Whatever is live is valid in the catalog that is bound now.             *)
LiveIsTyped == \A h \in Live : contractOf[h] \in catalog

(* Every detached record gets its disposer called, and the value becomes   *)
(* available again.                                                        *)
DisposalCompletes == \A h \in HandleIds : phase[h] = "detached" ~> phase[h] = "gone"

(* The registry implements the lifetime promised to the nodes.             *)
holdersOf == [v \in Values |->
                 IF identityIndex[v] = NoHandle THEN NoLeases
                 ELSE leases[identityIndex[v]]]
owedValues == {v \in Values : identityIndex[v] # NoHandle
                              /\ disposer[identityIndex[v]]}

Lifetime == INSTANCE ResourceLifetime
                WITH holders <- holdersOf, owed <- owedValues,
                     closing <- disposingIds
ImplementsLifetime == Lifetime!Spec
===========================================================================
