----------------------- MODULE HandleRegistryProofs -----------------------
(***************************************************************************)
(* For any number of handles, objects and owner scopes, and however the    *)
(* disposers interleave with the operations: the indexes of the handle     *)
(* registry are exact, a live record is leased, and an object is never     *)
(* live, nor disposed a second time, while its disposer is pending.        *)
(***************************************************************************)
EXTENDS HandleRegistry, TLAPS

IInv == TypeOK /\ IndexesExact /\ LiveIsLeased /\ DisposedOnce /\ LiveIsTyped

LEMMA InitEstablishes == Init => IInv
<1> SUFFICES ASSUME Init PROVE IInv
  OBVIOUS
<1> USE HandleAssumption
<1>1. TypeOK
  <2>1. (CHOOSE v \in Values : TRUE) \in Values
    OBVIOUS
  <2>2. (CHOOSE c \in Contracts : TRUE) \in Contracts
    OBVIOUS
  <2> QED BY <2>1, <2>2 DEF Init, TypeOK, NoLeases
<1>2. Live = {} /\ Detached = {}
  BY DEF Init, Live, Detached
<1>3. IndexesExact
  BY <1>2 DEF Init, IndexesExact
<1>4. LiveIsLeased /\ DisposedOnce /\ LiveIsTyped
  BY <1>2 DEF Init, LiveIsLeased, DisposedOnce, LiveIsTyped
<1> QED BY <1>1, <1>3, <1>4 DEF IInv

LEMMA BindPreserves ==
    ASSUME IInv, NEW accepted \in SUBSET Contracts, BindDataTypes(accepted)
    PROVE  IInv'
<1> USE DEF BindDataTypes, recordVars, IInv
<1>1. TypeOK'
  BY DEF TypeOK
<1>2. Live' = Live /\ Detached' = Detached
  BY DEF Live, Detached
<1>3. IndexesExact' /\ LiveIsLeased' /\ DisposedOnce'
  BY <1>2 DEF IndexesExact, LiveIsLeased, DisposedOnce
<1>4. LiveIsTyped'
  BY <1>2 DEF LiveIsTyped
<1> QED BY <1>1, <1>3, <1>4

(* One more lease on a live handle changes nothing but its index entry.    *)
LEMMA AddLeasePreserves ==
    ASSUME IInv, NEW h \in HandleIds, NEW o \in Owners, h \in Live,
           AddLease(h, o), disposer' \in [HandleIds -> BOOLEAN],
           UNCHANGED <<generation, catalog, phase, identityIndex,
                       disposingIds, recordVars>>
    PROVE  IInv'
<1> USE DEF AddLease, recordVars, IInv
<1>1. leases' \in [HandleIds -> [Owners -> Nat]]
  BY DEF TypeOK
<1>2. TypeOK'
  BY <1>1 DEF TypeOK
<1>3. Live' = Live /\ Detached' = Detached
  BY DEF Live, Detached
<1>4. \A g \in HandleIds, p \in Owners :
         leases'[g][p] > 0 <=> leases[g][p] > 0 \/ (g = h /\ p = o)
  BY DEF TypeOK
<1>5. IndexesExact'
  BY <1>3, <1>4 DEF TypeOK, IndexesExact
<1>6. LiveIsLeased'
  BY <1>3, <1>4 DEF LiveIsLeased, Live
<1>7. DisposedOnce' /\ LiveIsTyped'
  BY <1>3 DEF DisposedOnce, LiveIsTyped
<1> QED BY <1>2, <1>5, <1>6, <1>7

LEMMA RegisterNewPreserves ==
    ASSUME IInv, NEW h \in HandleIds, NEW v \in Values, NEW c \in Contracts,
           NEW o \in Owners, NEW disposable \in BOOLEAN,
           RegisterNew(h, v, c, o, disposable)
    PROVE  IInv'
<1> USE DEF RegisterNew, IInv
<1>1. [NoLeases EXCEPT ![o] = 1] \in [Owners -> Nat]
  BY DEF NoLeases
<1>2. TypeOK'
  BY <1>1 DEF TypeOK
<1>3. Live' = Live \union {h} /\ Detached' = Detached /\ h \notin Live /\ h \notin Detached
  BY DEF TypeOK, Live, Detached
<1>4. \A g \in HandleIds : g # h => /\ valueOf'[g] = valueOf[g]
                                   /\ contractOf'[g] = contractOf[g]
                                   /\ leases'[g] = leases[g]
                                   /\ born'[g] = born[g]
  BY DEF TypeOK
<1>5. /\ valueOf'[h] = v /\ contractOf'[h] = c /\ born'[h] = generation
      /\ \A p \in Owners : leases'[h][p] > 0 <=> p = o
  BY DEF TypeOK, NoLeases
<1>6. IndexesExact'
  <2>1. \A w \in Values, g \in HandleIds :
           identityIndex'[w] = g <=> g \in Live' /\ valueOf'[g] = w
    BY <1>3, <1>4, <1>5, HandleAssumption DEF IndexesExact, TypeOK
  <2>2. \A p \in Owners, g \in HandleIds :
           g \in ownerIndex'[p] <=> g \in Live' /\ leases'[g][p] > 0
    BY <1>3, <1>4, <1>5 DEF IndexesExact, TypeOK
  <2> QED BY <2>1, <2>2 DEF IndexesExact
<1>7. LiveIsLeased'
  BY <1>3, <1>4, <1>5 DEF LiveIsLeased, Live
<1>8. DisposedOnce'
  <2>1. \A g \in Detached : valueOf'[g] = valueOf[g]
    BY <1>3, <1>4 DEF Detached
  <2>2. \A g \in Live' : valueOf'[g] \notin disposingIds'
    BY <1>3, <1>4, <1>5 DEF DisposedOnce, Live
  <2> QED BY <1>3, <2>1, <2>2 DEF DisposedOnce
<1>9. LiveIsTyped'
  BY <1>3, <1>4, <1>5 DEF LiveIsTyped, Live
<1> QED BY <1>2, <1>6, <1>7, <1>8, <1>9

LEMMA ReleaseOnePreserves ==
    ASSUME IInv, NEW h \in HandleIds, NEW o \in Owners, ReleaseOne(h, o)
    PROVE  IInv'
<1> USE DEF ReleaseOne, recordVars, IInv
<1>1. leases' \in [HandleIds -> [Owners -> Nat]]
  BY DEF TypeOK
<1>2. TypeOK'
  BY <1>1 DEF TypeOK
<1>3. Live' = Live /\ Detached' = Detached
  BY DEF Live, Detached
<1>4. \A g \in HandleIds, p \in Owners : leases'[g][p] > 0 <=> leases[g][p] > 0
  BY DEF TypeOK
<1>5. IndexesExact' /\ LiveIsLeased'
  BY <1>3, <1>4 DEF IndexesExact, LiveIsLeased, Live
<1>6. DisposedOnce' /\ LiveIsTyped'
  BY <1>3 DEF DisposedOnce, LiveIsTyped
<1> QED BY <1>2, <1>5, <1>6

(* What every detach does, whichever leases went: the records of H leave   *)
(* the table, and those with a disposer block their values.                *)
LEMMA DetachPreserves ==
    ASSUME IInv, NEW H \in SUBSET Live,
           phase' = [h \in HandleIds |->
                        IF h \notin H THEN phase[h]
                        ELSE IF disposer[h] THEN "detached" ELSE "gone"],
           disposingIds' = disposingIds \union
                           {valueOf[h] : h \in {x \in H : disposer[x]}},
           UNCHANGED <<disposer, recordVars>>
    PROVE  /\ Live' = Live \ H
           /\ Detached' = Detached \union {x \in H : disposer[x]}
           /\ phase' \in [HandleIds -> {"free", "live", "detached", "disposing", "gone"}]
           /\ disposingIds' \subseteq Values
           /\ DisposedOnce'
<1> USE DEF recordVars, IInv
<1>1. H \subseteq HandleIds
  BY DEF Live
<1>2. Live' = Live \ H
  BY <1>1 DEF Live, TypeOK
<1>3. Detached' = Detached \union {x \in H : disposer[x]}
  BY <1>1 DEF Live, Detached, TypeOK
<1>4. phase' \in [HandleIds -> {"free", "live", "detached", "disposing", "gone"}]
  BY DEF TypeOK
<1>5. disposingIds' \subseteq Values
  BY <1>1 DEF TypeOK
<1>6. \A h, k \in Live : valueOf[h] = valueOf[k] => h = k
  BY DEF IndexesExact, Live, TypeOK
<1>7. DisposedOnce'
  <2>1. disposingIds' = {valueOf[h] : h \in Detached'}
    BY <1>3 DEF DisposedOnce
  <2>2. \A h \in Live \ H : valueOf[h] \notin disposingIds'
    BY <1>6 DEF DisposedOnce
  <2>3. \A h, k \in Detached' : valueOf[h] = valueOf[k] => h = k
    BY <1>3, <1>6 DEF DisposedOnce
  <2> QED BY <1>2, <2>1, <2>2, <2>3 DEF DisposedOnce
<1> QED BY <1>2, <1>3, <1>4, <1>5, <1>7

(* release and release_owner_scope: scope o gives up all its leases on H.  *)
LEMMA RemoveOwnerPreserves ==
    ASSUME IInv, NEW o \in Owners, NEW H \in SUBSET Live,
           RemoveOwner(H, o), Detach(Orphans(H, o)),
           UNCHANGED <<generation, catalog, disposer, recordVars>>
    PROVE  IInv'
<1> DEFINE G == Orphans(H, o)
<1> USE DEF IInv
<1>0. H \subseteq HandleIds /\ G \subseteq H /\ G \in SUBSET Live
  BY DEF Live, Orphans
<1>1. /\ Live' = Live \ G
      /\ phase' \in [HandleIds -> {"free", "live", "detached", "disposing", "gone"}]
      /\ disposingIds' \subseteq Values
      /\ DisposedOnce'
  BY <1>0, DetachPreserves DEF Detach
<1>2. leases' \in [HandleIds -> [Owners -> Nat]]
  BY DEF RemoveOwner, TypeOK
<1>3. identityIndex' \in [Values -> HandleIds \union {NoHandle}]
  BY DEF Detach, TypeOK
<1>4. ownerIndex' \in [Owners -> SUBSET HandleIds]
  BY DEF RemoveOwner, TypeOK
<1>5. TypeOK'
  BY <1>1, <1>2, <1>3, <1>4 DEF TypeOK, recordVars
<1>6. \A g \in HandleIds, p \in Owners :
         leases'[g][p] > 0 <=> leases[g][p] > 0 /\ ~(g \in H /\ p = o)
  BY DEF RemoveOwner, TypeOK
<1>7. \A g \in G, p \in Owners : ~(leases'[g][p] > 0)
  BY <1>0, <1>6 DEF Orphans
<1>8. IndexesExact'
  <2>1. \A v \in Values, g \in HandleIds :
           identityIndex'[v] = g <=> g \in Live' /\ valueOf'[g] = v
    <3> SUFFICES ASSUME NEW v \in Values, NEW g \in HandleIds
                 PROVE  identityIndex'[v] = g <=> g \in Live \ G /\ valueOf[g] = v
      BY <1>1 DEF recordVars
    <3>1. CASE \E h \in G : valueOf[h] = v
      <4>1. identityIndex'[v] = NoHandle
        BY <3>1 DEF Detach
      <4>2. ~(g \in Live \ G /\ valueOf[g] = v)
        BY <3>1, <1>0 DEF IndexesExact, Live
      <4> QED BY <4>1, <4>2, HandleAssumption
    <3>2. CASE ~ \E h \in G : valueOf[h] = v
      BY <3>2 DEF Detach, IndexesExact
    <3> QED BY <3>1, <3>2
  <2>2. \A p \in Owners, g \in HandleIds :
           g \in ownerIndex'[p] <=> g \in Live' /\ leases'[g][p] > 0
    <3>1. \A p \in Owners, g \in HandleIds :
             g \in ownerIndex'[p] <=> g \in ownerIndex[p] /\ ~(g \in H /\ p = o)
      BY DEF RemoveOwner, TypeOK
    <3>2. \A p \in Owners, g \in HandleIds :
             g \in ownerIndex'[p] <=> g \in Live /\ leases'[g][p] > 0
      BY <3>1, <1>6 DEF IndexesExact
    <3> QED BY <3>2, <1>1, <1>7
  <2> QED BY <2>1, <2>2 DEF IndexesExact
<1>9. LiveIsLeased'
  <2> SUFFICES ASSUME NEW g \in Live'
               PROVE  /\ \E p \in Owners : leases'[g][p] > 0
                      /\ born'[g] = generation'
    BY DEF LiveIsLeased
  <2>1. g \in Live /\ g \notin G /\ g \in HandleIds
    BY <1>1 DEF Live
  <2>2. born'[g] = generation'
    BY <2>1 DEF LiveIsLeased, recordVars
  <2>3. CASE g \in H
    <3>1. PICK p \in Owners \ {o} : leases[g][p] # 0
      BY <2>1, <2>3 DEF Orphans
    <3>2. leases[g][p] > 0
      BY <2>1, <3>1 DEF TypeOK
    <3> QED BY <2>1, <2>2, <3>1, <3>2, <1>6
  <2>4. CASE g \notin H
    BY <2>1, <2>2, <2>4, <1>6 DEF LiveIsLeased
  <2> QED BY <2>3, <2>4
<1>10. LiveIsTyped'
  BY <1>1 DEF LiveIsTyped, recordVars
<1> QED BY <1>1, <1>5, <1>8, <1>9, <1>10

LEMMA ResetPreserves ==
    ASSUME IInv, Reset
    PROVE  IInv'
<1> USE DEF IInv, Reset
<1>1. /\ Live' = {}
      /\ phase' \in [HandleIds -> {"free", "live", "detached", "disposing", "gone"}]
      /\ disposingIds' \subseteq Values
      /\ DisposedOnce'
  <2>1. phase' = [h \in HandleIds |->
                    IF h \notin Live THEN phase[h]
                    ELSE IF disposer[h] THEN "detached" ELSE "gone"]
    OBVIOUS
  <2>2. Live \in SUBSET Live
    OBVIOUS
  <2> QED BY <2>1, <2>2, DetachPreserves
<1>2. generation' \in Nat
  BY DEF TypeOK
<1>3. TypeOK'
  BY <1>1, <1>2 DEF TypeOK, NoLeases, recordVars
<1>4. IndexesExact'
  BY <1>1, HandleAssumption DEF IndexesExact
<1>5. LiveIsLeased' /\ LiveIsTyped'
  BY <1>1 DEF LiveIsLeased, LiveIsTyped
<1> QED BY <1>1, <1>3, <1>4, <1>5

LEMMA CallDisposerPreserves ==
    ASSUME IInv, NEW h \in HandleIds, CallDisposer(h)
    PROVE  IInv'
<1> USE DEF CallDisposer, recordVars, IInv
<1>1. TypeOK'
  BY DEF TypeOK
<1>2. Live' = Live /\ Detached' = Detached
  BY DEF Live, Detached, TypeOK
<1> QED BY <1>1, <1>2 DEF IndexesExact, LiveIsLeased, DisposedOnce, LiveIsTyped

LEMMA DisposerEndsPreserves ==
    ASSUME IInv, NEW h \in HandleIds, DisposerEnds(h)
    PROVE  IInv'
<1> USE DEF DisposerEnds, recordVars, IInv
<1>1. TypeOK'
  BY DEF TypeOK
<1>2. Live' = Live /\ Detached' = Detached \ {h} /\ h \in Detached
  BY DEF Live, Detached, TypeOK
<1>3. DisposedOnce'
  <2>1. disposingIds' = {valueOf[g] : g \in Detached'}
    BY <1>2 DEF DisposedOnce
  <2> QED BY <1>2, <2>1 DEF DisposedOnce
<1> QED BY <1>1, <1>2, <1>3 DEF IndexesExact, LiveIsLeased, LiveIsTyped

LEMMA NextPreserves == IInv /\ [Next]_vars => IInv'
<1> SUFFICES ASSUME IInv, [Next]_vars PROVE IInv'
  OBVIOUS
<1>1. ASSUME NEW accepted \in SUBSET Contracts, BindDataTypes(accepted) PROVE IInv'
  BY <1>1, BindPreserves
<1>2. ASSUME NEW v \in Values, NEW c \in Contracts, NEW o \in Owners,
             NEW disposable \in BOOLEAN, RegisterAgain(v, c, o, disposable)
      PROVE  IInv'
  <2>1. identityIndex[v] \in HandleIds /\ identityIndex[v] \in Live
    BY <1>2 DEF RegisterAgain, Live
  <2>2. disposer' \in [HandleIds -> BOOLEAN]
    BY <1>2, <2>1 DEF RegisterAgain, IInv, TypeOK
  <2> QED BY <1>2, <2>1, <2>2, AddLeasePreserves DEF RegisterAgain
<1>3. ASSUME NEW h \in HandleIds, NEW v \in Values, NEW c \in Contracts,
             NEW o \in Owners, NEW disposable \in BOOLEAN,
             RegisterNew(h, v, c, o, disposable)
      PROVE  IInv'
  BY <1>3, RegisterNewPreserves
<1>4. ASSUME NEW h \in HandleIds, NEW holder \in Owners, NEW o \in Owners,
             Lease(h, holder, o)
      PROVE  IInv'
  <2>1. h \in Live /\ disposer' \in [HandleIds -> BOOLEAN]
    BY <1>4 DEF Lease, Resolves, Live, IInv, TypeOK
  <2> QED BY <1>4, <2>1, AddLeasePreserves DEF Lease
<1>5. ASSUME NEW h \in HandleIds, NEW o \in Owners, ReleaseOne(h, o) PROVE IInv'
  BY <1>5, ReleaseOnePreserves
<1>6. ASSUME NEW h \in HandleIds, NEW o \in Owners, ReleaseLast(h, o) PROVE IInv'
  <2>1. {h} \in SUBSET Live
    BY <1>6 DEF ReleaseLast, Resolves, Live
  <2> QED BY <1>6, <2>1, RemoveOwnerPreserves DEF ReleaseLast
<1>7. ASSUME NEW o \in Owners, ReleaseOwnerScope(o) PROVE IInv'
  <2>1. ownerIndex[o] \intersect Live \in SUBSET Live
    OBVIOUS
  <2> QED BY <1>7, <2>1, RemoveOwnerPreserves DEF ReleaseOwnerScope
<1>8. CASE Reset
  BY <1>8, ResetPreserves
<1>9. ASSUME NEW h \in HandleIds, CallDisposer(h) PROVE IInv'
  BY <1>9, CallDisposerPreserves
<1>10. ASSUME NEW h \in HandleIds, DisposerEnds(h) PROVE IInv'
  BY <1>10, DisposerEndsPreserves
<1>11. CASE UNCHANGED vars
  BY <1>11 DEF vars, IInv, TypeOK, IndexesExact, LiveIsLeased, DisposedOnce,
               LiveIsTyped, Live, Detached
<1> QED BY <1>1, <1>2, <1>3, <1>4, <1>5, <1>6, <1>7, <1>8, <1>9, <1>10, <1>11
        DEF Next, Register

(* The invariants together are inductive, and hold in every reachable      *)
(* state of the registry.                                                  *)
THEOREM InvariantHolds == Spec => []IInv
BY InitEstablishes, NextPreserves, PTL DEF Spec

(* Every variable of the registry keeps its type: no lease count ever goes *)
(* below zero, no index entry leaves the table's handles.                  *)
THEOREM TypeCorrect == Spec => []TypeOK
<1>1. IInv => TypeOK
  BY DEF IInv
<1> QED BY <1>1, InvariantHolds, PTL

(* The identity index and the owner index are exactly the inverse of the   *)
(* records.                                                                *)
THEOREM IndexesAreExact == Spec => []IndexesExact
<1>1. IInv => IndexesExact
  BY DEF IInv
<1> QED BY <1>1, InvariantHolds, PTL

(* No value is live, or disposed a second time, while a disposer of it is  *)
(* pending or running.                                                     *)
THEOREM ValuesAreDisposedOnce == Spec => []DisposedOnce
<1>1. IInv => DisposedOnce
  BY DEF IInv
<1> QED BY <1>1, InvariantHolds, PTL

---------------------------------------------------------------------------
(* Refinement.  An object's holders are the leases of the record its       *)
(* identity leads to.                                                      *)
LEMMA InitRefines == Init => Lifetime!Init
<1> SUFFICES ASSUME Init PROVE Lifetime!Init
  OBVIOUS
<1> QED BY DEF Init, Lifetime!Init, Lifetime!NoHolders, holdersOf, owedValues, NoLeases

(* One more lease on a live handle is one more lease on its object.        *)
LEMMA AddLeaseRefines ==
    ASSUME IInv, NEW h \in Live, NEW o \in Owners, NEW d \in BOOLEAN,
           AddLease(h, o), disposer' = [disposer EXCEPT ![h] = @ \/ d],
           valueOf[h] \notin disposingIds,
           UNCHANGED <<identityIndex, disposingIds>>
    PROVE  Lifetime!Acquire(valueOf[h], o, d)
<1> DEFINE v == valueOf[h]
<1> USE DEF IInv
<1>1. h \in HandleIds /\ v \in Values /\ identityIndex[v] = h
  BY DEF Live, TypeOK, IndexesExact
<1>2. \A w \in Values : identityIndex[w] = h => w = v
  BY <1>1 DEF IndexesExact
<1>3. holdersOf \in [Values -> [Owners -> Nat]]
  BY DEF holdersOf, TypeOK, NoLeases
<1>4. holdersOf' = [holdersOf EXCEPT ![v][o] = @ + 1]
  BY <1>1, <1>2, <1>3, HandleAssumption DEF holdersOf, AddLease, TypeOK
<1>5. owedValues' = IF d THEN owedValues \union {v} ELSE owedValues
  BY <1>1, <1>2, HandleAssumption DEF owedValues, TypeOK
<1> QED BY <1>4, <1>5 DEF Lifetime!Acquire

LEMMA RegisterNewRefines ==
    ASSUME IInv, NEW h \in HandleIds, NEW v \in Values, NEW c \in Contracts,
           NEW o \in Owners, NEW d \in BOOLEAN, RegisterNew(h, v, c, o, d)
    PROVE  Lifetime!Acquire(v, o, d)
<1> USE DEF IInv, RegisterNew
<1>1. \A w \in Values : w # v => identityIndex'[w] = identityIndex[w] /\ identityIndex[w] # h
  BY DEF IndexesExact, TypeOK, Live
<1>2. identityIndex'[v] = h /\ h # NoHandle
  BY HandleAssumption DEF TypeOK
<1>3. \A g \in HandleIds : g # h => leases'[g] = leases[g] /\ disposer'[g] = disposer[g]
  BY DEF TypeOK
<1>4. leases'[h] = [NoLeases EXCEPT ![o] = 1] /\ disposer'[h] = d
  BY DEF TypeOK
<1>5. holdersOf' = [holdersOf EXCEPT ![v][o] = @ + 1]
  <2>1. holdersOf[v] = NoLeases
    BY DEF holdersOf
  <2>2. \A w \in Values : w # v => holdersOf'[w] = holdersOf[w]
    BY <1>1, <1>3, HandleAssumption DEF holdersOf, TypeOK
  <2>3. holdersOf'[v] = [holdersOf[v] EXCEPT ![o] = @ + 1]
    BY <2>1, <1>2, <1>4 DEF holdersOf, NoLeases
  <2>4. /\ holdersOf = [w \in Values |-> holdersOf[w]]
        /\ holdersOf' = [w \in Values |-> holdersOf'[w]]
    BY DEF holdersOf
  <2> QED BY <2>2, <2>3, <2>4
<1>6. owedValues' = IF d THEN owedValues \union {v} ELSE owedValues
  <2>1. v \notin owedValues
    BY DEF owedValues
  <2>2. \A w \in Values : w # v => (w \in owedValues' <=> w \in owedValues)
    BY <1>1, <1>3 DEF owedValues, TypeOK
  <2>3. v \in owedValues' <=> d
    BY <1>2, <1>4 DEF owedValues
  <2> QED BY <2>1, <2>2, <2>3 DEF owedValues
<1> QED BY <1>5, <1>6 DEF Lifetime!Acquire

(* Whatever leases go, a record goes exactly when its last one does.       *)
LEMMA SurrenderRefines ==
    ASSUME IInv, IInv', NEW G \in SUBSET Live,
           NEW left \in [Values -> [Owners -> Nat]],
           \A v \in Values, p \in Owners : left[v][p] <= holdersOf[v][p],
           holdersOf' = left,
           identityIndex' = [v \in Values |->
                    IF \E h \in G : valueOf[h] = v THEN NoHandle
                    ELSE identityIndex[v]],
           disposingIds' = disposingIds \union
                           {valueOf[h] : h \in {x \in G : disposer[x]}},
           UNCHANGED disposer
    PROVE  Lifetime!Surrender(left)
<1> USE DEF IInv
<1>1. \A v \in Values : left[v] = Lifetime!NoHolders <=> identityIndex'[v] = NoHandle
  <2> SUFFICES ASSUME NEW v \in Values
               PROVE  left[v] = Lifetime!NoHolders <=> identityIndex'[v] = NoHandle
    OBVIOUS
  <2>1. CASE identityIndex'[v] = NoHandle
    BY <2>1 DEF holdersOf, NoLeases, Lifetime!NoHolders
  <2>2. CASE identityIndex'[v] # NoHandle
    <3>1. identityIndex'[v] \in HandleIds /\ identityIndex'[v] \in Live'
      BY <2>2 DEF TypeOK, IndexesExact
    <3>2. PICK p \in Owners : leases'[identityIndex'[v]][p] > 0
      BY <3>1 DEF LiveIsLeased
    <3>3. left[v][p] > 0
      BY <2>2, <3>2 DEF holdersOf
    <3> QED BY <2>2, <3>3 DEF Lifetime!NoHolders
  <2> QED BY <2>1, <2>2
<1>2. \A v \in Values : (\E h \in G : valueOf[h] = v /\ disposer[h])
                        <=> v \in owedValues /\ identityIndex'[v] = NoHandle
  <2>1. \A h \in G : /\ h \in HandleIds /\ valueOf[h] \in Values
                     /\ identityIndex[valueOf[h]] = h
    BY DEF IndexesExact, Live, TypeOK
  <2>2. \A h \in G : h # NoHandle
    BY <2>1, HandleAssumption
  <2> QED BY <2>1, <2>2 DEF owedValues
<1>3. disposingIds' = disposingIds \union {v \in owedValues : left[v] = Lifetime!NoHolders}
  <2>1. {valueOf[h] : h \in {x \in G : disposer[x]}}
           = {v \in owedValues : left[v] = Lifetime!NoHolders}
    <3>1. \A h \in G : valueOf[h] \in Values
      BY DEF Live, TypeOK
    <3>2. owedValues \subseteq Values
      BY DEF owedValues
    <3> QED BY <3>1, <3>2, <1>1, <1>2
  <2> QED BY <2>1
<1>4. owedValues' = {v \in owedValues : left[v] # Lifetime!NoHolders}
  <2>1. \A v \in Values : identityIndex'[v] # NoHandle => identityIndex'[v] = identityIndex[v]
    OBVIOUS
  <2> QED BY <2>1, <1>1 DEF owedValues
<1> QED BY <1>3, <1>4 DEF Lifetime!Surrender

LEMMA RemoveOwnerRefines ==
    ASSUME IInv, IInv', NEW o \in Owners, NEW H \in SUBSET Live,
           RemoveOwner(H, o), Detach(Orphans(H, o)),
           UNCHANGED <<disposer, recordVars>>
    PROVE  Lifetime!Surrender([v \in Values |->
               IF identityIndex[v] \in H THEN [holdersOf[v] EXCEPT ![o] = 0]
               ELSE holdersOf[v]])
<1> USE DEF IInv
<1> DEFINE G == Orphans(H, o)
           left == [v \in Values |->
               IF identityIndex[v] \in H THEN [holdersOf[v] EXCEPT ![o] = 0]
               ELSE holdersOf[v]]
<1>1. holdersOf \in [Values -> [Owners -> Nat]]
  BY DEF holdersOf, TypeOK, NoLeases
<1>2. left \in [Values -> [Owners -> Nat]]
  BY <1>1
<1>3. \A v \in Values, p \in Owners : left[v][p] <= holdersOf[v][p]
  BY <1>1
<1>4. G \in SUBSET Live /\ G \subseteq H /\ H \subseteq HandleIds
  BY DEF Orphans, Live
<1>5. \A v \in Values : holdersOf'[v] = left[v]
  <2> SUFFICES ASSUME NEW v \in Values PROVE holdersOf'[v] = left[v]
    OBVIOUS
  <2>1. holdersOf'[v] = IF identityIndex'[v] = NoHandle THEN NoLeases
                        ELSE leases'[identityIndex'[v]]
    BY DEF holdersOf
  <2>2. holdersOf[v] = IF identityIndex[v] = NoHandle THEN NoLeases
                       ELSE leases[identityIndex[v]]
    BY DEF holdersOf
  <2>3. CASE identityIndex[v] = NoHandle
    <3>1. identityIndex'[v] = NoHandle /\ identityIndex[v] \notin H
      BY <2>3, <1>4, HandleAssumption DEF Detach
    <3> QED BY <3>1, <2>1, <2>2, <2>3
  <2>4. CASE identityIndex[v] # NoHandle
    <3> DEFINE h == identityIndex[v]
    <3>1. h \in HandleIds /\ h \in Live /\ valueOf[h] = v /\ h # NoHandle
      BY <2>4 DEF TypeOK, IndexesExact
    <3>2. \A g \in Live : valueOf[g] = v => g = h
      BY DEF IndexesExact, Live
    <3>3. CASE h \in G
      <4>1. identityIndex'[v] = NoHandle
        BY <3>1, <3>3 DEF Detach
      <4>2. \A p \in Owners \ {o} : leases[h][p] = 0
        BY <3>3 DEF Orphans
      <4>3. left[v] = [leases[h] EXCEPT ![o] = 0]
        <5>1. identityIndex[v] \in H
          BY <3>3, <1>4
        <5>2. left[v] = [holdersOf[v] EXCEPT ![o] = 0]
          BY <5>1
        <5>3. holdersOf[v] = leases[h]
          BY <2>2, <2>4
        <5> HIDE DEF left
        <5> QED BY <5>2, <5>3
      <4>4. [leases[h] EXCEPT ![o] = 0] = NoLeases
        BY <4>2, <3>1 DEF NoLeases, TypeOK
      <4> QED BY <4>1, <4>3, <4>4, <2>1
    <3>4. CASE h \notin G
      <4>1. identityIndex'[v] = h
        BY <3>2, <3>4, <1>4 DEF Detach
      <4>2. leases'[h] = IF h \in H THEN [leases[h] EXCEPT ![o] = 0] ELSE leases[h]
        BY <3>1 DEF RemoveOwner
      <4> QED BY <4>1, <4>2, <2>1, <2>2, <3>1
    <3> QED BY <3>3, <3>4
  <2> QED BY <2>3, <2>4
<1>6. holdersOf' = left
  BY <1>5 DEF holdersOf
<1>7. /\ identityIndex' = [v \in Values |->
                    IF \E h \in G : valueOf[h] = v THEN NoHandle
                    ELSE identityIndex[v]]
      /\ disposingIds' = disposingIds \union
                           {valueOf[h] : h \in {x \in G : disposer[x]}}
  BY DEF Detach
<1> HIDE DEF left, G
<1>8. Lifetime!Surrender(left)
  BY <1>2, <1>3, <1>4, <1>6, <1>7, SurrenderRefines
<1> QED BY <1>8 DEF left

LEMMA ReleaseOneRefines ==
    ASSUME IInv, IInv', NEW h \in HandleIds, NEW o \in Owners, ReleaseOne(h, o)
    PROVE  Lifetime!Release(valueOf[h], o)
<1> USE DEF IInv, ReleaseOne, Resolves
<1> DEFINE v == valueOf[h]
           left == [holdersOf EXCEPT ![v][o] = @ - 1]
<1>1. v \in Values /\ identityIndex[v] = h /\ h # NoHandle
  BY HandleAssumption DEF Live, TypeOK, IndexesExact
<1>2. \A w \in Values : identityIndex[w] = h => w = v
  BY <1>1 DEF IndexesExact
<1>3. holdersOf \in [Values -> [Owners -> Nat]]
  BY DEF holdersOf, TypeOK, NoLeases
<1>4. holdersOf[v] = leases[h] /\ holdersOf[v][o] > 1
  BY <1>1 DEF holdersOf
<1>5. left \in [Values -> [Owners -> Nat]]
  BY <1>1, <1>3, <1>4
<1>6. \A w \in Values, p \in Owners : left[w][p] <= holdersOf[w][p]
  BY <1>3
<1>7. holdersOf' = left
  BY <1>1, <1>2, <1>3, <1>4, HandleAssumption DEF holdersOf, TypeOK
<1>8. identityIndex' = [w \in Values |->
                    IF \E g \in {} : valueOf[g] = w THEN NoHandle
                    ELSE identityIndex[w]]
  BY DEF TypeOK
<1>9. disposingIds' = disposingIds \union {valueOf[g] : g \in {x \in {} : disposer[x]}}
  OBVIOUS
<1>10. {} \in SUBSET Live
  OBVIOUS
<1> HIDE DEF left
<1>11. Lifetime!Surrender(left)
  BY <1>5, <1>6, <1>7, <1>8, <1>9, <1>10, SurrenderRefines
<1>12. holdersOf[v][o] > 0
  BY <1>3, <1>4, <1>1
<1> QED BY <1>11, <1>12 DEF left, Lifetime!Release

LEMMA ResetRefines ==
    ASSUME IInv, IInv', Reset
    PROVE  Lifetime!ReleaseAll
<1> USE DEF IInv, Reset
<1> DEFINE left == [v \in Values |-> NoLeases]
<1>1. left \in [Values -> [Owners -> Nat]]
  BY DEF NoLeases
<1>2. holdersOf \in [Values -> [Owners -> Nat]]
  BY DEF holdersOf, TypeOK, NoLeases
<1>3. \A v \in Values, p \in Owners : left[v][p] <= holdersOf[v][p]
  BY <1>2 DEF NoLeases
<1>4. holdersOf' = left
  BY DEF holdersOf
<1>5. identityIndex' = [v \in Values |->
                    IF \E h \in Live : valueOf[h] = v THEN NoHandle
                    ELSE identityIndex[v]]
  <2>1. \A v \in Values : (\E h \in Live : valueOf[h] = v) \/ identityIndex[v] = NoHandle
    BY DEF IndexesExact, TypeOK
  <2> QED BY <2>1
<1>6. Live \in SUBSET Live
  OBVIOUS
<1> HIDE DEF left
<1>7. Lifetime!Surrender(left)
  BY <1>1, <1>3, <1>4, <1>5, <1>6, SurrenderRefines
<1> QED BY <1>7 DEF left, Lifetime!ReleaseAll, Lifetime!NoHolders, NoLeases

LEMMA NextRefines == IInv /\ IInv' /\ [Next]_vars => [Lifetime!Next]_(Lifetime!vars)
<1> SUFFICES ASSUME IInv, IInv', [Next]_vars
             PROVE  Lifetime!Next \/ UNCHANGED Lifetime!vars
  OBVIOUS
<1> USE DEF IInv
<1>1. ASSUME UNCHANGED <<identityIndex, leases, disposer, disposingIds>>
      PROVE  UNCHANGED Lifetime!vars
  BY <1>1 DEF Lifetime!vars, holdersOf, owedValues
<1>2. ASSUME NEW accepted \in SUBSET Contracts, BindDataTypes(accepted)
      PROVE  UNCHANGED Lifetime!vars
  BY <1>1, <1>2 DEF BindDataTypes
<1>3. ASSUME NEW v \in Values, NEW c \in Contracts, NEW o \in Owners,
             NEW d \in BOOLEAN, RegisterAgain(v, c, o, d)
      PROVE  Lifetime!Next
  <2>1. identityIndex[v] \in Live /\ valueOf[identityIndex[v]] = v
    BY <1>3 DEF RegisterAgain, IndexesExact, Live
  <2>2. Lifetime!Acquire(v, o, d)
    BY <1>3, <2>1, AddLeaseRefines DEF RegisterAgain
  <2> QED BY <2>2 DEF Lifetime!Next
<1>4. ASSUME NEW h \in HandleIds, NEW v \in Values, NEW c \in Contracts,
             NEW o \in Owners, NEW d \in BOOLEAN, RegisterNew(h, v, c, o, d)
      PROVE  Lifetime!Next
  BY <1>4, RegisterNewRefines DEF Lifetime!Next
<1>5. ASSUME NEW h \in HandleIds, NEW holder \in Owners, NEW o \in Owners,
             Lease(h, holder, o)
      PROVE  Lifetime!Next
  <2>1. h \in Live /\ valueOf[h] \in Values /\ valueOf[h] \notin disposingIds
    BY <1>5 DEF Lease, Resolves, Live, TypeOK, DisposedOnce
  <2>2. disposer' = [disposer EXCEPT ![h] = @ \/ FALSE]
    BY <1>5 DEF Lease, TypeOK
  <2>3. Lifetime!Acquire(valueOf[h], o, FALSE)
    BY <1>5, <2>1, <2>2, AddLeaseRefines DEF Lease
  <2> QED BY <2>1, <2>3 DEF Lifetime!Next
<1>6. ASSUME NEW h \in HandleIds, NEW o \in Owners, ReleaseOne(h, o)
      PROVE  Lifetime!Next
  <2>1. valueOf[h] \in Values
    BY DEF TypeOK
  <2> QED BY <1>6, <2>1, ReleaseOneRefines DEF Lifetime!Next
<1>7. ASSUME NEW h \in HandleIds, NEW o \in Owners, ReleaseLast(h, o)
      PROVE  Lifetime!Next
  <2> DEFINE v == valueOf[h]
             left == [w \in Values |->
                 IF identityIndex[w] \in {h} THEN [holdersOf[w] EXCEPT ![o] = 0]
                 ELSE holdersOf[w]]
  <2>1. {h} \in SUBSET Live
    BY <1>7 DEF ReleaseLast, Resolves, Live
  <2>2. Lifetime!Surrender(left)
    BY <1>7, <2>1, RemoveOwnerRefines DEF ReleaseLast, recordVars
  <2>3. v \in Values /\ identityIndex[v] = h /\ h # NoHandle
    BY <2>1, HandleAssumption DEF Live, TypeOK, IndexesExact
  <2>4. \A w \in Values : identityIndex[w] = h => w = v
    BY <2>3 DEF IndexesExact
  <2>5. holdersOf[v] = leases[h] /\ leases[h][o] = 1
    BY <1>7, <2>3 DEF holdersOf, ReleaseLast
  <2>6. left = [holdersOf EXCEPT ![v][o] = @ - 1]
    BY <2>3, <2>4, <2>5 DEF holdersOf
  <2>7. Lifetime!Release(v, o)
    <3> HIDE DEF left
    <3>1. holdersOf[v][o] > 0
      BY <2>5
    <3> QED BY <2>2, <2>6, <3>1 DEF Lifetime!Release
  <2> QED BY <2>3, <2>7 DEF Lifetime!Next
<1>8. ASSUME NEW o \in Owners, ReleaseOwnerScope(o)
      PROVE  Lifetime!Next
  <2> DEFINE H == ownerIndex[o] \intersect Live
             left == [v \in Values |->
                 IF identityIndex[v] \in H THEN [holdersOf[v] EXCEPT ![o] = 0]
                 ELSE holdersOf[v]]
  <2>1. Lifetime!Surrender(left)
    BY <1>8, RemoveOwnerRefines DEF ReleaseOwnerScope, recordVars
  <2>2. left = [v \in Values |-> [holdersOf[v] EXCEPT ![o] = 0]]
    <3> SUFFICES ASSUME NEW v \in Values, identityIndex[v] \notin H
                 PROVE  holdersOf[v] = [holdersOf[v] EXCEPT ![o] = 0]
      OBVIOUS
    <3>1. CASE identityIndex[v] = NoHandle
      BY <3>1 DEF holdersOf, NoLeases
    <3>2. CASE identityIndex[v] # NoHandle
      <4>1. identityIndex[v] \in HandleIds /\ identityIndex[v] \in Live
        BY <3>2 DEF TypeOK, IndexesExact
      <4>2. leases[identityIndex[v]] \in [Owners -> Nat]
        BY <4>1 DEF TypeOK
      <4>3. ~(leases[identityIndex[v]][o] > 0)
        BY <4>1 DEF IndexesExact
      <4>4. leases[identityIndex[v]][o] = 0
        BY <4>2, <4>3
      <4> QED BY <3>2, <4>2, <4>4 DEF holdersOf
    <3> QED BY <3>1, <3>2
  <2> HIDE DEF left
  <2>3. Lifetime!ReleaseScope(o)
    BY <2>1, <2>2 DEF Lifetime!ReleaseScope
  <2> QED BY <2>3 DEF Lifetime!Next
<1>9. CASE Reset
  BY <1>9, ResetRefines DEF Lifetime!Next
<1>10. ASSUME NEW h \in HandleIds, CallDisposer(h)
       PROVE  UNCHANGED Lifetime!vars
  BY <1>1, <1>10 DEF CallDisposer
<1>11. ASSUME NEW h \in HandleIds, DisposerEnds(h)
       PROVE  Lifetime!Next
  <2>1. valueOf[h] \in Values /\ valueOf[h] \in disposingIds
    BY <1>11 DEF DisposerEnds, DisposedOnce, Detached, TypeOK
  <2>2. holdersOf' = holdersOf /\ owedValues' = owedValues
    BY <1>11 DEF DisposerEnds, holdersOf, owedValues
  <2>3. Lifetime!Closed(valueOf[h])
    BY <1>11, <2>1, <2>2 DEF DisposerEnds, Lifetime!Closed
  <2> QED BY <2>1, <2>3 DEF Lifetime!Next
<1>12. CASE UNCHANGED vars
  BY <1>1, <1>12 DEF vars
<1> QED BY <1>2, <1>3, <1>4, <1>5, <1>6, <1>7, <1>8, <1>9, <1>10, <1>11, <1>12
        DEF Next, Register

(* The registry, with its handles, indexes and delayed disposers, keeps    *)
(* the lifetime ResourceLifetime promises: an object lives while anybody   *)
(* holds a lease on it and is closed once when nobody does.                *)
THEOREM RegistryKeepsLifetime == Spec => ImplementsLifetime
<1>1. Init => Lifetime!Init
  BY InitRefines
<1>2. IInv /\ IInv' /\ [Next]_vars => [Lifetime!Next]_(Lifetime!vars)
  BY NextRefines
<1> QED BY <1>1, <1>2, InvariantHolds, PTL DEF Spec, ImplementsLifetime, Lifetime!Spec
===========================================================================
