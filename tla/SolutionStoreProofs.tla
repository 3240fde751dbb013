------------------------ MODULE SolutionStoreProofs ------------------------
(***************************************************************************)
(* For any graph, limits, number of submissions, edits and generations:    *)
(* the variables keep their types; a CURRENT fact is of the graph as it    *)
(* is; records that a preparation or a run counts on are not evicted; and  *)
(* a submission that is over holds nothing of the store.                   *)
(*                                                                         *)
(* The inductive invariant is IInv.  Its first half is about revisions:    *)
(* each captured revision is a promise that nothing upstream of the node   *)
(* has changed while the node's revision stays at it.  Its second half is  *)
(* about the life of a run: whose it is, which generation it belongs to,   *)
(* and what the listener of its backend can have in its hands.             *)
(*                                                                         *)
(* With a single backend a CURRENT fact keeps its record, which is what    *)
(* Retention adds: a second backend could settle and evict between the     *)
(* acceptance of a run and the failure of its start.                       *)
(***************************************************************************)
EXTENDS SolutionStore, FiniteSetTheorems, TLAPS

---------------------------------------------------------------------------
(* The inductive invariant.                                                *)

(* What n is computed from in graph g.                                     *)
InputsOf(g, n) == [m \in Above[n] |-> g[m]]
Same(g, n) == \A m \in Above[n] : g[m] = graph[m]

Decided(p) == step[p] \notin {"idle", "captured"}

(* The preparation is of this project: its revisions count.                *)
Trusted(p) ==
    \/ p \in preparations \/ runs[p] # None
    \/ step[p] = "computed" /\ prep[p].binding = binding

(* The workspace's revision is a promise about the whole graph.            *)
RevisionOf(p) ==
    /\ prep[p].binding <= binding
    /\ Trusted(p) \/ (step[p] = "captured" /\ prep[p].binding = binding) =>
          /\ prep[p].revision <= workspaceRevision
          /\ prep[p].revision = workspaceRevision => prep[p].graph = graph
    /\ step[p] \notin {"accepted", "started"} => prep[p].adopted = -1

RevisionInv == \A p \in Slots : RevisionOf(p)

(* A node's revision is one about what the node is computed from.          *)
CaptureOf(p) ==
    Trusted(p) =>
        \A n \in Nodes :
            /\ prep[p].rev[n] <= nodeRevisions[n]
            /\ prep[p].rev[n] = nodeRevisions[n] /\ prep[p].graph[n] # Gone
                    => Same(prep[p].graph, n)

CaptureInv == \A p \in Slots : CaptureOf(p)

(* So is the revision of a fact that is CURRENT, or may be again.          *)
FactHolds(n) ==
    /\ facts[n].fresh = "current" \/ (facts[n].fresh = "expired" /\ facts[n].why = "recompute")
            => facts[n].rev = nodeRevisions[n]
    /\ facts[n].fresh = "current" =>
          /\ graph[n] # Gone
          /\ facts[n].key.inputs = InputsOf(graph, n)

FactInv == \A n \in Nodes : FactHolds(n)

(* And that of a fact a failed start would restore.                        *)
BeforeHolds(p, n) ==
    runs[p] # None /\ runs[p].before[n] # Never =>
        LET f == runs[p].before[n] IN
        /\ f.fresh = "current" /\ f.rev <= nodeRevisions[n]
        /\ f.rev = nodeRevisions[n] =>
              /\ graph[n] # Gone
              /\ f.key.inputs = InputsOf(graph, n)

BeforeInv == \A p \in Slots, n \in Nodes : BeforeHolds(p, n)

(* What a decision reads or reuses was found with the worker up.           *)
DecisionOf(p) ==
    Decided(p) =>
        /\ \A n \in Nodes : prep[p].graph[n] = Gone => prep[p].action[n] = "none"
        /\ ~prep[p].snapshot.up => Accepted(p) = {}
        /\ step[p] # "computed" =>
                prep[p].pins \subseteq {prep[p].rec[n] : n \in Accepted(p)}

DecisionInv == \A p \in Slots : DecisionOf(p)

(* A sequence names one record, whose key is the one it is retained for.   *)
LinkRecords == \A r, q \in records : r.seq = q.seq => r = q

LinkFact(n) ==
    /\ facts[n].rec <= sequence
    /\ facts[n].fresh = "current" =>
          \A r \in records : r.seq = facts[n].rec => r.key = facts[n].key

LinkPrep(p, n) ==
    /\ prep[p].rec[n] <= sequence
    /\ Decided(p) /\ n \in Accepted(p) =>
          \A r \in records : r.seq = prep[p].rec[n] =>
              r.key = Key(prep[p].graph, prep[p].backend, n)

LinkRun(p, n) ==
    runs[p] # None /\ runs[p].before[n] # Never =>
        /\ runs[p].before[n].rec <= sequence
        /\ \A r \in records : r.seq = runs[p].before[n].rec => r.key = runs[p].before[n].key

LinkInv ==
    /\ LinkRecords /\ \A n \in Nodes : LinkFact(n)
    /\ \A p \in Slots, n \in Nodes : LinkPrep(p, n) /\ LinkRun(p, n)

(* Whose turn it is.                                                       *)
Busy(p) == step[p] \in {"reserved", "accepted"} \/ worker[p] # "none"

Ending(b, p) == hand[b] # None /\ hand[b].slot = p /\ hand[b].kind = "ended"

SlotInv ==
    /\ \A p \in Slots :
          /\ step[p] # "idle" => prep[p].backend \in Backends
          /\ step[p] \in {"reserved", "accepted"} => prep[p].reserved.up
          /\ worker[p] # "none" => step[p] = "started"
          /\ step[p] = "started" => worker[p] # "none" \/ Ending(prep[p].backend, p)
          /\ \A n \in todo[p] : worker[p] # "none" => prep[p].action[n] \in {"execute", "reuse"}
    /\ \A p, q \in Slots :
          p # q /\ prep[p].backend = prep[q].backend => ~(Busy(p) /\ Busy(q))

(* A run belongs to the generation its backend was last known to have.     *)
RunInv ==
    /\ \A p \in Slots :
          /\ runs[p] # None =>
                /\ step[p] \in {"accepted", "started"}
                /\ runs[p].snapshot = snapshots[prep[p].backend] /\ runs[p].snapshot.up
          /\ p \in triggerReservations =>
                /\ Decided(p)
                /\ step[p] \in {"accepted", "started"} => runs[p] # None
    /\ \A p, q \in triggerReservations : p = q

(* An event is of the worker there is, or of the one that was lost, and of *)
(* the generation the store adopted when it came, unless the project was   *)
(* replaced since.                                                         *)
EventInv ==
    \A b \in Backends : hand[b] # None =>
        LET e == hand[b] IN
        /\ e.tag.gen = live[b].gen /\ (live[b].up => e.tag.up)
        /\ e.binding <= binding
        /\ e.binding = binding => snapshots[b] = e.tag
        /\ e.slot = None <=> e.kind = "changed"
        /\ e.slot # None =>
              /\ step[e.slot] = "started" /\ prep[e.slot].backend = b
              /\ e.kind = "ended" => worker[e.slot] = "none"
              /\ runs[e.slot] # None => e.binding = binding
        /\ e.kind = "settled" =>
              /\ e.node \in Nodes /\ prep[e.slot].action[e.node] = "execute"
              /\ e.result \in Results \union {"failed"}
        /\ e.kind = "reused" =>
              /\ e.node \in Nodes /\ prep[e.slot].action[e.node] = "reuse"

(* On a single backend more holds, see CurrentKept: the record of a CURRENT *)
(* fact is there, and so is that of a fact a failed start would restore.   *)
Keyed == \A r \in records : DOMAIN r.key.inputs = Above[r.node]

Retained == \A n \in Nodes : facts[n].fresh = "current" => Recorded(facts[n].rec)

Restorable(p, n) ==
    /\ runs[p] # None /\ runs[p].before[n] # Never
    /\ facts[n].fresh = "expired" /\ facts[n].why = "recompute"
    /\ facts[n].rev = runs[p].before[n].rev

Recoverable ==
    \A p \in Slots, n \in Nodes :
        step[p] = "accepted" /\ Restorable(p, n) => Recorded(runs[p].before[n].rec)

IInv ==
    /\ TypeOK /\ RevisionInv /\ CaptureInv /\ FactInv /\ BeforeInv
    /\ DecisionInv /\ LinkInv /\ PinnedSurvive
    /\ SlotInv /\ RunInv /\ EventInv
---------------------------------------------------------------------------
(* Decisions.                                                              *)

(* The two sets a decision determines, the nodes it executes and those the *)
(* worker settles, as the least ones closed under demand and recomputation.*)
Needed(targets, n, X) == n \in targets \/ \E m \in Nodes : n \in Inputs[m] /\ m \in X
Tainted(n, E) == \E m \in Above[n] \ {n} : m \in E

Executes(g, targets, readable, reusable, E, X) ==
    {n \in Nodes : /\ g[n] # Gone /\ Needed(targets, n, X)
                   /\ Tainted(n, E) \/ n \notin (readable \ targets) \union reusable}
Settles(g, targets, readable, E, X) ==
    {n \in Nodes : /\ g[n] # Gone /\ Needed(targets, n, X)
                   /\ Tainted(n, E) \/ n \notin readable \ targets}

(* There is a decision that agrees with demand and recomputation and       *)
(* executes least, whatever the graph: the CHOOSE of Decision finds one.   *)
LEMMA DecisionDecides ==
    ASSUME NEW g, NEW targets, NEW readable, NEW reusable
    PROVE  /\ Decision(g, targets, readable, reusable) \in [Nodes -> Actions]
           /\ Decides(Decision(g, targets, readable, reusable), g, targets, readable, reusable)
<1> DEFINE FE(E, X) == Executes(g, targets, readable, reusable, E, X)
           FX(E, X) == Settles(g, targets, readable, E, X)
           Closed(E, X) == FE(E, X) \subseteq E /\ FX(E, X) \subseteq X
           LE == {n \in Nodes : \A E, X \in SUBSET Nodes : Closed(E, X) => n \in E}
           LX == {n \in Nodes : \A E, X \in SUBSET Nodes : Closed(E, X) => n \in X}
           agreeing == {a \in [Nodes -> Actions] : Decides(a, g, targets, readable, reusable)}
           least(a) == \A other \in agreeing : Executing(a) \subseteq Executing(other)
<1>1. ASSUME NEW E, NEW X, NEW E2, NEW X2, E \subseteq E2, X \subseteq X2
      PROVE  FE(E, X) \subseteq FE(E2, X2) /\ FX(E, X) \subseteq FX(E2, X2)
  BY <1>1 DEF Executes, Settles, Needed, Tainted
<1>2. ASSUME NEW E \in SUBSET Nodes, NEW X \in SUBSET Nodes, Closed(E, X)
      PROVE  LE \subseteq E /\ LX \subseteq X
  BY <1>2
<1>3. FE(LE, LX) \subseteq LE /\ FX(LE, LX) \subseteq LX
  <2>1. ASSUME NEW E \in SUBSET Nodes, NEW X \in SUBSET Nodes, Closed(E, X)
        PROVE  FE(LE, LX) \subseteq E /\ FX(LE, LX) \subseteq X
    <3> HIDE DEF LE, LX, FE, FX
    <3>1. LE \subseteq E /\ LX \subseteq X
      BY <1>2, <2>1
    <3>2. FE(LE, LX) \subseteq FE(E, X) /\ FX(LE, LX) \subseteq FX(E, X)
      BY <1>1, <3>1
    <3> QED BY <2>1, <3>2
  <2>2. FE(LE, LX) \subseteq Nodes /\ FX(LE, LX) \subseteq Nodes
    BY DEF Executes, Settles
  <2> HIDE DEF FE, FX
  <2> QED BY <2>1, <2>2
<1>4. LE = FE(LE, LX) /\ LX = FX(LE, LX)
  <2> DEFINE E1 == FE(LE, LX)
             X1 == FX(LE, LX)
  <2>1. E1 \in SUBSET Nodes /\ X1 \in SUBSET Nodes
    BY DEF Executes, Settles
  <2> HIDE DEF LE, LX, FE, FX
  <2>2. Closed(E1, X1)
    BY <1>1, <1>3
  <2> QED BY <1>2, <1>3, <2>1, <2>2
<1> DEFINE best == [n \in Nodes |->
               IF g[n] = Gone THEN "none"
               ELSE IF ~Needed(targets, n, LX) THEN "prune"
               ELSE IF ~Tainted(n, LE) /\ n \in readable \ targets THEN "read"
               ELSE IF ~Tainted(n, LE) /\ n \in reusable THEN "reuse" ELSE "execute"]
<1> HIDE DEF LE, LX
<1>5. \A n \in Nodes :
        /\ best[n] = "execute" <=> n \in LE
        /\ best[n] \in {"execute", "reuse"} <=> n \in LX
  BY <1>4 DEF Executes, Settles
<1>6. best \in agreeing
  <2>1. best \in [Nodes -> Actions]
    BY DEF Actions
  <2>2. ASSUME NEW n \in Nodes
        PROVE  /\ Needed(targets, n, LX) <=>
                    (n \in targets \/ \E m \in Nodes : n \in Inputs[m] /\ best[m] \in {"execute", "reuse"})
               /\ Tainted(n, LE) <=> \E m \in Above[n] \ {n} : best[m] = "execute"
    <3>1. Above[n] \subseteq Nodes
      BY StoreAssumption
    <3> HIDE DEF best
    <3> QED BY <1>5, <3>1 DEF Needed, Tainted
  <2>3. Decides(best, g, targets, readable, reusable)
    <3> SUFFICES ASSUME NEW n \in Nodes
                 PROVE  best[n] =
                    CASE g[n] = Gone -> "none"
                      [] g[n] # Gone /\ ~Needed(targets, n, LX) -> "prune"
                      [] g[n] # Gone /\ Needed(targets, n, LX) /\ ~Tainted(n, LE) /\ n \in readable \ targets -> "read"
                      [] /\ g[n] # Gone /\ Needed(targets, n, LX) /\ ~Tainted(n, LE)
                         /\ n \in reusable \ (readable \ targets) -> "reuse"
                      [] OTHER -> "execute"
      <4> HIDE DEF best
      <4> QED BY <2>2 DEF Decides
    <3> QED OBVIOUS
  <2> QED BY <2>1, <2>3
<1>7. least(best)
  <2> SUFFICES ASSUME NEW other \in agreeing
               PROVE  Executing(best) \subseteq Executing(other)
    OBVIOUS
  <2> DEFINE E == Executing(other)
             X == {n \in Nodes : other[n] \in {"execute", "reuse"}}
  <2>1. \A n \in Nodes : Above[n] \subseteq Nodes
    BY StoreAssumption
  <2>2. ASSUME NEW n \in Nodes
        PROVE  /\ Needed(targets, n, X) <=>
                    (n \in targets \/ \E m \in Nodes : n \in Inputs[m] /\ other[m] \in {"execute", "reuse"})
               /\ Tainted(n, E) <=> \E m \in Above[n] \ {n} : other[m] = "execute"
    BY <2>1 DEF Needed, Tainted, Executing
  <2>3. ASSUME NEW n \in Nodes
        PROVE  other[n] =
                    CASE g[n] = Gone -> "none"
                      [] g[n] # Gone /\ ~Needed(targets, n, X) -> "prune"
                      [] g[n] # Gone /\ Needed(targets, n, X) /\ ~Tainted(n, E) /\ n \in readable \ targets -> "read"
                      [] /\ g[n] # Gone /\ Needed(targets, n, X) /\ ~Tainted(n, E)
                         /\ n \in reusable \ (readable \ targets) -> "reuse"
                      [] OTHER -> "execute"
    <3> HIDE DEF E, X
    <3> QED BY <2>2 DEF Decides
  <2>4. Closed(E, X)
    BY <2>3 DEF Executes, Settles, Executing
  <2>5. LE \subseteq E
    BY <1>2, <2>4 DEF Executing
  <2> QED BY <1>5, <2>5 DEF Executing
<1>8. Decision(g, targets, readable, reusable) = CHOOSE a \in agreeing : least(a)
  BY DEF Decision, Actions
<1>9. Decision(g, targets, readable, reusable) \in agreeing
  <2> HIDE DEF agreeing, least, best
  <2> QED BY <1>6, <1>7, <1>8
<1> QED BY <1>9

---------------------------------------------------------------------------
(* Types.                                                                  *)

LEMMA KeyType ==
    ASSUME NEW g \in Graphs, NEW b \in Backends, NEW n \in Nodes
    PROVE  /\ Key(g, b, n) \in Keys
           /\ Key(g, b, n).inputs = InputsOf(g, n) /\ Key(g, b, n).env = b
<1>1. Above[n] \subseteq Nodes
  BY StoreAssumption
<1>2. InputsOf(g, n) \in [Above[n] -> Contents \union {Gone}]
  BY <1>1 DEF InputsOf, Graphs
<1>3. Key(g, b, n) = [env |-> b, inputs |-> InputsOf(g, n)]
  BY DEF Key, InputsOf
<1>4. InputsOf(g, n) \in UNION {[Above[m] -> Contents \union {Gone}] : m \in Nodes}
  BY <1>2
<1> QED BY <1>3, <1>4 DEF Keys

LEMMA Constants ==
    /\ NoKey \in Keys /\ Never \in Facts /\ NoSnapshot \in Snapshots
    /\ Blank \in Submissions
<1>1. NoKey \in Keys
  BY DEF NoKey, Keys
<1>2. [n \in Nodes |-> Gone] \in Graphs /\ [n \in Nodes |-> 0] \in [Nodes -> Nat]
  BY DEF Graphs
<1>3. [n \in Nodes |-> "none"] \in [Nodes -> Actions]
  BY DEF Actions
<1>4. NoSnapshot \in Snapshots
  BY DEF NoSnapshot, Snapshots
<1> QED BY <1>1, <1>2, <1>3, <1>4 DEF Never, Facts, Blank, Submissions, Requests

LEMMA NeverIs == Never.fresh = "never" /\ Never.rec = 0 /\ Never.why = ""
<1>1. NoKey \in Keys
  BY DEF NoKey, Keys
<1> QED BY <1>1 DEF Never

(* What each way of writing a fact makes of it.                            *)
LEMMA ExpiredFact ==
    ASSUME TypeOK, NEW n \in Nodes, NEW revision \in Nat
    PROVE  /\ Expired(n, revision) \in Facts
           /\ Expired(n, revision).fresh = "expired" /\ Expired(n, revision).why = "other"
           /\ Expired(n, revision).rec = facts[n].rec
<1>1. facts[n] \in Facts
  BY DEF TypeOK
<1> QED BY <1>1 DEF Expired, Facts

LEMMA ResetFacts ==
    ASSUME TypeOK
    PROVE  /\ FactsAfterReset \in [Nodes -> Facts]
           /\ RevisionsAfterReset \in [Nodes -> Nat] /\ WorkspaceAfterReset \in Nat
           /\ WorkspaceAfterReset >= workspaceRevision
           /\ \A n \in Nodes :
                /\ FactsAfterReset[n].fresh \in {"never", "expired"}
                /\ FactsAfterReset[n].fresh = "expired" => FactsAfterReset[n].why = "other"
                /\ FactsAfterReset[n].rec \in {0, facts[n].rec}
                /\ RevisionsAfterReset[n] >= nodeRevisions[n]
<1>1. /\ workspaceRevision \in Nat
      /\ \A n \in Nodes : facts[n] \in Facts /\ nodeRevisions[n] \in Nat
  BY DEF TypeOK
<1>2. ASSUME NEW n \in Nodes, n \in Settlements
      PROVE  /\ FactsAfterReset[n] \in Facts
             /\ FactsAfterReset[n].fresh = "expired" /\ FactsAfterReset[n].why = "other"
             /\ FactsAfterReset[n].rec = 0
  <2>1. FactsAfterReset[n] = [Never EXCEPT !.fresh = "expired",
                                   !.rev = nodeRevisions[n] + 1, !.why = "other"]
    BY <1>2 DEF FactsAfterReset
  <2>2. FactsAfterReset[n] = [fresh |-> "expired", rec |-> 0, key |-> NoKey,
                              rev |-> nodeRevisions[n] + 1, why |-> "other"]
    BY <2>1 DEF Never
  <2>3. nodeRevisions[n] + 1 \in Nat /\ NoKey \in Keys
    BY <1>1, Constants
  <2> QED BY <2>2, <2>3 DEF Facts
<1>3. ASSUME NEW n \in Nodes, n \notin Settlements
      PROVE  FactsAfterReset[n] = facts[n] /\ facts[n].fresh = "never"
  BY <1>1, <1>3 DEF FactsAfterReset, Settlements
<1>4. \A n \in Nodes : FactsAfterReset[n] \in Facts
  BY <1>1, <1>2, <1>3
<1>5. FactsAfterReset \in [Nodes -> Facts]
  <2>1. FactsAfterReset = [n \in Nodes |-> FactsAfterReset[n]]
    BY DEF FactsAfterReset
  <2> QED BY <1>4, <2>1
<1>6. /\ RevisionsAfterReset \in [Nodes -> Nat] /\ WorkspaceAfterReset \in Nat
      /\ WorkspaceAfterReset >= workspaceRevision
      /\ \A n \in Nodes : RevisionsAfterReset[n] >= nodeRevisions[n]
  BY <1>1 DEF RevisionsAfterReset, WorkspaceAfterReset
<1>7. ASSUME NEW n \in Nodes
      PROVE  /\ FactsAfterReset[n].fresh \in {"never", "expired"}
             /\ FactsAfterReset[n].fresh = "expired" => FactsAfterReset[n].why = "other"
             /\ FactsAfterReset[n].rec \in {0, facts[n].rec}
  <2>1. CASE n \in Settlements
    BY <1>2, <2>1
  <2>2. CASE n \notin Settlements
    BY <1>3, <2>2
  <2> QED BY <2>1, <2>2
<1> QED BY <1>5, <1>6, <1>7

LEMMA SettledFact ==
    ASSUME TypeOK, NEW n \in Nodes, NEW r \in Records
    PROVE  /\ Current(n, r) \in Facts /\ Current(n, r).fresh = "current"
           /\ Current(n, r).rec = r.seq /\ Current(n, r).key = r.key
           /\ Current(n, r).rev = nodeRevisions[n]
           /\ ExpiredInPlace(n, facts) \in Facts
           /\ ExpiredInPlace(n, facts).fresh = "expired"
           /\ ExpiredInPlace(n, facts).why = "other"
           /\ ExpiredInPlace(n, facts).rec = facts[n].rec
<1>1. facts[n] \in Facts /\ nodeRevisions[n] \in Nat
  BY DEF TypeOK
<1> QED BY <1>1 DEF Current, ExpiredInPlace, Facts, Records

LEMMA TypesInit == Init => TypeOK
<1> SUFFICES ASSUME Init PROVE TypeOK
  OBVIOUS
<1>1. graph \in Graphs
  BY DEF Init, Graphs
<1>2. runs \in [Slots -> Runs \union {None}] /\ hand \in [Backends -> Events \union {None}]
  BY DEF Init
<1>3. facts \in [Nodes -> Facts] /\ nodeRevisions \in [Nodes -> Nat]
  BY Constants DEF Init
<1>4. snapshots \in [Backends -> Snapshots] /\ live \in [Backends -> Snapshots]
  BY Constants DEF Init
<1>5. prep \in [Slots -> Submissions]
  BY Constants DEF Init
<1> QED BY <1>1, <1>2, <1>3, <1>4, <1>5 DEF Init, TypeOK

LEMMA TypesEdit ==
    ASSUME TypeOK, NEW n \in Nodes, NEW content \in Contents \union {Gone}, Edit(n, content)
    PROVE  TypeOK'
<1> DEFINE lost == {r \in records : content = Gone /\ r.node = n}
           seqs == {r.seq : r \in lost}
<1>1. graph' \in Graphs
  BY DEF Edit, TypeOK, Graphs
<1>2. nodeRevisions' \in [Nodes -> Nat] /\ workspaceRevision' \in Nat /\ changes' \in Nat
  BY DEF Edit, TypeOK
<1>3. facts' \in [Nodes -> Facts]
  <2>1. \A m \in Nodes : Expired(m, nodeRevisions[m] + 1) \in Facts
    BY ExpiredFact DEF TypeOK
  <2>2. \A m \in Nodes : facts[m] \in Facts /\ Never \in Facts
    BY Constants DEF TypeOK
  <2> QED BY <2>1, <2>2 DEF Edit
<1>4. records' \subseteq records /\ reuseIndex' \subseteq reuseIndex /\ Unpin(seqs)
  BY DEF Edit
<1>5. prep' \in [Slots -> Submissions]
  <2>1. ASSUME NEW p \in Slots
        PROVE  prep[p] \in Submissions /\ [prep[p] EXCEPT !.pins = @ \ seqs] \in Submissions
    <3>1. prep[p] \in Submissions
      BY DEF TypeOK
    <3> QED BY <3>1 DEF Submissions
  <2> QED BY <1>4, <2>1 DEF Unpin
<1>6. runs' \in [Slots -> Runs \union {None}]
  <2>1. ASSUME NEW p \in Slots, runs[p] # None
        PROVE  [runs[p] EXCEPT !.pins = @ \ seqs] \in Runs
    <3>1. runs[p] \in Runs
      BY <2>1 DEF TypeOK
    <3> QED BY <3>1 DEF Runs
  <2> QED BY <1>4, <2>1 DEF Unpin
<1> QED BY <1>1, <1>2, <1>3, <1>4, <1>5, <1>6 DEF TypeOK, Edit, workerVars

LEMMA TypesResetProject ==
    ASSUME TypeOK, NEW g \in [Nodes -> Contents], ResetProject(g)
    PROVE  TypeOK'
<1>1. g \in Graphs
  BY DEF Graphs
<1>2. facts' \in [Nodes -> Facts] /\ snapshots' \in [Backends -> Snapshots]
  BY Constants DEF ResetProject
<1> QED BY <1>1, <1>2 DEF TypeOK, ResetProject, workerVars

LEMMA TypesCapture ==
    ASSUME TypeOK, NEW p \in Slots, NEW b \in Backends, Capture(p, b)
    PROVE  /\ TypeOK'
           /\ prep'[p] = [Blank EXCEPT !.backend = b, !.binding = binding,
                             !.revision = workspaceRevision, !.graph = graph,
                             !.known = [n \in Nodes |-> facts[n].rec]]
<1> DEFINE c == [Blank EXCEPT !.backend = b, !.binding = binding,
                     !.revision = workspaceRevision, !.graph = graph,
                     !.known = [n \in Nodes |-> facts[n].rec]]
<1>1. [n \in Nodes |-> facts[n].rec] \in [Nodes -> Nat]
  BY DEF TypeOK, Facts
<1>2. c \in Submissions
  <2>1. Blank \in Submissions /\ binding \in Nat /\ workspaceRevision \in Nat /\ graph \in Graphs
    BY Constants DEF TypeOK
  <2> QED BY <1>1, <2>1 DEF Submissions
<1>3. prep' = [prep EXCEPT ![p] = c] /\ prep \in [Slots -> Submissions]
  BY DEF Capture, TypeOK
<1>4. prep' \in [Slots -> Submissions] /\ prep'[p] = c
  BY <1>2, <1>3
<1>5. submitted' \in Nat
  BY DEF Capture, TypeOK
<1> QED BY <1>4, <1>5 DEF TypeOK, Capture, solutionVars, ownedVars, workerVars

(* What Compute writes, and what it goes by: a result that is read or      *)
(* reused is CURRENT and was found with the worker up.                     *)
LEMMA Computed ==
    ASSUME TypeOK, NEW p \in Slots, prep[p].backend \in Backends, Compute(p)
    PROVE  LET c == prep[p]
               d == prep'[p]
           IN
           /\ prep' = [prep EXCEPT ![p] = d] /\ d \in Submissions
           /\ d.backend = c.backend /\ d.binding = c.binding /\ d.revision = c.revision
           /\ d.adopted = c.adopted /\ d.graph = c.graph /\ d.pins = c.pins
           /\ d.rev = nodeRevisions /\ d.snapshot = live[c.backend]
           /\ \A n \in Nodes :
                /\ c.graph[n] = Gone => d.action[n] = "none"
                /\ d.rec[n] \in {0, facts[n].rec}
                /\ d.action[n] \in {"read", "reuse"} =>
                      /\ live[c.backend].up /\ d.rec[n] = facts[n].rec
                      /\ facts[n].fresh = "current"
                      /\ facts[n].key = Key(c.graph, c.backend, n)
           /\ triggerReservations' = triggerReservations
                \/ (triggerReservations = {} /\ triggerReservations' = {p})
<1> DEFINE c == prep[p]
           snapshot == live[c.backend]
           Found(mode) == IF mode = "target" THEN Readable(c.graph, c.backend, snapshot) ELSE {}
           Again(mode) == IF mode = "force" THEN {} ELSE Reusable(c.graph, c.backend, snapshot)
           Act(mode, targets) == Decision(c.graph, targets, Found(mode), Again(mode))
           Rec(a) == [n \in Nodes |-> IF n \in {m \in Nodes : a[m] \in {"read", "reuse"}}
                                      THEN facts[n].rec ELSE 0]
           New(mode, a) == [c EXCEPT !.action = a, !.rec = Rec(a), !.rev = nodeRevisions,
                               !.snapshot = snapshot,
                               !.eligible = snapshot.up \/ mode # "force",
                               !.trigger = IF mode = "trigger" THEN triggerGeneration + 1 ELSE 0]
<1>1. c \in Submissions /\ prep \in [Slots -> Submissions] /\ snapshot \in Snapshots
      /\ triggerGeneration \in Nat /\ nodeRevisions \in [Nodes -> Nat]
  BY DEF TypeOK
<1>2. PICK mode \in Modes, targets \in SUBSET {n \in Nodes : c.graph[n] # Gone} :
        /\ IF mode = "target" THEN targets # {}
           ELSE targets = {n \in Nodes : c.graph[n] # Gone}
        /\ mode = "trigger" => triggerReservations = {}
        /\ triggerReservations' = triggerReservations \union {q \in {p} : mode = "trigger"}
        /\ prep' = [prep EXCEPT ![p] = New(mode, Act(mode, targets))]
  BY Zenon DEF Compute
<1> DEFINE a == Act(mode, targets)
           d == New(mode, a)
<1>3. a \in [Nodes -> Actions] /\ Decides(a, c.graph, targets, Found(mode), Again(mode))
  BY DecisionDecides
<1> HIDE DEF Act
<1>4. Rec(a) \in [Nodes -> Nat]
  <2>1. \A n \in Nodes : facts[n].rec \in Nat
    BY DEF TypeOK, Facts
  <2> QED BY <2>1
<1>5. d \in Submissions
  <2>1. /\ (snapshot.up \/ mode # "force") \in BOOLEAN
        /\ (IF mode = "trigger" THEN triggerGeneration + 1 ELSE 0) \in Nat
    BY <1>1 DEF Snapshots
  <2> HIDE DEF a, Rec
  <2> QED BY <1>1, <1>3, <1>4, <2>1 DEF Submissions
<1>6. prep'[p] = d /\ prep' = [prep EXCEPT ![p] = d]
  BY <1>1, <1>2
<1>7. /\ d.backend = c.backend /\ d.binding = c.binding /\ d.revision = c.revision
      /\ d.adopted = c.adopted /\ d.graph = c.graph /\ d.pins = c.pins
      /\ d.rev = nodeRevisions /\ d.snapshot = snapshot
      /\ d.action = a /\ d.rec = Rec(a)
  <2> HIDE DEF a, Rec
  <2> QED BY <1>1 DEF Submissions
<1>8. ASSUME NEW n \in Nodes
      PROVE  /\ c.graph[n] = Gone => a[n] = "none"
             /\ a[n] \in {"read", "reuse"} => n \in Readable(c.graph, c.backend, snapshot)
  <2>1. Reusable(c.graph, c.backend, snapshot) \subseteq Readable(c.graph, c.backend, snapshot)
    BY DEF Reusable
  <2> HIDE DEF a
  <2>2. c.graph[n] = Gone => a[n] = "none"
    BY <1>3 DEF Decides
  <2>3. a[n] = "read" => n \in Found(mode)
    <3> HIDE DEF Found, Again
    <3> QED BY <1>3 DEF Decides
  <2>4. a[n] = "reuse" => n \in Again(mode)
    <3> HIDE DEF Found, Again
    <3> QED BY <1>3 DEF Decides
  <2> QED BY <2>1, <2>2, <2>3, <2>4
<1>9. ASSUME NEW n \in Nodes
      PROVE  /\ Rec(a)[n] \in {0, facts[n].rec}
             /\ a[n] \in {"read", "reuse"} =>
                    /\ snapshot.up /\ Rec(a)[n] = facts[n].rec
                    /\ facts[n].fresh = "current" /\ facts[n].key = Key(c.graph, c.backend, n)
  <2> HIDE DEF a
  <2> QED BY <1>8 DEF Readable
<1>10. triggerReservations' = triggerReservations
        \/ (triggerReservations = {} /\ triggerReservations' = {p})
  BY <1>2
<1> HIDE DEF a, Rec, New
<1> QED BY <1>5, <1>6, <1>7, <1>8, <1>9, <1>10

LEMMA TypesCompute ==
    ASSUME TypeOK, NEW p \in Slots, prep[p].backend \in Backends, Compute(p)
    PROVE  TypeOK'
<1>1. prep' \in [Slots -> Submissions] /\ triggerReservations' \subseteq Slots
  BY Computed DEF TypeOK
<1>2. step' = [step EXCEPT ![p] = "computed"] /\ step[p] = "captured"
  BY DEF Compute
<1> QED BY <1>1, <1>2 DEF TypeOK, Compute, solutionVars, workerVars

LEMMA TypesRegister ==
    ASSUME TypeOK, NEW p \in Slots, Register(p)
    PROVE  TypeOK'
<1>1. prep[p] \in Submissions /\ sequence + 1 \in Nat
  BY DEF TypeOK
<1>2. {prep[p].rec[n] : n \in Accepted(p)} \subseteq Nat
  BY <1>1 DEF Submissions, Accepted
<1>3. prep' \in [Slots -> Submissions]
  <2>1. [[prep[p] EXCEPT !.seq = sequence + 1]
            EXCEPT !.pins = {prep[p].rec[n] : n \in Accepted(p)}] \in Submissions
    BY <1>1, <1>2 DEF Submissions
  <2>2. prep' = [prep EXCEPT ![p] = [[prep[p] EXCEPT !.seq = sequence + 1]
            EXCEPT !.pins = {prep[p].rec[n] : n \in Accepted(p)}]]
    BY DEF Register, TypeOK
  <2> QED BY <2>1, <2>2 DEF TypeOK
<1>4. /\ preparations' \subseteq preparations \union {p} /\ p \in preparations'
      /\ triggerReservations' \subseteq triggerReservations
  BY DEF Register
<1>5. \A q \in preparations' : step'[q] \in {"registered", "claimed", "reserved"}
  BY <1>4 DEF Register, TypeOK
<1>6. step' \in [Slots -> {"idle", "captured", "computed", "registered",
                           "claimed", "reserved", "accepted", "started"}]
  BY DEF Register, TypeOK
<1>7. sequence' \in Nat /\ 1 .. sequence \subseteq 1 .. sequence'
  BY DEF Register, TypeOK
<1> QED BY <1>3, <1>4, <1>5, <1>6, <1>7 DEF TypeOK, Register, workerVars

LEMMA TypesOfDispatch ==
    ASSUME TypeOK, NEW p \in Slots, prep[p].backend \in Backends,
           Claim(p) \/ Reserve(p) \/ Start(p)
    PROVE  TypeOK'
<1>1. prep[p] \in Submissions /\ binding \in Nat /\ live[prep[p].backend] \in Snapshots
  BY DEF TypeOK
<1>2. prep' \in [Slots -> Submissions]
  <2>1. /\ [prep[p] EXCEPT !.binding = binding] \in Submissions
        /\ [prep[p] EXCEPT !.reserved = live[prep[p].backend]] \in Submissions
    BY <1>1 DEF Submissions
  <2> QED BY <2>1 DEF TypeOK, Claim, Reserve, Start
<1>3. step' \in [Slots -> {"idle", "captured", "computed", "registered",
                           "claimed", "reserved", "accepted", "started"}]
  BY DEF Claim, Reserve, Start, TypeOK
<1>4. \A q \in preparations' : step'[q] \in {"registered", "claimed", "reserved"}
  BY DEF Claim, Reserve, Start, TypeOK, ownedVars
<1>5. worker' \in [Slots -> {"none", "running", "triggered"}] /\ todo' \in [Slots -> SUBSET Nodes]
  BY DEF Claim, Reserve, Start, TypeOK, workerVars
<1> QED BY <1>2, <1>3, <1>4, <1>5
        DEF TypeOK, Claim, Reserve, Start, solutionVars, ownedVars, workerVars

LEMMA EntryType ==
    ASSUME TypeOK, NEW p \in Slots, NEW before \in [Nodes -> Facts]
    PROVE  /\ Entry(p, before) \in Runs /\ Entry(p, before) # None
           /\ Entry(p, before).snapshot = prep[p].reserved
           /\ Entry(p, before).pins = prep[p].pins
           /\ Entry(p, before).before = before
           /\ Entry(p, before).accepted = [n \in Nodes |-> 0]
<1>1. prep[p] \in Submissions
  BY DEF TypeOK
<1>2. Entry(p, before) \in Runs
  BY <1>1 DEF Entry, Runs, Submissions
<1> QED BY <1>2, StoreAssumption DEF Entry

(* What a fact becomes when its node is about to be executed.              *)
LEMMA DirtyFact ==
    ASSUME NEW f \in Facts
    PROVE  LET d == [f EXCEPT !.fresh = "expired", !.why = "recompute"] IN
           /\ d \in Facts /\ d.fresh = "expired" /\ d.why = "recompute"
           /\ d.rec = f.rec /\ d.rev = f.rev
BY DEF Facts

LEMMA TypesAccept ==
    ASSUME TypeOK, NEW p \in Slots, prep[p].backend \in Backends,
           AcceptWarm(p) \/ AcceptCold(p)
    PROVE  TypeOK'
<1>1. prep[p] \in Submissions /\ prep[p].reserved \in Snapshots
  BY DEF TypeOK, Submissions
<1>2. snapshots' \in [Backends -> Snapshots]
  BY <1>1 DEF AcceptWarm, AcceptCold, TypeOK
<1>3. /\ step' \in [Slots -> {"idle", "captured", "computed", "registered",
                           "claimed", "reserved", "accepted", "started"}]
      /\ preparations' \subseteq preparations \ {p}
      /\ \A q \in preparations' : step'[q] \in {"registered", "claimed", "reserved"}
  BY DEF AcceptWarm, AcceptCold, Taken, TypeOK
<1>4. CASE AcceptWarm(p)
  <2> DEFINE dirty == {n \in Executing(prep[p].action) : facts[n].fresh = "current"}
             before == [n \in Nodes |-> IF n \in dirty THEN facts[n] ELSE Never]
  <2>1. before \in [Nodes -> Facts]
    BY Constants DEF TypeOK
  <2>2. facts' \in [Nodes -> Facts]
    <3>1. \A n \in Nodes :
            /\ facts[n] \in Facts
            /\ [facts[n] EXCEPT !.fresh = "expired", !.why = "recompute"] \in Facts
      BY DirtyFact DEF TypeOK
    <3> QED BY <1>4, <3>1 DEF AcceptWarm
  <2>3. runs' \in [Slots -> Runs \union {None}]
    BY <1>4, <2>1, EntryType DEF AcceptWarm, TypeOK
  <2> QED BY <1>2, <1>3, <1>4, <2>2, <2>3 DEF TypeOK, AcceptWarm, workerVars
<1>5. CASE AcceptCold(p)
  <2>1. [n \in Nodes |-> Never] \in [Nodes -> Facts]
    BY Constants
  <2>2. runs' \in [Slots -> Runs \union {None}]
    BY <1>5, <2>1, EntryType DEF AcceptCold, TypeOK
  <2>3. prep' \in [Slots -> Submissions]
    <3>1. [[prep[p] EXCEPT !.rev = RevisionsAfterReset] EXCEPT !.adopted = WorkspaceAfterReset]
            \in Submissions
      BY <1>1, ResetFacts DEF Submissions
    <3>2. prep' = [prep EXCEPT ![p] =
            [[prep[p] EXCEPT !.rev = RevisionsAfterReset] EXCEPT !.adopted = WorkspaceAfterReset]]
      BY <1>5 DEF AcceptCold, TypeOK
    <3> QED BY <3>1, <3>2 DEF TypeOK
  <2>4. triggerReservations' \subseteq triggerReservations
    BY <1>5 DEF AcceptCold
  <2> QED BY <1>2, <1>3, <1>5, <2>2, <2>3, <2>4, ResetFacts DEF TypeOK, AcceptCold, workerVars
<1> QED BY <1>4, <1>5

LEMMA TypesAbandon ==
    ASSUME TypeOK, NEW p \in Slots, Abandon(p)
    PROVE  TypeOK'
<1>1. Restored(p) \in [Nodes -> Facts]
  <2>1. \A n \in Nodes : facts[n] \in Facts /\ (runs[p] # None => runs[p].before[n] \in Facts)
    BY DEF TypeOK, Runs
  <2> QED BY <2>1 DEF Restored
<1>2. prep' \in [Slots -> Submissions]
  BY Constants DEF Abandon, TypeOK
<1>3. runs' \in [Slots -> Runs \union {None}]
  BY DEF Abandon, TypeOK
<1>4. /\ step' \in [Slots -> {"idle", "captured", "computed", "registered",
                           "claimed", "reserved", "accepted", "started"}]
      /\ preparations' \subseteq preparations \ {p}
      /\ \A q \in preparations' : step'[q] \in {"registered", "claimed", "reserved"}
      /\ triggerReservations' \subseteq triggerReservations
  BY DEF Abandon, ReleaseTrigger, TypeOK
<1> QED BY <1>1, <1>2, <1>3, <1>4 DEF TypeOK, Abandon, workerVars

LEMMA TypesObserve ==
    ASSUME TypeOK, NEW p \in Slots, NEW root \in Nodes, NEW n \in Nodes, Observe(p, root, n)
    PROVE  TypeOK'
<1>1. prep[p] \in Submissions /\ runs[p] \in Runs /\ workspaceRevision + 1 \in Nat
  BY DEF TypeOK, Observe
<1>2. PICK hit \in SUBSET Nodes :
        /\ facts' = [m \in Nodes |-> IF m \in hit THEN Expired(m, nodeRevisions[m] + 1) ELSE facts[m]]
        /\ nodeRevisions' = [m \in Nodes |-> nodeRevisions[m] + (IF m \in hit THEN 1 ELSE 0)]
        /\ runs' = [runs EXCEPT ![p].accepted = [m \in Nodes |-> IF m \in hit THEN 0 ELSE @[m]]]
  BY DEF Observe, Below
<1>3. facts' \in [Nodes -> Facts] /\ nodeRevisions' \in [Nodes -> Nat]
  <2>1. \A m \in Nodes : nodeRevisions[m] \in Nat /\ facts[m] \in Facts
    BY DEF TypeOK
  <2>2. \A m \in Nodes : Expired(m, nodeRevisions[m] + 1) \in Facts
    BY <2>1, ExpiredFact
  <2> QED BY <1>2, <2>1, <2>2
<1>4. runs' \in [Slots -> Runs \union {None}]
  <2>1. [m \in Nodes |-> IF m \in hit THEN 0 ELSE runs[p].accepted[m]] \in [Nodes -> Nat]
    BY <1>1 DEF Runs
  <2>2. [runs[p] EXCEPT !.accepted = [m \in Nodes |-> IF m \in hit THEN 0 ELSE @[m]]] \in Runs
    BY <1>1, <2>1 DEF Runs
  <2> QED BY <1>2, <2>2 DEF TypeOK
<1>5. prep' \in [Slots -> Submissions]
  <2>1. [prep[p] EXCEPT !.adopted = workspaceRevision + 1] \in Submissions
    BY <1>1 DEF Submissions
  <2> QED BY <2>1 DEF Observe, TypeOK
<1> QED BY <1>1, <1>3, <1>4, <1>5 DEF TypeOK, Observe, workerVars

LEMMA TypesWorker ==
    ASSUME TypeOK, NEW b \in Backends, Spawn(b) \/ Lose(b)
    PROVE  TypeOK'
<1>1. live[b] \in Snapshots
  BY DEF TypeOK
<1>2. live' \in [Backends -> Snapshots]
  <2>1. [gen |-> live[b].gen + 1, up |-> TRUE] \in Snapshots
    BY <1>1 DEF Snapshots
  <2>3. [live[b] EXCEPT !.up = FALSE] \in Snapshots
    BY <1>1 DEF Snapshots
  <2>2. \/ live' = [live EXCEPT ![b] = [gen |-> live[b].gen + 1, up |-> TRUE]]
        \/ live' = [live EXCEPT ![b] = [live[b] EXCEPT !.up = FALSE]]
    BY DEF Spawn, Lose, TypeOK
  <2> QED BY <2>1, <2>2, <2>3 DEF TypeOK
<1> QED BY <1>2 DEF TypeOK, Spawn, Lose, solutionVars, ownedVars

LEMMA EventType ==
    ASSUME TypeOK, NEW b \in Backends, NEW p \in Slots \union {None},
           NEW kind \in {"settled", "reused", "trigger", "ended", "changed"},
           NEW n \in Nodes \union {None},
           NEW result \in Results \union {"failed", "accepted", None}
    PROVE  LET e == Event(b, p, kind, n, result) IN
           /\ e \in Events /\ e # None
           /\ e.slot = p /\ e.kind = kind /\ e.node = n /\ e.result = result
           /\ e.tag = live[b] /\ e.binding = binding
<1>1. Event(b, p, kind, n, result) \in Events
  BY DEF Event, Events, TypeOK
<1> QED BY <1>1, StoreAssumption DEF Event

(* What a listener can take into its hands.                                *)
Takes(b, e) ==
    /\ e # None /\ hand' = [hand EXCEPT ![b] = e]
    /\ e.tag = live[b] /\ e.binding = binding
ReportOf(b, e, p) ==
    /\ e.slot = p /\ prep[p].backend = b /\ worker[p] # "none"
    /\ \/ /\ e.kind \in {"settled", "reused"}
          /\ e.node \in todo[p] /\ UNCHANGED worker
          /\ e.kind = "reused" <=> prep[p].action[e.node] = "reuse"
          /\ e.kind = "settled" => e.result \in Results \union {"failed"}
          /\ \E rest \in SUBSET todo[p] : todo' = [todo EXCEPT ![p] = rest]
       \/ /\ e.kind = "trigger" /\ UNCHANGED todo
          /\ worker[p] = "running"
          /\ worker' = [worker EXCEPT ![p] = "triggered"]
       \/ /\ e.kind = "ended"
          /\ worker' = [worker EXCEPT ![p] = "none"]
          /\ todo' = [todo EXCEPT ![p] = {}]
LossOf(e) == e.slot = None /\ e.kind = "changed" /\ UNCHANGED <<worker, todo>>

LEMMA Received ==
    ASSUME TypeOK, NEW b \in Backends, Receive(b)
    PROVE  \E e \in Events : Takes(b, e) /\ (LossOf(e) \/ \E p \in Slots : ReportOf(b, e, p))
<1>1. CASE ChangeReport(b)
  <2> DEFINE e == Event(b, None, "changed", None, None)
  <2>1. /\ e \in Events /\ e # None /\ e.slot = None /\ e.kind = "changed"
        /\ e.tag = live[b] /\ e.binding = binding
    BY EventType
  <2>2. hand' = [hand EXCEPT ![b] = e] /\ UNCHANGED <<worker, todo>>
    BY <1>1 DEF ChangeReport
  <2> HIDE DEF e
  <2> QED BY <2>1, <2>2 DEF Takes, LossOf
<1>2. ASSUME NEW p \in Slots, RunReports(b, p)
      PROVE  \E e \in Events : Takes(b, e) /\ ReportOf(b, e, p)
  <2>1. prep[p].backend = b /\ worker[p] # "none" /\ todo[p] \subseteq Nodes
    BY <1>2 DEF RunReports, TypeOK
  <2>2. ASSUME NEW n \in todo[p], NEW result \in Results \union {"failed", "accepted"},
               prep[p].action[n] = "reuse" <=> result = "accepted",
               NEW kind, kind = IF prep[p].action[n] = "reuse" THEN "reused" ELSE "settled",
               hand' = [hand EXCEPT ![b] = Event(b, p, kind, n, result)],
               todo' = [todo EXCEPT ![p] = @ \ (IF result = "failed" THEN Below(n) ELSE {n})],
               UNCHANGED worker
        PROVE  \E e \in Events :
                 /\ e # None /\ hand' = [hand EXCEPT ![b] = e]
                 /\ e.tag = live[b] /\ e.binding = binding /\ e.slot = p
                 /\ e.kind \in {"settled", "reused"} /\ e.node \in todo[p]
                 /\ e.kind = "reused" <=> prep[p].action[e.node] = "reuse"
                 /\ e.kind = "settled" => e.result \in Results \union {"failed"}
                 /\ \E rest \in SUBSET todo[p] : todo' = [todo EXCEPT ![p] = rest]
    <3> DEFINE e == Event(b, p, kind, n, result)
               rest == todo[p] \ (IF result = "failed" THEN Below(n) ELSE {n})
    <3>1. /\ e \in Events /\ e # None /\ e.slot = p /\ e.kind = kind /\ e.node = n
          /\ e.result = result /\ e.tag = live[b] /\ e.binding = binding
      BY <2>1, <2>2, EventType
    <3>2. rest \in SUBSET todo[p] /\ todo' = [todo EXCEPT ![p] = rest]
      BY <2>2
    <3>3. hand' = [hand EXCEPT ![b] = e]
      BY <2>2
    <3> HIDE DEF e, rest
    <3> QED BY <2>2, <3>1, <3>2, <3>3
  <2>3. ASSUME NEW kind \in {"trigger", "ended"},
               hand' = [hand EXCEPT ![b] = Event(b, p, kind, None, None)]
        PROVE  \E e \in Events :
                 /\ e # None /\ hand' = [hand EXCEPT ![b] = e]
                 /\ e.tag = live[b] /\ e.binding = binding /\ e.slot = p /\ e.kind = kind
    <3> DEFINE e == Event(b, p, kind, None, None)
    <3>1. /\ e \in Events /\ e # None /\ e.slot = p /\ e.kind = kind
          /\ e.tag = live[b] /\ e.binding = binding
      BY EventType
    <3>2. hand' = [hand EXCEPT ![b] = e]
      BY <2>3
    <3> HIDE DEF e
    <3> QED BY <3>1, <3>2
  <2> DEFINE settling ==
            \E n \in todo[p], result \in Results \union {"failed", "accepted"} :
                /\ prep[p].action[n] = "reuse" <=> result = "accepted"
                /\ hand' = [hand EXCEPT ![b] =
                        Event(b, p, IF prep[p].action[n] = "reuse" THEN "reused" ELSE "settled", n, result)]
                /\ todo' = [todo EXCEPT ![p] =
                        @ \ (IF result = "failed" THEN Below(n) ELSE {n})]
                /\ UNCHANGED worker
  <2>4. CASE settling
    <3>1. PICK n \in todo[p], result \in Results \union {"failed", "accepted"} :
                /\ prep[p].action[n] = "reuse" <=> result = "accepted"
                /\ hand' = [hand EXCEPT ![b] =
                        Event(b, p, IF prep[p].action[n] = "reuse" THEN "reused" ELSE "settled", n, result)]
                /\ todo' = [todo EXCEPT ![p] =
                        @ \ (IF result = "failed" THEN Below(n) ELSE {n})]
                /\ UNCHANGED worker
      BY <2>4
    <3> QED BY <2>1, <2>2, <3>1 DEF Takes, ReportOf
  <2>5. CASE /\ worker[p] = "running"
             /\ hand' = [hand EXCEPT ![b] = Event(b, p, "trigger", None, None)]
             /\ worker' = [worker EXCEPT ![p] = "triggered"]
             /\ UNCHANGED todo
    BY <2>1, <2>3, <2>5 DEF Takes, ReportOf
  <2>6. CASE /\ hand' = [hand EXCEPT ![b] = Event(b, p, "ended", None, None)]
             /\ worker' = [worker EXCEPT ![p] = "none"]
             /\ todo' = [todo EXCEPT ![p] = {}]
    BY <2>1, <2>3, <2>6 DEF Takes, ReportOf
  <2>7. \/ settling
        \/ /\ worker[p] = "running"
           /\ hand' = [hand EXCEPT ![b] = Event(b, p, "trigger", None, None)]
           /\ worker' = [worker EXCEPT ![p] = "triggered"]
           /\ UNCHANGED todo
        \/ /\ hand' = [hand EXCEPT ![b] = Event(b, p, "ended", None, None)]
           /\ worker' = [worker EXCEPT ![p] = "none"]
           /\ todo' = [todo EXCEPT ![p] = {}]
    BY <1>2, Zenon DEF RunReports
  <2> HIDE DEF settling
  <2> QED BY <2>4, <2>5, <2>6, <2>7
<1> QED BY <1>1, <1>2 DEF Receive

LEMMA TypesReset ==
    ASSUME TypeOK, ResetGeneration
    PROVE  /\ facts' \in [Nodes -> Facts] /\ nodeRevisions' \in [Nodes -> Nat]
           /\ workspaceRevision' \in Nat /\ triggerGeneration' \in Nat
           /\ records' = {} /\ reuseIndex' = {} /\ preparations' = {}
           /\ runs' = [p \in Slots |-> None] /\ triggerReservations' = {}
           /\ sequence' = sequence /\ facts' = FactsAfterReset
           /\ workspaceRevision' = WorkspaceAfterReset
           /\ \A n \in Nodes : nodeRevisions'[n] >= nodeRevisions[n]
<1>1. PICK touched \in {{}, Nodes \ Settlements} :
        nodeRevisions' = [n \in Nodes |->
            IF n \in touched THEN nodeRevisions[n] + 1 ELSE RevisionsAfterReset[n]]
  BY DEF ResetGeneration
<1>2. \A n \in Nodes : nodeRevisions[n] \in Nat
  BY DEF TypeOK
<1> QED BY <1>1, <1>2, ResetFacts DEF ResetGeneration

LEMMA TypesReceive ==
    ASSUME TypeOK, NEW b \in Backends, Receive(b)
    PROVE  TypeOK'
<1>1. /\ hand' \in [Backends -> Events \union {None}]
      /\ worker' \in [Slots -> {"none", "running", "triggered"}]
      /\ todo' \in [Slots -> SUBSET Nodes]
  <2>1. \E e \in Events : hand' = [hand EXCEPT ![b] = e]
    BY Received DEF Takes
  <2>2. worker' \in [Slots -> {"none", "running", "triggered"}]
    BY Received DEF TypeOK, ReportOf, LossOf
  <2>3. todo' \in [Slots -> SUBSET Nodes]
    <3>1. \/ todo' = todo
          \/ \E p \in Slots : \E rest \in SUBSET todo[p] : todo' = [todo EXCEPT ![p] = rest]
      BY Received DEF ReportOf, LossOf
    <3> QED BY <3>1 DEF TypeOK
  <2> QED BY <2>1, <2>2, <2>3 DEF TypeOK
<1>2. snapshots' \in [Backends -> Snapshots]
  BY DEF Receive, TypeOK
<1>3. CASE UNCHANGED <<solutionVars, ownedVars>>
  BY <1>1, <1>2, <1>3 DEF TypeOK, Receive, solutionVars, ownedVars
<1>4. CASE ResetGeneration
  BY <1>1, <1>2, <1>4, TypesReset DEF TypeOK, Receive
<1> QED BY <1>3, <1>4 DEF Receive

---------------------------------------------------------------------------
(* Settlement.                                                             *)

(* There is a record with this sequence after the step.                    *)
RecordedNext(s) == \E r \in records' : r.seq = s

(* What a step can do to the fact of m.                                    *)
Kept(m) ==
    /\ facts'[m].fresh = facts[m].fresh /\ facts'[m].why = facts[m].why
    /\ facts'[m].rev = facts[m].rev /\ facts'[m].rec \in {0, facts[m].rec}
    /\ facts[m].fresh = "current" => facts'[m] = facts[m]
Dropped(m) ==
    /\ facts'[m].fresh = "expired" /\ facts'[m].why = "other"
    /\ facts'[m].rec \in {0, facts[m].rec}
Renewed(p, m) ==
    /\ Captured(p, m)
    /\ \E r \in records' :
          /\ facts'[m] = Current(m, r)
          /\ r.key = Key(prep[p].graph, prep[p].backend, m)

(* The runs go on with what they count on.                                 *)
SameRuns ==
    \A q \in Slots :
        /\ runs'[q] = None <=> runs[q] = None
        /\ runs[q] # None =>
              /\ runs'[q].snapshot = runs[q].snapshot
              /\ runs'[q].before = runs[q].before /\ runs'[q].pins = runs[q].pins

(* The records after a settlement: those somebody counts on, and a new one.*)
RecordsStep ==
    /\ sequence' \in Nat /\ sequence' >= sequence
    /\ records' \subseteq Records /\ reuseIndex' \subseteq 1 .. sequence'
    /\ \A r \in records' : r \in records \/ (r.seq = sequence + 1 /\ sequence' = sequence + 1)
    /\ \A r, q \in records' : r \notin records /\ q \notin records => r = q
    /\ \A r \in records :
          (\E q \in preparations : r.seq \in prep[q].pins)
            \/ (\E q \in Slots : runs[q] # None /\ r.seq \in runs[q].pins)
          => r \in records'

LEMMA FactsStay ==
    ASSUME UNCHANGED facts, TypeOK
    PROVE  facts' \in [Nodes -> Facts] /\ \A m \in Nodes : Kept(m)
BY DEF Kept, TypeOK

LEMMA RecordsStay ==
    ASSUME TypeOK, UNCHANGED <<records, reuseIndex, sequence>>
    PROVE  RecordsStep
BY DEF RecordsStep, TypeOK

LEMMA RunsStay ==
    ASSUME TypeOK, UNCHANGED runs
    PROVE  runs' \in [Slots -> Runs \union {None}] /\ SameRuns
BY DEF SameRuns, TypeOK

LEMMA RunAccepts ==
    ASSUME TypeOK, NEW p \in Slots, NEW n \in Nodes, NEW s \in Nat,
           runs[p] # None, runs' = AcceptFor(p, n, s)
    PROVE  runs' \in [Slots -> Runs \union {None}] /\ SameRuns
<1> DEFINE new == [runs[p] EXCEPT !.accepted = [runs[p].accepted EXCEPT ![n] = s]]
<1>1. runs[p] \in Runs
  BY DEF TypeOK
<1>2. runs[p].accepted \in [Nodes -> Nat] /\ [runs[p].accepted EXCEPT ![n] = s] \in [Nodes -> Nat]
  BY <1>1 DEF Runs
<1>3. /\ new \in Runs /\ new.snapshot = runs[p].snapshot
      /\ new.before = runs[p].before /\ new.pins = runs[p].pins
  BY <1>1, <1>2 DEF Runs
<1>4. new # None
  BY <1>3, StoreAssumption
<1>5. runs' = [runs EXCEPT ![p] = new]
  BY DEF AcceptFor
<1> HIDE DEF new
<1> QED BY <1>3, <1>4, <1>5 DEF SameRuns, TypeOK

LEMMA OneFact ==
    ASSUME TypeOK, NEW n \in Nodes, NEW f \in Facts, facts' = [facts EXCEPT ![n] = f]
    PROVE  /\ facts' \in [Nodes -> Facts] /\ facts'[n] = f
           /\ \A m \in Nodes \ {n} : Kept(m)
BY DEF TypeOK, Kept

LEMMA EvictsLoose ==
    ASSUME NEW c, NEW f
    PROVE  Evicted(c, f) \subseteq {r \in records : ~Pinned(r.seq, f)}
BY DEF Evicted, Oldest

LEMMA FactOf ==
    ASSUME NEW fresh \in {"never", "expired", "current"}, NEW rec \in Nat, NEW key \in Keys,
           NEW rev \in Nat, NEW why \in {"", "recompute", "other"}
    PROVE  [fresh |-> fresh, rec |-> rec, key |-> key, rev |-> rev, why |-> why] \in Facts
BY DEF Facts

LEMMA Forgets ==
    ASSUME NEW f \in [Nodes -> Facts], NEW gone
    PROVE  /\ WithoutRecords(f, gone) \in [Nodes -> Facts]
           /\ \A m \in Nodes :
                LET g == WithoutRecords(f, gone)[m] IN
                /\ g.fresh = f[m].fresh /\ g.why = f[m].why /\ g.rev = f[m].rev
                /\ g.rec \in {0, f[m].rec}
                /\ f[m].rec \notin {r.seq : r \in gone} => g = f[m]
<1> DEFINE g(m) == WithoutRecords(f, gone)[m]
<1>1. ASSUME NEW m \in Nodes
      PROVE  /\ g(m) \in Facts
             /\ g(m).fresh = f[m].fresh /\ g(m).why = f[m].why /\ g(m).rev = f[m].rev
             /\ g(m).rec \in {0, f[m].rec}
             /\ f[m].rec \notin {r.seq : r \in gone} => g(m) = f[m]
  <2>1. f[m] \in Facts /\ NoKey \in Keys
    BY Constants
  <2>2. CASE f[m].rec \in {r.seq : r \in gone}
    <3>1. g(m) = [f[m] EXCEPT !.rec = 0, !.key = NoKey]
      BY <2>2 DEF WithoutRecords
    <3>2. f[m] = [fresh |-> f[m].fresh, rec |-> f[m].rec, key |-> f[m].key,
                  rev |-> f[m].rev, why |-> f[m].why]
      BY <2>1 DEF Facts
    <3>3. g(m) = [fresh |-> f[m].fresh, rec |-> 0, key |-> NoKey,
                  rev |-> f[m].rev, why |-> f[m].why]
      BY <3>1, <3>2
    <3>4. /\ f[m].fresh \in {"never", "expired", "current"} /\ f[m].rev \in Nat
          /\ f[m].why \in {"", "recompute", "other"}
      BY <2>1 DEF Facts
    <3> HIDE DEF g
    <3>5. g(m) \in Facts
      BY <2>1, <3>3, <3>4, FactOf
    <3> QED BY <2>2, <3>3, <3>5
  <2>3. CASE f[m].rec \notin {r.seq : r \in gone}
    BY <2>1, <2>3 DEF WithoutRecords
  <2> QED BY <2>2, <2>3
<1>2. WithoutRecords(f, gone) = [m \in Nodes |-> g(m)]
  BY DEF WithoutRecords
<1> QED BY <1>1, <1>2

(* A settlement that writes one fact and no record.                        *)
LEMMA RetainedStay ==
    ASSUME UNCHANGED records, NEW n \in Nodes,
           \A m \in Nodes \ {n} : Kept(m),
           facts'[n].fresh = "current" => Recorded(facts'[n].rec)
    PROVE  (Keyed => Keyed') /\ (Retained => Retained')
<1>1. ASSUME NEW m \in Nodes \ {n}, facts'[m].fresh = "current"
      PROVE  facts'[m] = facts[m] /\ facts[m].fresh = "current"
  BY <1>1 DEF Kept
<1> QED BY <1>1 DEF Keyed, Retained, Recorded

Settlement(p, n) ==
    /\ facts' \in [Nodes -> Facts] /\ runs' \in [Slots -> Runs \union {None}]
    /\ SameRuns /\ RecordsStep
    /\ Keyed => Keyed'
    /\ Retained => Retained'
    /\ \A m \in Nodes : Kept(m) \/ (m = n /\ (Dropped(n) \/ Renewed(p, n)))

LEMMA SettlesNew ==
    ASSUME TypeOK, NEW p \in Slots, NEW n \in Nodes, NEW result \in Results,
           prep[p].backend \in Backends, runs[p] # None, Captured(p, n),
           SettleNew(p, n, result)
    PROVE  Settlement(p, n)
<1> DEFINE new == Candidate(p, n, result)
           settled == [facts EXCEPT ![n] = Current(n, new)]
           gone == Evicted(new, settled)
           fits == Fits((records \union {new}) \ gone, n)
           kept == IF fits THEN {new} ELSE {}
<1>1. /\ new \in Records /\ new.seq = sequence + 1 /\ new.node = n
      /\ new.key = Key(prep[p].graph, prep[p].backend, n)
      /\ DOMAIN new.key.inputs = Above[n]
  <2>1. prep[p].graph \in Graphs /\ runs[p].snapshot.gen \in Nat /\ sequence + 1 \in Nat
    <3>1. prep[p] \in Submissions /\ runs[p] \in Runs
      BY DEF TypeOK
    <3> QED BY <3>1 DEF TypeOK, Submissions, Runs, Snapshots
  <2>2. /\ Key(prep[p].graph, prep[p].backend, n) \in Keys
        /\ DOMAIN Key(prep[p].graph, prep[p].backend, n).inputs = Above[n]
    <3>1. Key(prep[p].graph, prep[p].backend, n).inputs = InputsOf(prep[p].graph, n)
      BY <2>1, KeyType
    <3>2. DOMAIN InputsOf(prep[p].graph, n) = Above[n]
      BY DEF InputsOf
    <3> QED BY <2>1, <3>1, <3>2, KeyType
  <2> QED BY <2>1, <2>2 DEF Candidate, Records
<1>2. /\ sequence' = sequence + 1
      /\ records' = (records \ gone) \union kept
      /\ reuseIndex' = (reuseIndex \ {r.seq : r \in gone})
                            \union {r.seq : r \in {q \in kept : Session(p, n)}}
      /\ facts' = IF fits THEN WithoutRecords(settled, gone)
                  ELSE [WithoutRecords(facts, gone \ {r \in gone : r.node = n})
                          EXCEPT ![n] = ExpiredInPlace(n, facts)]
      /\ runs' = IF fits THEN AcceptFor(p, n, new.seq) ELSE runs
  BY DEF SettleNew
<1> HIDE DEF new
<1>3. /\ gone \subseteq records
      /\ \A r \in gone : ~Pinned(r.seq, settled)
  BY EvictsLoose
<1>4. /\ Current(n, new) \in Facts /\ ExpiredInPlace(n, facts) \in Facts
      /\ Current(n, new).fresh = "current" /\ Current(n, new).rec = new.seq
      /\ ExpiredInPlace(n, facts).fresh = "expired" /\ ExpiredInPlace(n, facts).why = "other"
      /\ ExpiredInPlace(n, facts).rec = facts[n].rec
  BY <1>1, SettledFact
<1>5. /\ settled \in [Nodes -> Facts] /\ settled[n] = Current(n, new)
      /\ \A m \in Nodes \ {n} : settled[m] = facts[m]
  BY <1>4 DEF TypeOK
<1> HIDE DEF settled, gone, fits
<1>6. ASSUME NEW m \in Nodes, settled[m].fresh = "current"
      PROVE  settled[m].rec \notin {r.seq : r \in gone}
  BY <1>3, <1>6 DEF Pinned
<1>7. RecordsStep
  <2>1. sequence \in Nat /\ sequence' = sequence + 1 /\ sequence' \in Nat
    BY <1>2 DEF TypeOK
  <2>2. records' \subseteq records \union {new} /\ records \subseteq Records
    BY <1>2 DEF TypeOK
  <2>3. reuseIndex' \subseteq reuseIndex \union {sequence + 1} /\ reuseIndex \subseteq 1 .. sequence
    BY <1>1, <1>2 DEF TypeOK
  <2>4. ASSUME NEW r \in records,
               \/ \E q \in preparations : r.seq \in prep[q].pins
               \/ \E q \in Slots : runs[q] # None /\ r.seq \in runs[q].pins
        PROVE  r \in records'
    <3>1. Pinned(r.seq, settled)
      BY <2>4 DEF Pinned
    <3> QED BY <1>2, <1>3, <3>1
  <2>5. reuseIndex' \subseteq 1 .. sequence'
    BY <2>1, <2>3
  <2> QED BY <1>1, <2>1, <2>2, <2>4, <2>5 DEF RecordsStep
<1>8. runs' \in [Slots -> Runs \union {None}] /\ SameRuns
  <2>1. CASE fits
    BY <1>1, <1>2, <2>1, RunAccepts DEF Records
  <2>2. CASE ~fits
    BY <1>2, <2>2, RunsStay
  <2> QED BY <2>1, <2>2
<1>9. Keyed => Keyed'
  BY <1>1, <1>2 DEF Keyed
<1>10. ASSUME Retained, NEW m \in Nodes \ {n}, Kept(m), facts'[m].fresh = "current"
       PROVE  RecordedNext(facts'[m].rec)
  <2>1. facts'[m] = facts[m] /\ facts[m].fresh = "current" /\ settled[m] = facts[m]
    BY <1>5, <1>10 DEF Kept
  <2>2. PICK r \in records : r.seq = facts[m].rec
    BY <1>10, <2>1 DEF Retained, Recorded
  <2>3. r \notin gone
    BY <1>6, <2>1, <2>2
  <2> QED BY <1>2, <2>1, <2>2, <2>3 DEF RecordedNext
<1>11. CASE fits
  <2>1. facts' = WithoutRecords(settled, gone)
    BY <1>2, <1>11
  <2>2. facts' \in [Nodes -> Facts]
    BY <1>5, <2>1, Forgets
  <2>3. ASSUME NEW m \in Nodes \ {n} PROVE Kept(m)
    BY <1>5, <1>6, <2>1, Forgets DEF Kept
  <2>4. Renewed(p, n)
    <3>1. facts'[n] = Current(n, new)
      BY <1>4, <1>5, <1>6, <2>1, Forgets
    <3>2. new \in records'
      BY <1>2, <1>11
    <3> QED BY <1>1, <3>1, <3>2 DEF Renewed
  <2>5. RecordedNext(facts'[n].rec)
    <3>1. facts'[n].rec = new.seq /\ new \in records'
      BY <1>2, <1>4, <1>5, <1>6, <1>11, <2>1, Forgets
    <3> QED BY <3>1 DEF RecordedNext
  <2>6. Retained => Retained'
    BY <1>10, <2>3, <2>5 DEF Retained, Recorded, RecordedNext
  <2> QED BY <1>7, <1>8, <1>9, <2>2, <2>3, <2>4, <2>6 DEF Settlement
<1>12. CASE ~fits
  <2> DEFINE left == gone \ {r \in gone : r.node = n}
             forgotten == WithoutRecords(facts, left)
  <2>1. facts' = [forgotten EXCEPT ![n] = ExpiredInPlace(n, facts)]
    BY <1>2, <1>12
  <2>2. facts \in [Nodes -> Facts]
    BY DEF TypeOK
  <2>3. forgotten \in [Nodes -> Facts]
    BY <2>2, Forgets
  <2>4. ASSUME NEW m \in Nodes \ {n} PROVE Kept(m)
    <3>1. facts'[m] = forgotten[m]
      BY <2>1, <2>3
    <3>2. facts[m].fresh = "current" => facts[m].rec \notin {r.seq : r \in left}
      BY <1>5, <1>6
    <3> HIDE DEF left
    <3> QED BY <2>2, <3>1, <3>2, Forgets DEF Kept
  <2>5. facts' \in [Nodes -> Facts] /\ facts'[n] = ExpiredInPlace(n, facts)
    BY <1>4, <2>1, <2>3
  <2>6. Dropped(n)
    BY <1>4, <2>5 DEF Dropped
  <2>7. Retained => Retained'
    BY <1>10, <2>4, <2>6 DEF Retained, Dropped, Recorded, RecordedNext
  <2> QED BY <1>7, <1>8, <1>9, <2>4, <2>5, <2>6, <2>7 DEF Settlement
<1> QED BY <1>11, <1>12

LEMMA Settles1 ==
    ASSUME TypeOK, NEW p \in Slots, NEW n \in Nodes, NEW result \in Results \union {"failed"},
           prep[p].backend \in Backends, runs[p] # None, Settled(p, n, result)
    PROVE  Settlement(p, n)
<1>1. CASE Captured(p, n) /\ result # "failed" /\ SettleDiffers(p, n, result)
  <2>1. ExpiredInPlace(n, facts) \in Facts
    BY <1>1, SettledFact DEF SettleDiffers, Established, TypeOK
  <2>2. facts' \in [Nodes -> Facts] /\ facts'[n] = ExpiredInPlace(n, facts)
        /\ \A m \in Nodes \ {n} : Kept(m)
    BY <1>1, <2>1, OneFact DEF SettleDiffers
  <2>3. Dropped(n)
    BY <1>1, <2>2, SettledFact DEF Dropped, SettleDiffers, Established, TypeOK
  <2>4. RecordsStep /\ SameRuns /\ runs' \in [Slots -> Runs \union {None}]
    BY <1>1, RecordsStay, RunsStay DEF SettleDiffers
  <2>5. (Keyed => Keyed') /\ (Retained => Retained')
    BY <1>1, <2>2, <2>3, RetainedStay DEF SettleDiffers, Dropped
  <2> QED BY <2>2, <2>3, <2>4, <2>5 DEF Settlement
<1>2. CASE Captured(p, n) /\ result # "failed" /\ SettleAgain(p, n, result)
  <2>1. PICK r \in records :
            /\ r.key = Key(prep[p].graph, prep[p].backend, n)
            /\ facts' = [facts EXCEPT ![n] = Current(n, r)]
            /\ runs' = AcceptFor(p, n, r.seq)
            /\ UNCHANGED <<records, reuseIndex, sequence>>
    BY <1>2 DEF SettleAgain, Established
  <2>2. r \in Records /\ r.seq \in Nat
    BY DEF TypeOK, Records
  <2>3. facts' \in [Nodes -> Facts] /\ facts'[n] = Current(n, r)
        /\ \A m \in Nodes \ {n} : Kept(m)
    BY <2>1, <2>2, SettledFact, OneFact
  <2>4. Renewed(p, n)
    BY <1>2, <2>1, <2>3 DEF Renewed
  <2>5. RecordsStep /\ SameRuns /\ runs' \in [Slots -> Runs \union {None}]
    BY <2>1, <2>2, RecordsStay, RunAccepts
  <2>6. (Keyed => Keyed') /\ (Retained => Retained')
    <3>1. Recorded(facts'[n].rec)
      BY <2>2, <2>3, SettledFact DEF Recorded
    <3> QED BY <2>1, <2>3, <3>1, RetainedStay
  <2> QED BY <2>3, <2>4, <2>5, <2>6 DEF Settlement
<1>3. CASE Captured(p, n) /\ result # "failed" /\ SettleNew(p, n, result)
  BY <1>3, SettlesNew
<1>4. CASE UNCHANGED <<facts, records, reuseIndex, sequence, runs>>
  <2>1. (Keyed => Keyed') /\ (Retained => Retained')
    BY <1>4 DEF Keyed, Retained, Recorded
  <2> QED BY <1>4, <2>1, FactsStay, RecordsStay, RunsStay DEF Settlement
<1> QED BY <1>1, <1>2, <1>3, <1>4 DEF Settled

(* A reused result is the record the decision went by, still there.        *)
LEMMA Reuses ==
    ASSUME TypeOK, NEW p \in Slots, NEW n \in Nodes, runs[p] # None, Reused(p, n),
           \A r \in records : r.seq = prep[p].rec[n] =>
                r.key = Key(prep[p].graph, prep[p].backend, n)
    PROVE  Settlement(p, n)
<1> DEFINE s == prep[p].rec[n]
<1>1. RecordsStep
  BY RecordsStay DEF Reused
<1>2. CASE /\ Captured(p, n) /\ Recorded(s)
           /\ facts' = [facts EXCEPT ![n] = Current(n, RecordOf(s))]
           /\ runs' = AcceptFor(p, n, s)
  <2> DEFINE r == RecordOf(s)
  <2>1. r \in records /\ r.seq = s
    BY <1>2 DEF Recorded, RecordOf
  <2> HIDE DEF r
  <2>2. r \in Records /\ s \in Nat
    BY <2>1 DEF TypeOK, Records
  <2>3. facts' \in [Nodes -> Facts] /\ facts'[n] = Current(n, r)
        /\ \A m \in Nodes \ {n} : Kept(m)
    <3>1. facts' = [facts EXCEPT ![n] = Current(n, r)]
      BY <1>2 DEF r
    <3> QED BY <2>2, <3>1, SettledFact, OneFact
  <2>4. Renewed(p, n)
    <3>1. records' = records
      BY DEF Reused
    <3> QED BY <1>2, <2>1, <2>3, <3>1 DEF Renewed
  <2>5. SameRuns /\ runs' \in [Slots -> Runs \union {None}]
    BY <1>2, <2>2, RunAccepts
  <2>6. (Keyed => Keyed') /\ (Retained => Retained')
    <3>1. Recorded(facts'[n].rec)
      BY <2>1, <2>2, <2>3, SettledFact DEF Recorded
    <3> QED BY <2>3, <3>1, RetainedStay DEF Reused
  <2> QED BY <1>1, <2>3, <2>4, <2>5, <2>6 DEF Settlement
<1>3. CASE UNCHANGED <<facts, runs>>
  <2>1. (Keyed => Keyed') /\ (Retained => Retained')
    BY <1>3 DEF Keyed, Retained, Recorded, Reused
  <2> QED BY <1>1, <1>3, <2>1, FactsStay, RunsStay DEF Settlement
<1> QED BY <1>2, <1>3 DEF Reused

(* What the second half of a listener comes to: a settlement, nothing but  *)
(* the trigger's generation, or the end of a submission.                   *)
HandlesResult(b, p, n) ==
    /\ hand[b].kind # "ended" /\ runs[p] # None /\ Stands(b) /\ step[p] = "started" /\ prep[p].backend = b
    /\ prep[p].action[n] \in {"execute", "reuse"}
    /\ Settlement(p, n)
    /\ UNCHANGED <<triggerGeneration, triggerReservations, step, prep>>
HandlesTrigger(b) ==
    /\ hand[b].kind # "ended"
    /\ triggerGeneration' \in Nat /\ triggerReservations' \subseteq triggerReservations
    /\ UNCHANGED <<facts, records, reuseIndex, sequence, runs, step, prep>>
HandlesEnd(b, p) ==
    /\ step[p] = "started" /\ worker[p] = "none" /\ prep[p].backend = b
    /\ Ending(b, p)
    /\ runs' = [runs EXCEPT ![p] = None]
    /\ triggerReservations' = triggerReservations \ {p}
    /\ step' = [step EXCEPT ![p] = "idle"] /\ prep' = [prep EXCEPT ![p] = Blank]
    /\ UNCHANGED <<facts, records, reuseIndex, sequence, triggerGeneration>>

LEMMA Handled ==
    ASSUME TypeOK, LinkInv, SlotInv, RunInv, EventInv, NEW b \in Backends, Handle(b)
    PROVE  /\ hand' = [hand EXCEPT ![b] = None] /\ hand[b] # None
           /\ \/ \E p \in Slots, n \in Nodes : HandlesResult(b, p, n)
              \/ HandlesTrigger(b)
              \/ \E p \in Slots : HandlesEnd(b, p)
<1>0. PICK e, p : e = hand[b] /\ p = e.slot
  OBVIOUS
<1>1. e # None /\ e \in Events /\ hand' = [hand EXCEPT ![b] = None] /\ hand[b] # None
  BY <1>0 DEF Handle, TypeOK
<1>2. /\ p \in Slots \union {None} /\ (p = None <=> e.kind = "changed")
      /\ p # None =>
            /\ step[p] = "started" /\ prep[p].backend = b
            /\ e.kind = "ended" => worker[p] = "none"
            /\ runs[p] # None => e.binding = binding
      /\ e.binding = binding => snapshots[b] = e.tag
      /\ e.kind = "settled" =>
            /\ e.node \in Nodes /\ prep[p].action[e.node] = "execute"
            /\ e.result \in Results \union {"failed"}
      /\ e.kind = "reused" => e.node \in Nodes /\ prep[p].action[e.node] = "reuse"
  BY <1>0, <1>1 DEF EventInv, Events
<1>3. CASE e.kind = "ended"
  <2>1. p \in Slots /\ step[p] = "started" /\ prep[p].backend = b /\ worker[p] = "none"
    BY <1>2, <1>3
  <2>2. /\ step' = [step EXCEPT ![p] = "idle"] /\ prep' = [prep EXCEPT ![p] = Blank]
    BY <1>0, <1>3 DEF Handle
  <2>3. Ending(b, p)
    BY <1>0, <1>1, <1>3 DEF Ending
  <2>4. ASSUME Stands(b) PROVE HandlesEnd(b, p)
    <3>1. /\ ReleaseTrigger(p) /\ runs' = [runs EXCEPT ![p] = None]
          /\ UNCHANGED <<facts, records, reuseIndex, sequence, triggerGeneration>>
      BY <1>0, <1>3, <2>4 DEF Handle
    <3> QED BY <2>1, <2>2, <2>3, <3>1 DEF HandlesEnd, ReleaseTrigger
  <2>5. ASSUME ~Stands(b) PROVE HandlesEnd(b, p)
    <3>1. UNCHANGED <<facts, records, reuseIndex, sequence, runs,
                      triggerGeneration, triggerReservations>>
      BY <1>0, <2>5 DEF Handle
    <3>2. runs[p] = None
      <4>1. ASSUME runs[p] # None PROVE FALSE
        <5>1. p # None
          BY <2>1, StoreAssumption
        <5>2. runs[p].snapshot = snapshots[b] /\ e.binding = binding /\ snapshots[b] = e.tag
          BY <1>2, <2>1, <4>1, <5>1 DEF RunInv
        <5> QED BY <1>0, <2>5, <4>1, <5>1, <5>2 DEF Stands
      <4> QED BY <4>1
    <3>3. p \notin triggerReservations
      BY <2>1, <3>2 DEF RunInv
    <3>4. runs' = [runs EXCEPT ![p] = None] /\ triggerReservations' = triggerReservations \ {p}
      BY <3>1, <3>2, <3>3 DEF TypeOK
    <3> QED BY <2>1, <2>2, <2>3, <3>1, <3>4 DEF HandlesEnd
  <2>6. HandlesEnd(b, p)
    BY <2>4, <2>5
  <2> QED BY <1>1, <2>1, <2>6
<1>4. CASE e.kind # "ended" /\ Stands(b)
  <2>1. p # None /\ p \in Slots /\ runs[p] # None
    BY <1>0, <1>2, <1>4 DEF Stands
  <2>2. /\ step[p] = "started" /\ prep[p].backend = b /\ UNCHANGED <<step, prep>>
    BY <1>0, <1>2, <1>4, <2>1 DEF Handle
  <2>3. CASE e.kind = "settled" /\ Settled(p, e.node, e.result)
            /\ UNCHANGED <<triggerGeneration, triggerReservations>>
    <3>1. Settlement(p, e.node)
      BY <1>2, <2>1, <2>2, <2>3, Settles1
    <3>2. HandlesResult(b, p, e.node)
      BY <1>2, <1>4, <2>1, <2>2, <2>3, <1>0, <3>1 DEF HandlesResult
    <3> QED BY <1>1, <1>2, <2>1, <2>3, <3>2
  <2>4. CASE e.kind = "reused" /\ Reused(p, e.node)
            /\ UNCHANGED <<triggerGeneration, triggerReservations>>
    <3>1. e.node \in Nodes /\ e.node \in Accepted(p)
      BY <1>2, <2>4 DEF Accepted
    <3>2. \A r \in records : r.seq = prep[p].rec[e.node] =>
                r.key = Key(prep[p].graph, prep[p].backend, e.node)
      BY <2>1, <2>2, <3>1 DEF LinkInv, LinkPrep, Decided
    <3>3. Settlement(p, e.node)
      BY <2>1, <2>4, <3>1, <3>2, Reuses
    <3>4. HandlesResult(b, p, e.node)
      BY <1>2, <1>4, <2>1, <2>2, <2>4, <1>0, <3>3 DEF HandlesResult
    <3> QED BY <1>1, <2>1, <3>1, <3>4
  <2>5. CASE e.kind = "trigger" /\ CommitTrigger(p)
            /\ UNCHANGED <<facts, records, reuseIndex, sequence, runs>>
    <3>1. prep[p].trigger \in Nat /\ triggerGeneration \in Nat
      <4>1. prep[p] \in Submissions
        BY <2>1 DEF TypeOK
      <4> QED BY <4>1 DEF TypeOK, Submissions
    <3>2. HandlesTrigger(b)
      BY <1>0, <1>4, <2>2, <2>5, <3>1 DEF HandlesTrigger, CommitTrigger
    <3> QED BY <1>1, <3>2
  <2> QED BY <1>0, <1>4, <2>3, <2>4, <2>5 DEF Handle
<1>5. CASE e.kind # "ended" /\ ~Stands(b)
  <2>1. HandlesTrigger(b)
    BY <1>0, <1>5 DEF Handle, HandlesTrigger, TypeOK
  <2> QED BY <1>1, <2>1
<1> QED BY <1>3, <1>4, <1>5

LEMMA TypesHandle ==
    ASSUME TypeOK, LinkInv, SlotInv, RunInv, EventInv, NEW b \in Backends, Handle(b)
    PROVE  TypeOK'
<1> USE Handled
<1>1. hand' \in [Backends -> Events \union {None}]
  BY DEF TypeOK
<1>2. UNCHANGED <<graph, nodeRevisions, workspaceRevision, preparations, binding,
                   snapshots, workerVars, submitted, changes>>
  BY DEF Handle
<1>3. ASSUME NEW p \in Slots, NEW n \in Nodes, HandlesResult(b, p, n) PROVE TypeOK'
  <2>1. /\ facts' \in [Nodes -> Facts] /\ runs' \in [Slots -> Runs \union {None}]
        /\ UNCHANGED <<triggerGeneration, triggerReservations, step, prep>> /\ RecordsStep
    BY <1>3 DEF HandlesResult, Settlement
  <2>2. \A r \in records' : r.seq \in 1 .. sequence'
    <3>1. sequence \in Nat /\ sequence' \in Nat /\ sequence' >= sequence
      BY <2>1 DEF RecordsStep, TypeOK
    <3>2. \A r \in records : r.seq \in 1 .. sequence
      BY DEF TypeOK
    <3> QED BY <2>1, <3>1, <3>2 DEF RecordsStep
  <2> QED BY <1>1, <1>2, <2>1, <2>2 DEF TypeOK, RecordsStep, workerVars
<1>4. CASE HandlesTrigger(b)
  BY <1>1, <1>2, <1>4 DEF TypeOK, HandlesTrigger, workerVars
<1>5. ASSUME NEW p \in Slots, HandlesEnd(b, p) PROVE TypeOK'
  <2>1. prep' \in [Slots -> Submissions] /\ runs' \in [Slots -> Runs \union {None}]
    BY <1>5, Constants DEF HandlesEnd, TypeOK
  <2>2. /\ step' \in [Slots -> {"idle", "captured", "computed", "registered",
                           "claimed", "reserved", "accepted", "started"}]
        /\ \A q \in preparations : step'[q] \in {"registered", "claimed", "reserved"}
        /\ triggerReservations' \subseteq triggerReservations
    BY <1>5 DEF HandlesEnd, TypeOK
  <2> QED BY <1>1, <1>2, <1>5, <2>1, <2>2 DEF TypeOK, HandlesEnd, workerVars
<1> QED BY <1>3, <1>4, <1>5

---------------------------------------------------------------------------
(* What the actions leave of a preparation.                                *)

SameRequest(q) ==
    /\ prep'[q].backend = prep[q].backend /\ prep'[q].graph = prep[q].graph
    /\ prep'[q].revision = prep[q].revision /\ prep'[q].action = prep[q].action
    /\ prep'[q].rec = prep[q].rec /\ prep'[q].snapshot = prep[q].snapshot
SameRevision(q) == prep'[q].rev = prep[q].rev
SameAdopted(q) == prep'[q].adopted = prep[q].adopted
SameBinding(q) == prep'[q].binding = prep[q].binding
SameReserved(q) == prep'[q].reserved = prep[q].reserved
SamePins(q) == prep'[q].pins = prep[q].pins

LEMMA PrepUnchanged ==
    ASSUME NEW q \in Slots, prep'[q] = prep[q]
    PROVE  /\ SameRequest(q) /\ SameRevision(q) /\ SameAdopted(q) /\ SameBinding(q)
           /\ SameReserved(q) /\ SamePins(q)
BY DEF SameRequest, SameRevision, SameAdopted, SameBinding, SameReserved, SamePins

LEMMA PrepOfEdit ==
    ASSUME TypeOK, NEW n \in Nodes, NEW content \in Contents \union {Gone}, Edit(n, content),
           NEW q \in Slots
    PROVE  /\ SameRequest(q) /\ SameRevision(q) /\ SameAdopted(q) /\ SameBinding(q)
           /\ SameReserved(q)
           /\ prep'[q].pins \subseteq prep[q].pins
           /\ q \in preparations => \A r \in records : r.seq \in prep'[q].pins =>
                    \A t \in records : t.seq = r.seq => t \in records'
<1> DEFINE lost == {r \in records : content = Gone /\ r.node = n}
           seqs == {r.seq : r \in lost}
<1>1. prep[q] \in Submissions
  BY DEF TypeOK
<1>2. prep'[q] = IF q \in preparations THEN [prep[q] EXCEPT !.pins = @ \ seqs] ELSE prep[q]
  BY DEF Edit, Unpin
<1>3. records' = records \ lost
  BY DEF Edit
<1>4. CASE q \in preparations
  <2>1. prep'[q] = [prep[q] EXCEPT !.pins = prep[q].pins \ seqs]
    BY <1>2, <1>4
  <2>2. prep'[q].pins = prep[q].pins \ seqs
    BY <1>1, <2>1 DEF Submissions
  <2>3. /\ SameRequest(q) /\ SameRevision(q) /\ SameAdopted(q) /\ SameBinding(q)
        /\ SameReserved(q)
    BY <1>1, <2>1 DEF Submissions, SameRequest, SameRevision, SameAdopted, SameBinding, SameReserved
  <2> QED BY <1>3, <2>2, <2>3
<1>5. CASE q \notin preparations
  BY <1>2, <1>5, PrepUnchanged DEF SamePins
<1> QED BY <1>4, <1>5

LEMMA PrepOfRegister ==
    ASSUME TypeOK, NEW p \in Slots, Register(p), NEW q \in Slots
    PROVE  /\ SameRequest(q) /\ SameRevision(q) /\ SameAdopted(q) /\ SameBinding(q)
           /\ SameReserved(q) /\ (q # p => SamePins(q))
           /\ prep'[p].pins = {prep[p].rec[n] : n \in Accepted(p)}
<1>1. prep[p] \in Submissions /\ prep \in [Slots -> Submissions]
  BY DEF TypeOK
<1>2. prep' = [prep EXCEPT ![p] = [[prep[p] EXCEPT !.seq = sequence + 1]
            EXCEPT !.pins = {prep[p].rec[n] : n \in Accepted(p)}]]
  BY <1>1 DEF Register
<1>3. q # p => prep'[q] = prep[q]
  BY <1>1, <1>2
<1>4. prep'[p] = [[prep[p] EXCEPT !.seq = sequence + 1]
            EXCEPT !.pins = {prep[p].rec[n] : n \in Accepted(p)}]
  BY <1>1, <1>2
<1>5. /\ SameRequest(p) /\ SameRevision(p) /\ SameAdopted(p) /\ SameBinding(p) /\ SameReserved(p)
      /\ prep'[p].pins = {prep[p].rec[n] : n \in Accepted(p)}
  BY <1>1, <1>4 DEF Submissions, SameRequest, SameRevision, SameAdopted, SameBinding, SameReserved
<1> QED BY <1>3, <1>5, PrepUnchanged

LEMMA PrepOfClaim ==
    ASSUME TypeOK, NEW p \in Slots, Claim(p), NEW q \in Slots
    PROVE  /\ SameRequest(q) /\ SameRevision(q) /\ SameAdopted(q)
           /\ SameReserved(q) /\ SamePins(q) /\ (q # p => SameBinding(q))
           /\ prep'[p].binding = binding
<1>1. prep[p] \in Submissions /\ prep \in [Slots -> Submissions]
  BY DEF TypeOK
<1>2. (q # p => prep'[q] = prep[q]) /\ prep'[p] = [prep[p] EXCEPT !.binding = binding]
  BY <1>1 DEF Claim
<1>3. /\ SameRequest(p) /\ SameRevision(p) /\ SameAdopted(p) /\ SamePins(p) /\ SameReserved(p)
      /\ prep'[p].binding = binding
  BY <1>1, <1>2 DEF Submissions, SameRequest, SameRevision, SameAdopted, SamePins, SameReserved
<1> QED BY <1>2, <1>3, PrepUnchanged

LEMMA PrepOfReserve ==
    ASSUME TypeOK, NEW p \in Slots, Reserve(p), NEW q \in Slots
    PROVE  /\ SameRequest(q) /\ SameRevision(q) /\ SameAdopted(q) /\ SameBinding(q)
           /\ SamePins(q) /\ (q # p => SameReserved(q))
           /\ prep'[p].reserved = live[prep[p].backend]
<1>1. prep[p] \in Submissions /\ prep \in [Slots -> Submissions]
  BY DEF TypeOK
<1>2. /\ q # p => prep'[q] = prep[q]
      /\ prep'[p] = [prep[p] EXCEPT !.reserved = live[prep[p].backend]]
  BY <1>1 DEF Reserve
<1>3. /\ SameRequest(p) /\ SameRevision(p) /\ SameAdopted(p) /\ SamePins(p) /\ SameBinding(p)
      /\ prep'[p].reserved = live[prep[p].backend]
  BY <1>1, <1>2 DEF Submissions, SameRequest, SameRevision, SameAdopted, SamePins, SameBinding
<1> QED BY <1>2, <1>3, PrepUnchanged

LEMMA PrepOfAcceptCold ==
    ASSUME TypeOK, NEW p \in Slots, AcceptCold(p), NEW q \in Slots
    PROVE  /\ SameRequest(q) /\ SameReserved(q) /\ SameBinding(q) /\ SamePins(q)
           /\ q # p => SameRevision(q) /\ SameAdopted(q)
           /\ prep'[p].rev = RevisionsAfterReset
<1>1. prep[p] \in Submissions /\ prep \in [Slots -> Submissions]
  BY DEF TypeOK
<1>2. prep' = [prep EXCEPT ![p] =
        [[prep[p] EXCEPT !.rev = RevisionsAfterReset] EXCEPT !.adopted = WorkspaceAfterReset]]
  BY <1>1 DEF AcceptCold
<1>3. q # p => prep'[q] = prep[q]
  BY <1>1, <1>2
<1>4. prep'[p] = [[prep[p] EXCEPT !.rev = RevisionsAfterReset] EXCEPT !.adopted = WorkspaceAfterReset]
  BY <1>1, <1>2
<1>5. /\ SameRequest(p) /\ SameReserved(p) /\ SameBinding(p) /\ SamePins(p)
      /\ prep'[p].rev = RevisionsAfterReset
  BY <1>1, <1>4 DEF Submissions, SameRequest, SameReserved, SameBinding, SamePins
<1> QED BY <1>3, <1>5, PrepUnchanged

LEMMA PrepOfObserve ==
    ASSUME TypeOK, NEW p \in Slots, NEW root \in Nodes, NEW n \in Nodes, Observe(p, root, n),
           NEW q \in Slots
    PROVE  /\ SameRequest(q) /\ SameRevision(q) /\ SameBinding(q) /\ SameReserved(q)
           /\ SamePins(q) /\ (q # p => SameAdopted(q))
<1>1. prep[p] \in Submissions /\ prep \in [Slots -> Submissions]
  BY DEF TypeOK
<1>2. /\ q # p => prep'[q] = prep[q]
      /\ prep'[p] = [prep[p] EXCEPT !.adopted = workspaceRevision + 1]
  BY <1>1 DEF Observe
<1>3. /\ SameRequest(p) /\ SameRevision(p) /\ SameBinding(p) /\ SameReserved(p) /\ SamePins(p)
  BY <1>1, <1>2 DEF Submissions, SameRequest, SameRevision, SameBinding, SameReserved, SamePins
<1> QED BY <1>2, <1>3, PrepUnchanged

LEMMA PrepOfCapture ==
    ASSUME TypeOK, NEW p \in Slots, NEW b \in Backends, Capture(p, b)
    PROVE  /\ prep'[p].backend = b /\ prep'[p].binding = binding
           /\ prep'[p].revision = workspaceRevision /\ prep'[p].graph = graph
           /\ prep'[p].adopted = -1 /\ \A n \in Nodes : prep'[p].rec[n] = 0
           /\ \A q \in Slots \ {p} : prep'[q] = prep[q]
<1>1. Blank \in Submissions /\ Blank.adopted = -1 /\ Blank.rec = [n \in Nodes |-> 0]
  BY Constants DEF Blank
<1>2. prep'[p] = [Blank EXCEPT !.backend = b, !.binding = binding,
                      !.revision = workspaceRevision, !.graph = graph,
                      !.known = [n \in Nodes |-> facts[n].rec]]
  BY TypesCapture
<1>3. /\ prep'[p].backend = b /\ prep'[p].binding = binding
      /\ prep'[p].revision = workspaceRevision /\ prep'[p].graph = graph
      /\ prep'[p].adopted = -1 /\ prep'[p].rec = [n \in Nodes |-> 0]
  BY <1>1, <1>2 DEF Submissions
<1>4. \A q \in Slots \ {p} : prep'[q] = prep[q]
  BY DEF Capture, TypeOK
<1> QED BY <1>3, <1>4

(* What an edit or an observation leaves of a run.                         *)
LEMMA RunsOfEdit ==
    ASSUME TypeOK, NEW n \in Nodes, NEW content \in Contents \union {Gone}, Edit(n, content),
           NEW q \in Slots
    PROVE  /\ runs'[q] = None <=> runs[q] = None
           /\ runs[q] # None =>
                 /\ runs'[q].snapshot = runs[q].snapshot /\ runs'[q].before = runs[q].before
                 /\ runs'[q].pins \subseteq runs[q].pins
                 /\ \A r \in records : r.seq \in runs'[q].pins =>
                        \A t \in records : t.seq = r.seq => t \in records'
<1> DEFINE lost == {r \in records : content = Gone /\ r.node = n}
           seqs == {r.seq : r \in lost}
<1>1. runs'[q] = IF runs[q] = None THEN None ELSE [runs[q] EXCEPT !.pins = @ \ seqs]
  BY DEF Edit, Unpin
<1>2. records' = records \ lost
  BY DEF Edit
<1>3. ASSUME runs[q] # None
      PROVE  /\ runs'[q] \in Runs /\ runs'[q].pins = runs[q].pins \ seqs
             /\ runs'[q].snapshot = runs[q].snapshot /\ runs'[q].before = runs[q].before
  <2>1. runs[q] \in Runs /\ runs'[q] = [runs[q] EXCEPT !.pins = runs[q].pins \ seqs]
    BY <1>1, <1>3 DEF TypeOK
  <2> QED BY <2>1 DEF Runs
<1>4. runs[q] # None => runs'[q] # None
  BY <1>3, StoreAssumption
<1> QED BY <1>1, <1>2, <1>3, <1>4

LEMMA RunsOfObserve ==
    ASSUME TypeOK, NEW p \in Slots, NEW root \in Nodes, NEW n \in Nodes, Observe(p, root, n)
    PROVE  SameRuns
<1>1. PICK accepted : runs' = [runs EXCEPT ![p] = [runs[p] EXCEPT !.accepted = accepted]]
                        /\ accepted \in [Nodes -> Nat]
  <2>1. PICK hit : runs' = [runs EXCEPT ![p].accepted = [m \in Nodes |-> IF m \in hit THEN 0 ELSE @[m]]]
    BY DEF Observe
  <2>2. runs[p] \in Runs
    BY DEF Observe, TypeOK
  <2>3. [m \in Nodes |-> IF m \in hit THEN 0 ELSE runs[p].accepted[m]] \in [Nodes -> Nat]
    BY <2>2 DEF Runs
  <2> QED BY <2>1, <2>3
<1>2. runs[p] \in Runs /\ runs[p] # None
  BY DEF Observe, TypeOK
<1> DEFINE new == [runs[p] EXCEPT !.accepted = accepted]
<1>3. /\ new \in Runs /\ new.snapshot = runs[p].snapshot
      /\ new.before = runs[p].before /\ new.pins = runs[p].pins
  BY <1>1, <1>2 DEF Runs
<1>4. new # None
  BY <1>3, StoreAssumption
<1> HIDE DEF new
<1> QED BY <1>1, <1>2, <1>3, <1>4 DEF SameRuns, TypeOK, new

---------------------------------------------------------------------------
(* Whose turn it is.                                                       *)

LEMMA SlotsStay ==
    ASSUME SlotInv, UNCHANGED <<step, worker, todo, hand>>,
           \A q \in Slots : SameRequest(q) /\ SameReserved(q)
    PROVE  SlotInv'
BY DEF SlotInv, Busy, Ending, SameRequest, SameReserved

LEMMA SlotsMove ==
    ASSUME TypeOK, SlotInv, UNCHANGED <<worker, todo, hand>>,
           NEW p \in Slots, step[p] # "started",
           NEW s \in {"idle", "captured", "computed", "registered", "claimed"},
           step' = [step EXCEPT ![p] = s], s # "idle" => prep'[p].backend \in Backends,
           \A q \in Slots \ {p} : SameRequest(q) /\ SameReserved(q)
    PROVE  SlotInv'
<1>1. step'[p] = s /\ \A q \in Slots \ {p} : step'[q] = step[q]
  BY DEF TypeOK
<1>2. worker[p] = "none" /\ ~Busy(p)'
  BY <1>1 DEF SlotInv, Busy
<1> QED BY <1>1, <1>2 DEF SlotInv, Busy, Ending, SameRequest, SameReserved

LEMMA SlotsAdvance ==
    ASSUME TypeOK, SlotInv, UNCHANGED hand, NEW p \in Slots,
           Reserve(p) \/ AcceptWarm(p) \/ AcceptCold(p) \/ Start(p)
    PROVE  SlotInv'
<1>1. /\ step[p] # "started" /\ step[p] # "idle"
      /\ \A q \in Slots \ {p} : step'[q] = step[q] /\ worker'[q] = worker[q] /\ todo'[q] = todo[q]
  BY DEF Reserve, AcceptWarm, AcceptCold, Acceptable, Start, workerVars, TypeOK
<1>2. prep[p].backend \in Backends /\ worker[p] = "none"
  BY <1>1 DEF SlotInv
<1>3. ASSUME NEW q \in Slots
      PROVE  /\ SameRequest(q)
             /\ q # p \/ ~Reserve(p) => SameReserved(q)
  <2>1. CASE Reserve(p)
    BY <2>1, PrepOfReserve
  <2>2. CASE AcceptCold(p)
    BY <2>2, PrepOfAcceptCold
  <2>3. CASE AcceptWarm(p) \/ Start(p)
    BY <2>3, PrepUnchanged DEF AcceptWarm, Start
  <2> QED BY <2>1, <2>2, <2>3
<1>4. CASE Reserve(p)
  <2>1. /\ prep'[p].reserved.up /\ step'[p] = "reserved" /\ UNCHANGED <<worker, todo>>
        /\ \A q \in Slots : prep[q].backend = prep[p].backend => ~Busy(q)
    BY <1>4, PrepOfReserve DEF Reserve, workerVars, Idle, Busy, TypeOK
  <2> QED BY <1>1, <1>2, <1>3, <2>1 DEF SlotInv, Busy, Ending, SameRequest, SameReserved
<1>5. CASE AcceptWarm(p) \/ AcceptCold(p)
  <2>1. step[p] = "reserved" /\ step'[p] = "accepted" /\ UNCHANGED <<worker, todo>>
    BY <1>5 DEF AcceptWarm, AcceptCold, Acceptable, workerVars, TypeOK
  <2>2. ~Reserve(p)
    BY <2>1 DEF Reserve
  <2>3. \A q \in Slots : Busy(q)' <=> Busy(q)
    BY <1>1, <2>1 DEF Busy
  <2> QED BY <1>1, <1>2, <1>3, <2>1, <2>2, <2>3 DEF SlotInv, Ending, SameRequest, SameReserved
<1>6. CASE Start(p)
  <2>1. /\ step[p] = "accepted" /\ step'[p] = "started" /\ worker'[p] = "running"
        /\ todo'[p] = {n \in Nodes : prep[p].action[n] \in {"execute", "reuse"}}
    BY <1>6 DEF Start, TypeOK
  <2>2. ~Reserve(p)
    BY <2>1 DEF Reserve
  <2>3. \A q \in Slots : Busy(q)' <=> Busy(q)
    BY <1>1, <2>1 DEF Busy
  <2> QED BY <1>1, <1>2, <1>3, <2>1, <2>2, <2>3 DEF SlotInv, Ending, SameRequest, SameReserved
<1> QED BY <1>4, <1>5, <1>6

LEMMA SlotsReceive ==
    ASSUME TypeOK, SlotInv, NEW b \in Backends, Receive(b)
    PROVE  SlotInv'
<1>1. PICK e \in Events : Takes(b, e) /\ (LossOf(e) \/ \E p \in Slots : ReportOf(b, e, p))
  BY Received
<1>2. hand[b] = None /\ hand'[b] = e /\ e # None /\ \A c \in Backends \ {b} : hand'[c] = hand[c]
  BY <1>1 DEF Receive, Takes, TypeOK
<1>3. UNCHANGED <<step, prep>>
  BY DEF Receive
<1>4. \A q \in Slots, c \in Backends : Ending(c, q) => Ending(c, q)'
  BY <1>2 DEF Ending
<1>5. CASE LossOf(e)
  BY <1>3, <1>4, <1>5 DEF SlotInv, Busy, LossOf
<1>6. ASSUME NEW p \in Slots, ReportOf(b, e, p)
      PROVE  SlotInv'
  <2>1. prep[p].backend = b /\ worker[p] # "none" /\ e.slot = p
    BY <1>6 DEF ReportOf
  <2>2. \A q \in Slots : todo'[q] \subseteq todo[q]
    BY <1>6 DEF ReportOf, TypeOK
  <2>3. \A q \in Slots \ {p} : worker'[q] = worker[q]
    BY <1>6 DEF ReportOf, TypeOK
  <2>4. worker'[p] # "none" \/ Ending(b, p)'
    BY <1>2, <1>6, <2>1 DEF ReportOf, Ending, TypeOK
  <2>5. \A q \in Slots : worker'[q] # "none" => worker[q] # "none"
    BY <2>1, <2>3
  <2>6. \A q \in Slots : Busy(q)' => Busy(q)
    BY <1>3, <2>5 DEF Busy
  <2> QED BY <1>3, <1>4, <2>1, <2>2, <2>3, <2>4, <2>5, <2>6 DEF SlotInv
<1> QED BY <1>1, <1>5, <1>6

LEMMA SlotsHandle ==
    ASSUME TypeOK, LinkInv, SlotInv, RunInv, EventInv, NEW b \in Backends, Handle(b)
    PROVE  SlotInv'
<1>1. hand'[b] = None /\ \A c \in Backends \ {b} : hand'[c] = hand[c]
  BY Handled DEF TypeOK
<1>2. UNCHANGED <<worker, todo>>
  BY DEF Handle, workerVars
<1>3. CASE hand[b].kind # "ended" /\ UNCHANGED <<step, prep>>
  <2>1. \A q \in Slots, c \in Backends : Ending(c, q) => Ending(c, q)'
    BY <1>1, <1>3 DEF Ending
  <2> QED BY <1>2, <1>3, <2>1 DEF SlotInv, Busy
<1>4. ASSUME NEW p \in Slots, HandlesEnd(b, p) PROVE SlotInv'
  <2>1. /\ step'[p] = "idle" /\ worker[p] = "none" /\ Ending(b, p) /\ prep'[p] = Blank
        /\ \A q \in Slots \ {p} : step'[q] = step[q] /\ prep'[q] = prep[q]
    BY <1>4 DEF HandlesEnd, TypeOK
  <2>2. \A q \in Slots \ {p}, c \in Backends : Ending(c, q) => Ending(c, q)'
    BY <1>1, <2>1 DEF Ending
  <2>3. ~Busy(p)' /\ \A q \in Slots \ {p} : Busy(q)' <=> Busy(q)
    BY <1>2, <2>1 DEF Busy
  <2> QED BY <1>2, <2>1, <2>2, <2>3 DEF SlotInv
<1> QED BY Handled, <1>3, <1>4 DEF HandlesResult, HandlesTrigger

---------------------------------------------------------------------------
(* The generation of a run, and the reservation of the trigger.            *)

LEMMA RunsQuiet ==
    ASSUME RunInv, SameRuns, UNCHANGED <<step, snapshots>>,
           triggerReservations' \subseteq triggerReservations,
           \A q \in Slots : SameRequest(q)
    PROVE  RunInv'
BY DEF RunInv, SameRuns, SameRequest, Decided

LEMMA RunsMove ==
    ASSUME TypeOK, RunInv, UNCHANGED <<runs, snapshots>>, NEW p \in Slots,
           step[p] \notin {"accepted", "started"},
           NEW s \in {"captured", "computed", "registered", "claimed", "reserved"},
           step' = [step EXCEPT ![p] = s],
           s = "captured" => step[p] = "idle",
           \/ triggerReservations' \subseteq triggerReservations
           \/ triggerReservations' = {p} /\ s # "captured",
           \A q \in Slots \ {p} : SameRequest(q)
    PROVE  RunInv'
<1>1. step'[p] = s /\ \A q \in Slots \ {p} : step'[q] = step[q]
  BY DEF TypeOK
<1>2. runs[p] = None
  BY DEF RunInv
<1> QED BY <1>1, <1>2 DEF RunInv, SameRequest, Decided

(* Two runs of one backend in a row: the first is over when the second is  *)
(* accepted, but its last event is still in the listener's hands.  Both    *)
(* belong to the generation that event came from.                          *)
LEMMA SuccessorSharesGeneration ==
    ASSUME TypeOK, SlotInv, RunInv, EventInv, NEW p \in Slots, Acceptable(p),
           NEW q \in Slots \ {p}, prep[q].backend = prep[p].backend, runs[q] # None
    PROVE  runs[q].snapshot = prep[p].reserved
<1> DEFINE b == prep[p].backend
<1>1. /\ step[p] = "reserved" /\ live[b] = prep[p].reserved /\ b \in Backends
      /\ prep[p].reserved.up
  BY DEF Acceptable, SlotInv
<1>2. Busy(p) /\ ~Busy(q)
  BY <1>1 DEF SlotInv, Busy
<1>3. step[q] = "started" /\ worker[q] = "none"
  BY <1>2 DEF RunInv, Busy
<1>4. Ending(b, q)
  BY <1>3 DEF SlotInv
<1>5. /\ runs[q].snapshot = snapshots[b] /\ runs[q].snapshot.up
  BY DEF RunInv
<1>6. hand[b].slot = q /\ hand[b].slot # None /\ hand[b] # None
  BY <1>4, StoreAssumption DEF Ending
<1>7. /\ hand[b].tag.gen = live[b].gen /\ hand[b].binding = binding
      /\ snapshots[b] = hand[b].tag
  BY <1>1, <1>6 DEF EventInv
<1>8. live[b] \in Snapshots /\ snapshots[b] \in Snapshots
  BY <1>1 DEF TypeOK
<1>9. live[b] = snapshots[b]
  BY <1>1, <1>5, <1>7, <1>8 DEF Snapshots
<1> QED BY <1>1, <1>5, <1>9

LEMMA RunsAccept ==
    ASSUME TypeOK, SlotInv, RunInv, EventInv, NEW p \in Slots,
           AcceptWarm(p) \/ AcceptCold(p)
    PROVE  RunInv'
<1> DEFINE b == prep[p].backend
<1>1. /\ Acceptable(p) /\ step[p] = "reserved" /\ b \in Backends /\ prep[p].reserved.up
      /\ snapshots' = [snapshots EXCEPT ![b] = prep[p].reserved]
      /\ step' = [step EXCEPT ![p] = "accepted"]
  BY DEF AcceptWarm, AcceptCold, Acceptable, SlotInv
<1>2. /\ step'[p] = "accepted" /\ \A q \in Slots \ {p} : step'[q] = step[q]
      /\ snapshots'[b] = prep[p].reserved
      /\ \A c \in Backends \ {b} : snapshots'[c] = snapshots[c]
  BY <1>1 DEF TypeOK
<1>3. \A q \in Slots : SameRequest(q)
  <2>1. CASE AcceptWarm(p)
    BY <2>1, PrepUnchanged DEF AcceptWarm
  <2>2. CASE AcceptCold(p)
    BY <2>2, PrepOfAcceptCold
  <2> QED BY <2>1, <2>2
<1>4. /\ runs'[p] # None /\ runs'[p].snapshot = prep[p].reserved
      /\ \A q \in Slots \ {p} : runs'[q] # None => runs'[q] = runs[q]
  <2>1. CASE AcceptWarm(p)
    <3> DEFINE dirty == {n \in Executing(prep[p].action) : facts[n].fresh = "current"}
               before == [n \in Nodes |-> IF n \in dirty THEN facts[n] ELSE Never]
    <3>1. before \in [Nodes -> Facts]
      BY Constants DEF TypeOK
    <3>2. runs' = [runs EXCEPT ![p] = Entry(p, before)]
      BY <2>1 DEF AcceptWarm
    <3> HIDE DEF before
    <3> QED BY <3>1, <3>2, EntryType DEF TypeOK
  <2>2. CASE AcceptCold(p)
    <3>1. [n \in Nodes |-> Never] \in [Nodes -> Facts]
      BY Constants
    <3> QED BY <2>2, <3>1, EntryType DEF AcceptCold
  <2> QED BY <2>1, <2>2
<1>5. triggerReservations' \subseteq triggerReservations
      /\ \A q \in Slots \ {p} : q \in triggerReservations' => runs'[q] = runs[q]
  BY DEF AcceptWarm, AcceptCold, TypeOK
<1>6. ASSUME NEW q \in Slots \ {p}, runs'[q] # None
      PROVE  /\ step'[q] \in {"accepted", "started"} /\ runs'[q].snapshot.up
             /\ runs'[q].snapshot = snapshots'[prep'[q].backend]
  <2>1. runs'[q] = runs[q] /\ runs[q] # None /\ prep'[q].backend = prep[q].backend
    BY <1>3, <1>4, <1>6 DEF SameRequest
  <2>2. /\ step[q] \in {"accepted", "started"} /\ runs[q].snapshot.up
        /\ runs[q].snapshot = snapshots[prep[q].backend]
    BY <2>1 DEF RunInv
  <2>3. prep[q].backend = b => runs[q].snapshot = prep[p].reserved
    BY <1>1, <2>1, SuccessorSharesGeneration
  <2>4. prep[q].backend \in Backends
    BY <2>2 DEF SlotInv
  <2> QED BY <1>2, <2>1, <2>2, <2>3, <2>4
<1>7. prep'[p].backend = b
  BY <1>3 DEF SameRequest
<1> QED BY <1>1, <1>2, <1>4, <1>5, <1>6, <1>7 DEF RunInv, Decided

LEMMA RunsReceive ==
    ASSUME TypeOK, SlotInv, RunInv, NEW b \in Backends, Receive(b)
    PROVE  RunInv'
<1>1. UNCHANGED <<step, prep>> /\ snapshots' = [snapshots EXCEPT ![b] = live[b]]
  BY DEF Receive
<1>2. CASE Known(b)
  <2>1. UNCHANGED <<runs, triggerReservations>>
    BY <1>2 DEF Receive, ownedVars
  <2>2. ASSUME NEW q \in Slots, runs[q] # None
        PROVE  runs[q].snapshot = snapshots'[prep[q].backend]
    <3>1. /\ runs[q].snapshot = snapshots[prep[q].backend] /\ runs[q].snapshot.up
          /\ prep[q].backend \in Backends
      BY <2>2 DEF RunInv, SlotInv
    <3>2. prep[q].backend = b => snapshots[b] = live[b]
      BY <1>2, <3>1 DEF Known, NoSnapshot
    <3> QED BY <1>1, <3>1, <3>2 DEF TypeOK
  <2> QED BY <1>1, <2>1, <2>2 DEF RunInv, Decided
<1>3. CASE ~Known(b)
  <2>1. ResetGeneration
    BY <1>3 DEF Receive
  <2> QED BY <2>1, TypesReset DEF RunInv
<1> QED BY <1>2, <1>3

LEMMA RunsHandle ==
    ASSUME TypeOK, LinkInv, SlotInv, RunInv, EventInv, NEW b \in Backends, Handle(b)
    PROVE  RunInv'
<1>1. UNCHANGED snapshots
  BY DEF Handle
<1>2. ASSUME NEW p \in Slots, NEW n \in Nodes, HandlesResult(b, p, n) PROVE RunInv'
  BY <1>1, <1>2, RunsQuiet, PrepUnchanged DEF HandlesResult, Settlement
<1>3. CASE HandlesTrigger(b)
  BY <1>1, <1>3, RunsQuiet, RunsStay, PrepUnchanged DEF HandlesTrigger
<1>4. ASSUME NEW p \in Slots, HandlesEnd(b, p) PROVE RunInv'
  <2>1. /\ runs'[p] = None /\ p \notin triggerReservations'
        /\ triggerReservations' \subseteq triggerReservations
        /\ \A q \in Slots \ {p} :
                runs'[q] = runs[q] /\ step'[q] = step[q] /\ prep'[q] = prep[q]
    BY <1>4 DEF HandlesEnd, TypeOK
  <2> QED BY <1>1, <2>1 DEF RunInv, Decided
<1> QED BY <1>2, <1>3, <1>4, Handled

---------------------------------------------------------------------------
(* What the listeners have in their hands.                                 *)

LEMMA EventsStay ==
    ASSUME TypeOK, EventInv, UNCHANGED <<hand, live, snapshots, binding>>,
           \A q \in Slots : step[q] = "started" =>
                /\ step'[q] = "started" /\ SameRequest(q) /\ worker'[q] = worker[q]
                /\ runs'[q] # None => runs[q] # None
    PROVE  EventInv'
<1>1. \A b \in Backends : hand[b] # None => hand[b].slot \in Slots \union {None}
  BY DEF TypeOK, Events
<1> QED BY <1>1 DEF EventInv, SameRequest

LEMMA EventsReset ==
    ASSUME TypeOK, EventInv, NEW g \in [Nodes -> Contents], ResetProject(g)
    PROVE  EventInv'
<1>1. \A b \in Backends : hand[b] # None => hand[b].slot \in Slots \union {None}
  BY DEF TypeOK, Events
<1>2. /\ UNCHANGED <<hand, live, step, prep, worker>> /\ binding' = binding + 1
      /\ \A q \in Slots : runs'[q] = None
  BY DEF ResetProject, workerVars
<1>3. binding \in Nat /\ \A b \in Backends : hand[b] # None => hand[b].binding \in Nat
  BY DEF TypeOK, Events
<1> QED BY <1>1, <1>2, <1>3 DEF EventInv

LEMMA EventsAccept ==
    ASSUME TypeOK, SlotInv, EventInv, NEW p \in Slots, AcceptWarm(p) \/ AcceptCold(p)
    PROVE  EventInv'
<1> DEFINE b == prep[p].backend
<1>1. /\ step[p] = "reserved" /\ b \in Backends /\ live[b] = prep[p].reserved /\ live[b].up
      /\ snapshots' = [snapshots EXCEPT ![b] = live[b]]
      /\ UNCHANGED <<hand, live, binding, worker>>
  BY DEF AcceptWarm, AcceptCold, Acceptable, SlotInv, workerVars
<1>2. \A q \in Slots : SameRequest(q)
  <2>1. CASE AcceptWarm(p)
    BY <2>1, PrepUnchanged DEF AcceptWarm
  <2>2. CASE AcceptCold(p)
    BY <2>2, PrepOfAcceptCold
  <2> QED BY <2>1, <2>2
<1>3. \A q \in Slots \ {p} : step'[q] = step[q] /\ (runs'[q] # None => runs[q] # None)
  BY DEF AcceptWarm, AcceptCold, TypeOK
<1>4. ASSUME hand[b] # None PROVE hand[b].tag = live[b]
  <2>1. hand[b].tag \in Snapshots /\ live[b] \in Snapshots
    BY <1>1, <1>4 DEF TypeOK, Events
  <2>2. hand[b].tag.gen = live[b].gen /\ hand[b].tag.up
    BY <1>1, <1>4 DEF EventInv
  <2> QED BY <1>1, <2>1, <2>2 DEF Snapshots
<1>5. \A c \in Backends : hand[c] # None => hand[c].slot \in Slots \union {None}
  BY DEF TypeOK, Events
<1>6. ASSUME NEW c \in Backends, hand[c] # None, hand[c].binding = binding
      PROVE  snapshots'[c] = hand[c].tag
  BY <1>1, <1>4, <1>6 DEF EventInv, TypeOK
<1>7. ASSUME NEW c \in Backends, hand[c] # None, hand[c].slot # None
      PROVE  hand[c].slot \in Slots \ {p}
  BY <1>1, <1>5, <1>7 DEF EventInv
<1> QED BY <1>1, <1>2, <1>3, <1>6, <1>7 DEF EventInv, SameRequest

LEMMA EventsWorker ==
    ASSUME TypeOK, EventInv, NEW b \in Backends, Spawn(b) \/ Lose(b)
    PROVE  EventInv'
<1>1. UNCHANGED <<hand, step, prep, worker, runs, binding, snapshots>>
  BY DEF Spawn, Lose, ownedVars
<1>2. ASSUME NEW c \in Backends, hand[c] # None
      PROVE  live'[c].gen = live[c].gen /\ (live'[c].up => live[c].up)
  <2>1. CASE Spawn(b)
    BY <1>2, <2>1 DEF Spawn, TypeOK
  <2>2. CASE Lose(b)
    <3>1. live' = [live EXCEPT ![b] = [live[b] EXCEPT !.up = FALSE]]
      BY <2>2 DEF Lose
    <3>2. live[b] \in Snapshots /\ live \in [Backends -> Snapshots]
      BY DEF TypeOK
    <3>3. /\ [live[b] EXCEPT !.up = FALSE].gen = live[b].gen
          /\ ~[live[b] EXCEPT !.up = FALSE].up
      BY <3>2 DEF Snapshots
    <3> QED BY <3>1, <3>2, <3>3
  <2> QED BY <2>1, <2>2
<1> QED BY <1>1, <1>2 DEF EventInv

LEMMA EventsReceive ==
    ASSUME TypeOK, SlotInv, EventInv, NEW b \in Backends, Receive(b)
    PROVE  EventInv'
<1>1. PICK e \in Events : Takes(b, e) /\ (LossOf(e) \/ \E p \in Slots : ReportOf(b, e, p))
  BY Received
<1>2. /\ UNCHANGED <<step, prep, live, binding>> /\ snapshots' = [snapshots EXCEPT ![b] = live[b]]
      /\ snapshots'[b] = live[b] /\ \A c \in Backends \ {b} : snapshots'[c] = snapshots[c]
  BY DEF Receive, TypeOK
<1>3. /\ hand'[b] = e /\ e # None /\ e.tag = live[b] /\ e.binding = binding
      /\ \A c \in Backends \ {b} : hand'[c] = hand[c]
  BY <1>1 DEF Takes, TypeOK
<1>4. \A q \in Slots : runs'[q] # None => runs[q] # None
  <2>1. CASE UNCHANGED <<solutionVars, ownedVars>>
    BY <2>1 DEF ownedVars
  <2>2. CASE ResetGeneration
    BY <2>2, TypesReset
  <2> QED BY <2>1, <2>2 DEF Receive
<1>5. \A q \in Slots : worker[q] = "none" => worker'[q] = "none"
  BY <1>1 DEF LossOf, ReportOf, TypeOK
<1>6. ASSUME NEW c \in Backends \ {b}
      PROVE  hand[c] # None => hand[c].slot \in Slots \union {None}
  BY DEF TypeOK, Events
<1>7. live[b] \in Snapshots /\ binding \in Nat
  BY DEF TypeOK
<1>8. CASE LossOf(e)
  BY <1>2, <1>3, <1>4, <1>5, <1>6, <1>7, <1>8 DEF EventInv, LossOf
<1>9. ASSUME NEW p \in Slots, ReportOf(b, e, p)
      PROVE  EventInv'
  <2>1. /\ e.slot = p /\ p # None /\ prep[p].backend = b /\ step[p] = "started"
        /\ e.kind # "changed" /\ todo[p] \subseteq Nodes
    BY <1>9, StoreAssumption DEF ReportOf, SlotInv, TypeOK
  <2>2. e.kind = "ended" => worker'[p] = "none"
    BY <1>9 DEF ReportOf, TypeOK
  <2>3. /\ e.kind \in {"settled", "reused"} =>
                e.node \in todo[p] /\ prep[p].action[e.node] \in {"execute", "reuse"}
    BY <1>9 DEF ReportOf, SlotInv
  <2>4. /\ e.kind = "settled" =>
              /\ prep[p].action[e.node] # "reuse" /\ e.result \in Results \union {"failed"}
        /\ e.kind = "reused" => prep[p].action[e.node] = "reuse"
    BY <1>9 DEF ReportOf
  <2> QED BY <1>2, <1>3, <1>4, <1>5, <1>6, <1>7, <2>1, <2>2, <2>3, <2>4 DEF EventInv
<1> QED BY <1>1, <1>8, <1>9

LEMMA EventsHandle ==
    ASSUME TypeOK, LinkInv, SlotInv, RunInv, EventInv, NEW b \in Backends, Handle(b)
    PROVE  EventInv'
<1>1. hand'[b] = None /\ \A c \in Backends \ {b} : hand'[c] = hand[c]
  BY Handled DEF TypeOK
<1>2. UNCHANGED <<live, snapshots, binding, worker>>
  BY DEF Handle, workerVars
<1>3. \A c \in Backends : hand[c] # None => hand[c].slot \in Slots \union {None}
  BY DEF TypeOK, Events
<1>4. CASE UNCHANGED <<step, prep>> /\ SameRuns
  BY <1>1, <1>2, <1>3, <1>4 DEF EventInv, SameRuns
<1>5. ASSUME NEW p \in Slots, HandlesEnd(b, p) PROVE EventInv'
  <2>1. /\ prep[p].backend = b /\ runs'[p] = None
        /\ \A q \in Slots \ {p} : step'[q] = step[q] /\ prep'[q] = prep[q] /\ runs'[q] = runs[q]
    BY <1>5 DEF HandlesEnd, TypeOK
  <2>2. \A c \in Backends \ {b} : hand[c] # None /\ hand[c].slot # None => hand[c].slot # p
    BY <2>1 DEF EventInv
  <2> QED BY <1>1, <1>2, <1>3, <2>1, <2>2 DEF EventInv
<1>6. CASE HandlesTrigger(b)
  BY <1>4, <1>6, RunsStay DEF HandlesTrigger
<1>7. ASSUME NEW p \in Slots, NEW n \in Nodes, HandlesResult(b, p, n) PROVE EventInv'
  BY <1>4, <1>7 DEF HandlesResult, Settlement
<1> QED BY <1>5, <1>6, <1>7, Handled

---------------------------------------------------------------------------
(* Revisions.                                                              *)

(* As long as a node's revision stays, so does what it is computed from.   *)
NodesStep ==
    /\ graph' \in Graphs /\ nodeRevisions' \in [Nodes -> Nat]
    /\ \A n \in Nodes :
          /\ nodeRevisions'[n] >= nodeRevisions[n]
          /\ nodeRevisions'[n] = nodeRevisions[n] /\ graph[n] # Gone =>
                \A m \in Above[n] : graph'[m] = graph[m]
WorkspaceStep ==
    /\ workspaceRevision' \in Nat /\ workspaceRevision' >= workspaceRevision
    /\ workspaceRevision' = workspaceRevision => graph' = graph

LEMMA GraphStays ==
    ASSUME TypeOK, UNCHANGED graph, nodeRevisions' \in [Nodes -> Nat],
           workspaceRevision' \in Nat, workspaceRevision' >= workspaceRevision,
           \A n \in Nodes : nodeRevisions'[n] >= nodeRevisions[n]
    PROVE  NodesStep /\ WorkspaceStep
BY DEF NodesStep, WorkspaceStep, TypeOK

LEMMA RevisionsStay ==
    ASSUME TypeOK, UNCHANGED <<graph, nodeRevisions, workspaceRevision>>
    PROVE  NodesStep /\ WorkspaceStep
BY DEF NodesStep, WorkspaceStep, TypeOK

LEMMA EditSteps ==
    ASSUME TypeOK, NEW n \in Nodes, NEW content \in Contents \union {Gone}, Edit(n, content)
    PROVE  NodesStep /\ WorkspaceStep
<1> DEFINE hit == Affected(n, content)
           removed == {m \in {n} : content = Gone}
<1>1. /\ graph' = [graph EXCEPT ![n] = content] /\ workspaceRevision' = workspaceRevision + 1
      /\ nodeRevisions' = [m \in Nodes |->
            nodeRevisions[m] + (IF m \in hit \union removed THEN 1 ELSE 0)]
  BY DEF Edit
<1>2. /\ graph \in Graphs /\ workspaceRevision \in Nat
      /\ \A m \in Nodes : nodeRevisions[m] \in Nat
  BY DEF TypeOK
<1>3. graph' \in Graphs /\ \A m \in Nodes \ {n} : graph'[m] = graph[m]
  BY <1>1, <1>2 DEF Graphs
<1>4. ASSUME NEW m \in Nodes, nodeRevisions'[m] = nodeRevisions[m], graph[m] # Gone
      PROVE  \A k \in Above[m] : graph'[k] = graph[k]
  <2>1. m \notin hit \union removed
    BY <1>1, <1>2, <1>4
  <2>2. n \notin Above[m]
    <3>1. m \in Above[m]
      BY StoreAssumption
    <3>2. m = n => m \in hit \union removed
      BY <3>1 DEF Affected, Below
    <3>3. CASE m # n
      BY <1>4, <2>1, <3>3 DEF Affected, Below
    <3> QED BY <2>1, <3>2, <3>3
  <2>3. Above[m] \subseteq Nodes
    BY StoreAssumption
  <2> QED BY <1>3, <2>2, <2>3
<1>5. nodeRevisions' \in [Nodes -> Nat] /\ \A m \in Nodes : nodeRevisions'[m] >= nodeRevisions[m]
  BY <1>1, <1>2
<1> QED BY <1>1, <1>2, <1>3, <1>4, <1>5 DEF NodesStep, WorkspaceStep

LEMMA ObserveSteps ==
    ASSUME TypeOK, NEW p \in Slots, NEW root \in Nodes, NEW n \in Nodes, Observe(p, root, n)
    PROVE  NodesStep /\ WorkspaceStep
<1>1. PICK hit : nodeRevisions' = [m \in Nodes |-> nodeRevisions[m] + (IF m \in hit THEN 1 ELSE 0)]
  BY DEF Observe
<1>2. \A m \in Nodes : nodeRevisions[m] \in Nat
  BY DEF TypeOK
<1>3. /\ UNCHANGED graph /\ workspaceRevision' \in Nat /\ workspaceRevision' >= workspaceRevision
  BY DEF Observe, TypeOK
<1>4. nodeRevisions' \in [Nodes -> Nat] /\ \A m \in Nodes : nodeRevisions'[m] >= nodeRevisions[m]
  BY <1>1, <1>2
<1> QED BY <1>3, <1>4, GraphStays

LEMMA ResetSteps ==
    ASSUME TypeOK, UNCHANGED graph,
           ResetGeneration \/ \E p \in Slots : AcceptCold(p)
    PROVE  NodesStep /\ WorkspaceStep
<1>1. CASE ResetGeneration
  BY <1>1, TypesReset, ResetFacts, GraphStays
<1>2. CASE \E p \in Slots : AcceptCold(p)
  BY <1>2, ResetFacts, GraphStays DEF AcceptCold
<1> QED BY <1>1, <1>2

LEMMA RevisionKept ==
    ASSUME TypeOK, NEW q \in Slots, RevisionOf(q), WorkspaceStep, UNCHANGED binding,
           SameRequest(q), SameBinding(q), SameAdopted(q), step'[q] = step[q],
           Trusted(q)' => Trusted(q)
    PROVE  RevisionOf(q)'
<1>1. prep[q].revision \in Nat /\ workspaceRevision \in Nat
  BY DEF TypeOK, Submissions
<1>2. Trusted(q)' \/ (step'[q] = "captured" /\ prep'[q].binding = binding') =>
        /\ prep[q].revision <= workspaceRevision
        /\ prep[q].revision = workspaceRevision => prep[q].graph = graph
  BY DEF RevisionOf, SameBinding
<1>3. prep[q].binding <= binding /\ prep'[q].binding = prep[q].binding
  BY DEF RevisionOf, SameBinding
<1> QED BY <1>1, <1>2, <1>3 DEF RevisionOf, WorkspaceStep, SameRequest, SameAdopted

LEMMA CaptureKept ==
    ASSUME TypeOK, NEW q \in Slots, CaptureOf(q), NodesStep,
           SameRequest(q), SameRevision(q), Trusted(q)' => Trusted(q)
    PROVE  CaptureOf(q)'
<1> SUFFICES ASSUME Trusted(q), NEW n \in Nodes
             PROVE  /\ prep[q].rev[n] <= nodeRevisions'[n]
                    /\ prep[q].rev[n] = nodeRevisions'[n] /\ prep[q].graph[n] # Gone
                            => \A m \in Above[n] : prep[q].graph[m] = graph'[m]
  BY DEF CaptureOf, Same, SameRequest, SameRevision
<1>1. prep[q].rev[n] \in Nat /\ nodeRevisions[n] \in Nat /\ nodeRevisions'[n] \in Nat
  BY DEF TypeOK, Submissions, NodesStep
<1>2. /\ prep[q].rev[n] <= nodeRevisions[n] /\ nodeRevisions[n] <= nodeRevisions'[n]
      /\ prep[q].rev[n] = nodeRevisions[n] /\ prep[q].graph[n] # Gone
            => \A m \in Above[n] : prep[q].graph[m] = graph[m]
  BY <1>1 DEF CaptureOf, Same, NodesStep
<1>3. ASSUME prep[q].rev[n] = nodeRevisions'[n], prep[q].graph[n] # Gone
      PROVE  \A m \in Above[n] : prep[q].graph[m] = graph'[m]
  <2>1. prep[q].rev[n] = nodeRevisions[n] /\ nodeRevisions[n] = nodeRevisions'[n]
    BY <1>1, <1>2, <1>3
  <2>2. n \in Above[n]
    BY StoreAssumption
  <2>3. graph[n] # Gone
    BY <1>2, <1>3, <2>1, <2>2
  <2> QED BY <1>2, <1>3, <2>1, <2>3 DEF NodesStep
<1> QED BY <1>1, <1>2, <1>3

Promises(q) == RevisionOf(q) /\ CaptureOf(q) /\ DecisionOf(q)

LEMMA PromisesKept ==
    ASSUME TypeOK, NEW q \in Slots, Promises(q), NodesStep, WorkspaceStep, UNCHANGED binding,
           SameRequest(q), SameBinding(q), SameAdopted(q), SameRevision(q),
           prep'[q].pins \subseteq prep[q].pins, step'[q] = step[q],
           Trusted(q)' => Trusted(q)
    PROVE  Promises(q)'
<1>1. RevisionOf(q)' /\ CaptureOf(q)'
  BY RevisionKept, CaptureKept DEF Promises
<1>2. DecisionOf(q)'
  BY DEF Promises, DecisionOf, Decided, Accepted, SameRequest
<1> QED BY <1>1, <1>2 DEF Promises

(* A slot whose preparation a step leaves alone.                           *)
LEMMA PromisesBeside ==
    ASSUME TypeOK, NEW q \in Slots, Promises(q), NodesStep, WorkspaceStep, UNCHANGED binding,
           prep'[q] = prep[q], step'[q] = step[q], Trusted(q)' => Trusted(q)
    PROVE  Promises(q)'
BY PrepUnchanged, PromisesKept DEF SamePins

LEMMA PromisesOver ==
    ASSUME NEW q \in Slots, prep'[q] = Blank, step'[q] = "idle", ~Trusted(q)', binding' \in Nat
    PROVE  Promises(q)'
BY DEF Promises, RevisionOf, CaptureOf, DecisionOf, Decided, Blank

LEMMA PromisesEdit ==
    ASSUME TypeOK, NEW n \in Nodes, NEW content \in Contents \union {Gone}, Edit(n, content),
           NEW q \in Slots, Promises(q)
    PROVE  Promises(q)'
<1>1. UNCHANGED <<binding, step, preparations>>
  BY DEF Edit
<1>2. /\ SameRequest(q) /\ SameRevision(q) /\ SameAdopted(q) /\ SameBinding(q)
      /\ prep'[q].pins \subseteq prep[q].pins
  BY PrepOfEdit
<1>3. Trusted(q)' => Trusted(q)
  BY <1>1, <1>2, RunsOfEdit DEF Trusted, SameBinding
<1> QED BY <1>1, <1>2, <1>3, EditSteps, PromisesKept

LEMMA PromisesResetProject ==
    ASSUME TypeOK, NEW g \in [Nodes -> Contents], ResetProject(g), NEW q \in Slots, Promises(q)
    PROVE  Promises(q)'
<1>1. /\ UNCHANGED <<step, prep>> /\ binding' = binding + 1 /\ preparations' = {}
      /\ runs'[q] = None
  BY DEF ResetProject
<1>2. prep[q].binding \in Nat /\ binding \in Nat /\ prep[q].binding <= binding
  BY DEF TypeOK, Submissions, Promises, RevisionOf
<1>3. ~Trusted(q)' /\ prep'[q].binding # binding' /\ prep'[q].binding <= binding'
  BY <1>1, <1>2 DEF Trusted
<1>4. RevisionOf(q)'
  BY <1>1, <1>3 DEF RevisionOf, Promises
<1>5. CaptureOf(q)' /\ DecisionOf(q)'
  BY <1>1, <1>3 DEF CaptureOf, DecisionOf, Promises, Decided, Accepted
<1> QED BY <1>4, <1>5 DEF Promises

LEMMA PromisesCapture ==
    ASSUME TypeOK, RunInv, NEW p \in Slots, NEW b \in Backends, Capture(p, b),
           NEW q \in Slots, Promises(q)
    PROVE  Promises(q)'
<1>1. /\ UNCHANGED <<graph, nodeRevisions, workspaceRevision, binding, preparations, runs>>
      /\ step[p] = "idle" /\ step'[p] = "captured"
      /\ \A r \in Slots \ {p} : step'[r] = step[r]
  BY DEF Capture, TypeOK, solutionVars, ownedVars
<1>2. CASE q # p
  <2>1. prep'[q] = prep[q] /\ step'[q] = step[q]
    BY <1>1, <1>2, PrepOfCapture
  <2>2. Trusted(q)' => Trusted(q)
    BY <1>1, <2>1 DEF Trusted
  <2> QED BY <1>1, <2>1, <2>2, RevisionsStay, PromisesBeside
<1>3. CASE q = p
  <2>1. /\ prep'[p].binding = binding /\ prep'[p].revision = workspaceRevision
        /\ prep'[p].graph = graph /\ prep'[p].adopted = -1
    BY PrepOfCapture
  <2>2. ~Trusted(p)'
    BY <1>1 DEF Trusted, RunInv, TypeOK
  <2>3. binding \in Nat /\ workspaceRevision \in Nat
    BY DEF TypeOK
  <2> QED BY <1>1, <1>3, <2>1, <2>2, <2>3
          DEF Promises, RevisionOf, CaptureOf, DecisionOf, Decided
<1> QED BY <1>2, <1>3

LEMMA PromisesCompute ==
    ASSUME TypeOK, NEW p \in Slots, prep[p].backend \in Backends, Compute(p),
           NEW q \in Slots, Promises(q)
    PROVE  Promises(q)'
<1>1. /\ UNCHANGED <<graph, nodeRevisions, workspaceRevision, binding, preparations, runs>>
      /\ step[p] = "captured" /\ step'[p] = "computed"
      /\ prep[p].binding = binding /\ prep[p].revision = workspaceRevision
      /\ \A r \in Slots \ {p} : step'[r] = step[r]
  BY DEF Compute, TypeOK, solutionVars
<1>2. CASE q # p
  <2>1. prep'[q] = prep[q] /\ step'[q] = step[q]
    <3>1. prep \in [Slots -> Submissions] /\ prep' = [prep EXCEPT ![p] = prep'[p]]
      BY Computed DEF TypeOK
    <3> QED BY <1>1, <1>2, <3>1
  <2>2. Trusted(q)' => Trusted(q)
    BY <1>1, <2>1 DEF Trusted
  <2> QED BY <1>1, <2>1, <2>2, RevisionsStay, PromisesBeside
<1>3. CASE q = p
  <2>1. /\ prep'[p].binding = binding /\ prep'[p].revision = workspaceRevision
        /\ prep'[p].graph = prep[p].graph /\ prep'[p].adopted = prep[p].adopted
        /\ prep'[p].rev = nodeRevisions /\ prep'[p].snapshot = live[prep[p].backend]
    BY <1>1, Computed
  <2>2. prep[p].graph = graph /\ prep[p].adopted = -1
    BY <1>1, <1>3 DEF Promises, RevisionOf
  <2>3. binding \in Nat /\ workspaceRevision \in Nat /\ nodeRevisions \in [Nodes -> Nat]
    BY DEF TypeOK
  <2>4. RevisionOf(p)'
    BY <1>1, <2>1, <2>2, <2>3 DEF RevisionOf
  <2>5. CaptureOf(p)'
    BY <1>1, <2>1, <2>2, <2>3 DEF CaptureOf, Same
  <2>6. \A n \in Nodes :
            /\ prep[p].graph[n] = Gone => prep'[p].action[n] = "none"
            /\ prep'[p].action[n] \in {"read", "reuse"} => live[prep[p].backend].up
    BY Computed
  <2>7. DecisionOf(p)'
    BY <1>1, <2>1, <2>6 DEF DecisionOf, Accepted
  <2> QED BY <1>3, <2>4, <2>5, <2>7 DEF Promises
<1> QED BY <1>2, <1>3

LEMMA PromisesRegister ==
    ASSUME TypeOK, NEW p \in Slots, Register(p), NEW q \in Slots, Promises(q)
    PROVE  Promises(q)'
<1>1. /\ UNCHANGED <<graph, nodeRevisions, workspaceRevision, binding, runs>>
      /\ step[p] = "computed" /\ step'[p] = "registered" /\ prep[p].binding = binding
      /\ preparations' \subseteq preparations \union {p}
      /\ \A r \in Slots \ {p} : step'[r] = step[r]
  BY DEF Register, TypeOK
<1>2. /\ SameRequest(q) /\ SameRevision(q) /\ SameAdopted(q) /\ SameBinding(q)
      /\ (q # p => SamePins(q)) /\ prep'[p].pins = {prep[p].rec[n] : n \in Accepted(p)}
  BY PrepOfRegister
<1>3. Trusted(q)' => Trusted(q)
  BY <1>1, <1>2 DEF Trusted, SameBinding
<1>4. CASE q # p
  BY <1>1, <1>2, <1>3, <1>4, RevisionsStay, PromisesKept DEF SamePins
<1>5. CASE q = p
  <2>1. RevisionOf(p)'
    BY <1>1, <1>2, <1>3, <1>5 DEF Promises, RevisionOf, SameRequest, SameAdopted, SameBinding
  <2>2. CaptureOf(p)'
    BY <1>1, <1>2, <1>3, <1>5, RevisionsStay, CaptureKept DEF Promises
  <2>3. DecisionOf(p)'
    BY <1>1, <1>2, <1>5 DEF Promises, DecisionOf, Decided, Accepted, SameRequest
  <2> QED BY <1>5, <2>1, <2>2, <2>3 DEF Promises
<1> QED BY <1>4, <1>5

LEMMA PromisesClaimReserve ==
    ASSUME TypeOK, NEW p \in Slots, Claim(p) \/ Reserve(p), NEW q \in Slots, Promises(q)
    PROVE  Promises(q)'
<1>1. /\ UNCHANGED <<graph, nodeRevisions, workspaceRevision, binding, runs, preparations>>
      /\ step[p] \in {"registered", "claimed"} /\ step'[p] \in {"claimed", "reserved"}
      /\ Claim(p) => p \in preparations
      /\ \A r \in Slots \ {p} : step'[r] = step[r]
  BY DEF Claim, Reserve, TypeOK, solutionVars, ownedVars
<1>2. /\ SameRequest(q) /\ SameRevision(q) /\ SameAdopted(q) /\ SamePins(q)
      /\ (q # p \/ ~Claim(p) => SameBinding(q)) /\ (Claim(p) => prep'[p].binding = binding)
  BY PrepOfClaim, PrepOfReserve
<1>3. Trusted(q)' => Trusted(q)
  BY <1>1, <1>2 DEF Trusted, SameBinding
<1>4. binding \in Nat
  BY DEF TypeOK
<1>5. CASE q # p
  BY <1>1, <1>2, <1>3, <1>5, RevisionsStay, PromisesKept DEF SamePins
<1>6. CASE q = p
  <2>1. RevisionOf(p)'
    BY <1>1, <1>2, <1>3, <1>4, <1>6 DEF Promises, RevisionOf, SameRequest, SameAdopted, SameBinding
  <2>2. CaptureOf(p)'
    BY <1>1, <1>2, <1>3, <1>6, RevisionsStay, CaptureKept DEF Promises
  <2>3. DecisionOf(p)'
    BY <1>1, <1>2, <1>6 DEF Promises, DecisionOf, Decided, Accepted, SameRequest, SamePins
  <2> QED BY <1>6, <2>1, <2>2, <2>3 DEF Promises
<1> QED BY <1>5, <1>6

(* A submission is accepted for the graph it was prepared for.             *)
LEMMA AcceptedGraph ==
    ASSUME TypeOK, NEW p \in Slots, Acceptable(p), RevisionOf(p)
    PROVE  prep[p].graph = graph /\ Trusted(p)
<1>1. /\ step[p] = "reserved" /\ p \in preparations
      /\ workspaceRevision \in {prep[p].revision, prep[p].adopted}
  BY DEF Acceptable, Fresh
<1>2. workspaceRevision \in Nat /\ Trusted(p)
  BY <1>1 DEF TypeOK, Trusted
<1> QED BY <1>1, <1>2 DEF RevisionOf

LEMMA PromisesAccept ==
    ASSUME TypeOK, NEW p \in Slots, AcceptWarm(p) \/ AcceptCold(p), Promises(p),
           NEW q \in Slots, Promises(q)
    PROVE  Promises(q)'
<1>1. /\ UNCHANGED <<graph, binding>> /\ Acceptable(p)
      /\ step[p] = "reserved" /\ step'[p] = "accepted"
      /\ \A r \in Slots \ {p} : step'[r] = step[r] /\ (runs'[r] # None => runs[r] # None)
      /\ preparations' \subseteq preparations
  <2>1. /\ UNCHANGED <<graph, binding>> /\ Acceptable(p)
        /\ step' = [step EXCEPT ![p] = "accepted"]
        /\ preparations' \subseteq preparations
    <3>1. CASE AcceptWarm(p)
      BY <3>1 DEF AcceptWarm, Taken
    <3>2. CASE AcceptCold(p)
      BY <3>2 DEF AcceptCold
    <3> QED BY <3>1, <3>2
  <2>2. step[p] = "reserved" /\ step'[p] = "accepted"
    BY <2>1 DEF Acceptable, TypeOK
  <2>3. \A r \in Slots \ {p} :
          step'[r] = step[r] /\ (runs'[r] # None => runs[r] # None)
    <3>1. CASE AcceptWarm(p)
      BY <3>1 DEF AcceptWarm, TypeOK
    <3>2. CASE AcceptCold(p)
      BY <3>2 DEF AcceptCold, TypeOK
    <3> QED BY <3>1, <3>2
  <2> QED BY <2>1, <2>2, <2>3
<1>2. NodesStep /\ WorkspaceStep
  <2>1. CASE AcceptWarm(p)
    BY <2>1, RevisionsStay DEF AcceptWarm
  <2>2. CASE AcceptCold(p)
    BY <1>1, <2>2, ResetSteps
  <2> QED BY <2>1, <2>2
<1>3. /\ SameRequest(q) /\ SameBinding(q) /\ SamePins(q)
      /\ q # p \/ AcceptWarm(p) => SameRevision(q) /\ SameAdopted(q)
  <2>1. CASE AcceptWarm(p)
    BY <2>1, PrepUnchanged DEF AcceptWarm
  <2>2. CASE AcceptCold(p)
    <3>1. ~AcceptWarm(p)
      BY <2>2 DEF AcceptWarm, AcceptCold
    <3> QED BY <2>2, <3>1, PrepOfAcceptCold
  <2> QED BY <2>1, <2>2
<1>4. CASE q # p
  <2>1. Trusted(q)' => Trusted(q)
    BY <1>1, <1>3, <1>4 DEF Trusted, SameBinding
  <2> QED BY <1>1, <1>2, <1>3, <1>4, <2>1, PromisesKept DEF SamePins
<1>5. CASE q = p
  <2>1. prep[p].graph = graph /\ Trusted(p)
    BY <1>1, AcceptedGraph DEF Promises
  <2>2. RevisionOf(p)'
    <3>1. prep[p].revision \in Nat /\ workspaceRevision \in Nat
      BY DEF TypeOK, Submissions
    <3> QED BY <1>1, <1>2, <1>3, <1>5, <2>1, <3>1
            DEF Promises, RevisionOf, WorkspaceStep, SameRequest, SameBinding
  <2>3. CaptureOf(p)'
    <3>1. CASE AcceptWarm(p)
      BY <1>2, <1>3, <1>5, <2>1, <3>1, CaptureKept DEF Promises
    <3>2. CASE AcceptCold(p)
      <4>1. prep'[p].rev = nodeRevisions'
        BY <3>2, PrepOfAcceptCold DEF AcceptCold
      <4> QED BY <1>1, <1>2, <1>3, <1>5, <2>1, <4>1 DEF CaptureOf, Same, SameRequest, NodesStep
    <3> QED BY <3>1, <3>2
  <2>4. DecisionOf(p)'
    BY <1>1, <1>3, <1>5 DEF Promises, DecisionOf, Decided, Accepted, SameRequest, SamePins
  <2> QED BY <1>5, <2>2, <2>3, <2>4 DEF Promises
<1> QED BY <1>4, <1>5

LEMMA PromisesOtherSteps ==
    ASSUME TypeOK, RunInv, NEW q \in Slots, Promises(q),
           \/ \E p \in Slots : Start(p) \/ Abandon(p)
           \/ \E p \in Slots, root, n \in Nodes : Observe(p, root, n)
           \/ \E b \in Backends : Spawn(b) \/ Lose(b)
    PROVE  Promises(q)'
<1>1. ASSUME NEW p \in Slots, Start(p) PROVE Promises(q)'
  <2>1. /\ UNCHANGED <<graph, nodeRevisions, workspaceRevision, binding, runs, preparations, prep>>
        /\ step[p] = "accepted" /\ step'[p] = "started"
        /\ \A r \in Slots \ {p} : step'[r] = step[r]
    BY <1>1 DEF Start, TypeOK, solutionVars, ownedVars
  <2>2. Trusted(q)' => Trusted(q)
    BY <2>1 DEF Trusted
  <2>3. CASE q # p
    BY <2>1, <2>2, <2>3, RevisionsStay, PromisesBeside
  <2>4. CASE q = p
    BY <2>1, <2>2, <2>4 DEF Promises, RevisionOf, CaptureOf, DecisionOf, Decided, Accepted, Same
  <2> QED BY <2>3, <2>4
<1>2. ASSUME NEW p \in Slots, Abandon(p) PROVE Promises(q)'
  <2>1. /\ UNCHANGED <<graph, nodeRevisions, workspaceRevision, binding>>
        /\ preparations' = preparations \ {p}
        /\ step'[p] = "idle" /\ runs'[p] = None /\ prep'[p] = Blank
        /\ \A r \in Slots \ {p} : step'[r] = step[r] /\ runs'[r] = runs[r] /\ prep'[r] = prep[r]
    BY <1>2 DEF Abandon, TypeOK
  <2>2. CASE q # p
    <3>1. Trusted(q)' => Trusted(q)
      BY <2>1, <2>2 DEF Trusted
    <3> QED BY <2>1, <2>2, <3>1, RevisionsStay, PromisesBeside
  <2>3. CASE q = p
    <3>1. ~Trusted(p)' /\ binding' \in Nat
      BY <2>1 DEF Trusted, TypeOK
    <3> QED BY <2>1, <2>3, <3>1, PromisesOver
  <2> QED BY <2>2, <2>3
<1>3. ASSUME NEW p \in Slots, NEW root \in Nodes, NEW n \in Nodes, Observe(p, root, n)
      PROVE  Promises(q)'
  <2>1. /\ UNCHANGED <<binding, step, preparations>> /\ runs[p] # None
    BY <1>3 DEF Observe
  <2>2. /\ SameRequest(q) /\ SameRevision(q) /\ SameBinding(q) /\ SamePins(q)
        /\ q # p => SameAdopted(q)
    BY <1>3, PrepOfObserve
  <2>3. Trusted(q)' => Trusted(q)
    BY <1>3, <2>1, <2>2, RunsOfObserve DEF Trusted, SameRuns, SameBinding
  <2>4. NodesStep /\ WorkspaceStep
    BY <1>3, ObserveSteps
  <2>5. CASE q # p
    BY <2>1, <2>2, <2>3, <2>4, <2>5, PromisesKept DEF SamePins
  <2>6. CASE q = p
    <3>1. step[p] \in {"accepted", "started"}
      BY <2>1 DEF RunInv
    <3>2. RevisionOf(p)'
      <4>1. prep[p].revision \in Nat /\ workspaceRevision \in Nat
        BY DEF TypeOK, Submissions
      <4> QED BY <2>1, <2>2, <2>3, <2>4, <2>6, <3>1, <4>1
              DEF Promises, RevisionOf, WorkspaceStep, SameRequest, SameBinding
    <3>3. CaptureOf(p)'
      BY <2>2, <2>3, <2>4, <2>6, CaptureKept DEF Promises
    <3>4. DecisionOf(p)'
      BY <2>1, <2>2, <2>6 DEF Promises, DecisionOf, Decided, Accepted, SameRequest, SamePins
    <3> QED BY <2>6, <3>2, <3>3, <3>4 DEF Promises
  <2> QED BY <2>5, <2>6
<1>4. ASSUME NEW b \in Backends, Spawn(b) \/ Lose(b) PROVE Promises(q)'
  <2>1. UNCHANGED <<graph, nodeRevisions, workspaceRevision, binding, runs, preparations, prep, step>>
    BY <1>4 DEF Spawn, Lose, solutionVars, ownedVars
  <2>2. Trusted(q)' => Trusted(q)
    BY <2>1 DEF Trusted
  <2> QED BY <2>1, <2>2, RevisionsStay, PromisesBeside
<1> QED BY <1>1, <1>2, <1>3, <1>4

LEMMA PromisesListener ==
    ASSUME TypeOK, LinkInv, SlotInv, RunInv, EventInv, NEW b \in Backends,
           Receive(b) \/ Handle(b), NEW q \in Slots, Promises(q)
    PROVE  Promises(q)'
<1>1. CASE Receive(b)
  <2>1. UNCHANGED <<graph, binding, step, prep>>
    BY <1>1 DEF Receive
  <2>2. CASE UNCHANGED <<solutionVars, ownedVars>>
    <3>1. UNCHANGED <<nodeRevisions, workspaceRevision, runs, preparations>>
      BY <2>2 DEF solutionVars, ownedVars
    <3>2. Trusted(q)' => Trusted(q)
      BY <2>1, <3>1 DEF Trusted
    <3> QED BY <2>1, <3>1, <3>2, RevisionsStay, PromisesBeside
  <2>3. CASE ResetGeneration
    <3>1. Trusted(q)' => Trusted(q)
      BY <2>1, <2>3, TypesReset DEF Trusted
    <3> QED BY <2>1, <2>3, <3>1, ResetSteps, PromisesBeside
  <2> QED BY <1>1, <2>2, <2>3 DEF Receive
<1>2. CASE Handle(b)
  <2>1. UNCHANGED <<graph, nodeRevisions, workspaceRevision, binding, preparations>>
    BY <1>2 DEF Handle
  <2>2. CASE UNCHANGED <<step, prep>> /\ SameRuns
    <3>1. Trusted(q)' => Trusted(q)
      BY <2>1, <2>2 DEF Trusted, SameRuns
    <3> QED BY <2>1, <2>2, <3>1, RevisionsStay, PromisesBeside
  <2>3. ASSUME NEW p \in Slots, HandlesEnd(b, p) PROVE Promises(q)'
    <3>1. /\ step[p] = "started" /\ step'[p] = "idle" /\ runs'[p] = None /\ prep'[p] = Blank
          /\ \A r \in Slots \ {p} : step'[r] = step[r] /\ runs'[r] = runs[r] /\ prep'[r] = prep[r]
      BY <2>3 DEF HandlesEnd, TypeOK
    <3>2. CASE q # p
      <4>1. Trusted(q)' => Trusted(q)
        BY <2>1, <3>1, <3>2 DEF Trusted
      <4> QED BY <2>1, <3>1, <3>2, <4>1, RevisionsStay, PromisesBeside
    <3>3. CASE q = p
      <4>1. ~Trusted(p)' /\ binding' \in Nat
        BY <2>1, <3>1 DEF Trusted, TypeOK
      <4> QED BY <3>1, <3>3, <4>1, PromisesOver
    <3> QED BY <3>2, <3>3
  <2>4. CASE HandlesTrigger(b)
    BY <2>2, <2>4, RunsStay DEF HandlesTrigger
  <2>5. ASSUME NEW p \in Slots, NEW n \in Nodes, HandlesResult(b, p, n) PROVE Promises(q)'
    BY <2>2, <2>5 DEF HandlesResult, Settlement
  <2> QED BY <1>2, <2>3, <2>4, <2>5, Handled
<1> QED BY <1>1, <1>2

---------------------------------------------------------------------------
(* Facts, and what links them to the records.                              *)

Spent(n) ==
    /\ facts'[n].fresh = "never" \/ (facts'[n].fresh = "expired" /\ facts'[n].why = "other")
    /\ facts'[n].rec \in {0, facts[n].rec}

SameBefore(p) == runs'[p] # None => runs[p] # None /\ runs'[p].before = runs[p].before

(* The records only lose members, or gain one with a sequence of its own.  *)
RecordsGrow ==
    /\ sequence' \in Nat /\ sequence' >= sequence /\ records' \subseteq Records
    /\ \A r \in records' : r \in records \/ (r.seq = sequence + 1 /\ sequence' = sequence + 1)
    /\ \A r, q \in records' : r \notin records /\ q \notin records => r = q

LEMMA SameInputs ==
    ASSUME NodesStep, NEW n \in Nodes, nodeRevisions'[n] = nodeRevisions[n], graph[n] # Gone
    PROVE  graph'[n] # Gone /\ InputsOf(graph', n) = InputsOf(graph, n)
<1>1. n \in Above[n] /\ \A m \in Above[n] : graph'[m] = graph[m]
  BY StoreAssumption DEF NodesStep
<1> QED BY <1>1 DEF InputsOf

LEMMA FactKept ==
    ASSUME TypeOK, NodesStep, NEW n \in Nodes, FactHolds(n),
           \/ Kept(n) /\ nodeRevisions'[n] = nodeRevisions[n]
           \/ Spent(n)
    PROVE  FactHolds(n)'
<1>1. CASE Spent(n)
  BY <1>1 DEF Spent, FactHolds
<1>2. CASE Kept(n) /\ nodeRevisions'[n] = nodeRevisions[n]
  <2>1. CASE facts[n].fresh = "current"
    <3>1. /\ facts'[n] = facts[n] /\ graph[n] # Gone
          /\ facts[n].key.inputs = InputsOf(graph, n)
      BY <1>2, <2>1 DEF Kept, FactHolds
    <3>2. graph'[n] # Gone /\ InputsOf(graph', n) = InputsOf(graph, n)
      BY <1>2, <3>1, SameInputs
    <3> QED BY <1>2, <2>1, <3>1, <3>2 DEF FactHolds, InputsOf
  <2>2. CASE facts[n].fresh # "current"
    BY <1>2, <2>2 DEF Kept, FactHolds
  <2> QED BY <2>1, <2>2
<1> QED BY <1>1, <1>2

LEMMA BeforeKept ==
    ASSUME TypeOK, NodesStep, NEW p \in Slots, NEW n \in Nodes, BeforeHolds(p, n), SameBefore(p)
    PROVE  BeforeHolds(p, n)'
<1> SUFFICES ASSUME runs'[p] # None, runs'[p].before[n] # Never
             PROVE  /\ runs'[p].before[n].fresh = "current"
                    /\ runs'[p].before[n].rev <= nodeRevisions'[n]
                    /\ runs'[p].before[n].rev = nodeRevisions'[n] =>
                        /\ graph'[n] # Gone
                        /\ runs'[p].before[n].key.inputs = InputsOf(graph', n)
  BY DEF BeforeHolds, InputsOf
<1> DEFINE f == runs[p].before[n]
<1>1. runs[p] # None /\ runs'[p].before = runs[p].before /\ f # Never /\ runs[p] \in Runs
  BY DEF SameBefore, TypeOK
<1>2. f.rev \in Nat /\ nodeRevisions[n] \in Nat /\ nodeRevisions'[n] \in Nat
      /\ nodeRevisions'[n] >= nodeRevisions[n]
  BY <1>1 DEF Runs, Facts, TypeOK, NodesStep
<1>3. /\ f.fresh = "current" /\ f.rev <= nodeRevisions[n]
      /\ f.rev = nodeRevisions[n] => graph[n] # Gone /\ f.key.inputs = InputsOf(graph, n)
  BY <1>1 DEF BeforeHolds
<1>4. ASSUME f.rev = nodeRevisions'[n]
      PROVE  graph'[n] # Gone /\ f.key.inputs = InputsOf(graph', n)
  <2>1. f.rev = nodeRevisions[n] /\ nodeRevisions'[n] = nodeRevisions[n]
    BY <1>2, <1>3, <1>4
  <2> QED BY <1>3, <2>1, SameInputs
<1> QED BY <1>1, <1>2, <1>3, <1>4

LEMMA LinkRecordsKept ==
    ASSUME TypeOK, RecordsGrow, LinkRecords
    PROVE  LinkRecords'
<1>1. sequence \in Nat /\ \A r \in records : r.seq \in 1 .. sequence
  BY DEF TypeOK
<1> QED BY <1>1 DEF LinkRecords, RecordsGrow

LEMMA OldRecords ==
    ASSUME TypeOK, RecordsGrow, NEW s \in Nat, s <= sequence, NEW r \in records', r.seq = s
    PROVE  r \in records
<1>1. sequence \in Nat
  BY DEF TypeOK
<1> QED BY <1>1 DEF RecordsGrow

LEMMA LinkFactKept ==
    ASSUME TypeOK, RecordsGrow, NEW n \in Nodes, LinkFact(n), Kept(n) \/ Spent(n)
    PROVE  LinkFact(n)'
<1>1. /\ facts[n].rec \in Nat /\ facts[n].rec <= sequence /\ sequence \in Nat
      /\ sequence' \in Nat /\ sequence <= sequence'
  BY DEF TypeOK, Facts, LinkFact, RecordsGrow
<1>2. facts'[n].rec \in {0, facts[n].rec}
  BY DEF Kept, Spent
<1>3. ASSUME facts'[n].fresh = "current" PROVE facts'[n] = facts[n] /\ facts[n].fresh = "current"
  BY <1>3 DEF Kept, Spent
<1>4. ASSUME facts'[n].fresh = "current", NEW r \in records', r.seq = facts'[n].rec
      PROVE  r.key = facts'[n].key
  <2>1. r \in records
    BY <1>1, <1>3, <1>4, OldRecords
  <2> QED BY <1>3, <1>4, <2>1 DEF LinkFact
<1>5. facts'[n].rec <= sequence'
  BY <1>1, <1>2
<1> QED BY <1>4, <1>5 DEF LinkFact

LEMMA LinkPrepKept ==
    ASSUME TypeOK, RecordsGrow, NEW p \in Slots, NEW n \in Nodes, LinkPrep(p, n),
           SameRequest(p), Decided(p)' => Decided(p)
    PROVE  LinkPrep(p, n)'
<1>1. /\ prep[p].rec[n] \in Nat /\ prep[p].rec[n] <= sequence /\ sequence \in Nat
      /\ sequence' \in Nat /\ sequence <= sequence'
  BY DEF TypeOK, Submissions, LinkPrep, RecordsGrow
<1>2. n \in Accepted(p)' <=> n \in Accepted(p)
  BY DEF Accepted, SameRequest
<1>3. ASSUME Decided(p)', n \in Accepted(p)', NEW r \in records', r.seq = prep'[p].rec[n]
      PROVE  r.key = Key(prep'[p].graph, prep'[p].backend, n)
  <2>1. r.seq = prep[p].rec[n]
    BY <1>3 DEF SameRequest
  <2>2. r \in records
    BY <1>1, <2>1, OldRecords
  <2> QED BY <1>2, <1>3, <2>1, <2>2 DEF LinkPrep, SameRequest
<1>4. prep'[p].rec[n] <= sequence'
  BY <1>1 DEF SameRequest
<1> QED BY <1>3, <1>4 DEF LinkPrep, Key

LEMMA LinkRunKept ==
    ASSUME TypeOK, RecordsGrow, NEW p \in Slots, NEW n \in Nodes, LinkRun(p, n), SameBefore(p)
    PROVE  LinkRun(p, n)'
<1> SUFFICES ASSUME runs'[p] # None, runs'[p].before[n] # Never
             PROVE  /\ runs'[p].before[n].rec <= sequence'
                    /\ \A r \in records' : r.seq = runs'[p].before[n].rec =>
                            r.key = runs'[p].before[n].key
  BY DEF LinkRun
<1> DEFINE f == runs[p].before[n]
<1>1. /\ runs[p] # None /\ runs'[p].before = runs[p].before /\ f # Never /\ runs[p] \in Runs
  BY DEF SameBefore, TypeOK
<1>2. /\ f.rec \in Nat /\ f.rec <= sequence /\ sequence \in Nat
      /\ sequence' \in Nat /\ sequence <= sequence'
  BY <1>1 DEF TypeOK, Runs, Facts, LinkRun, RecordsGrow
<1>3. ASSUME NEW r \in records', r.seq = f.rec PROVE r.key = f.key
  <2>1. r \in records
    BY <1>2, <1>3, OldRecords
  <2> QED BY <1>1, <1>3, <2>1 DEF LinkRun
<1> QED BY <1>1, <1>2, <1>3

LEMMA LinkPrepOver ==
    ASSUME NEW p \in Slots, NEW n \in Nodes, prep'[p] = Blank, step'[p] = "idle", sequence' \in Nat
    PROVE  LinkPrep(p, n)'
BY DEF LinkPrep, Decided, Blank

(* The second half of the invariant, but for the pins.                     *)
Ledger == FactInv /\ BeforeInv /\ LinkInv

LEMMA LedgerKept ==
    ASSUME TypeOK, Ledger, NodesStep, RecordsGrow,
           \A n \in Nodes : Spent(n) \/ (Kept(n) /\ nodeRevisions'[n] = nodeRevisions[n]),
           \A q \in Slots : SameBefore(q) \/ \A n \in Nodes : runs'[q].before[n] = Never,
           \A q \in Slots, n \in Nodes : LinkPrep(q, n)'
    PROVE  Ledger'
<1>1. FactInv'
  <2> SUFFICES ASSUME NEW n \in Nodes PROVE FactHolds(n)'
    BY DEF FactInv
  <2> QED BY FactKept DEF Ledger, FactInv
<1>2. BeforeInv'
  <2> SUFFICES ASSUME NEW q \in Slots, NEW n \in Nodes PROVE BeforeHolds(q, n)'
    BY DEF BeforeInv
  <2>1. CASE SameBefore(q)
    BY <2>1, BeforeKept DEF Ledger, BeforeInv
  <2>2. CASE runs'[q].before[n] = Never
    BY <2>2 DEF BeforeHolds
  <2> QED BY <2>1, <2>2
<1>3. LinkInv'
  <2>1. LinkRecords'
    BY LinkRecordsKept DEF Ledger, LinkInv
  <2>2. ASSUME NEW n \in Nodes PROVE LinkFact(n)'
    BY LinkFactKept DEF Ledger, LinkInv
  <2>3. ASSUME NEW q \in Slots, NEW n \in Nodes PROVE LinkRun(q, n)'
    <3>1. CASE SameBefore(q)
      BY <3>1, LinkRunKept DEF Ledger, LinkInv
    <3>2. CASE runs'[q].before[n] = Never
      BY <3>2 DEF LinkRun
    <3> QED BY <3>1, <3>2
  <2> QED BY <2>1, <2>2, <2>3 DEF LinkInv
<1> QED BY <1>1, <1>2, <1>3 DEF Ledger

(* A step that writes no fact and no record.                               *)
LEMMA LedgerQuiet ==
    ASSUME TypeOK, Ledger,
           UNCHANGED <<graph, facts, nodeRevisions, workspaceRevision, records>>,
           sequence' \in Nat, sequence' >= sequence,
           \A q \in Slots : SameBefore(q),
           \A q \in Slots, n \in Nodes : LinkPrep(q, n)'
    PROVE  Ledger'
<1>1. NodesStep
  BY RevisionsStay
<1>2. RecordsGrow
  BY DEF RecordsGrow, TypeOK
<1>3. \A n \in Nodes : Kept(n)
  BY FactsStay
<1> QED BY <1>1, <1>2, <1>3, LedgerKept

(* The submissions' side of it: those that keep what they were decided on. *)
LEMMA LinkPrepBeside ==
    ASSUME TypeOK, LinkInv, RecordsGrow, NEW q \in Slots, NEW n \in Nodes,
           SameRequest(q), Decided(q)' => Decided(q)
    PROVE  LinkPrep(q, n)'
BY LinkPrepKept DEF LinkInv

LEMMA LedgerCapture ==
    ASSUME TypeOK, Ledger, NEW p \in Slots, NEW b \in Backends, Capture(p, b)
    PROVE  Ledger'
<1>1. /\ UNCHANGED <<graph, facts, nodeRevisions, workspaceRevision, records, sequence, runs>>
      /\ step' = [step EXCEPT ![p] = "captured"] /\ sequence \in Nat
  BY DEF Capture, solutionVars, ownedVars, TypeOK
<1>2. RecordsGrow
  BY <1>1 DEF RecordsGrow, TypeOK
<1>3. ASSUME NEW q \in Slots, NEW n \in Nodes PROVE LinkPrep(q, n)'
  <2>1. CASE q = p
    <3>1. prep'[p].rec[n] = 0
      BY PrepOfCapture
    <3>2. ~Decided(p)'
      BY <1>1 DEF Decided, TypeOK
    <3> QED BY <1>1, <2>1, <3>1, <3>2 DEF LinkPrep
  <2>2. CASE q # p
    <3>1. prep'[q] = prep[q]
      BY <2>2, PrepOfCapture
    <3>2. SameRequest(q) /\ (Decided(q)' => Decided(q))
      BY <1>1, <2>2, <3>1 DEF SameRequest, Decided, TypeOK
    <3> QED BY <1>2, <3>2, LinkPrepBeside DEF Ledger
  <2> QED BY <2>1, <2>2
<1>4. \A q \in Slots : SameBefore(q)
  BY <1>1 DEF SameBefore
<1> QED BY <1>1, <1>3, <1>4, LedgerQuiet

LEMMA LedgerCompute ==
    ASSUME TypeOK, Ledger, NEW p \in Slots, prep[p].backend \in Backends, Compute(p)
    PROVE  Ledger'
<1>1. /\ UNCHANGED <<graph, facts, nodeRevisions, workspaceRevision, records, sequence, runs>>
      /\ step' = [step EXCEPT ![p] = "computed"] /\ sequence \in Nat
  BY DEF Compute, solutionVars, TypeOK
<1>2. RecordsGrow
  BY <1>1 DEF RecordsGrow, TypeOK
<1>3. ASSUME NEW q \in Slots, NEW n \in Nodes PROVE LinkPrep(q, n)'
  <2>1. CASE q = p
    <3>1. /\ prep'[p].rec[n] \in {0, facts[n].rec}
          /\ prep'[p].backend = prep[p].backend /\ prep'[p].graph = prep[p].graph
          /\ prep'[p].action[n] \in {"read", "reuse"} =>
                /\ prep'[p].rec[n] = facts[n].rec /\ facts[n].fresh = "current"
                /\ facts[n].key = Key(prep[p].graph, prep[p].backend, n)
      BY Computed
    <3>2. LinkFact(n)
      BY DEF Ledger, LinkInv
    <3>3. n \in Accepted(p)' => prep'[p].action[n] \in {"read", "reuse"}
      BY DEF Accepted
    <3>4. Key(prep[p].graph, prep[p].backend, n)' = Key(prep[p].graph, prep[p].backend, n)
      BY <3>1 DEF Key
    <3> QED BY <1>1, <2>1, <3>1, <3>2, <3>3, <3>4 DEF LinkPrep, LinkFact
  <2>2. CASE q # p
    <3>1. prep'[q] = prep[q]
      <4>1. prep' = [prep EXCEPT ![p] = prep'[p]]
        BY Computed
      <4> QED BY <2>2, <4>1 DEF TypeOK
    <3>2. SameRequest(q) /\ (Decided(q)' => Decided(q))
      BY <1>1, <2>2, <3>1 DEF SameRequest, Decided, TypeOK
    <3> QED BY <1>2, <3>2, LinkPrepBeside DEF Ledger
  <2> QED BY <2>1, <2>2
<1>4. \A q \in Slots : SameBefore(q)
  BY <1>1 DEF SameBefore
<1> QED BY <1>1, <1>3, <1>4, LedgerQuiet

LEMMA LedgerAdvance ==
    ASSUME TypeOK, Ledger, NEW p \in Slots, Register(p) \/ Claim(p) \/ Reserve(p) \/ Start(p)
    PROVE  Ledger'
<1>1. /\ UNCHANGED <<graph, facts, nodeRevisions, workspaceRevision, records, runs>>
      /\ sequence \in Nat /\ sequence' \in {sequence, sequence + 1}
      /\ \E s \in {"registered", "claimed", "reserved", "started"} : step' = [step EXCEPT ![p] = s]
      /\ Decided(p)
  BY DEF Register, Claim, Reserve, Start, solutionVars, ownedVars, TypeOK, Decided
<1>2. RecordsGrow
  BY <1>1 DEF RecordsGrow, TypeOK
<1>3. ASSUME NEW q \in Slots, NEW n \in Nodes PROVE LinkPrep(q, n)'
  <2>1. SameRequest(q)
    <3>1. CASE Register(p)
      BY <3>1, PrepOfRegister
    <3>2. CASE Claim(p)
      BY <3>2, PrepOfClaim
    <3>3. CASE Reserve(p)
      BY <3>3, PrepOfReserve
    <3>4. CASE Start(p)
      BY <3>4 DEF Start, SameRequest
    <3> QED BY <3>1, <3>2, <3>3, <3>4
  <2>2. Decided(q)' => Decided(q)
    BY <1>1 DEF Decided, TypeOK
  <2> QED BY <1>2, <2>1, <2>2, LinkPrepBeside DEF Ledger
<1>4. \A q \in Slots : SameBefore(q)
  BY <1>1 DEF SameBefore
<1> QED BY <1>1, <1>3, <1>4, LedgerQuiet

LEMMA LedgerWorker ==
    ASSUME TypeOK, Ledger, NEW b \in Backends, Spawn(b) \/ Lose(b)
    PROVE  Ledger'
<1>1. /\ UNCHANGED <<graph, facts, nodeRevisions, workspaceRevision, records, sequence, runs, step, prep>>
      /\ sequence \in Nat
  BY DEF Spawn, Lose, solutionVars, ownedVars, TypeOK
<1>2. RecordsGrow
  BY <1>1 DEF RecordsGrow, TypeOK
<1>3. ASSUME NEW q \in Slots, NEW n \in Nodes PROVE LinkPrep(q, n)'
  <2>1. SameRequest(q) /\ (Decided(q)' => Decided(q))
    BY <1>1 DEF SameRequest, Decided
  <2> QED BY <1>2, <2>1, LinkPrepBeside DEF Ledger
<1>4. \A q \in Slots : SameBefore(q)
  BY <1>1 DEF SameBefore
<1> QED BY <1>1, <1>3, <1>4, LedgerQuiet

(* An edit spends the facts of what is computed from the node.             *)
LEMMA LedgerEdit ==
    ASSUME TypeOK, Ledger, NEW n \in Nodes, NEW content \in Contents \union {Gone},
           Edit(n, content)
    PROVE  Ledger'
<1>1. /\ records' \subseteq records /\ sequence' = sequence /\ sequence \in Nat
      /\ records \subseteq Records /\ UNCHANGED step
  BY DEF Edit, TypeOK
<1>2. RecordsGrow
  BY <1>1 DEF RecordsGrow
<1>3. ASSUME NEW m \in Nodes
      PROVE  Spent(m) \/ (Kept(m) /\ nodeRevisions'[m] = nodeRevisions[m])
  <2>1. nodeRevisions[m] \in Nat
    BY DEF TypeOK
  <2>2. CASE m \in Affected(n, content)
    <3>1. facts'[m] = Expired(m, nodeRevisions[m] + 1)
      BY <2>2 DEF Edit
    <3> QED BY <2>1, <3>1, ExpiredFact DEF Spent
  <2>3. CASE m \notin Affected(n, content) /\ m = n /\ content = Gone
    <3>1. facts'[m] = Never
      BY <2>3 DEF Edit
    <3> QED BY <3>1, NeverIs DEF Spent
  <2>4. CASE m \notin Affected(n, content) /\ ~(m = n /\ content = Gone)
    <3>1. facts'[m] = facts[m] /\ nodeRevisions'[m] = nodeRevisions[m]
      BY <2>1, <2>4 DEF Edit
    <3> QED BY <3>1 DEF Kept
  <2> QED BY <2>2, <2>3, <2>4
<1>4. ASSUME NEW q \in Slots PROVE SameBefore(q)
  BY RunsOfEdit DEF SameBefore
<1>5. ASSUME NEW q \in Slots, NEW m \in Nodes PROVE LinkPrep(q, m)'
  <2>1. SameRequest(q) /\ (Decided(q)' => Decided(q))
    BY <1>1, PrepOfEdit DEF Decided
  <2> QED BY <1>2, <2>1, LinkPrepBeside DEF Ledger
<1> QED BY <1>2, <1>3, <1>4, <1>5, EditSteps, LedgerKept

(* An observation those of what it takes back.                             *)
LEMMA LedgerObserve ==
    ASSUME TypeOK, Ledger, NEW p \in Slots, NEW root \in Nodes, NEW n \in Nodes,
           Observe(p, root, n)
    PROVE  Ledger'
<1>1. /\ UNCHANGED <<records, sequence, step>> /\ sequence \in Nat
      /\ records \subseteq Records
  BY DEF Observe, TypeOK
<1>2. RecordsGrow
  BY <1>1 DEF RecordsGrow
<1>3. ASSUME NEW m \in Nodes
      PROVE  Spent(m) \/ (Kept(m) /\ nodeRevisions'[m] = nodeRevisions[m])
  <2>1. nodeRevisions[m] \in Nat
    BY DEF TypeOK
  <2>2. PICK hit \in SUBSET Nodes :
            /\ facts' = [k \in Nodes |-> IF k \in hit THEN Expired(k, nodeRevisions[k] + 1) ELSE facts[k]]
            /\ nodeRevisions' = [k \in Nodes |-> nodeRevisions[k] + (IF k \in hit THEN 1 ELSE 0)]
    <3>1. Below(root) \subseteq Nodes
      BY DEF Below
    <3> QED BY <3>1 DEF Observe
  <2>3. CASE m \in hit
    <3>1. facts'[m] = Expired(m, nodeRevisions[m] + 1)
      BY <2>2, <2>3
    <3> QED BY <2>1, <3>1, ExpiredFact DEF Spent
  <2>4. CASE m \notin hit
    <3>1. facts'[m] = facts[m] /\ nodeRevisions'[m] = nodeRevisions[m]
      BY <2>1, <2>2, <2>4
    <3> QED BY <3>1 DEF Kept
  <2> QED BY <2>3, <2>4
<1>4. ASSUME NEW q \in Slots PROVE SameBefore(q)
  BY RunsOfObserve DEF SameBefore, SameRuns
<1>5. ASSUME NEW q \in Slots, NEW m \in Nodes PROVE LinkPrep(q, m)'
  <2>1. SameRequest(q) /\ (Decided(q)' => Decided(q))
    BY <1>1, PrepOfObserve DEF Decided
  <2> QED BY <1>2, <2>1, LinkPrepBeside DEF Ledger
<1> QED BY <1>2, <1>3, <1>4, <1>5, ObserveSteps, LedgerKept

LEMMA LedgerResetProject ==
    ASSUME TypeOK, Ledger, NEW g \in [Nodes -> Contents], ResetProject(g)
    PROVE  Ledger'
<1>1. /\ \A n \in Nodes : facts'[n] = Never
      /\ \A q \in Slots : runs'[q] = None
      /\ records' = {} /\ sequence' = sequence /\ sequence \in Nat /\ UNCHANGED <<step, prep>>
      /\ records \subseteq Records
  BY DEF ResetProject, TypeOK
<1>2. RecordsGrow
  BY <1>1 DEF RecordsGrow
<1>3. FactInv' /\ BeforeInv'
  BY <1>1, NeverIs DEF FactInv, FactHolds, BeforeInv, BeforeHolds
<1>4. LinkRecords' /\ \A n \in Nodes : LinkFact(n)'
  <2>1. \A n \in Nodes : facts'[n].rec = 0 /\ facts'[n].fresh = "never"
    BY <1>1, NeverIs
  <2> QED BY <1>1, <2>1 DEF LinkRecords, LinkFact
<1>5. ASSUME NEW q \in Slots, NEW n \in Nodes PROVE LinkPrep(q, n)' /\ LinkRun(q, n)'
  <2>1. SameRequest(q) /\ (Decided(q)' => Decided(q))
    BY <1>1 DEF Decided, SameRequest
  <2> QED BY <1>1, <1>2, <2>1, LinkPrepBeside DEF Ledger, LinkRun
<1> QED BY <1>3, <1>4, <1>5 DEF Ledger, LinkInv

(* Acceptance by a worker that is up: what is about to be executed is      *)
(* expired under the revision it was CURRENT for, and kept as it was.      *)
LEMMA LedgerAcceptWarm ==
    ASSUME TypeOK, Ledger, NEW p \in Slots, AcceptWarm(p)
    PROVE  Ledger'
<1> DEFINE dirty == {n \in Executing(prep[p].action) : facts[n].fresh = "current"}
           before == [n \in Nodes |-> IF n \in dirty THEN facts[n] ELSE Never]
<1>1. /\ UNCHANGED <<graph, nodeRevisions, records, sequence, prep>>
      /\ step' = [step EXCEPT ![p] = "accepted"] /\ Decided(p)
      /\ sequence \in Nat /\ records \subseteq Records
  BY DEF AcceptWarm, Acceptable, Decided, TypeOK
<1>2. RecordsGrow
  BY <1>1 DEF RecordsGrow
<1>3. runs' = [runs EXCEPT ![p] = Entry(p, before)]
  BY DEF AcceptWarm
<1>4. ASSUME NEW q \in Slots \ {p} PROVE SameBefore(q)
  BY <1>3 DEF SameBefore, TypeOK
<1>5. runs'[p].before = before
  BY <1>3 DEF Entry, TypeOK
<1>6. ASSUME NEW n \in Nodes
      PROVE  facts'[n] = IF n \in dirty THEN [facts[n] EXCEPT !.fresh = "expired", !.why = "recompute"]
                         ELSE facts[n]
  BY DEF AcceptWarm
<1>7. ASSUME NEW n \in Nodes PROVE facts[n] \in Facts /\ FactHolds(n) /\ LinkFact(n)
  BY DEF TypeOK, Ledger, FactInv, LinkInv
<1>8. ASSUME NEW n \in Nodes, n \in dirty
      PROVE  /\ facts[n].fresh = "current"
             /\ facts'[n].fresh = "expired" /\ facts'[n].why = "recompute"
             /\ facts'[n].rec = facts[n].rec /\ facts'[n].rev = facts[n].rev
  <2>1. facts'[n] = [facts[n] EXCEPT !.fresh = "expired", !.why = "recompute"]
    BY <1>6, <1>8
  <2>2. facts[n] \in Facts /\ facts[n].fresh = "current"
    BY <1>7, <1>8
  <2> DEFINE d == [facts[n] EXCEPT !.fresh = "expired", !.why = "recompute"]
  <2>3. /\ d.fresh = "expired" /\ d.why = "recompute"
        /\ d.rec = facts[n].rec /\ d.rev = facts[n].rev
    BY <2>2, DirtyFact
  <2> HIDE DEF d
  <2> QED BY <2>1, <2>2, <2>3 DEF d
<1> HIDE DEF dirty
<1>9. FactInv'
  <2> SUFFICES ASSUME NEW n \in Nodes PROVE FactHolds(n)'
    BY DEF FactInv
  <2>1. CASE n \in dirty
    BY <1>1, <1>7, <1>8, <2>1 DEF FactHolds
  <2>2. CASE n \notin dirty
    BY <1>1, <1>6, <1>7, <2>2 DEF FactHolds
  <2> QED BY <2>1, <2>2
<1>10. BeforeInv'
  <2> SUFFICES ASSUME NEW q \in Slots, NEW n \in Nodes PROVE BeforeHolds(q, n)'
    BY DEF BeforeInv
  <2>1. CASE q = p
    <3>1. runs'[p].before[n] # Never => n \in dirty /\ runs'[p].before[n] = facts[n]
      BY <1>5
    <3>2. nodeRevisions[n] \in Nat
      BY DEF TypeOK
    <3> QED BY <1>1, <1>7, <1>8, <2>1, <3>1, <3>2 DEF BeforeHolds, FactHolds
  <2>2. CASE q # p
    <3>1. NodesStep
      <4>1. UNCHANGED <<graph, nodeRevisions, workspaceRevision>>
        BY DEF AcceptWarm
      <4> QED BY <4>1, RevisionsStay
    <3> QED BY <1>4, <2>2, <3>1, BeforeKept DEF Ledger, BeforeInv
  <2> QED BY <2>1, <2>2
<1>11. LinkRecords'
  BY <1>2, LinkRecordsKept DEF Ledger, LinkInv
<1>12. ASSUME NEW n \in Nodes PROVE LinkFact(n)'
  <2>1. CASE n \in dirty
    BY <1>1, <1>7, <1>8, <2>1 DEF LinkFact
  <2>2. CASE n \notin dirty
    BY <1>1, <1>6, <1>7, <2>2 DEF LinkFact
  <2> QED BY <2>1, <2>2
<1>13. ASSUME NEW q \in Slots, NEW n \in Nodes PROVE LinkRun(q, n)'
  <2>1. CASE q = p
    <3>1. runs'[p].before[n] # Never => n \in dirty /\ runs'[p].before[n] = facts[n]
      BY <1>5
    <3> QED BY <1>1, <1>7, <1>8, <2>1, <3>1 DEF LinkRun, LinkFact
  <2>2. CASE q # p
    BY <1>2, <1>4, <2>2, LinkRunKept DEF Ledger, LinkInv
  <2> QED BY <2>1, <2>2
<1>14. ASSUME NEW q \in Slots, NEW n \in Nodes PROVE LinkPrep(q, n)'
  <2>1. SameRequest(q) /\ (Decided(q)' => Decided(q))
    BY <1>1 DEF SameRequest, Decided, TypeOK
  <2> QED BY <1>2, <2>1, LinkPrepBeside DEF Ledger
<1> QED BY <1>9, <1>10, <1>11, <1>12, <1>13, <1>14 DEF Ledger, LinkInv

(* Acceptance that adopts a generation, or an event of an unknown one.     *)
LEMMA ResetSpends ==
    ASSUME TypeOK, NEW n \in Nodes, facts' = FactsAfterReset
    PROVE  Spent(n)
BY ResetFacts DEF Spent

LEMMA LedgerAcceptCold ==
    ASSUME TypeOK, Ledger, NEW p \in Slots, AcceptCold(p)
    PROVE  Ledger'
<1>1. /\ UNCHANGED <<graph, sequence>> /\ records' = {} /\ facts' = FactsAfterReset
      /\ step' = [step EXCEPT ![p] = "accepted"] /\ Decided(p) /\ sequence \in Nat
      /\ runs' = [q \in Slots |-> IF q = p THEN Entry(p, [n \in Nodes |-> Never]) ELSE None]
  BY DEF AcceptCold, Acceptable, Decided, TypeOK
<1>2. RecordsGrow
  BY <1>1 DEF RecordsGrow
<1>3. NodesStep
  BY <1>1, ResetSteps
<1>4. \A n \in Nodes : Spent(n)
  BY <1>1, ResetSpends
<1>5. ASSUME NEW q \in Slots
      PROVE  SameBefore(q) \/ \A n \in Nodes : runs'[q].before[n] = Never
  <2>1. CASE q = p
    BY <1>1, <2>1 DEF Entry
  <2>2. CASE q # p
    BY <1>1, <2>2 DEF SameBefore
  <2> QED BY <2>1, <2>2
<1>6. ASSUME NEW q \in Slots, NEW n \in Nodes PROVE LinkPrep(q, n)'
  <2>1. SameRequest(q) /\ (Decided(q)' => Decided(q))
    BY <1>1, PrepOfAcceptCold DEF Decided, TypeOK
  <2> QED BY <1>2, <2>1, LinkPrepBeside DEF Ledger
<1> QED BY <1>2, <1>3, <1>4, <1>5, <1>6, LedgerKept

(* A start that fails gives back what it expired, if the revision is still *)
(* the one it was CURRENT for.                                             *)
LEMMA LedgerAbandon ==
    ASSUME TypeOK, Ledger, NEW p \in Slots, Abandon(p)
    PROVE  Ledger'
<1>1. /\ UNCHANGED <<graph, nodeRevisions, workspaceRevision, records, sequence>>
      /\ step' = [step EXCEPT ![p] = "idle"] /\ prep' = [prep EXCEPT ![p] = Blank]
      /\ runs' = [runs EXCEPT ![p] = None] /\ sequence \in Nat
      /\ records \subseteq Records
  BY DEF Abandon, TypeOK
<1>2. RecordsGrow
  BY <1>1 DEF RecordsGrow
<1>3. NodesStep
  BY <1>1, RevisionsStay
<1>4. ASSUME NEW n \in Nodes PROVE FactHolds(n) /\ LinkFact(n) /\ BeforeHolds(p, n) /\ LinkRun(p, n)
  BY DEF Ledger, FactInv, BeforeInv, LinkInv
<1>5. ASSUME NEW n \in Nodes
      PROVE  \/ facts'[n] = facts[n]
             \/ /\ facts'[n] = runs[p].before[n] /\ runs[p] # None /\ runs[p].before[n] # Never
                /\ facts[n].fresh = "expired" /\ facts[n].why = "recompute"
                /\ facts[n].rev = runs[p].before[n].rev
  BY DEF Abandon, Restored
<1>6. ASSUME NEW n \in Nodes PROVE FactHolds(n)' /\ LinkFact(n)'
  <2>1. CASE facts'[n] = facts[n]
    BY <1>1, <1>4, <2>1 DEF FactHolds, LinkFact
  <2>2. CASE facts'[n] # facts[n]
    <3>1. facts[n].rev = nodeRevisions[n]
      BY <1>4, <1>5, <2>2 DEF FactHolds
    <3> QED BY <1>1, <1>4, <1>5, <2>2, <3>1 DEF FactHolds, LinkFact, BeforeHolds, LinkRun
  <2> QED BY <2>1, <2>2
<1>7. ASSUME NEW q \in Slots PROVE SameBefore(q)
  BY <1>1 DEF SameBefore, TypeOK
<1>8. ASSUME NEW q \in Slots, NEW n \in Nodes PROVE BeforeHolds(q, n)' /\ LinkRun(q, n)'
  BY <1>2, <1>3, <1>7, BeforeKept, LinkRunKept DEF Ledger, BeforeInv, LinkInv
<1>9. ASSUME NEW q \in Slots, NEW n \in Nodes PROVE LinkPrep(q, n)'
  <2>1. CASE q = p
    <3>1. prep'[p] = Blank /\ step'[p] = "idle" /\ sequence' \in Nat
      BY <1>1 DEF TypeOK
    <3> QED BY <2>1, <3>1, LinkPrepOver
  <2>2. CASE q # p
    <3>1. prep'[q] = prep[q] /\ step'[q] = step[q]
      BY <1>1, <2>2 DEF TypeOK
    <3>2. SameRequest(q) /\ (Decided(q)' => Decided(q))
      BY <3>1 DEF SameRequest, Decided
    <3> QED BY <1>2, <3>2, LinkPrepBeside DEF Ledger
  <2> QED BY <2>1, <2>2
<1>10. LinkRecords'
  BY <1>2, LinkRecordsKept DEF Ledger, LinkInv
<1> QED BY <1>6, <1>8, <1>9, <1>10 DEF Ledger, FactInv, BeforeInv, LinkInv

LEMMA LedgerReceive ==
    ASSUME TypeOK, Ledger, NEW b \in Backends, Receive(b)
    PROVE  Ledger'
<1>1. /\ UNCHANGED <<graph, step, prep, sequence>> /\ sequence \in Nat
      /\ records \subseteq Records
      /\ \/ UNCHANGED <<facts, nodeRevisions, workspaceRevision, records, runs>>
         \/ ResetGeneration
  BY DEF Receive, ResetGeneration, solutionVars, ownedVars, TypeOK
<1>2. RecordsGrow
  BY <1>1 DEF RecordsGrow, ResetGeneration
<1>3. ASSUME NEW q \in Slots, NEW n \in Nodes PROVE LinkPrep(q, n)'
  <2>1. SameRequest(q) /\ (Decided(q)' => Decided(q))
    BY <1>1 DEF SameRequest, Decided
  <2> QED BY <1>2, <2>1, LinkPrepBeside DEF Ledger
<1>4. CASE UNCHANGED <<facts, nodeRevisions, workspaceRevision, records, runs>>
  <2>1. \A q \in Slots : SameBefore(q)
    BY <1>4 DEF SameBefore
  <2> QED BY <1>1, <1>3, <1>4, <2>1, LedgerQuiet
<1>5. CASE ResetGeneration
  <2>1. NodesStep
    BY <1>1, <1>5, ResetSteps
  <2>2. \A n \in Nodes : Spent(n)
    BY <1>5, ResetSpends DEF ResetGeneration
  <2>3. \A q \in Slots : SameBefore(q)
    BY <1>5 DEF ResetGeneration, SameBefore
  <2> QED BY <1>2, <1>3, <2>1, <2>2, <2>3, LedgerKept
<1> QED BY <1>1, <1>4, <1>5

(* A result that settles is of the graph as it is: the revision that was   *)
(* captured for its node still stands.                                     *)
LEMMA LedgerResult ==
    ASSUME TypeOK, Ledger, SlotInv, NEW b \in Backends, NEW p \in Slots, NEW n \in Nodes,
           CaptureOf(p), DecisionOf(p), HandlesResult(b, p, n),
           UNCHANGED <<graph, nodeRevisions, workspaceRevision>>
    PROVE  Ledger'
<1>1. /\ UNCHANGED <<step, prep>> /\ SameRuns /\ RecordsStep
      /\ runs[p] # None /\ step[p] = "started"
      /\ prep[p].action[n] \in {"execute", "reuse"}
      /\ \A m \in Nodes : Kept(m) \/ (m = n /\ (Dropped(n) \/ Renewed(p, n)))
  BY DEF HandlesResult, Settlement
<1>2. RecordsGrow
  BY <1>1 DEF RecordsStep, RecordsGrow
<1>3. NodesStep
  BY RevisionsStay
<1>4. LinkRecords'
  BY <1>2, LinkRecordsKept DEF Ledger, LinkInv
<1>5. prep[p].graph[n] # Gone
  <2>1. Decided(p)
    BY <1>1 DEF Decided
  <2> QED BY <1>1, <2>1 DEF DecisionOf
<1>6. prep[p].backend \in Backends /\ prep[p].graph \in Graphs
  BY <1>1 DEF SlotInv, TypeOK, Submissions
<1>7. ASSUME Renewed(p, n) PROVE FactHolds(n)' /\ LinkFact(n)'
  <2>1. PICK r \in records' : /\ facts'[n] = Current(n, r)
                              /\ r.key = Key(prep[p].graph, prep[p].backend, n)
    BY <1>7 DEF Renewed
  <2>2. r \in Records /\ r.seq \in Nat /\ r.seq <= sequence'
    BY <1>1, <1>2, <2>1 DEF RecordsStep, RecordsGrow, TypeOK, Records
  <2>3. /\ facts'[n].fresh = "current" /\ facts'[n].rec = r.seq
        /\ facts'[n].key = r.key /\ facts'[n].rev = nodeRevisions[n]
    BY <2>1, <2>2, SettledFact
  <2>4. Same(prep[p].graph, n)
    <3>1. prep[p].rev[n] = nodeRevisions[n]
      BY <1>7 DEF Renewed, Captured
    <3> QED BY <1>1, <1>5, <3>1 DEF CaptureOf, Trusted
  <2>5. n \in Above[n]
    BY StoreAssumption
  <2>6. graph[n] # Gone
    BY <1>5, <2>4, <2>5 DEF Same
  <2>7. InputsOf(prep[p].graph, n) = InputsOf(graph, n)
    BY <2>4 DEF Same, InputsOf
  <2>8. r.key.inputs = InputsOf(graph, n)
    BY <1>6, <2>1, <2>7, KeyType
  <2>9. FactHolds(n)'
    BY <2>3, <2>6, <2>8 DEF FactHolds
  <2>10. LinkFact(n)'
    BY <1>4, <2>1, <2>2, <2>3 DEF LinkFact, LinkRecords
  <2> QED BY <2>9, <2>10
<1>8. ASSUME NEW m \in Nodes PROVE FactHolds(m)' /\ LinkFact(m)'
  <2>1. CASE Kept(m)
    BY <1>2, <1>3, <2>1, FactKept, LinkFactKept DEF Ledger, FactInv, LinkInv
  <2>2. CASE m = n /\ Dropped(n)
    <3>1. Spent(m)
      BY <2>2 DEF Dropped, Spent
    <3> QED BY <1>2, <1>3, <3>1, FactKept, LinkFactKept DEF Ledger, FactInv, LinkInv
  <2>3. CASE m = n /\ Renewed(p, n)
    BY <1>7, <2>3
  <2> QED BY <1>1, <2>1, <2>2, <2>3
<1>9. ASSUME NEW q \in Slots PROVE SameBefore(q)
  BY <1>1 DEF SameRuns, SameBefore
<1>10. ASSUME NEW q \in Slots, NEW m \in Nodes PROVE BeforeHolds(q, m)' /\ LinkRun(q, m)'
  BY <1>2, <1>3, <1>9, BeforeKept, LinkRunKept DEF Ledger, BeforeInv, LinkInv
<1>11. ASSUME NEW q \in Slots, NEW m \in Nodes PROVE LinkPrep(q, m)'
  <2>1. SameRequest(q) /\ (Decided(q)' => Decided(q))
    BY <1>1 DEF SameRequest, Decided
  <2> QED BY <1>2, <2>1, LinkPrepBeside DEF Ledger
<1> QED BY <1>4, <1>8, <1>10, <1>11 DEF Ledger, FactInv, BeforeInv, LinkInv

LEMMA LedgerHandle ==
    ASSUME TypeOK, Ledger, CaptureInv, DecisionInv, SlotInv, RunInv, EventInv,
           NEW b \in Backends, Handle(b)
    PROVE  Ledger'
<1>1. UNCHANGED <<graph, nodeRevisions, workspaceRevision>>
  BY DEF Handle
<1>2. \/ \E p \in Slots, n \in Nodes : HandlesResult(b, p, n)
      \/ HandlesTrigger(b)
      \/ \E p \in Slots : HandlesEnd(b, p)
  BY Handled DEF Ledger
<1>3. ASSUME NEW p \in Slots, NEW n \in Nodes, HandlesResult(b, p, n) PROVE Ledger'
  BY <1>1, <1>3, LedgerResult DEF CaptureInv, DecisionInv
<1>4. CASE HandlesTrigger(b)
  <2>1. UNCHANGED <<facts, records, sequence, runs, step, prep>> /\ sequence \in Nat
    BY <1>4 DEF HandlesTrigger, TypeOK
  <2>2. RecordsGrow
    BY <2>1 DEF RecordsGrow, TypeOK
  <2>3. ASSUME NEW q \in Slots, NEW m \in Nodes PROVE LinkPrep(q, m)'
    <3>1. SameRequest(q) /\ (Decided(q)' => Decided(q))
      BY <2>1 DEF SameRequest, Decided
    <3> QED BY <2>2, <3>1, LinkPrepBeside DEF Ledger
  <2>4. \A q \in Slots : SameBefore(q)
    BY <2>1 DEF SameBefore
  <2> QED BY <1>1, <2>1, <2>3, <2>4, LedgerQuiet
<1>5. ASSUME NEW p \in Slots, HandlesEnd(b, p) PROVE Ledger'
  <2>1. /\ UNCHANGED <<facts, records, sequence>> /\ sequence \in Nat
        /\ runs' = [runs EXCEPT ![p] = None]
        /\ step' = [step EXCEPT ![p] = "idle"] /\ prep' = [prep EXCEPT ![p] = Blank]
    BY <1>5 DEF HandlesEnd, TypeOK
  <2>2. RecordsGrow
    BY <2>1 DEF RecordsGrow, TypeOK
  <2>3. ASSUME NEW q \in Slots, NEW m \in Nodes PROVE LinkPrep(q, m)'
    <3>1. CASE q = p
      <4>1. prep'[p] = Blank /\ step'[p] = "idle" /\ sequence' \in Nat
        BY <2>1 DEF TypeOK
      <4> QED BY <3>1, <4>1, LinkPrepOver
    <3>2. CASE q # p
      <4>1. prep'[q] = prep[q] /\ step'[q] = step[q]
        BY <2>1, <3>2 DEF TypeOK
      <4>2. SameRequest(q) /\ (Decided(q)' => Decided(q))
        BY <4>1 DEF SameRequest, Decided
      <4> QED BY <2>2, <4>2, LinkPrepBeside DEF Ledger
    <3> QED BY <3>1, <3>2
  <2>4. \A q \in Slots : SameBefore(q)
    BY <2>1 DEF SameBefore, TypeOK
  <2> QED BY <1>1, <2>1, <2>3, <2>4, LedgerQuiet
<1> QED BY <1>2, <1>3, <1>4, <1>5

---------------------------------------------------------------------------
(* Pins.                                                                   *)

(* What a preparation or a run of q counts on.                             *)
Counts(q, s) ==
    \/ q \in preparations /\ s \in prep[q].pins
    \/ runs[q] # None /\ s \in runs[q].pins

LEMMA PinsCount ==
    ASSUME TypeOK
    PROVE  PinnedSurvive <=> \A q \in Slots : \A s \in Nat : Counts(q, s) => Recorded(s)
<1>1. \A q \in Slots : prep[q].pins \subseteq Nat
  BY DEF TypeOK, Submissions
<1>2. \A q \in Slots : runs[q] # None => runs[q].pins \subseteq Nat
  BY DEF TypeOK, Runs
<1>3. preparations \subseteq Slots
  BY DEF TypeOK
<1> QED BY <1>1, <1>2, <1>3 DEF PinnedSurvive, Counts

LEMMA PinsCountNext ==
    ASSUME TypeOK'
    PROVE  PinnedSurvive' <=> \A q \in Slots : \A s \in Nat : Counts(q, s)' => Recorded(s)'
<1>1. \A q \in Slots : prep'[q].pins \subseteq Nat
  BY DEF TypeOK, Submissions
<1>2. \A q \in Slots : runs'[q] # None => runs'[q].pins \subseteq Nat
  BY DEF TypeOK, Runs
<1>3. preparations' \subseteq Slots
  BY DEF TypeOK
<1> QED BY <1>1, <1>2, <1>3 DEF PinnedSurvive, Counts

(* Nobody counts on more, and what is counted on stays.                    *)
LEMMA PinsKept ==
    ASSUME TypeOK, TypeOK', PinnedSurvive,
           \A q \in Slots : \A s \in Nat : Counts(q, s)' => \E t \in Slots : Counts(t, s),
           \A r \in records : (\E q \in Slots : Counts(q, r.seq)') => r \in records'
    PROVE  PinnedSurvive'
<1>1. SUFFICES ASSUME NEW q \in Slots, NEW s \in Nat, Counts(q, s)' PROVE Recorded(s)'
  BY PinsCountNext
<1>2. PICK t \in Slots : Counts(t, s)
  BY <1>1
<1>3. PICK r \in records : r.seq = s
  BY <1>2, PinsCount DEF Recorded
<1>4. r \in records'
  BY <1>1, <1>3
<1> QED BY <1>3, <1>4 DEF Recorded

LEMMA PinsFewer ==
    ASSUME TypeOK, TypeOK', PinnedSurvive, records \subseteq records',
           \A q \in preparations' : q \in preparations /\ prep'[q].pins \subseteq prep[q].pins,
           \A q \in Slots : runs'[q] # None => runs[q] # None /\ runs'[q].pins \subseteq runs[q].pins
    PROVE  PinnedSurvive'
<1>1. \A q \in Slots : \A s \in Nat : Counts(q, s)' => Counts(q, s)
  BY DEF Counts
<1> QED BY <1>1, PinsKept

LEMMA PinsNone ==
    ASSUME TypeOK', preparations' = {}, \A q \in Slots : runs'[q] = None
    PROVE  PinnedSurvive'
BY DEF PinnedSurvive

LEMMA PinsEdit ==
    ASSUME TypeOK, TypeOK', PinnedSurvive, NEW n \in Nodes, NEW content \in Contents \union {Gone},
           Edit(n, content)
    PROVE  PinnedSurvive'
<1>1. UNCHANGED preparations
  BY DEF Edit
<1>2. \A q \in Slots : \A s \in Nat : Counts(q, s)' => Counts(q, s)
  BY <1>1, PrepOfEdit, RunsOfEdit DEF Counts
<1>3. ASSUME NEW r \in records, NEW q \in Slots, Counts(q, r.seq)' PROVE r \in records'
  BY <1>1, <1>3, PrepOfEdit, RunsOfEdit DEF Counts
<1> QED BY <1>2, <1>3, PinsKept

LEMMA PinsRegister ==
    ASSUME TypeOK, TypeOK', PinnedSurvive, NEW p \in Slots, Register(p)
    PROVE  PinnedSurvive'
<1>1. /\ UNCHANGED <<records, runs>> /\ preparations' \subseteq preparations \union {p}
      /\ \A n \in Accepted(p) : Recorded(prep[p].rec[n])
  BY DEF Register, Observed
<1>2. ASSUME NEW q \in Slots, NEW s \in Nat, Counts(q, s)' PROVE Recorded(s)
  <2>1. CASE Counts(q, s)
    BY <2>1, PinsCount
  <2>2. CASE ~Counts(q, s)
    <3>1. q \in preparations' /\ s \in prep'[q].pins
      BY <1>1, <1>2, <2>2 DEF Counts
    <3>2. CASE q = p
      <4>1. s \in {prep[p].rec[n] : n \in Accepted(p)}
        BY <3>1, <3>2, PrepOfRegister
      <4> QED BY <1>1, <4>1
    <3>3. CASE q # p
      BY <1>1, <2>2, <3>1, <3>3, PrepOfRegister DEF Counts, SamePins
    <3> QED BY <3>2, <3>3
  <2> QED BY <2>1, <2>2
<1>4. \A u \in Nat : Recorded(u)' <=> Recorded(u)
  BY <1>1 DEF Recorded
<1> QED BY <1>2, <1>4, PinsCountNext

LEMMA PinsDispatch ==
    ASSUME TypeOK, TypeOK', PinnedSurvive, NEW p \in Slots,
           \/ \E b \in Backends : Capture(p, b)
           \/ prep[p].backend \in Backends /\ Compute(p)
           \/ Claim(p) \/ Reserve(p) \/ Start(p) \/ Abandon(p)
    PROVE  PinnedSurvive'
<1>1. CASE \E b \in Backends : Capture(p, b)
  <2>1. /\ UNCHANGED <<records, preparations, runs>> /\ p \notin preparations
        /\ preparations \subseteq Slots
    BY <1>1 DEF Capture, solutionVars, ownedVars, TypeOK
  <2>2. \A q \in Slots \ {p} : prep'[q] = prep[q]
    BY <1>1, PrepOfCapture
  <2> QED BY <2>1, <2>2, PinsFewer
<1>2. CASE prep[p].backend \in Backends /\ Compute(p)
  <2>1. UNCHANGED <<records, preparations, runs>> /\ preparations \subseteq Slots
    BY <1>2 DEF Compute, solutionVars, TypeOK
  <2>2. prep' = [prep EXCEPT ![p] = prep'[p]] /\ prep'[p].pins = prep[p].pins
    BY <1>2, Computed
  <2>3. \A q \in Slots : prep'[q].pins = prep[q].pins
    <3>1. \A q \in Slots \ {p} : prep'[q] = prep[q]
      BY <2>2 DEF TypeOK
    <3> QED BY <2>2, <3>1
  <2> QED BY <2>1, <2>3, PinsFewer
<1>3. CASE Claim(p) \/ Reserve(p) \/ Start(p)
  <2>1. UNCHANGED <<records, preparations, runs>> /\ preparations \subseteq Slots
    BY <1>3 DEF Claim, Reserve, Start, solutionVars, ownedVars, TypeOK
  <2>2. \A q \in Slots : prep'[q].pins = prep[q].pins
    <3>1. CASE Claim(p)
      BY <3>1, PrepOfClaim DEF SamePins
    <3>2. CASE Reserve(p)
      BY <3>2, PrepOfReserve DEF SamePins
    <3>3. CASE Start(p)
      BY <3>3 DEF Start
    <3> QED BY <1>3, <3>1, <3>2, <3>3
  <2> QED BY <2>1, <2>2, PinsFewer
<1>4. CASE Abandon(p)
  <2>1. /\ UNCHANGED records /\ preparations' = preparations \ {p} /\ preparations \subseteq Slots
        /\ runs' = [runs EXCEPT ![p] = None] /\ prep' = [prep EXCEPT ![p] = Blank]
    BY <1>4 DEF Abandon, TypeOK
  <2>2. \A q \in Slots \ {p} : prep'[q] = prep[q]
    BY <2>1 DEF TypeOK
  <2>3. \A q \in Slots : runs'[q] # None => runs'[q] = runs[q]
    BY <2>1 DEF TypeOK
  <2> QED BY <2>1, <2>2, <2>3, PinsFewer
<1> QED BY <1>1, <1>2, <1>3, <1>4

LEMMA PinsAccept ==
    ASSUME TypeOK, TypeOK', PinnedSurvive, NEW p \in Slots, DecisionOf(p),
           AcceptWarm(p) \/ AcceptCold(p)
    PROVE  PinnedSurvive'
<1>1. p \in preparations /\ step[p] = "reserved"
  BY DEF AcceptWarm, AcceptCold, Acceptable
<1>2. CASE AcceptWarm(p)
  <2>1. /\ UNCHANGED <<records, prep>> /\ preparations' \subseteq preparations
        /\ \E before : runs' = [runs EXCEPT ![p] = Entry(p, before)]
    BY <1>2 DEF AcceptWarm, Taken
  <2>2. runs'[p].pins = prep[p].pins /\ \A q \in Slots \ {p} : runs'[q] = runs[q]
    BY <2>1 DEF Entry, TypeOK
  <2>3. \A q \in Slots : \A s \in Nat : Counts(q, s)' => Counts(q, s)
    BY <1>1, <2>1, <2>2 DEF Counts
  <2> QED BY <2>1, <2>3, PinsKept
<1>3. CASE AcceptCold(p)
  <2>1. /\ preparations' = {} /\ ~prep[p].snapshot.up
        /\ runs' = [q \in Slots |-> IF q = p THEN Entry(p, [n \in Nodes |-> Never]) ELSE None]
    BY <1>3 DEF AcceptCold
  <2>2. prep[p].pins = {}
    <3>1. Decided(p) /\ step[p] # "computed"
      BY <1>1 DEF Decided
    <3> QED BY <2>1, <3>1 DEF DecisionOf
  <2>3. \A q \in Slots : runs'[q] = None \/ runs'[q].pins = {}
    BY <2>1, <2>2 DEF Entry
  <2> QED BY <2>1, <2>3 DEF PinnedSurvive
<1> QED BY <1>2, <1>3

LEMMA PinsOthers ==
    ASSUME TypeOK, TypeOK', PinnedSurvive,
           \/ \E p \in Slots, root, n \in Nodes : Observe(p, root, n)
           \/ \E b \in Backends : Spawn(b) \/ Receive(b) \/ Lose(b)
           \/ \E g \in [Nodes -> Contents] : ResetProject(g)
    PROVE  PinnedSurvive'
<1>1. ASSUME NEW p \in Slots, NEW root \in Nodes, NEW n \in Nodes, Observe(p, root, n)
      PROVE  PinnedSurvive'
  <2>1. UNCHANGED <<records, preparations>> /\ preparations \subseteq Slots
    BY <1>1 DEF Observe, TypeOK
  <2>2. SameRuns
    BY <1>1, RunsOfObserve
  <2>3. \A q \in Slots : prep'[q].pins = prep[q].pins
    BY <1>1, PrepOfObserve DEF SamePins
  <2>4. \A q \in Slots : runs'[q] # None => runs[q] # None /\ runs'[q].pins = runs[q].pins
    BY <2>2 DEF SameRuns
  <2> QED BY <2>1, <2>3, <2>4, PinsFewer
<1>2. ASSUME NEW b \in Backends, Spawn(b) \/ Lose(b) PROVE PinnedSurvive'
  <2>1. UNCHANGED <<records, preparations, runs, prep>>
    BY <1>2 DEF Spawn, Lose, solutionVars, ownedVars
  <2> QED BY <2>1, PinsFewer
<1>3. ASSUME NEW b \in Backends, Receive(b) PROVE PinnedSurvive'
  <2>1. UNCHANGED prep /\ (UNCHANGED <<records, preparations, runs>> \/ ResetGeneration)
    BY <1>3 DEF Receive, solutionVars, ownedVars
  <2>2. CASE UNCHANGED <<records, preparations, runs>>
    BY <2>1, <2>2, PinsFewer
  <2>3. CASE ResetGeneration
    BY <2>3, PinsNone DEF ResetGeneration
  <2> QED BY <2>1, <2>2, <2>3
<1>4. ASSUME NEW g \in [Nodes -> Contents], ResetProject(g) PROVE PinnedSurvive'
  BY <1>4, PinsNone DEF ResetProject
<1> QED BY <1>1, <1>2, <1>3, <1>4

LEMMA PinsHandle ==
    ASSUME TypeOK, TypeOK', PinnedSurvive, LinkInv, SlotInv, RunInv, EventInv,
           NEW b \in Backends, Handle(b)
    PROVE  PinnedSurvive'
<1>1. UNCHANGED preparations /\ preparations \subseteq Slots
  BY DEF Handle, TypeOK
<1>2. ASSUME NEW p \in Slots, NEW n \in Nodes, HandlesResult(b, p, n) PROVE PinnedSurvive'
  <2>1. UNCHANGED prep /\ SameRuns /\ RecordsStep
    BY <1>2 DEF HandlesResult, Settlement
  <2>2. \A q \in Slots : \A s \in Nat : Counts(q, s)' <=> Counts(q, s)
    BY <1>1, <2>1 DEF Counts, SameRuns
  <2>3. ASSUME NEW r \in records, NEW q \in Slots, Counts(q, r.seq)' PROVE r \in records'
    <3>1. r.seq \in Nat
      BY DEF TypeOK
    <3>2. Counts(q, r.seq)
      BY <2>2, <2>3, <3>1
    <3> QED BY <2>1, <3>2 DEF Counts, RecordsStep
  <2> QED BY <2>2, <2>3, PinsKept
<1>3. CASE HandlesTrigger(b)
  <2>1. UNCHANGED <<records, runs, prep>>
    BY <1>3 DEF HandlesTrigger
  <2> QED BY <1>1, <2>1, PinsFewer
<1>4. ASSUME NEW p \in Slots, HandlesEnd(b, p) PROVE PinnedSurvive'
  <2>1. /\ UNCHANGED records
        /\ runs' = [runs EXCEPT ![p] = None] /\ prep' = [prep EXCEPT ![p] = Blank]
        /\ p \notin preparations
    BY <1>4 DEF HandlesEnd, TypeOK
  <2>2. \A q \in Slots \ {p} : prep'[q] = prep[q]
    BY <2>1 DEF TypeOK
  <2>3. \A q \in Slots : runs'[q] # None => runs'[q] = runs[q]
    BY <2>1 DEF TypeOK
  <2> QED BY <1>1, <2>1, <2>2, <2>3, PinsFewer
<1> QED BY <1>2, <1>3, <1>4, Handled

---------------------------------------------------------------------------
(* The invariant is inductive.                                             *)

LEMMA Parts ==
    IInv <=> /\ TypeOK /\ (\A q \in Slots : Promises(q)) /\ Ledger /\ PinnedSurvive
             /\ SlotInv /\ RunInv /\ EventInv
BY DEF IInv, Promises, RevisionInv, CaptureInv, DecisionInv, Ledger

LEMMA PartsNext ==
    IInv' <=> /\ TypeOK' /\ (\A q \in Slots : Promises(q)') /\ Ledger' /\ PinnedSurvive'
              /\ SlotInv' /\ RunInv' /\ EventInv'
BY DEF IInv, Promises, RevisionInv, CaptureInv, DecisionInv, Ledger

LEMMA InvInit == Init => IInv
<1> SUFFICES ASSUME Init PROVE IInv
  OBVIOUS
<1>1. TypeOK
  BY TypesInit
<1>2. /\ \A p \in Slots : step[p] = "idle" /\ prep[p] = Blank /\ runs[p] = None
      /\ \A p \in Slots : worker[p] = "none" /\ todo[p] = {}
      /\ \A n \in Nodes : facts[n] = Never
      /\ \A b \in Backends : hand[b] = None
      /\ records = {} /\ sequence = 0 /\ preparations = {} /\ triggerReservations = {}
      /\ binding = 0
  BY DEF Init
<1>3. ASSUME NEW q \in Slots PROVE Promises(q)
  <2>1. ~Trusted(q) /\ ~Decided(q)
    BY <1>2 DEF Trusted, Decided
  <2> QED BY <1>2, <2>1 DEF Promises, RevisionOf, CaptureOf, DecisionOf, Blank
<1>4. Ledger
  <2>1. FactInv /\ BeforeInv
    BY <1>2, NeverIs DEF FactInv, FactHolds, BeforeInv, BeforeHolds
  <2>2. LinkInv
    <3>1. \A p \in Slots, n \in Nodes : LinkPrep(p, n) /\ LinkRun(p, n)
      BY <1>2 DEF LinkPrep, LinkRun, Decided, Blank
    <3>2. \A n \in Nodes : facts[n].rec = 0 /\ facts[n].fresh = "never"
      BY <1>2, NeverIs
    <3> QED BY <1>2, <3>1, <3>2 DEF LinkInv, LinkRecords, LinkFact
  <2> QED BY <2>1, <2>2 DEF Ledger
<1>5. PinnedSurvive
  BY <1>2 DEF PinnedSurvive
<1>6. SlotInv /\ RunInv /\ EventInv
  BY <1>2 DEF SlotInv, Busy, RunInv, EventInv
<1> QED BY <1>1, <1>3, <1>4, <1>5, <1>6, Parts

LEMMA InvEdit ==
    ASSUME IInv, NEW n \in Nodes, NEW content \in Contents \union {Gone}, Edit(n, content)
    PROVE  IInv'
<1> USE Parts
<1>1. TypeOK'
  BY TypesEdit
<1>2. \A q \in Slots : Promises(q)'
  BY PromisesEdit
<1>3. Ledger'
  BY LedgerEdit
<1>4. PinnedSurvive'
  BY <1>1, PinsEdit
<1>5. /\ UNCHANGED <<step, worker, todo, hand, snapshots, live, binding, triggerReservations>>
  BY DEF Edit, workerVars
<1>6. \A q \in Slots : SameRequest(q) /\ SameReserved(q)
  BY PrepOfEdit
<1>7. SlotInv'
  BY <1>5, <1>6, SlotsStay
<1>8. \A q \in Slots : (runs'[q] = None <=> runs[q] = None)
                       /\ (runs[q] # None => runs'[q].snapshot = runs[q].snapshot)
  BY RunsOfEdit
<1>9. RunInv'
  BY <1>5, <1>6, <1>8 DEF RunInv, SameRequest, Decided
<1>10. EventInv'
  BY <1>5, <1>6, <1>8, EventsStay
<1> QED BY <1>1, <1>2, <1>3, <1>4, <1>7, <1>9, <1>10, PartsNext

LEMMA InvResetProject ==
    ASSUME IInv, NEW g \in [Nodes -> Contents], ResetProject(g)
    PROVE  IInv'
<1> USE Parts
<1>1. TypeOK'
  BY TypesResetProject
<1>2. \A q \in Slots : Promises(q)'
  BY PromisesResetProject
<1>3. Ledger'
  BY LedgerResetProject
<1>4. PinnedSurvive'
  BY <1>1, PinsOthers
<1>5. /\ UNCHANGED <<step, prep, worker, todo, hand>> /\ triggerReservations' = {}
      /\ \A q \in Slots : runs'[q] = None
  BY DEF ResetProject, workerVars
<1>6. SlotInv'
  BY <1>5, SlotsStay, PrepUnchanged
<1>7. RunInv'
  BY <1>5 DEF RunInv
<1>8. EventInv'
  BY EventsReset
<1> QED BY <1>1, <1>2, <1>3, <1>4, <1>6, <1>7, <1>8, PartsNext

LEMMA InvCapture ==
    ASSUME IInv, NEW p \in Slots, NEW b \in Backends, Capture(p, b)
    PROVE  IInv'
<1> USE Parts
<1>1. TypeOK'
  BY TypesCapture
<1>2. \A q \in Slots : Promises(q)'
  BY PromisesCapture
<1>3. Ledger'
  BY LedgerCapture
<1>4. PinnedSurvive'
  BY <1>1, PinsDispatch
<1>5. /\ UNCHANGED <<worker, todo, hand, runs, snapshots, live, binding, triggerReservations>>
      /\ step[p] = "idle" /\ step' = [step EXCEPT ![p] = "captured"]
  BY DEF Capture, workerVars, ownedVars
<1>6. /\ prep'[p].backend \in Backends
      /\ \A q \in Slots \ {p} : SameRequest(q) /\ SameReserved(q)
  BY PrepOfCapture, PrepUnchanged
<1>7. SlotInv'
  BY <1>5, <1>6, SlotsMove
<1>8. RunInv'
  BY <1>5, <1>6, RunsMove
<1>9. \A q \in Slots : step[q] = "started" => q # p /\ step'[q] = "started" /\ SameRequest(q)
  BY <1>5, <1>6 DEF TypeOK
<1>10. EventInv'
  BY <1>5, <1>9, EventsStay
<1> QED BY <1>1, <1>2, <1>3, <1>4, <1>7, <1>8, <1>10, PartsNext

LEMMA InvCompute ==
    ASSUME IInv, NEW p \in Slots, Compute(p)
    PROVE  IInv'
<1> USE Parts
<1>1. /\ UNCHANGED <<worker, todo, hand, runs, snapshots, live, binding>>
      /\ step[p] = "captured" /\ step' = [step EXCEPT ![p] = "computed"]
  BY DEF Compute, workerVars
<1>2. prep[p].backend \in Backends
  BY <1>1 DEF SlotInv
<1>3. /\ prep' = [prep EXCEPT ![p] = prep'[p]] /\ prep'[p].backend = prep[p].backend
      /\ triggerReservations' = triggerReservations \/ triggerReservations' = {p}
  BY <1>2, Computed
<1>4. TypeOK'
  BY <1>2, TypesCompute
<1>5. \A q \in Slots : Promises(q)'
  BY <1>2, PromisesCompute
<1>6. Ledger'
  BY <1>2, LedgerCompute
<1>7. PinnedSurvive'
  BY <1>2, <1>4, PinsDispatch
<1>8. \A q \in Slots \ {p} : prep'[q] = prep[q]
  BY <1>3 DEF TypeOK
<1>9. \A q \in Slots \ {p} : SameRequest(q) /\ SameReserved(q)
  BY <1>8, PrepUnchanged
<1>10. SlotInv'
  BY <1>1, <1>2, <1>3, <1>9, SlotsMove
<1>11. RunInv'
  BY <1>1, <1>3, <1>9, RunsMove
<1>12. \A q \in Slots : step[q] = "started" => q # p /\ step'[q] = "started" /\ SameRequest(q)
  BY <1>1, <1>9 DEF TypeOK
<1>13. EventInv'
  BY <1>1, <1>12, EventsStay
<1> QED BY <1>4, <1>5, <1>6, <1>7, <1>10, <1>11, <1>13, PartsNext

LEMMA InvRegisterClaim ==
    ASSUME IInv, NEW p \in Slots, Register(p) \/ Claim(p)
    PROVE  IInv'
<1> USE Parts
<1>1. /\ UNCHANGED <<worker, todo, hand, runs, snapshots, live, binding>>
      /\ step[p] \in {"computed", "registered"}
      /\ \E s \in {"registered", "claimed"} : step' = [step EXCEPT ![p] = s]
      /\ triggerReservations' \subseteq triggerReservations
  BY DEF Register, Claim, workerVars, ownedVars
<1>2. prep[p].backend \in Backends
  BY <1>1 DEF SlotInv
<1>3. \A q \in Slots : SameRequest(q) /\ SameReserved(q)
  BY PrepOfRegister, PrepOfClaim
<1>4. TypeOK'
  BY <1>2, TypesRegister, TypesOfDispatch
<1>5. \A q \in Slots : Promises(q)'
  BY PromisesRegister, PromisesClaimReserve
<1>6. Ledger'
  BY LedgerAdvance
<1>7. PinnedSurvive'
  BY <1>4, PinsRegister, PinsDispatch
<1>8. SlotInv'
  <2>1. prep'[p].backend \in Backends
    BY <1>2, <1>3 DEF SameRequest
  <2> QED BY <1>1, <1>3, <2>1, SlotsMove
<1>9. RunInv'
  BY <1>1, <1>3, RunsMove
<1>10. \A q \in Slots : step[q] = "started" => step'[q] = "started"
  BY <1>1 DEF TypeOK
<1>11. EventInv'
  BY <1>1, <1>3, <1>10, EventsStay
<1> QED BY <1>4, <1>5, <1>6, <1>7, <1>8, <1>9, <1>11, PartsNext

LEMMA InvReserve ==
    ASSUME IInv, NEW p \in Slots, Reserve(p)
    PROVE  IInv'
<1> USE Parts
<1>1. /\ UNCHANGED <<worker, hand, runs, snapshots, live, binding, triggerReservations>>
      /\ step[p] = "claimed" /\ step' = [step EXCEPT ![p] = "reserved"]
  BY DEF Reserve, workerVars, ownedVars
<1>2. prep[p].backend \in Backends
  BY <1>1 DEF SlotInv
<1>3. \A q \in Slots : SameRequest(q)
  BY PrepOfReserve
<1>4. TypeOK'
  BY <1>2, TypesOfDispatch
<1>5. \A q \in Slots : Promises(q)'
  BY PromisesClaimReserve
<1>6. Ledger'
  BY LedgerAdvance
<1>7. PinnedSurvive'
  BY <1>4, PinsDispatch
<1>8. SlotInv'
  BY <1>1, SlotsAdvance
<1>9. RunInv'
  BY <1>1, <1>3, RunsMove
<1>10. \A q \in Slots : step[q] = "started" => step'[q] = "started"
  BY <1>1 DEF TypeOK
<1>11. EventInv'
  BY <1>1, <1>3, <1>10, EventsStay
<1> QED BY <1>4, <1>5, <1>6, <1>7, <1>8, <1>9, <1>11, PartsNext

LEMMA InvAccept ==
    ASSUME IInv, NEW p \in Slots, AcceptWarm(p) \/ AcceptCold(p)
    PROVE  IInv'
<1> USE Parts
<1>1. step[p] = "reserved" /\ UNCHANGED hand
  BY DEF AcceptWarm, AcceptCold, Acceptable
<1>2. prep[p].backend \in Backends
  BY <1>1 DEF SlotInv
<1>3. TypeOK'
  BY <1>2, TypesAccept
<1>4. \A q \in Slots : Promises(q)'
  BY PromisesAccept
<1>5. Ledger'
  BY LedgerAcceptWarm, LedgerAcceptCold
<1>6. PinnedSurvive'
  BY <1>3, PinsAccept DEF Promises
<1>7. SlotInv'
  BY <1>1, SlotsAdvance
<1>8. RunInv'
  BY RunsAccept
<1>9. EventInv'
  BY EventsAccept
<1> QED BY <1>3, <1>4, <1>5, <1>6, <1>7, <1>8, <1>9, PartsNext

LEMMA InvStart ==
    ASSUME IInv, NEW p \in Slots, Start(p)
    PROVE  IInv'
<1> USE Parts
<1>1. /\ UNCHANGED <<prep, hand, runs, snapshots, live, binding, triggerReservations>>
      /\ step[p] = "accepted" /\ step' = [step EXCEPT ![p] = "started"]
      /\ worker' = [worker EXCEPT ![p] = "running"]
  BY DEF Start, ownedVars
<1>2. prep[p].backend \in Backends
  BY <1>1 DEF SlotInv
<1>3. \A q \in Slots : SameRequest(q)
  BY <1>1, PrepUnchanged
<1>4. TypeOK'
  BY <1>2, TypesOfDispatch
<1>5. \A q \in Slots : Promises(q)'
  BY PromisesOtherSteps
<1>6. Ledger'
  BY LedgerAdvance
<1>7. PinnedSurvive'
  BY <1>4, PinsDispatch
<1>8. SlotInv'
  BY <1>1, SlotsAdvance
<1>9. RunInv'
  BY <1>1 DEF RunInv, TypeOK, Decided
<1>10. \A q \in Slots : step[q] = "started" => step'[q] = "started" /\ worker'[q] = worker[q]
  BY <1>1 DEF TypeOK
<1>11. EventInv'
  BY <1>1, <1>3, <1>10, EventsStay
<1> QED BY <1>4, <1>5, <1>6, <1>7, <1>8, <1>9, <1>11, PartsNext

LEMMA InvAbandon ==
    ASSUME IInv, NEW p \in Slots, Abandon(p)
    PROVE  IInv'
<1> USE Parts
<1>1. /\ UNCHANGED <<worker, todo, hand, snapshots, live, binding>>
      /\ step[p] # "started" /\ step' = [step EXCEPT ![p] = "idle"]
      /\ prep' = [prep EXCEPT ![p] = Blank] /\ runs' = [runs EXCEPT ![p] = None]
      /\ triggerReservations' = triggerReservations \ {p}
  BY DEF Abandon, ReleaseTrigger, workerVars
<1>2. TypeOK'
  BY TypesAbandon
<1>3. \A q \in Slots : Promises(q)'
  BY PromisesOtherSteps
<1>4. Ledger'
  BY LedgerAbandon
<1>5. PinnedSurvive'
  BY <1>2, PinsDispatch
<1>6. \A q \in Slots \ {p} : prep'[q] = prep[q] /\ step'[q] = step[q] /\ runs'[q] = runs[q]
  BY <1>1 DEF TypeOK
<1>7. \A q \in Slots \ {p} : SameRequest(q) /\ SameReserved(q)
  BY <1>6, PrepUnchanged
<1>8. SlotInv'
  BY <1>1, <1>7, SlotsMove
<1>9. RunInv'
  <2>1. runs'[p] = None /\ step'[p] = "idle" /\ p \notin triggerReservations'
    BY <1>1 DEF TypeOK
  <2> QED BY <1>1, <1>6, <2>1 DEF RunInv, Decided
<1>10. \A q \in Slots : step[q] = "started" =>
            /\ q # p /\ step'[q] = "started" /\ SameRequest(q)
            /\ runs'[q] # None => runs[q] # None
  BY <1>1, <1>6, <1>7
<1>11. EventInv'
  BY <1>1, <1>10, EventsStay
<1> QED BY <1>2, <1>3, <1>4, <1>5, <1>8, <1>9, <1>11, PartsNext

LEMMA InvObserve ==
    ASSUME IInv, NEW p \in Slots, NEW root \in Nodes, NEW n \in Nodes, Observe(p, root, n)
    PROVE  IInv'
<1> USE Parts
<1>1. UNCHANGED <<step, worker, todo, hand, snapshots, live, binding, triggerReservations>>
  BY DEF Observe, workerVars
<1>2. \A q \in Slots : SameRequest(q) /\ SameReserved(q)
  BY PrepOfObserve
<1>3. SameRuns
  BY RunsOfObserve
<1>4. TypeOK'
  BY TypesObserve
<1>5. \A q \in Slots : Promises(q)'
  BY PromisesOtherSteps
<1>6. Ledger'
  BY LedgerObserve
<1>7. PinnedSurvive'
  BY <1>4, PinsOthers
<1>8. SlotInv'
  BY <1>1, <1>2, SlotsStay
<1>9. RunInv'
  BY <1>1, <1>2, <1>3, RunsQuiet
<1>10. EventInv'
  BY <1>1, <1>2, <1>3, EventsStay DEF SameRuns
<1> QED BY <1>4, <1>5, <1>6, <1>7, <1>8, <1>9, <1>10, PartsNext

LEMMA InvWorker ==
    ASSUME IInv, NEW b \in Backends, Spawn(b) \/ Lose(b)
    PROVE  IInv'
<1> USE Parts
<1>1. UNCHANGED <<step, prep, runs, worker, todo, hand, snapshots, triggerReservations>>
  BY DEF Spawn, Lose, ownedVars
<1>2. \A q \in Slots : SameRequest(q) /\ SameReserved(q)
  BY <1>1, PrepUnchanged
<1>3. TypeOK'
  BY TypesWorker
<1>4. \A q \in Slots : Promises(q)'
  BY PromisesOtherSteps
<1>5. Ledger'
  BY LedgerWorker
<1>6. PinnedSurvive'
  BY <1>3, PinsOthers
<1>7. SlotInv'
  BY <1>1, <1>2, SlotsStay
<1>8. RunInv'
  BY <1>1, <1>2, RunsQuiet, RunsStay
<1>9. EventInv'
  BY EventsWorker
<1> QED BY <1>3, <1>4, <1>5, <1>6, <1>7, <1>8, <1>9, PartsNext

LEMMA InvListener ==
    ASSUME IInv, NEW b \in Backends, Receive(b) \/ Handle(b)
    PROVE  IInv'
<1>0. /\ TypeOK /\ (\A q \in Slots : Promises(q)) /\ Ledger /\ PinnedSurvive
      /\ SlotInv /\ RunInv /\ EventInv /\ LinkInv /\ CaptureInv /\ DecisionInv
  BY Parts DEF Ledger, IInv
<1>1. TypeOK'
  BY <1>0, TypesReceive, TypesHandle
<1>2. \A q \in Slots : Promises(q)'
  BY <1>0, PromisesListener
<1>3. Ledger'
  BY <1>0, LedgerReceive, LedgerHandle
<1>4. PinnedSurvive'
  BY <1>0, <1>1, PinsOthers, PinsHandle
<1>5. SlotInv'
  BY <1>0, SlotsReceive, SlotsHandle
<1>6. RunInv'
  BY <1>0, RunsReceive, RunsHandle
<1>7. EventInv'
  BY <1>0, EventsReceive, EventsHandle
<1> QED BY <1>1, <1>2, <1>3, <1>4, <1>5, <1>6, <1>7, PartsNext

LEMMA InvNext == IInv /\ [Next]_vars => IInv'
<1> SUFFICES ASSUME IInv, [Next]_vars PROVE IInv'
  OBVIOUS
<1>1. ASSUME NEW n \in Nodes, NEW content \in Contents \union {Gone}, Edit(n, content)
      PROVE  IInv'
  BY <1>1, InvEdit
<1>2. ASSUME NEW g \in [Nodes -> Contents], ResetProject(g) PROVE IInv'
  BY <1>2, InvResetProject
<1>3. ASSUME NEW p \in Slots, Dispatch(p) PROVE IInv'
  BY <1>3, InvCapture, InvCompute, InvRegisterClaim, InvReserve, InvAccept, InvStart,
     InvAbandon DEF Dispatch
<1>4. ASSUME NEW p \in Slots, NEW root \in Nodes, NEW n \in Nodes, Observe(p, root, n)
      PROVE  IInv'
  BY <1>4, InvObserve
<1>5. ASSUME NEW b \in Backends, Spawn(b) \/ Receive(b) \/ Handle(b) \/ Lose(b)
      PROVE  IInv'
  BY <1>5, InvWorker, InvListener
<1>6. CASE UNCHANGED vars
  BY <1>6 DEF vars, solutionVars, ownedVars, workerVars, IInv, TypeOK, PinnedSurvive, Recorded,
     RevisionInv, RevisionOf, Trusted, CaptureInv, CaptureOf, Same, FactInv, FactHolds, InputsOf,
     BeforeInv, BeforeHolds, DecisionInv, DecisionOf, Decided, Accepted, LinkInv, LinkRecords,
     LinkFact, LinkPrep, Key, LinkRun, SlotInv, Busy, Ending, RunInv, EventInv
<1> QED BY <1>1, <1>2, <1>3, <1>4, <1>5, <1>6 DEF Next

LEMMA Invariant == Spec => []IInv
BY InvInit, InvNext, PTL DEF Spec

---------------------------------------------------------------------------
(* The theorems.                                                           *)

(* Every variable of the store and of the runtime that drives it keeps its *)
(* type, and a preparation is registered only while its thread dispatches  *)
(* it.                                                                     *)
THEOREM Types == Spec => []TypeOK
<1>1. IInv => TypeOK
  BY DEF IInv
<1> QED BY <1>1, Invariant, PTL

(* No interleaving of edits, project resets, submissions, failed starts    *)
(* and late results leaves a fact CURRENT for contents that have changed:  *)
(* what captured_revision and _restore_failed_start_locked compare is      *)
(* enough.                                                                 *)
THEOREM CurrentOfGraph == Spec => []CurrentIsOfGraph
<1>1. IInv => CurrentIsOfGraph
  BY DEF IInv, FactInv, FactHolds, InputsOf, CurrentIsOfGraph
<1> QED BY <1>1, Invariant, PTL

(* _enforce_record_limits_locked, invalidation and the change of a         *)
(* generation take no record from a preparation or a run that counts on    *)
(* it.                                                                     *)
THEOREM PinnedStay == Spec => []PinnedSurvive
<1>1. IInv => PinnedSurvive
  BY DEF IInv
<1> QED BY <1>1, Invariant, PTL

(* However a submission ends, it leaves no preparation, no run and no      *)
(* reservation, and at most one submission reserves the trigger.           *)
THEOREM OverHoldsNothing == Spec => []NothingOutlives
<1>1. IInv => NothingOutlives
  <2> SUFFICES ASSUME IInv PROVE NothingOutlives
    OBVIOUS
  <2>1. TypeOK /\ RunInv
    BY DEF IInv
  <2>2. ASSUME NEW p \in Slots, step[p] = "idle"
        PROVE  p \notin preparations \union triggerReservations /\ runs[p] = None
    BY <2>1, <2>2 DEF TypeOK, RunInv, Decided
  <2>3. Cardinality(triggerReservations) <= 1
    <3>1. \A p, q \in triggerReservations : p = q
      BY <2>1 DEF RunInv
    <3>2. CASE triggerReservations = {}
      BY <3>2, FS_EmptySet
    <3>3. ASSUME NEW p \in triggerReservations PROVE Cardinality(triggerReservations) <= 1
      <4>1. triggerReservations = {p}
        BY <3>1
      <4>2. Cardinality({p}) = 1
        BY FS_Singleton
      <4> QED BY <4>1, <4>2
    <3> QED BY <3>2, <3>3
  <2> QED BY <2>2, <2>3 DEF NothingOutlives
<1> QED BY <1>1, Invariant, PTL
---------------------------------------------------------------------------
(* A single backend: the records of CURRENT facts.                         *)

Retention == Keyed /\ Retained /\ Recoverable

(* The record of a fact that is of the graph as it is is one of its node.  *)
LEMMA NodeOfRecord ==
    ASSUME Keyed, NEW n \in Nodes, NEW r \in records, r \in Records,
           r.key.inputs = InputsOf(graph, n)
    PROVE  r.node = n
<1>1. r.node \in Nodes /\ Above[r.node] = Above[n]
  BY DEF Keyed, InputsOf, Records
<1>2. n \in Above[n] /\ r.node \in Above[r.node]
  BY <1>1, StoreAssumption
<1> QED BY <1>1, <1>2, StoreAssumption

(* A step that writes no record and makes nothing CURRENT or restorable.   *)
LEMMA RetentionKept ==
    ASSUME Retention, UNCHANGED records,
           \A n \in Nodes : facts'[n] = facts[n] \/ Spent(n),
           \A q \in Slots : step'[q] = "accepted" => step[q] = "accepted" /\ SameBefore(q)
    PROVE  Retention'
<1>1. Keyed'
  BY DEF Retention, Keyed
<1>2. ASSUME NEW n \in Nodes, facts'[n] # facts[n]
      PROVE  /\ facts'[n].fresh # "current"
             /\ ~(facts'[n].fresh = "expired" /\ facts'[n].why = "recompute")
  BY <1>2 DEF Spent
<1>3. Retained'
  BY <1>2 DEF Retention, Retained, Recorded, RecordedNext
<1>4. Recoverable'
  <2> SUFFICES ASSUME NEW q \in Slots, NEW n \in Nodes, step'[q] = "accepted", Restorable(q, n)'
               PROVE  RecordedNext(runs'[q].before[n].rec)
    BY DEF Recoverable, Recorded, RecordedNext
  <2>1. facts'[n] = facts[n]
    BY <1>2 DEF Restorable
  <2>2. step[q] = "accepted" /\ runs[q] # None /\ runs'[q].before = runs[q].before
    BY DEF Restorable, SameBefore
  <2>3. Restorable(q, n)
    BY <2>1, <2>2 DEF Restorable
  <2> QED BY <2>2, <2>3 DEF Retention, Recoverable, Recorded, RecordedNext
<1> QED BY <1>1, <1>3, <1>4 DEF Retention

(* A step that leaves no record and nothing that counts on one.            *)
LEMMA RetentionOver ==
    ASSUME records' = {}, \A n \in Nodes : facts'[n].fresh # "current",
           \A q \in Slots : runs'[q] # None => \A n \in Nodes : runs'[q].before[n] = Never
    PROVE  Retention'
BY DEF Retention, Keyed, Retained, Recoverable, Restorable

(* Where there is one backend, one submission is between its acceptance    *)
(* and its start, and nothing else is accepted or settles meanwhile.       *)
LEMMA OneAtATime ==
    ASSUME \A b, c \in Backends : b = c, SlotInv, NEW p \in Slots, NEW q \in Slots,
           Busy(p), step[q] = "accepted"
    PROVE  p = q
<1>1. step[p] # "idle" /\ step[q] # "idle" /\ Busy(q)
  BY DEF SlotInv, Busy
<1>2. prep[p].backend = prep[q].backend
  BY <1>1 DEF SlotInv
<1> QED BY <1>1, <1>2 DEF SlotInv

LEMMA RetentionEdit ==
    ASSUME IInv, Retention, NEW n \in Nodes, NEW content \in Contents \union {Gone},
           Edit(n, content)
    PROVE  Retention'
<1> DEFINE lost == {r \in records : content = Gone /\ r.node = n}
<1>1. TypeOK /\ FactInv /\ BeforeInv /\ LinkInv
  BY DEF IInv
<1>2. records' = records \ lost /\ UNCHANGED step /\ records \subseteq Records
  BY <1>1 DEF Edit, TypeOK
<1>3. \A q \in Slots : SameBefore(q)
  BY <1>1, RunsOfEdit DEF SameBefore
<1>4. ASSUME NEW m \in Nodes
      PROVE  Spent(m) \/ (facts'[m] = facts[m] /\ ~(m = n /\ content = Gone))
  <2>1. CASE m \in Affected(n, content)
    <3>1. facts'[m] = Expired(m, nodeRevisions[m] + 1) /\ nodeRevisions[m] + 1 \in Nat
      BY <1>1, <2>1 DEF Edit, TypeOK
    <3> QED BY <1>1, <3>1, ExpiredFact DEF Spent
  <2>2. CASE m \notin Affected(n, content) /\ m = n /\ content = Gone
    <3>1. facts'[m] = Never
      BY <2>2 DEF Edit
    <3> QED BY <3>1, NeverIs DEF Spent
  <2>3. CASE m \notin Affected(n, content) /\ ~(m = n /\ content = Gone)
    BY <2>3 DEF Edit
  <2> QED BY <2>1, <2>2, <2>3
<1>5. ASSUME NEW m \in Nodes, ~(m = n /\ content = Gone), NEW s, Recorded(s),
             \A r \in records : r.seq = s => r.key.inputs = InputsOf(graph, m)
      PROVE  RecordedNext(s)
  <2>1. PICK r \in records : r.seq = s
    BY <1>5 DEF Recorded, RecordedNext
  <2>2. r.node = m
    BY <1>2, <1>5, <2>1, NodeOfRecord DEF Retention
  <2> QED BY <1>2, <1>5, <2>1, <2>2 DEF Recorded, RecordedNext
<1>6. Keyed'
  BY <1>2 DEF Retention, Keyed
<1>7. Retained'
  <2> SUFFICES ASSUME NEW m \in Nodes, facts'[m].fresh = "current"
               PROVE  RecordedNext(facts'[m].rec)
    BY DEF Retained, Recorded, RecordedNext
  <2>1. facts'[m] = facts[m] /\ ~(m = n /\ content = Gone)
    BY <1>4 DEF Spent
  <2>2. Recorded(facts[m].rec)
    BY <2>1 DEF Retention, Retained
  <2>3. \A r \in records : r.seq = facts[m].rec => r.key.inputs = InputsOf(graph, m)
    BY <1>1, <2>1 DEF FactInv, FactHolds, LinkInv, LinkFact
  <2> QED BY <1>5, <2>1, <2>2, <2>3 DEF Recorded, RecordedNext
<1>8. Recoverable'
  <2> SUFFICES ASSUME NEW q \in Slots, NEW m \in Nodes, step'[q] = "accepted", Restorable(q, m)'
               PROVE  RecordedNext(runs'[q].before[m].rec)
    BY DEF Recoverable, Recorded, RecordedNext
  <2>1. facts'[m] = facts[m] /\ ~(m = n /\ content = Gone)
    BY <1>4 DEF Spent, Restorable
  <2>2. step[q] = "accepted" /\ runs[q] # None /\ runs'[q].before = runs[q].before
    BY <1>2, <1>3 DEF Restorable, SameBefore
  <2>3. Restorable(q, m)
    BY <2>1, <2>2 DEF Restorable
  <2>4. Recorded(runs[q].before[m].rec)
    BY <2>2, <2>3 DEF Retention, Recoverable
  <2>5. runs[q].before[m].rev = nodeRevisions[m]
    BY <1>1, <2>3 DEF Restorable, FactInv, FactHolds
  <2>6. \A r \in records : r.seq = runs[q].before[m].rec => r.key.inputs = InputsOf(graph, m)
    BY <1>1, <2>3, <2>5 DEF Restorable, BeforeInv, BeforeHolds, LinkInv, LinkRun
  <2> QED BY <1>5, <2>1, <2>2, <2>4, <2>6 DEF Recorded, RecordedNext
<1> QED BY <1>6, <1>7, <1>8 DEF Retention

LEMMA RetentionDispatch ==
    ASSUME IInv, Retention, NEW p \in Slots,
           \/ \E b \in Backends : Capture(p, b)
           \/ Compute(p) \/ Register(p) \/ Claim(p) \/ Reserve(p) \/ Start(p)
    PROVE  Retention'
<1>1. /\ UNCHANGED <<facts, records, runs>>
      /\ \E s : s # "accepted" /\ step' = [step EXCEPT ![p] = s]
  BY DEF Capture, Compute, Register, Claim, Reserve, Start, solutionVars, ownedVars
<1>2. \A q \in Slots : step'[q] = "accepted" => step[q] = "accepted" /\ SameBefore(q)
  BY <1>1 DEF SameBefore, IInv, TypeOK
<1> QED BY <1>1, <1>2, RetentionKept

LEMMA RetentionAcceptWarm ==
    ASSUME \A b, c \in Backends : b = c, IInv, Retention, NEW p \in Slots, AcceptWarm(p)
    PROVE  Retention'
<1> DEFINE dirty == {n \in Executing(prep[p].action) : facts[n].fresh = "current"}
           before == [n \in Nodes |-> IF n \in dirty THEN facts[n] ELSE Never]
<1>1. TypeOK /\ SlotInv
  BY DEF IInv
<1>2. /\ UNCHANGED records /\ step[p] = "reserved" /\ step' = [step EXCEPT ![p] = "accepted"]
      /\ runs' = [runs EXCEPT ![p] = Entry(p, before)]
  BY DEF AcceptWarm, Acceptable
<1>3. ASSUME NEW q \in Slots, step'[q] = "accepted" PROVE q = p
  BY <1>1, <1>2, <1>3, OneAtATime DEF Busy, TypeOK
<1>4. runs'[p].before = before
  BY <1>1, <1>2 DEF Entry, TypeOK
<1>5. ASSUME NEW n \in Nodes, facts'[n].fresh = "current" PROVE facts'[n] = facts[n]
  <2>1. CASE n \in dirty
    <3>1. facts'[n] = [facts[n] EXCEPT !.fresh = "expired", !.why = "recompute"]
      BY <2>1 DEF AcceptWarm
    <3>2. facts[n] \in Facts /\ facts[n].fresh = "current"
      BY <1>1, <2>1 DEF TypeOK
    <3> QED BY <1>5, <3>1, <3>2, DirtyFact
  <2>2. CASE n \notin dirty
    BY <2>2 DEF AcceptWarm
  <2> QED BY <2>1, <2>2
<1>6. Keyed' /\ Retained'
  BY <1>2, <1>5 DEF Retention, Keyed, Retained, Recorded, RecordedNext
<1>7. ASSUME NEW n \in Nodes, runs'[p].before[n] # Never
      PROVE  RecordedNext(runs'[p].before[n].rec)
  <2>1. n \in dirty /\ runs'[p].before[n] = facts[n]
    BY <1>4, <1>7
  <2> QED BY <1>2, <2>1 DEF Retention, Retained, Recorded, RecordedNext
<1>8. Recoverable'
  BY <1>3, <1>7 DEF Recoverable, Restorable, Recorded, RecordedNext
<1> QED BY <1>6, <1>8 DEF Retention

LEMMA RetentionResets ==
    ASSUME TypeOK,
           \/ \E g \in [Nodes -> Contents] : ResetProject(g)
           \/ \E p \in Slots : AcceptCold(p)
           \/ ResetGeneration
    PROVE  Retention'
<1>1. /\ records' = {}
      /\ (\A n \in Nodes : facts'[n] = Never) \/ facts' = FactsAfterReset
  BY DEF ResetProject, AcceptCold, ResetGeneration
<1>2. \A n \in Nodes : facts'[n].fresh # "current"
  BY <1>1, NeverIs, ResetFacts
<1>3. ASSUME NEW q \in Slots, runs'[q] # None, NEW n \in Nodes PROVE runs'[q].before[n] = Never
  <2>1. PICK p \in Slots :
            runs' = [o \in Slots |-> IF o = p THEN Entry(p, [k \in Nodes |-> Never]) ELSE None]
    BY <1>3 DEF ResetProject, AcceptCold, ResetGeneration
  <2> QED BY <1>3, <2>1 DEF Entry
<1> QED BY <1>1, <1>2, <1>3, RetentionOver

(* What a failed start gives back was CURRENT when the run was accepted,   *)
(* and nothing has settled since.                                          *)
LEMMA RetentionAbandon ==
    ASSUME \A b, c \in Backends : b = c, IInv, Retention, NEW p \in Slots, Abandon(p)
    PROVE  Retention'
<1>1. TypeOK /\ SlotInv /\ RunInv
  BY DEF IInv
<1>2. /\ UNCHANGED records /\ step[p] # "started" /\ step' = [step EXCEPT ![p] = "idle"]
      /\ runs' = [runs EXCEPT ![p] = None] /\ facts' = Restored(p)
  BY DEF Abandon
<1>3. CASE runs[p] = None
  <2>1. \A n \in Nodes : facts'[n] = facts[n]
    BY <1>2, <1>3 DEF Restored
  <2>2. \A q \in Slots : step'[q] = "accepted" => step[q] = "accepted" /\ SameBefore(q)
    BY <1>1, <1>2 DEF SameBefore, TypeOK
  <2> QED BY <1>2, <2>1, <2>2, RetentionKept
<1>4. CASE runs[p] # None
  <2>1. step[p] = "accepted"
    BY <1>1, <1>2, <1>4 DEF RunInv
  <2>2. \A q \in Slots : step'[q] # "accepted"
    BY <1>1, <1>2, <2>1, OneAtATime DEF Busy, TypeOK
  <2>3. ASSUME NEW n \in Nodes, facts'[n].fresh = "current" PROVE RecordedNext(facts'[n].rec)
    <3>1. CASE Restorable(p, n)
      <4>1. facts'[n] = runs[p].before[n]
        BY <1>2, <3>1 DEF Restored, Restorable
      <4> QED BY <1>2, <2>1, <3>1, <4>1 DEF Retention, Recoverable, Recorded, RecordedNext
    <3>2. CASE ~Restorable(p, n)
      <4>1. facts'[n] = facts[n]
        BY <1>2, <3>2 DEF Restored, Restorable
      <4> QED BY <1>2, <2>3, <4>1 DEF Retention, Retained, Recorded, RecordedNext
    <3> QED BY <3>1, <3>2
  <2> QED BY <1>2, <2>2, <2>3 DEF Retention, Keyed, Retained, Recoverable, Recorded, RecordedNext
<1> QED BY <1>3, <1>4

LEMMA RetentionObserve ==
    ASSUME IInv, Retention, NEW p \in Slots, NEW root \in Nodes, NEW n \in Nodes,
           Observe(p, root, n)
    PROVE  Retention'
<1>1. TypeOK /\ UNCHANGED <<records, step>>
  BY DEF Observe, IInv
<1>2. ASSUME NEW m \in Nodes PROVE facts'[m] = facts[m] \/ Spent(m)
  <2>1. facts'[m] = facts[m] \/ facts'[m] = Expired(m, nodeRevisions[m] + 1)
    BY DEF Observe
  <2>2. nodeRevisions[m] + 1 \in Nat
    BY <1>1 DEF TypeOK
  <2> QED BY <1>1, <2>1, <2>2, ExpiredFact DEF Spent
<1>3. \A q \in Slots : SameBefore(q)
  BY <1>1, RunsOfObserve DEF SameBefore, SameRuns
<1> QED BY <1>1, <1>2, <1>3, RetentionKept

(* A settlement evicts no record of a CURRENT fact, and comes from a run   *)
(* that has started: no start can still fail.                              *)
LEMMA RetentionHandle ==
    ASSUME \A b, c \in Backends : b = c, IInv, Retention, NEW b \in Backends, Handle(b)
    PROVE  Retention'
<1>1. /\ TypeOK /\ LinkInv /\ SlotInv /\ RunInv /\ EventInv
  BY DEF IInv
<1>2. ASSUME NEW p \in Slots, NEW n \in Nodes, HandlesResult(b, p, n) PROVE Retention'
  <2>1. /\ Settlement(p, n) /\ UNCHANGED step /\ step[p] = "started"
        /\ hand[b].kind # "ended" /\ prep[p].backend = b
    BY <1>2 DEF HandlesResult
  <2>2. Busy(p)
    BY <1>1, <2>1 DEF SlotInv, Ending, Busy
  <2>3. \A q \in Slots : step'[q] # "accepted"
    BY <1>1, <2>1, <2>2, OneAtATime
  <2> QED BY <2>1, <2>3 DEF Settlement, Retention, Recoverable
<1>3. CASE HandlesTrigger(b)
  BY <1>3, RetentionKept DEF HandlesTrigger, SameBefore
<1>4. ASSUME NEW p \in Slots, HandlesEnd(b, p) PROVE Retention'
  <2>1. \A q \in Slots : step'[q] = "accepted" => step[q] = "accepted" /\ SameBefore(q)
    BY <1>1, <1>4 DEF HandlesEnd, SameBefore, TypeOK
  <2> QED BY <1>4, <2>1, RetentionKept DEF HandlesEnd
<1> QED BY <1>1, <1>2, <1>3, <1>4, Handled

LEMMA RetentionQuiet ==
    ASSUME Retention, UNCHANGED <<facts, records, runs, step>>
    PROVE  Retention'
BY RetentionKept DEF SameBefore

LEMMA RetentionNext ==
    ASSUME \A b, c \in Backends : b = c
    PROVE  IInv /\ Retention /\ [Next]_vars => Retention'
<1> SUFFICES ASSUME IInv, Retention, [Next]_vars PROVE Retention'
  OBVIOUS
<1>1. TypeOK
  BY DEF IInv
<1>2. ASSUME NEW n \in Nodes, NEW content \in Contents \union {Gone}, Edit(n, content)
      PROVE  Retention'
  BY <1>2, RetentionEdit
<1>3. ASSUME NEW g \in [Nodes -> Contents], ResetProject(g) PROVE Retention'
  BY <1>1, <1>3, RetentionResets
<1>4. ASSUME NEW p \in Slots, Dispatch(p) PROVE Retention'
  BY <1>1, <1>4, RetentionDispatch, RetentionAcceptWarm, RetentionResets, RetentionAbandon
     DEF Dispatch
<1>5. ASSUME NEW p \in Slots, NEW root \in Nodes, NEW n \in Nodes, Observe(p, root, n)
      PROVE  Retention'
  BY <1>5, RetentionObserve
<1>6. ASSUME NEW b \in Backends, Spawn(b) \/ Lose(b) PROVE Retention'
  BY <1>6, RetentionQuiet DEF Spawn, Lose, solutionVars, ownedVars
<1>7. ASSUME NEW b \in Backends, Receive(b) PROVE Retention'
  BY <1>1, <1>7, RetentionQuiet, RetentionResets DEF Receive, solutionVars, ownedVars
<1>8. ASSUME NEW b \in Backends, Handle(b) PROVE Retention'
  BY <1>8, RetentionHandle
<1>9. CASE UNCHANGED vars
  BY <1>9, RetentionQuiet DEF vars, solutionVars, ownedVars
<1> QED BY <1>2, <1>3, <1>4, <1>5, <1>6, <1>7, <1>8, <1>9 DEF Next

(* What the invariants say of the fact and its record together.            *)
LEMMA RetentionSays == IInv /\ Retention => CurrentIsRetained
<1> SUFFICES ASSUME IInv, Retention, NEW n \in Nodes, facts[n].fresh = "current"
             PROVE  /\ Recorded(facts[n].rec)
                    /\ RecordOf(facts[n].rec).node = n
                    /\ RecordOf(facts[n].rec).key = facts[n].key
  BY DEF CurrentIsRetained
<1>1. Recorded(facts[n].rec)
  BY DEF Retention, Retained
<1>2. PICK r : r = RecordOf(facts[n].rec)
  OBVIOUS
<1>3. r \in records /\ r.seq = facts[n].rec
  BY <1>1, <1>2 DEF Recorded, RecordOf
<1>4. /\ r.key = facts[n].key /\ facts[n].key.inputs = InputsOf(graph, n)
      /\ r \in Records
  BY <1>3 DEF IInv, LinkInv, LinkFact, FactInv, FactHolds, TypeOK
<1>5. r.node = n
  BY <1>3, <1>4, NodeOfRecord DEF Retention
<1> QED BY <1>1, <1>2, <1>4, <1>5

(* "Current solution records are pinned": with a single backend a CURRENT  *)
(* fact never loses its record, whatever is evicted, reset, lost, or given *)
(* back by a start that failed.                                            *)
THEOREM CurrentKept ==
    ASSUME \A b, c \in Backends : b = c
    PROVE  Spec => []CurrentIsRetained
<1>1. Init => Retention
  BY NeverIs DEF Init, Retention, Keyed, Retained, Recoverable
<1>2. IInv /\ Retention /\ [Next]_vars => Retention'
  BY RetentionNext
<1>3. IInv /\ Retention => CurrentIsRetained
  BY RetentionSays
<1> QED BY <1>1, <1>2, <1>3, Invariant, PTL DEF Spec
============================================================================
