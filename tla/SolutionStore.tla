--------------------------- MODULE SolutionStore ---------------------------
(***************************************************************************)
(* SolutionStore (execution/solution_store.py) and the runtime that drives *)
(* it (execution/runtime.py): which results of earlier runs still stand    *)
(* for the nodes of the open graph.                                        *)
(*                                                                         *)
(* Three kinds of threads work on the store.  The GUI thread changes the   *)
(* graph and invalidates in one call, and captures submissions; threads    *)
(* that dispatch compute a preparation, register it, reserve a run, accept *)
(* it and start it; the listener of each backend hands in the events of    *)
(* its worker in two steps, because resources are validated between two    *)
(* takings of the lifecycle lock.  Every block under the lifecycle or the  *)
(* store lock is one action.                                               *)
(*                                                                         *)
(* One project with one workspace and one registry contract.  A node's     *)
(* authored content is a member of a small set; its solution key is the    *)
(* contents it is computed from and the backend.  Payloads count one each, *)
(* so that the byte limits fold into the counts.  Durable records, leases, *)
(* source bindings and the publication of results are not modelled; NEVER  *)
(* facts and absent facts are one value.                                   *)
(***************************************************************************)
EXTENDS Integers, FiniteSets

CONSTANTS
    Nodes, Inputs,    \* the graph's nodes and what feeds each directly
    Above,            \* a node and everything it is computed from
    Volatile,         \* nodes that declare solution_reuse_scope "never"
    Contents, Gone,   \* authored contents of a node; it is not in the graph
    Results,          \* settled outputs
    Modes,            \* the requests that are made, see Requests
    Slots,            \* submissions in flight
    Backends,
    None,             \* no run, event or backend
    PerNode,          \* records_per_node
    PerWorkspace,     \* records_per_workspace
    Capacity,         \* preparations_per_runtime
    MaxChanges,       \* bound on edits and project resets
    MaxGenerations,   \* bound on workers of a backend
    MaxPreparations   \* bound on submissions

Requests == {"run", "force", "target", "trigger"}

(* What the variables hold.  The fields of a preparation are those of      *)
(* Blank.                                                                  *)
Snapshots == [gen : Nat, up : BOOLEAN]
Graphs == [Nodes -> Contents \union {Gone}]
Keys == [env : Backends \union {None},
         inputs : {None} \union UNION {[Above[n] -> Contents \union {Gone}] : n \in Nodes}]
Facts == [fresh : {"never", "expired", "current"}, rec : Nat, key : Keys,
          rev : Nat, why : {"", "recompute", "other"}]
Records == [seq : Nat, node : Nodes, result : Results, key : Keys, gen : Nat]
Runs == [snapshot : Snapshots, pins : SUBSET Nat, before : [Nodes -> Facts],
         accepted : [Nodes -> Nat]]
Events == [slot : Slots \union {None},
           kind : {"settled", "reused", "trigger", "ended", "changed"},
           node : Nodes \union {None},
           result : Results \union {"failed", "accepted", None},
           tag : Snapshots, binding : Nat]
Actions == {"none", "prune", "read", "reuse", "execute"}
Submissions ==
    [backend : Backends \union {None}, binding : Nat, revision : Nat,
     adopted : Nat \union {-1}, graph : Graphs, known : [Nodes -> Nat],
     action : [Nodes -> Actions], rec : [Nodes -> Nat], rev : [Nodes -> Nat],
     snapshot : Snapshots, reserved : Snapshots, mode : Requests,
     eligible : BOOLEAN, trigger : Nat, pins : SUBSET Nat, seq : Nat]

(* No node is computed from itself: ExecutionPlan raises on a cycle, so    *)
(* what feeds a node tells it from every other, as the node_id in its      *)
(* solution identity does.                                                 *)
ASSUME StoreAssumption ==
    /\ Inputs \in [Nodes -> SUBSET Nodes] /\ Above \in [Nodes -> SUBSET Nodes]
    /\ \A n \in Nodes : Above[n] = {n} \union UNION {Above[m] : m \in Inputs[n]}
    /\ \A n, m \in Nodes : n \in Above[m] /\ m \in Above[n] => n = m
    /\ Volatile \subseteq Nodes
    /\ Gone \notin Contents
    /\ "failed" \notin Results /\ "accepted" \notin Results
    /\ Modes \subseteq Requests
    /\ None \notin Slots \union Runs \union Events
    /\ PerNode > 0 /\ PerWorkspace > 0 /\ Capacity > 0

VARIABLES
    graph,               \* authored content of each node
    facts,               \* _facts
    nodeRevisions,       \* _node_revisions
    workspaceRevision,   \* _workspace_revisions
    records,             \* _records: entries, identified by their sequence
    reuseIndex,          \* the records _reuse_index points to
    sequence,            \* _sequence
    preparations,        \* slots registered in _preparations
    runs,                \* _runs
    triggerGeneration,   \* _trigger_generations of the one trigger
    triggerReservations, \* slots owning an entry of _trigger_reservations
    binding,             \* _project_solution_binding_revision
    snapshots,           \* _generation_snapshots
    step,                \* how far the dispatching thread of a slot has come
    prep,                \* the preparation of a slot
    live,                \* generation of each backend's worker, is it up
    worker, todo,        \* the run in the worker and the nodes it has to settle
    hand,                \* the event a listener is validating
    submitted, changes   \* counted against the bounds

solutionVars == <<facts, nodeRevisions, workspaceRevision, records, reuseIndex,
                  sequence>>
ownedVars == <<preparations, runs, triggerGeneration, triggerReservations>>
workerVars == <<live, worker, todo>>
vars == <<graph, solutionVars, ownedVars, binding, snapshots, step, prep,
          workerVars, hand, submitted, changes>>

NoKey == [env |-> None, inputs |-> None]
Never == [fresh |-> "never", rec |-> 0, key |-> NoKey, rev |-> 0, why |-> ""]
NoSnapshot == [gen |-> 0, up |-> FALSE]

Key(g, b, n) == [env |-> b, inputs |-> [m \in Above[n] |-> g[m]]]
Below(n) == {m \in Nodes : n \in Above[m]}
Deterministic(n) == Above[n] \intersect Volatile = {}
Recorded(s) == \E r \in records : r.seq = s
RecordOf(s) == CHOOSE r \in records : r.seq = s
OldestOf(S) == CHOOSE p \in S : \A q \in S : prep[p].seq <= prep[q].seq

Blank == [backend |-> None, binding |-> 0, revision |-> 0, adopted |-> -1,
          graph |-> [n \in Nodes |-> Gone], known |-> [n \in Nodes |-> 0],
          action |-> [n \in Nodes |-> "none"], rec |-> [n \in Nodes |-> 0],
          rev |-> [n \in Nodes |-> 0], snapshot |-> NoSnapshot,
          reserved |-> NoSnapshot, mode |-> "run", eligible |-> FALSE,
          trigger |-> 0, pins |-> {}, seq |-> 0]

Init ==
    /\ graph \in [Nodes -> Contents]
    /\ facts = [n \in Nodes |-> Never]
    /\ nodeRevisions = [n \in Nodes |-> 0]
    /\ workspaceRevision = 0
    /\ records = {} /\ reuseIndex = {} /\ sequence = 0
    /\ preparations = {}
    /\ runs = [p \in Slots |-> None]
    /\ triggerGeneration = 0 /\ triggerReservations = {}
    /\ binding = 0
    /\ snapshots = [b \in Backends |-> NoSnapshot]
    /\ step = [p \in Slots |-> "idle"]
    /\ prep = [p \in Slots |-> Blank]
    /\ live = [b \in Backends |-> NoSnapshot]
    /\ worker = [p \in Slots |-> "none"]
    /\ todo = [p \in Slots |-> {}]
    /\ hand = [b \in Backends |-> None]
    /\ submitted = 0 /\ changes = 0

---------------------------------------------------------------------------
(* The GUI thread.                                                         *)

(* The fact of n, expired: what it retained stays with it.                 *)
Expired(n, revision) ==
    [facts[n] EXCEPT !.fresh = "expired", !.rev = revision, !.why = "other"]

(* The closure of the changed roots in the plan of the new graph.  A node  *)
(* behind one that left the graph counts as fed through it.                *)
Affected(n, content) ==
    {m \in Below(n) : IF m = n THEN content # Gone ELSE graph[m] # Gone}

(* Mutant: the runs that were accepted before keep theirs.                 *)
UnpinPreparations(seqs) ==
    /\ prep' = [p \in Slots |->
            IF p \in preparations THEN [prep[p] EXCEPT !.pins = @ \ seqs] ELSE prep[p]]
    /\ UNCHANGED runs

(* _remove_node_locked: preparations and runs lose their pins.             *)
Unpin(seqs) ==
    /\ prep' = [p \in Slots |->
            IF p \in preparations THEN [prep[p] EXCEPT !.pins = @ \ seqs] ELSE prep[p]]
    /\ runs' = [p \in Slots |->
            IF runs[p] = None THEN None ELSE [runs[p] EXCEPT !.pins = @ \ seqs]]

(* invalidate: an edit of the graph, with the invalidation the GUI thread  *)
(* calls for it; a node that leaves the graph loses its fact, its records, *)
(* and the pins on them.                                                   *)
Edit(n, content) ==
    LET lost == {r \in records : content = Gone /\ r.node = n}
        hit == Affected(n, content)
        removed == {m \in {n} : content = Gone}
    IN
    /\ changes < MaxChanges /\ changes' = changes + 1
    /\ graph[n] # content
    /\ graph' = [graph EXCEPT ![n] = content]
    /\ nodeRevisions' = [m \in Nodes |->
            nodeRevisions[m] + (IF m \in hit \union removed THEN 1 ELSE 0)]
    /\ facts' = [m \in Nodes |->
            IF m \in hit THEN Expired(m, nodeRevisions[m] + 1)
            ELSE IF m \in removed THEN Never ELSE facts[m]]
    /\ workspaceRevision' = workspaceRevision + 1
    /\ records' = records \ lost
    /\ reuseIndex' = reuseIndex \ {r.seq : r \in lost}
    /\ Unpin({r.seq : r \in lost})
    /\ UNCHANGED <<sequence, preparations, triggerGeneration,
                   triggerReservations, binding, snapshots, step, workerVars,
                   hand, submitted>>

(* reset_project_session: another graph under the same project id.         *)
ResetProject(g) ==
    /\ changes < MaxChanges /\ changes' = changes + 1
    /\ graph' = g
    /\ binding' = binding + 1
    /\ snapshots' = [b \in Backends |-> NoSnapshot]
    /\ facts' = [n \in Nodes |-> Never]
    /\ nodeRevisions' = [n \in Nodes |-> 0]
    /\ workspaceRevision' = 0
    /\ records' = {} /\ reuseIndex' = {}
    /\ preparations' = {}
    /\ runs' = [p \in Slots |-> None]
    /\ triggerGeneration' = 0 /\ triggerReservations' = {}
    /\ UNCHANGED <<sequence, step, prep, workerVars, hand, submitted>>

---------------------------------------------------------------------------
(* Preparation: capture, computation and registration.                     *)

(* capture_execution_request, capture_preparation_state.                   *)
Capture(p, b) ==
    /\ step[p] = "idle"
    /\ submitted < MaxPreparations /\ submitted' = submitted + 1
    /\ step' = [step EXCEPT ![p] = "captured"]
    /\ prep' = [prep EXCEPT ![p] = [Blank EXCEPT
            !.backend = b, !.binding = binding, !.revision = workspaceRevision,
            !.graph = graph, !.known = [n \in Nodes |-> facts[n].rec]]]
    /\ UNCHANGED <<graph, solutionVars, ownedVars, binding, snapshots,
                   workerVars, hand, changes>>

(* A worker for b: prepare_generation of the preparation, _ensure_process  *)
(* of the reservation.  The client joins the listener of the worker before *)
(* it, so what that one had to deliver has been handled.                   *)
Spawn(b) ==
    /\ ~live[b].up
    /\ \E p \in Slots : prep[p].backend = b /\ step[p] \in {"captured", "claimed"}
    /\ hand[b] = None
    /\ \A p \in Slots : prep[p].backend = b => worker[p] = "none"
    /\ snapshots[b] # [gen |-> live[b].gen, up |-> TRUE]
    /\ live' = [live EXCEPT ![b] = [gen |-> @.gen + 1, up |-> TRUE]]
    /\ UNCHANGED <<graph, solutionVars, ownedVars, binding, snapshots, step,
                   prep, worker, todo, hand, submitted, changes>>

(* What current_outputs finds readable: the CURRENT fact of this very key. *)
Readable(g, b, snapshot) ==
    {n \in Nodes :
        /\ snapshot.up
        /\ facts[n].fresh = "current" /\ facts[n].key = Key(g, b, n)
        /\ Recorded(facts[n].rec) /\ RecordOf(facts[n].rec).gen = snapshot.gen}

(* What select_record and accepted_outputs find reusable besides.          *)
Reusable(g, b, snapshot) ==
    {n \in Readable(g, b, snapshot) : Deterministic(n) /\ facts[n].rec \in reuseIndex}

(* Demand moves upstream from the targets, execution moves downstream; the *)
(* effects of a target are wanted, so it is never read.                    *)
Decides(action, g, targets, readable, reusable) ==
    \A n \in Nodes :
        LET required == \/ n \in targets
                        \/ \E m \in Nodes : n \in Inputs[m] /\ action[m] \in {"execute", "reuse"}
            tainted == \E m \in Above[n] \ {n} : action[m] = "execute"
        IN  action[n] =
                CASE g[n] = Gone -> "none"
                  [] g[n] # Gone /\ ~required -> "prune"
                  [] g[n] # Gone /\ required /\ ~tainted /\ n \in readable \ targets -> "read"
                  [] /\ g[n] # Gone /\ required /\ ~tainted
                     /\ n \in reusable \ (readable \ targets) -> "reuse"
                  [] OTHER -> "execute"

Executing(action) == {n \in Nodes : action[n] = "execute"}

(* _prepare_node_decisions: of the decisions that agree with demand and    *)
(* recomputation, the one that executes least.                             *)
Decision(g, targets, readable, reusable) ==
    LET agreeing == {a \in [Nodes -> {"none", "prune", "read", "reuse", "execute"}] :
                        Decides(a, g, targets, readable, reusable)}
    IN  CHOOSE a \in agreeing : \A other \in agreeing : Executing(a) \subseteq Executing(other)

(* prepare_execution up to registration, and PreparationService.compute.   *)
(* The kind of the request and its targets are chosen where they are used. *)
Compute(p) ==
    LET c == prep[p]
        snapshot == live[c.backend]
        present == {n \in Nodes : c.graph[n] # Gone}
    IN
    /\ step[p] = "captured"
    /\ c.binding = binding /\ c.revision = workspaceRevision
    /\ \E mode \in Modes, targets \in SUBSET present :
        LET readable == IF mode = "target" THEN Readable(c.graph, c.backend, snapshot) ELSE {}
            reusable == IF mode = "force" THEN {} ELSE Reusable(c.graph, c.backend, snapshot)
            action == Decision(c.graph, targets, readable, reusable)
            accepted == {n \in Nodes : action[n] \in {"read", "reuse"}}
        IN
        /\ IF mode = "target" THEN targets # {} ELSE targets = present
        /\ mode = "trigger" => triggerReservations = {}
        /\ triggerReservations' = triggerReservations \union {q \in {p} : mode = "trigger"}
        /\ prep' = [prep EXCEPT ![p] = [c EXCEPT
                !.action = action,
                !.rec = [n \in Nodes |-> IF n \in accepted THEN facts[n].rec ELSE 0],
                !.rev = nodeRevisions,
                !.snapshot = snapshot,
                !.eligible = snapshot.up \/ mode # "force",
                !.trigger = IF mode = "trigger" THEN triggerGeneration + 1 ELSE 0]]
    /\ step' = [step EXCEPT ![p] = "computed"]
    /\ UNCHANGED <<graph, solutionVars, preparations, runs, triggerGeneration,
                   binding, snapshots, workerVars, hand, submitted, changes>>

(* The accepted output of n is still what was captured and computed with.  *)
Observed(p, n) ==
    /\ facts[n].fresh = "current"
    /\ facts[n].rec = prep[p].rec[n]
    /\ facts[n].key = Key(prep[p].graph, prep[p].backend, n)
    /\ Recorded(prep[p].rec[n])
    /\ prep[p].known[n] = prep[p].rec[n]

Accepted(p) == {n \in Nodes : prep[p].action[n] \in {"read", "reuse"}}

(* register_preparation.                                                   *)
Register(p) ==
    LET full == Cardinality(preparations) >= Capacity
        evictable == {q \in preparations : step[q] = "registered"}
        evicted == IF full THEN {OldestOf(evictable)} ELSE {}
    IN
    /\ step[p] = "computed"
    /\ prep[p].binding = binding /\ prep[p].revision = workspaceRevision
    /\ \A n \in Accepted(p) : Observed(p, n)
    /\ full => evictable # {}
    /\ preparations' = (preparations \ evicted) \union {p}
    /\ triggerReservations' = triggerReservations \ evicted
    /\ sequence' = sequence + 1
    /\ prep' = [prep EXCEPT ![p].seq = sequence + 1,
                            ![p].pins = {prep[p].rec[n] : n \in Accepted(p)}]
    /\ step' = [step EXCEPT ![p] = "registered"]
    /\ UNCHANGED <<graph, facts, nodeRevisions, workspaceRevision, records,
                   reuseIndex, runs, triggerGeneration, binding, snapshots,
                   workerVars, hand, submitted, changes>>

---------------------------------------------------------------------------
(* dispatch_prepared.                                                      *)

(* claim_preparation, with the binding the dispatch goes by.               *)
Claim(p) ==
    /\ step[p] = "registered" /\ p \in preparations
    /\ step' = [step EXCEPT ![p] = "claimed"]
    /\ prep' = [prep EXCEPT ![p].binding = binding]
    /\ UNCHANGED <<graph, solutionVars, ownedVars, binding, snapshots,
                   workerVars, hand, submitted, changes>>

Fresh(p) == workspaceRevision \in {prep[p].revision, prep[p].adopted}

Idle(b) ==
    \A q \in Slots : prep[q].backend = b =>
        worker[q] = "none" /\ step[q] \notin {"reserved", "accepted"}

(* reserve_run and _validate_prepared_dispatch.                            *)
Reserve(p) ==
    LET snapshot == live[prep[p].backend] IN
    /\ step[p] = "claimed"
    /\ snapshot.up /\ Idle(prep[p].backend)
    /\ prep[p].snapshot.up => prep[p].snapshot = snapshot
    /\ Fresh(p)
    /\ prep' = [prep EXCEPT ![p].reserved = snapshot]
    /\ step' = [step EXCEPT ![p] = "reserved"]
    /\ UNCHANGED <<graph, solutionVars, ownedVars, binding, snapshots,
                   workerVars, hand, submitted, changes>>

(* Mutant: validate_preparation_state leaves the revision to the caller.   *)
AcceptableStale(p) ==
    /\ step[p] = "reserved" /\ prep[p].binding = binding
    /\ live[prep[p].backend] = prep[p].reserved
    /\ p \in preparations

(* The final checks under the lifecycle lock, validate_preparation_state.  *)
Acceptable(p) ==
    /\ step[p] = "reserved" /\ prep[p].binding = binding
    /\ live[prep[p].backend] = prep[p].reserved
    /\ p \in preparations
    /\ Fresh(p)

Entry(p, before) ==
    [snapshot |-> prep[p].reserved, pins |-> prep[p].pins, before |-> before,
     accepted |-> [n \in Nodes |-> 0]]

(* Mutant: the preparation is looked up instead of taken.                  *)
TakenNever(p) == preparations \union {p}

(* The preparation is taken out of _preparations.                          *)
Taken(p) == preparations \ {p}

(* consume_preparation for a preparation made with the worker up: the      *)
(* nodes to execute are expired, and what they were is kept for a start    *)
(* that fails.                                                             *)
AcceptWarm(p) ==
    LET dirty == {n \in Executing(prep[p].action) : facts[n].fresh = "current"} IN
    /\ Acceptable(p)
    /\ prep[p].snapshot.up
    /\ facts' = [n \in Nodes |->
            IF n \in dirty
            THEN [facts[n] EXCEPT !.fresh = "expired", !.why = "recompute"]
            ELSE facts[n]]
    /\ runs' = [runs EXCEPT ![p] =
            Entry(p, [n \in Nodes |-> IF n \in dirty THEN facts[n] ELSE Never])]
    /\ preparations' = Taken(p)
    /\ snapshots' = [snapshots EXCEPT ![prep[p].backend] = prep[p].reserved]
    /\ step' = [step EXCEPT ![p] = "accepted"]
    /\ UNCHANGED <<graph, nodeRevisions, workspaceRevision, records, reuseIndex,
                   sequence, triggerGeneration, triggerReservations, binding,
                   prep, workerVars, hand, submitted, changes>>

(* What a change of the generation leaves of facts and revisions.          *)
Settlements == {n \in Nodes : facts[n].fresh # "never"}
RevisionsAfterReset ==
    [n \in Nodes |-> nodeRevisions[n] + (IF n \in Settlements THEN 1 ELSE 0)]

(* Mutant: what the lost worker computed stays as it is.                   *)
FactsBeforeReset == facts

FactsAfterReset ==
    [n \in Nodes |->
        IF n \in Settlements
        THEN [Never EXCEPT !.fresh = "expired", !.rev = nodeRevisions[n] + 1, !.why = "other"]
        ELSE facts[n]]
WorkspaceAfterReset == workspaceRevision + (IF Settlements # {} THEN 1 ELSE 0)

(* A preparation made without a worker adopts the generation it caused:    *)
(* adopt_expected_generation, adopt_preparation_generation, then           *)
(* consume_preparation, which finds nothing CURRENT.                       *)
AcceptCold(p) ==
    /\ Acceptable(p)
    /\ ~prep[p].snapshot.up
    /\ facts' = FactsAfterReset /\ nodeRevisions' = RevisionsAfterReset
    /\ workspaceRevision' = WorkspaceAfterReset
    /\ records' = {} /\ reuseIndex' = {}
    /\ preparations' = {}
    /\ runs' = [q \in Slots |-> IF q = p THEN Entry(p, [n \in Nodes |-> Never]) ELSE None]
    /\ triggerGeneration' = 0
    /\ triggerReservations' = triggerReservations \intersect {p}
    /\ prep' = [prep EXCEPT ![p].rev = RevisionsAfterReset,
                            ![p].adopted = WorkspaceAfterReset]
    /\ snapshots' = [snapshots EXCEPT ![prep[p].backend] = prep[p].reserved]
    /\ step' = [step EXCEPT ![p] = "accepted"]
    /\ UNCHANGED <<graph, sequence, binding, workerVars, hand, submitted, changes>>

(* start_reserved_run: what the worker settles is what is not read.        *)
Start(p) ==
    /\ step[p] = "accepted" /\ live[prep[p].backend] = prep[p].reserved
    /\ step' = [step EXCEPT ![p] = "started"]
    /\ worker' = [worker EXCEPT ![p] = "running"]
    /\ todo' = [todo EXCEPT ![p] = {n \in Nodes : prep[p].action[n] \in {"execute", "reuse"}}]
    /\ UNCHANGED <<graph, solutionVars, ownedVars, binding, snapshots, prep,
                   live, hand, submitted, changes>>

(* _restore_failed_start_locked: facts nobody has touched since.           *)
Restored(p) ==
    [n \in Nodes |->
        IF /\ runs[p] # None /\ runs[p].before[n] # Never
           /\ facts[n].fresh = "expired" /\ facts[n].why = "recompute"
           /\ facts[n].rev = runs[p].before[n].rev
        THEN runs[p].before[n]
        ELSE facts[n]]

(* Mutant: a run that is given up keeps its trigger reservation.           *)
GiveUpReservation(p) == UNCHANGED triggerReservations

(* _release_trigger_locked.                                                *)
ReleaseTrigger(p) == triggerReservations' = triggerReservations \ {p}

(* Any step of prepare_execution and dispatch_prepared may raise or be     *)
(* cancelled: what was taken so far is given back.                         *)
Abandon(p) ==
    /\ step[p] \notin {"idle", "started"}
    /\ facts' = Restored(p)
    /\ runs' = [runs EXCEPT ![p] = None]
    /\ preparations' = preparations \ {p}
    /\ ReleaseTrigger(p)
    /\ step' = [step EXCEPT ![p] = "idle"]
    /\ prep' = [prep EXCEPT ![p] = Blank]
    /\ UNCHANGED <<graph, nodeRevisions, workspaceRevision, records, reuseIndex,
                   sequence, triggerGeneration, binding, snapshots, workerVars,
                   hand, submitted, changes>>

---------------------------------------------------------------------------
(* The worker and the listener of its backend: _handle_generation_event.   *)

Event(b, p, kind, n, result) ==
    [slot |-> p, kind |-> kind, node |-> n, result |-> result,
     tag |-> live[b], binding |-> binding]

(* What the run in the worker may report next.  A node that fails takes    *)
(* along what is computed from it; a run may be stopped at any time; all   *)
(* that is left of a run whose worker died is its failure.                 *)
RunReports(b, p) ==
    /\ prep[p].backend = b /\ worker[p] # "none"
    /\ \/ \E n \in todo[p], result \in Results \union {"failed", "accepted"} :
            LET reused == prep[p].action[n] = "reuse"
                kind == IF reused THEN "reused" ELSE "settled"
            IN
            /\ live[b].up
            /\ (Above[n] \ {n}) \intersect todo[p] = {}
            /\ reused <=> result = "accepted"
            /\ hand' = [hand EXCEPT ![b] = Event(b, p, kind, n, result)]
            /\ todo' = [todo EXCEPT ![p] =
                    @ \ (IF result = "failed" THEN Below(n) ELSE {n})]
            /\ UNCHANGED worker
       \/ /\ live[b].up /\ worker[p] = "running" /\ prep[p].trigger # 0
          /\ hand' = [hand EXCEPT ![b] = Event(b, p, "trigger", None, None)]
          /\ worker' = [worker EXCEPT ![p] = "triggered"]
          /\ UNCHANGED todo
       \/ /\ hand' = [hand EXCEPT ![b] = Event(b, p, "ended", None, None)]
          /\ worker' = [worker EXCEPT ![p] = "none"]
          /\ todo' = [todo EXCEPT ![p] = {}]

(* execution_generation_changed, when a worker was lost.                   *)
ChangeReport(b) ==
    /\ ~live[b].up /\ snapshots[b] = [gen |-> live[b].gen, up |-> TRUE]
    /\ hand' = [hand EXCEPT ![b] = Event(b, None, "changed", None, None)]
    /\ UNCHANGED <<worker, todo>>

(* reset_runtime_generation.  NEVER facts that exist have their revision   *)
(* raised as well.                                                         *)
ResetGeneration ==
    /\ \E touched \in {{}, Nodes \ Settlements} :
        nodeRevisions' = [n \in Nodes |->
            IF n \in touched THEN nodeRevisions[n] + 1 ELSE RevisionsAfterReset[n]]
    /\ facts' = FactsAfterReset
    /\ workspaceRevision' = WorkspaceAfterReset
    /\ records' = {} /\ reuseIndex' = {}
    /\ preparations' = {}
    /\ runs' = [p \in Slots |-> None]
    /\ triggerGeneration' = 0 /\ triggerReservations' = {}
    /\ UNCHANGED sequence

Known(b) == snapshots[b] \in {NoSnapshot, live[b]}

(* The first half, under the lifecycle lock: an event of another           *)
(* generation than the last known one retires all session state.           *)
Receive(b) ==
    /\ hand[b] = None
    /\ (\E p \in Slots : RunReports(b, p)) \/ ChangeReport(b)
    /\ snapshots' = [snapshots EXCEPT ![b] = live[b]]
    /\ IF Known(b)
       THEN UNCHANGED <<solutionVars, ownedVars>>
       ELSE ResetGeneration
    /\ UNCHANGED <<graph, binding, step, prep, live, submitted, changes>>

(* The event still concerns this project, generation and run.              *)
Stands(b) ==
    LET e == hand[b] IN
    /\ e.binding = binding /\ snapshots[b] = e.tag
    /\ e.slot # None /\ runs[e.slot] # None /\ runs[e.slot].snapshot = e.tag

(* captured_revision: nothing invalidated n since it was captured.         *)
Captured(p, n) == nodeRevisions[n] = prep[p].rev[n]

Established(key) == {r \in records : r.key = key /\ r.seq \in reuseIndex}

Current(n, record) ==
    [fresh |-> "current", rec |-> record.seq, key |-> record.key,
     rev |-> nodeRevisions[n], why |-> ""]

Candidate(p, n, result) ==
    [seq |-> sequence + 1, node |-> n, result |-> result,
     key |-> Key(prep[p].graph, prep[p].backend, n), gen |-> runs[p].snapshot.gen]

Session(p, n) == Deterministic(n) /\ prep[p].eligible

(* _is_record_pinned_locked: by a CURRENT fact, a preparation or a run.    *)
Pinned(s, f) ==
    \/ \E n \in Nodes : f[n].fresh = "current" /\ f[n].rec = s
    \/ \E p \in preparations : s \in prep[p].pins
    \/ \E p \in Slots : runs[p] # None /\ s \in runs[p].pins

(* _over_record_limits_locked.                                             *)
Fits(S, n) ==
    /\ Cardinality({r \in S : r.node = n}) <= PerNode
    /\ Cardinality(S) <= PerWorkspace

Oldest(S, k) == {r \in S : Cardinality({q \in S : q.seq <= r.seq}) <= k}

(* _enforce_record_limits_locked: the oldest records that are not pinned,  *)
(* of whatever node, until the candidate fits or none is left.             *)
Evicted(candidate, f) ==
    LET all == records \union {candidate}
        loose == {r \in records : ~Pinned(r.seq, f)}
        enough == {k \in 0..Cardinality(loose) : Fits(all \ Oldest(loose, k), candidate.node)}
    IN  IF enough = {} THEN loose
        ELSE Oldest(loose, CHOOSE k \in enough : \A j \in enough : k <= j)

(* _remove_record_locked on the facts.                                     *)
WithoutRecords(f, gone) ==
    [n \in Nodes |-> IF f[n].rec \in {r.seq : r \in gone}
                     THEN [f[n] EXCEPT !.rec = 0, !.key = NoKey] ELSE f[n]]

AcceptFor(p, n, s) == [runs EXCEPT ![p].accepted[n] = s]
ExpiredInPlace(n, f) == [f[n] EXCEPT !.fresh = "expired", !.rev = nodeRevisions[n], !.why = "other"]

(* A result that differs from the established one of the same key.         *)
SettleDiffers(p, n, result) ==
    /\ \E r \in Established(Key(prep[p].graph, prep[p].backend, n)) : r.result # result
    /\ facts' = [facts EXCEPT ![n] = ExpiredInPlace(n, facts)]
    /\ UNCHANGED <<records, reuseIndex, sequence, runs>>

SettleAgain(p, n, result) ==
    \E r \in Established(Key(prep[p].graph, prep[p].backend, n)) :
        /\ r.result = result
        /\ facts' = [facts EXCEPT ![n] = Current(n, r)]
        /\ runs' = AcceptFor(p, n, r.seq)
        /\ UNCHANGED <<records, reuseIndex, sequence>>

(* A new record, if the limits leave room for it.                          *)
SettleNew(p, n, result) ==
    LET new == Candidate(p, n, result)
        settled == [facts EXCEPT ![n] = Current(n, new)]
        gone == Evicted(new, settled)
        fits == Fits((records \union {new}) \ gone, n)
        kept == IF fits THEN {new} ELSE {}
    IN
    /\ Established(new.key) = {}
    /\ sequence' = sequence + 1
    /\ records' = (records \ gone) \union kept
    /\ reuseIndex' = (reuseIndex \ {r.seq : r \in gone})
                        \union {r.seq : r \in {q \in kept : Session(p, n)}}
    /\ facts' = IF fits THEN WithoutRecords(settled, gone)
                ELSE [WithoutRecords(facts, gone \ {r \in gone : r.node = n})
                        EXCEPT ![n] = ExpiredInPlace(n, facts)]
    /\ runs' = IF fits THEN AcceptFor(p, n, new.seq) ELSE runs

(* _capture_settlement_locked for an executed node.                        *)
Settled(p, n, result) ==
    IF Captured(p, n) /\ result # "failed"
    THEN \/ SettleDiffers(p, n, result)
         \/ SettleAgain(p, n, result)
         \/ SettleNew(p, n, result)
    ELSE UNCHANGED <<facts, records, reuseIndex, sequence, runs>>

(* _capture_reused_settlement_locked.                                      *)
Reused(p, n) ==
    LET s == prep[p].rec[n] IN
    /\ IF /\ Captured(p, n)
          /\ Recorded(s) /\ s \in runs[p].pins
          /\ RecordOf(s).gen = runs[p].snapshot.gen
       THEN /\ facts' = [facts EXCEPT ![n] = Current(n, RecordOf(s))]
            /\ runs' = AcceptFor(p, n, s)
       ELSE UNCHANGED <<facts, runs>>
    /\ UNCHANGED <<records, reuseIndex, sequence>>

(* _commit_trigger_locked.                                                 *)
CommitTrigger(p) ==
    /\ triggerGeneration' =
            IF p \in triggerReservations /\ prep[p].trigger = triggerGeneration + 1
            THEN prep[p].trigger ELSE triggerGeneration
    /\ triggerReservations' = triggerReservations \ {p}

(* handle_event, the second half, under the lifecycle lock again.          *)
Handle(b) ==
    LET e == hand[b]
        p == e.slot
        ends == e.kind = "ended"
    IN
    /\ hand[b] # None
    /\ hand' = [hand EXCEPT ![b] = None]
    /\ IF Stands(b)
       THEN \/ /\ e.kind = "settled" /\ Settled(p, e.node, e.result)
               /\ UNCHANGED <<triggerGeneration, triggerReservations>>
            \/ /\ e.kind = "reused" /\ Reused(p, e.node)
               /\ UNCHANGED <<triggerGeneration, triggerReservations>>
            \/ /\ e.kind = "trigger" /\ CommitTrigger(p)
               /\ UNCHANGED <<facts, records, reuseIndex, sequence, runs>>
            \/ /\ ends /\ ReleaseTrigger(p)
               /\ runs' = [runs EXCEPT ![p] = None]
               /\ UNCHANGED <<facts, records, reuseIndex, sequence, triggerGeneration>>
       ELSE UNCHANGED <<facts, records, reuseIndex, sequence, runs,
                        triggerGeneration, triggerReservations>>
    /\ step' = IF ends THEN [step EXCEPT ![p] = "idle"] ELSE step
    /\ prep' = IF ends THEN [prep EXCEPT ![p] = Blank] ELSE prep
    /\ UNCHANGED <<graph, nodeRevisions, workspaceRevision, preparations, binding,
                   snapshots, workerVars, submitted, changes>>

(* invalidate_current_observations: the node the worker executes asks for  *)
(* what the run has accepted upstream of it to be taken back.              *)
Observe(p, root, n) ==
    LET b == prep[p].backend
        closure == {m \in Below(root) : prep[p].graph[m] # Gone}
        hit == {m \in closure :
                    /\ runs[p].accepted[m] # 0
                    /\ facts[m].fresh = "current" /\ facts[m].rec = runs[p].accepted[m]}
    IN
    /\ worker[p] # "none" /\ live[b].up /\ hand[b] = None
    /\ n \in todo[p] /\ prep[p].action[n] = "execute"
    /\ (Above[n] \ {n}) \intersect todo[p] = {}
    /\ runs[p] # None /\ runs[p].snapshot = live[b]
    /\ prep[p].action[root] # "none"
    /\ n \in closure /\ runs[p].accepted[n] = 0
    /\ hit # {}
    /\ facts' = [m \in Nodes |-> IF m \in hit THEN Expired(m, nodeRevisions[m] + 1) ELSE facts[m]]
    /\ nodeRevisions' = [m \in Nodes |-> nodeRevisions[m] + (IF m \in hit THEN 1 ELSE 0)]
    /\ runs' = [runs EXCEPT ![p].accepted = [m \in Nodes |-> IF m \in hit THEN 0 ELSE @[m]]]
    /\ workspaceRevision' = workspaceRevision + 1
    /\ prep' = [prep EXCEPT ![p].adopted = workspaceRevision + 1]
    /\ UNCHANGED <<graph, records, reuseIndex, sequence, preparations,
                   triggerGeneration, triggerReservations, binding, snapshots,
                   step, workerVars, hand, submitted, changes>>

(* The worker of b dies; its listener notices with its next reports.       *)
Lose(b) ==
    /\ live[b].up /\ live[b].gen < MaxGenerations
    /\ live' = [live EXCEPT ![b].up = FALSE]
    /\ UNCHANGED <<graph, solutionVars, ownedVars, binding, snapshots, step,
                   prep, worker, todo, hand, submitted, changes>>

Dispatch(p) ==
    \/ \E b \in Backends : Capture(p, b)
    \/ Compute(p) \/ Register(p) \/ Claim(p) \/ Reserve(p)
    \/ AcceptWarm(p) \/ AcceptCold(p) \/ Start(p) \/ Abandon(p)

Next ==
    \/ \E n \in Nodes, content \in Contents \union {Gone} : Edit(n, content)
    \/ \E g \in [Nodes -> Contents] : ResetProject(g)
    \/ \E p \in Slots : Dispatch(p)
    \/ \E p \in Slots, root, n \in Nodes : Observe(p, root, n)
    \/ \E b \in Backends : Spawn(b) \/ Receive(b) \/ Handle(b) \/ Lose(b)

Spec == Init /\ [][Next]_vars

---------------------------------------------------------------------------
(* Properties                                                              *)

(* Every variable keeps its type; revisions never become negative and a    *)
(* preparation is registered only while its thread dispatches it.          *)
TypeOK ==
    /\ graph \in Graphs /\ facts \in [Nodes -> Facts]
    /\ nodeRevisions \in [Nodes -> Nat] /\ workspaceRevision \in Nat
    /\ records \subseteq Records /\ sequence \in Nat
    /\ reuseIndex \subseteq 1..sequence
    /\ \A r \in records : r.seq \in 1..sequence
    /\ \A p \in preparations : step[p] \in {"registered", "claimed", "reserved"}
    /\ preparations \subseteq Slots /\ triggerReservations \subseteq Slots
    /\ runs \in [Slots -> Runs \union {None}] /\ triggerGeneration \in Nat
    /\ binding \in Nat /\ snapshots \in [Backends -> Snapshots]
    /\ step \in [Slots -> {"idle", "captured", "computed", "registered",
                           "claimed", "reserved", "accepted", "started"}]
    /\ prep \in [Slots -> Submissions]
    /\ live \in [Backends -> Snapshots]
    /\ worker \in [Slots -> {"none", "running", "triggered"}]
    /\ todo \in [Slots -> SUBSET Nodes]
    /\ hand \in [Backends -> Events \union {None}]
    /\ submitted \in Nat /\ changes \in Nat

(* A CURRENT result is the result of the graph as it is: however edits,    *)
(* project resets, failed starts and late events interleave with a run, no *)
(* fact stays or becomes CURRENT for contents that have changed since.     *)
CurrentIsOfGraph ==
    \A n \in Nodes : facts[n].fresh = "current" =>
        /\ graph[n] # Gone
        /\ facts[n].key.inputs = [m \in Above[n] |-> graph[m]]

(* What a fact says it retains is there, for that node and key; for a      *)
(* CURRENT fact _remove_record_locked asserts it ("current solution        *)
(* records are pinned").                                                   *)
CurrentIsRetained ==
    \A n \in Nodes : facts[n].fresh = "current" =>
        /\ Recorded(facts[n].rec)
        /\ RecordOf(facts[n].rec).node = n /\ RecordOf(facts[n].rec).key = facts[n].key

(* Records that a preparation or a run counts on are not evicted.          *)
PinnedSurvive ==
    /\ \A p \in preparations : \A s \in prep[p].pins : Recorded(s)
    /\ \A p \in Slots : runs[p] # None => \A s \in runs[p].pins : Recorded(s)

(* A submission that is over leaves nothing in the store, and the trigger  *)
(* is reserved by at most one that is not.                                 *)
NothingOutlives ==
    /\ \A p \in Slots : step[p] = "idle" =>
            p \notin preparations \union triggerReservations /\ runs[p] = None
    /\ Cardinality(triggerReservations) <= 1
===========================================================================
