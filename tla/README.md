# TLA+ models of the COREX core

This directory holds TLA+ models of the COREX Node Editor: its execution core
(`ea_node_editor/execution/`) and the way a project is saved
(`ea_node_editor/persistence/` with the document service of the shell). With
them are the TLC configurations that check them on small instances, and proofs
checked by TLAPS. Paths below are relative to `ea_node_editor/`; `pc`, `cc`,
`rt`, `st`, `wr`, `vs` and `bc` abbreviate `execution/process_client.py`,
`client_common.py`, `runtime.py`, `solution_store.py`, `worker_runner.py`,
`viewer_session_service.py` and `backend_client.py`; `doc`, `life`, `art` and
`repo` abbreviate `document_io_service.py` and `session_lifecycle_service.py` in
`ui/shell/controllers/project_session_services_support/`, and
`persistence/artifact_store.py` and `solution_repository.py`.

1. [The system](#1-the-system)
2. [The modules and how they correspond to the code](#2-the-modules)
3. [The runs: what is checked, on which bounds](#3-the-runs)
4. [What is proved](#4-the-proofs)
5. [What the models showed about the code](#5-what-the-models-showed)
6. [What is not modelled, and the plan](#6-what-is-left)

## 1. The system

A user edits a graph of nodes in a Qt/QML shell and runs it. The shell never
executes a node: it talks to a `CorexRuntime`, which prepares a run against
what it already knows (the *solution store*) and hands the run to a backend, a
worker process in the normal case. The worker executes the nodes, keeps native
objects (meshes, connections, result files) in a registry of handles, and
sends events back; a listener thread per worker takes them through the client
and the runtime, which updates the store and publishes them to the shell.

```
 GUI thread ── submit / cancel / edit / close workspace / shutdown
     │
     ▼
 ExecutionSubmissionService ── one executor thread
     │  prepare_execution, dispatch_prepared
     ▼
 CorexRuntime ◄──────────────► SolutionStore (facts, records, preparations)
     │  reserve_run, start_reserved_run             ▲
     ▼                                              │ _handle_generation_event
 ExecutionBackendClient (routes)                    │
     ▼                                              │
 ProcessExecutionClient ◄── listener thread of the worker generation
     │ commands (queue)             ▲ events (queue)
     ▼                              │
 worker_main / WorkflowRunner / RunControl ── HandleRegistry, WorkerSolutionResources,
                                              ViewerSessionService
```

Saving runs on the GUI thread alone. `ProjectDocumentIOService` takes the document
from the window, `ProjectArtifactStore` copies imported files into the sidecar
directory of the document, `CorexRuntime` and `SolutionRepositoryFactory` write a
*generation* of results there, and `JsonProjectSerializer` replaces the document.
`ProjectSessionLifecycleService` writes an autosave and a session envelope beside
them, which a restart after a crash recovers.

| Component | State it keeps | Operations | What is hard about it | What makes it correct |
|---|---|---|---|---|
| Handle registry, `execution/handle_registry.py` | records with lease counts per owner scope, identity index, owner index, values being disposed, worker generation | register, lease, release, release_owner_scope, reset, bind_data_types | disposers run after the lock is dropped, may call back and may raise | indexes are exact; a value lives as long as it is leased and is disposed once, never while live |
| Process client, `pc` + `cc` | process, catalog and physical generation tokens, active and pending run, pinned contract, waiters for acknowledgements | start_run, viewer commands, retire_workspace, replace_registry, shutdown, health check, node timeout, event listener, transport abort | a lock (`_start_lock`) held across waits, a second (`_state_lock`) for single blocks, process death at any time, joins with timeouts | one worker at a time; at most one verdict per run and eventually one; no event of an old worker after its successor is installed; no admitted start is lost |
| Worker loop, `execution/worker.py`, `wr` | the command queue, the run in execution | commands between runs and during a run, run control, exit after a fatal error | the same queue is served by two loops with different answers | every command is served once |
| Submission service, `execution/submission_service.py` | handles, pending set, executor queue, closed flag | submit, cancel, cancel_pending, shutdown | cancel, edit, reset and shutdown come at any point of prepare and dispatch; each of those may raise | StopRun never precedes StartRun; a refused submission never ran; every handle resolves; every exit gives up what it took |
| Runtime facade, `rt` | lifecycle lock, binding revision, known worker generations | capture, prepare, dispatch, invalidate, reset project, event handler, shutdown | state validated under one lock and used under the next | a run is accepted only for the project and revision it was computed in |
| Solution store, `st` | facts, node and workspace revisions, records and their index, preparations, run entries, trigger reservations | register, claim, consume, release, settlement, invalidation, generation reset and adoption, eviction | results arrive for contents that have changed since; limits evict what others count on; starts that fail after acceptance | CURRENT means: the result of the graph as it is, in the known worker generation, with its record there |
| Solution resources, `execution/solution_resources.py` | worker: offers and live indices; host: offers, claims, leases | stage, claim, settle, release, retire, reset | one-way queues in both directions, commands refused, callbacks and disposers that raise | what the host keeps is alive in the worker; what it does not keep is released |
| Backend routing, `execution/backend_client.py` | reservations, run and viewer routes, generation snapshots | reserve_run, start_reserved_run, routing, generation fan-in | three clients with one contract | routes follow the worker generation |
| Preparation, `execution/preparation_service.py`, `execution_plan.py`, `compiler.py` | none of its own | compile, capture, decide | demand moves upstream, recomputation downstream | a node that reads or reuses has nothing upstream that executes |
| Generation readiness, `execution/generation_readiness.py` | one future per generation | begin, receive, retire | completion races retirement | a future completes once |
| Compiled snapshot cache, `execution/compiled_snapshot_cache.py` | LRU entries, epoch | get, clear | compiles outside the lock | no entry outlives a clear |
| Viewer sessions, `vs`, the viewer half of `cc`, the preflight in `bc` and `wr` | on both sides an epoch per workspace and per node; client: requests, listed sessions, deliveries, reservation; worker: sessions, buffered commands | open, update, query, materialize, close, invalidate, preflight of a run and its commit | commands, invalidations and commits cross on the queues; the listener commits under none of the locks a sender holds; a preflight may be given up while it is committed; worker loss | no viewer shows superseded results; both sides advance together; no live request is refused or forgotten; every dispatch settles |
| Trusted, external and stdio backends | like the process client | the same | the same with other transports | the same |
| Saving a project, `doc`, `life`, `repo`, `art`, `persistence/serializer.py`, `session_store.py`, the save protocol of `rt` | document, artifacts, records and manifest of each generation, autosave, envelope; in the window: project, dirty flag, bound generation, deferred cleanings | import, save, save as, open, autosave, close, recover | a crash or a failing call between any two steps; edits before the checks of the save token; cleanings that are retried saves later | the document on disk is complete at every moment and replaced in one step; window and autosave stay usable; a clean project equals its document; no garbage is forgotten |
| Graph, history, automation, Jupyter, shell | documents, undo stacks, one request at a time, one server | edits, undo, requests, start and stop | callbacks into the GUI thread | see the plan |

Behaviours that are hard, and where they are modelled: interleavings of
callers, listeners and workers (ProcessClient, Submission, SolutionStore);
loss of a worker at any point (ProcessClient, SolutionResources,
SolutionStore); state read under one lock and used under another (all);
partial failure of multi-step operations (Submission, SolutionResources,
SolutionStore); retention limits (SolutionStore); deadlines that race
(ProcessClient, ViewerEpochs); messages that arrive after what they are about has
moved on (ViewerEpochs, SolutionStore); crash and recovery of persistent state
(ProjectSave); retries of failed cleanings (ProjectSave). `PROJECT.json` lists each
hazard at its line.

## 2. The modules

| Module | Models | Composes with |
|---|---|---|
| `ResourceLifetime` | the abstract promise: an object lives while it is leased and is closed once | implemented by `HandleRegistry` |
| `HandleRegistry` | `execution/handle_registry.py` | `INSTANCE ResourceLifetime` with a refinement mapping |
| `HandleRegistryProofs` | proofs about it | EXTENDS `HandleRegistry` |
| `ProcessClient` | `pc` with the shared half of `cc` and the command loop of the worker | |
| `ProcessClientProofs` | proofs about it | EXTENDS `ProcessClient` |
| `Submission` | `execution/submission_service.py` with the parts of `rt` and `st` it calls | abstracts client and worker to a FIFO |
| `SubmissionProofs` | proofs about it | EXTENDS `Submission` |
| `SolutionResources` | `execution/solution_resources.py` with its carriers in `pc`, `worker.py`, `wr` | abstracts the registry to a set of leases |
| `SolutionResourcesProofs` | proofs about it | EXTENDS `SolutionResources` |
| `SolutionStore` | `st` and the locking protocol of `rt` around it | abstracts the client to worker generations |
| `SolutionStoreProofs` | proofs about it | EXTENDS `SolutionStore` |
| `AtomicSave` | the abstract promise of a save: a document is replaced as a whole by what the window shows | implemented by `ProjectSave` |
| `ProjectSave` | the save transaction of `doc`, the save side of `art`, `repo`, `rt` and `persistence/serializer.py`, autosave and recovery in `life` and `session_store.py` | `INSTANCE AtomicSave` with a refinement mapping |
| `ProjectSaveProofs` | proofs about it | EXTENDS `ProjectSave` |
| `ViewerEpochs` | the viewer half of `cc` and `pc`, the preflight in `bc` and `rt`, `vs`, and their side of `wr` and `worker.py` | abstracts the life of a process, which `ProcessClient` details, to death, detection and restart |
| `ViewerEpochsProofs` | proofs about it: types, what the client lists | EXTENDS `ViewerEpochs` |
| `ViewerAgreeProofs` | proofs about it: client and worker together | EXTENDS `ViewerEpochsProofs` |
| `MC...` | instances for TLC | |

Each variable is named for the field it models, or has that field in its
comment; each action has the name of the function it models. In general one
action is one block of code under a lock, with everything the block calls;
whatever the code does between two blocks is another action, so that other
threads come in between. `map` in `PROJECT.json` gives the lines of every
definition.

**HandleRegistry.** Every public operation holds the lock throughout and is one
action. `release`, `release_owner_scope` and `reset` detach records under the
lock; `CallDisposer` and `DisposerEnds` are the call and the return of
`record.dispose()` afterwards, so `phase[h]` goes from `live` over `detached`
and `disposing` to `gone`. A disposer may raise: explicitly disposed
(`release`) or automatically, the value is unblocked either way
(lines 515-546). Operations that raise before they change anything are not
steps.

**ProcessClient.** `pc[t]` is the place of a thread (a caller, or the listener
of a generation) between two blocks. A caller holds `_start_lock` (`startLock`)
as the code does, for everything but the gap of `start_run` between reservation
and dispatch. Workers are generations; each has a FIFO of commands and one of
events. The fatal path, the terminate and kill escalation, the joins that time
out (`stubborn`, `slow`) and the exit sentinel are modelled. Time is not:
a deadline may pass at any point once it is set.

**Submission.** `step` is the place of the executor thread; `epoch` stands for
binding revision, namespace and workspace revision together. The lifecycle lock
is explicit (`lifecycle`) only where it is held across two steps.

**SolutionResources.** `toHost` and `toWorker` are the event and the command
queue. `claimed` grows during the dispatch of an event; the settlement is sent
at its end, whatever happened (`Settle`). The start of a run is the sequence of
`dispatch_prepared` (`rt` 582-706), which one thread goes through at a time
(`submission_service.py` 138): the reservation with the retirement of the workspace
(`RetireForRun`), the acceptance under the lifecycle lock when the worker has
answered (`AcceptRun`), the write of StartRun after that lock was dropped
(`WriteStart`), and any failure or cancellation in between (`AbandonDispatch`). What
an edit or a reset gives up meanwhile (`GiveUp`) is released ahead of the
StartRun, and the worker's preflight then refuses the run (`ServeStart`);
`withdrawn` is the history of what was given up in that window. A worker that dies
in it is replaced by the pending start itself (`Respawn`). Two merges: reservation and
retirement, between which nothing is captured, are one step, and so are the
generation check of `start_reserved_run` and the write it precedes; what can come
between those is in `ProcessClient`.

**SolutionStore.** A node's authored content is one value; the solution key of a
node is the contents of everything it is computed from and its backend
(`Key`). `Edit` is an edit of the graph with the invalidation the GUI thread
makes for it in the same call. A dispatching thread's progress is `step[p]`,
from capture to start; the event handler of a backend takes two steps
(`Receive`, `Handle`), because resources are validated between its two takings
of the lifecycle lock (`rt` 1494-1553). `Decision` is the fixpoint that
`_prepare_node_decisions` computes by worklists, stated as the least one that
agrees with demand and recomputation.

**ProjectSave.** `files` is the set of files in all sidecars, each a root, a kind
(`tmp` a staged import, `man` a managed artifact, `rec` a record of a result,
`gen` the manifest of a generation) and an id; `docs[p]` is the document at a
path. The save is a sequence of actions named for its phases, `save.pc` between
them (`begun`, `artifacts`, `staged`, `committed`, `verified`, `adopted`,
`cleaning`, `persist`, `envelope`); the process may die between any two, and a
call of the operating system may fail in each (`Mishap`). Everything runs on the
GUI thread, so an edit can come in only where the code lets the event loop run,
before the two checks of the token (`Authoring`); results arrive at any time. An
entry of `pending` is one pair of `_deferred_solution_cleanup`, with the flag that
tells that its candidates are the complete list. An artifact's content does not
change, so the digest in the name of its copy is its id. `home` and `astray` are
history: an autosave that a restart pairs with the path of another project,
because the process died before the envelope was written, is astray, and the
properties exempt the project recovered from it (observation in section 5). The
tick of the autosave timer writes autosave and envelope in one step, and the
opening of a project removes the one and writes the other in one step; after a
save these are two, and in the closing of the window. `auto.newer` are the
documents the autosave is younger than. `Discard` removes it at every place where
the code does, and may fail without anybody noticing, as `discard_autosave_snapshot`
does. Closing is three steps (`Quit`, `CloseEnvelope`, `CloseAutosave`), `closing`
between them: what is staged is deleted as far as it can be, the envelope is
written or not, the autosave goes or stays; the process may die in between. `shed`
is history: the staged files a close has deleted, until they are imported again.
Whether an unsaved project is resumed without asking depends on a fingerprint in
the envelope, which is left out: a restart can always decline.

**ViewerEpochs.** Client and worker each have their epochs (`cws`, `cnode`; `wws`,
`wnode`). A viewer command is three steps (`ReadEpochs`, `Track`, `Send`) since
the listener may commit a run between any two. A prepared run goes through
`Reserve`, `Retire`, `Check`, `Ready`, `PostPrepared` (`disp.phase`); the worker
offers it (`ServeStart`), waits (`job.phase = "preflight"`), keeps the viewer
commands that come meanwhile in `buffer`, and takes the commit of the client
(`ServeCommit`), a cancel, a stop or its timeout. A direct run posts its epochs
first and commits them at the client afterwards, whatever the worker makes of it.
Any start may fail before it is offered or adopted (`StartFails`): a payload or a
catalog the worker rejects, a preparation or a validation that raises. `missed` are
the workspace epochs of direct starts that failed so. The results a session shows are
abstracted to a *stamp*: how often the client had declared results of the node
superseded when the command that filled the session was sent (`covers`). `lost`
are the requests a given-up preflight discarded, `orphaned` the nodes whose
commit the worker did not adopt. The health check is one step here; its two
blocks, and the joins and terminations, are in `ProcessClient`.

## 3. The runs

Deadlock checking is off in every run: once the bounded calls are made, nobody
has to call again and the system is at rest.

| Run | Instance | Distinct states | Shows |
|---|---|---|---|
| HandleRegistry | 3 handles, 2 values, 2 scopes, 2 contracts, 2 leases each, 1 reset | 599,240 | exact indexes, single disposal, refinement of `ResourceLifetime`, disposal completes |
| ProcessClient | 2 callers, 2 runs, 2 contracts, 1 other call, 4 generations, four sets of failures | 1,775,470 | one worker, one verdict, no lost start |
| ProcessClientLive | as above, timeouts and slow joins, starts, viewer commands, retirements | 41,017 | every dispatched start settles |
| ProcessClientPending | 1 caller, 2 runs, worker crash | counterexample | finding 1 |
| ProcessClientFatal | 1 caller, 2 runs, fatal error | counterexample | finding 2 |
| Submission | 2 submissions, 4 calls that may raise, 1 edit or reset, shutdown | 132,681 | the protocol of submission, admission, stop and shutdown |
| SolutionResources | offers of two handles and of one, 2 generations, at most 2 commands ahead of a new run, crash, refused send, callback, disposer | 1,931,488 | held outputs are backed, the others are released; what a run reads is there unless withdrawn before its start was written |
| SolutionResourcesDisposal | the same, disposer raises | counterexample | finding 3 |
| SolutionStore | 2 nodes in a chain (the lower one volatile), 2 contents, 2 results, 2 dispatching threads, 1 edit or project reset, 2 workers, 2 records, 1 preparation | 4,330,723 | CURRENT is right and retained; pins hold; nothing left over |
| SolutionStoreRestore | 2 unrelated nodes, 2 backends, room for 1 record | counterexample | finding 4 |
| ProjectSave | 2 paths, 1 node, 1 artifact, 2 results of the node (the second refers to the artifact), 3 edits, 3 saves, 2 crashes or failing calls | 9,092,132 | complete documents, usable window and autosave, honest dirty flag, no forgotten garbage, refinement of `AtomicSave` |
| ViewerEpochs | 2 nodes, 3 calls (viewer commands, invalidations, runs in any mix), 1 death of the worker | 2,172,758 | no superseded results listed or served, epochs agree, nothing waited for in vain, dispatches settle |

**Bounds and why they are enough.** Each is named in its module and appears in a
guard. Two callers (or submissions, or dispatching threads) give every pairwise
interleaving; a third would only repeat a role, since all locks are exclusive and
no code counts waiters. Two runs let a successor meet what its predecessor left.
Four generation tokens let a replacement, a crash and a respawn follow each
other. Three handles on two values let a value be shared, disposed and
registered again while another is live. Two nodes in a chain are the smallest
graph with an upstream result; one edit is enough to make each captured state
stale, and two generations to make each event late. One slot of `Capacity` lets
a second preparation evict the first. Two commands ahead of a new run
(`MaxQueue`) are the settlement or release that its retirement meets and a
retirement left by an abandoned dispatch; the code bounds them by waiting for
each answer. What the bounds do not reach: chains of
three or more nodes, more than one edit during one preparation, more than one
workspace. For `ProjectSave`, three saves are needed: one publishes a generation,
the next makes it the previous one, the third retries what was left of it,
possibly at the other path; one artifact passes through staged, managed, dropped
and deferred. Two mishaps let a cleaning fail and its retry fail as well, or a
crash follow a failure. For `ViewerEpochs`, three calls let a viewer command, an
invalidation and a run cross, or two runs and a command; one node with four calls
(4.8 million states) was checked as well, for safety alone.

**Fairness.** `ProcessClient`: a thread in a call, a listener and a worker loop
keep running, and a process told to terminate ends; no call has to be made and
no failure has to happen. A waiting thread gets `_start_lock` because the calls
that take it are bounded. `Submission`: the executor, the worker's loop and a
thread inside a call keep running; a run need not end by itself. `SolutionResources`:
worker loop, listener and abort keep going. `HandleRegistry`: a thread that
detached a record calls its disposer, and disposers return. All are weak fairness
on steps that remain enabled until taken; the code's threads do nothing
else meanwhile. `SolutionStore` and `ProjectSave` state no fairness and no
liveness: nothing in them has to happen. `ViewerEpochs`: the loop of the worker,
the listener with its health check, the thread that dispatches and the one that
delivers an invalidation keep running, the thirty seconds of a preflight pass,
and a run ends; that last one is an assumption about the nodes, not about the code.

**Premises.** Some properties are stated under a premise, since the code does not
give them without it; each case is described in section 5.
`WorkersHoldUp` (no crash, no fatal exit, no abort): `NoStartDropped`. `~revived` (no retirement was rolled back) and
not both a crash and a transport abort: `OneVerdict`. `~closedDown` (the shell has not closed the workspace):
`HeldIsBacked`, `CurrentReadable`. Not withdrawn between acceptance and StartRun: the
reads of `CurrentReadable`. No disposer raises: `ListedIsLeased`,
`LeasesEnd`. `CurrentIsRetained` is checked with one backend. `~astray`:
`WorkComplete`, `UnsavedIsDirty`. `WorkComplete` also excepts the staged files a close
has deleted (`shed`). In `ViewerEpochs`, `Accounted` and `EpochsAgree`
are about a worker that lives, and name their exceptions: `lost`, `orphaned`, and a
request tracked with epochs that a commit had overtaken. `ServedIsCurrent` excepts
nodes in `orphaned`, and a worker that has not heard of an epoch in `missed`.

## 4. The proofs

All proofs are checked by TLAPS for every value of the constants, from the
assumptions the modules name and no others, but for `CurrentKept`, which names one
more hypothesis, a single backend: `HandleAssumption`, `ResourceAssumption`
and `ClientAssumption` (special values are not members of the sets they stand apart
from, callers are no generations, bounds are numbers, every offer has a handle),
`SubmissionAssumption` (which calls may raise), `StoreAssumption` (what a node is
computed from is itself and what its inputs are computed from, without a cycle;
outcomes and missing
values are told apart; limits are positive), `SaveAssumption` (every result has a
node and a set of artifacts it refers to) and `EpochsAssumption`. TLC evaluates the
assumptions in the runs. Every property, and every inductive invariant, was
model-checked on a small instance before it was proved.

**HandleRegistryProofs.** The inductive invariant is
`IInv == TypeOK /\ IndexesExact /\ LiveIsLeased /\ DisposedOnce /\ LiveIsTyped`.
No conjunct holds by itself: a release finds the records of a scope through the
owner index, so that a live record keeps a lease depends on the index being
exact; that a value is disposed once depends on the identity index naming every
live record; and the index is exact only for records of the right type.
Initially every part is true, each action preserves it (one step per action), and
it implies the theorems:

* `TypeCorrect`, `IndexesAreExact` (`IndexesExact`), `ValuesAreDisposedOnce`
  (`DisposedOnce`);
* `RegistryKeepsLifetime`: the registry implements `ResourceLifetime`. Under the
  mapping the initial states correspond, and under the invariant every action is
  a step of the abstract specification or leaves its variables alone.

**ProcessClientProofs.** Callers, listeners and workers each keep part of the state of a
run, under two locks, and a failure of one kind takes away what another kind may rely
on. So the invariant has parts that hold always and parts that hold as long as certain
failures stay away:

    IInv == BaseInv /\ RunInv /\ FaultInv /\ ListenInv
            /\ (Calm => PendingInv) /\ (WorkersHoldUp => HeldInv /\ LoadInv)
            /\ (~revived => AcceptInv) /\ (NoCrash => FlightInv) /\ (Counted => VerdictInv)

`faults` never changes and `revived` never goes back, so a premise that holds after a
step held before it: this is what lets the parts be proved one by one (`IInvNext`).

* `BaseInv`: the types; what a caller's place says about its call (`JobInv`), that
  everybody between two blocks of a locked call holds `_start_lock` (`LockInv`), that a
  caller that found the worker dead keeps it so until it replaces it (`DeadInv`), and
  that generations are numbered in order and one to come has left no trace (`GenInv`).
  `OneWorker` is not inductive without these: the spawn of a worker is right only
  because nobody else can have replaced `_process` since the caller looked.
* `RunInv`: a run is sent once. Each is started by one caller; nothing under way or
  captured anywhere is of a run not sent yet (`SentInv`); at a worker a run is in one
  place, its start queued, served, or its end queued or taken (`PlaceInv`).
* `FaultInv`, `ListenInv`: a failure that cannot happen leaves no event; a listener that
  declares its worker dead, or clears a run, found what entitles it to.
* `PendingInv`, while there is no crash: an admitted start stays the active run until it
  is sent. With a crash it does not; that is finding 1.
* `HeldInv` and `LoadInv`, while workers hold up: an accepted worker that is gone ended
  on request, and what an alive worker has to do is the active run or it is being shut
  down. `NoStartDropped` follows: `_active_run_id` bars a second start, so two starts at
  one worker would be two active runs.
* `AcceptInv`, while no retired generation is accepted again: the accepted generation is
  the current one and was not asked to leave.
* `FlightInv`, without crashes: all that an accepted worker has queued is about the active
  run, and the last of it is the end of that run. A fatal exit is announced before it.
* `VerdictInv`, under the premise of `OneVerdict`: whoever is about to publish the end of
  a run (`Claims`) is the only one, and nobody has done so; a settled run is not active,
  was sent, and no end of it is to come from the accepted generation. A count of
  verdicts says nothing about the next one; the claims do.

Theorems: `Types` (`TypeOK`), `WorkerIsAlone` (`OneWorker`), `StartsAreServed`
(`NoStartDropped`), `VerdictIsUnique` (`OneVerdict`).

**SubmissionProofs.** The invariant is `IInv == TypeOK /\ WaitingInv /\ PendingInv /\
StopInv /\ StepInv /\ SettledInv /\ AcceptInv /\ ClosedInv`. A submission waits in the
queue once and untouched (`WaitingInv`), is pending only there or in the executor's
hands (`PendingInv`), and holds at each step of the executor just what that step has
taken (`StepInv`): every exit can then be seen to give it all up, and that a result
stays without holdings is `SettledInv`. `StopInv` says that every place a stop can come
from, or wait in, is reached after the start was written. `ClosedInv` says where the
cleanup is, from the closing on. Theorems: `Types`, `StopsFollow` (`StopFollowsStart`),
`ResultsHoldNothing` (`NothingLeft`), `CleanupEndsAll` (`CleanupIsLast`), and the action
property `AdmissionIsFresh` (`AdmittedFresh`), for which `AcceptInv` carries the
acceptance, made under the lifecycle lock, over to the admission.

**SolutionResourcesProofs.** What makes the exchange right is that a lease
survives everything on its way. `SafeBefore(l, k)` says that the lease `l` is
there now and that no command before position `k` of the command queue takes it:
no release names it, a settlement of its offer names it or comes too late to
matter, and a retirement stands behind a settlement of its offer. The invariant
is `IInv == TypeOK /\ ReadsHeld /\ Books /\ Ways`.

* `Books`, while the generation is accepted and no abort is under way
  (`Trusted`): whatever concerns an offer belongs to the generation that staged
  it, an offer nobody settled is as it was staged (`Untouched`), what the host
  takes for settled is settled or has a settlement on the way
  (`SettlementSent`), and no release precedes its settlement. `Untouched` is
  what lets a settlement at the head of the queue succeed, and that is what
  keeps `SettlementSent` true once the command is gone.
* `Ways`, while moreover the worker is up and the workspace open (`Usable`): one
  run at a time on both sides of the queues (`OneRun`), nobody has decided about
  an offer whose event waits (`WaitingOpen`), and what the store keeps
  (`HeldSafe`) and what a run reads (`ReadsSafe`) is safe before the end of the
  queue and before that run's start, in so far as it is not `withdrawn`. `ReadsHeld`
  carries that from the acceptance to the write of StartRun: until then what is to be
  read is still held or known to be given up. `OneRun` is needed because a retirement
  served while an offer is being dispatched would take what the host is about to
  keep; `WaitingOpen` because a claim is safe only if no command about its offer
  is on the way.

When the worker serves a command, the rest moves up by one position
(`ServedSafe`, `ServedSettled`); when the host writes one, a lease stays safe if
the new command spares it (`AppendedSafe`). The steps of the proof follow the
actions and rest on these. The theorems:

* `TypeCorrect`;
* `HeldStaysBacked` (`HeldIsBacked`), `ReadsSucceed` (`CurrentReadable`) and
  `ReleasesAreLater` (`ReleaseAfterSettle`), from the invariant;
* `IndexesHaveLeases` (`ListedIsLeased`), by an induction of its own: it needs no
  more than the types.

**SolutionStoreProofs.** The invariant has two halves. The first is about revisions.
Each place that captures one, a preparation (`RevisionInv`, `CaptureInv`), a fact
(`FactInv`) or the fact a failed start would put back (`BeforeInv`), holds a promise:
nothing the node is computed from has changed while its revision stays what was
captured. `CurrentIsOfGraph` is part of `FactInv`, but cannot be kept without the
others, since results are compared by revision and never by content. `LinkInv` says
that a sequence number names one record, with the key it was retained for.
`DecisionInv` rests on a lemma about `Decision` (`DecisionDecides`): for every graph
there is a least decision that agrees with demand and recomputation, so the CHOOSE of
the model finds one.

The second half is about the life of a run: which dispatching thread has a backend
(`SlotInv`), to which generation its run belongs (`RunInv`), and what the listener can
have in its hands when it gets the lifecycle lock (`EventInv`): an event of the worker
there is, or of the one that was lost, and of the generation the store adopted, unless
the project was replaced meanwhile. Theorems: `Types`, `CurrentOfGraph`
(`CurrentIsOfGraph`), `PinnedStay` (`PinnedSurvive`), `OverHoldsNothing`
(`NothingOutlives`).

`CurrentIsRetained` does not hold for all constants: with two backends it fails
(finding 4). `CurrentKept` proves it for a single backend, from `Retention`, which is
inductive on top of `IInv`. A settlement never evicts the record of a CURRENT fact
(`Retained`); the record of a fact that a failed start may put back (`Recoverable`) is
pinned by nothing, and stays because no other run of the same backend can be accepted
or settle in between (`OneAtATime`, from `SlotInv`); an edit that removes a node takes
only that node's records, and those of another node have another key (`Keyed`, with
the assumption that the graph has no cycle: `ExecutionPlan` raises on one).

**ProjectSaveProofs.** The invariant is `IInv == TypeOK /\ Cursor /\
GenerationsFresh /\ Staged /\ Published /\ Candidacy /\ Captured /\ DocComplete`.

* `Cursor`: the cleaning works on an entry of the list, or has passed its end.
* `GenerationsFresh`: no document and no manifest names a generation later than
  the last save begun, the save under way has a generation that is nowhere yet
  until it is staged, and a manifest lies beside one document only. This is what
  makes the collector safe. It works from candidates that may be several saves old
  and lie beside another document; but it always protects the generation of the
  save that cleans, and beside another document that one cannot be read, so
  `Collectable` is false and nothing is removed. At its own path it protects all
  that its document reaches.
* `Staged`: the copied artifacts are there from the staging on, and once the
  solutions are staged too, their generation can be read and refers only to
  artifacts that came along.
* `Published`: from the verification on the document on disk is the one of this
  save; while it cleans up, the store is bound to its generation and its result is
  the last one in the list.
* `Candidacy`: what waits for removal lies in one sidecar each, and a cleaning of
  artifacts never names a solution file, nor the other way round.
* `Captured`: a save runs in a window, and until an edit counts up what it captured
  is what the window shows; the refinement needs this at `Commit`.

`Completeness` (`DocComplete`) and `Types` (`TypeOK`) are its conjuncts;
`Refinement` (`ImplementsAtomicSave`) goes through the actions: `Commit` publishes,
every other step leaves each document and its completeness alone.

What the window, the autosave and the dirty flag are worth takes a second invariant on
top of the first, `WInv == AutosaveClean /\ Unpublished /\ Retired /\ Adopted /\
WindowWhole /\ Listed /\ Ahead /\ WorkComplete /\ UnsavedIsDirty`.

* `AutosaveClean`: a young autosave (`Young`: younger than the document it was written
  for) that is not dirty is as that document is stored. A restart that recovers it at
  its own path, and does not put it astray, recovers a young one (`RecoveredYoung`).
* `Unpublished` and `Retired`: the generation of a save is in no document before the
  commit, and once it is, no autosave of that document counts as younger.
* `Adopted` and `WindowWhole`: while a save cleans up, the window shows what it
  published; a generation whose manifest is there is there as a whole. This is what
  keeps the collector from taking a part of what the window or the autosave names
  (`WorkComplete`). What else goes are staged files, at a close only (`FilesGone`), and
  those are remembered as long as an autosave or the window can name them (`ShedSteps`).
* `Listed` and `Ahead`: what lies beside a document and is not reached from it is among
  the candidates of the save, then of the newest pending result; the cleaning never
  loses sight of it (`NothingForgotten`).

Theorems: `WorkKept` (`WorkComplete`), `CleanIsSaved` (`UnsavedIsDirty`), `NoneForgotten`
(`NothingForgotten`).

**ViewerEpochsProofs.** `Types` (`TypeOK`) goes with `Numbered`: an invalidation or a
dispatch under way has a number, which the messages about it carry. The proof keeps
the types of the client, of the calls under way, of the worker and of the queues
apart, so that a step of one side touches one of them.

`ListsAreCurrent` (`ListedIsCurrent`) needs nothing about the worker or the queues:
whatever answers arrive, in whatever order and from whichever worker, the client is
right to take only those it would take. The invariant is `ListInv == TypeOK /\
Numbered /\ Requested /\ Following /\ ListedIsCurrent`.

* `Requested`: a request that is waited for, or about to be, has older epochs than
  the client's, or the same and then the stamp of the invalidations decided so far
  (`Stamped`). So an answer that passes the check of
  `_record_viewer_response_state` shows what is current. A commit may advance the
  epochs between the reading of a request's epochs and its tracking; the request is
  then of older epochs, and `Stamped` still holds of it.
* `Following`: a direct start commits, some steps after it was posted, the epoch that
  follows the client's; nothing else may have advanced it meanwhile, or the commit
  would repeat an epoch and an old answer would count as new.

Every step that invalidates moves the workspace epoch on, or in the same workspace
epoch those of the nodes it covers (`Onward`); one lemma (`AdvanceStamped`) says what
this does to requests and lists, and the four steps that invalidate rest on it or, for
the loss of a worker, on the empty tables it leaves.

**ViewerAgreeProofs.** What client and worker know of each other is a matter of what is on
its way between them, so the invariants are about the command queue, the commands a
preflight has put aside (`buffer`), the run in the worker's hands (`job`) and the event
queue. There are three, each on top of the one before.

* `AgreeInv`, for `EpochsMatch` (`EpochsAgree`). `Locks` is what the start lock and the
  delivery lock exclude: no command is being sent while an invalidation or a direct
  start is not committed. `Snapped`: a run has one snapshot, from the posting of its
  start to its commit in the worker, so that what the client checks in `PlanHolds` is
  what the worker adopts. `Sent`: every message was sent with epochs the client has
  reached, but for the start of a direct run, which commits later than it is posted.
  `Agree` is then `EpochsAgree` with what its exception needs: the commit on its way is
  one that brings the node to the client's epoch (`Coming`), and a worker behind the
  client's workspace epoch leaves no node epoch unaccounted for.
* `ServeInv`, for `ServesWhatIsCurrent` (`ServedIsCurrent`). `Shown`: an open session
  has the stamp of the invalidations decided so far, or the worker's epochs are behind.
  When they are behind in the workspace epoch, `Catching` says why: a worker that came
  after the last invalidation has nothing open (`Blank`), or the message that brings it
  there is being delivered, or is queued with nothing older after it (`Brought`), or
  was a direct start that failed (`missed`; `Expected` is the two together).
  `Trailing` and `Resting` keep a direct start the last of the queue until it commits.
* `WaitInv`, for `NothingAwaitedInVain` (`Accounted`). Its parts are about requests
  (`Awaited`: outdated, discarded or on its way; `Refused`: the worker calls only
  outdated requests stale) and about invalidations. That none is ever refused
  (`Adopting`) depends on the order of the queue: all that the worker serves before an
  invalidation has a smaller epoch (`InOrder`), which has to be known already when the
  invalidation is decided and not posted yet (`BeforeIt`); a prepared run whose start is
  about to be posted is the case that needs it, and `start_run`, looking at the
  deliveries once more under its lock, is what makes it true. `Registered` says that a
  delivery has a number of its own, `Delivered` that its message or its
  acknowledgement is there.

**Out of the prover's reach**, and therefore model-checked only: every liveness
property (`DisposalCompletes`, `EveryStartSettles`, `EveryResultArrives`,
`CancelHolds`, `LeasesEnd`, `DispatchSettles`), since they rest on fairness and ENABLED, and any fact
that needs induction over a sequence or a recursive definition. No module here
declares a RECURSIVE operator.

## 5. What the models showed

Findings, each with a run that exhibits it and a document, assertion or test of
the repository that says otherwise:

1. **A pending start is cleared by the health check of its dead predecessor**
   (`pc` 628). The check skips a pending start in its first block only; one
   admitted between its two blocks is dispatched with its reservation gone.
2. **A run is dispatched to a worker that is on its way out** after a fatal
   error (`pc` 171). `is_alive()` is still true, the generation is already
   retired, and nobody ever reports the run.
3. **A disposer that raises during a settlement leaks the rest of the offer**
   (`solution_resources.py` 202), until the generation ends.
4. **A failed start restores a CURRENT fact whose record was evicted**
   (`st` 2088). The fact expired at acceptance pins nothing, so a settlement on
   another backend may evict its record before the start fails.

Observations. They contradict no document of the repository, some need
conditions the models exclude, and no property states them:

* A terminal event can be dropped with no failure at all: the listener clears
  the active run (`pc` 798), a registry replacement takes the lock and recycles
  the worker, and the recheck (`pc` 802) discards the event.
* A retirement that fails is rolled back by `_restore_physical_generation`
  although its process may be dead; a second verdict is then possible (`revived`).
* `retire_workspace` holds `_start_lock` while it waits for an
  acknowledgement that the listener would read. If the listener is itself
  waiting for that lock to stop a worker, the wait ends only by its timeout.
* A shutdown during a run is consumed by `RunControl` (`wr` 228-233); the worker
  returns to its loop and is terminated, so its final reset of services is skipped.
* A worker that survives its kill and is accepted again may later serve a
  shutdown command left in its queue.
* A `start_run` that waits for the start lock during shutdown spawns a worker
  afterwards.
* Closing a workspace retires an offer the host is about to keep
  (`closedDown`): the record then holds a lease the worker has released.
* An edit that removes a node, or a reset, between the acceptance of a run and the write
  of its StartRun (`rt` 675-682) releases an output the run is to read ahead of
  that run: the run is announced as admitted and fails in its preflight with "current
  output handle has no accepted worker lease" (`withdrawn`).
* `retire_workspace` with a disposer that raises leaves the worker's command
  loop (`worker.py` 85).
* A stop of a submission is dropped when the service has closed; the run then
  ends with the shutdown of the client.
* `dispatch_prepared` adopts a new generation in its first block without
  validating the captured revision (`rt` 549-572) for requests that load their
  project from a file.
* Adopting or resetting a generation clears the trigger generations, so numbers
  are used again after it.
* A result computed from an upstream result that was rejected as
  nondeterministic still becomes CURRENT.
* The limit per node evicts the oldest unpinned records of whatever node
  (`st` 2372-2390).
* Resetting a generation raises the revision of nodes that have no result without
  raising that of the workspace: a preparation computed before and registered
  after it is accepted, and its settlements are ignored.
* Solution states are published after the lifecycle lock is released, so revisions
  may reach the shell out of order; it ignores lower ones.

Of viewers:

* A delivery that a death of the worker failed stays in its table (`cc` 865-885,
  668-680). The health check retires the generation, the shell reacts to the end
  of the run with an invalidation, which fails before delivery, and from then on
  every start in that workspace is refused (`cc` 992-1001) until the editor is
  restarted. `Accounted` is stated for a worker that lives.
* A stop, or the timeout of the preflight, that the worker reads before the
  client's commit: the client has advanced its epochs, the worker drops the late
  commit, and every later run of those nodes fails its validation ("must advance
  once") until an invalidation of the workspace (`orphaned`).
* A direct start that fails before it adopts its epochs (`wr` 2116-2127, 2224-2229,
  2565-2573; a payload refused by `decode_command_payload`) is committed by the client
  all the same (`cc` 918-923), which is not told. The worker keeps the superseded
  sessions open, with no message on the way, until a viewer command, an invalidation or
  the next direct start brings the epoch; until then the validation of every prepared
  run of the workspace fails, since the worker is behind and not fresh. The client does
  not list these sessions (`ListedIsCurrent`).
* A worker counts as fresh only if no workspace has handles in it (`vs` 593-601):
  after a death of the worker, or the opening of a project, a run in another
  workspace makes the first prepared run of this one fail.
* Viewer commands buffered during a preflight that is given up are never answered,
  and stay pending at the client (`lost`).
* A command whose epochs were read before, and which was tracked after, the commit
  of a run (`pc` 397-419): its answer is ignored and the request stays pending.
* A query on a closed or invalidated record lists the session again at the client;
  its record has no results to show.

Of saving:

* Undo is not bounded by a save. Undoing across one restores references to staged
  files whose entries are gone, so the next save fails with
  `save_artifact_stage_failed`; and it restores a clean flag although the document
  on disk holds the edit. `ProjectSave` has no undo.
* After saving elsewhere, the retry in the next save removes the generation before,
  which only the autosave may still name; that generation is a cache.
* A recovered autosave is deleted before it is installed, and counts as autosaved: a
  second crash before the next edit loses it.
* Creating a document that fails leaves its sidecar directory, and the same target
  is then refused.
* Closing deletes the staged files before the autosave that names them, and a failure
  to unlink the autosave is swallowed. After a crash in between, or that failure, the
  next start recovers a project whose imports are gone; it cannot be saved
  (`save_artifact_stage_failed`) as long as it refers to them. `WorkComplete` excepts exactly these files (`shed`).
* A crash between the autosave and the envelope after saving from one path to another
  recovers the project of the second at the path of the first (`astray`).

## 6. What is left

Not modelled, and why. Node execution itself (input matching, iteration, value
trees), compilation, message encoding and registry agreement are computations
without interleaving, covered by unit tests. In `st`: durable records and their
lazy installation, resource leases, source bindings, byte limits, several
workspaces and the publication of results. In `ViewerEpochs`: the participants
other than the process client in a commit (trusted and external clients), the
routes and owners of viewers in `bc`, invalidations of single nodes from outside a
run (nobody makes them), contents and transports of sessions. In `ProjectSave`:
undo, images (they are copied like artifacts), the formats of the files, byte
limits, renaming of folders, migration of old documents, a second editor on the same
project. In `pc`: `prepare_generation` and its readiness handshake. Shell, QML,
canvas and add-ons are presentation; the performance harnesses and the engineering
scripts of the repository are tools beside the program.

The plan, in order of what matters to a user's results:

1. *done* `HandleRegistry`, with `ResourceLifetime` and its proofs.
2. *done* `ProcessClient`.
3. *done* `Submission`.
4. *done* `SolutionResources` and its proofs.
5. *done* `SolutionStore`.
6. *done* `ProjectSave`, with `AtomicSave` and its proofs.
7. *done* `ViewerEpochs`.
8. `GenerationReadiness` (`execution/generation_readiness.py`) and
   `CompiledSnapshotCache` (`execution/compiled_snapshot_cache.py`): small
   modules whose every property is a candidate for a proof.
9. `RuntimeHistory`: undo and redo with grouping, and with saves; `AutomationGate`;
   `ServerManager` of Jupyter.
10. An abstract `Runs` specification (submitted, running, ended once) that
    `ProcessClient` and `Submission` are each shown to implement.

Every safety property of a passing run is stated by a theorem, `CurrentIsRetained` for a
single backend only.
