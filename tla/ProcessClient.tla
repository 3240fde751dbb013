---------------------------- MODULE ProcessClient ----------------------------
(***************************************************************************)
(* ProcessExecutionClient (execution/process_client.py) with the shared    *)
(* bookkeeping of _ExecutionClientCommon (execution/client_common.py) and  *)
(* the command loop of the worker it spawns (execution/worker.py).         *)
(*                                                                         *)
(* Three kinds of actor touch the client.  A caller runs start_run, a      *)
(* viewer command, retire_workspace, replace_registry or shutdown, and     *)
(* holds _start_lock for all of it except the gap in start_run between the *)
(* reservation and the dispatch.  Each worker generation has one listener  *)
(* thread that reads the worker's events and polls its health.  The worker *)
(* serves a FIFO of commands and answers on a FIFO of events.              *)
(*                                                                         *)
(* _state_lock is held for single blocks only: every such block is one     *)
(* action, and whatever the code does between two blocks is a separate     *)
(* action, so other actors come in between.  Viewer sessions, payloads,    *)
(* wall clock time and the initial listener of generation 0 are left out.  *)
(***************************************************************************)
EXTENDS Integers, Sequences, FiniteSets

CONSTANTS
    Callers,        \* threads that call the client
    Runs,           \* run ids; each is submitted at most once
    Contracts,      \* registry contract fingerprints
    NoRun, NoContract, NoThread,
    Jobs,           \* which calls are made: "start", "ensure", "retire", ...
    FaultSets,      \* the sets of failures a behaviour may meet
    MaxJobs,        \* bound on the calls other than start_run
    MaxGeneration   \* bound on generation tokens

Generations == 1 .. MaxGeneration
Threads     == Callers \cup Generations     \* a listener is its generation

(***************************************************************************)
(* The failures: the worker process dies; a node passes its deadline; an   *)
(* exception escapes the runner; a result carries an unusable resource     *)
(* offer; a process survives terminate() and kill(); a subscriber is slow; *)
(* a process cannot be started.                                            *)
(***************************************************************************)
AllFaults == {"crash", "timeout", "fatal", "offer", "stubborn", "slow", "spawn"}

ASSUME ClientAssumption ==
    /\ NoRun \notin Runs /\ NoContract \notin Contracts
    /\ NoThread \notin Threads
    /\ Callers \cap Generations = {}
    /\ Jobs \subseteq {"start", "ensure", "retire", "replace", "shutdown"}
    /\ FaultSets \subseteq SUBSET AllFaults
    /\ MaxJobs \in Nat /\ MaxGeneration \in Nat

VARIABLES
    catalogGen,     \* _catalog_generation_token
    physicalGen,    \* _physical_generation_token
    acceptedGen,    \* _accepted_physical_generation_token, Retired when -1
    process,        \* generation of the object in _process, 0 for None
    activeRun,      \* _active_run_id
    pendingRun,     \* _start_run_pending_id
    nodeRunning,    \* _active_node_id is set and has a deadline
    pinned,         \* _registry_contract_generation_fingerprint
    runDispatched,  \* _physical_generation_run_dispatched
    running,        \* _running
    startLock,      \* the thread that holds _start_lock
    waiter,         \* each caller's workspace retirement waiter
    life,           \* of each generation's operating-system process
    commands,       \* each generation's command queue
    events,         \* each generation's event queue
    serving,        \* the run the worker executes
    boundTo,        \* the contract of the first run it executed (history)
    stage,          \* 0 idle, 1 before its node, 2 in its node, 3 after it
    pc,             \* where each thread is
    job,            \* the call each caller makes
    seen,           \* what a thread captured under _state_lock
    event,          \* the event each listener has taken
    todo,           \* runs nobody has submitted yet
    jobsLeft,       \* other calls still to be made
    faults,         \* the failures this behaviour may meet
    revived,        \* a retired generation was accepted again (history)
    verdicts        \* terminal events published for each run

genVars    == <<catalogGen, physicalGen, acceptedGen, process>>
runVars    == <<activeRun, pendingRun, nodeRunning>>
flagVars   == <<pinned, runDispatched, running>>
lockVars   == <<startLock, waiter>>
workerVars == <<life, commands, events, serving, boundTo, stage>>
threadVars == <<pc, job, seen, event>>
loadVars   == <<todo, jobsLeft, faults>>
histVars   == <<revived, verdicts>>
vars == <<genVars, runVars, flagVars, lockVars, workerVars, threadVars,
          loadVars, histVars>>

Retired  == -1
NoJob    == [kind |-> "none", run |-> NoRun, contract |-> NoContract,
             fresh |-> FALSE, dead |-> FALSE, then |-> "none"]
Nothing  == [run |-> NoRun, node |-> FALSE, mine |-> FALSE, waits |-> {}]
Sentinel == [kind |-> "sentinel", of |-> NoRun]

CallerStates   == {"idle", "stopping", "joining", "bind", "reserved",
                   "ensuring", "probe", "declare", "tell", "invalidate",
                   "spawn", "ready", "mark", "await", "unpin", "off"}
ListenerStates == {"none", "poll", "probe", "declare", "tell", "kill",
                   "killing", "record", "recheck", "publish", "clear",
                   "abort", "stop", "fail", "ended"}

Init ==
    /\ catalogGen = 0 /\ physicalGen = 0 /\ acceptedGen = 0 /\ process = 0
    /\ activeRun = NoRun /\ pendingRun = NoRun /\ nodeRunning = FALSE
    /\ pinned = NoContract /\ runDispatched = FALSE /\ running = TRUE
    /\ startLock = NoThread /\ waiter = [c \in Callers |-> "none"]
    /\ life = [g \in Generations |-> "none"]
    /\ commands = [g \in Generations |-> <<>>]
    /\ events = [g \in Generations |-> <<>>]
    /\ serving = [g \in Generations |-> NoRun]
    /\ boundTo = [g \in Generations |-> NoContract]
    /\ stage = [g \in Generations |-> 0]
    /\ pc = [t \in Threads |-> IF t \in Callers THEN "idle" ELSE "none"]
    /\ job = [c \in Callers |-> NoJob]
    /\ seen = [t \in Threads |-> Nothing]
    /\ event = [g \in Generations |-> Sentinel]
    /\ todo = Runs /\ jobsLeft = MaxJobs /\ faults \in FaultSets
    /\ revived = FALSE
    /\ verdicts = [r \in Runs |-> 0]

-------------------------------------------------------------------------------
\* Pieces shared by the calls and the listeners.

\* is_alive(): also while it exits ("leaving") or was told to die ("dying").
Alive(g)   == g \in Generations /\ life[g] \in {"alive", "leaving", "dying"}
Current(g) == catalogGen = g /\ acceptedGen = g
Goto(t, l) == pc' = [pc EXCEPT ![t] = l]
Lock(t)    == startLock = NoThread /\ startLock' = t
Unlock     == startLock' = NoThread
Post(q, g, m)    == [q EXCEPT ![g] = Append(@, m)]
WithSentinel     == IF process = 0 THEN events ELSE Post(events, process, Sentinel)
WithShutdown     == IF Alive(process)
                    THEN Post(commands, process,
                              [kind |-> "shutdown", of |-> NoRun])
                    ELSE commands
ClearRun   == activeRun' = NoRun /\ pendingRun' = NoRun /\ nodeRunning' = FALSE
ReleaseRun(r) == IF r # NoRun /\ activeRun = r THEN ClearRun
                                            ELSE UNCHANGED runVars
\* _restore_physical_generation, unless the generation is to stay retired.
Restore(stays) ==
    /\ acceptedGen' = IF acceptedGen = Retired /\ ~stays THEN physicalGen
                                                        ELSE acceptedGen
    /\ revived' = (revived \/ (acceptedGen = Retired /\ ~stays))
FailWaits(S) == waiter' = [c \in Callers |->
                             IF c \in S /\ waiter[c] = "waiting"
                             THEN "failed" ELSE waiter[c]]
CountVerdict(r) == verdicts' = [verdicts EXCEPT ![r] = @ + 1]

NewJob(c, k, r, con, fresh, dead, then) ==
    job' = [job EXCEPT ![c] = [kind |-> k, run |-> r, contract |-> con,
                               fresh |-> fresh, dead |-> dead, then |-> then]]

IsCall(c, k) == pc[c] = "idle" /\ running /\ k \in Jobs /\ jobsLeft > 0
Finish(c)    == Goto(c, "idle") /\ Unlock /\ job' = [job EXCEPT ![c] = NoJob]

-------------------------------------------------------------------------------
\* start_run, first half: _prepare_start_run.

ContractChanged(k) == pinned # NoContract /\ pinned # k
ReusesUnpinned     == /\ physicalGen > 0
                      /\ catalogGen = physicalGen
                      /\ acceptedGen = physicalGen
GenerationIsLive   == /\ process # 0 /\ acceptedGen = physicalGen
                      /\ Alive(process)

\* Mutant: admission does not look at the active run.
AdmitsAlways == TRUE

Admits == activeRun = NoRun

RefuseStart(c, r) ==
    /\ pc[c] = "idle" /\ running /\ "start" \in Jobs /\ r \in todo
    /\ startLock = NoThread /\ ~Admits
    /\ todo' = todo \ {r}
    /\ UNCHANGED <<genVars, runVars, flagVars, lockVars, workerVars, threadVars,
                   jobsLeft, faults, histVars>>

\* A pinned contract that differs recycles the worker before anything is bound.
StartRun(c, r, k) ==
    /\ pc[c] = "idle" /\ running /\ "start" \in Jobs /\ r \in todo
    /\ Lock(c) /\ Admits
    /\ todo' = todo \ {r}
    /\ NewJob(c, "start", r, k,
              ContractChanged(k) \/ (pinned = NoContract /\ ~ReusesUnpinned),
              ContractChanged(k) /\ ~GenerationIsLive, "bind")
    /\ IF ContractChanged(k)
       THEN /\ acceptedGen' = Retired
            /\ commands' = WithShutdown
            /\ Goto(c, "stopping")
       ELSE /\ Goto(c, "bind")
            /\ UNCHANGED <<acceptedGen, commands>>
    /\ UNCHANGED <<catalogGen, physicalGen, process, runVars, flagVars, waiter,
                   life, events, serving, boundTo, stage, seen, event, jobsLeft, faults,
                   histVars>>

Bind(c) ==
    /\ pc[c] = "bind"
    /\ catalogGen' = IF job[c].fresh THEN catalogGen + 1 ELSE catalogGen
    /\ pinned' = job[c].contract
    /\ activeRun' = job[c].run /\ pendingRun' = job[c].run
    /\ Unlock /\ Goto(c, "reserved")
    /\ UNCHANGED <<physicalGen, acceptedGen, process, nodeRunning, runDispatched,
                   running, waiter, workerVars, job, seen, event, loadVars,
                   histVars>>

\* The prepared command does not fit the reservation, or cannot be encoded.
AbandonStart(c) ==
    /\ pc[c] = "reserved"
    /\ ReleaseRun(job[c].run)
    /\ Goto(c, "idle") /\ job' = [job EXCEPT ![c] = NoJob]
    /\ UNCHANGED <<genVars, flagVars, lockVars, workerVars, seen, event,
                   loadVars, histVars>>

-------------------------------------------------------------------------------
\* Stopping a worker: _recycle_catalog_generation and shutdown.

\* The graceful exit did not come in time.
Terminate(c) ==
    /\ pc[c] = "stopping" /\ process # 0 /\ life[process] = "alive"
    /\ life' = [life EXCEPT ![process] = "dying"]
    /\ UNCHANGED <<genVars, runVars, flagVars, lockVars, commands, events,
                   serving, boundTo, stage, threadVars, loadVars, histVars>>

\* Neither terminate() nor kill() ended it.
WontDie(c) ==
    /\ "stubborn" \in faults
    /\ pc[c] = "stopping" /\ process # 0 /\ life[process] = "dying"
    /\ life' = [life EXCEPT ![process] = "alive"]
    /\ IF job[c].then = "off"
       THEN running' = FALSE /\ UNCHANGED <<acceptedGen, revived>>
       ELSE Restore(job[c].dead) /\ UNCHANGED running
    /\ Finish(c)
    /\ UNCHANGED <<catalogGen, physicalGen, process, runVars, pinned,
                   runDispatched, waiter, commands, events, serving, boundTo, stage,
                   seen, event, loadVars, verdicts>>

\* Mutant: the exit of the worker is not awaited.
NotAwaited == TRUE

Exited == ~Alive(process)

WorkerGone(c) ==
    /\ pc[c] = "stopping" /\ Exited
    /\ running' = (running /\ job[c].then # "off")
    /\ events' = WithSentinel
    /\ Goto(c, "joining")
    /\ UNCHANGED <<genVars, runVars, pinned, runDispatched, lockVars, life,
                   commands, serving, boundTo, stage, job, seen, event, loadVars, histVars>>

ListenerEnded == process # 0 => pc[process] = "ended"

\* _retire_process_resources after the listener thread has ended.
Joined(c) ==
    /\ pc[c] = "joining" /\ ListenerEnded
    /\ commands' = [g \in Generations |->
                      IF g = process THEN <<>> ELSE commands[g]]
    /\ events' = [g \in Generations |-> IF g = process THEN <<>> ELSE events[g]]
    /\ process' = 0
    /\ Goto(c, job[c].then)
    /\ UNCHANGED <<catalogGen, physicalGen, acceptedGen, runVars, flagVars,
                   lockVars, life, serving, boundTo, stage, job, seen, event, loadVars,
                   histVars>>

\* join(timeout=1.0) gave up: the listener waits for _start_lock, or a subscriber
\* it calls back takes its time.
Blocked(g) == \/ pc[g] = "kill"
              \/ "slow" \in faults /\ pc[g] \in {"publish", "tell", "fail"}

JoinTimesOut(c) ==
    /\ pc[c] = "joining" /\ process # 0 /\ pc[process] # "ended"
    /\ Blocked(process)
    /\ Restore(job[c].then = "off" \/ job[c].dead)
    /\ IF job[c].then = "spawn" THEN ReleaseRun(job[c].run)
                                ELSE UNCHANGED runVars
    /\ Finish(c)
    /\ UNCHANGED <<catalogGen, physicalGen, process, flagVars, waiter,
                   workerVars, seen, event, loadVars, verdicts>>

-------------------------------------------------------------------------------
\* _ensure_process, for start_run and for every viewer command.

EnterEnsure(c) ==
    /\ pc[c] = "reserved"
    /\ Lock(c) /\ Goto(c, "ensuring")
    /\ UNCHANGED <<genVars, runVars, flagVars, waiter, workerVars, job, seen,
                   event, loadVars, histVars>>

OpenViewer(c) ==
    /\ IsCall(c, "ensure") /\ jobsLeft' = jobsLeft - 1
    /\ NewJob(c, "ensure", NoRun, NoContract, FALSE, FALSE, "none")
    /\ Lock(c) /\ Goto(c, "ensuring")
    /\ UNCHANGED <<genVars, runVars, flagVars, waiter, workerVars, seen, event,
                   todo, faults, histVars>>

ReuseProcess(c) ==
    /\ pc[c] = "ensuring" /\ Alive(process)
    /\ Goto(c, "ready")
    /\ UNCHANGED <<genVars, runVars, flagVars, lockVars, workerVars, job, seen,
                   event, loadVars, histVars>>

Invalidate(c) ==
    /\ \/ pc[c] = "invalidate"
       \/ pc[c] = "ensuring" /\ process = 0
    /\ acceptedGen' = Retired
    /\ events' = WithSentinel
    /\ job' = [job EXCEPT ![c].then = "spawn"]
    /\ Goto(c, "joining")
    /\ UNCHANGED <<catalogGen, physicalGen, process, runVars, flagVars, lockVars,
                   life, commands, serving, boundTo, stage, seen, event, loadVars,
                   histVars>>

\* _install_physical_generation.
NextToken == IF catalogGen <= 0 THEN 1
             ELSE IF physicalGen > 0 /\ physicalGen = catalogGen
             THEN catalogGen + 1
             ELSE catalogGen

Spawn(c) ==
    /\ pc[c] = "spawn" /\ NextToken <= MaxGeneration
    /\ catalogGen' = NextToken /\ physicalGen' = NextToken
    /\ acceptedGen' = NextToken /\ process' = NextToken
    /\ runDispatched' = FALSE
    /\ life' = [life EXCEPT ![NextToken] = "alive"]
    /\ pc' = [pc EXCEPT ![c] = "ready", ![NextToken] = "poll"]
    /\ UNCHANGED <<runVars, pinned, running, lockVars, commands, events, serving,
                   boundTo, stage, job, seen, event, loadVars, histVars>>

SpawnFails(c) ==
    /\ pc[c] = "spawn" /\ "spawn" \in faults
    /\ ReleaseRun(job[c].run)
    /\ Finish(c)
    /\ UNCHANGED <<genVars, flagVars, waiter, workerVars, seen, event, loadVars,
                   histVars>>

ViewerCommand(c) ==
    /\ pc[c] = "ready" /\ job[c].kind = "ensure"
    /\ Finish(c)
    /\ UNCHANGED <<genVars, runVars, flagVars, waiter, workerVars, seen, event,
                   loadVars, histVars>>

\* start_run, second half: post the StartRun and mark it dispatched.
Send(c) ==
    /\ pc[c] = "ready" /\ job[c].kind = "start"
    /\ nodeRunning' = FALSE /\ runDispatched' = TRUE
    /\ commands' = Post(commands, process,
                        [kind |-> "start", of |-> job[c].run,
                         contract |-> job[c].contract])
    /\ Goto(c, "mark")
    /\ UNCHANGED <<genVars, activeRun, pendingRun, pinned, running, lockVars,
                   life, events, serving, boundTo, stage, job, seen, event, loadVars,
                   histVars>>

MarkDispatched(c) ==
    /\ pc[c] = "mark"
    /\ pendingRun' = IF pendingRun = job[c].run THEN NoRun ELSE pendingRun
    /\ Finish(c)
    /\ UNCHANGED <<genVars, activeRun, nodeRunning, flagVars, waiter, workerVars,
                   seen, event, loadVars, histVars>>

-------------------------------------------------------------------------------
\* retire_workspace, replace_registry and shutdown.

RetireWorkspace(c) ==
    /\ IsCall(c, "retire") /\ startLock = NoThread
    /\ jobsLeft' = jobsLeft - 1
    /\ IF Alive(process) /\ runDispatched
       THEN /\ Lock(c) /\ Goto(c, "await")
            /\ waiter' = [waiter EXCEPT ![c] = "waiting"]
            /\ commands' = Post(commands, process, [kind |-> "retire", of |-> c])
       ELSE UNCHANGED <<pc, lockVars, commands>>
    /\ UNCHANGED <<genVars, runVars, flagVars, life, events, serving, boundTo, stage, job,
                   seen, event, todo, faults, histVars>>

\* The acknowledgement came, the transport failed, or ten seconds passed.
RetireReturns(c) ==
    /\ pc[c] = "await"
    /\ waiter' = [waiter EXCEPT ![c] = "none"]
    /\ Finish(c)
    /\ UNCHANGED <<genVars, runVars, flagVars, workerVars, seen, event, loadVars,
                   histVars>>

ReplaceRegistry(c) ==
    /\ IsCall(c, "replace") /\ pinned # NoContract
    /\ activeRun = NoRun /\ pendingRun = NoRun
    /\ Lock(c) /\ jobsLeft' = jobsLeft - 1
    /\ NewJob(c, "replace", NoRun, NoContract, FALSE, FALSE, "unpin")
    /\ acceptedGen' = Retired
    /\ commands' = WithShutdown
    /\ Goto(c, "stopping")
    /\ UNCHANGED <<catalogGen, physicalGen, process, runVars, flagVars, waiter,
                   life, events, serving, boundTo, stage, seen, event, todo, faults, histVars>>

Unpin(c) ==
    /\ pc[c] = "unpin"
    /\ pinned' = NoContract
    /\ Finish(c)
    /\ UNCHANGED <<genVars, runVars, runDispatched, running, waiter, workerVars,
                   seen, event, loadVars, histVars>>

\* The runtime shuts its client down when no other call is in flight.
Shutdown(c) ==
    /\ IsCall(c, "shutdown") /\ \A d \in Callers : pc[d] = "idle"
    /\ Lock(c) /\ jobsLeft' = jobsLeft - 1
    /\ NewJob(c, "shutdown", NoRun, NoContract, FALSE, FALSE, "off")
    /\ ClearRun /\ acceptedGen' = Retired
    /\ commands' = WithShutdown
    /\ Goto(c, "stopping")
    /\ UNCHANGED <<catalogGen, physicalGen, process, flagVars, waiter, life,
                   events, serving, boundTo, stage, seen, event, todo, faults, histVars>>

ShutDown(c) ==
    /\ pc[c] = "off"
    /\ Finish(c)
    /\ UNCHANGED <<genVars, runVars, flagVars, waiter, workerVars, seen, event,
                   loadVars, histVars>>

-------------------------------------------------------------------------------
\* _check_worker_health, run by the listener of g and by _ensure_process.

GenerationOf(t) == IF t \in Callers THEN process ELSE t
AfterCheck(t)   == IF t \in Callers THEN "invalidate" ELSE "poll"
Watched(g)      == process = g /\ physicalGen = g /\ acceptedGen = g

\* The first block under _state_lock; a pending start is left alone.
Capture(t) ==
    /\ \/ t \in Callers /\ pc[t] = "ensuring" /\ process # 0 /\ ~Alive(process)
       \/ t \in Generations /\ pc[t] = "poll" /\ running /\ events[t] = <<>>
    /\ IF Watched(GenerationOf(t)) /\ ~(activeRun # NoRun /\ pendingRun = activeRun)
       THEN /\ seen' = [seen EXCEPT ![t] =
                          [Nothing EXCEPT !.run = activeRun, !.node = nodeRunning]]
            /\ Goto(t, "probe")
       ELSE Goto(t, AfterCheck(t)) /\ UNCHANGED seen
    /\ UNCHANGED <<genVars, runVars, flagVars, lockVars, workerVars, job, event,
                   loadVars, histVars>>

\* process.is_alive(), outside the lock; a dead worker fails all retirements.
Probe(t) ==
    /\ pc[t] = "probe"
    /\ IF Alive(GenerationOf(t))
       THEN /\ \/ Goto(t, AfterCheck(t))
               \/ /\ "timeout" \in faults /\ t \in Generations
                  /\ seen[t].run # NoRun /\ seen[t].node
                  /\ Goto(t, "kill")
            /\ UNCHANGED waiter
       ELSE FailWaits(Callers) /\ Goto(t, "declare")
    /\ UNCHANGED <<genVars, runVars, flagVars, startLock, workerVars, job, seen,
                   event, loadVars, histVars>>

\* The second block: the generation is checked again, the pending start is not.
Declare(t) ==
    /\ pc[t] = "declare"
    /\ IF Watched(GenerationOf(t))
       THEN /\ acceptedGen' = Retired /\ ClearRun
            /\ seen' = [seen EXCEPT ![t].mine = activeRun = seen[t].run]
            /\ Goto(t, "tell")
       ELSE /\ Goto(t, AfterCheck(t))
            /\ UNCHANGED <<acceptedGen, runVars, seen>>
    /\ UNCHANGED <<catalogGen, physicalGen, process, flagVars, lockVars,
                   workerVars, job, event, loadVars, histVars>>

\* Mutant: the failure is published for the run captured first, whatever came.
CapturedRun(t) == seen[t].run # NoRun

FailedRun(t) == seen[t].mine /\ seen[t].run # NoRun

\* Publish run_failed for the captured run, if it was still the active one.
Tell(t) ==
    /\ pc[t] = "tell"
    /\ IF FailedRun(t)
       THEN CountVerdict(seen[t].run) ELSE UNCHANGED verdicts
    /\ Goto(t, AfterCheck(t))
    /\ seen' = [seen EXCEPT ![t] = Nothing]
    /\ UNCHANGED <<genVars, runVars, flagVars, lockVars, workerVars, job, event,
                   loadVars, revived>>

\* _terminate_timed_out_worker: everything is rechecked under _start_lock.
Kill(g) ==
    /\ pc[g] = "kill" /\ startLock = NoThread
    /\ IF activeRun = seen[g].run /\ Watched(g)
       THEN /\ acceptedGen' = Retired /\ startLock' = g /\ Goto(g, "killing")
            /\ life' = IF life[g] = "alive" THEN [life EXCEPT ![g] = "dying"]
                                            ELSE life
       ELSE Goto(g, "poll") /\ UNCHANGED <<acceptedGen, startLock, life>>
    /\ UNCHANGED <<catalogGen, physicalGen, process, runVars, flagVars, waiter,
                   commands, events, serving, boundTo, stage, job, seen, event, loadVars,
                   histVars>>

\* Mutant: the run of a killed worker is not reported.
Silently == "poll"

Report == "tell"

Killed(g) ==
    /\ pc[g] = "killing" /\ ~Alive(g)
    /\ IF activeRun = seen[g].run /\ process = g /\ acceptedGen = Retired
       THEN /\ ClearRun /\ Goto(g, Report)
            /\ seen' = [seen EXCEPT ![g].mine = TRUE]
       ELSE Goto(g, "poll") /\ UNCHANGED <<runVars, seen>>
    /\ Unlock
    /\ UNCHANGED <<genVars, flagVars, waiter, workerVars, job, event, loadVars,
                   histVars>>

KillFails(g) ==
    /\ "stubborn" \in faults
    /\ pc[g] = "killing" /\ Alive(g)
    /\ life' = [life EXCEPT ![g] = "alive"]
    /\ Restore(FALSE)
    /\ Unlock /\ Goto(g, "poll")
    /\ UNCHANGED <<catalogGen, physicalGen, process, runVars, flagVars, waiter,
                   commands, events, serving, boundTo, stage, job, seen, event, loadVars,
                   verdicts>>

-------------------------------------------------------------------------------
\* _event_listener of generation g.

Terminal == {"ended"}

\* Take an event; drop it if the generation is no longer the current one.
Take(g) ==
    /\ pc[g] = "poll" /\ running /\ events[g] # <<>>
    /\ LET e == Head(events[g]) IN
       /\ event' = [event EXCEPT ![g] = e]
       /\ Goto(g, IF e = Sentinel THEN "ended"
                  ELSE IF ~Current(g) THEN "poll"
                  ELSE IF e.kind = "fatal" THEN "abort" ELSE "record")
    /\ events' = [events EXCEPT ![g] = Tail(@)]
    /\ UNCHANGED <<genVars, runVars, flagVars, lockVars, life, commands, serving,
                   boundTo, stage, job, seen, loadVars, histVars>>

Quit(g) ==
    /\ pc[g] = "poll" /\ ~running
    /\ Goto(g, "ended")
    /\ UNCHANGED <<genVars, runVars, flagVars, lockVars, workerVars, job, seen,
                   event, loadVars, histVars>>

\* _record_execution_event_state: only the active run's events count.
Record(g) ==
    /\ pc[g] = "record"
    /\ LET e == event[g]
           counts == /\ Current(g)
                     /\ e.kind # "retired"
                     /\ activeRun \in {NoRun, e.of}
       IN  CASE counts /\ e.kind = "started" ->
                    nodeRunning' = TRUE /\ UNCHANGED <<activeRun, pendingRun>>
             [] counts /\ e.kind \in {"settled", "badOffer"} ->
                    nodeRunning' = FALSE /\ UNCHANGED <<activeRun, pendingRun>>
             [] counts /\ e.kind \in Terminal -> ClearRun
             [] OTHER -> UNCHANGED runVars
    /\ Goto(g, "recheck")
    /\ UNCHANGED <<genVars, flagVars, lockVars, workerVars, job, seen, event,
                   loadVars, histVars>>

Recheck(g) ==
    /\ pc[g] = "recheck"
    /\ Goto(g, IF ~Current(g) THEN "poll"
               ELSE IF event[g].kind = "badOffer" THEN "abort" ELSE "publish")
    /\ UNCHANGED <<genVars, runVars, flagVars, lockVars, workerVars, job, seen,
                   event, loadVars, histVars>>

\* _dispatch_event_payload: wake a retirement waiter, call the subscribers.
Publish(g) ==
    /\ pc[g] = "publish"
    /\ LET e == event[g] IN
       /\ waiter' = IF e.kind = "retired" /\ waiter[e.of] = "waiting"
                    THEN [waiter EXCEPT ![e.of] = "acked"] ELSE waiter
       /\ IF e.kind \in Terminal THEN CountVerdict(e.of) ELSE UNCHANGED verdicts
       /\ Goto(g, IF e.kind \in Terminal THEN "clear" ELSE "poll")
    /\ UNCHANGED <<genVars, runVars, flagVars, startLock, workerVars, job, seen,
                   event, loadVars, revived>>

OwnRun(g) == activeRun \in {NoRun, event[g].of}

\* The second clearing of the active run, after the callbacks.
ClearAfter(g) ==
    /\ pc[g] = "clear"
    /\ IF acceptedGen = g /\ OwnRun(g)
       THEN ClearRun ELSE UNCHANGED runVars
    /\ Goto(g, "poll")
    /\ UNCHANGED <<genVars, flagVars, lockVars, workerVars, job, seen, event,
                   loadVars, histVars>>

\* _abort_solution_resource_transport: capture, terminate, tell everybody.
Abort(g) ==
    /\ pc[g] = "abort"
    /\ IF physicalGen = g /\ acceptedGen = g
       THEN /\ acceptedGen' = Retired /\ ClearRun
            /\ seen' = [seen EXCEPT ![g] =
                          [Nothing EXCEPT !.run = activeRun,
                             !.waits = {c \in Callers : waiter[c] # "none"}]]
            /\ Goto(g, "stop")
       ELSE Goto(g, "poll") /\ UNCHANGED <<acceptedGen, runVars, seen>>
    /\ UNCHANGED <<catalogGen, physicalGen, process, flagVars, lockVars,
                   workerVars, job, event, loadVars, histVars>>

\* terminate() only asks: the process is not joined here.
AbortStop(g) ==
    /\ pc[g] = "stop"
    /\ life' = IF life[g] = "alive" THEN [life EXCEPT ![g] = "dying"] ELSE life
    /\ Goto(g, "fail")
    /\ UNCHANGED <<genVars, runVars, flagVars, lockVars, commands, events,
                   serving, boundTo, stage, job, seen, event, loadVars, histVars>>

AbortTell(g) ==
    /\ pc[g] = "fail"
    /\ FailWaits(seen[g].waits)
    /\ IF seen[g].run # NoRun
       THEN CountVerdict(IF event[g].kind = "fatal" THEN event[g].of
                                                    ELSE seen[g].run)
       ELSE UNCHANGED verdicts
    /\ seen' = [seen EXCEPT ![g] = Nothing]
    /\ Goto(g, "poll")
    /\ UNCHANGED <<genVars, runVars, flagVars, startLock, workerVars, job, event,
                   loadVars, revived>>

-------------------------------------------------------------------------------
\* The worker of generation g: worker_main and RunControl.poll_commands.

Serves(g) == life[g] \in {"alive", "dying"}

Emit(g, k, x) == events' = Post(events, g, [kind |-> k, of |-> x])

\* Mutant: the acknowledgement carries the run instead of the request.
AnswerWithRun(g, m) == Emit(g, "retired", serving[g])

Answer(g, m) == Emit(g, "retired", m.of)

WorkerLeaves == UNCHANGED <<genVars, runVars, flagVars, lockVars, threadVars,
                            loadVars, histVars>>

\* Between runs the loop blocks on the queue; during one it polls between nodes.
TakeCommand(g) ==
    /\ Serves(g) /\ commands[g] # <<>> /\ stage[g] # 2
    /\ commands' = [commands EXCEPT ![g] = Tail(@)]
    /\ LET m == Head(commands[g]) IN
       CASE m.kind = "start" /\ serving[g] = NoRun ->
              /\ serving' = [serving EXCEPT ![g] = m.of]
              /\ stage' = [stage EXCEPT ![g] = 1]
              /\ boundTo' = [boundTo EXCEPT ![g] =
                               IF @ = NoContract THEN m.contract ELSE @]
              /\ UNCHANGED <<life, events>>
         [] m.kind = "start" /\ serving[g] # NoRun ->     \* refused, no run id
              UNCHANGED <<life, events, serving, boundTo, stage>>
         [] m.kind = "retire" ->
              /\ Answer(g, m)
              /\ UNCHANGED <<life, serving, boundTo, stage>>
         [] m.kind = "shutdown" /\ serving[g] = NoRun ->
              /\ life' = [life EXCEPT ![g] = "leaving"]
              /\ UNCHANGED <<events, serving, boundTo, stage>>
         [] m.kind = "shutdown" /\ serving[g] # NoRun ->  \* only stops the run
              /\ Emit(g, "ended", serving[g])
              /\ serving' = [serving EXCEPT ![g] = NoRun]
              /\ stage' = [stage EXCEPT ![g] = 0]
              /\ UNCHANGED <<life, boundTo>>
    /\ WorkerLeaves

StartNode(g) ==
    /\ Serves(g) /\ stage[g] = 1
    /\ Emit(g, "started", serving[g])
    /\ stage' = [stage EXCEPT ![g] = 2]
    /\ UNCHANGED <<life, commands, serving, boundTo>> /\ WorkerLeaves

SettleNode(g) ==
    /\ Serves(g) /\ stage[g] = 2
    /\ \/ Emit(g, "settled", serving[g])
       \/ "offer" \in faults /\ Emit(g, "badOffer", serving[g])
    /\ stage' = [stage EXCEPT ![g] = 3]
    /\ UNCHANGED <<life, commands, serving, boundTo>> /\ WorkerLeaves

\* run_completed, run_stopped, or a run_failed that is not fatal.
EndRun(g) ==
    /\ Serves(g) /\ stage[g] \in {1, 3}
    /\ Emit(g, "ended", serving[g])
    /\ serving' = [serving EXCEPT ![g] = NoRun]
    /\ stage' = [stage EXCEPT ![g] = 0]
    /\ UNCHANGED <<life, commands, boundTo>> /\ WorkerLeaves

\* An exception escapes the runner: reset, fatal run_failed, leave the loop.
Escape(g) ==
    /\ "fatal" \in faults /\ Serves(g) /\ stage[g] # 0
    /\ Emit(g, "fatal", serving[g])
    /\ serving' = [serving EXCEPT ![g] = NoRun]
    /\ stage' = [stage EXCEPT ![g] = 0]
    /\ life' = [life EXCEPT ![g] = "leaving"]
    /\ UNCHANGED <<commands, boundTo>> /\ WorkerLeaves

Die(g) ==
    /\ life[g] \in {"leaving", "dying"} \/ (life[g] = "alive" /\ "crash" \in faults)
    /\ life' = [life EXCEPT ![g] = "dead"]
    /\ UNCHANGED <<commands, events, serving, boundTo, stage>> /\ WorkerLeaves

-------------------------------------------------------------------------------
CallerStep(c) ==
    \/ Bind(c) \/ Terminate(c) \/ WontDie(c) \/ WorkerGone(c) \/ Joined(c)
    \/ JoinTimesOut(c) \/ EnterEnsure(c) \/ ReuseProcess(c) \/ Invalidate(c)
    \/ Spawn(c) \/ SpawnFails(c) \/ ViewerCommand(c) \/ Send(c)
    \/ MarkDispatched(c) \/ RetireReturns(c) \/ Unpin(c) \/ ShutDown(c)

Check(t) == Capture(t) \/ Probe(t) \/ Declare(t) \/ Tell(t)

ListenerStep(g) ==
    \/ Kill(g) \/ Killed(g) \/ KillFails(g) \/ Take(g) \/ Quit(g) \/ Record(g)
    \/ Recheck(g) \/ Publish(g) \/ ClearAfter(g) \/ Abort(g) \/ AbortStop(g)
    \/ AbortTell(g)

WorkerStep(g) ==
    \/ TakeCommand(g) \/ StartNode(g) \/ SettleNode(g) \/ EndRun(g)

Call(c) ==
    \/ \E r \in Runs : RefuseStart(c, r) \/ \E k \in Contracts : StartRun(c, r, k)
    \/ AbandonStart(c) \/ OpenViewer(c) \/ RetireWorkspace(c)
    \/ ReplaceRegistry(c) \/ Shutdown(c)

Next ==
    \/ \E c \in Callers : CallerStep(c) \/ Call(c)
    \/ \E t \in Threads : Check(t)
    \/ \E g \in Generations : ListenerStep(g) \/ WorkerStep(g) \/ Escape(g) \/ Die(g)

Spec == Init /\ [][Next]_vars

(***************************************************************************)
(* Every thread keeps running once it has begun, the worker keeps serving, *)
(* and a process that was told to terminate does.  Nobody has to make a    *)
(* call, and no failure has to happen.  A thread that waits for _start_lock*)
(* gets it, since the calls that take it are bounded in number.            *)
(***************************************************************************)
Fairness ==
    /\ \A c \in Callers : WF_vars(CallerStep(c) \/ Check(c))
    /\ \A g \in Generations :
          /\ WF_vars(ListenerStep(g) \/ Check(g))
          /\ WF_vars(WorkerStep(g))
          /\ WF_vars(life[g] \in {"leaving", "dying"} /\ Die(g))

FairSpec == Spec /\ Fairness

-------------------------------------------------------------------------------
Command == [kind : {"start"}, of : Runs, contract : Contracts]
           \cup [kind : {"retire"}, of : Callers]
           \cup [kind : {"shutdown"}, of : {NoRun}]
Event   == [kind : {"started", "settled", "badOffer", "ended", "fatal"},
            of : Runs]
           \cup [kind : {"retired"}, of : Callers] \cup {Sentinel}

\* What a caller is doing, and what a thread captured under the lock.
Job      == [kind : {"none", "start", "ensure", "replace", "shutdown"},
             run : Runs \cup {NoRun}, contract : Contracts \cup {NoContract},
             fresh : BOOLEAN, dead : BOOLEAN,
             then : {"none", "bind", "spawn", "unpin", "off"}]
Captured == [run : Runs \cup {NoRun}, node : BOOLEAN, mine : BOOLEAN,
             waits : SUBSET Callers]

\* Type invariant: the fields of the client, of the workers' queues and of the
\* threads have their types; a reply on an event queue names the call it answers.
TypeOK ==
    /\ catalogGen \in Nat
    /\ physicalGen \in 0 .. MaxGeneration
    /\ acceptedGen \in {Retired} \cup 0 .. MaxGeneration
    /\ process \in 0 .. MaxGeneration
    /\ activeRun \in Runs \cup {NoRun} /\ pendingRun \in Runs \cup {NoRun}
    /\ nodeRunning \in BOOLEAN /\ runDispatched \in BOOLEAN
    /\ running \in BOOLEAN /\ pinned \in Contracts \cup {NoContract}
    /\ startLock \in Threads \cup {NoThread}
    /\ waiter \in [Callers -> {"none", "waiting", "acked", "failed"}]
    /\ life \in [Generations -> {"none", "alive", "leaving", "dying", "dead"}]
    /\ commands \in [Generations -> Seq(Command)]
    /\ events \in [Generations -> Seq(Event)]
    /\ serving \in [Generations -> Runs \cup {NoRun}]
    /\ boundTo \in [Generations -> Contracts \cup {NoContract}]
    /\ stage \in [Generations -> 0 .. 3]
    /\ pc \in [Threads -> CallerStates \cup ListenerStates]
    /\ \A t \in Threads : pc[t] \in IF t \in Callers THEN CallerStates
                                                     ELSE ListenerStates
    /\ job \in [Callers -> Job] /\ seen \in [Threads -> Captured]
    /\ event \in [Generations -> Event]
    /\ todo \subseteq Runs /\ jobsLeft \in 0 .. MaxJobs
    /\ verdicts \in [Runs -> Nat]

\* Subscribers hear of the end of a run at most once, whoever reports it (the
\* worker, the health check, the node timeout or the transport abort), as long as
\* no retired generation was accepted again after its retirement failed, and
\* workers do not both crash and have their transport aborted (README).
OneVerdict ==
    ~revived /\ ("crash" \notin faults \/ {"fatal", "offer"} \cap faults = {})
        => \A r \in Runs : verdicts[r] <= 1

\* A worker is replaced only when it is gone: at most one process is alive,
\* and it is the one in _process.
OneWorker == \A g \in Generations : Alive(g) => process = g

\* The next three concern the admission of runs through _active_run_id.  They
\* hold while workers only end when the client ends them; see README for what a
\* crash or an abort does to them.
WorkersHoldUp == faults \subseteq {"timeout", "slow", "spawn"}

\* No worker is sent a StartRun while another run is queued or executing there;
\* RunControl would drop it with a protocol error.
Starts(g) == {i \in DOMAIN commands[g] : commands[g][i].kind = "start"}
NoStartDropped ==
    WorkersHoldUp => \A g \in Generations : Alive(g) =>
        Cardinality(Starts(g)) + (IF serving[g] = NoRun THEN 0 ELSE 1) <= 1

\* A start that was admitted stays the active run until it was dispatched.
Dispatching(c) ==
    /\ job[c].kind = "start"
    /\ pc[c] \in {"reserved", "ensuring", "probe", "declare", "tell",
                  "invalidate", "spawn", "ready"}

\* What test_dead_process_health_cannot_clear_a_pending_successor_start asserts
\* (tests/test_process_client.py): a health check of a dead worker leaves the
\* pending start the active run.
HealthKeepsPendingStart ==
    \A c \in Callers : Dispatching(c) => activeRun = job[c].run

\* A run whose StartRun was posted is eventually reported as ended.
EveryStartSettles ==
    \A r \in Runs :
        (\E c \in Callers : pc[c] = "mark" /\ job[c].run = r)
            ~> (verdicts[r] > 0)

===============================================================================
