----------------------------- MODULE ViewerEpochs -----------------------------
(***************************************************************************)
(* The invalidation epochs of viewer sessions: what keeps a viewer from    *)
(* showing the results of a run that has been superseded.                  *)
(*                                                                         *)
(* The client (execution/client_common.py, process_client.py, and          *)
(* backend_client.py for the preflight of a prepared run) and the worker   *)
(* (viewer_session_service.py, worker_runner.py, worker.py) each keep an   *)
(* epoch for a workspace and one for each of its nodes.  A viewer command  *)
(* carries the client's epochs; the worker refuses an older one and the    *)
(* client drops an answer that is no longer of its epochs.  Three things   *)
(* advance them: an explicit invalidation, delivered and acknowledged; the *)
(* preflight of a prepared run, which both sides must commit; and a direct *)
(* start.  A worker that died takes its sessions with it.                  *)
(*                                                                         *)
(* One workspace and the process client.  Explicit invalidations are of    *)
(* the whole workspace, as all callers in the shell make them; a prepared  *)
(* run names its viewer nodes.  A node has one session.  What a session    *)
(* shows is its stamp: how many invalidations of its node the client had   *)
(* decided when the command that filled it was sent.  The trusted and the  *)
(* external participants of a commit, routing and payloads are left out.   *)
(***************************************************************************)
EXTENDS Integers, Sequences, FiniteSets

CONSTANTS
    Nodes,              \* viewer nodes of the workspace
    MaxCalls,           \* bound on viewer commands, invalidations and runs
    MaxCrashes          \* bound on deaths of the worker process

ASSUME EpochsAssumption ==
    /\ IsFiniteSet(Nodes)
    /\ MaxCalls \in Nat /\ MaxCrashes \in Nat

VARIABLES
    \* the client
    cws,            \* _workspace_viewer_epochs
    cnode,          \* _node_viewer_epochs, 0 for no entry
    waiting,        \* _pending_viewer_requests
    listed,         \* _viewer_session_ids: the stamp last shown, 0 for none
    deliveries,     \* _viewer_invalidation_deliveries
    inv,            \* the invalidation being delivered, under the delivery lock
    sending,        \* the viewer command being sent, under _start_lock
    disp,           \* the run being dispatched or running
    generation,     \* _catalog_generation_token
    accepted,       \* _accepted_physical_generation_token is that generation
    dispatched,     \* _physical_generation_run_dispatched
    \* the transport of the current generation
    alive,          \* the worker process
    commands,       \* its command queue
    events,         \* its event queue, as far as viewers are concerned
    \* the worker
    wws,            \* _workspace_invalidation_epochs
    wnode,          \* _node_invalidation_epochs
    sessions,       \* _sessions: state and stamp of each node's record
    used,           \* a context is installed, or native handles exist
    job,            \* the run the worker is in
    buffer,         \* _buffered_preflight_commands
    \* history
    calls,          \* calls made; a call's number is its request or run id
    crashes,        \* deaths of the worker
    covers,         \* invalidations of each node decided by the client, plus 1
    lost,           \* requests the worker discarded without an answer
    orphaned,       \* nodes of a commit the worker did not adopt
    missed          \* workspace epochs of direct starts that failed

clientVars == <<cws, cnode, waiting, listed, covers>>
callVars   == <<deliveries, inv, sending, disp, generation, accepted, dispatched>>
workerVars == <<wws, wnode, sessions, used, job, buffer, lost, orphaned, missed>>
countVars  == <<calls, crashes>>
vars == <<clientVars, callVars, workerVars, countVars, alive, commands, events>>

\* The commands of a session; materialize fills it like update.
Kinds  == {"open", "update", "query", "close"}
Phases == {"none", "reserved", "retiring", "retired", "checked", "ready",
           "direct", "ended", "posted"}

Zero   == [n \in Nodes |-> 0]
NoSnap == [run |-> 0, all |-> FALSE, nodes |-> {}, ws |-> 0, ne |-> Zero, gen |-> 0]
NoInv  == [id |-> 0, ws |-> 0, gen |-> 0]
NoSend == [kind |-> "none"]
NoRun  == [phase |-> "none", snap |-> NoSnap, stopped |-> FALSE]
NoJob  == [phase |-> "idle", snap |-> NoSnap]
NoSession == [state |-> "none", stamp |-> 0]

\* What a snapshot or an invalidation is about.
NodesOf(s) == IF s.all THEN Nodes ELSE s.nodes

\* Messages reach a worker that lives; a queue outlives the one that died.
Post(c) == commands' = IF alive THEN Append(commands, c) ELSE commands
Emit(e) == events' = Append(events, e)

(***************************************************************************)
(* The client retires the requests and the sessions of some nodes:         *)
(* _plan_viewer_invalidation_snapshot_locked and its application.          *)
(***************************************************************************)
Advance(all, nodes, ws, ne) ==
    LET hit == IF all THEN Nodes ELSE nodes IN
    /\ cws' = ws
    /\ cnode' = IF all THEN Zero
                       ELSE [n \in Nodes |-> IF n \in nodes THEN ne[n] ELSE cnode[n]]
    /\ waiting' = {w \in waiting : w.node \notin hit}
    /\ listed' = [n \in Nodes |-> IF n \in hit THEN 0 ELSE listed[n]]
    /\ covers' = [n \in Nodes |-> covers[n] + IF n \in hit THEN 1 ELSE 0]

(***************************************************************************)
(* The worker process: death, its detection by the listener once the event *)
(* queue is empty, and the start of a new one in _ensure_process, which    *)
(* drops what the dead generation knew.  Every delivery is failed on the   *)
(* way and stays in the table.  While a start is pending, the detection is *)
(* left to the caller that starts it.                                      *)
(***************************************************************************)
Pending == disp.phase \notin {"none", "posted"}
StartLockFree == disp.phase \notin {"retiring", "ready", "direct", "ended"}
Failed  == {[d EXCEPT !.failed = TRUE] : d \in deliveries}

Crash ==
    /\ alive /\ crashes < MaxCrashes
    /\ alive' = FALSE
    /\ commands' = <<>>
    /\ crashes' = crashes + 1
    /\ UNCHANGED <<clientVars, callVars, workerVars, calls, events>>

\* What becomes of the active run.
FailRunUnseen == UNCHANGED disp
FailRun       == disp' = NoRun

Health ==
    /\ ~alive /\ generation > 0 /\ accepted
    /\ events = <<>> /\ ~Pending
    /\ deliveries' = Failed
    /\ accepted' = FALSE
    /\ FailRun
    /\ UNCHANGED <<clientVars, inv, sending, generation, dispatched, workerVars,
                   countVars, alive, commands, events>>

\* _drop_stale_viewer_generation: a workspace nothing is known of keeps epoch 0.
DropGeneration ==
    /\ cws' = IF cws > 0 \/ waiting # {} \/ listed # Zero THEN cws + 1 ELSE cws
    /\ cnode' = Zero
    /\ waiting' = {}
    /\ listed' = Zero
    /\ covers' = [n \in Nodes |-> covers[n] + 1]

\* _install_physical_generation.
NextGenerationRetired == IF accepted THEN generation + 1 ELSE -1
NextGeneration        == generation + 1

Restart ==
    /\ ~alive /\ sending = NoSend
    /\ StartLockFree
    /\ IF generation > 0 /\ accepted /\ ~Pending
       THEN FailRun /\ deliveries' = Failed
       ELSE UNCHANGED <<disp, deliveries>>
    /\ IF generation > 0 THEN DropGeneration ELSE UNCHANGED clientVars
    /\ generation' = NextGeneration
    /\ accepted' = TRUE /\ dispatched' = FALSE
    /\ alive' = TRUE
    /\ commands' = <<>> /\ events' = <<>> /\ buffer' = <<>>
    /\ wws' = 0 /\ wnode' = Zero
    /\ sessions' = [n \in Nodes |-> NoSession]
    /\ used' = FALSE /\ job' = NoJob
    /\ lost' = {} /\ orphaned' = {} /\ missed' = {}
    /\ UNCHANGED <<inv, sending, countVars>>

(***************************************************************************)
(* invalidate_viewer_requests: the client's epochs advance at once; the    *)
(* command is posted next, still under the delivery lock.  A generation    *)
(* that changed in between fails the delivery, a dead one has nothing to   *)
(* forget.                                                                 *)
(***************************************************************************)
Invalidate ==
    /\ inv = NoInv /\ sending = NoSend /\ disp.phase \notin {"direct", "ended"}
    /\ calls < MaxCalls
    /\ calls' = calls + 1
    /\ Advance(TRUE, {}, cws + 1, Zero)
    /\ inv' = [id |-> calls + 1, ws |-> cws + 1, gen |-> generation]
    /\ deliveries' = deliveries \cup
         {[id |-> calls + 1, gen |-> generation, failed |-> FALSE]}
    /\ orphaned' = {}
    /\ UNCHANGED <<sending, disp, generation, accepted, dispatched, wws, wnode,
                   sessions, used, job, buffer, lost, missed, crashes,
                   alive, commands, events>>

Deliver ==
    LET mine == {d \in deliveries : d.id = inv.id} IN
    /\ inv # NoInv
    /\ inv' = NoInv
    /\ IF inv.gen # generation \/ ~accepted
       THEN /\ deliveries' = (deliveries \ mine)
                               \cup {[d EXCEPT !.failed = TRUE] : d \in mine}
            /\ UNCHANGED commands
       ELSE /\ deliveries' = IF alive THEN deliveries ELSE deliveries \ mine
            /\ Post([kind |-> "invalidate", id |-> inv.id, ws |-> inv.ws])
    /\ UNCHANGED <<clientVars, sending, disp, generation, accepted, dispatched,
                   workerVars, countVars, alive, events>>

(***************************************************************************)
(* _send_viewer_command, under _start_lock and the delivery lock: the      *)
(* epochs are read, the request is tracked and the command is posted.  The *)
(* listener takes neither lock: a commit comes between any two of these.   *)
(***************************************************************************)
ReadEpochs(kind, n) ==
    /\ alive /\ sending = NoSend /\ inv = NoInv /\ StartLockFree
    /\ calls < MaxCalls
    /\ calls' = calls + 1
    /\ sending' = [kind |-> kind, step |-> "read",
                   req |-> [id |-> calls + 1, node |-> n, ws |-> cws,
                            ne |-> cnode[n], stamp |-> covers[n]]]
    /\ UNCHANGED <<clientVars, deliveries, inv, disp, generation, accepted,
                   dispatched, workerVars, crashes, alive,
                   commands, events>>

Track ==
    /\ sending # NoSend /\ sending.step = "read"
    /\ waiting' = waiting \cup {sending.req}
    /\ sending' = [sending EXCEPT !.step = "tracked"]
    /\ UNCHANGED <<cws, cnode, listed, covers, deliveries, inv, disp, generation,
                   accepted, dispatched, workerVars, countVars, alive, commands,
                   events>>

Send ==
    /\ sending # NoSend /\ sending.step = "tracked"
    /\ sending' = NoSend
    /\ Post([kind |-> sending.kind, req |-> sending.req])
    /\ UNCHANGED <<clientVars, deliveries, inv, disp, generation, accepted,
                   dispatched, workerVars, countVars, alive, events>>

(***************************************************************************)
(* CorexRuntime.dispatch_prepared: reserve_run claims the client and       *)
(* reserve_viewer_invalidation takes the epochs the run will advance to;   *)
(* retire_workspace waits for the deliveries and sweeps the worker; the    *)
(* generation is compared; start_run, under _start_lock, starts a worker   *)
(* if there is none, looks at the deliveries again and posts the command.  *)
(* Any step before the last one may fail instead.                          *)
(***************************************************************************)
Snapshot(all, nodes) ==
    [run |-> calls + 1, all |-> all, nodes |-> nodes,
     ws |-> IF all THEN cws + 1 ELSE cws,
     ne |-> [n \in Nodes |-> IF n \in nodes THEN cnode[n] + 1 ELSE 0],
     gen |-> generation]

Reserve(nodes) ==
    /\ disp.phase = "none" /\ alive /\ sending = NoSend
    /\ calls < MaxCalls
    /\ calls' = calls + 1
    /\ disp' = [NoRun EXCEPT !.phase = "reserved", !.snap = Snapshot(FALSE, nodes)]
    /\ UNCHANGED <<clientVars, deliveries, inv, sending, generation, accepted,
                   dispatched, workerVars, crashes,
                   alive, commands, events>>

Retire ==
    /\ disp.phase = "reserved" /\ sending = NoSend
    /\ deliveries = {}
    /\ IF alive /\ dispatched
       THEN /\ disp' = [disp EXCEPT !.phase = "retiring"]
            /\ Post([kind |-> "retire", run |-> disp.snap.run])
       ELSE disp' = [disp EXCEPT !.phase = "retired"] /\ UNCHANGED commands
    /\ UNCHANGED <<clientVars, deliveries, inv, sending, generation, accepted,
                   dispatched, workerVars, countVars, alive, events>>

Check ==
    /\ disp.phase = "retired"
    /\ disp.snap.gen = generation /\ accepted
    /\ disp' = [disp EXCEPT !.phase = "checked"]
    /\ UNCHANGED <<clientVars, deliveries, inv, sending, generation, accepted,
                   dispatched, workerVars, countVars, alive, commands, events>>

\* start_run up to _assert_viewer_invalidations_ready; a direct run begins here.
Ready ==
    /\ disp.phase = "checked" /\ alive /\ sending = NoSend
    /\ deliveries = {}
    /\ disp' = [disp EXCEPT !.phase = "ready"]
    /\ dispatched' = TRUE
    /\ UNCHANGED <<clientVars, deliveries, inv, sending, generation, accepted,
                   workerVars, countVars, alive, commands, events>>

ReadyDirect ==
    /\ disp.phase = "none" /\ alive /\ sending = NoSend
    /\ calls < MaxCalls /\ deliveries = {}
    /\ calls' = calls + 1
    /\ disp' = [NoRun EXCEPT !.phase = "ready", !.snap = Snapshot(TRUE, {})]
    /\ dispatched' = TRUE
    /\ UNCHANGED <<clientVars, deliveries, inv, sending, generation, accepted,
                   workerVars, crashes, alive, commands,
                   events>>

\* _dispatch_start_run_with_viewer_invalidation.
PostPrepared ==
    /\ disp.phase = "ready" /\ ~disp.snap.all
    /\ disp' = [disp EXCEPT !.phase = "posted"]
    /\ Post([kind |-> "start", snap |-> disp.snap])
    /\ UNCHANGED <<clientVars, deliveries, inv, sending, generation, accepted,
                   dispatched, workerVars, countVars, alive, events>>

\* A direct start reads its epoch under the delivery lock, and commits it
\* after the command is posted: by then the run may have ended.
PostDirect ==
    LET snap == [disp.snap EXCEPT !.ws = cws + 1] IN
    /\ disp.phase = "ready" /\ disp.snap.all /\ inv = NoInv
    /\ disp' = [disp EXCEPT !.phase = "direct", !.snap = snap]
    /\ Post([kind |-> "start", snap |-> snap])
    /\ UNCHANGED <<clientVars, deliveries, inv, sending, generation, accepted,
                   dispatched, workerVars, countVars, alive, events>>

CommitDirect ==
    /\ disp.phase \in {"direct", "ended"}
    /\ Advance(TRUE, {}, disp.snap.ws, Zero)
    /\ disp' = IF disp.phase = "ended" THEN NoRun ELSE [disp EXCEPT !.phase = "posted"]
    /\ orphaned' = {}
    /\ UNCHANGED <<deliveries, inv, sending, generation, accepted, dispatched,
                   wws, wnode, sessions, used, job, buffer, lost, missed,
                   countVars, alive, commands, events>>

DispatchFails ==
    /\ disp.phase \in {"reserved", "retiring", "retired", "checked", "ready"}
    /\ disp' = NoRun
    /\ UNCHANGED <<clientVars, deliveries, inv, sending, generation, accepted,
                   dispatched, workerVars, countVars, alive, commands, events>>

\* stop_run: nothing refuses a run whose preflight is not committed.
Stop ==
    /\ disp.phase = "posted" /\ ~disp.stopped
    /\ disp' = [disp EXCEPT !.stopped = TRUE]
    /\ Post([kind |-> "stop", run |-> disp.snap.run])
    /\ UNCHANGED <<clientVars, deliveries, inv, sending, generation, accepted,
                   dispatched, workerVars, countVars, alive, events>>

(***************************************************************************)
(* validate_invalidation_snapshot and adopt_invalidation_snapshot.  A      *)
(* scoped snapshot of a later workspace epoch is a baseline: only a worker *)
(* that has nothing yet may take it, and no viewer command may have come   *)
(* first.                                                                  *)
(***************************************************************************)
Fresh ==
    /\ wws = 0 /\ wnode = Zero /\ ~used
    /\ \A n \in Nodes : sessions[n].state = "none"

Valid(s, buffered) ==
    IF s.all THEN s.ws > wws
    ELSE \/ s.ws > wws /\ Fresh /\ ~buffered
         \/ s.ws = wws /\ \A n \in s.nodes : s.ne[n] = wnode[n] + 1

\* _invalidate_records: what the records of some nodes become.
Invalidated(ns) ==
    [n \in Nodes |-> IF n \in ns /\ sessions[n].state # "none"
                     THEN [sessions[n] EXCEPT !.state = "invalid"]
                     ELSE sessions[n]]

AdoptEpochsKeepingNodes(s) ==
    /\ wws' = s.ws
    /\ wnode' = [n \in Nodes |-> IF n \in s.nodes THEN s.ne[n] ELSE wnode[n]]

AdoptEpochs(s) ==
    /\ wws' = s.ws
    /\ wnode' = IF s.all THEN Zero
                ELSE [n \in Nodes |-> IF n \in s.nodes THEN s.ne[n] ELSE wnode[n]]

AdoptUnseen(s) == AdoptEpochs(s) /\ UNCHANGED sessions

Adopt(s) ==
    /\ AdoptEpochs(s)
    /\ sessions' = Invalidated(NodesOf(s))

\* The worker takes the next command of a kind.
Take(kinds) ==
    /\ alive /\ commands # <<>>
    /\ Head(commands).kind \in kinds
    /\ commands' = Tail(commands)

Ended(run) == Emit([kind |-> "ended", run |-> run])

(***************************************************************************)
(* A viewer command: _command_for_current_epoch, then the operation.  An   *)
(* operation on a node without a record fails; any operation may fail, and *)
(* a close that fails to clean up is closed all the same.                  *)
(***************************************************************************)
Answer(c, result) ==
    Emit([kind |-> "answer", req |-> c.req, result |-> result])

Newer(r) == r.ws > wws \/ (r.ws = wws /\ r.ne >= wnode[r.node])

Operated(kind, r, done, old) ==
    CASE kind = "open" ->
             IF done \/ old.state = "none"
             THEN [state |-> "open", stamp |-> r.stamp] ELSE old
      [] kind = "update" ->
             IF done THEN [state |-> "open", stamp |-> r.stamp] ELSE old
      [] kind = "query" -> old
      [] kind = "close" ->
             IF old.state = "none" THEN old ELSE [old EXCEPT !.state = "closed"]

Execute(c) ==
    LET r    == c.req
        kept == IF r.ws > wws THEN Invalidated(Nodes)
                ELSE IF r.ne > wnode[r.node] THEN Invalidated({r.node})
                ELSE sessions
    IN \/ /\ ~Newer(r)
          /\ Answer(c, "stale")
          /\ UNCHANGED <<wws, wnode, sessions>>
       \/ /\ Newer(r)
          /\ wws' = r.ws
          /\ wnode' = [n \in Nodes |-> IF n = r.node THEN r.ne
                                       ELSE IF r.ws > wws THEN 0 ELSE wnode[n]]
          /\ \E done \in BOOLEAN :
               /\ done => c.kind = "open" \/ kept[r.node].state # "none"
               /\ sessions' = [kept EXCEPT ![r.node] = Operated(c.kind, r, done, @)]
               /\ Answer(c, IF ~done THEN "failed"
                            ELSE IF c.kind = "close" THEN "closed" ELSE "shown")

ServeViewer ==
    /\ job.phase \in {"idle", "running"}
    /\ Take(Kinds)
    /\ Execute(Head(commands))
    /\ UNCHANGED <<clientVars, callVars, countVars, used, job, buffer, lost,
                   orphaned, missed, alive>>

\* _await_run_preflight_commit keeps viewer commands for later.
BufferedLast(c) == <<c>>
Buffered(c)     == Append(buffer, c)

BufferViewer ==
    /\ job.phase = "preflight"
    /\ Take(Kinds)
    /\ buffer' = Buffered(Head(commands))
    /\ UNCHANGED <<clientVars, callVars, countVars, wws, wnode, sessions, used,
                   job, lost, orphaned, missed, alive, events>>

\* _dispatch_buffered_preflight_commands.
FlushViewer ==
    /\ alive /\ job.phase = "flush"
    /\ IF buffer = <<>>
       THEN /\ job' = [job EXCEPT !.phase = "running"]
            /\ UNCHANGED <<wws, wnode, sessions, buffer, events>>
       ELSE /\ Execute(Head(buffer))
            /\ buffer' = Tail(buffer)
            /\ UNCHANGED job
    /\ UNCHANGED <<clientVars, callVars, countVars, used, lost, orphaned, missed,
                   alive, commands>>

\* dispatch_viewer_invalidation, in the loop of worker.py and during a run.
ServeInvalidate ==
    LET c == Head(commands)
        s == [NoSnap EXCEPT !.all = TRUE, !.ws = c.ws]
    IN /\ job.phase # "flush"
       /\ Take({"invalidate"})
       /\ IF Valid(s, FALSE)
          THEN Adopt(s) /\ Emit([kind |-> "invalidated", id |-> c.id])
          ELSE /\ Emit([kind |-> "refused", id |-> c.id])
               /\ UNCHANGED <<wws, wnode, sessions>>
       /\ UNCHANGED <<clientVars, callVars, countVars, used, job, buffer, lost,
                      orphaned, missed, alive>>

ServeRetire ==
    /\ job.phase # "flush"
    /\ Take({"retire"})
    /\ Emit([kind |-> "retired", run |-> Head(commands).run])
    /\ UNCHANGED <<clientVars, callVars, countVars, workerVars, alive>>

(***************************************************************************)
(* A run: the snapshot is validated when the runner is built.  A prepared  *)
(* run then offers it and waits for the client's commit; a direct run      *)
(* adopts it at once.  Any start may fail before that: its payload, its    *)
(* catalog or its preparation is rejected, and nothing is adopted, whether *)
(* or not the client commits.                                              *)
(***************************************************************************)
Offered(s) == Emit([kind |-> "accepted", run |-> s.run])

OfferAdopted(s) == Offered(s) /\ Adopt(s) /\ UNCHANGED used
Offer(s)        == Offered(s) /\ UNCHANGED <<wws, wnode, sessions, used>>

StartFails(s) ==
    /\ Ended(s.run)
    /\ missed' = missed \cup {ws \in {s.ws} : s.all}
    /\ UNCHANGED <<wws, wnode, sessions, used, job>>

StartRuns(s) ==
    /\ Adopt(s) /\ used' = TRUE
    /\ job' = [phase |-> "running", snap |-> s]
    /\ UNCHANGED <<missed, events>>

StartOffers(s) ==
    /\ job' = [phase |-> "preflight", snap |-> s]
    /\ Offer(s)
    /\ UNCHANGED missed

ServeStart ==
    LET s == Head(commands).snap IN
    /\ job.phase = "idle"
    /\ Take({"start"})
    /\ \/ StartFails(s)
       \/ s.all /\ Valid(s, FALSE) /\ StartRuns(s)
       \/ ~s.all /\ Valid(s, FALSE) /\ StartOffers(s)
    /\ UNCHANGED <<clientVars, callVars, countVars, buffer, lost, orphaned, alive>>

\* The preflight ends without a run: what was buffered is never answered.
GiveUp ==
    /\ job' = NoJob
    /\ buffer' = <<>>
    /\ lost' = lost \cup {buffer[i].req.id : i \in DOMAIN buffer}
    /\ Ended(job.snap.run)
    /\ UNCHANGED <<wws, wnode, sessions, used>>

ServeCommit ==
    LET s == job.snap IN
    /\ job.phase = "preflight"
    /\ Take({"commit"})
    /\ Head(commands).snap.run = s.run
    /\ IF Valid(s, buffer # <<>>)
       THEN /\ Adopt(s) /\ used' = TRUE
            /\ job' = [job EXCEPT !.phase = "flush"]
            /\ UNCHANGED <<buffer, lost, orphaned, events>>
       ELSE /\ GiveUp
            /\ orphaned' = orphaned \cup s.nodes
    /\ UNCHANGED <<clientVars, callVars, countVars, missed, alive>>

\* A cancel, a stop, or no commit in 30 seconds.
ServeCancel ==
    /\ job.phase = "preflight"
    /\ Take({"cancel", "stop"})
    /\ GiveUp
    /\ UNCHANGED <<clientVars, callVars, countVars, orphaned, missed, alive>>

PreflightTimeout ==
    /\ alive /\ job.phase = "preflight"
    /\ GiveUp
    /\ UNCHANGED <<clientVars, callVars, countVars, orphaned, missed, alive,
                   commands>>

\* A commit that comes when the worker waits for none is an unknown command.
ServeLate ==
    LET c == Head(commands) IN
    /\ job.phase \in {"idle", "running"}
    /\ Take({"commit", "cancel", "stop"})
    /\ orphaned' = IF c.kind = "commit" THEN orphaned \cup c.snap.nodes ELSE orphaned
    /\ UNCHANGED <<clientVars, callVars, countVars, wws, wnode, sessions, used,
                   job, buffer, lost, missed, alive, events>>

EndRun ==
    /\ alive /\ job.phase = "running"
    /\ job' = NoJob
    /\ Ended(job.snap.run)
    /\ UNCHANGED <<clientVars, callVars, countVars, wws, wnode, sessions, used,
                   buffer, lost, orphaned, missed, alive, commands>>

\* A run of another workspace leaves native handles in the worker.
OtherRun ==
    /\ alive /\ job.phase = "idle" /\ disp.phase = "none" /\ ~used
    /\ used' = TRUE
    /\ UNCHANGED <<clientVars, callVars, countVars, wws, wnode, sessions, job,
                   buffer, lost, orphaned, missed, alive, commands, events>>

(***************************************************************************)
(* The listener.  Events of a generation that is not accepted any more are *)
(* dropped.                                                                *)
(***************************************************************************)
Receive(kinds) ==
    /\ accepted /\ events # <<>>
    /\ Head(events).kind \in kinds
    /\ events' = Tail(events)

\* _record_viewer_response_state.
CurrentAnswerOfWorkspace(e) == e.req.ws = cws

CurrentAnswer(e) ==
    /\ e.req.ws = cws /\ e.req.ne = cnode[e.req.node]
    /\ e.req \in waiting

ReceiveAnswer ==
    LET e == Head(events) IN
    /\ Receive({"answer"})
    /\ IF CurrentAnswer(e)
       THEN /\ waiting' = waiting \ {e.req}
            /\ listed' = [listed EXCEPT ![e.req.node] =
                            CASE e.result = "shown"  -> e.req.stamp
                              [] e.result = "closed" -> 0
                              [] OTHER               -> @]
       ELSE UNCHANGED <<waiting, listed>>
    /\ UNCHANGED <<cws, cnode, covers, callVars, workerVars, countVars, alive,
                   commands>>

\* _record_viewer_invalidation_ack: a refusal stays in the table as an error.
ReceiveAck ==
    LET e == Head(events)
        mine == {d \in deliveries : d.id = e.id}
    IN /\ Receive({"invalidated", "refused"})
       /\ deliveries' = (deliveries \ mine)
                           \cup {[d EXCEPT !.failed = TRUE] :
                                   d \in {x \in mine : e.kind = "refused"}}
       /\ UNCHANGED <<clientVars, inv, sending, disp, generation, accepted,
                      dispatched, workerVars, countVars, alive, commands>>

ReceiveRetired ==
    /\ Receive({"retired"})
    /\ disp' = IF disp.phase = "retiring" /\ Head(events).run = disp.snap.run
               THEN [disp EXCEPT !.phase = "retired"] ELSE disp
    /\ UNCHANGED <<clientVars, deliveries, inv, sending, generation, accepted,
                   dispatched, workerVars, countVars, alive, commands>>

(***************************************************************************)
(* run_preflight_accepted: commit_viewer_invalidation, which excludes an   *)
(* explicit invalidation and takes the locks of every participant.  The    *)
(* plan holds if the epochs are still those of the reservation; then the   *)
(* commit is posted and the epochs advance.  Otherwise a cancel is posted. *)
(***************************************************************************)
PlanHolds(s) ==
    /\ s.gen = generation /\ s.ws = cws
    /\ \A n \in s.nodes : s.ne[n] = cnode[n] + 1

ReceiveAccepted ==
    LET s == disp.snap IN
    /\ inv = NoInv
    /\ Receive({"accepted"})
    /\ IF disp.phase # "posted" \/ s.run # Head(events).run
       THEN UNCHANGED <<clientVars, commands>>
       ELSE IF PlanHolds(s)
       THEN Advance(FALSE, s.nodes, s.ws, s.ne) /\ Post([kind |-> "commit", snap |-> s])
       ELSE Post([kind |-> "cancel", run |-> s.run]) /\ UNCHANGED clientVars
    /\ UNCHANGED <<callVars, workerVars, countVars, alive>>

ReceiveEnded ==
    /\ Receive({"ended"})
    /\ disp' = IF disp.snap.run # Head(events).run THEN disp
               ELSE CASE disp.phase = "posted" -> NoRun
                      [] disp.phase = "direct" -> [disp EXCEPT !.phase = "ended"]
                      [] OTHER                 -> disp
    /\ UNCHANGED <<clientVars, deliveries, inv, sending, generation, accepted,
                   dispatched, workerVars, countVars, alive, commands>>

Init ==
    /\ cws = 0 /\ cnode = Zero /\ waiting = {} /\ listed = Zero
    /\ covers = [n \in Nodes |-> 1]
    /\ deliveries = {} /\ inv = NoInv /\ sending = NoSend /\ disp = NoRun
    /\ generation = 0 /\ accepted = TRUE /\ dispatched = FALSE
    /\ alive = FALSE /\ commands = <<>> /\ events = <<>>
    /\ wws = 0 /\ wnode = Zero /\ sessions = [n \in Nodes |-> NoSession]
    /\ used = FALSE /\ job = NoJob /\ buffer = <<>>
    /\ calls = 0 /\ crashes = 0
    /\ lost = {} /\ orphaned = {} /\ missed = {}

Dispatcher == Retire \/ Check \/ Ready \/ PostPrepared \/ PostDirect
                \/ CommitDirect \/ DispatchFails
Worker == \/ ServeViewer \/ BufferViewer \/ FlushViewer \/ ServeInvalidate
          \/ ServeRetire \/ ServeStart \/ ServeCommit \/ ServeCancel \/ ServeLate
Listener == \/ ReceiveAnswer \/ ReceiveAck \/ ReceiveRetired \/ ReceiveAccepted
            \/ ReceiveEnded

Next ==
    \/ Crash \/ Health \/ Restart
    \/ Invalidate \/ Deliver
    \/ \E kind \in Kinds, n \in Nodes : ReadEpochs(kind, n)
    \/ Track \/ Send
    \/ \E nodes \in SUBSET Nodes : Reserve(nodes)
    \/ ReadyDirect \/ Dispatcher \/ Stop
    \/ Worker \/ PreflightTimeout \/ EndRun \/ OtherRun
    \/ Listener

(***************************************************************************)
(* The worker loop, the listener and its health check, the threads that    *)
(* dispatch and deliver, and the timeouts run; a run ends.                 *)
(***************************************************************************)
Fairness ==
    /\ WF_vars(Worker) /\ WF_vars(Listener) /\ WF_vars(Health)
    /\ WF_vars(Dispatcher) /\ WF_vars(Deliver)
    /\ WF_vars(PreflightTimeout) /\ WF_vars(EndRun)

Spec == Init /\ [][Next]_vars /\ Fairness

-----------------------------------------------------------------------------
Requests == [id : 1 .. MaxCalls, node : Nodes, ws : Nat, ne : Nat, stamp : Nat \ {0}]
Snapshots == [run : 0 .. MaxCalls, all : BOOLEAN, nodes : SUBSET Nodes, ws : Nat,
              ne : [Nodes -> Nat], gen : Nat]
ViewerCommands == [kind : Kinds, req : Requests]
Commands ==
    ViewerCommands
      \cup [kind : {"invalidate"}, id : 1 .. MaxCalls, ws : Nat]
      \cup [kind : {"retire", "cancel", "stop"}, run : 1 .. MaxCalls]
      \cup [kind : {"start", "commit"}, snap : Snapshots]
Events ==
    [kind : {"answer"}, req : Requests,
     result : {"shown", "closed", "failed", "stale"}]
      \cup [kind : {"invalidated", "refused"}, id : 1 .. MaxCalls]
      \cup [kind : {"retired", "accepted", "ended"}, run : 0 .. MaxCalls]

\* Types of the state.
TypeOK ==
    /\ cws \in Nat /\ cnode \in [Nodes -> Nat] /\ waiting \subseteq Requests
    /\ listed \in [Nodes -> Nat] /\ covers \in [Nodes -> Nat \ {0}]
    /\ deliveries \subseteq [id : 1 .. MaxCalls, gen : Nat, failed : BOOLEAN]
    /\ inv \in [id : 0 .. MaxCalls, ws : Nat, gen : Nat]
    /\ sending \in {NoSend} \cup [kind : Kinds, step : {"read", "tracked"}, req : Requests]
    /\ disp \in [phase : Phases, snap : Snapshots, stopped : BOOLEAN]
    /\ generation \in Nat /\ accepted \in BOOLEAN /\ dispatched \in BOOLEAN
    /\ alive \in BOOLEAN /\ commands \in Seq(Commands) /\ events \in Seq(Events)
    /\ wws \in Nat /\ wnode \in [Nodes -> Nat]
    /\ sessions \in [Nodes -> [state : {"none", "open", "closed", "invalid"}, stamp : Nat]]
    /\ used \in BOOLEAN
    /\ job \in [phase : {"idle", "preflight", "flush", "running"}, snap : Snapshots]
    /\ buffer \in Seq(ViewerCommands)
    /\ lost \subseteq 1 .. MaxCalls /\ orphaned \subseteq Nodes /\ missed \subseteq Nat
    /\ calls \in 0 .. MaxCalls /\ crashes \in 0 .. MaxCrashes

\* A commit the worker has not read.
CommitComing(n) ==
    \E i \in DOMAIN commands : /\ commands[i].kind = "commit"
                              /\ n \in commands[i].snap.nodes

\* A message that will make the worker forget all it has.
GlobalComing ==
    \/ inv # NoInv
    \/ \E i \in DOMAIN commands :
         \/ commands[i].kind = "invalidate" /\ commands[i].ws > wws
         \/ commands[i].kind = "start" /\ commands[i].snap.ws > wws

(***************************************************************************)
(* A session the client lists shows results no invalidation has since      *)
(* covered: an answer that was computed before a rerun, an invalidation or *)
(* the death of its worker never lists its session again.                  *)
(***************************************************************************)
ListedIsCurrent == \A n \in Nodes : listed[n] # 0 => listed[n] = covers[n]

(***************************************************************************)
(* The worker keeps no session open whose results the client has declared  *)
(* stale, except while the message that says so is on its way, when the    *)
(* client committed a preflight the worker had given up, or until it hears *)
(* of the workspace epoch of a direct start that failed.                   *)
(***************************************************************************)
ServedIsCurrent ==
    \A n \in Nodes :
        alive /\ sessions[n].state = "open" /\ sessions[n].stamp < covers[n]
          => \/ GlobalComing \/ CommitComing(n) \/ n \in orphaned
             \/ \E epoch \in missed : wws < epoch

(***************************************************************************)
(* Nothing is waited for in vain, as long as the worker lives: a request   *)
(* of the present epochs is on its way, or among those a preflight that    *)
(* was given up discarded, and it is never refused as stale; a delivery is *)
(* on its way, and none fails but with its generation.                     *)
(***************************************************************************)
Accounted ==
    alive =>
      /\ \A w \in waiting :
           \/ w.ws # cws \/ w.ne # cnode[w.node]
           \/ w.id \in lost
           \/ sending # NoSend /\ sending.req = w
           \/ \E i \in DOMAIN commands : commands[i].kind \in Kinds /\ commands[i].req = w
           \/ \E i \in DOMAIN buffer : buffer[i].req = w
           \/ \E i \in DOMAIN events : events[i].kind = "answer" /\ events[i].req = w
      /\ \A i \in DOMAIN events :
           events[i].kind = "answer" /\ events[i].result = "stale"
             => ~CurrentAnswer(events[i])
      /\ \A d \in deliveries :
           \/ d.gen # generation
           \/ inv.id = d.id
           \/ \E i \in DOMAIN commands : commands[i].kind = "invalidate" /\ commands[i].id = d.id
           \/ \E i \in DOMAIN events : events[i].kind = "invalidated" /\ events[i].id = d.id

(***************************************************************************)
(* The two copies of the epochs: the worker's are never ahead, except for  *)
(* a direct start the client is about to commit; in the same workspace     *)
(* epoch they are equal, except for a commit on its way or one the worker  *)
(* did not adopt.                                                          *)
(***************************************************************************)
EpochsAgree ==
    alive =>
      /\ wws <= cws \/ (disp.phase \in {"direct", "ended"} /\ wws = disp.snap.ws)
      /\ wws = cws =>
           \A n \in Nodes :
             \/ wnode[n] = cnode[n]
             \/ wnode[n] < cnode[n] /\ (CommitComing(n) \/ n \in orphaned)

(***************************************************************************)
(* Every dispatch is over in the end, whether the worker dies, the epochs  *)
(* move under its reservation or its commit is never adopted.              *)
(***************************************************************************)
DispatchSettles == disp.phase # "none" ~> disp.phase = "none"
=============================================================================
