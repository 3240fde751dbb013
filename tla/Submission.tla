----------------------------- MODULE Submission -----------------------------
(***************************************************************************)
(* Queued submission: ExecutionSubmissionService and SubmissionHandle      *)
(* (execution/submission_service.py) with the parts of CorexRuntime they   *)
(* call, prepare_execution, dispatch_prepared, reset_project_session and   *)
(* shutdown (execution/runtime.py), and the claim that SolutionStore gives *)
(* one dispatcher (execution/solution_store.py).                           *)
(*                                                                         *)
(* One executor thread takes tasks from a FIFO: a submission, a stop that  *)
(* was scheduled for a run, or the cleanup of shutdown.  Other threads     *)
(* submit, cancel, edit the workspace, replace the project and shut down   *)
(* while it works.  Each lock is held for one block of code, which is one  *)
(* action, except _lifecycle_lock, which reset_project_session and the     *)
(* final acceptance of dispatch_prepared hold while cancellation goes on   *)
(* elsewhere: `lifecycle' says who holds it.  The transport is a FIFO of   *)
(* commands to one worker, which serves one run at a time.                 *)
(***************************************************************************)
EXTENDS Naturals, Sequences, FiniteSets

CONSTANTS
    Handles,      \* submissions, by their SubmissionHandle
    NoHandle,
    Breaks,       \* the calls of a submission that may raise
    MaxChanges    \* bound on edits, resets and detachments together

ASSUME SubmissionAssumption ==
    /\ NoHandle \notin Handles
    /\ Breaks \subseteq {"compute", "reserve", "retire", "start"}
    /\ MaxChanges \in Nat

VARIABLES
    state,        \* handle -> _state, "new" before submit
    cancelled,    \* the handles whose cancellation event is set
    owing,        \* handles whose cancel() has still to call _schedule_stop
    pending,      \* _pending
    closed,       \* _closed
    queue,        \* tasks of the executor, first in first out
    step,         \* where the executor thread is
    current,      \* the handle it works for
    error,        \* the exception on its way: "cancelled", "stale", "other"
    result,       \* handle -> what _result holds
    stream,       \* handle -> its events on the event stream, in order
    lifecycle,    \* the holder of _lifecycle_lock between two steps
    shutdown,     \* _shutdown_requested
    sweep,        \* handles cancel_pending or shutdown have yet to cancel
    epoch,        \* binding revision, namespace and workspace revision
    stamp,        \* handle -> the epoch its request was captured in
    prep,         \* handle -> its preparation in the store
    stored,       \* handles with a run entry in the store
    reserved,     \* handles that hold the client's run reservation
    run,          \* handle -> its run as transport and worker see it
    wire,         \* commands written to the worker and not yet served
    cleaned       \* _finish_shutdown has run

handleVars  == <<state, cancelled, owing, result, stamp>>
serviceVars == <<pending, closed, queue, step, current, error>>
runtimeVars == <<lifecycle, shutdown, sweep, epoch, cleaned>>
storeVars   == <<prep, stored, reserved>>
clientVars  == <<run, wire, stream>>
vars == <<handleVars, serviceVars, runtimeVars, storeVars, clientVars>>

States  == {"new", "queued", "preparing", "admitted", "dispatched",
            "cancelled", "failed"}
Tasks   == [do : {"submission", "stop"}, handle : Handles]
           \cup [do : {"cleanup"}, handle : {NoHandle}]
Steps   == {"idle", "begin", "check", "compute", "register", "handover",
            "claim", "reserve", "reserved", "retire", "accept", "admit",
            "announce", "announced", "start", "started", "stop", "unwind",
            "fail", "discard", "leave", "settle", "scheduled", "cleanup"}
Events  == {"admitted", "started", "ended", "refused"}

Init ==
    /\ state = [h \in Handles |-> "new"]
    /\ cancelled = {} /\ owing = {} /\ pending = {} /\ closed = FALSE
    /\ queue = <<>> /\ step = "idle" /\ current = NoHandle /\ error = "none"
    /\ result = [h \in Handles |-> "none"]
    /\ stream = [h \in Handles |-> <<>>]
    /\ lifecycle = "free" /\ shutdown = FALSE /\ sweep = {}
    /\ epoch = [binding |-> 0, revision |-> 0]
    /\ stamp = [h \in Handles |-> epoch]
    /\ prep = [h \in Handles |-> "none"] /\ stored = {} /\ reserved = {}
    /\ run = [h \in Handles |-> "none"] /\ wire = <<>> /\ cleaned = FALSE

-------------------------------------------------------------------------------
(***************************************************************************)
(* The callers.                                                            *)
(***************************************************************************)

(* submit_execution: the capture is checked against the binding and queued *)
(* under the lifecycle lock.                                               *)
Submit(h) ==
    /\ state[h] = "new" /\ lifecycle = "free" /\ ~shutdown /\ ~closed
    /\ state' = [state EXCEPT ![h] = "queued"]
    /\ stamp' = [stamp EXCEPT ![h] = epoch]
    /\ pending' = pending \cup {h}
    /\ queue' = Append(queue, [do |-> "submission", handle |-> h])
    /\ UNCHANGED <<cancelled, owing, result, closed, step, current, error,
                   runtimeVars, storeVars, clientVars>>

(* The run cancel() has to stop, besides setting the event.                *)
HasAdmittedRun(h) == state[h] \in {"admitted", "dispatched"}

HasRun(h) == state[h] = "dispatched"

Cancellable(h) == h \notin cancelled /\ state[h] \notin {"cancelled", "failed"}

(* cancel: the event is set under the handle's lock; a run that was        *)
(* dispatched is stopped by a later call, ScheduleStop.                    *)
CancelHandle(h) ==
    IF Cancellable(h)
    THEN /\ cancelled' = cancelled \cup {h}
         /\ owing' = IF HasRun(h) THEN owing \cup {h} ELSE owing
    ELSE UNCHANGED <<cancelled, owing>>

Cancel(h) ==
    /\ state[h] # "new" /\ Cancellable(h)
    /\ CancelHandle(h)
    /\ UNCHANGED <<state, result, stamp, serviceVars, runtimeVars, storeVars,
                   clientVars>>

(* _schedule_stop drops the stop once the service is closed: the cleanup   *)
(* queued by shutdown ends the worker.                                     *)
ScheduleStop(h) ==
    /\ h \in owing
    /\ owing' = owing \ {h}
    /\ queue' = IF closed THEN queue
                ELSE Append(queue, [do |-> "stop", handle |-> h])
    /\ UNCHANGED <<state, cancelled, result, stamp, pending, closed, step,
                   current, error, runtimeVars, storeVars, clientVars>>

Changes == epoch.binding + epoch.revision

(* invalidate_solution: an edit moves the workspace revision on.           *)
Edit ==
    /\ lifecycle = "free" /\ ~shutdown /\ Changes < MaxChanges
    /\ epoch' = [epoch EXCEPT !.revision = @ + 1]
    /\ UNCHANGED <<handleVars, serviceVars, lifecycle, shutdown, sweep,
                   cleaned, storeVars, clientVars>>

(* reset_project_session takes the lifecycle lock, cancels what is pending *)
(* and then clears the store under a new binding.                          *)
BeginReset ==
    /\ lifecycle = "free" /\ sweep = {} /\ Changes < MaxChanges
    /\ lifecycle' = "reset" /\ sweep' = pending
    /\ UNCHANGED <<handleVars, serviceVars, shutdown, epoch, cleaned,
                   storeVars, clientVars>>

Sweep(h) ==
    /\ h \in sweep
    /\ sweep' = sweep \ {h}
    /\ CancelHandle(h)
    /\ UNCHANGED <<state, result, stamp, serviceVars, lifecycle, shutdown,
                   epoch, cleaned, storeVars, clientVars>>

(* SolutionStore._clear_locked.                                            *)
ClearStore ==
    /\ prep' = [h \in Handles |-> "none"]
    /\ stored' = {}

FinishReset ==
    /\ lifecycle = "reset" /\ sweep = {}
    /\ lifecycle' = "free"
    /\ epoch' = [epoch EXCEPT !.binding = @ + 1]
    /\ ClearStore
    /\ UNCHANGED <<handleVars, serviceVars, shutdown, sweep, cleaned,
                   reserved, clientVars>>

(* detach_project_solution_store does the same and cancels nothing.        *)
Detach ==
    /\ lifecycle = "free" /\ Changes < MaxChanges
    /\ epoch' = [epoch EXCEPT !.binding = @ + 1]
    /\ ClearStore
    /\ UNCHANGED <<handleVars, serviceVars, lifecycle, shutdown, sweep,
                   cleaned, reserved, clientVars>>

RequestShutdown ==
    /\ lifecycle = "free" /\ ~shutdown
    /\ shutdown' = TRUE
    /\ epoch' = [epoch EXCEPT !.binding = @ + 1]
    /\ UNCHANGED <<handleVars, serviceVars, lifecycle, sweep, cleaned,
                   storeVars, clientVars>>

(* The tasks the executor still has when the service closes: every one of  *)
(* them is kept and the cleanup follows.                                   *)
DrainedCancelling(tasks) == <<[do |-> "cleanup", handle |-> NoHandle]>>

DrainedLast(tasks) == <<[do |-> "cleanup", handle |-> NoHandle]>> \o tasks

Drained(tasks) == Append(tasks, [do |-> "cleanup", handle |-> NoHandle])

(* ExecutionSubmissionService.shutdown.                                    *)
Close ==
    /\ shutdown /\ ~closed
    /\ closed' = TRUE
    /\ queue' = Drained(queue)
    /\ sweep' = sweep \cup pending
    /\ UNCHANGED <<handleVars, pending, step, current, error, lifecycle,
                   shutdown, epoch, cleaned, storeVars, clientVars>>

-------------------------------------------------------------------------------
(***************************************************************************)
(* The executor thread.  It is at `step' with the handle `current'.        *)
(***************************************************************************)

At(s) == step = s
Go(s) == step' = s

(* An exception goes to the unwinding at step s.                           *)
Raise(e, s) == error' = e /\ Go(s)

Cancelled == current \in cancelled

Take ==
    /\ At("idle") /\ queue # <<>>
    /\ queue' = Tail(queue) /\ current' = Head(queue).handle
    /\ Go(CASE Head(queue).do = "submission" -> "begin"
            [] Head(queue).do = "stop"       -> "scheduled"
            [] Head(queue).do = "cleanup"    -> "cleanup")
    /\ UNCHANGED <<handleVars, pending, closed, error, runtimeVars, storeVars,
                   clientVars>>

(* _begin.                                                                 *)
Begin ==
    /\ At("begin")
    /\ IF Cancelled
       THEN Raise("cancelled", "fail") /\ UNCHANGED state
       ELSE /\ state' = [state EXCEPT ![current] = "preparing"]
            /\ Go("check") /\ UNCHANGED error
    /\ UNCHANGED <<cancelled, owing, result, stamp, pending, closed, queue,
                   current, runtimeVars, storeVars, clientVars>>

(* _check_preparation_binding, and whether the workspace is the one that   *)
(* was captured.                                                           *)
BindingChanged == shutdown \/ stamp[current].binding # epoch.binding

FreshUnlessEdited == ~BindingChanged

Fresh == ~BindingChanged /\ stamp[current].revision = epoch.revision

(* prepare_execution before and after the computation of the candidate.    *)
CheckCapture ==
    /\ At("check") /\ lifecycle = "free"
    /\ IF Cancelled THEN Raise("cancelled", "fail")
       ELSE IF ~Fresh THEN Raise("stale", "fail")
       ELSE Go("compute") /\ UNCHANGED error
    /\ UNCHANGED <<handleVars, pending, closed, queue, current, runtimeVars,
                   storeVars, clientVars>>

Compute ==
    /\ At("compute")
    /\ \/ Go("register") /\ UNCHANGED error
       \/ "compute" \in Breaks /\ Raise("other", "fail")
       \/ Cancelled /\ Raise("cancelled", "fail")
    /\ UNCHANGED <<handleVars, pending, closed, queue, current, runtimeVars,
                   storeVars, clientVars>>

Register ==
    /\ At("register") /\ lifecycle = "free"
    /\ IF Cancelled THEN Raise("cancelled", "fail") /\ UNCHANGED prep
       ELSE IF ~Fresh THEN Raise("stale", "fail") /\ UNCHANGED prep
       ELSE /\ prep' = [prep EXCEPT ![current] = "registered"]
            /\ Go("handover") /\ UNCHANGED error
    /\ UNCHANGED <<handleVars, pending, closed, queue, current, runtimeVars,
                   stored, reserved, clientVars>>

(* _raise_if_cancelled between prepare and dispatch.                       *)
HandOver ==
    /\ At("handover")
    /\ IF Cancelled THEN Raise("cancelled", "fail")
       ELSE Go("claim") /\ UNCHANGED error
    /\ UNCHANGED <<handleVars, pending, closed, queue, current, runtimeVars,
                   storeVars, clientVars>>

(* claim_preparation: a preparation that a reset dropped cannot be claimed.*)
Claim ==
    /\ At("claim") /\ lifecycle = "free"
    /\ IF Cancelled THEN Raise("cancelled", "fail") /\ UNCHANGED prep
       ELSE IF shutdown THEN Raise("stale", "fail") /\ UNCHANGED prep
       ELSE IF prep[current] = "none"
            THEN Raise("other", "fail") /\ UNCHANGED prep
       ELSE /\ prep' = [prep EXCEPT ![current] = "claimed"]
            /\ Go("reserve") /\ UNCHANGED error
    /\ UNCHANGED <<handleVars, pending, closed, queue, current, runtimeVars,
                   stored, reserved, clientVars>>

(* The client has one run at a time: a second reservation is refused.      *)
Busy == reserved # {} \/ \E h \in Handles : run[h] \in {"sent", "running"}

Reserve ==
    /\ At("reserve")
    /\ \/ ~Busy /\ reserved' = reserved \cup {current} /\ Go("reserved")
          /\ UNCHANGED error
       \/ (Busy \/ "reserve" \in Breaks) /\ Raise("other", "unwind")
          /\ UNCHANGED reserved
    /\ UNCHANGED <<handleVars, pending, closed, queue, current, runtimeVars,
                   prep, stored, clientVars>>

CheckReserved ==
    /\ At("reserved")
    /\ IF Cancelled THEN Raise("cancelled", "unwind")
       ELSE Go("retire") /\ UNCHANGED error
    /\ UNCHANGED <<handleVars, pending, closed, queue, current, runtimeVars,
                   storeVars, clientVars>>

(* retire_workspace, and the checks against the generation reserved.       *)
Retire ==
    /\ At("retire")
    /\ \/ Go("accept") /\ UNCHANGED error
       \/ "retire" \in Breaks /\ Raise("other", "unwind")
    /\ UNCHANGED <<handleVars, pending, closed, queue, current, runtimeVars,
                   storeVars, clientVars>>

(* The final acceptance holds the lifecycle lock: the captured state is    *)
(* validated, the preparation becomes a run of the store, and the handle   *)
(* is admitted unless it was cancelled meanwhile.                          *)
Accept ==
    /\ At("accept") /\ lifecycle = "free"
    /\ IF Cancelled
       THEN Raise("cancelled", "unwind") /\ UNCHANGED <<lifecycle, prep, stored>>
       ELSE IF ~Fresh
       THEN Raise("stale", "unwind") /\ UNCHANGED <<lifecycle, prep, stored>>
       ELSE /\ prep' = [prep EXCEPT ![current] = "none"]
            /\ stored' = stored \cup {current}
            /\ lifecycle' = "accept" /\ Go("admit") /\ UNCHANGED error
    /\ UNCHANGED <<handleVars, pending, closed, queue, current, shutdown,
                   sweep, epoch, cleaned, reserved, clientVars>>

(* _admit: the last point where a cancelled handle is turned away without  *)
(* its admission being announced.                                          *)
Admit ==
    /\ At("admit")
    /\ lifecycle' = "free"
    /\ IF Cancelled
       THEN Raise("cancelled", "unwind") /\ UNCHANGED state
       ELSE /\ state' = [state EXCEPT ![current] = "admitted"]
            /\ Go("announce") /\ UNCHANGED error
    /\ UNCHANGED <<cancelled, owing, result, stamp, pending, closed, queue,
                   current, shutdown, sweep, epoch, cleaned, storeVars,
                   clientVars>>

(* The admission is published before StartRun is written.                  *)
Publish(h, e) == stream' = [stream EXCEPT ![h] = Append(@, e)]

Announce ==
    /\ At("announce")
    /\ Publish(current, "admitted")
    /\ Go("announced")
    /\ UNCHANGED <<handleVars, pending, closed, queue, current, error,
                   runtimeVars, storeVars, run, wire>>

CheckAnnounced ==
    /\ At("announced")
    /\ IF Cancelled THEN Raise("cancelled", "unwind")
       ELSE Go("start") /\ UNCHANGED error
    /\ UNCHANGED <<handleVars, pending, closed, queue, current, runtimeVars,
                   storeVars, clientVars>>

Write(verb, h) == wire' = Append(wire, [do |-> verb, handle |-> h])

(* start_reserved_run consumes the reservation and writes StartRun; when   *)
(* it does not, dispatch_prepared returns "".                              *)
Start ==
    /\ At("start")
    /\ reserved' = reserved \ {current}
    /\ \/ /\ Write("start", current)
          /\ run' = [run EXCEPT ![current] = "sent"]
          /\ Go("started") /\ UNCHANGED error
       \/ /\ "start" \in Breaks
          /\ Raise("other", "unwind") /\ UNCHANGED <<run, wire>>
    /\ UNCHANGED <<handleVars, pending, closed, queue, current, runtimeVars,
                   prep, stored, stream>>

(* _dispatched: a handle cancelled since its admission is stopped now that *)
(* StartRun has been written.                                              *)
LateCancelIgnored == "discard"

LateCancel == IF Cancelled THEN "stop" ELSE "discard"

Dispatched ==
    /\ At("started")
    /\ state' = [state EXCEPT ![current] = "dispatched"]
    /\ Go(LateCancel)
    /\ UNCHANGED <<cancelled, owing, result, stamp, pending, closed, queue,
                   current, error, runtimeVars, storeVars, clientVars>>

StopLate ==
    /\ At("stop")
    /\ Write("stop", current)
    /\ Go("discard")
    /\ UNCHANGED <<handleVars, pending, closed, queue, current, error,
                   runtimeVars, storeVars, run, stream>>

StopScheduled ==
    /\ At("scheduled")
    /\ Write("stop", current)
    /\ Go("idle") /\ current' = NoHandle
    /\ UNCHANGED <<handleVars, pending, closed, queue, error, runtimeVars,
                   storeVars, run, stream>>

(* The finally block of dispatch_prepared.                                 *)
Unwind ==
    /\ At("unwind") /\ lifecycle = "free"
    /\ stored' = stored \ {current}
    /\ prep' = [prep EXCEPT ![current] = "none"]
    /\ reserved' = reserved \ {current}
    /\ Go("fail")
    /\ UNCHANGED <<handleVars, pending, closed, queue, current, error,
                   runtimeVars, clientVars>>

(* _failure: whatever happened, a cancelled handle ends as cancelled.      *)
OutcomeRaw == error

Outcome == IF Cancelled \/ error # "other" THEN "cancelled" ELSE "failed"

Fail ==
    /\ At("fail")
    /\ state' = [state EXCEPT ![current] = Outcome]
    /\ error' = IF Outcome = "cancelled" THEN "cancelled" ELSE "other"
    /\ Go("discard")
    /\ UNCHANGED <<cancelled, owing, result, stamp, pending, closed, queue,
                   current, runtimeVars, storeVars, clientVars>>

(* discard_unclaimed_preparation drops what no dispatcher claimed.         *)
UnclaimedKept(p) == p

Unclaimed(p) == IF p = "registered" THEN "none" ELSE p

Discard ==
    /\ At("discard")
    /\ prep' = [prep EXCEPT ![current] = Unclaimed(@)]
    /\ Go("leave")
    /\ UNCHANGED <<handleVars, pending, closed, queue, current, error,
                   runtimeVars, stored, reserved, clientVars>>

Leave ==
    /\ At("leave")
    /\ pending' = pending \ {current}
    /\ Go("settle")
    /\ UNCHANGED <<handleVars, closed, queue, current, error, runtimeVars,
                   storeVars, clientVars>>

(* The failure is published and the result is set.                         *)
Settle ==
    /\ At("settle")
    /\ \/ /\ error = "none"
          /\ result' = [result EXCEPT ![current] = "run"]
          /\ UNCHANGED stream
       \/ /\ error # "none"
          /\ result' = [result EXCEPT ![current] = state[current]]
          /\ Publish(current, "refused")
    /\ error' = "none" /\ current' = NoHandle /\ Go("idle")
    /\ UNCHANGED <<state, cancelled, owing, stamp, pending, closed, queue,
                   runtimeVars, storeVars, run, wire>>

(* _finish_shutdown: the store is cleared and the client shut down, which  *)
(* ends the worker and the run it serves.                                  *)
Cleanup ==
    /\ At("cleanup") /\ lifecycle = "free"
    /\ ClearStore /\ reserved' = {}
    /\ wire' = <<>>
    /\ run' = [h \in Handles |-> IF run[h] = "none" THEN "none" ELSE "ended"]
    /\ cleaned' = TRUE
    /\ Go("idle")
    /\ UNCHANGED <<handleVars, pending, closed, queue, current, error,
                   lifecycle, shutdown, sweep, epoch, stream>>

-------------------------------------------------------------------------------
(***************************************************************************)
(* The worker serves its commands in order; _handle_client_event passes    *)
(* its events on and gives the run's store entry up with the last of them. *)
(***************************************************************************)
Ended(h) ==
    /\ run' = [run EXCEPT ![h] = "ended"]
    /\ Publish(h, "ended")
    /\ stored' = stored \ {h}

Serve ==
    /\ wire # <<>>
    /\ wire' = Tail(wire)
    /\ LET h == Head(wire).handle
       IN  CASE Head(wire).do = "start" ->
                  /\ run' = [run EXCEPT ![h] = "running"]
                  /\ Publish(h, "started")
                  /\ UNCHANGED stored
             [] Head(wire).do = "stop" /\ run[h] = "running" -> Ended(h)
             [] OTHER -> UNCHANGED <<run, stream, stored>>
    /\ UNCHANGED <<handleVars, serviceVars, runtimeVars, prep, reserved>>

Finish(h) ==
    /\ run[h] = "running"
    /\ Ended(h)
    /\ UNCHANGED <<handleVars, serviceVars, runtimeVars, prep, reserved, wire>>

-------------------------------------------------------------------------------
Executor ==
    \/ Take \/ Begin \/ CheckCapture \/ Compute \/ Register \/ HandOver
    \/ Claim \/ Reserve \/ CheckReserved \/ Retire \/ Accept \/ Admit
    \/ Announce \/ CheckAnnounced \/ Start \/ Dispatched \/ StopLate
    \/ StopScheduled \/ Unwind \/ Fail \/ Discard \/ Leave \/ Settle
    \/ Cleanup

Next ==
    \/ Executor
    \/ \E h \in Handles : Submit(h) \/ Cancel(h) \/ ScheduleStop(h)
                          \/ Sweep(h) \/ Finish(h)
    \/ Edit \/ BeginReset \/ FinishReset \/ Detach \/ RequestShutdown \/ Close
    \/ Serve

Spec == Init /\ [][Next]_vars

(* Threads that run keep running: the executor, the worker's command loop, *)
(* and a caller inside a call.  Nobody has to cancel, edit or shut down,   *)
(* and no run has to end by itself.                                        *)
Fairness ==
    /\ WF_vars(Executor) /\ WF_vars(Serve) /\ WF_vars(FinishReset)
    /\ WF_vars(Close)
    /\ \A h \in Handles : WF_vars(ScheduleStop(h)) /\ WF_vars(Sweep(h))

FairSpec == Spec /\ Fairness

-------------------------------------------------------------------------------
(***************************************************************************)
(* Properties.                                                             *)
(***************************************************************************)

(* Every variable has its type, and a task in hand belongs to a handle.    *)
TypeOK ==
    /\ state \in [Handles -> States]
    /\ cancelled \subseteq Handles /\ owing \subseteq Handles
    /\ pending \subseteq Handles /\ closed \in BOOLEAN
    /\ queue \in Seq(Tasks) /\ step \in Steps
    /\ current \in Handles \cup {NoHandle}
    /\ error \in {"none", "cancelled", "stale", "other"}
    /\ result \in [Handles -> {"none", "run", "cancelled", "failed"}]
    /\ stream \in [Handles -> Seq(Events)]
    /\ lifecycle \in {"free", "reset", "accept"} /\ shutdown \in BOOLEAN
    /\ sweep \subseteq Handles
    /\ epoch \in [binding : Nat, revision : Nat]
    /\ stamp \in [Handles -> [binding : Nat, revision : Nat]]
    /\ prep \in [Handles -> {"none", "registered", "claimed"}]
    /\ stored \subseteq Handles /\ reserved \subseteq Handles
    /\ run \in [Handles -> {"none", "sent", "running", "ended"}]
    /\ wire \in Seq([do : {"start", "stop"}, handle : Handles])
    /\ cleaned \in BOOLEAN
    /\ current = NoHandle <=> step \in {"idle", "cleanup"}

StopTasks(h) ==
    {i \in 1 .. Len(queue) :
        queue[i].do = "stop" /\ queue[i].handle = h}
StopCommands(h) ==
    {i \in 1 .. Len(wire) : wire[i].do = "stop" /\ wire[i].handle = h}

(* StopRun is never asked for, queued or written for a run whose StartRun  *)
(* has not been written (the comment in _run, and the test of a stop after *)
(* admission).                                                             *)
StopFollowsStart ==
    \A h \in Handles :
        \/ h \in owing \/ StopTasks(h) # {} \/ StopCommands(h) # {}
        \/ step \in {"stop", "scheduled"} /\ current = h
        => run[h] # "none"

(* When a submission has its result, on whichever of its many exits, its   *)
(* preparation, its run reservation and its place among the pending are    *)
(* given up, and only a run that was started keeps its store entry. Where  *)
(* the result is an error StartRun was not written: the caller that sees   *)
(* it refused may submit again.                                            *)
NothingLeft ==
    \A h \in Handles : result[h] # "none" =>
        /\ prep[h] = "none" /\ h \notin reserved \cup pending
        /\ h \in stored => run[h] \in {"sent", "running"}
        /\ result[h] \in {"cancelled", "failed"} => run[h] = "none"

(* The cleanup of shutdown is the last thing the executor does: after it   *)
(* no run is live, nothing is written to the client that was shut down and *)
(* the store stays empty.                                                  *)
CleanupIsLast ==
    cleaned =>
        /\ queue = <<>> /\ wire = <<>> /\ pending = {}
        /\ stored = {} /\ reserved = {}
        /\ \A h \in Handles : prep[h] = "none" /\ run[h] \in {"none", "ended"}

(* A submission is admitted only in the project, workspace revision and    *)
(* runtime it was captured in, however they changed during preparation.    *)
AdmittedFresh ==
    [][\A h \in Handles :
         state[h] # "admitted" /\ state'[h] = "admitted" =>
             stamp[h] = epoch' /\ ~shutdown']_vars

(* Every submission gets its result, whether it runs, fails, is cancelled  *)
(* or is caught by a shutdown.                                             *)
EveryResultArrives ==
    \A h \in Handles : state[h] = "queued" ~> result[h] # "none"

(* A cancellation that was accepted holds: from some point on the run is   *)
(* not live, even though no run has to end by itself.                      *)
CancelHolds ==
    \A h \in Handles :
        h \in cancelled ~> [](run[h] \in {"none", "ended"})

===============================================================================
