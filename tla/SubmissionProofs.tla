-------------------------- MODULE SubmissionProofs --------------------------
(***************************************************************************)
(* For any submissions, any calls that may raise and any number of         *)
(* changes: the types of Submission, that a stop follows the start of its  *)
(* run, that a submission with a result holds nothing, that the cleanup of *)
(* shutdown is the executor's last task, and that only a fresh capture is  *)
(* admitted.                                                               *)
(***************************************************************************)
EXTENDS Submission, SequenceTheorems, TLAPS

---------------------------------------------------------------------------
(* The inductive invariant, by what each part speaks of.                   *)

Slots == 1 .. Len(queue)

(* The executor works on the submission of h.                              *)
Resting  == step \in {"idle", "scheduled", "cleanup"}
Works(h) == ~Resting /\ current = h

(* No call of the runtime has been made for h.                             *)
Untouched(h) ==
    /\ prep[h] = "none" /\ h \notin stored \cup reserved
    /\ run[h] = "none" /\ result[h] = "none"

(* A submission waits in the queue once, before anything is done for it.   *)
WaitingInv ==
    /\ \A h \in Handles : state[h] = "new" => Untouched(h) /\ h \notin pending
    /\ \A i \in Slots : queue[i].do = "submission" =>
          LET h == queue[i].handle
          IN  state[h] = "queued" /\ Untouched(h) /\ ~Works(h)
    /\ \A i, j \in Slots :
          /\ queue[i].do = "submission" /\ queue[j].do = "submission"
          /\ queue[i].handle = queue[j].handle
          => i = j

(* What is pending waits in the queue, or is what the executor works on.   *)
PendingInv ==
    \A h \in pending :
        \/ \E i \in Slots : queue[i].do = "submission" /\ queue[i].handle = h
        \/ Works(h) /\ step # "settle"

(* Whoever may stop a run knows of its start.                              *)
StopInv ==
    /\ \A h \in Handles : state[h] = "dispatched" \/ h \in owing => run[h] # "none"
    /\ \A i \in Slots : queue[i].do = "stop" => run[queue[i].handle] # "none"
    /\ \A i \in 1 .. Len(wire) : run[wire[i].handle] # "none"
    /\ step \in {"started", "stop", "scheduled"} => run[current] # "none"

(* The steps of a submission, by what it holds at them.                    *)
BeforeStart   == {"begin", "check", "compute", "register", "handover", "claim", "reserve",
                  "reserved", "retire", "accept", "admit", "announce", "announced", "start"}
HasNoPrep     == {"begin", "check", "compute", "register", "admit", "announce", "announced",
                  "start", "started", "stop", "leave", "settle"}
HasNoClaim    == HasNoPrep \cup {"handover", "claim", "fail", "discard"}
HasNoStore    == {"begin", "check", "compute", "register", "handover", "claim", "reserve",
                  "reserved", "retire", "accept", "fail"}
MayReserve    == {"reserved", "retire", "accept", "admit", "announce", "announced", "start",
                  "unwind"}
AfterOutcome  == {"discard", "leave", "settle"}

StepInv ==
    /\ Resting \/ step \in BeforeStart \cup {"started", "stop"} => error = "none"
    /\ step \in {"unwind", "fail"} => error # "none"
    /\ ~Resting =>
         /\ state[current] # "new" /\ result[current] = "none"
         /\ step \in HasNoPrep => prep[current] = "none"
         /\ step \in HasNoClaim => prep[current] # "claimed"
         /\ step \in HasNoStore => current \notin stored
         /\ step \notin MayReserve => current \notin reserved
         /\ step \in BeforeStart \cup {"unwind", "fail"} => run[current] = "none"
    /\ step \in AfterOutcome =>
         IF error = "none" THEN run[current] # "none"
         ELSE /\ run[current] = "none" /\ current \notin stored
              /\ state[current] \in {"cancelled", "failed"}

(* A submission that has its result holds nothing but a live run.          *)
SettledInv ==
    \A h \in Handles :
        /\ run[h] = "ended" => h \notin stored
        /\ result[h] # "none" =>
             /\ prep[h] = "none" /\ h \notin reserved
             /\ h \in stored => run[h] # "none"
             /\ result[h] \in {"cancelled", "failed"} => run[h] = "none"

(* Nothing changes between the final acceptance and the admission.         *)
AcceptInv ==
    /\ lifecycle = "accept" <=> step = "admit"
    /\ step = "admit" => stamp[current] = epoch /\ ~shutdown

(* The cleanup is queued once, last, when the service closes.              *)
ClosedInv ==
    /\ \A i \in Slots : queue[i].do = "cleanup" => closed /\ i = Len(queue)
    /\ step = "cleanup" => closed /\ queue = <<>> /\ ~cleaned
    /\ closed => \/ cleaned \/ step = "cleanup"
                 \/ queue # <<>> /\ queue[Len(queue)].do = "cleanup"
    /\ cleaned => closed /\ step = "idle"
    /\ CleanupIsLast

IInv == /\ TypeOK /\ WaitingInv /\ PendingInv /\ StopInv /\ StepInv
        /\ SettledInv /\ AcceptInv /\ ClosedInv


---------------------------------------------------------------------------
(* Queues.                                                                 *)

LEMMA Appended ==
    ASSUME NEW S, NEW s \in Seq(S), NEW e \in S
    PROVE  /\ Append(s, e) \in Seq(S) /\ Len(Append(s, e)) = Len(s) + 1
           /\ \A i \in 1 .. Len(Append(s, e)) :
                 Append(s, e)[i] = IF i <= Len(s) THEN s[i] ELSE e
           /\ Append(s, e) # <<>>
OBVIOUS

LEMMA Shortened ==
    ASSUME NEW S, NEW s \in Seq(S), s # <<>>
    PROVE  /\ Tail(s) \in Seq(S) /\ Head(s) \in S /\ Head(s) = s[1]
           /\ Len(Tail(s)) = Len(s) - 1 /\ Len(s) \in Nat \ {0}
           /\ \A i \in 1 .. Len(Tail(s)) : Tail(s)[i] = s[i + 1]
BY HeadTailProperties, EmptySeq

Commands == [do : {"start", "stop"}, handle : Handles]

LEMMA WireTaken ==
    ASSUME TypeOK, wire # <<>>
    PROVE  /\ Tail(wire) \in Seq(Commands) /\ Head(wire) \in Commands
           /\ Head(wire) = wire[1] /\ 1 \in 1 .. Len(wire)
           /\ Len(Tail(wire)) = Len(wire) - 1
           /\ \A i \in 1 .. Len(Tail(wire)) : Tail(wire)[i] = wire[i + 1]
<1>1. wire \in Seq(Commands)
  BY DEF TypeOK, Commands
<1> QED BY <1>1, Shortened

LEMMA WireHolds ==
    ASSUME TypeOK, NEW i \in 1 .. Len(wire)
    PROVE  wire[i] \in Commands /\ wire[i].handle \in Handles
<1>1. wire \in Seq(Commands)
  BY DEF TypeOK, Commands
<1>2. wire[i] \in Commands
  BY <1>1, ElementOfSeq
<1> QED BY <1>2 DEF Commands

LEMMA WireWritten ==
    ASSUME TypeOK, NEW verb \in {"start", "stop"}, NEW h \in Handles, Write(verb, h)
    PROVE  /\ wire' \in Seq(Commands) /\ Len(wire) \in Nat /\ Len(wire') = Len(wire) + 1
           /\ \A i \in 1 .. Len(wire') :
                 wire'[i] = IF i <= Len(wire) THEN wire[i] ELSE [do |-> verb, handle |-> h]
<1>1. wire \in Seq(Commands) /\ [do |-> verb, handle |-> h] \in Commands
  BY DEF TypeOK, Commands
<1> QED BY <1>1, Appended, LenProperties DEF Write

---------------------------------------------------------------------------
(* Types.                                                                  *)

LEMMA InHand ==
    ASSUME TypeOK, step \notin {"idle", "cleanup"}
    PROVE  current \in Handles
BY DEF TypeOK

LEMMA TypesInit == Init => TypeOK
<1> SUFFICES ASSUME Init PROVE TypeOK
  OBVIOUS
<1>1. queue \in Seq(Tasks) /\ wire \in Seq([do : {"start", "stop"}, handle : Handles])
  BY DEF Init
<1>2. stream \in [Handles -> Seq(Events)]
  BY DEF Init
<1> QED BY <1>1, <1>2, SubmissionAssumption DEF Init, TypeOK, States, Steps

LEMMA TypesCallers ==
    ASSUME TypeOK,
           \/ \E h \in Handles : Submit(h) \/ Cancel(h) \/ ScheduleStop(h) \/ Sweep(h)
           \/ Edit \/ BeginReset \/ FinishReset \/ Detach \/ RequestShutdown \/ Close
    PROVE  TypeOK'
<1> USE DEF TypeOK, handleVars, serviceVars, runtimeVars, storeVars, clientVars
<1>1. ASSUME NEW h \in Handles, Submit(h) PROVE TypeOK'
  <2>1. [do |-> "submission", handle |-> h] \in Tasks
    BY DEF Tasks
  <2>2. queue' \in Seq(Tasks)
    BY <1>1, <2>1, Appended DEF Submit
  <2> QED BY <1>1, <2>2 DEF Submit, States
<1>2. ASSUME NEW h \in Handles, Cancel(h) \/ Sweep(h) PROVE TypeOK'
  BY <1>2 DEF Cancel, Sweep, CancelHandle
<1>3. ASSUME NEW h \in Handles, ScheduleStop(h) PROVE TypeOK'
  <2>1. [do |-> "stop", handle |-> h] \in Tasks
    BY DEF Tasks
  <2>2. queue' \in Seq(Tasks)
    BY <1>3, <2>1, Appended DEF ScheduleStop
  <2> QED BY <1>3, <2>2 DEF ScheduleStop
<1>4. CASE Edit \/ BeginReset \/ FinishReset \/ Detach \/ RequestShutdown
  <2>1. epoch' \in [binding : Nat, revision : Nat]
    BY <1>4 DEF Edit, BeginReset, FinishReset, Detach, RequestShutdown
  <2>2. CASE Edit \/ RequestShutdown
    BY <2>1, <2>2 DEF Edit, RequestShutdown
  <2>3. CASE BeginReset
    BY <2>1, <2>3 DEF BeginReset
  <2>4. CASE FinishReset \/ Detach
    BY <2>1, <2>4 DEF FinishReset, Detach, ClearStore
  <2> QED BY <1>4, <2>2, <2>3, <2>4
<1>5. CASE Close
  <2>1. [do |-> "cleanup", handle |-> NoHandle] \in Tasks
    BY DEF Tasks
  <2>2. queue' \in Seq(Tasks)
    BY <1>5, <2>1, Appended DEF Close, Drained
  <2> QED BY <1>5, <2>2 DEF Close
<1> QED BY <1>1, <1>2, <1>3, <1>4, <1>5

LEMMA TypesPrepare ==
    ASSUME TypeOK,
           Take \/ Begin \/ CheckCapture \/ Compute \/ Register \/ HandOver \/ Claim
    PROVE  TypeOK'
<1> USE InHand DEF TypeOK, handleVars, serviceVars, runtimeVars, storeVars, clientVars,
                   At, Go, Raise, Steps
<1>1. CASE Take
  <2>1. queue' \in Seq(Tasks) /\ Head(queue) \in Tasks
    BY <1>1, Shortened DEF Take
  <2>2. PICK t \in Tasks : t = Head(queue)
    BY <2>1
  <2>3. \/ t.do \in {"submission", "stop"} /\ t.handle \in Handles
        \/ t.do = "cleanup" /\ t.handle = NoHandle
    BY DEF Tasks
  <2> QED BY <1>1, <2>1, <2>2, <2>3, SubmissionAssumption DEF Take
<1>2. CASE Begin
  BY <1>2, SubmissionAssumption DEF Begin, States
<1>3. CASE CheckCapture \/ Compute \/ HandOver
  BY <1>3 DEF CheckCapture, Compute, HandOver
<1>4. CASE Register \/ Claim
  BY <1>4 DEF Register, Claim
<1> QED BY <1>1, <1>2, <1>3, <1>4

LEMMA TypesDispatch ==
    ASSUME TypeOK,
           \/ Reserve \/ CheckReserved \/ Retire \/ Accept \/ Admit \/ Announce
           \/ CheckAnnounced \/ Start \/ Dispatched \/ StopLate \/ StopScheduled
    PROVE  TypeOK'
<1> USE InHand DEF TypeOK, handleVars, serviceVars, runtimeVars, storeVars, clientVars,
                   At, Go, Raise, Steps
<1>1. CASE Reserve \/ CheckReserved \/ Retire \/ CheckAnnounced
  BY <1>1 DEF Reserve, CheckReserved, Retire, CheckAnnounced
<1>2. CASE Accept
  BY <1>2 DEF Accept
<1>3. CASE Admit \/ Dispatched
  BY <1>3 DEF Admit, Dispatched, States, LateCancel
<1>4. CASE Announce
  <2>1. stream' \in [Handles -> Seq(Events)]
    BY <1>4, Appended DEF Announce, Publish, Events
  <2> QED BY <1>4, <2>1 DEF Announce
<1>5. ASSUME Start \/ StopLate \/ StopScheduled
      PROVE  wire' \in Seq([do : {"start", "stop"}, handle : Handles])
  <2>1. current \in Handles
    BY <1>5 DEF Start, StopLate, StopScheduled
  <2>2. Write("start", current) \/ Write("stop", current) \/ wire' = wire
    BY <1>5 DEF Start, StopLate, StopScheduled
  <2>3. wire' \in Seq(Commands) \/ wire' = wire
    BY <2>1, <2>2, WireWritten
  <2> QED BY <2>3 DEF Commands
<1>6. CASE Start
  BY <1>5, <1>6 DEF Start
<1>7. CASE StopLate \/ StopScheduled
  BY <1>5, <1>7 DEF StopLate, StopScheduled
<1> QED BY <1>1, <1>2, <1>3, <1>4, <1>6, <1>7

LEMMA TypesSettle ==
    ASSUME TypeOK, StepInv, Unwind \/ Fail \/ Discard \/ Leave \/ Settle \/ Cleanup
    PROVE  TypeOK'
<1> USE InHand DEF TypeOK, handleVars, serviceVars, runtimeVars, storeVars, clientVars,
                   At, Go, Steps
<1>1. CASE Unwind \/ Leave
  BY <1>1 DEF Unwind, Leave
<1>2. CASE Fail
  BY <1>2 DEF Fail, Outcome, States
<1>3. CASE Discard
  BY <1>3 DEF Discard, Unclaimed
<1>4. CASE Settle
  <2>1. result' \in [Handles -> {"none", "run", "cancelled", "failed"}]
    BY <1>4 DEF Settle, StepInv, AfterOutcome
  <2>2. stream' \in [Handles -> Seq(Events)]
    <3>1. stream' = stream \/ stream' = [stream EXCEPT ![current] = Append(@, "refused")]
      BY <1>4 DEF Settle, Publish
    <3>2. current \in Handles /\ "refused" \in Events
      BY <1>4 DEF Settle, Events
    <3>3. Append(stream[current], "refused") \in Seq(Events)
      BY <3>2, Appended
    <3> QED BY <3>1, <3>2, <3>3
  <2> QED BY <1>4, <2>1, <2>2 DEF Settle
<1>5. CASE Cleanup
  <2>1. wire' \in Seq([do : {"start", "stop"}, handle : Handles])
    BY <1>5 DEF Cleanup
  <2> QED BY <1>5, <2>1 DEF Cleanup, ClearStore
<1> QED BY <1>1, <1>2, <1>3, <1>4, <1>5

LEMMA TypesWorker ==
    ASSUME TypeOK, Serve \/ \E h \in Handles : Finish(h)
    PROVE  TypeOK'
<1> USE DEF TypeOK, handleVars, serviceVars, runtimeVars
<1>1. ASSUME NEW h \in Handles, NEW e \in Events, Publish(h, e)
      PROVE  stream' \in [Handles -> Seq(Events)]
  BY <1>1, Appended DEF Publish
<1>2. "started" \in Events /\ "ended" \in Events
  BY DEF Events
<1>3. CASE Serve
  <2> DEFINE h == Head(wire).handle
  <2>1. wire' \in Seq([do : {"start", "stop"}, handle : Handles]) /\ h \in Handles
    <3>1. /\ Tail(wire) \in Seq([do : {"start", "stop"}, handle : Handles])
          /\ Head(wire) \in [do : {"start", "stop"}, handle : Handles]
      BY <1>3, Shortened DEF Serve
    <3> QED BY <1>3, <3>1 DEF Serve
  <2>2. stream' \in [Handles -> Seq(Events)]
    BY <1>1, <1>2, <1>3, <2>1 DEF Serve, Ended
  <2> QED BY <1>3, <2>1, <2>2 DEF Serve, Ended
<1>4. ASSUME NEW h \in Handles, Finish(h) PROVE TypeOK'
  <2>1. stream' \in [Handles -> Seq(Events)]
    BY <1>1, <1>2, <1>4 DEF Finish, Ended
  <2> QED BY <1>4, <2>1 DEF Finish, Ended
<1> QED BY <1>3, <1>4

LEMMA TypesStep ==
    ASSUME TypeOK, StepInv, [Next]_vars
    PROVE  TypeOK'
<1>1. CASE UNCHANGED vars
  BY <1>1 DEF TypeOK, vars, handleVars, serviceVars, runtimeVars, storeVars, clientVars
<1> QED BY <1>1, TypesCallers, TypesPrepare, TypesDispatch, TypesSettle, TypesWorker
           DEF Next, Executor


---------------------------------------------------------------------------
(* The steps of a submission.                                              *)

(* What a change of the project, a caller or the worker leaves alone.      *)
LEMMA StepOthers ==
    ASSUME TypeOK, StepInv, step' = step, current' = current, error' = error,
           result' = result, reserved' = reserved,
           \A h \in Handles : state[h] # "new" => state'[h] = state[h],
           \A h \in Handles : prep'[h] = prep[h] \/ prep'[h] = "none",
           stored' \subseteq stored,
           \A h \in Handles : run'[h] = "none" <=> run[h] = "none"
    PROVE  StepInv'
<1>1. current \in Handles \/ step \in {"idle", "cleanup"}
  BY DEF TypeOK
<1> QED BY <1>1 DEF StepInv, Resting, BeforeStart, HasNoPrep, HasNoClaim, HasNoStore,
                    MayReserve, AfterOutcome

LEMMA StepExecutor ==
    ASSUME TypeOK, StepInv, StopInv, Executor, ~Take
    PROVE  StepInv'
<1> USE InHand DEF TypeOK, StepInv, Resting, BeforeStart, HasNoPrep, HasNoClaim, HasNoStore,
                   MayReserve, AfterOutcome, handleVars, serviceVars, runtimeVars, storeVars,
                   clientVars, At, Go, Raise
<1>1. CASE Begin
  BY <1>1 DEF Begin
<1>2. CASE CheckCapture
  BY <1>2 DEF CheckCapture
<1>3. CASE Compute
  BY <1>3 DEF Compute
<1>4. CASE Register
  BY <1>4 DEF Register
<1>5. CASE HandOver
  BY <1>5 DEF HandOver
<1>6. CASE Claim
  BY <1>6 DEF Claim
<1>7. CASE Reserve
  BY <1>7 DEF Reserve
<1>8. CASE CheckReserved
  BY <1>8 DEF CheckReserved
<1>9. CASE Retire
  BY <1>9 DEF Retire
<1>10. CASE Accept
  BY <1>10 DEF Accept
<1>11. CASE Admit
  BY <1>11 DEF Admit
<1>12. CASE Announce
  BY <1>12 DEF Announce, Publish
<1>13. CASE CheckAnnounced
  BY <1>13 DEF CheckAnnounced
<1>14. CASE Start
  BY <1>14 DEF Start
<1>15. CASE Dispatched
  BY <1>15 DEF Dispatched, LateCancel, StopInv
<1>16. CASE StopLate
  BY <1>16 DEF StopLate, StopInv
<1>17. CASE StopScheduled
  BY <1>17 DEF StopScheduled
<1>18. CASE Unwind
  BY <1>18 DEF Unwind
<1>19. CASE Fail
  BY <1>19 DEF Fail, Outcome, Cancelled
<1>20. CASE Discard
  BY <1>20 DEF Discard, Unclaimed
<1>21. CASE Leave
  BY <1>21 DEF Leave
<1>22. CASE Settle
  BY <1>22 DEF Settle, Publish
<1>23. CASE Cleanup
  BY <1>23 DEF Cleanup, ClearStore
<1> QED BY <1>1, <1>2, <1>3, <1>4, <1>5, <1>6, <1>7, <1>8, <1>9, <1>10, <1>11, <1>12, <1>13, <1>14, <1>15, <1>16, <1>17, <1>18, <1>19, <1>20, <1>21, <1>22, <1>23 DEF Executor

LEMMA StepTake ==
    ASSUME TypeOK, StepInv, WaitingInv, Take
    PROVE  StepInv'
<1> USE DEF TypeOK, handleVars, runtimeVars, storeVars, clientVars, At, Go
<1> DEFINE t == Head(queue)
<1>1. t \in Tasks /\ t = queue[1] /\ 1 \in Slots
  BY Shortened DEF Take, Slots
<1>2. CASE t.do = "submission"
  <2>1. state[t.handle] = "queued" /\ Untouched(t.handle)
    BY <1>1, <1>2 DEF WaitingInv
  <2>2. step' = "begin" /\ current' = t.handle /\ t.handle \in Handles
    BY <1>1, <1>2, SubmissionAssumption DEF Take, Tasks
  <2> QED BY <2>1, <2>2 DEF Take, StepInv, Resting, BeforeStart, HasNoPrep, HasNoClaim,
             HasNoStore, MayReserve, AfterOutcome, Untouched
<1>3. CASE t.do # "submission"
  <2>1. t.do \in {"stop", "cleanup"}
    BY <1>1, <1>3 DEF Tasks
  <2>2. step' \in {"scheduled", "cleanup"}
    BY <2>1 DEF Take
  <2> QED BY <2>2 DEF Take, StepInv, Resting, BeforeStart, AfterOutcome
<1> QED BY <1>2, <1>3

LEMMA StepCallers ==
    ASSUME TypeOK, StepInv,
           \/ \E h \in Handles : Submit(h) \/ Cancel(h) \/ ScheduleStop(h) \/ Sweep(h)
           \/ Edit \/ BeginReset \/ FinishReset \/ Detach \/ RequestShutdown \/ Close
    PROVE  StepInv'
<1> USE StepOthers DEF TypeOK, handleVars, serviceVars, runtimeVars, storeVars, clientVars
<1>1. ASSUME NEW h \in Handles, Submit(h) PROVE StepInv'
  BY <1>1 DEF Submit
<1>2. ASSUME NEW h \in Handles, Cancel(h) \/ ScheduleStop(h) \/ Sweep(h) PROVE StepInv'
  BY <1>2 DEF Cancel, ScheduleStop, Sweep
<1>3. CASE Edit \/ BeginReset \/ RequestShutdown \/ Close
  BY <1>3 DEF Edit, BeginReset, RequestShutdown, Close
<1>4. CASE FinishReset \/ Detach
  BY <1>4 DEF FinishReset, Detach, ClearStore
<1> QED BY <1>1, <1>2, <1>3, <1>4

(* What the worker does: a run that it was sent moves on, and gives up its *)
(* entry in the store when it ends.                                        *)
LEMMA WorkerMoves ==
    ASSUME TypeOK, StopInv, Serve \/ \E h \in Handles : Finish(h)
    PROVE  \E h \in Handles : \E r \in {"running", "ended", run[h]} :
              /\ run[h] # "none" /\ run' = [run EXCEPT ![h] = r]
              /\ stored' = IF r = "ended" /\ r # run[h] THEN stored \ {h} ELSE stored
              /\ r = "ended" /\ r # run[h] => run[h] = "running"
<1> USE DEF TypeOK
<1> DEFINE first == Head(wire).handle
<1>1. CASE Serve
  <2>1. Head(wire) \in Commands /\ Head(wire) = wire[1] /\ 1 \in 1 .. Len(wire)
    BY <1>1, WireTaken DEF Serve
  <2>2. first \in Handles /\ run[first] # "none"
    BY <2>1 DEF StopInv, Commands
  <2>3. \/ run' = [run EXCEPT ![first] = "running"] /\ stored' = stored
        \/ run' = [run EXCEPT ![first] = "ended"] /\ stored' = stored \ {first} /\ run[first] = "running"
        \/ run' = run /\ stored' = stored
    BY <1>1 DEF Serve, Ended
  <2> HIDE DEF first
  <2> QED BY <2>2, <2>3
<1>2. ASSUME NEW h \in Handles, Finish(h)
      PROVE  /\ run[h] # "none" /\ run' = [run EXCEPT ![h] = "ended"]
             /\ stored' = stored \ {h} /\ run[h] = "running"
  BY <1>2 DEF Finish, Ended
<1> QED BY <1>1, <1>2

LEMMA StepWorker ==
    ASSUME TypeOK, StepInv, StopInv, Serve \/ \E h \in Handles : Finish(h)
    PROVE  StepInv'
<1>1. \A h \in Handles : run'[h] = "none" <=> run[h] = "none"
  BY WorkerMoves DEF TypeOK
<1>2. stored' \subseteq stored
  BY WorkerMoves
<1>3. UNCHANGED <<handleVars, serviceVars, prep, reserved>>
  BY DEF Serve, Finish, Ended, runtimeVars
<1> QED BY <1>1, <1>2, <1>3, StepOthers DEF handleVars, serviceVars

LEMMA StepStep ==
    ASSUME TypeOK, StepInv, StopInv, WaitingInv, [Next]_vars
    PROVE  StepInv'
<1>1. CASE UNCHANGED vars
  BY <1>1, StepOthers DEF vars, handleVars, serviceVars, storeVars, clientVars
<1> QED BY <1>1, StepCallers, StepTake, StepExecutor, StepWorker DEF Next, Executor

---------------------------------------------------------------------------
(* What waits in the queue.                                                *)

(* A step that takes no task changes nothing of the other submissions, but *)
(* that the cleanup takes from them what they hold.                        *)
Apart(h) ==
    /\ state'[h] = state[h] /\ result'[h] = result[h]
    /\ prep'[h] \in {prep[h], "none"}
    /\ h \in stored' => h \in stored
    /\ h \in reserved' => h \in reserved
    /\ h \in pending' <=> h \in pending
    /\ run'[h] = "none" <=> run[h] = "none"

LEMMA ExecutorApart ==
    ASSUME TypeOK, StepInv, Executor, ~Take, NEW h \in Handles
    PROVE  /\ UNCHANGED <<queue, closed, owing>>
           /\ Works(h)' => Works(h)
           /\ ~Works(h) => Apart(h)
           /\ Works(h) => state'[h] # "new"
<1> USE InHand DEF TypeOK, StepInv, Works, Apart, Resting, handleVars, serviceVars,
                   runtimeVars, storeVars, clientVars, At, Go, Raise
<1>1. CASE Begin
  BY <1>1 DEF Begin
<1>2. CASE CheckCapture
  BY <1>2 DEF CheckCapture
<1>3. CASE Compute
  BY <1>3 DEF Compute
<1>4. CASE Register
  BY <1>4 DEF Register
<1>5. CASE HandOver
  BY <1>5 DEF HandOver
<1>6. CASE Claim
  BY <1>6 DEF Claim
<1>7. CASE Reserve
  BY <1>7 DEF Reserve
<1>8. CASE CheckReserved
  BY <1>8 DEF CheckReserved
<1>9. CASE Retire
  BY <1>9 DEF Retire
<1>10. CASE Accept
  BY <1>10 DEF Accept
<1>11. CASE Admit
  BY <1>11 DEF Admit
<1>12. CASE Announce
  BY <1>12 DEF Announce, Publish
<1>13. CASE CheckAnnounced
  BY <1>13 DEF CheckAnnounced
<1>14. CASE Start
  BY <1>14 DEF Start
<1>15. CASE Dispatched
  BY <1>15 DEF Dispatched, LateCancel
<1>16. CASE StopLate
  BY <1>16 DEF StopLate
<1>17. CASE StopScheduled
  BY <1>17 DEF StopScheduled
<1>18. CASE Unwind
  BY <1>18 DEF Unwind
<1>19. CASE Fail
  BY <1>19 DEF Fail, Outcome, Cancelled
<1>20. CASE Discard
  BY <1>20 DEF Discard, Unclaimed
<1>21. CASE Leave
  BY <1>21 DEF Leave
<1>22. CASE Settle
  BY <1>22 DEF Settle, Publish
<1>23. CASE Cleanup
  BY <1>23 DEF Cleanup, ClearStore
<1> QED BY <1>1, <1>2, <1>3, <1>4, <1>5, <1>6, <1>7, <1>8, <1>9, <1>10, <1>11, <1>12, <1>13, <1>14, <1>15, <1>16, <1>17, <1>18, <1>19, <1>20, <1>21, <1>22, <1>23 DEF Executor

LEMMA QueueTaken ==
    ASSUME TypeOK, Take
    PROVE  /\ queue' \in Seq(Tasks) /\ Head(queue) \in Tasks
           /\ Head(queue) = queue[1] /\ 1 \in Slots /\ Len(queue') = Len(queue) - 1
           /\ \A i \in 1 .. Len(queue') : queue'[i] = queue[i + 1] /\ i + 1 \in Slots
BY Shortened DEF TypeOK, Take, Slots

LEMMA QueueGrown ==
    ASSUME TypeOK, NEW t \in Tasks, queue' = Append(queue, t)
    PROVE  /\ queue' \in Seq(Tasks) /\ Len(queue) \in Nat /\ Len(queue') = Len(queue) + 1
           /\ queue' # <<>>
           /\ \A i \in 1 .. Len(queue') :
                 queue'[i] = (IF i <= Len(queue) THEN queue[i] ELSE t)
<1>1. queue \in Seq(Tasks)
  BY DEF TypeOK
<1> QED BY <1>1, Appended, EmptySeq

LEMMA QueueHolds ==
    ASSUME TypeOK, NEW i \in Slots
    PROVE  /\ queue[i] \in Tasks
           /\ queue[i].do \in {"submission", "stop"} => queue[i].handle \in Handles
<1>1. queue \in Seq(Tasks)
  BY DEF TypeOK
<1>2. queue[i] \in Tasks
  BY <1>1, ElementOfSeq DEF Slots
<1> QED BY <1>2 DEF Tasks

LEMMA WaitingKept ==
    ASSUME TypeOK, WaitingInv, queue' = queue,
           \A h \in Handles : Works(h)' => Works(h),
           \A h \in Handles : ~Works(h) => Apart(h),
           \A h \in Handles : Works(h) => state'[h] # "new"
    PROVE  WaitingInv'
<1>1. ASSUME NEW h \in Handles, state'[h] = "new" PROVE Untouched(h)' /\ h \notin pending'
  BY <1>1 DEF WaitingInv, Untouched, Apart
<1>2. ASSUME NEW i \in Slots, queue[i].do = "submission"
      PROVE  LET h == queue[i].handle
             IN  state'[h] = "queued" /\ Untouched(h)' /\ ~Works(h)'
  <2>1. queue[i].handle \in Handles
    BY <1>2, QueueHolds
  <2> QED BY <1>2, <2>1 DEF WaitingInv, Untouched, Apart
<1> QED BY <1>1, <1>2 DEF WaitingInv, Slots

LEMMA WaitingSubmit ==
    ASSUME TypeOK, WaitingInv, StepInv, NEW h \in Handles, Submit(h)
    PROVE  WaitingInv'
<1> DEFINE t == [do |-> "submission", handle |-> h]
<1>1. /\ Untouched(h) /\ state[h] = "new" /\ ~Works(h)
      /\ \A i \in Slots : ~(queue[i].do = "submission" /\ queue[i].handle = h)
  BY DEF Submit, WaitingInv, StepInv, Works, TypeOK
<1>2. \A i \in 1 .. Len(queue') :
         queue'[i] = (IF i <= Len(queue) THEN queue[i] ELSE t)
  BY QueueGrown DEF Submit, Tasks
<1>3. Len(queue') = Len(queue) + 1 /\ Len(queue) \in Nat
  BY QueueGrown DEF Submit, Tasks
<1>4. \A g \in Handles : (Untouched(g)' <=> Untouched(g)) /\ (Works(g)' <=> Works(g))
  BY DEF Submit, Untouched, Works, Resting, storeVars, clientVars
<1>5. \A g \in Handles : state'[g] = IF g = h THEN "queued" ELSE state[g]
  BY DEF Submit, TypeOK
<1>6. pending' = pending \cup {h}
  BY DEF Submit
<1>7. \A i \in Slots : queue[i].do = "submission" => queue[i].handle \in Handles
  BY QueueHolds
<1>8. \A g \in Handles : state'[g] = "new" => Untouched(g)' /\ g \notin pending'
  BY <1>4, <1>5, <1>6 DEF WaitingInv
<1>9. ASSUME NEW i \in 1 .. Len(queue'), NEW g \in Handles,
             queue'[i].do = "submission", queue'[i].handle = g
      PROVE  state'[g] = "queued" /\ Untouched(g)' /\ ~Works(g)'
  <2>1. CASE i \in Slots
    <3>1. queue'[i] = queue[i]
      BY <1>2, <1>3, <2>1 DEF Slots
    <3> QED BY <1>1, <1>4, <1>5, <1>9, <2>1, <3>1 DEF WaitingInv
  <2>2. CASE i \notin Slots
    <3>1. queue'[i] = t
      BY <1>2, <1>3, <2>2 DEF Slots
    <3> QED BY <1>1, <1>4, <1>5, <1>9, <3>1
  <2> QED BY <2>1, <2>2
<1>10. ASSUME NEW i \in 1 .. Len(queue'), NEW j \in 1 .. Len(queue'),
              queue'[i].do = "submission", queue'[j].do = "submission",
              queue'[i].handle = queue'[j].handle
       PROVE  i = j
  <2>1. CASE i \in Slots /\ j \in Slots
    <3>1. queue'[i] = queue[i] /\ queue'[j] = queue[j]
      BY <1>2, <1>3, <2>1 DEF Slots
    <3> QED BY <1>10, <2>1, <3>1 DEF WaitingInv
  <2>2. CASE ~(i \in Slots /\ j \in Slots)
    <3>1. \A k \in 1 .. Len(queue') :
             IF k \in Slots THEN queue'[k] = queue[k]
             ELSE k = Len(queue') /\ queue'[k].handle = h
      BY <1>2, <1>3 DEF Slots
    <3> QED BY <1>1, <1>10, <2>2, <3>1
  <2> QED BY <2>1, <2>2
<1>11. \A i \in 1 .. Len(queue') : queue'[i].do = "submission" => queue'[i].handle \in Handles
  BY <1>2, <1>3, <1>7 DEF Slots
<1> QED BY <1>8, <1>9, <1>10, <1>11 DEF WaitingInv, Slots, Untouched, Works, Resting

LEMMA WaitingGrown ==
    ASSUME TypeOK, WaitingInv, NEW t \in Tasks, t.do # "submission", queue' = Append(queue, t),
           UNCHANGED <<state, result, step, current, pending, run, prep, stored, reserved>>
    PROVE  WaitingInv'
<1>1. /\ Len(queue) \in Nat /\ Len(queue') = Len(queue) + 1
      /\ \A i \in 1 .. Len(queue') :
            queue'[i] = (IF i <= Len(queue) THEN queue[i] ELSE t)
  BY QueueGrown
<1>2. \A i \in 1 .. Len(queue') : queue'[i].do = "submission" =>
         i \in Slots /\ queue'[i] = queue[i]
  BY <1>1 DEF Slots
<1> QED BY <1>2 DEF WaitingInv, Slots, Untouched, Works, Resting

LEMMA WaitingTake ==
    ASSUME TypeOK, WaitingInv, StepInv, Take
    PROVE  WaitingInv'
<1> DEFINE t == queue[1]
<1>1. /\ Len(queue') = Len(queue) - 1 /\ Head(queue) = t /\ t \in Tasks /\ 1 \in Slots
      /\ \A i \in 1 .. Len(queue') : queue'[i] = queue[i + 1] /\ i + 1 \in Slots
  BY QueueTaken
<1>2. UNCHANGED <<state, result, pending, run, prep, stored, reserved>>
  BY DEF Take, handleVars, storeVars, clientVars
<1>3. current' = t.handle /\ Resting
  BY <1>1 DEF Take, At, Resting
<1>4. t.do # "submission" => Resting'
  <2>1. t.do # "submission" => t.do = "stop" \/ t.do = "cleanup"
    BY <1>1 DEF Tasks
  <2>2. step' = CASE t.do = "submission" -> "begin" [] t.do = "stop" -> "scheduled"
                  [] t.do = "cleanup" -> "cleanup"
    BY <1>1 DEF Take, Go
  <2> QED BY <2>1, <2>2 DEF Resting
<1>5. ASSUME NEW i \in 1 .. Len(queue'), NEW h \in Handles,
             queue'[i].do = "submission", queue'[i].handle = h
      PROVE  state'[h] = "queued" /\ Untouched(h)' /\ ~Works(h)'
  <2>1. queue[i + 1] = queue'[i] /\ i + 1 \in Slots
    BY <1>1
  <2>2. state[h] = "queued" /\ Untouched(h)
    BY <1>5, <2>1 DEF WaitingInv
  <2>3. ~(t.do = "submission" /\ t.handle = h)
    <3>1. i + 1 # 1
      OBVIOUS
    <3> QED BY <1>1, <1>5, <2>1, <3>1 DEF WaitingInv
  <2> QED BY <1>2, <1>3, <1>4, <2>2, <2>3 DEF Works, Untouched
<1>6. \A i, j \in 1 .. Len(queue') :
         /\ queue'[i].do = "submission" /\ queue'[j].do = "submission"
         /\ queue'[i].handle = queue'[j].handle
         => i = j
  <2> SUFFICES ASSUME NEW i \in 1 .. Len(queue'), NEW j \in 1 .. Len(queue'),
                      queue'[i].do = "submission", queue'[j].do = "submission",
                      queue'[i].handle = queue'[j].handle
               PROVE  i = j
    OBVIOUS
  <2>1. i + 1 = j + 1
    BY <1>1 DEF WaitingInv
  <2> QED BY <2>1
<1>7. \A i \in 1 .. Len(queue') : queue'[i].do = "submission" => queue'[i].handle \in Handles
  BY <1>1, QueueHolds
<1>8. \A h \in Handles : state'[h] = "new" => Untouched(h)' /\ h \notin pending'
  BY <1>2 DEF WaitingInv, Untouched
<1> QED BY <1>5, <1>6, <1>7, <1>8 DEF WaitingInv, Slots, Untouched, Works, Resting

LEMMA WaitingCallers ==
    ASSUME TypeOK, WaitingInv, StepInv,
           \/ \E h \in Handles : Submit(h) \/ Cancel(h) \/ ScheduleStop(h) \/ Sweep(h)
           \/ Edit \/ BeginReset \/ FinishReset \/ Detach \/ RequestShutdown \/ Close
    PROVE  WaitingInv'
<1> USE DEF handleVars, serviceVars, runtimeVars, storeVars, clientVars
<1>1. ASSUME NEW h \in Handles, Cancel(h) \/ Sweep(h) PROVE WaitingInv'
  BY <1>1, WaitingKept DEF Cancel, Sweep, Works, Resting, Apart, WaitingInv, StepInv, TypeOK
<1>2. ASSUME NEW h \in Handles, ScheduleStop(h) PROVE WaitingInv'
  <2>1. CASE closed
    BY <1>2, <2>1, WaitingKept DEF ScheduleStop, Works, Resting, Apart, StepInv
  <2>2. CASE ~closed
    <3>1. [do |-> "stop", handle |-> h] \in Tasks
      BY DEF Tasks
    <3> QED BY <1>2, <2>2, <3>1, WaitingGrown DEF ScheduleStop
  <2> QED BY <2>1, <2>2
<1>3. CASE Close
  <2>1. [do |-> "cleanup", handle |-> NoHandle] \in Tasks
    BY DEF Tasks
  <2> QED BY <1>3, <2>1, WaitingGrown DEF Close, Drained
<1>4. CASE Edit \/ BeginReset \/ RequestShutdown
  BY <1>4, WaitingKept DEF Edit, BeginReset, RequestShutdown, Works, Resting, Apart, StepInv
<1>5. CASE FinishReset \/ Detach
  BY <1>5, WaitingKept DEF FinishReset, Detach, ClearStore, Works, Resting, Apart, StepInv
<1> QED BY <1>1, <1>2, <1>3, <1>4, <1>5, WaitingSubmit

LEMMA WaitingWorker ==
    ASSUME TypeOK, WaitingInv, StepInv, StopInv, Serve \/ \E h \in Handles : Finish(h)
    PROVE  WaitingInv'
<1>1. \A h \in Handles : run'[h] = "none" <=> run[h] = "none"
  BY WorkerMoves DEF TypeOK
<1>2. stored' \subseteq stored
  BY WorkerMoves
<1>3. UNCHANGED <<handleVars, serviceVars, prep, reserved>>
  BY DEF Serve, Finish, Ended, runtimeVars
<1>4. \A h \in Handles : Apart(h) /\ (Works(h)' <=> Works(h))
  BY <1>1, <1>2, <1>3 DEF Apart, Works, Resting, handleVars, serviceVars
<1>5. \A h \in Handles : Works(h) => state'[h] # "new"
  BY <1>3 DEF StepInv, Works, handleVars
<1> QED BY <1>3, <1>4, <1>5, WaitingKept DEF serviceVars

LEMMA WaitingStep ==
    ASSUME TypeOK, WaitingInv, StepInv, StopInv, [Next]_vars
    PROVE  WaitingInv'
<1>1. CASE UNCHANGED vars
  BY <1>1, WaitingKept DEF vars, handleVars, serviceVars, storeVars, clientVars, Works,
     Resting, Apart, StepInv
<1>2. CASE Executor /\ ~Take
  <2>1. /\ queue' = queue
        /\ \A h \in Handles : Works(h)' => Works(h)
        /\ \A h \in Handles : ~Works(h) => Apart(h)
        /\ \A h \in Handles : Works(h) => state'[h] # "new"
    <3>2. queue' = queue
      BY <1>2 DEF Executor, Begin, CheckCapture, Compute, Register, HandOver, Claim, Reserve,
                  CheckReserved, Retire, Accept, Admit, Announce, CheckAnnounced, Start,
                  Dispatched, StopLate, StopScheduled, Unwind, Fail, Discard, Leave, Settle,
                  Cleanup
    <3> QED BY <1>2, <3>2, ExecutorApart
  <2> QED BY <2>1, WaitingKept
<1> QED BY <1>1, <1>2, WaitingCallers, WaitingTake, WaitingWorker DEF Next, Executor

---------------------------------------------------------------------------
(* What is pending.                                                        *)

Queued(h) == \E i \in Slots : queue[i].do = "submission" /\ queue[i].handle = h

LEMMA PendingKept ==
    ASSUME TypeOK, PendingInv, queue' = queue, pending' \subseteq pending,
           step' = step, current' = current
    PROVE  PendingInv'
BY DEF PendingInv, Works, Resting, Slots

LEMMA PendingGrown ==
    ASSUME TypeOK, PendingInv, NEW t \in Tasks, queue' = Append(queue, t),
           step' = step, current' = current,
           \/ pending' = pending
           \/ t.do = "submission" /\ pending' = pending \cup {t.handle}
    PROVE  PendingInv'
<1>1. /\ Len(queue) \in Nat /\ Len(queue') = Len(queue) + 1
      /\ \A i \in 1 .. Len(queue') :
            queue'[i] = (IF i <= Len(queue) THEN queue[i] ELSE t)
  BY QueueGrown
<1>2. \A i \in Slots : i \in Slots' /\ queue'[i] = queue[i]
  BY <1>1 DEF Slots
<1>3. Len(queue') \in Slots' /\ queue'[Len(queue')] = t
  BY <1>1 DEF Slots
<1> QED BY <1>2, <1>3 DEF PendingInv, Works, Resting

LEMMA PendingTake ==
    ASSUME TypeOK, PendingInv, Take
    PROVE  PendingInv'
<1> SUFFICES ASSUME NEW h \in pending', ~(Works(h)' /\ step' # "settle")
             PROVE  \E i \in Slots' : queue'[i].do = "submission" /\ queue'[i].handle = h
  BY DEF PendingInv
<1>1. /\ Len(queue') = Len(queue) - 1 /\ Head(queue) = queue[1] /\ 1 \in Slots
      /\ \A i \in 1 .. Len(queue') : queue'[i] = queue[i + 1]
  BY QueueTaken
<1>2. PICK i \in Slots : queue[i].do = "submission" /\ queue[i].handle = h
  <2>1. step = "idle" /\ h \in pending
    BY DEF Take, At
  <2> QED BY <2>1 DEF PendingInv, Works, Resting
<1>3. i # 1
  BY <1>1, <1>2 DEF Take, Go, Works, Resting
<1>4. Len(queue) \in Nat
  BY LenProperties DEF TypeOK
<1>5. i - 1 \in Slots' /\ queue'[i - 1] = queue[i]
  BY <1>1, <1>3, <1>4 DEF Slots
<1> QED BY <1>2, <1>5

LEMMA PendingExecutor ==
    ASSUME TypeOK, PendingInv, Executor, ~Take
    PROVE  PendingInv'
<1> USE DEF PendingInv, Works, Resting, Slots, handleVars, serviceVars, At, Go, Raise
<1>1. CASE \/ Begin \/ CheckCapture \/ Compute \/ Register \/ HandOver \/ Claim \/ Reserve
           \/ CheckReserved \/ Retire \/ Accept \/ Admit
  BY <1>1 DEF Begin, CheckCapture, Compute, Register, HandOver, Claim, Reserve, CheckReserved,
              Retire, Accept, Admit
<1>2. CASE Announce \/ CheckAnnounced \/ Start \/ Dispatched \/ StopLate \/ StopScheduled
  BY <1>2 DEF Announce, CheckAnnounced, Start, Dispatched, LateCancel, StopLate, StopScheduled
<1>3. CASE Unwind \/ Fail \/ Discard \/ Leave \/ Settle \/ Cleanup
  BY <1>3 DEF Unwind, Fail, Discard, Leave, Settle, Cleanup
<1> QED BY <1>1, <1>2, <1>3 DEF Executor

LEMMA PendingStep ==
    ASSUME TypeOK, PendingInv, [Next]_vars
    PROVE  PendingInv'
<1> USE DEF handleVars, serviceVars, runtimeVars, storeVars, clientVars
<1>1. CASE UNCHANGED vars
  BY <1>1, PendingKept DEF vars
<1>2. ASSUME NEW h \in Handles, Submit(h) \/ ScheduleStop(h) PROVE PendingInv'
  <2>1. /\ [do |-> "submission", handle |-> h] \in Tasks
        /\ [do |-> "stop", handle |-> h] \in Tasks
    BY DEF Tasks
  <2>2. CASE Submit(h)
    BY <2>1, <2>2, PendingGrown DEF Submit
  <2>3. CASE ScheduleStop(h)
    BY <2>1, <2>3, PendingGrown, PendingKept DEF ScheduleStop
  <2> QED BY <1>2, <2>2, <2>3
<1>3. CASE Close
  <2>1. [do |-> "cleanup", handle |-> NoHandle] \in Tasks
    BY DEF Tasks
  <2> QED BY <1>3, <2>1, PendingGrown DEF Close, Drained
<1>4. ASSUME NEW h \in Handles, Cancel(h) \/ Sweep(h) \/ Finish(h) PROVE PendingInv'
  BY <1>4, PendingKept DEF Cancel, Sweep, Finish
<1>5. CASE Edit \/ BeginReset \/ FinishReset \/ Detach \/ RequestShutdown \/ Serve
  BY <1>5, PendingKept DEF Edit, BeginReset, FinishReset, Detach, RequestShutdown, Serve
<1> QED BY <1>1, <1>2, <1>3, <1>4, <1>5, PendingTake, PendingExecutor DEF Next, Executor

---------------------------------------------------------------------------
(* What follows the start of a run.                                        *)

LEMMA StopKept ==
    ASSUME TypeOK, StopInv, queue' = queue, wire' = wire \/ wire' = <<>>,
           \A h \in Handles : run[h] # "none" => run'[h] # "none",
           \A h \in Handles :
              state'[h] = "dispatched" \/ h \in owing' =>
                 state[h] = "dispatched" \/ h \in owing \/ run[h] # "none",
           step' \in {"started", "stop", "scheduled"} => run'[current'] # "none"
    PROVE  StopInv'
<1>1. \A i \in Slots : queue[i].do = "stop" => queue[i].handle \in Handles
  BY QueueHolds
<1>2. \A i \in 1 .. Len(wire) : wire[i].handle \in Handles
  BY WireHolds
<1>3. \A i \in 1 .. Len(wire') : wire'[i] = wire[i] /\ i \in 1 .. Len(wire)
  BY EmptySeq
<1> QED BY <1>1, <1>2, <1>3 DEF StopInv, Slots

LEMMA StopGrown ==
    ASSUME TypeOK, StopInv, NEW t \in Tasks, queue' = Append(queue, t),
           t.do = "stop" => run[t.handle] # "none",
           UNCHANGED <<wire, run, step, current>>,
           \A h \in Handles :
              state'[h] = "dispatched" \/ h \in owing' =>
                 state[h] = "dispatched" \/ h \in owing
    PROVE  StopInv'
<1>1. /\ Len(queue) \in Nat /\ Len(queue') = Len(queue) + 1
      /\ \A i \in 1 .. Len(queue') :
            queue'[i] = (IF i <= Len(queue) THEN queue[i] ELSE t)
  BY QueueGrown
<1>2. \A i \in 1 .. Len(queue') : queue'[i].do = "stop" => run[queue'[i].handle] # "none"
  BY <1>1 DEF StopInv, Slots
<1> QED BY <1>2 DEF StopInv, Slots

LEMMA StopCallers ==
    ASSUME TypeOK, StopInv,
           \/ \E h \in Handles : Submit(h) \/ Cancel(h) \/ ScheduleStop(h) \/ Sweep(h)
           \/ Edit \/ BeginReset \/ FinishReset \/ Detach \/ RequestShutdown \/ Close
    PROVE  StopInv'
<1> USE DEF handleVars, serviceVars, runtimeVars, storeVars, clientVars
<1>1. ASSUME NEW h \in Handles, Submit(h) PROVE StopInv'
  <2>1. [do |-> "submission", handle |-> h] \in Tasks
    BY DEF Tasks
  <2>2. \A g \in Handles : state'[g] = "dispatched" => state[g] = "dispatched"
    BY <1>1 DEF Submit, TypeOK
  <2> QED BY <1>1, <2>1, <2>2, StopGrown DEF Submit
<1>2. ASSUME NEW h \in Handles, ScheduleStop(h) PROVE StopInv'
  <2>1. [do |-> "stop", handle |-> h] \in Tasks
    BY DEF Tasks
  <2>2. run[h] # "none"
    BY <1>2 DEF ScheduleStop, StopInv
  <2>3. CASE closed
    BY <1>2, <2>3, StopKept DEF ScheduleStop, StopInv
  <2>4. CASE ~closed
    BY <1>2, <2>1, <2>2, <2>4, StopGrown DEF ScheduleStop
  <2> QED BY <2>3, <2>4
<1>3. CASE Close
  <2>1. [do |-> "cleanup", handle |-> NoHandle] \in Tasks
    BY DEF Tasks
  <2> QED BY <1>3, <2>1, StopGrown DEF Close, Drained
<1>4. ASSUME NEW h \in Handles, Cancel(h) \/ Sweep(h) PROVE StopInv'
  BY <1>4, StopKept DEF Cancel, Sweep, CancelHandle, HasRun, StopInv
<1>5. CASE Edit \/ BeginReset \/ FinishReset \/ Detach \/ RequestShutdown
  BY <1>5, StopKept DEF Edit, BeginReset, FinishReset, Detach, RequestShutdown, StopInv
<1> QED BY <1>1, <1>2, <1>3, <1>4, <1>5

LEMMA StopTake ==
    ASSUME TypeOK, StopInv, Take
    PROVE  StopInv'
<1>1. /\ Len(queue') = Len(queue) - 1 /\ Head(queue) = queue[1] /\ 1 \in Slots
      /\ queue[1] \in Tasks
      /\ \A i \in 1 .. Len(queue') : queue'[i] = queue[i + 1] /\ i + 1 \in Slots
  BY QueueTaken
<1>2. \A i \in 1 .. Len(queue') : queue'[i].do = "stop" => run[queue'[i].handle] # "none"
  BY <1>1 DEF StopInv
<1>3. step' \in {"started", "stop", "scheduled"} =>
         queue[1].do = "stop" /\ current' = queue[1].handle
  BY <1>1 DEF Take, Go, Tasks
<1>4. UNCHANGED <<state, owing, run, wire>>
  BY DEF Take, handleVars, clientVars
<1> QED BY <1>1, <1>2, <1>3, <1>4 DEF StopInv, Slots

LEMMA StopWrites ==
    ASSUME TypeOK, StopInv, Start \/ StopLate \/ StopScheduled
    PROVE  StopInv'
<1>1. current \in Handles
  BY InHand DEF Start, StopLate, StopScheduled, At
<1>2. /\ queue' = queue /\ state' = state /\ owing' = owing
      /\ step' \in {"started", "discard", "idle", "unwind"}
      /\ step' = "started" => current' = current
  BY DEF Start, StopLate, StopScheduled, Go, Raise, handleVars
<1>3. /\ \A h \in Handles : run[h] # "none" => run'[h] # "none"
      /\ wire' # wire \/ step' = "started" => run'[current] # "none"
  BY <1>1 DEF Start, StopLate, StopScheduled, At, Go, Raise, StopInv, TypeOK
<1>4. CASE wire' = wire
  BY <1>2, <1>3, <1>4, StopKept
<1>5. CASE wire' # wire
  <2>1. PICK verb \in {"start", "stop"} : Write(verb, current)
    BY <1>5 DEF Start, StopLate, StopScheduled
  <2>2. \A i \in 1 .. Len(wire') :
                \/ i \in 1 .. Len(wire) /\ wire'[i] = wire[i]
                \/ wire'[i].handle = current
    <3>1. /\ Len(wire) \in Nat /\ Len(wire') = Len(wire) + 1
          /\ \A i \in 1 .. Len(wire') :
                wire'[i] = IF i <= Len(wire) THEN wire[i] ELSE [do |-> verb, handle |-> current]
      BY <1>1, <2>1, WireWritten
    <3> QED BY <3>1
  <2>3. \A i \in 1 .. Len(wire') : run'[wire'[i].handle] # "none"
    BY <1>3, <1>5, <2>2, WireHolds DEF StopInv
  <2> QED BY <1>2, <1>3, <1>5, <2>3, QueueHolds DEF StopInv, Slots
<1> QED BY <1>4, <1>5

LEMMA StopExecutor ==
    ASSUME TypeOK, StopInv, StepInv, Executor, ~Take
    PROVE  StopInv'
<1> USE StopKept DEF handleVars, serviceVars, runtimeVars, storeVars, clientVars, At, Go, Raise
<1>1. CASE \/ Begin \/ CheckCapture \/ Compute \/ Register \/ HandOver \/ Claim \/ Reserve
           \/ CheckReserved \/ Retire \/ Accept \/ Admit
  BY <1>1 DEF Begin, CheckCapture, Compute, Register, HandOver, Claim, Reserve, CheckReserved,
              Retire, Accept, Admit, TypeOK, StopInv
<1>2. CASE Announce \/ CheckAnnounced
  BY <1>2 DEF Announce, CheckAnnounced
<1>3. CASE Dispatched
  BY <1>3 DEF Dispatched, LateCancel, TypeOK, StopInv
<1>4. CASE Unwind \/ Discard \/ Leave \/ Settle
  BY <1>4 DEF Unwind, Discard, Leave, Settle
<1>5. CASE Fail
  BY <1>5 DEF Fail, Outcome, TypeOK, StopInv
<1>6. CASE Cleanup
  BY <1>6 DEF Cleanup
<1> QED BY <1>1, <1>2, <1>3, <1>4, <1>5, <1>6, StopWrites DEF Executor

LEMMA StopWorker ==
    ASSUME TypeOK, StopInv, Serve \/ \E h \in Handles : Finish(h)
    PROVE  StopInv'
<1>1. \A h \in Handles : run'[h] = "none" <=> run[h] = "none"
  BY WorkerMoves DEF TypeOK
<1>2. UNCHANGED <<state, owing, queue, step, current>>
  BY DEF Serve, Finish, handleVars, serviceVars
<1>3. step \in {"started", "stop", "scheduled"} => run'[current] # "none"
  BY <1>1, InHand DEF StopInv
<1>4. CASE wire' = wire
  BY <1>1, <1>2, <1>3, <1>4, StopKept
<1>5. CASE wire # <<>> /\ wire' = Tail(wire)
  <2>1. \A i \in 1 .. Len(wire') : i + 1 \in 1 .. Len(wire) /\ wire'[i] = wire[i + 1]
    BY <1>5, WireTaken DEF TypeOK
  <2>2. \A i \in 1 .. Len(wire') : run'[wire'[i].handle] # "none"
    BY <1>1, <2>1, WireHolds DEF StopInv
  <2> QED BY <1>1, <1>2, <1>3, <2>2, QueueHolds DEF StopInv, Slots
<1> QED BY <1>4, <1>5 DEF Serve, Finish

LEMMA StopStep ==
    ASSUME TypeOK, StopInv, StepInv, [Next]_vars
    PROVE  StopInv'
<1>1. CASE UNCHANGED vars
  BY <1>1 DEF StopInv, Slots, vars, handleVars, serviceVars, clientVars
<1> QED BY <1>1, StopCallers, StopTake, StopExecutor, StopWorker DEF Next, Executor

---------------------------------------------------------------------------
(* What a submission with a result holds.                                  *)

LEMMA SettledOthers ==
    ASSUME TypeOK, SettledInv, result' = result, reserved' \subseteq reserved,
           \A h \in Handles : prep'[h] = prep[h] \/ prep'[h] = "none",
           \/ run' = run /\ stored' \subseteq stored
           \/ stored' = {} /\ \A h \in Handles : run'[h] = "none" <=> run[h] = "none"
    PROVE  SettledInv'
BY DEF SettledInv, TypeOK

LEMMA SettledWorker ==
    ASSUME TypeOK, SettledInv, StopInv, Serve \/ \E h \in Handles : Finish(h)
    PROVE  SettledInv'
<1>1. UNCHANGED <<result, prep, reserved>>
  BY DEF Serve, Finish, handleVars
<1>2. PICK h \in Handles : \E r \in {"running", "ended", run[h]} :
              /\ run[h] # "none" /\ run' = [run EXCEPT ![h] = r]
              /\ stored' = IF r = "ended" /\ r # run[h] THEN stored \ {h} ELSE stored
              /\ r = "ended" /\ r # run[h] => run[h] = "running"
  BY WorkerMoves
<1>3. /\ stored' \subseteq stored /\ run'[h] # "none"
      /\ \A g \in Handles : g # h => run'[g] = run[g]
      /\ run'[h] = "ended" => h \notin stored'
  BY <1>2 DEF TypeOK, SettledInv
<1> QED BY <1>1, <1>2, <1>3 DEF SettledInv

LEMMA SettledCallers ==
    ASSUME TypeOK, SettledInv,
           \/ \E h \in Handles : Submit(h) \/ Cancel(h) \/ ScheduleStop(h) \/ Sweep(h)
           \/ Edit \/ BeginReset \/ FinishReset \/ Detach \/ RequestShutdown \/ Close
    PROVE  SettledInv'
<1> USE SettledOthers DEF handleVars, storeVars, clientVars
<1>1. ASSUME NEW h \in Handles, Submit(h) \/ Cancel(h) \/ ScheduleStop(h) \/ Sweep(h)
      PROVE  SettledInv'
  BY <1>1 DEF Submit, Cancel, ScheduleStop, Sweep
<1>2. CASE Edit \/ BeginReset \/ RequestShutdown \/ Close
  BY <1>2 DEF Edit, BeginReset, RequestShutdown, Close
<1>3. CASE FinishReset \/ Detach
  BY <1>3 DEF FinishReset, Detach, ClearStore, TypeOK
<1> QED BY <1>1, <1>2, <1>3

LEMMA SettledExecutor ==
    ASSUME TypeOK, SettledInv, StepInv, Executor
    PROVE  SettledInv'
<1> USE InHand DEF TypeOK, handleVars, serviceVars, runtimeVars, storeVars, clientVars, At, Go
<1>1. CASE Take \/ Begin \/ CheckCapture \/ Compute \/ HandOver \/ CheckReserved \/ Retire
  BY <1>1, SettledOthers DEF Take, Begin, CheckCapture, Compute, HandOver, CheckReserved, Retire
<1>2. CASE \/ Admit \/ Announce \/ CheckAnnounced \/ Dispatched \/ StopLate \/ StopScheduled
           \/ Fail \/ Leave
  BY <1>2, SettledOthers DEF Admit, Announce, CheckAnnounced, Dispatched, StopLate,
           StopScheduled, Fail, Leave
<1>3. CASE Unwind \/ Discard \/ Cleanup
  BY <1>3, SettledOthers DEF Unwind, Discard, Unclaimed, Cleanup, ClearStore
<1>4. CASE Register \/ Claim \/ Reserve \/ Accept
  BY <1>4 DEF Register, Claim, Reserve, Accept, SettledInv, StepInv, Resting, BeforeStart
<1>5. CASE Start
  BY <1>5 DEF Start, Raise, SettledInv, StepInv, Resting
<1>6. CASE Settle
  BY <1>6 DEF Settle, SettledInv, StepInv, Resting, HasNoPrep, MayReserve, AfterOutcome
<1> QED BY <1>1, <1>2, <1>3, <1>4, <1>5, <1>6 DEF Executor

LEMMA SettledStep ==
    ASSUME TypeOK, SettledInv, StepInv, StopInv, [Next]_vars
    PROVE  SettledInv'
<1>1. CASE UNCHANGED vars
  BY <1>1, SettledOthers DEF vars, handleVars, storeVars, clientVars
<1> QED BY <1>1, SettledCallers, SettledExecutor, SettledWorker DEF Next

---------------------------------------------------------------------------
(* What the admission relies on.                                           *)

LEMMA EpochsEqual ==
    ASSUME NEW e \in [binding : Nat, revision : Nat], NEW f \in [binding : Nat, revision : Nat],
           e.binding = f.binding, e.revision = f.revision
    PROVE  e = f
<1>1. e = [binding |-> e.binding, revision |-> e.revision]
  OBVIOUS
<1>2. f = [binding |-> f.binding, revision |-> f.revision]
  OBVIOUS
<1> QED BY <1>1, <1>2

LEMMA AcceptStep ==
    ASSUME TypeOK, AcceptInv, [Next]_vars
    PROVE  AcceptInv'
<1> USE DEF TypeOK, AcceptInv, handleVars, serviceVars, runtimeVars, storeVars, clientVars,
            At, Go, Raise
<1>1. CASE UNCHANGED vars
  BY <1>1 DEF vars
<1>2. ASSUME NEW h \in Handles,
             Submit(h) \/ Cancel(h) \/ ScheduleStop(h) \/ Sweep(h) \/ Finish(h)
      PROVE  AcceptInv'
  BY <1>2 DEF Submit, Cancel, ScheduleStop, Sweep, Finish
<1>3. CASE Edit \/ BeginReset \/ FinishReset \/ Detach \/ RequestShutdown \/ Close \/ Serve
  BY <1>3 DEF Edit, BeginReset, FinishReset, Detach, RequestShutdown, Close, Serve
<1>4. CASE Take
  <2>1. step' \in {"begin", "scheduled", "cleanup"}
    <3>1. Head(queue) \in Tasks
      BY <1>4, QueueTaken
    <3> QED BY <1>4, <3>1 DEF Take, Tasks
  <2> QED BY <1>4, <2>1 DEF Take
<1>5. CASE \/ Begin \/ CheckCapture \/ Compute \/ Register \/ HandOver \/ Claim \/ Reserve
           \/ CheckReserved \/ Retire
  BY <1>5 DEF Begin, CheckCapture, Compute, Register, HandOver, Claim, Reserve, CheckReserved,
              Retire
<1>6. CASE Accept
  <2>1. step' = "admit" => stamp[current] = epoch /\ ~shutdown
    <3> SUFFICES ASSUME step' = "admit"
                 PROVE  stamp[current] = epoch /\ ~shutdown
      OBVIOUS
    <3>1. /\ ~shutdown /\ stamp[current].binding = epoch.binding
          /\ stamp[current].revision = epoch.revision
      BY <1>6 DEF Accept, Fresh, BindingChanged
    <3>2. current \in Handles
      BY <1>6, InHand DEF Accept
    <3> QED BY <3>1, <3>2, EpochsEqual
  <2> QED BY <1>6, <2>1 DEF Accept
<1>7. CASE Admit \/ Announce \/ CheckAnnounced \/ Start \/ Dispatched \/ StopLate \/ StopScheduled
  BY <1>7 DEF Admit, Announce, CheckAnnounced, Start, Dispatched, LateCancel, StopLate,
              StopScheduled
<1>8. CASE Unwind \/ Fail \/ Discard \/ Leave \/ Settle \/ Cleanup
  BY <1>8 DEF Unwind, Fail, Discard, Leave, Settle, Cleanup
<1> QED BY <1>1, <1>2, <1>3, <1>4, <1>5, <1>6, <1>7, <1>8 DEF Next, Executor

---------------------------------------------------------------------------
(* The end of the service.                                                 *)

LEMMA ClosedKept ==
    ASSUME ClosedInv, queue' = queue, closed' = closed, cleaned' = cleaned,
           step' # step => ~cleaned /\ step # "cleanup" /\ step' # "cleanup",
           cleaned => /\ wire' = wire /\ pending' = pending
                      /\ stored' \subseteq stored /\ reserved' = reserved
                      /\ \A h \in Handles : prep'[h] \in {prep[h], "none"}
                      /\ run' = run
    PROVE  ClosedInv'
<1>1. CleanupIsLast'
  BY DEF ClosedInv, CleanupIsLast
<1> QED BY <1>1 DEF ClosedInv, Slots

LEMMA ClosedTake ==
    ASSUME TypeOK, ClosedInv, Take
    PROVE  ClosedInv'
<1>1. /\ Len(queue') = Len(queue) - 1 /\ Head(queue) = queue[1] /\ 1 \in Slots
      /\ queue[1] \in Tasks /\ queue' \in Seq(Tasks)
      /\ \A i \in 1 .. Len(queue') : queue'[i] = queue[i + 1] /\ i + 1 \in Slots
  BY QueueTaken
<1>2. Len(queue) \in Nat /\ queue # <<>>
  BY LenProperties DEF TypeOK, Take
<1>3. UNCHANGED <<closed, cleaned>> /\ step = "idle" /\ ~cleaned
  BY <1>2 DEF Take, runtimeVars, At, ClosedInv, CleanupIsLast
<1>4. step' = "cleanup" <=> queue[1].do = "cleanup"
  <2>1. queue[1].do \in {"submission", "stop", "cleanup"}
    BY <1>1 DEF Tasks
  <2> QED BY <1>1, <2>1 DEF Take, Go
<1>5. \A i \in 1 .. Len(queue') : queue'[i].do = "cleanup" => closed /\ i = Len(queue')
  BY <1>1, <1>2 DEF ClosedInv, Slots
<1>6. CASE queue[1].do = "cleanup"
  <2>1. closed /\ Len(queue) = 1
    BY <1>1, <1>6 DEF ClosedInv
  <2>2. queue' = <<>>
    BY <1>1, <2>1, EmptySeq
  <2> QED BY <1>3, <1>4, <1>5, <1>6, <2>1, <2>2 DEF ClosedInv, Slots, CleanupIsLast
<1>7. CASE queue[1].do # "cleanup"
  <2>1. closed => queue[Len(queue)].do = "cleanup" /\ Len(queue) # 1
    BY <1>3, <1>7 DEF ClosedInv
  <2>2. closed => Len(queue') \in 1 .. Len(queue')
    BY <1>1, <1>2, <2>1 DEF Slots
  <2>3. closed => queue' # <<>> /\ queue'[Len(queue')].do = "cleanup"
    BY <1>1, <1>2, <2>1, <2>2, EmptySeq
  <2> QED BY <1>3, <1>4, <1>5, <1>7, <2>3 DEF ClosedInv, Slots, CleanupIsLast
<1> QED BY <1>6, <1>7

LEMMA ClosedCleanup ==
    ASSUME TypeOK, ClosedInv, PendingInv, Cleanup
    PROVE  ClosedInv'
<1>1. closed /\ queue = <<>>
  BY DEF Cleanup, At, ClosedInv
<1>2. pending = {}
  <2>1. Slots = {}
    BY <1>1 DEF Slots
  <2> QED BY <2>1 DEF PendingInv, Works, Resting, Cleanup, At, TypeOK
<1>3. CleanupIsLast'
  BY <1>1, <1>2 DEF Cleanup, ClearStore, CleanupIsLast
<1> QED BY <1>1, <1>3 DEF Cleanup, Go, ClosedInv, Slots

LEMMA ClosedExecutor ==
    ASSUME TypeOK, ClosedInv, Executor, ~Take, ~Cleanup
    PROVE  ClosedInv'
<1>1. UNCHANGED <<queue, closed, cleaned>> /\ step \notin {"idle", "cleanup"} /\ step' # "cleanup"
  <2> USE DEF serviceVars, runtimeVars, At, Go, Raise
  <2>1. CASE \/ Begin \/ CheckCapture \/ Compute \/ Register \/ HandOver \/ Claim \/ Reserve
             \/ CheckReserved \/ Retire \/ Accept \/ Admit
    BY <2>1 DEF Begin, CheckCapture, Compute, Register, HandOver, Claim, Reserve,
                CheckReserved, Retire, Accept, Admit
  <2>2. CASE Announce \/ CheckAnnounced \/ Start \/ Dispatched \/ StopLate \/ StopScheduled
    BY <2>2 DEF Announce, CheckAnnounced, Start, Dispatched, LateCancel, StopLate, StopScheduled
  <2>3. CASE Unwind \/ Fail \/ Discard \/ Leave \/ Settle
    BY <2>3 DEF Unwind, Fail, Discard, Leave, Settle
  <2> QED BY <2>1, <2>2, <2>3 DEF Executor
<1>2. ~cleaned
  BY <1>1 DEF ClosedInv
<1> QED BY <1>1, <1>2, ClosedKept

LEMMA ClosedGrown ==
    ASSUME TypeOK, ClosedInv, ~closed, NEW t \in Tasks, queue' = Append(queue, t),
           t.do = "cleanup" <=> closed', UNCHANGED <<step, cleaned>>
    PROVE  ClosedInv'
<1>1. /\ Len(queue) \in Nat /\ Len(queue') = Len(queue) + 1 /\ queue' # <<>>
      /\ \A i \in 1 .. Len(queue') :
            queue'[i] = (IF i <= Len(queue) THEN queue[i] ELSE t)
  BY QueueGrown
<1>2. \A i \in 1 .. Len(queue') : queue'[i].do = "cleanup" => closed' /\ i = Len(queue')
  BY <1>1 DEF ClosedInv, Slots
<1>3. ~cleaned /\ step # "cleanup"
  BY DEF ClosedInv
<1>4. closed' => queue'[Len(queue')].do = "cleanup"
  BY <1>1
<1> QED BY <1>1, <1>2, <1>3, <1>4 DEF ClosedInv, Slots, CleanupIsLast

LEMMA ClosedStep ==
    ASSUME TypeOK, ClosedInv, PendingInv, [Next]_vars
    PROVE  ClosedInv'
<1> USE DEF handleVars, serviceVars, runtimeVars, storeVars, clientVars
<1>1. CASE UNCHANGED vars
  BY <1>1, ClosedKept DEF vars
<1>2. ASSUME NEW h \in Handles, Submit(h) \/ ScheduleStop(h) PROVE ClosedInv'
  <2>1. /\ [do |-> "submission", handle |-> h] \in Tasks
        /\ [do |-> "stop", handle |-> h] \in Tasks
    BY DEF Tasks
  <2>2. CASE Submit(h)
    BY <2>1, <2>2, ClosedGrown DEF Submit
  <2>3. CASE ScheduleStop(h) /\ closed
    BY <2>3, ClosedKept DEF ScheduleStop
  <2>4. CASE ScheduleStop(h) /\ ~closed
    BY <2>1, <2>4, ClosedGrown DEF ScheduleStop
  <2> QED BY <1>2, <2>2, <2>3, <2>4
<1>3. CASE Close
  <2>1. [do |-> "cleanup", handle |-> NoHandle] \in Tasks
    BY DEF Tasks
  <2> QED BY <1>3, <2>1, ClosedGrown DEF Close, Drained
<1>4. ASSUME NEW h \in Handles, Cancel(h) \/ Sweep(h) \/ Finish(h) PROVE ClosedInv'
  <2>1. CASE Cancel(h) \/ Sweep(h)
    BY <2>1, ClosedKept DEF Cancel, Sweep
  <2>2. CASE Finish(h)
    <3>1. ~cleaned
      BY <2>2 DEF Finish, ClosedInv, CleanupIsLast
    <3> QED BY <2>2, <3>1, ClosedKept DEF Finish
  <2> QED BY <1>4, <2>1, <2>2
<1>5. CASE Edit \/ BeginReset \/ RequestShutdown
  BY <1>5, ClosedKept DEF Edit, BeginReset, RequestShutdown
<1>6. CASE FinishReset \/ Detach
  <2>1. prep' = [h \in Handles |-> "none"] /\ stored' = {} /\ UNCHANGED <<reserved, clientVars>>
    BY <1>6 DEF FinishReset, Detach, ClearStore
  <2> QED BY <1>6, <2>1, ClosedKept DEF FinishReset, Detach
<1>7. CASE Serve
  <2>1. ~cleaned
    BY <1>7 DEF Serve, ClosedInv, CleanupIsLast
  <2> QED BY <1>7, <2>1, ClosedKept DEF Serve
<1> QED BY <1>1, <1>2, <1>3, <1>4, <1>5, <1>6, <1>7, ClosedTake, ClosedCleanup, ClosedExecutor
           DEF Next, Executor

---------------------------------------------------------------------------
(* The theorems.                                                           *)

LEMMA InvariantInit == Init => IInv
<1> SUFFICES ASSUME Init PROVE IInv
  OBVIOUS
<1>1. TypeOK
  BY TypesInit
<1>2. Slots = {} /\ 1 .. Len(wire) = {}
  BY DEF Init, Slots
<1>3. WaitingInv /\ PendingInv /\ StopInv
  BY <1>2 DEF Init, WaitingInv, PendingInv, StopInv, Untouched
<1>4. StepInv /\ SettledInv
  BY DEF Init, StepInv, Resting, BeforeStart, AfterOutcome, SettledInv
<1>5. AcceptInv /\ ClosedInv
  BY <1>2 DEF Init, AcceptInv, ClosedInv, CleanupIsLast
<1> QED BY <1>1, <1>3, <1>4, <1>5 DEF IInv

LEMMA InvariantStep == IInv /\ [Next]_vars => IInv'
BY TypesStep, StepStep, WaitingStep, PendingStep, StopStep, SettledStep, AcceptStep, ClosedStep
   DEF IInv

LEMMA Invariant == Spec => []IInv
BY InvariantInit, InvariantStep, PTL DEF Spec

(* Every variable of the submission service keeps its type.                *)
THEOREM Types == Spec => []TypeOK
<1>1. IInv => TypeOK
  BY DEF IInv
<1> QED BY <1>1, Invariant, PTL

(* StopRun is asked for, queued or written only for a run whose StartRun   *)
(* was written, at whatever step a cancellation met the submission.        *)
THEOREM StopsFollow == Spec => []StopFollowsStart
<1>1. IInv => StopFollowsStart
  <2> SUFFICES ASSUME IInv, NEW h \in Handles,
                      \/ h \in owing \/ StopTasks(h) # {} \/ StopCommands(h) # {}
                      \/ step \in {"stop", "scheduled"} /\ current = h
               PROVE  run[h] # "none"
    BY DEF StopFollowsStart
  <2> QED BY DEF IInv, StopInv, Slots, StopTasks, StopCommands
<1> QED BY <1>1, Invariant, PTL

(* A submission whose result was set, on whichever exit, holds no          *)
(* preparation, no reservation and no place among the pending, and only a  *)
(* run that was started keeps its entry in the store.                      *)
THEOREM ResultsHoldNothing == Spec => []NothingLeft
<1>1. IInv => NothingLeft
  <2> SUFFICES ASSUME IInv, NEW h \in Handles, result[h] # "none"
               PROVE  /\ prep[h] = "none" /\ h \notin reserved \cup pending
                      /\ h \in stored => run[h] \in {"sent", "running"}
                      /\ result[h] \in {"cancelled", "failed"} => run[h] = "none"
    BY DEF NothingLeft
  <2>1. h \notin pending
    <3>1. ~Works(h)
      BY DEF IInv, StepInv, Works
    <3>2. \A i \in Slots : ~(queue[i].do = "submission" /\ queue[i].handle = h)
      BY DEF IInv, WaitingInv, Untouched
    <3> QED BY <3>1, <3>2 DEF IInv, PendingInv
  <2> QED BY <2>1 DEF IInv, SettledInv, TypeOK
<1> QED BY <1>1, Invariant, PTL

(* After the cleanup of shutdown no task, command or live run is left and  *)
(* the store stays empty.                                                  *)
THEOREM CleanupEndsAll == Spec => []CleanupIsLast
<1>1. IInv => CleanupIsLast
  BY DEF IInv, ClosedInv
<1> QED BY <1>1, Invariant, PTL

(* A submission is admitted only in the project, workspace revision and    *)
(* runtime in which it was captured.                                       *)
THEOREM AdmissionIsFresh == Spec => AdmittedFresh
<1> DEFINE Fair == \A h \in Handles :
                      state[h] # "admitted" /\ state'[h] = "admitted" =>
                          stamp[h] = epoch' /\ ~shutdown'
<1>1. IInv /\ [Next]_vars => [Fair]_vars
  <2> SUFFICES ASSUME IInv, [Next]_vars, NEW h \in Handles,
                      state[h] # "admitted", state'[h] = "admitted"
               PROVE  stamp[h] = epoch' /\ ~shutdown'
    OBVIOUS
  <2> USE DEF IInv, TypeOK, handleVars
  <2>1. Admit /\ h = current
    <3>1. \/ Begin \/ Admit \/ Dispatched \/ Fail \/ UNCHANGED state
          \/ \E g \in Handles : Submit(g)
      BY DEF Next, Executor, vars, Take, CheckCapture, Compute, Register, HandOver, Claim,
         Reserve, CheckReserved, Retire, Accept, Announce, CheckAnnounced, Start, StopLate,
         StopScheduled, Unwind, Discard, Leave, Settle, Cleanup, Cancel, ScheduleStop, Sweep,
         Finish, Edit, BeginReset, FinishReset, Detach, RequestShutdown, Close, Serve
    <3>2. ~Begin /\ ~Dispatched /\ ~\E g \in Handles : Submit(g)
      BY DEF Begin, Dispatched, Submit
    <3>3. ~Fail
      BY DEF Fail, Outcome
    <3> QED BY <3>1, <3>2, <3>3 DEF Admit
  <2> QED BY <2>1 DEF Admit, At, AcceptInv
<1> QED BY <1>1, Invariant, PTL DEF Spec, AdmittedFresh

===============================================================================
