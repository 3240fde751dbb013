------------------------ MODULE ProcessClientProofs ------------------------
(***************************************************************************)
(* For any callers, runs, contracts and failures, and any bounds: the      *)
(* types of ProcessClient, that one worker process is alive at most, that  *)
(* no start is dropped while workers hold up, and that a run has one       *)
(* verdict at most.                                                        *)
(***************************************************************************)
EXTENDS ProcessClient, FiniteSetTheorems, SequenceTheorems, TLAPS

---------------------------------------------------------------------------
(* What is true whatever fails, by what each part speaks of.               *)

(* A call is in the state its kind allows.                                 *)
JobFits(c) ==
    LET j == job[c] IN
    /\ pc[c] \in {"idle", "await"} => j.kind = "none"
    /\ pc[c] \in {"bind", "reserved", "mark"} => j.kind = "start"
    /\ pc[c] \in {"ensuring", "probe", "declare", "tell", "invalidate", "spawn", "ready"}
         => j.kind \in {"start", "ensure"}
    /\ pc[c] = "stopping" => j.then \in {"bind", "unpin", "off"}
    /\ pc[c] = "joining" => j.then # "none"
    /\ j.then = "bind" => j.kind = "start"
    /\ j.then = "spawn" => j.kind \in {"start", "ensure"}
    /\ j.then = "off" => j.kind = "shutdown"
    /\ IF j.kind = "start" THEN j.run \in Runs /\ j.contract \in Contracts
                           ELSE j.run = NoRun
JobInv == \A c \in Callers : JobFits(c)

(* Outside these two states a caller holds _start_lock; a listener does    *)
(* while it kills its worker.                                              *)
LockInv ==
    /\ \A c \in Callers : pc[c] \in {"idle", "reserved"} \/ startLock = c
    /\ \A g \in Generations : pc[g] = "killing" => startLock = g

(* A worker is in its run from the start to the end of it.                 *)
StageInv == \A g \in Generations : stage[g] # 0 => serving[g] \in Runs

(* A caller that found the worker dead keeps it so until it replaces it.   *)
DeadInv ==
    /\ OneWorker
    /\ \A c \in Callers :
          /\ pc[c] \in {"probe", "declare", "tell", "invalidate", "joining"} => ~Alive(process)
          /\ pc[c] = "spawn" => process = 0

(* Generations are numbered in order, and one to come has no trace.        *)
Unborn(g) == /\ life[g] = "none" /\ pc[g] = "none" /\ serving[g] = NoRun
             /\ commands[g] = <<>> /\ events[g] = <<>> /\ event[g] = Sentinel
GenInv ==
    /\ physicalGen <= catalogGen
    /\ process \in {0, physicalGen} /\ acceptedGen \in {Retired, physicalGen}
    /\ \A g \in Generations : g > physicalGen => Unborn(g)

BaseInv == TypeOK /\ JobInv /\ LockInv /\ StageInv /\ DeadInv /\ GenInv

---------------------------------------------------------------------------
(* A run is sent once.                                                     *)

(* The runs that have not been sent.                                       *)
Unsent(c) == job[c].kind = "start" /\ pc[c] # "mark"
Waiting   == todo \cup {job[c].run : c \in {d \in Callers : Unsent(d)}}

EndKinds == {"ended", "fatal"}
RunKinds == {"started", "settled", "badOffer"} \cup EndKinds

Posted(g) == 1 .. Len(commands[g])
Queued(g) == 1 .. Len(events[g])
StartAt(g, i, r) == commands[g][i].kind = "start" /\ commands[g][i].of = r
EndAt(g, i, r)   == events[g][i].kind \in EndKinds /\ events[g][i].of = r
EndTaken(g, r)   == event[g].kind \in EndKinds /\ event[g].of = r

(* Each run is started by one caller.                                      *)
OwnerInv ==
    \A c \in Callers : job[c].kind = "start" =>
        /\ job[c].run \notin todo
        /\ \A d \in Callers : job[d].kind = "start" /\ job[d].run = job[c].run => d = c

(* What is under way at a worker, has been told by it, or was captured by  *)
(* a health check is of a run that was sent.                               *)
SentAt(g) ==
    /\ \A i \in Posted(g) : commands[g][i].kind = "start" => commands[g][i].of \notin Waiting
    /\ serving[g] # NoRun => serving[g] \notin Waiting
    /\ \A i \in Queued(g) : events[g][i].kind \in RunKinds => events[g][i].of \notin Waiting
    /\ event[g].kind \in RunKinds => event[g].of \notin Waiting
Checks(t) == pc[t] \in {"probe", "declare", "tell", "kill", "killing"} /\ seen[t].run # NoRun
SentInv ==
    /\ \A g \in Generations : SentAt(g)
    /\ \A t \in Threads : Checks(t) => seen[t].run \notin Waiting
    /\ activeRun # NoRun /\ pendingRun # activeRun => activeRun \notin Waiting

(* A run is in one place at its worker: its start is queued, it is served, *)
(* or its end is queued or taken.                                          *)
Placed(g, r) ==
    /\ \A i, j \in Posted(g) : StartAt(g, i, r) /\ StartAt(g, j, r) => i = j
    /\ \A i, j \in Queued(g) : EndAt(g, i, r) /\ EndAt(g, j, r) => i = j
    /\ \A i \in Posted(g), j \in Queued(g) : ~(StartAt(g, i, r) /\ EndAt(g, j, r))
    /\ serving[g] = r => /\ \A i \in Posted(g) : ~StartAt(g, i, r)
                         /\ \A i \in Queued(g) : ~EndAt(g, i, r)
    /\ EndTaken(g, r) => /\ \A i \in Posted(g) : ~StartAt(g, i, r)
                         /\ \A i \in Queued(g) : ~EndAt(g, i, r)
                         /\ serving[g] # r
PlaceInv == \A g \in Generations, r \in Runs : Placed(g, r)

RunInv == OwnerInv /\ SentInv /\ PlaceInv

---------------------------------------------------------------------------
(* While workers hold up, or only end when the client ends them for good.  *)

Calm == WorkersHoldUp \/ (~revived /\ "crash" \notin faults)

(* A start that was admitted stays the active run until it is sent, and a  *)
(* health check of a caller never meets one.                               *)
Reserving(c) == Dispatching(c) \/ (pc[c] = "joining" /\ job[c].kind = "start"
                                                    /\ job[c].then = "spawn")
Binding(c)   == pc[c] = "bind" \/ (pc[c] \in {"stopping", "joining"} /\ job[c].then = "bind")
PendingInv ==
    \A c \in Callers :
        /\ Reserving(c) => activeRun = job[c].run /\ pendingRun = job[c].run
        /\ Binding(c) => activeRun = NoRun
        /\ pc[c] \in {"probe", "declare", "tell"} => \A d \in Callers : ~Reserving(d)

(* A worker that holds up and is still in place ended on request.          *)
StopsAsked(g) == \E c \in Callers : pc[c] = "stopping" /\ process = g
Closed(g)     == pc[g] = "ended" \/ \E i \in Queued(g) : events[g][i] = Sentinel
HeldInv ==
    /\ \A c \in Callers : pc[c] \in {"stopping", "joining"} => acceptedGen = Retired
    /\ \A g \in Generations :
          /\ process = g /\ acceptedGen = g /\ life[g] # "alive"
               => pc[g] \notin {"probe", "declare"} /\ Closed(g)
          /\ \A i \in Posted(g) :
                commands[g][i].kind = "shutdown" /\ Alive(g) => StopsAsked(g)
          /\ \A c \in Callers : pc[c] = "joining" /\ process = g => Closed(g)

(* An alive worker has the active run to do, or it is shut down.           *)
ShutsDown == \E c \in Callers : pc[c] = "stopping" /\ job[c].then = "off"
Fitting   == {r \in Runs : r = activeRun \/ ShutsDown}
LoadAt(g) ==
    /\ \A i \in Posted(g) : commands[g][i].kind = "start" =>
          /\ commands[g][i].of \in Fitting /\ serving[g] = NoRun
          /\ \A j \in Posted(g) : commands[g][j].kind = "start" => i = j
    /\ serving[g] # NoRun => serving[g] \in Fitting
LoadInv == \A g \in Generations : Alive(g) => LoadAt(g)

---------------------------------------------------------------------------
(* While no retired generation is accepted again.                          *)

(* Only the generation the client accepts is current.                      *)
AcceptInv ==
    /\ \A g \in Generations :
          /\ acceptedGen = g => catalogGen = g
          /\ acceptedGen = g =>
                \A i \in Posted(g) : commands[g][i].kind # "shutdown"
          /\ pc[g] \in {"killing", "stop", "fail"} => acceptedGen # g
    /\ \A c \in Callers :
          /\ pc[c] \in {"stopping", "joining"} => acceptedGen = Retired
          /\ pc[c] \in {"stopping", "joining", "bind"} /\ job[c].fresh
               => acceptedGen = Retired \/ physicalGen = 0 \/ catalogGen # physicalGen

(* Without crashes, everything of an accepted worker is about the active   *)
(* run, and the last of it is the end of that run.                         *)
Idle(g)   == /\ serving[g] = NoRun
             /\ \A i \in Posted(g) : commands[g][i].kind # "start"
Silent(g, n) == \A i \in Queued(g) : i > n => events[g][i].kind \notin RunKinds
Reports(g) == pc[g] \in {"recheck", "publish", "clear"} /\ event[g].kind = "ended"
Handles(g) == /\ pc[g] \in {"record", "recheck", "abort"} /\ event[g].kind \in RunKinds
              /\ ~Reports(g)
RunsAt(g) ==
    /\ \A i \in Posted(g) : commands[g][i].kind = "start" =>
          /\ commands[g][i].of = activeRun /\ serving[g] = NoRun
          /\ \A j \in Posted(g) : commands[g][j].kind = "start" => i = j
    /\ serving[g] # NoRun => serving[g] = activeRun
    /\ \A i \in Queued(g) : events[g][i].kind \in RunKinds =>
          /\ events[g][i].of = activeRun
          /\ events[g][i].kind \in EndKinds => Idle(g) /\ Silent(g, i)
    /\ Handles(g) =>
          /\ event[g].of = activeRun
          /\ event[g].kind \in EndKinds => Idle(g) /\ Silent(g, 0)
    /\ Reports(g) => activeRun # event[g].of
Dying(g) == \/ \E i \in Queued(g) : events[g][i].kind = "fatal"
            \/ pc[g] = "abort" /\ event[g].kind = "fatal"
FlightAt(g) ==
    /\ RunsAt(g)
    /\ process = g /\ life[g] # "alive" => Dying(g)
FlightInv == \A g \in Generations : acceptedGen = g => FlightAt(g)

(* Faults that did not happen leave no event.                              *)
FaultInv ==
    \A g \in Generations :
        /\ \A i \in Queued(g) :
              /\ events[g][i].kind = "fatal" => "fatal" \in faults
              /\ events[g][i].kind = "badOffer" => "offer" \in faults
        /\ event[g].kind = "fatal" => "fatal" \in faults
        /\ event[g].kind = "badOffer" => "offer" \in faults
        /\ pc[g] \in {"abort", "stop", "fail"} => event[g].kind \in {"fatal", "badOffer"}

(* What a listener found before it went on.                                *)
ListenInv ==
    \A g \in Generations :
        /\ pc[g] = "declare" => ~Alive(g)
        /\ pc[g] = "clear" => event[g].kind = "ended"

(* Who is about to publish a verdict of r.                                 *)
Tells(t, r)     == pc[t] = "tell" /\ seen[t].mine /\ seen[t].run = r
Publishes(g, r) == /\ pc[g] = "publish" \/ (pc[g] = "recheck" /\ acceptedGen = g)
                   /\ event[g].kind = "ended" /\ event[g].of = r
Aborts(g, r)    == /\ pc[g] \in {"stop", "fail"} /\ seen[g].run # NoRun
                   /\ r = IF event[g].kind = "fatal" THEN event[g].of ELSE seen[g].run
Claims(t, r)    == Tells(t, r) \/ (t \in Generations /\ (Publishes(t, r) \/ Aborts(t, r)))
Settled(r)      == verdicts[r] > 0 \/ \E t \in Threads : Claims(t, r)

(* A run that has nothing left to tell at a worker.                        *)
DoneAt(g, r) ==
    /\ serving[g] # r
    /\ \A i \in Posted(g) : ~StartAt(g, i, r)
    /\ \A i \in Queued(g) : ~EndAt(g, i, r)
    /\ pc[g] \in {"record", "abort"} => ~EndTaken(g, r)

(* A settled run is not active, was sent, and has no end to come.          *)
VerdictAt(r) ==
    /\ verdicts[r] <= 1
    /\ \A t \in Threads : Claims(t, r) =>
          /\ verdicts[r] = 0
          /\ \A u \in Threads : Claims(u, r) => u = t
    /\ Settled(r) =>
          /\ activeRun # r /\ r \notin Waiting
          /\ \A g \in Generations : acceptedGen = g => DoneAt(g, r)
VerdictInv == \A r \in Runs : VerdictAt(r)

NoCrash  == ~revived /\ "crash" \notin faults
Counted  == ~revived /\ ("crash" \notin faults \/ {"fatal", "offer"} \cap faults = {})

IInv ==
    /\ BaseInv /\ RunInv /\ FaultInv /\ ListenInv
    /\ Calm => PendingInv
    /\ WorkersHoldUp => HeldInv /\ LoadInv
    /\ ~revived => AcceptInv
    /\ NoCrash => FlightInv
    /\ Counted => VerdictInv

---------------------------------------------------------------------------
(* Who moves, and what a step of one thread leaves to the others.          *)

Rests(t) == /\ pc'[t] = pc[t] /\ seen'[t] = seen[t]
            /\ t \in Callers => job'[t] = job[t]
            /\ t \in Generations => event'[t] = event[t]
OthersRest(t) == \A u \in Threads \ {t} : Rests(u)

(* The steps of a caller, but for the one that begins a generation.        *)
Begins(c)   == \/ \E r \in Runs, k \in Contracts : StartRun(c, r, k)
               \/ OpenViewer(c) \/ RetireWorkspace(c) \/ ReplaceRegistry(c) \/ Shutdown(c)
Finishes(c) == \/ WontDie(c) \/ JoinTimesOut(c) \/ SpawnFails(c) \/ ViewerCommand(c)
               \/ MarkDispatched(c) \/ RetireReturns(c) \/ Unpin(c) \/ ShutDown(c)
Proceeds(c) == \/ Bind(c) \/ AbandonStart(c) \/ Terminate(c) \/ WorkerGone(c) \/ Joined(c)
               \/ EnterEnsure(c) \/ ReuseProcess(c) \/ Invalidate(c) \/ Send(c)
Refuses(c)  == \E r \in Runs : RefuseStart(c, r)
Works(g)    == WorkerStep(g) \/ Escape(g) \/ Die(g)

LEMMA Steps ==
    ASSUME [Next]_vars
    PROVE  \/ \E c \in Callers : Begins(c) \/ Proceeds(c) \/ Spawn(c) \/ Finishes(c) \/ Refuses(c)
           \/ \E t \in Threads : Check(t)
           \/ \E g \in Generations : ListenerStep(g) \/ Works(g)
           \/ UNCHANGED vars
BY DEF Next, CallerStep, Call, Begins, Finishes, Proceeds, Refuses, Works

LEMMA ThreadTypes ==
    ASSUME TypeOK
    PROVE  /\ pc \in [Threads -> CallerStates \cup ListenerStates]
           /\ job \in [Callers -> Job] /\ seen \in [Threads -> Captured]
           /\ event \in [Generations -> Event]
           /\ Callers \subseteq Threads /\ Generations \subseteq Threads
           /\ Callers \cap Generations = {} /\ NoThread \notin Threads
BY ClientAssumption DEF TypeOK, Threads

(* A call in its middle moves its caller alone.                            *)
LEMMA BeginFrame ==
    ASSUME TypeOK, NEW c \in Callers, Begins(c)
    PROVE  /\ OthersRest(c) /\ pc[c] = "idle"
           /\ UNCHANGED <<catalogGen, physicalGen, process, flagVars, life, events, serving,
                          boundTo, stage, seen, event, faults, histVars>>
<1>1. /\ \E l : pc' = [pc EXCEPT ![c] = l] \/ pc' = pc
      /\ \E j : job' = [job EXCEPT ![c] = j] \/ job' = job
      /\ UNCHANGED <<seen, event>>
  BY DEF Begins, StartRun, OpenViewer, RetireWorkspace, ReplaceRegistry, Shutdown, NewJob,
         Goto
<1>2. OthersRest(c)
  BY <1>1, ThreadTypes DEF OthersRest, Rests
<1>3. pc[c] = "idle"
  BY DEF Begins, StartRun, OpenViewer, RetireWorkspace, ReplaceRegistry, Shutdown, IsCall
<1>4. UNCHANGED <<catalogGen, physicalGen, process, flagVars, life, events, serving,
                  boundTo, stage, seen, event, faults, histVars>>
  BY DEF Begins, StartRun, OpenViewer, RetireWorkspace, ReplaceRegistry, Shutdown,
         genVars, runVars, workerVars
<1> QED BY <1>2, <1>3, <1>4

LEMMA ProceedFrame ==
    ASSUME TypeOK, NEW c \in Callers, Proceeds(c)
    PROVE  /\ OthersRest(c) /\ pc[c] \notin {"idle", "await", "off", "unpin"}
           /\ UNCHANGED <<physicalGen, waiter, serving, boundTo, stage, seen, event, loadVars,
                          histVars>>
<1>1. /\ pc[c] \notin {"idle", "await", "off", "unpin"}
      /\ UNCHANGED <<physicalGen, waiter, serving, boundTo, stage, seen, event, loadVars,
                     histVars>>
  BY DEF Proceeds, Bind, AbandonStart, Terminate, WorkerGone, Joined, EnterEnsure,
         ReuseProcess, Invalidate, Send, genVars, runVars, lockVars, workerVars, threadVars
<1>2. OthersRest(c)
  <2>1. /\ \E l : pc' = [pc EXCEPT ![c] = l] \/ pc' = pc
        /\ \E j : job' = [job EXCEPT ![c] = j] \/ job' = job
    <3>1. CASE Bind(c) \/ AbandonStart(c) \/ Terminate(c) \/ WorkerGone(c) \/ Joined(c)
      BY <3>1 DEF Bind, AbandonStart, Terminate, WorkerGone, Joined, Goto, threadVars
    <3>2. CASE EnterEnsure(c) \/ ReuseProcess(c) \/ Send(c)
      BY <3>2 DEF EnterEnsure, ReuseProcess, Send, Goto, threadVars
    <3>3. CASE Invalidate(c)
      BY <3>3 DEF Invalidate, Goto
    <3> QED BY <3>1, <3>2, <3>3 DEF Proceeds
  <2> QED BY <1>1, <2>1, ThreadTypes DEF OthersRest, Rests
<1> QED BY <1>1, <1>2

LEMMA FinishFrame ==
    ASSUME TypeOK, NEW c \in Callers, Finishes(c)
    PROVE  /\ OthersRest(c) /\ pc[c] \notin {"idle", "reserved"}
           /\ pc'[c] = "idle" /\ job'[c] = NoJob /\ startLock' = NoThread
           /\ UNCHANGED <<catalogGen, physicalGen, process, runDispatched, commands, events,
                          serving, boundTo, stage, seen, event, loadVars, verdicts>>
<1>1. /\ Finish(c) /\ pc[c] \notin {"idle", "reserved"}
      /\ UNCHANGED <<catalogGen, physicalGen, process, runDispatched, commands, events,
                     serving, boundTo, stage, seen, event, loadVars, verdicts>>
  BY DEF Finishes, WontDie, JoinTimesOut, SpawnFails, ViewerCommand, MarkDispatched,
         RetireReturns, Unpin, ShutDown, genVars, runVars, flagVars, workerVars, histVars
<1> QED BY <1>1, ThreadTypes DEF Finish, Goto, Unlock, OthersRest, Rests

LEMMA CheckFrame ==
    ASSUME TypeOK, NEW t \in Threads, Check(t)
    PROVE  /\ OthersRest(t) /\ UNCHANGED <<job, event>>
           /\ t \in Callers => pc[t] \in {"ensuring", "probe", "declare", "tell"}
           /\ t \in Generations => pc[t] \in {"poll", "probe", "declare", "tell"}
           /\ UNCHANGED <<catalogGen, physicalGen, process, flagVars, startLock, workerVars,
                          loadVars, revived>>
<1>1. /\ UNCHANGED <<job, event>>
      /\ t \in Callers => pc[t] \in {"ensuring", "probe", "declare", "tell"}
      /\ t \in Generations => pc[t] \in {"poll", "probe", "declare", "tell"}
      /\ UNCHANGED <<catalogGen, physicalGen, process, flagVars, startLock, workerVars,
                     loadVars, revived>>
  BY ThreadTypes DEF Check, Capture, Probe, Declare, Tell, genVars, runVars, lockVars, histVars
<1>2. /\ \E l : pc' = [pc EXCEPT ![t] = l]
      /\ \E x : seen' = [seen EXCEPT ![t] = x] \/ seen' = seen
  <2>1. CASE Capture(t)
    BY <2>1 DEF Capture, Goto
  <2>2. CASE Probe(t)
    BY <2>2 DEF Probe, Goto
  <2>3. CASE Declare(t)
    BY <2>3 DEF Declare, Goto
  <2>4. CASE Tell(t)
    BY <2>4 DEF Tell, Goto
  <2> QED BY <2>1, <2>2, <2>3, <2>4 DEF Check
<1> QED BY <1>1, <1>2, ThreadTypes DEF OthersRest, Rests

LEMMA ListenerFrame ==
    ASSUME TypeOK, NEW g \in Generations, ListenerStep(g)
    PROVE  /\ OthersRest(g) /\ pc[g] \notin {"none", "ended"} /\ UNCHANGED job
           /\ UNCHANGED <<catalogGen, physicalGen, process, flagVars, commands, serving,
                          boundTo, stage, loadVars>>
<1>1. /\ pc[g] \notin {"none", "ended"} /\ UNCHANGED job
      /\ UNCHANGED <<catalogGen, physicalGen, process, flagVars, commands, serving, boundTo,
                     stage, loadVars>>
  BY DEF ListenerStep, Kill, Killed, KillFails, Take, Quit, Record, Recheck, Publish,
         ClearAfter, Abort, AbortStop, AbortTell, genVars, workerVars
<1>2. /\ \E l : pc' = [pc EXCEPT ![g] = l]
      /\ \E x : seen' = [seen EXCEPT ![g] = x] \/ seen' = seen
      /\ \E x : event' = [event EXCEPT ![g] = x] \/ event' = event
  <2>1. CASE Kill(g)
    BY <2>1 DEF Kill, Goto
  <2>2. CASE Killed(g) \/ KillFails(g)
    BY <2>2 DEF Killed, KillFails, Goto
  <2>3. CASE Take(g)
    BY <2>3 DEF Take, Goto
  <2>4. CASE Quit(g) \/ Record(g) \/ Recheck(g)
    BY <2>4 DEF Quit, Record, Recheck, Goto
  <2>5. CASE Publish(g) \/ ClearAfter(g)
    BY <2>5 DEF Publish, ClearAfter, Goto
  <2>6. CASE Abort(g)
    BY <2>6 DEF Abort, Goto
  <2>7. CASE AbortStop(g) \/ AbortTell(g)
    BY <2>7 DEF AbortStop, AbortTell, Goto
  <2> QED BY <2>1, <2>2, <2>3, <2>4, <2>5, <2>6, <2>7 DEF ListenerStep
<1> QED BY <1>1, <1>2, ThreadTypes DEF OthersRest, Rests

LEMMA WorkerFrame ==
    ASSUME NEW g \in Generations, Works(g)
    PROVE  /\ UNCHANGED <<pc, job, seen, event>> /\ \A t \in Threads : Rests(t)
           /\ UNCHANGED <<genVars, runVars, flagVars, lockVars, loadVars, histVars>>
<1>1. WorkerLeaves
  BY DEF Works, WorkerStep, TakeCommand, StartNode, SettleNode, EndRun, Escape, Die
<1> QED BY <1>1 DEF WorkerLeaves, threadVars, Rests

---------------------------------------------------------------------------
(* Types.                                                                  *)

ClientOK ==
    /\ catalogGen \in Nat /\ physicalGen \in 0 .. MaxGeneration
    /\ acceptedGen \in {Retired} \cup 0 .. MaxGeneration /\ process \in 0 .. MaxGeneration
    /\ activeRun \in Runs \cup {NoRun} /\ pendingRun \in Runs \cup {NoRun}
    /\ nodeRunning \in BOOLEAN /\ runDispatched \in BOOLEAN
    /\ running \in BOOLEAN /\ pinned \in Contracts \cup {NoContract}
    /\ startLock \in Threads \cup {NoThread}
    /\ todo \subseteq Runs /\ jobsLeft \in 0 .. MaxJobs
    /\ verdicts \in [Runs -> Nat]
    /\ waiter \in [Callers -> {"none", "waiting", "acked", "failed"}]
ThreadsOK ==
    /\ pc \in [Threads -> CallerStates \cup ListenerStates]
    /\ \A t \in Threads : pc[t] \in IF t \in Callers THEN CallerStates ELSE ListenerStates
    /\ job \in [Callers -> Job] /\ seen \in [Threads -> Captured]
    /\ event \in [Generations -> Event]
WorkersOK ==
    /\ life \in [Generations -> {"none", "alive", "leaving", "dying", "dead"}]
    /\ commands \in [Generations -> Seq(Command)] /\ events \in [Generations -> Seq(Event)]
    /\ serving \in [Generations -> Runs \cup {NoRun}]
    /\ boundTo \in [Generations -> Contracts \cup {NoContract}]
    /\ stage \in [Generations -> 0 .. 3]

LEMMA TypeParts == TypeOK <=> ClientOK /\ ThreadsOK /\ WorkersOK
BY DEF TypeOK, ClientOK, ThreadsOK, WorkersOK

LEMMA Token ==
    ASSUME TypeOK, NEW c \in Callers, Spawn(c)
    PROVE  NextToken \in Generations /\ pc'[NextToken] = "poll" /\ pc'[c] = "ready"
           /\ \A t \in Threads \ {c, NextToken} : pc'[t] = pc[t]
<1>1. NextToken \in Generations
  BY ClientAssumption DEF Spawn, NextToken, TypeOK, Generations
<1> QED BY <1>1, ThreadTypes DEF Spawn

LEMMA ClientTypes ==
    ASSUME TypeOK, JobInv, [Next]_vars
    PROVE  ClientOK'
<1>1. ClientOK
  BY TypeParts
<1>2. ASSUME NEW c \in Callers, Begins(c) PROVE ClientOK'
  <2>1. /\ startLock' \in {startLock, c} /\ acceptedGen' \in {acceptedGen, Retired}
        /\ UNCHANGED runVars \/ ClearRun
    BY <1>2 DEF Begins, StartRun, OpenViewer, RetireWorkspace, ReplaceRegistry,
       Shutdown, IsCall, genVars, Lock, lockVars
  <2>3. todo' \subseteq todo /\ jobsLeft' \in {jobsLeft} \cup 0 .. MaxJobs
    <3>1. jobsLeft \in 0 .. MaxJobs
      BY <1>1 DEF ClientOK
    <3>2. todo' \subseteq todo /\ (jobsLeft' = jobsLeft \/ (jobsLeft > 0 /\ jobsLeft' = jobsLeft - 1))
      BY <1>2 DEF Begins, StartRun, OpenViewer, RetireWorkspace, ReplaceRegistry, Shutdown,
         IsCall
    <3> QED BY <3>1, <3>2, ClientAssumption
  <2>2. waiter' = waiter \/ waiter' = [waiter EXCEPT ![c] = "waiting"]
    BY <1>2 DEF Begins, StartRun, OpenViewer, RetireWorkspace, ReplaceRegistry, Shutdown,
       lockVars
  <2> QED BY <1>1, <1>2, <2>1, <2>2, <2>3, BeginFrame, ThreadTypes
          DEF ClientOK, flagVars, histVars, runVars, ClearRun
<1>3. ASSUME NEW c \in Callers, Proceeds(c) PROVE ClientOK'
  <2>1. job[c].run \in Runs \cup {NoRun} /\ job[c].contract \in Contracts \cup {NoContract}
    BY ThreadTypes DEF Job
  <2>2. CASE Bind(c)
    BY <1>1, <2>1, <2>2 DEF Bind, Unlock, ClientOK, loadVars, histVars
  <2>3. CASE AbandonStart(c)
    BY <1>1, <2>3 DEF AbandonStart, ReleaseRun, ClearRun, ClientOK, genVars, runVars, flagVars,
       lockVars, loadVars, histVars
  <2>4. CASE Terminate(c) \/ Joined(c)
    BY <1>1, <2>4, ClientAssumption DEF Terminate, Joined, ClientOK, genVars, runVars,
       flagVars, lockVars, loadVars, histVars
  <2>6. CASE WorkerGone(c)
    BY <1>1, <2>6 DEF WorkerGone, ClientOK, genVars, runVars, lockVars, loadVars, histVars
  <2>5. CASE EnterEnsure(c) \/ ReuseProcess(c) \/ Invalidate(c) \/ Send(c)
    BY <1>1, <2>5, ThreadTypes DEF EnterEnsure, ReuseProcess, Invalidate, Send, Lock, ClientOK,
       genVars, runVars, flagVars, lockVars, loadVars, histVars
  <2> QED BY <1>3, <2>2, <2>3, <2>4, <2>5, <2>6 DEF Proceeds
<1>4. ASSUME NEW c \in Callers, Spawn(c) PROVE ClientOK'
  <2>1. /\ catalogGen' \in Nat /\ physicalGen' \in 0 .. MaxGeneration
        /\ acceptedGen' \in 0 .. MaxGeneration /\ process' \in 0 .. MaxGeneration
    <3>1. /\ catalogGen' = NextToken /\ physicalGen' = NextToken
          /\ acceptedGen' = NextToken /\ process' = NextToken
      BY <1>4 DEF Spawn
    <3> QED BY <1>4, <3>1, Token, ClientAssumption DEF Generations
  <2>2. UNCHANGED <<runVars, pinned, running, lockVars, loadVars, verdicts>> /\ ~runDispatched'
        /\ runDispatched' \in BOOLEAN
    BY <1>4 DEF Spawn, histVars
  <2> QED BY <1>1, <2>1, <2>2 DEF ClientOK, runVars, lockVars, loadVars
<1>5. ASSUME NEW c \in Callers, Finishes(c) PROVE ClientOK'
  <2>1. /\ acceptedGen' \in {acceptedGen, physicalGen}
        /\ UNCHANGED runVars \/ ClearRun \/ (pendingRun' \in {pendingRun, NoRun}
                                             /\ UNCHANGED <<activeRun, nodeRunning>>)
        /\ pinned' \in {pinned, NoContract} /\ running' \in {running, FALSE}
    <3>1. CASE WontDie(c)
      BY <3>1 DEF WontDie, Restore, runVars
    <3>2. CASE JoinTimesOut(c)
      BY <3>2 DEF JoinTimesOut, Restore, ReleaseRun, flagVars
    <3>3. CASE SpawnFails(c) \/ ViewerCommand(c) \/ RetireReturns(c) \/ Unpin(c) \/ ShutDown(c)
      BY <3>3 DEF SpawnFails, ViewerCommand, RetireReturns, Unpin, ShutDown, ReleaseRun,
         genVars, flagVars
    <3>4. CASE MarkDispatched(c)
      BY <3>4 DEF MarkDispatched, genVars, flagVars
    <3> QED BY <1>5, <3>1, <3>2, <3>3, <3>4 DEF Finishes
  <2>2. waiter' = waiter \/ waiter' = [waiter EXCEPT ![c] = "none"]
    BY <1>5 DEF Finishes, WontDie, JoinTimesOut, SpawnFails, ViewerCommand, MarkDispatched,
       RetireReturns, Unpin, ShutDown, lockVars
  <2> QED BY <1>1, <1>5, <2>1, <2>2, FinishFrame DEF ClientOK, runVars, ClearRun, loadVars
<1>6. ASSUME NEW c \in Callers, Refuses(c) PROVE ClientOK'
  BY <1>1, <1>6 DEF Refuses, RefuseStart, ClientOK, genVars, runVars, flagVars, lockVars,
     histVars
<1>7. ASSUME NEW t \in Threads, Check(t) PROVE ClientOK'
  <2>1. /\ acceptedGen' \in {acceptedGen, Retired}
        /\ UNCHANGED runVars \/ ClearRun
        /\ waiter' = waiter \/ FailWaits(Callers)
        /\ verdicts' = verdicts \/ \E r : CountVerdict(r)
    BY <1>7 DEF Check, Capture, Probe, Declare, Tell, genVars, lockVars, histVars
  <2>2. waiter' \in [Callers -> {"none", "waiting", "acked", "failed"}]
    BY <1>1, <2>1 DEF FailWaits, ClientOK
  <2>3. verdicts' \in [Runs -> Nat]
    BY <1>1, <2>1 DEF CountVerdict, ClientOK
  <2> QED BY <1>1, <1>7, <2>1, <2>2, <2>3, CheckFrame
          DEF ClientOK, flagVars, loadVars, runVars, ClearRun
<1>8. ASSUME NEW g \in Generations, ListenerStep(g) PROVE ClientOK'
  <2>1. /\ acceptedGen' \in {acceptedGen, physicalGen, Retired}
        /\ startLock' \in {startLock, g, NoThread}
        /\ UNCHANGED runVars \/ ClearRun
           \/ (nodeRunning' \in BOOLEAN /\ UNCHANGED <<activeRun, pendingRun>>)
    <3>1. CASE Kill(g)
      BY <3>1 DEF Kill, runVars
    <3>2. CASE Killed(g)
      BY <3>2 DEF Killed, Unlock, genVars
    <3>3. CASE KillFails(g)
      BY <3>3 DEF KillFails, Restore, Unlock
    <3>4. CASE Record(g)
      BY <3>4 DEF Record, genVars, lockVars
    <3>5. CASE Abort(g)
      BY <3>5 DEF Abort, lockVars
    <3>6. CASE ClearAfter(g)
      BY <3>6 DEF ClearAfter, genVars, lockVars
    <3>7. CASE Take(g) \/ Quit(g) \/ Recheck(g) \/ Publish(g) \/ AbortStop(g) \/ AbortTell(g)
      BY <3>7 DEF Take, Quit, Recheck, Publish, AbortStop, AbortTell, genVars, lockVars
    <3> QED BY <1>8, <3>1, <3>2, <3>3, <3>4, <3>5, <3>6, <3>7 DEF ListenerStep
  <2>2. /\ \/ waiter' = waiter \/ \E S : FailWaits(S)
           \/ \E x : waiter' = [waiter EXCEPT ![x] = "acked"]
        /\ verdicts' = verdicts \/ \E r : CountVerdict(r)
    <3>1. CASE Kill(g) \/ Killed(g) \/ KillFails(g) \/ Abort(g) \/ AbortStop(g)
      BY <3>1 DEF Kill, Killed, KillFails, Abort, AbortStop, lockVars, histVars
    <3>2. CASE Record(g) \/ ClearAfter(g) \/ Take(g) \/ Quit(g) \/ Recheck(g)
      BY <3>2 DEF Record, ClearAfter, Take, Quit, Recheck, lockVars, histVars
    <3>3. CASE Publish(g) \/ AbortTell(g)
      BY <3>3 DEF Publish, AbortTell
    <3> QED BY <1>8, <3>1, <3>2, <3>3 DEF ListenerStep
  <2>3. waiter' \in [Callers -> {"none", "waiting", "acked", "failed"}]
    BY <1>1, <2>2 DEF FailWaits, ClientOK
  <2>4. verdicts' \in [Runs -> Nat]
    BY <1>1, <2>2 DEF CountVerdict, ClientOK
  <2> QED BY <1>1, <1>8, <2>1, <2>3, <2>4, ListenerFrame, ThreadTypes
          DEF ClientOK, flagVars, loadVars, runVars, ClearRun
<1>9. ASSUME NEW g \in Generations, Works(g) PROVE ClientOK'
  BY <1>1, <1>9, WorkerFrame
     DEF ClientOK, genVars, runVars, flagVars, lockVars, loadVars, histVars
<1>10. CASE UNCHANGED vars
  BY <1>1, <1>10 DEF vars, ClientOK, genVars, runVars, flagVars, lockVars, loadVars, histVars
<1> QED BY Steps, <1>2, <1>3, <1>4, <1>5, <1>6, <1>7, <1>8, <1>9, <1>10

LEMMA BlankCapture == Nothing \in Captured
BY DEF Nothing, Captured

(* A thread that alone moves, to a state of its own.                       *)
LEMMA OneMoves ==
    ASSUME ThreadsOK, NEW t \in Threads, OthersRest(t),
           pc' \in [Threads -> CallerStates \cup ListenerStates],
           seen' \in [Threads -> Captured], job' \in [Callers -> Job],
           event' \in [Generations -> Event],
           pc'[t] \in IF t \in Callers THEN CallerStates ELSE ListenerStates
    PROVE  ThreadsOK'
BY DEF ThreadsOK, OthersRest, Rests

LEMMA ThreadTypesNext ==
    ASSUME TypeOK, JobInv, [Next]_vars
    PROVE  ThreadsOK'
<1>1. ThreadsOK
  BY TypeParts
<1>2. ASSUME NEW c \in Callers, Begins(c) PROVE ThreadsOK'
  <2>1. \/ UNCHANGED pc
        \/ \E l \in {"stopping", "bind", "ensuring", "await"} : pc' = [pc EXCEPT ![c] = l]
    BY <1>2 DEF Begins, StartRun, OpenViewer, RetireWorkspace, ReplaceRegistry, Shutdown, Goto
  <2>2. UNCHANGED job \/ \E j \in Job : job' = [job EXCEPT ![c] = j]
    <3>1. ASSUME NEW r \in Runs, NEW k \in Contracts, StartRun(c, r, k)
          PROVE  \E j \in Job : job' = [job EXCEPT ![c] = j]
      <4> DEFINE j == [kind |-> "start", run |-> r, contract |-> k,
                       fresh |-> ContractChanged(k) \/ (pinned = NoContract /\ ~ReusesUnpinned),
                       dead |-> ContractChanged(k) /\ ~GenerationIsLive, then |-> "bind"]
      <4>1. job' = [job EXCEPT ![c] = j]
        BY <3>1 DEF StartRun, NewJob
      <4>2. j \in Job
        BY DEF Job
      <4> QED BY <4>1, <4>2
    <3>2. CASE OpenViewer(c)
      BY <3>2 DEF OpenViewer, NewJob, Job
    <3>3. CASE RetireWorkspace(c)
      BY <3>3 DEF RetireWorkspace
    <3>4. CASE ReplaceRegistry(c)
      BY <3>4 DEF ReplaceRegistry, NewJob, Job
    <3>5. CASE Shutdown(c)
      BY <3>5 DEF Shutdown, NewJob, Job
    <3> QED BY <1>2, <3>1, <3>2, <3>3, <3>4, <3>5 DEF Begins
  <2>3. /\ pc' \in [Threads -> CallerStates \cup ListenerStates] /\ pc'[c] \in CallerStates
        /\ job' \in [Callers -> Job]
    BY <1>1, <2>1, <2>2, ThreadTypes DEF ThreadsOK, CallerStates
  <2> QED BY <1>1, <1>2, <2>3, BeginFrame, OneMoves, ThreadTypes
<1>3. ASSUME NEW c \in Callers, Proceeds(c) PROVE ThreadsOK'
  <2>1. \/ UNCHANGED pc
        \/ \E l \in CallerStates : pc' = [pc EXCEPT ![c] = l]
    <3>1. CASE Joined(c)
      BY <3>1, ThreadTypes DEF Joined, Goto, JobInv, JobFits, Job, CallerStates
    <3>2. CASE ~Joined(c)
      BY <1>3, <3>2 DEF Proceeds, Bind, AbandonStart, Terminate, WorkerGone, EnterEnsure,
         ReuseProcess, Invalidate, Send, Goto, CallerStates, threadVars
    <3> QED BY <3>1, <3>2
  <2>2. \/ UNCHANGED job \/ job' = [job EXCEPT ![c] = NoJob]
        \/ job' = [job EXCEPT ![c].then = "spawn"]
    BY <1>3 DEF Proceeds, Bind, AbandonStart, Terminate, WorkerGone, Joined, EnterEnsure,
       ReuseProcess, Invalidate, Send, threadVars
  <2>3. job' \in [Callers -> Job]
    <3>1. NoJob \in Job
      BY DEF NoJob, Job
    <3>2. [job[c] EXCEPT !.then = "spawn"] \in Job
      BY ThreadTypes DEF Job
    <3>3. job' \in {job, [job EXCEPT ![c] = NoJob],
                     [job EXCEPT ![c] = [job[c] EXCEPT !.then = "spawn"]]}
      BY <2>2, ThreadTypes
    <3> QED BY <3>1, <3>2, <3>3, ThreadTypes
  <2>4. /\ pc' \in [Threads -> CallerStates \cup ListenerStates] /\ pc'[c] \in CallerStates
    BY <1>1, <2>1, ThreadTypes DEF ThreadsOK, CallerStates
  <2> QED BY <1>1, <1>3, <2>3, <2>4, ProceedFrame, OneMoves, ThreadTypes
<1>4. ASSUME NEW c \in Callers, Spawn(c) PROVE ThreadsOK'
  <2>1. UNCHANGED <<job, seen, event>> /\ pc' = [pc EXCEPT ![c] = "ready", ![NextToken] = "poll"]
    BY <1>4 DEF Spawn
  <2>2. pc' \in [Threads -> CallerStates \cup ListenerStates]
    BY <2>1, ThreadTypes DEF CallerStates, ListenerStates
  <2> QED BY <1>1, <1>4, <2>1, <2>2, Token, ThreadTypes
          DEF ThreadsOK, CallerStates, ListenerStates
<1>5. ASSUME NEW c \in Callers, Finishes(c) PROVE ThreadsOK'
  <2>1. Finish(c)
    BY <1>5 DEF Finishes, WontDie, JoinTimesOut, SpawnFails, ViewerCommand, MarkDispatched,
       RetireReturns, Unpin, ShutDown
  <2>2. /\ pc' \in [Threads -> CallerStates \cup ListenerStates] /\ pc'[c] \in CallerStates
        /\ job' \in [Callers -> Job]
    BY <2>1, ThreadTypes DEF Finish, Goto, NoJob, Job, CallerStates
  <2> QED BY <1>1, <1>5, <2>2, FinishFrame, OneMoves, ThreadTypes
<1>6. ASSUME NEW c \in Callers, Refuses(c) PROVE ThreadsOK'
  BY <1>1, <1>6 DEF Refuses, RefuseStart, ThreadsOK, threadVars
<1>7. ASSUME NEW t \in Threads, Check(t) PROVE ThreadsOK'
  <2>1. \E l : /\ pc' = [pc EXCEPT ![t] = l]
               /\ \/ l \in {"probe", "declare", "tell", AfterCheck(t)}
                  \/ l = "kill" /\ t \in Generations
    BY <1>7 DEF Check, Capture, Probe, Declare, Tell, Goto
  <2>2. activeRun \in Runs \cup {NoRun} /\ nodeRunning \in BOOLEAN
    BY DEF TypeOK
  <2>3. seen' \in [Threads -> Captured]
    <3>1. CASE Capture(t)
      <4> DEFINE x == [Nothing EXCEPT !.run = activeRun, !.node = nodeRunning]
      <4>1. seen' \in {seen, [seen EXCEPT ![t] = x]}
        BY <3>1 DEF Capture
      <4>2. x \in Captured
        BY <2>2, BlankCapture DEF Captured
      <4> QED BY <4>1, <4>2, ThreadTypes
    <3>2. CASE Probe(t)
      BY <3>2, ThreadTypes DEF Probe
    <3>3. CASE Declare(t)
      <4>1. \E b \in BOOLEAN : UNCHANGED seen \/ seen' = [seen EXCEPT ![t].mine = b]
        BY <3>3 DEF Declare
      <4> QED BY <4>1, ThreadTypes DEF Captured
    <3>4. CASE Tell(t)
      BY <3>4, ThreadTypes DEF Tell, Nothing, Captured
    <3> QED BY <1>7, <3>1, <3>2, <3>3, <3>4 DEF Check
  <2>4. /\ pc' \in [Threads -> CallerStates \cup ListenerStates]
        /\ pc'[t] \in IF t \in Callers THEN CallerStates ELSE ListenerStates
    BY <2>1, ThreadTypes DEF CallerStates, ListenerStates, AfterCheck
  <2> QED BY <1>1, <1>7, <2>3, <2>4, CheckFrame, OneMoves, ThreadTypes
<1>8. ASSUME NEW g \in Generations, ListenerStep(g) PROVE ThreadsOK'
  <2>1. \E l \in ListenerStates : pc' = [pc EXCEPT ![g] = l]
    BY <1>8 DEF ListenerStep, Kill, Killed, KillFails, Take, Quit, Record, Recheck, Publish,
       ClearAfter, Abort, AbortStop, AbortTell, Goto, Report, ListenerStates
  <2>2. seen' \in [Threads -> Captured]
    <3>1. CASE Killed(g)
      <4>1. \E b \in BOOLEAN : UNCHANGED seen \/ seen' = [seen EXCEPT ![g].mine = b]
        BY <3>1 DEF Killed
      <4> QED BY <4>1, ThreadTypes DEF Captured
    <3>2. CASE Abort(g)
      <4>1. activeRun \in Runs \cup {NoRun}
        BY DEF TypeOK
      <4> DEFINE x == [Nothing EXCEPT !.run = activeRun,
                         !.waits = {c \in Callers : waiter[c] # "none"}]
      <4>2. seen' \in {seen, [seen EXCEPT ![g] = x]}
        BY <3>2 DEF Abort
      <4>3. x \in Captured
        BY <4>1, BlankCapture DEF Captured
      <4> QED BY <4>2, <4>3, ThreadTypes
    <3>3. CASE AbortTell(g)
      BY <3>3, ThreadTypes DEF AbortTell, Nothing, Captured
    <3>4. CASE ~Killed(g) /\ ~Abort(g) /\ ~AbortTell(g)
      BY <1>8, <3>4, ThreadTypes DEF ListenerStep, Kill, KillFails, Take, Quit, Record,
         Recheck, Publish, ClearAfter, AbortStop
    <3> QED BY <3>1, <3>2, <3>3, <3>4
  <2>3. event' \in [Generations -> Event]
    <3>1. CASE Take(g)
      <4>1. events[g] \in Seq(Event) /\ events[g] # <<>>
        BY <3>1 DEF Take, TypeOK
      <4>2. Head(events[g]) \in Event
        BY <4>1, HeadTailProperties
      <4> QED BY <3>1, <4>2, ThreadTypes DEF Take
    <3>2. CASE ~Take(g)
      BY <1>8, <3>2, ThreadTypes DEF ListenerStep, Kill, Killed, KillFails, Quit, Record,
         Recheck, Publish, ClearAfter, Abort, AbortStop, AbortTell
    <3> QED BY <3>1, <3>2
  <2>4. pc' \in [Threads -> CallerStates \cup ListenerStates] /\ pc'[g] \in ListenerStates
    BY <2>1, ThreadTypes
  <2> QED BY <1>1, <1>8, <2>2, <2>3, <2>4, ListenerFrame, OneMoves, ThreadTypes
<1>9. ASSUME NEW g \in Generations, Works(g) PROVE ThreadsOK'
  BY <1>1, <1>9, WorkerFrame DEF ThreadsOK
<1>10. CASE UNCHANGED vars
  BY <1>1, <1>10 DEF vars, ThreadsOK, threadVars
<1> QED BY Steps, <1>2, <1>3, <1>4, <1>5, <1>6, <1>7, <1>8, <1>9, <1>10

(* What Post and Tail make of a queue, and of its types.                   *)
LEMMA PostTyped ==
    ASSUME NEW S, NEW q \in [Generations -> Seq(S)], NEW m \in S, NEW g
    PROVE  Post(q, g, m) \in [Generations -> Seq(S)]
<1>1. CASE g \in Generations
  <2>1. Append(q[g], m) \in Seq(S)
    BY <1>1
  <2> QED BY <1>1, <2>1 DEF Post
<1>2. CASE g \notin Generations
  BY <1>2 DEF Post
<1> QED BY <1>1, <1>2

LEMMA TailTyped ==
    ASSUME NEW S, NEW q \in [Generations -> Seq(S)], NEW g \in Generations, q[g] # <<>>
    PROVE  /\ Head(q[g]) \in S
           /\ [q EXCEPT ![g] = Tail(@)] \in [Generations -> Seq(S)]
<1>1. q[g] \in Seq(S) /\ q[g] # <<>>
  OBVIOUS
<1>2. Head(q[g]) \in S /\ Tail(q[g]) \in Seq(S)
  BY <1>1, HeadTailProperties
<1> QED BY <1>2

LEMMA SpecialCommands ==
    /\ [kind |-> "shutdown", of |-> NoRun] \in Command
    /\ \A c \in Callers : [kind |-> "retire", of |-> c] \in Command
    /\ \A r \in Runs, k \in Contracts : [kind |-> "start", of |-> r, contract |-> k] \in Command
    /\ Sentinel \in Event
    /\ \A c \in Callers : [kind |-> "retired", of |-> c] \in Event
    /\ \A r \in Runs, e \in {"started", "settled", "badOffer", "ended", "fatal"} :
          [kind |-> e, of |-> r] \in Event
BY DEF Command, Event, Sentinel

LEMMA SentinelTyped ==
    ASSUME TypeOK PROVE WithSentinel \in [Generations -> Seq(Event)]
BY SpecialCommands, PostTyped DEF TypeOK, WithSentinel

LEMMA ShutdownTyped ==
    ASSUME TypeOK PROVE WithShutdown \in [Generations -> Seq(Command)]
BY SpecialCommands, PostTyped DEF TypeOK, WithShutdown

LEMMA CommandKinds ==
    ASSUME NEW m \in Command
    PROVE  /\ m.kind \in {"start", "retire", "shutdown"}
           /\ m.kind = "start" => m.of \in Runs /\ m.contract \in Contracts
           /\ m.kind = "retire" => m.of \in Callers
BY DEF Command

LEMMA TakesCommand ==
    ASSUME TypeOK, NEW g \in Generations, TakeCommand(g)
    PROVE  /\ commands[g] # <<>> /\ Head(commands[g]) \in Command
           /\ commands' = [commands EXCEPT ![g] = Tail(@)]
           /\ commands' \in [Generations -> Seq(Command)]
<1>1. commands[g] # <<>> /\ commands' = [commands EXCEPT ![g] = Tail(@)]
  BY DEF TakeCommand
<1> QED BY <1>1, TailTyped DEF TypeOK

(* What a command does at a worker, by its kind.                           *)
LEMMA CommandEffects ==
    ASSUME TypeOK, NEW g \in Generations, TakeCommand(g)
    PROVE  LET m == Head(commands[g]) IN
           \/ /\ m.kind = "start" /\ serving[g] = NoRun /\ m.of \in Runs
              /\ serving' = [serving EXCEPT ![g] = m.of] /\ stage' = [stage EXCEPT ![g] = 1]
              /\ boundTo' \in [Generations -> Contracts \cup {NoContract}]
              /\ UNCHANGED <<life, events>>
           \/ /\ m.kind = "start" /\ serving[g] # NoRun
              /\ UNCHANGED <<life, events, serving, boundTo, stage>>
           \/ /\ m.kind = "retire" /\ m.of \in Callers
              /\ events' = Post(events, g, [kind |-> "retired", of |-> m.of])
              /\ UNCHANGED <<life, serving, boundTo, stage>>
           \/ /\ m.kind = "shutdown" /\ serving[g] = NoRun
              /\ life' = [life EXCEPT ![g] = "leaving"]
              /\ UNCHANGED <<events, serving, boundTo, stage>>
           \/ /\ m.kind = "shutdown" /\ serving[g] \in Runs
              /\ events' = Post(events, g, [kind |-> "ended", of |-> serving[g]])
              /\ serving' = [serving EXCEPT ![g] = NoRun] /\ stage' = [stage EXCEPT ![g] = 0]
              /\ UNCHANGED <<life, boundTo>>
<1> DEFINE m == Head(commands[g])
<1>1. m \in Command
  BY TakesCommand
<1>2. /\ m.kind \in {"start", "retire", "shutdown"}
      /\ m.kind = "start" => m.of \in Runs /\ m.contract \in Contracts
      /\ m.kind = "retire" => m.of \in Callers
  BY <1>1, CommandKinds
<1> HIDE DEF m
<1>3. serving[g] \in Runs \cup {NoRun}
  BY DEF TypeOK
<1>4. CASE m.kind = "start" /\ serving[g] = NoRun
  <2>1. /\ serving' = [serving EXCEPT ![g] = m.of] /\ stage' = [stage EXCEPT ![g] = 1]
        /\ boundTo' = [boundTo EXCEPT ![g] = IF @ = NoContract THEN m.contract ELSE @]
        /\ UNCHANGED <<life, events>>
    BY <1>4 DEF TakeCommand, m
  <2>2. boundTo' \in [Generations -> Contracts \cup {NoContract}]
    BY <1>2, <1>4, <2>1 DEF TypeOK
  <2> QED BY <1>2, <1>4, <2>1, <2>2 DEF m
<1>5. CASE m.kind = "start" /\ serving[g] # NoRun
  BY <1>5 DEF TakeCommand, m
<1>6. CASE m.kind = "retire"
  BY <1>2, <1>6 DEF TakeCommand, Answer, Emit, m
<1>7. CASE m.kind = "shutdown" /\ serving[g] = NoRun
  BY <1>7 DEF TakeCommand, m
<1>8. CASE m.kind = "shutdown" /\ serving[g] # NoRun
  BY <1>3, <1>8 DEF TakeCommand, Emit, m
<1> QED BY <1>2, <1>4, <1>5, <1>6, <1>7, <1>8

(* What a worker does in its run.                                          *)
LEMMA RunEffects ==
    ASSUME TypeOK, StageInv, NEW g \in Generations,
           StartNode(g) \/ SettleNode(g) \/ EndRun(g) \/ Escape(g)
    PROVE  /\ serving[g] \in Runs /\ life[g] \in {"alive", "dying"}
           /\ UNCHANGED <<commands, boundTo>>
           /\ \E e \in {"started", "settled", "badOffer", "ended", "fatal"} :
                 /\ events' = Post(events, g, [kind |-> e, of |-> serving[g]])
                 /\ e = "fatal" => "fatal" \in faults /\ life' = [life EXCEPT ![g] = "leaving"]
                 /\ e # "fatal" => UNCHANGED life
                 /\ e = "badOffer" => "offer" \in faults
                 /\ IF e \in EndKinds
                    THEN serving' = [serving EXCEPT ![g] = NoRun]
                         /\ stage' = [stage EXCEPT ![g] = 0]
                    ELSE serving' = serving /\ \E n \in 1 .. 3 : stage' = [stage EXCEPT ![g] = n]
<1>1. serving[g] \in Runs /\ life[g] \in {"alive", "dying"} /\ UNCHANGED <<commands, boundTo>>
  BY DEF StartNode, SettleNode, EndRun, Escape, Serves, StageInv
<1>2. CASE StartNode(g)
  BY <1>1, <1>2 DEF StartNode, Emit, EndKinds
<1>3. CASE SettleNode(g)
  BY <1>1, <1>3 DEF SettleNode, Emit, EndKinds
<1>4. CASE EndRun(g)
  BY <1>1, <1>4 DEF EndRun, Emit, EndKinds
<1>5. CASE Escape(g)
  BY <1>1, <1>5 DEF Escape, Emit, EndKinds
<1> QED BY <1>2, <1>3, <1>4, <1>5

LEMMA WorkerTypesNext ==
    ASSUME TypeOK, JobInv, StageInv, [Next]_vars
    PROVE  WorkersOK' /\ StageInv'
<1>1. WorkersOK
  BY TypeParts
<1>2. ASSUME UNCHANGED <<serving, boundTo, stage>>,
             life' \in [Generations -> {"none", "alive", "leaving", "dying", "dead"}],
             commands' \in [Generations -> Seq(Command)], events' \in [Generations -> Seq(Event)]
      PROVE  WorkersOK' /\ StageInv'
  BY <1>1, <1>2 DEF WorkersOK, StageInv
<1>3. ASSUME NEW c \in Callers, Begins(c) PROVE WorkersOK' /\ StageInv'
  <2>1. \/ commands' \in {commands, WithShutdown}
        \/ commands' = Post(commands, process, [kind |-> "retire", of |-> c])
    BY <1>3 DEF Begins, StartRun, OpenViewer, RetireWorkspace, ReplaceRegistry, Shutdown,
       workerVars
  <2>2. commands' \in [Generations -> Seq(Command)]
    <3>1. commands \in [Generations -> Seq(Command)]
      BY <1>1 DEF WorkersOK
    <3>2. Post(commands, process, [kind |-> "retire", of |-> c]) \in [Generations -> Seq(Command)]
      BY <3>1, SpecialCommands, PostTyped
    <3> QED BY <2>1, <3>1, <3>2, ShutdownTyped
  <2> QED BY <1>1, <1>2, <1>3, <2>2, BeginFrame DEF WorkersOK
<1>4. ASSUME NEW c \in Callers, Proceeds(c) PROVE WorkersOK' /\ StageInv'
  <2>1. life' \in {life, [life EXCEPT ![process] = "dying"]} /\ events' \in {events, WithSentinel,
          [g \in Generations |-> IF g = process THEN <<>> ELSE events[g]]}
    BY <1>4 DEF Proceeds, Bind, AbandonStart, Terminate, WorkerGone, Joined, EnterEnsure,
       ReuseProcess, Invalidate, Send, workerVars
  <2>2. commands' \in [Generations -> Seq(Command)]
    <3>1. CASE Send(c)
      <4>1. job[c].run \in Runs /\ job[c].contract \in Contracts
        BY <3>1 DEF Send, JobInv, JobFits
      <4> QED BY <1>1, <3>1, <4>1, SpecialCommands, PostTyped DEF Send, WorkersOK
    <3>2. CASE Joined(c)
      BY <1>1, <3>2 DEF Joined, WorkersOK
    <3>3. CASE ~Send(c) /\ ~Joined(c)
      BY <1>1, <1>4, <3>3 DEF Proceeds, Bind, AbandonStart, Terminate, WorkerGone, EnterEnsure,
         ReuseProcess, Invalidate, workerVars, WorkersOK
    <3> QED BY <3>1, <3>2, <3>3
  <2>3. /\ life' \in [Generations -> {"none", "alive", "leaving", "dying", "dead"}]
        /\ events' \in [Generations -> Seq(Event)]
    <3>1. life' \in [Generations -> {"none", "alive", "leaving", "dying", "dead"}]
      BY <1>1, <2>1 DEF WorkersOK
    <3>2. \A g \in Generations : (IF g = process THEN <<>> ELSE events[g]) \in Seq(Event)
      BY <1>1 DEF WorkersOK
    <3>3. WithSentinel \in [Generations -> Seq(Event)]
      BY SentinelTyped
    <3> QED BY <1>1, <2>1, <3>1, <3>2, <3>3 DEF WorkersOK
  <2> QED BY <1>2, <1>4, <2>2, <2>3, ProceedFrame
<1>5. ASSUME NEW c \in Callers, Spawn(c) PROVE WorkersOK' /\ StageInv'
  <2>1. /\ life' = [life EXCEPT ![NextToken] = "alive"]
        /\ UNCHANGED <<commands, events, serving, boundTo, stage>>
    BY <1>5 DEF Spawn
  <2> QED BY <1>1, <1>2, <2>1 DEF WorkersOK
<1>6. ASSUME NEW c \in Callers, Finishes(c) PROVE WorkersOK' /\ StageInv'
  <2>1. life' \in {life, [life EXCEPT ![process] = "alive"]}
    BY <1>6 DEF Finishes, WontDie, JoinTimesOut, SpawnFails, ViewerCommand, MarkDispatched,
       RetireReturns, Unpin, ShutDown, workerVars
  <2> QED BY <1>1, <1>2, <1>6, <2>1, FinishFrame DEF WorkersOK
<1>7. ASSUME UNCHANGED workerVars PROVE WorkersOK' /\ StageInv'
  BY <1>1, <1>2, <1>7 DEF WorkersOK, workerVars
<1>8. ASSUME NEW g \in Generations, ListenerStep(g) PROVE WorkersOK' /\ StageInv'
  <2>1. life' \in {life, [life EXCEPT ![g] = "dying"], [life EXCEPT ![g] = "alive"]}
    BY <1>8 DEF ListenerStep, Kill, Killed, KillFails, Take, Quit, Record, Recheck, Publish,
       ClearAfter, Abort, AbortStop, AbortTell, workerVars
  <2>2. events' \in [Generations -> Seq(Event)]
    <3>1. CASE Take(g)
      <4>1. events[g] # <<>> /\ events' = [events EXCEPT ![g] = Tail(@)]
        BY <3>1 DEF Take
      <4> QED BY <1>1, <4>1, TailTyped DEF WorkersOK
    <3>2. CASE ~Take(g)
      BY <1>1, <1>8, <3>2 DEF ListenerStep, Kill, Killed, KillFails, Quit, Record, Recheck,
         Publish, ClearAfter, Abort, AbortStop, AbortTell, workerVars, WorkersOK
    <3> QED BY <3>1, <3>2
  <2>3. life' \in [Generations -> {"none", "alive", "leaving", "dying", "dead"}]
    BY <1>1, <2>1 DEF WorkersOK
  <2> QED BY <1>1, <1>2, <1>8, <2>2, <2>3, ListenerFrame DEF WorkersOK
<1>9. ASSUME NEW g \in Generations, TakeCommand(g) PROVE WorkersOK' /\ StageInv'
  <2> DEFINE m == Head(commands[g])
  <2>1. commands' \in [Generations -> Seq(Command)]
    BY <1>9, TakesCommand
  <2>2. CASE /\ m.kind = "start" /\ serving[g] = NoRun /\ m.of \in Runs
             /\ serving' = [serving EXCEPT ![g] = m.of] /\ stage' = [stage EXCEPT ![g] = 1]
             /\ boundTo' \in [Generations -> Contracts \cup {NoContract}]
             /\ UNCHANGED <<life, events>>
    <3> HIDE DEF m
    <3> QED BY <1>1, <2>1, <2>2 DEF WorkersOK, StageInv
  <2>3. CASE /\ m.kind = "retire" /\ m.of \in Callers
             /\ events' = Post(events, g, [kind |-> "retired", of |-> m.of])
             /\ UNCHANGED <<life, serving, boundTo, stage>>
    <3> HIDE DEF m
    <3>1. events' \in [Generations -> Seq(Event)]
      BY <1>1, <2>3, SpecialCommands, PostTyped DEF WorkersOK
    <3> QED BY <1>1, <1>2, <2>1, <2>3, <3>1 DEF WorkersOK
  <2>4. CASE /\ serving[g] \in Runs
             /\ events' = Post(events, g, [kind |-> "ended", of |-> serving[g]])
             /\ serving' = [serving EXCEPT ![g] = NoRun] /\ stage' = [stage EXCEPT ![g] = 0]
             /\ UNCHANGED <<life, boundTo>>
    <3>1. events' \in [Generations -> Seq(Event)]
      BY <1>1, <2>4, SpecialCommands, PostTyped DEF WorkersOK
    <3> QED BY <1>1, <2>1, <2>4, <3>1 DEF WorkersOK, StageInv
  <2>5. CASE UNCHANGED <<events, serving, boundTo, stage>>
             /\ life' \in {life, [life EXCEPT ![g] = "leaving"]}
    BY <1>1, <1>2, <2>1, <2>5 DEF WorkersOK
  <2> HIDE DEF m
  <2> QED BY <1>9, <2>2, <2>3, <2>4, <2>5, CommandEffects DEF m
<1>10. ASSUME NEW g \in Generations, StartNode(g) \/ SettleNode(g) \/ EndRun(g) \/ Escape(g)
       PROVE  WorkersOK' /\ StageInv'
  <2>1. PICK e \in {"started", "settled", "badOffer", "ended", "fatal"} :
           /\ events' = Post(events, g, [kind |-> e, of |-> serving[g]])
           /\ life' \in {life, [life EXCEPT ![g] = "leaving"]}
           /\ IF e \in EndKinds
              THEN serving' = [serving EXCEPT ![g] = NoRun] /\ stage' = [stage EXCEPT ![g] = 0]
              ELSE serving' = serving /\ \E n \in 1 .. 3 : stage' = [stage EXCEPT ![g] = n]
    BY <1>10, RunEffects DEF EndKinds
  <2>2. serving[g] \in Runs /\ UNCHANGED <<commands, boundTo>>
    BY <1>10, RunEffects
  <2>3. events' \in [Generations -> Seq(Event)]
    BY <1>1, <2>1, <2>2, SpecialCommands, PostTyped DEF WorkersOK
  <2>4. /\ serving' \in [Generations -> Runs \cup {NoRun}] /\ stage' \in [Generations -> 0 .. 3]
        /\ StageInv'
    <3>1. CASE e \in EndKinds
      <4>1. serving' = [serving EXCEPT ![g] = NoRun] /\ stage' = [stage EXCEPT ![g] = 0]
        BY <2>1, <3>1
      <4> QED BY <1>1, <4>1 DEF WorkersOK, StageInv
    <3>2. CASE e \notin EndKinds
      <4>1. PICK n \in 1 .. 3 : serving' = serving /\ stage' = [stage EXCEPT ![g] = n]
        BY <2>1, <3>2
      <4> QED BY <1>1, <2>2, <4>1 DEF WorkersOK, StageInv
    <3> QED BY <3>1, <3>2
  <2>5. life' \in [Generations -> {"none", "alive", "leaving", "dying", "dead"}]
    BY <1>1, <2>1 DEF WorkersOK
  <2> QED BY <1>1, <2>2, <2>3, <2>4, <2>5 DEF WorkersOK
<1>11. ASSUME NEW g \in Generations, Die(g) PROVE WorkersOK' /\ StageInv'
  BY <1>1, <1>2, <1>11 DEF Die, WorkersOK
<1>12. ASSUME NEW c \in Callers, Refuses(c) PROVE UNCHANGED workerVars
  BY <1>12 DEF Refuses, RefuseStart
<1>13. ASSUME NEW t \in Threads, Check(t) PROVE UNCHANGED workerVars
  BY <1>13, CheckFrame
<1>14. CASE UNCHANGED vars
  BY <1>7, <1>14 DEF vars
<1> QED BY Steps, <1>3, <1>4, <1>5, <1>6, <1>7, <1>8, <1>9, <1>10, <1>11, <1>12, <1>13, <1>14
        DEF Works, WorkerStep

LEMMA TypeNext ==
    ASSUME TypeOK, JobInv, StageInv, [Next]_vars
    PROVE  TypeOK' /\ StageInv'
<1>1. ClientOK' /\ ThreadsOK' /\ WorkersOK' /\ StageInv'
  BY ClientTypes, ThreadTypesNext, WorkerTypesNext
<1>2. (ClientOK /\ ThreadsOK /\ WorkersOK)' => TypeOK'
  BY DEF TypeOK, ClientOK, ThreadsOK, WorkersOK
<1> QED BY <1>1, <1>2

---------------------------------------------------------------------------
(* Calls, the lock, the one worker, and the numbers of generations.        *)

LEMMA JobNext ==
    ASSUME TypeOK, JobInv, [Next]_vars
    PROVE  JobInv'
<1>1. ASSUME NEW c \in Callers, OthersRest(c), JobFits(c)' PROVE JobInv'
  BY <1>1, ThreadTypes DEF OthersRest, Rests, JobInv, JobFits
<1>2. ASSUME NEW c \in Callers, Begins(c) PROVE JobInv'
  <2> SUFFICES JobFits(c)'
    BY <1>1, <1>2, BeginFrame
  <2>1. pc[c] = "idle" /\ job[c].kind = "none" /\ JobFits(c)
    BY <1>2, BeginFrame DEF JobInv, JobFits
  <2>2. ASSUME NEW r \in Runs, NEW k \in Contracts, StartRun(c, r, k) PROVE JobFits(c)'
    <3>1. /\ job'[c].kind = "start" /\ job'[c].run = r /\ job'[c].contract = k
          /\ job'[c].then = "bind" /\ pc'[c] \in {"stopping", "bind"}
      BY <2>2, ThreadTypes DEF StartRun, NewJob, Goto
    <3> QED BY <3>1 DEF JobFits
  <2>3. CASE OpenViewer(c)
    <3>1. /\ job'[c].kind = "ensure" /\ job'[c].run = NoRun /\ job'[c].then = "none"
          /\ pc'[c] = "ensuring"
      BY <2>3, ThreadTypes DEF OpenViewer, NewJob, Goto
    <3> QED BY <2>1, <3>1 DEF JobFits
  <2>4. CASE RetireWorkspace(c)
    <3>1. UNCHANGED job /\ pc'[c] \in {"idle", "await"}
      BY <2>1, <2>4, ThreadTypes DEF RetireWorkspace, Goto
    <3> QED BY <2>1, <3>1 DEF JobFits
  <2>5. CASE ReplaceRegistry(c)
    <3>1. /\ job'[c].kind = "replace" /\ job'[c].run = NoRun /\ job'[c].then = "unpin"
          /\ pc'[c] = "stopping"
      BY <2>5, ThreadTypes DEF ReplaceRegistry, NewJob, Goto
    <3> QED BY <2>1, <3>1 DEF JobFits
  <2>6. CASE Shutdown(c)
    <3>1. /\ job'[c].kind = "shutdown" /\ job'[c].run = NoRun /\ job'[c].then = "off"
          /\ pc'[c] = "stopping"
      BY <2>6, ThreadTypes DEF Shutdown, NewJob, Goto
    <3> QED BY <2>1, <3>1 DEF JobFits
  <2> QED BY <1>2, <2>2, <2>3, <2>4, <2>5, <2>6 DEF Begins
<1>3. ASSUME NEW c \in Callers, Proceeds(c) PROVE JobInv'
  <2> SUFFICES JobFits(c)'
    BY <1>1, <1>3, ProceedFrame
  <2>1. JobFits(c)
    BY DEF JobInv
  <2>2. CASE UNCHANGED job
    <3>1. \/ UNCHANGED pc
          \/ pc[c] = "bind" /\ pc'[c] = "reserved"
          \/ pc[c] = "stopping" /\ pc'[c] = "joining"
          \/ pc[c] = "joining" /\ pc'[c] = job[c].then
          \/ pc[c] = "reserved" /\ pc'[c] = "ensuring"
          \/ pc[c] = "ensuring" /\ pc'[c] = "ready"
          \/ pc[c] = "ready" /\ job[c].kind = "start" /\ pc'[c] = "mark"
          \/ pc'[c] = "joining" /\ job[c].then = "spawn"
          \/ pc'[c] = "idle" /\ job'[c] = NoJob
      <4>1. CASE Bind(c) \/ Terminate(c) \/ WorkerGone(c) \/ Joined(c)
        BY <4>1, ThreadTypes DEF Bind, Terminate, WorkerGone, Joined, Goto, threadVars
      <4>2. CASE EnterEnsure(c) \/ ReuseProcess(c) \/ Send(c)
        BY <4>2, ThreadTypes DEF EnterEnsure, ReuseProcess, Send, Goto
      <4>3. CASE Invalidate(c)
        BY <2>2, <4>3, ThreadTypes DEF Invalidate, Goto, Job
      <4>4. CASE AbandonStart(c)
        BY <4>4, ThreadTypes DEF AbandonStart, Goto
      <4> QED BY <1>3, <4>1, <4>2, <4>3, <4>4 DEF Proceeds
    <3>2. job[c].then \in {"none", "bind", "spawn", "unpin", "off"}
      BY ThreadTypes DEF Job
    <3> QED BY <2>1, <2>2, <3>1, <3>2 DEF JobFits, NoJob
  <2>3. CASE Invalidate(c)
    <3>1. /\ job'[c].kind = job[c].kind /\ job'[c].run = job[c].run
          /\ job'[c].contract = job[c].contract /\ job'[c].then = "spawn"
          /\ pc'[c] = "joining" /\ job[c].kind \in {"start", "ensure"}
      BY <2>1, <2>3, ThreadTypes DEF Invalidate, Goto, Job, JobFits
    <3> QED BY <2>1, <3>1 DEF JobFits
  <2>4. CASE AbandonStart(c)
    <3>1. pc'[c] = "idle" /\ job'[c] = NoJob
      BY <2>4, ThreadTypes DEF AbandonStart, Goto
    <3> QED BY <3>1 DEF JobFits, NoJob
  <2>5. UNCHANGED job \/ Invalidate(c) \/ AbandonStart(c)
    BY <1>3 DEF Proceeds, Bind, Terminate, WorkerGone, Joined, EnterEnsure, ReuseProcess, Send,
       threadVars
  <2> QED BY <2>2, <2>3, <2>4, <2>5
<1>4. ASSUME NEW c \in Callers, Spawn(c) PROVE JobInv'
  <2>1. /\ pc[c] = "spawn" /\ pc'[c] = "ready" /\ UNCHANGED job
        /\ \A d \in Callers \ {c} : pc'[d] = pc[d]
    BY <1>4, Token, ThreadTypes DEF Spawn
  <2> QED BY <2>1 DEF JobInv, JobFits
<1>5. ASSUME NEW c \in Callers, Finishes(c) PROVE JobInv'
  BY <1>1, <1>5, FinishFrame DEF JobFits, NoJob
<1>6. ASSUME NEW t \in Threads, Check(t) PROVE JobInv'
  <2>1. CASE t \in Callers
    <3>1. pc[t] \in {"ensuring", "probe", "declare", "tell"}
          /\ pc'[t] \in {"probe", "declare", "tell", "invalidate"} /\ UNCHANGED job
      BY <1>6, <2>1, CheckFrame, ThreadTypes
         DEF Check, Capture, Probe, Declare, Tell, Goto, AfterCheck
    <3> QED BY <1>1, <1>6, <2>1, <3>1, CheckFrame DEF JobFits, JobInv
  <2>2. CASE t \notin Callers
    BY <1>6, <2>2, CheckFrame, ThreadTypes DEF OthersRest, Rests, JobInv, JobFits
  <2> QED BY <2>1, <2>2
<1>7. ASSUME NEW g \in Generations, ListenerStep(g) PROVE JobInv'
  BY <1>7, ListenerFrame, ThreadTypes DEF OthersRest, Rests, JobInv, JobFits
<1>8. ASSUME UNCHANGED <<pc, job>> PROVE JobInv'
  BY <1>8 DEF JobInv, JobFits
<1>9. ASSUME NEW c \in Callers, Refuses(c) PROVE UNCHANGED <<pc, job>>
  BY <1>9 DEF Refuses, RefuseStart, threadVars
<1>10. CASE UNCHANGED vars
  BY <1>8, <1>10 DEF vars, threadVars
<1> QED BY Steps, <1>2, <1>3, <1>4, <1>5, <1>6, <1>7, <1>8, <1>9, <1>10, WorkerFrame

(* The lock passes to a thread when it is free, and only its holder lets   *)
(* it go.                                                                  *)
LEMMA LockNext ==
    ASSUME TypeOK, LockInv, [Next]_vars
    PROVE  LockInv'
<1>1. /\ Callers \subseteq Threads /\ Generations \subseteq Threads
      /\ Callers \cap Generations = {} /\ NoThread \notin Threads
  BY ThreadTypes
<1>2. ASSUME NEW t \in Threads, OthersRest(t), startLock' = startLock \/ startLock = NoThread,
             t \in Callers => pc'[t] \in {"idle", "reserved"} \/ startLock' = t,
             t \in Generations => pc'[t] # "killing" \/ startLock' = t
      PROVE  LockInv'
  BY <1>1, <1>2 DEF OthersRest, Rests, LockInv
<1>3. ASSUME NEW t \in Threads, OthersRest(t), startLock = t,
             t \in Callers => pc'[t] \in {"idle", "reserved"},
             t \in Generations => pc'[t] \in {"poll", "tell"}
      PROVE  LockInv'
  BY <1>1, <1>3 DEF OthersRest, Rests, LockInv
<1>4. ASSUME NEW c \in Callers, Begins(c) PROVE LockInv'
  <2>1. \/ startLock = NoThread /\ startLock' = c
        \/ startLock' = startLock /\ pc' = pc
    BY <1>4 DEF Begins, StartRun, OpenViewer, RetireWorkspace, ReplaceRegistry, Shutdown, Lock,
       lockVars
  <2> QED BY <1>1, <1>2, <1>4, <2>1, BeginFrame
<1>5. ASSUME NEW c \in Callers, Proceeds(c) PROVE LockInv'
  <2>1. CASE Bind(c)
    <3>1. startLock = c /\ pc'[c] = "reserved"
      BY <2>1, ThreadTypes DEF Bind, Goto, LockInv
    <3> QED BY <1>1, <1>3, <1>5, <3>1, ProceedFrame
  <2>2. CASE EnterEnsure(c)
    BY <1>1, <1>2, <1>5, <2>2, ProceedFrame DEF EnterEnsure, Lock
  <2>3. CASE AbandonStart(c)
    <3>1. startLock' = startLock /\ pc'[c] = "idle"
      BY <2>3, ThreadTypes DEF AbandonStart, Goto, lockVars
    <3> QED BY <1>1, <1>2, <1>5, <3>1, ProceedFrame
  <2>4. CASE Terminate(c) \/ WorkerGone(c) \/ Joined(c) \/ ReuseProcess(c) \/ Invalidate(c) \/ Send(c)
    <3>1. startLock' = startLock /\ pc[c] \notin {"idle", "reserved"}
      BY <2>4 DEF Terminate, WorkerGone, Joined, ReuseProcess, Invalidate, Send, lockVars
    <3> QED BY <1>1, <1>2, <1>5, <3>1, ProceedFrame DEF LockInv
  <2> QED BY <1>5, <2>1, <2>2, <2>3, <2>4 DEF Proceeds
<1>6. ASSUME NEW c \in Callers, Spawn(c) PROVE LockInv'
  <2>1. /\ pc[c] = "spawn" /\ startLock' = startLock /\ NextToken \in Generations
        /\ pc'[NextToken] = "poll" /\ \A t \in Threads \ {c, NextToken} : pc'[t] = pc[t]
    BY <1>6, Token DEF Spawn, lockVars
  <2> QED BY <1>1, <2>1 DEF LockInv
<1>7. ASSUME NEW c \in Callers, Finishes(c) PROVE LockInv'
  <2>1. startLock = c /\ pc'[c] = "idle"
    BY <1>7, FinishFrame DEF LockInv
  <2> QED BY <1>1, <1>3, <1>7, <2>1, FinishFrame
<1>8. ASSUME NEW t \in Threads, Check(t) PROVE LockInv'
  <2>1. startLock' = startLock /\ pc'[t] # "killing"
    BY <1>8, CheckFrame, ThreadTypes
       DEF Check, Capture, Probe, Declare, Tell, Goto, AfterCheck
  <2> QED BY <1>1, <1>2, <1>8, <2>1, CheckFrame DEF LockInv
<1>9. ASSUME NEW g \in Generations, ListenerStep(g) PROVE LockInv'
  <2>1. CASE Kill(g)
    <3>1. \/ startLock = NoThread /\ startLock' = g
          \/ startLock' = startLock /\ pc'[g] = "poll"
      BY <2>1, ThreadTypes DEF Kill, Goto
    <3> QED BY <1>1, <1>2, <1>9, <3>1, ListenerFrame
  <2>2. CASE Killed(g) \/ KillFails(g)
    <3>1. startLock = g /\ pc'[g] \in {"poll", "tell"}
      BY <2>2, ThreadTypes DEF Killed, KillFails, Goto, Report, LockInv
    <3> QED BY <1>1, <1>3, <1>9, <3>1, ListenerFrame
  <2>3. CASE ~Kill(g) /\ ~Killed(g) /\ ~KillFails(g)
    <3>1. startLock' = startLock
      BY <1>9, <2>3 DEF ListenerStep, Take, Quit, Record, Recheck, Publish, ClearAfter, Abort,
         AbortStop, AbortTell, lockVars
    <3>2. pc'[g] # "killing"
      BY <1>9, <2>3, ThreadTypes DEF ListenerStep, Take, Quit, Record, Recheck, Publish,
         ClearAfter, Abort, AbortStop, AbortTell, Goto
    <3> QED BY <1>1, <1>2, <1>9, <3>1, <3>2, ListenerFrame
  <2> QED BY <2>1, <2>2, <2>3
<1>10. ASSUME UNCHANGED <<pc, startLock>> PROVE LockInv'
  BY <1>10 DEF LockInv
<1>11. ASSUME NEW c \in Callers, Refuses(c) PROVE UNCHANGED <<pc, startLock>>
  BY <1>11 DEF Refuses, RefuseStart, threadVars, lockVars
<1>12. ASSUME NEW g \in Generations, Works(g) PROVE UNCHANGED <<pc, startLock>>
  BY <1>12, WorkerFrame DEF lockVars
<1>13. CASE UNCHANGED vars
  BY <1>10, <1>13 DEF vars, threadVars, lockVars
<1> QED BY Steps, <1>4, <1>5, <1>6, <1>7, <1>8, <1>9, <1>10, <1>11, <1>12, <1>13

(* Nobody wakes the dead.                                                  *)
LEMMA StaysDead ==
    ASSUME DeadInv, process' = process, \A g \in Generations : Alive(g)' => Alive(g),
           \A c \in Callers :
              /\ pc'[c] \in {"probe", "declare", "tell", "invalidate", "joining"}
                   => \/ pc[c] \in {"probe", "declare", "tell", "invalidate", "joining"}
                      \/ ~Alive(process)
              /\ pc'[c] = "spawn" => pc[c] = "spawn"
    PROVE  DeadInv'
<1>1. Alive(process)' => Alive(process)
  BY DEF Alive
<1> QED BY <1>1 DEF DeadInv, OneWorker

LEMMA OwnDeath ==
    ASSUME DeadInv, process' = process, NEW t \in Threads, OthersRest(t), TypeOK,
           \A g \in Generations : Alive(g)' => Alive(g),
           t \in Callers =>
              /\ pc'[t] \in {"probe", "declare", "tell", "invalidate", "joining"}
                   => \/ pc[t] \in {"probe", "declare", "tell", "invalidate", "joining"}
                      \/ ~Alive(process)
              /\ pc'[t] = "spawn" => pc[t] = "spawn"
    PROVE  DeadInv'
BY StaysDead, ThreadTypes DEF OthersRest, Rests

(* A process is alive since it was started.                                *)
LEMMA NoneRises ==
    ASSUME TypeOK, [Next]_vars, NEW h \in Generations, Alive(h)'
    PROVE  Alive(h) \/ \E c \in Callers : Spawn(c) /\ h = NextToken
<1>1. life \in [Generations -> {"none", "alive", "leaving", "dying", "dead"}]
  BY DEF TypeOK
<1>2. ASSUME UNCHANGED life PROVE Alive(h)
  BY <1>2 DEF Alive
<1>3. ASSUME NEW c \in Callers, Begins(c) PROVE Alive(h)
  BY <1>2, <1>3, BeginFrame
<1>4. ASSUME NEW c \in Callers, Proceeds(c) PROVE Alive(h)
  <2>1. CASE Terminate(c)
    BY <1>1, <2>1 DEF Terminate, Alive
  <2>2. CASE ~Terminate(c)
    <3>1. UNCHANGED life
      BY <1>4, <2>2 DEF Proceeds, Bind, AbandonStart, WorkerGone, Joined, EnterEnsure,
         ReuseProcess, Invalidate, Send, workerVars
    <3> QED BY <1>2, <3>1
  <2> QED BY <2>1, <2>2
<1>5. ASSUME NEW c \in Callers, Spawn(c) PROVE Alive(h) \/ h = NextToken
  BY <1>1, <1>5 DEF Spawn, Alive
<1>6. ASSUME NEW c \in Callers, Finishes(c) PROVE Alive(h)
  <2>1. UNCHANGED life \/ (life[process] = "dying" /\ life' = [life EXCEPT ![process] = "alive"])
    BY <1>6 DEF Finishes, WontDie, JoinTimesOut, SpawnFails, ViewerCommand, MarkDispatched,
       RetireReturns, Unpin, ShutDown, workerVars
  <2> QED BY <1>1, <1>2, <2>1 DEF Alive
<1>7. ASSUME NEW t \in Threads, Check(t) PROVE Alive(h)
  BY <1>2, <1>7, CheckFrame DEF workerVars
<1>8. ASSUME NEW g \in Generations, ListenerStep(g) PROVE Alive(h)
  <2>1. \/ UNCHANGED life
        \/ life' = [life EXCEPT ![g] = "alive"] /\ Alive(g)
        \/ life' = [life EXCEPT ![g] = "dying"] /\ life[g] = "alive"
    <3>1. CASE Kill(g) \/ AbortStop(g)
      BY <3>1 DEF Kill, AbortStop
    <3>2. CASE KillFails(g)
      BY <3>2 DEF KillFails
    <3>3. CASE ~Kill(g) /\ ~AbortStop(g) /\ ~KillFails(g)
      BY <1>8, <3>3 DEF ListenerStep, Killed, Take, Quit, Record, Recheck, Publish, ClearAfter,
         Abort, AbortTell, workerVars
    <3> QED BY <3>1, <3>2, <3>3
  <2> QED BY <1>1, <1>2, <2>1 DEF Alive
<1>9. ASSUME NEW g \in Generations, Works(g) PROVE Alive(h)
  <2>1. \/ UNCHANGED life
        \/ life' = [life EXCEPT ![g] = "dead"]
        \/ life' = [life EXCEPT ![g] = "leaving"] /\ Alive(g)
    <3>1. CASE TakeCommand(g)
      <4>1. life[g] \in {"alive", "dying"}
        BY <3>1 DEF TakeCommand, Serves
      <4>2. UNCHANGED life \/ life' = [life EXCEPT ![g] = "leaving"]
        BY <3>1, CommandEffects
      <4> QED BY <4>1, <4>2 DEF Alive
    <3>2. CASE StartNode(g) \/ SettleNode(g) \/ EndRun(g) \/ Escape(g) \/ Die(g)
      BY <3>2 DEF StartNode, SettleNode, EndRun, Escape, Die, Serves, Alive
    <3> QED BY <1>9, <3>1, <3>2 DEF Works, WorkerStep
  <2> QED BY <1>1, <1>2, <2>1 DEF Alive
<1>10. ASSUME NEW c \in Callers, Refuses(c) PROVE Alive(h)
  BY <1>2, <1>10 DEF Refuses, RefuseStart, workerVars
<1>11. CASE UNCHANGED vars
  BY <1>2, <1>11 DEF vars, workerVars
<1> QED BY Steps, <1>3, <1>4, <1>5, <1>6, <1>7, <1>8, <1>9, <1>10, <1>11

LEMMA DeadNext ==
    ASSUME TypeOK, JobInv, LockInv, DeadInv, [Next]_vars
    PROVE  DeadInv'
<1>1. life \in [Generations -> {"none", "alive", "leaving", "dying", "dead"}]
  BY DEF TypeOK
<1>2. \A t \in Callers \cup Generations : t \in Threads
  BY ThreadTypes
<1>3. ASSUME NEW c \in Callers, Spawn(c) PROVE DeadInv'
  <2>1. /\ pc[c] = "spawn" /\ process = 0 /\ process' = NextToken
        /\ life' = [life EXCEPT ![NextToken] = "alive"]
    BY <1>3 DEF Spawn, DeadInv
  <2>2. \A g \in Generations : ~Alive(g)
    BY <2>1 DEF DeadInv, OneWorker, Generations
  <2>3. OneWorker'
    BY <1>1, <2>1, <2>2 DEF OneWorker, Alive
  <2>4. \A d \in Callers \ {c} : pc'[d] = pc[d] /\ pc[d] \in {"idle", "reserved"}
    BY <1>3, <2>1, Token, ThreadTypes DEF LockInv
  <2> QED BY <1>3, <2>3, <2>4, Token DEF DeadInv
<1>4. ASSUME NEW c \in Callers, Joined(c) PROVE DeadInv'
  <2>1. pc[c] = "joining" /\ ~Alive(process) /\ process' = 0 /\ UNCHANGED life
    BY <1>4 DEF Joined, DeadInv
  <2>2. \A g \in Generations : ~Alive(g)
    BY <2>1 DEF DeadInv, OneWorker
  <2>3. \A g : ~Alive(g)'
    BY <2>1, <2>2 DEF Alive
  <2> QED BY <2>1, <2>3 DEF DeadInv, OneWorker
<1> SUFFICES ASSUME \A c \in Callers : ~Spawn(c) /\ ~Joined(c) PROVE DeadInv'
  BY <1>3, <1>4
<1>5. \A g \in Generations : Alive(g)' => Alive(g)
  BY NoneRises
<1>6. ASSUME NEW c \in Callers, Begins(c) PROVE DeadInv'
  <2>1. UNCHANGED pc \/ pc'[c] \in {"stopping", "bind", "ensuring", "await"}
    BY <1>6, ThreadTypes DEF Begins, StartRun, OpenViewer, RetireWorkspace, ReplaceRegistry,
       Shutdown, Goto
  <2> QED BY <1>2, <1>5, <1>6, <2>1, BeginFrame, OwnDeath
<1>7. ASSUME NEW c \in Callers, Proceeds(c) PROVE DeadInv'
  <2>1. /\ process' = process
        /\ \/ UNCHANGED pc \/ pc'[c] \in {"reserved", "idle", "ensuring", "ready", "mark"}
           \/ pc'[c] = "joining" /\ (~Alive(process) \/ pc[c] = "invalidate")
    <3>1. CASE Bind(c) \/ AbandonStart(c) \/ Terminate(c) \/ WorkerGone(c)
      BY <3>1, ThreadTypes DEF Bind, AbandonStart, Terminate, WorkerGone, Exited, Goto, genVars,
         threadVars
    <3>2. CASE EnterEnsure(c) \/ ReuseProcess(c) \/ Invalidate(c) \/ Send(c)
      BY <3>2, ThreadTypes DEF EnterEnsure, ReuseProcess, Invalidate, Send, Goto, genVars, Alive,
         Generations
    <3> QED BY <1>7, <3>1, <3>2 DEF Proceeds
  <2> QED BY <1>2, <1>5, <1>7, <2>1, ProceedFrame, OwnDeath
<1>8. ASSUME NEW c \in Callers, Finishes(c) PROVE DeadInv'
  BY <1>2, <1>5, <1>8, FinishFrame, OwnDeath
<1>9. ASSUME NEW t \in Threads, Check(t) PROVE DeadInv'
  <2>1. t \in Callers => /\ pc'[t] # "spawn"
                         /\ pc[t] \in {"probe", "declare", "tell"} \/ ~Alive(process)
    BY <1>9, ThreadTypes DEF Check, Capture, Probe, Declare, Tell, Goto, AfterCheck
  <2> QED BY <1>5, <1>9, <2>1, CheckFrame, OwnDeath
<1>10. ASSUME NEW g \in Generations, ListenerStep(g) PROVE DeadInv'
  BY <1>2, <1>5, <1>10, ListenerFrame, OwnDeath, ThreadTypes
<1>11. ASSUME UNCHANGED <<pc, process>> PROVE DeadInv'
  BY <1>5, <1>11, StaysDead
<1>12. ASSUME NEW g \in Generations, Works(g) PROVE UNCHANGED <<pc, process>>
  BY <1>12, WorkerFrame DEF genVars
<1>13. ASSUME NEW c \in Callers, Refuses(c) PROVE UNCHANGED <<pc, process>>
  BY <1>13 DEF Refuses, RefuseStart, threadVars, genVars
<1>14. ASSUME UNCHANGED vars PROVE UNCHANGED <<pc, process>>
  BY <1>14 DEF vars, threadVars, genVars
<1> QED BY Steps, <1>6, <1>7, <1>8, <1>9, <1>10, <1>11, <1>12, <1>13, <1>14

(* A step posts to no queue but those it names.                            *)
LEMMA PostElsewhere ==
    ASSUME NEW q, DOMAIN q = Generations, NEW x, NEW m, NEW g \in Generations, g # x
    PROVE  Post(q, x, m)[g] = q[g]
BY DEF Post

LEMMA TokenIsNew ==
    ASSUME TypeOK, GenInv, NEW c \in Callers, Spawn(c)
    PROVE  NextToken > physicalGen /\ NextToken \in Generations /\ catalogGen' = NextToken
           /\ physicalGen' = NextToken /\ acceptedGen' = NextToken /\ process' = NextToken
<1>1. physicalGen \in Nat /\ catalogGen \in Nat /\ physicalGen <= catalogGen
  BY ClientAssumption DEF GenInv, TypeOK
<1>2. NextToken > physicalGen
  BY <1>1 DEF NextToken
<1> QED BY <1>2, Token DEF Spawn

LEMMA StaysUnborn ==
    ASSUME GenInv, physicalGen <= catalogGen', UNCHANGED physicalGen,
           process' \in {0, process}, acceptedGen' \in {Retired, acceptedGen, physicalGen},
           \A g \in Generations : g > physicalGen /\ Unborn(g) => Unborn(g)'
    PROVE  GenInv'
BY DEF GenInv

LEMMA GenNext ==
    ASSUME TypeOK, GenInv, [Next]_vars
    PROVE  GenInv'
<1>1. /\ physicalGen <= catalogGen /\ physicalGen \in 0 .. MaxGeneration /\ catalogGen \in Nat
      /\ process \in {0, physicalGen} /\ acceptedGen \in {Retired, physicalGen}
      /\ DOMAIN commands = Generations /\ DOMAIN events = Generations
      /\ DOMAIN life = Generations /\ DOMAIN serving = Generations
      /\ \A g \in Generations : g > physicalGen => Unborn(g) /\ process # g
  <2>1. /\ physicalGen \in 0 .. MaxGeneration /\ catalogGen \in Nat
        /\ DOMAIN commands = Generations /\ DOMAIN events = Generations
        /\ DOMAIN life = Generations /\ DOMAIN serving = Generations
    BY DEF TypeOK
  <2>2. \A g \in Generations : g > physicalGen => Unborn(g)
    BY DEF GenInv
  <2>3. /\ physicalGen <= catalogGen /\ process \in {0, physicalGen}
        /\ acceptedGen \in {Retired, physicalGen}
    BY DEF GenInv
  <2>4. \A g \in Generations : g > physicalGen => process # g
    BY <2>1, <2>3, ClientAssumption DEF Generations
  <2> QED BY <2>1, <2>2, <2>3, <2>4
<1>2. /\ Callers \subseteq Threads /\ Generations \subseteq Threads /\ Callers \cap Generations = {}
  BY ThreadTypes
<1>3. \A g \in Generations : g > physicalGen =>
         WithSentinel[g] = events[g] /\ WithShutdown[g] = commands[g]
  BY <1>1, PostElsewhere DEF WithSentinel, WithShutdown
<1>4. ASSUME NEW c \in Callers, Begins(c) PROVE GenInv'
  <2>1. acceptedGen' \in {Retired, acceptedGen}
    BY <1>4 DEF Begins, StartRun, OpenViewer, RetireWorkspace, ReplaceRegistry, Shutdown, genVars
  <2>2. \/ commands' \in {commands, WithShutdown}
        \/ commands' = Post(commands, process, [kind |-> "retire", of |-> c])
    BY <1>4 DEF Begins, StartRun, OpenViewer, RetireWorkspace, ReplaceRegistry, Shutdown,
       workerVars
  <2>3. \A g \in Generations : g > physicalGen => commands'[g] = commands[g]
    BY <1>1, <1>3, <2>2, PostElsewhere
  <2>4. \A g \in Generations : g > physicalGen /\ Unborn(g) => Unborn(g)'
    BY <1>2, <1>4, <2>3, BeginFrame DEF OthersRest, Rests, Unborn
  <2> QED BY <1>1, <1>4, <2>1, <2>4, BeginFrame, StaysUnborn
<1>5. ASSUME NEW c \in Callers, Proceeds(c) PROVE GenInv'
  <2>1. /\ acceptedGen' \in {Retired, acceptedGen} /\ process' \in {0, process}
        /\ catalogGen' \in {catalogGen, catalogGen + 1}
    BY <1>5 DEF Proceeds, Bind, AbandonStart, Terminate, WorkerGone, Joined, EnterEnsure,
       ReuseProcess, Invalidate, Send, genVars
  <2>2. \A g \in Generations : g > physicalGen => commands'[g] = commands[g]
    <3>1. CASE Send(c)
      BY <1>1, <3>1, PostElsewhere DEF Send
    <3>2. CASE ~Send(c)
      BY <1>1, <1>5, <3>2 DEF Proceeds, Bind, AbandonStart, Terminate, WorkerGone, Joined,
         EnterEnsure, ReuseProcess, Invalidate, workerVars
    <3> QED BY <3>1, <3>2
  <2>3. \A g \in Generations : g > physicalGen => events'[g] = events[g] /\ life'[g] = life[g]
    <3>1. /\ life' \in {life, [life EXCEPT ![process] = "dying"]}
          /\ events' \in {events, WithSentinel,
                          [g \in Generations |-> IF g = process THEN <<>> ELSE events[g]]}
      BY <1>5 DEF Proceeds, Bind, AbandonStart, Terminate, WorkerGone, Joined, EnterEnsure,
         ReuseProcess, Invalidate, Send, workerVars
    <3> QED BY <1>1, <1>3, <3>1
  <2>4. \A g \in Generations : g > physicalGen /\ Unborn(g) => Unborn(g)'
    BY <1>2, <1>5, <2>2, <2>3, ProceedFrame DEF OthersRest, Rests, Unborn
  <2> QED BY <1>1, <1>5, <2>1, <2>4, ProceedFrame, StaysUnborn
<1>6. ASSUME NEW c \in Callers, Spawn(c) PROVE GenInv'
  <2>1. /\ NextToken > physicalGen /\ NextToken \in Generations /\ catalogGen' = NextToken
        /\ physicalGen' = NextToken /\ acceptedGen' = NextToken /\ process' = NextToken
    BY <1>6, TokenIsNew
  <2>2. ASSUME NEW g \in Generations, g > NextToken PROVE Unborn(g)'
    <3>1. g # NextToken /\ g # c /\ g > physicalGen
      BY <1>1, <1>2, <2>1, <2>2 DEF Generations
    <3>2. /\ life' = [life EXCEPT ![NextToken] = "alive"] /\ pc'[g] = pc[g]
          /\ UNCHANGED <<commands, events, serving, event>>
      BY <1>2, <1>6, <3>1, Token DEF Spawn
    <3>3. Unborn(g)
      BY <1>1, <3>1
    <3> QED BY <3>1, <3>2, <3>3 DEF Unborn, TypeOK
  <2>3. process' \in {0, physicalGen'} /\ acceptedGen' \in {Retired, physicalGen'}
    BY <2>1
  <2>4. physicalGen' <= catalogGen'
    BY <2>1, ClientAssumption DEF Generations
  <2> QED BY <2>1, <2>2, <2>3, <2>4 DEF GenInv
<1>7. ASSUME NEW c \in Callers, Finishes(c) PROVE GenInv'
  <2>1. acceptedGen' \in {acceptedGen, physicalGen}
        /\ life' \in {life, [life EXCEPT ![process] = "alive"]}
    BY <1>7 DEF Finishes, WontDie, JoinTimesOut, SpawnFails, ViewerCommand, MarkDispatched,
       RetireReturns, Unpin, ShutDown, workerVars, Restore, genVars
  <2>2. \A g \in Generations : g > physicalGen => life'[g] = life[g]
    BY <1>1, <2>1
  <2>3. \A g \in Generations : g > physicalGen /\ Unborn(g) => Unborn(g)'
    BY <1>2, <1>7, <2>2, FinishFrame DEF OthersRest, Rests, Unborn
  <2> QED BY <1>1, <1>7, <2>1, <2>3, FinishFrame, StaysUnborn
<1>8. ASSUME NEW t \in Threads, Check(t) PROVE GenInv'
  <2>1. acceptedGen' \in {acceptedGen, Retired}
    BY <1>8 DEF Check, Capture, Probe, Declare, Tell, genVars
  <2>2. \A g \in Generations : g > physicalGen /\ Unborn(g) => Unborn(g)'
    BY <1>2, <1>8, CheckFrame DEF OthersRest, Rests, Unborn, workerVars
  <2> QED BY <1>1, <1>8, <2>1, <2>2, CheckFrame, StaysUnborn
<1>9. ASSUME NEW g \in Generations, ListenerStep(g) PROVE GenInv'
  <2>1. acceptedGen' \in {acceptedGen, physicalGen, Retired}
    BY <1>9 DEF ListenerStep, Kill, Killed, KillFails, Restore, Take, Quit, Record, Recheck,
       Publish, ClearAfter, Abort, AbortStop, AbortTell, genVars
  <2>2. /\ \E x : life' = [life EXCEPT ![g] = x] \/ life' = life
        /\ \E x : events' = [events EXCEPT ![g] = x] \/ events' = events
    <3>1. CASE Kill(g) \/ Killed(g) \/ KillFails(g) \/ AbortStop(g)
      BY <3>1 DEF Kill, Killed, KillFails, AbortStop, workerVars
    <3>2. CASE Take(g)
      BY <3>2 DEF Take
    <3>3. CASE Quit(g) \/ Record(g) \/ Recheck(g) \/ Publish(g) \/ ClearAfter(g) \/ Abort(g)
               \/ AbortTell(g)
      BY <3>3 DEF Quit, Record, Recheck, Publish, ClearAfter, Abort, AbortTell, workerVars
    <3> QED BY <1>9, <3>1, <3>2, <3>3 DEF ListenerStep
  <2>3. \A h \in Generations : h > physicalGen /\ Unborn(h) => Unborn(h)'
    <3>1. \A h \in Generations \ {g} : life'[h] = life[h] /\ events'[h] = events[h]
      BY <1>1, <2>2
    <3> QED BY <1>2, <1>9, <3>1, ListenerFrame DEF OthersRest, Rests, Unborn
  <2> QED BY <1>1, <1>9, <2>1, <2>3, ListenerFrame, StaysUnborn
<1>10. ASSUME NEW g \in Generations, Works(g) PROVE GenInv'
  <2>1. life[g] # "none"
    BY <1>10 DEF Works, WorkerStep, TakeCommand, StartNode, SettleNode, EndRun, Escape, Die,
       Serves
  <2>2. \A h \in Generations \ {g} :
           /\ life'[h] = life[h] /\ serving'[h] = serving[h]
           /\ commands'[h] = commands[h] /\ events'[h] = events[h]
    <3>1. CASE TakeCommand(g)
      <4>1. commands' = [commands EXCEPT ![g] = Tail(@)]
        BY <3>1, TakesCommand
      <4>2. /\ \E x : life' = [life EXCEPT ![g] = x] \/ life' = life
            /\ \E x : serving' = [serving EXCEPT ![g] = x] \/ serving' = serving
            /\ \E x : events' = Post(events, g, x) \/ events' = events
        BY <3>1, CommandEffects
      <4>3. \A h \in Generations \ {g} : events'[h] = events[h]
        BY <1>1, <4>2, PostElsewhere
      <4> QED BY <1>1, <4>1, <4>2, <4>3
    <3>2. CASE StartNode(g) \/ SettleNode(g) \/ EndRun(g) \/ Escape(g) \/ Die(g)
      <4>1. /\ \E x : life' = [life EXCEPT ![g] = x] \/ life' = life
            /\ \E x : serving' = [serving EXCEPT ![g] = x] \/ serving' = serving
            /\ \E x : events' = Post(events, g, x) \/ events' = events
            /\ UNCHANGED commands
        BY <3>2 DEF StartNode, SettleNode, EndRun, Escape, Die, Emit
      <4> QED BY <1>1, <4>1, PostElsewhere
    <3> QED BY <1>10, <3>1, <3>2 DEF Works, WorkerStep
  <2>3. \A h \in Generations : h > physicalGen /\ Unborn(h) => Unborn(h)'
    BY <1>10, <2>1, <2>2, WorkerFrame DEF Unborn
  <2> QED BY <1>1, <1>10, <2>3, WorkerFrame, StaysUnborn DEF genVars
<1>11. ASSUME UNCHANGED <<genVars, workerVars, pc, event>> PROVE GenInv'
  BY <1>11 DEF genVars, workerVars, GenInv, Unborn
<1>12. ASSUME NEW c \in Callers, Refuses(c) PROVE UNCHANGED <<genVars, workerVars, pc, event>>
  BY <1>12 DEF Refuses, RefuseStart, threadVars
<1>13. CASE UNCHANGED vars
  BY <1>11, <1>13 DEF vars, threadVars
<1> QED BY Steps, <1>4, <1>5, <1>6, <1>7, <1>8, <1>9, <1>10, <1>11, <1>12, <1>13

LEMMA BaseNext ==
    ASSUME BaseInv, [Next]_vars
    PROVE  BaseInv'
BY TypeNext, JobNext, LockNext, DeadNext, GenNext DEF BaseInv

---------------------------------------------------------------------------
(* How the queues of a worker change.                                      *)

LEMMA PostElements ==
    ASSUME NEW S, NEW q \in [Generations -> Seq(S)], NEW m \in S, NEW x, NEW g \in Generations
    PROVE  /\ Len(q[g]) \in Nat
           /\ Len(Post(q, x, m)[g]) = IF g = x THEN Len(q[g]) + 1 ELSE Len(q[g])
           /\ \A i \in 1 .. Len(q[g]) : Post(q, x, m)[g][i] = q[g][i]
           /\ g = x => Post(q, x, m)[g][Len(q[g]) + 1] = m
<1>1. q[g] \in Seq(S)
  OBVIOUS
<1>2. CASE g = x
  BY <1>1, <1>2 DEF Post
<1>3. CASE g # x
  BY <1>1, <1>3 DEF Post
<1> QED BY <1>2, <1>3

LEMMA PostMember ==
    ASSUME NEW S, NEW q \in [Generations -> Seq(S)], NEW m \in S, NEW g \in Generations,
           NEW p, p = Post(q, g, m), NEW i \in 1 .. Len(p[g])
    PROVE  \/ i = Len(q[g]) + 1 /\ p[g][i] = m
           \/ i \in 1 .. Len(q[g]) /\ p[g][i] = q[g][i]
<1>1. /\ Len(q[g]) \in Nat /\ Len(p[g]) = Len(q[g]) + 1
      /\ \A j \in 1 .. Len(q[g]) : p[g][j] = q[g][j]
      /\ p[g][Len(q[g]) + 1] = m
  BY PostElements
<1> QED BY <1>1

LEMMA PostedMember ==
    ASSUME TypeOK, NEW g \in Generations, NEW m \in Command, commands' = Post(commands, g, m),
           NEW i \in Posted(g)'
    PROVE  \/ i = Len(commands[g]) + 1 /\ commands'[g][i] = m
           \/ i \in Posted(g) /\ commands'[g][i] = commands[g][i]
<1> DEFINE p == Post(commands, g, m)
<1>1. commands \in [Generations -> Seq(Command)] /\ i \in 1 .. Len(p[g])
  BY DEF TypeOK, Posted
<1> HIDE DEF p
<1>2. \/ i = Len(commands[g]) + 1 /\ p[g][i] = m
      \/ i \in 1 .. Len(commands[g]) /\ p[g][i] = commands[g][i]
  BY <1>1, PostMember DEF p
<1> QED BY <1>2 DEF p, Posted

LEMMA QueuedMember ==
    ASSUME TypeOK, NEW g \in Generations, NEW m \in Event, events' = Post(events, g, m),
           NEW i \in Queued(g)'
    PROVE  \/ i = Len(events[g]) + 1 /\ events'[g][i] = m
           \/ i \in Queued(g) /\ events'[g][i] = events[g][i]
<1> DEFINE p == Post(events, g, m)
<1>1. events \in [Generations -> Seq(Event)] /\ i \in 1 .. Len(p[g])
  BY DEF TypeOK, Queued
<1> HIDE DEF p
<1>2. \/ i = Len(events[g]) + 1 /\ p[g][i] = m
      \/ i \in 1 .. Len(events[g]) /\ p[g][i] = events[g][i]
  BY <1>1, PostMember DEF p
<1> QED BY <1>2 DEF p, Queued

LEMMA TailElements ==
    ASSUME NEW S, NEW q \in [Generations -> Seq(S)], NEW g \in Generations, q[g] # <<>>
    PROVE  LET t == [q EXCEPT ![g] = Tail(@)] IN
           /\ Len(q[g]) \in Nat /\ Len(q[g]) >= 1 /\ Head(q[g]) = q[g][1]
           /\ Len(t[g]) = Len(q[g]) - 1
           /\ \A i \in 1 .. Len(t[g]) : t[g][i] = q[g][i + 1]
           /\ \A h \in Generations \ {g} : t[h] = q[h]
<1>1. q[g] \in Seq(S) /\ q[g] # <<>>
  OBVIOUS
<1> QED BY <1>1

(* The elements of these kinds were there before, k places further on.     *)
Kept(k, old, new, kinds) ==
    \A i \in 1 .. Len(new) : new[i].kind \in kinds =>
        i + k \in 1 .. Len(old) /\ new[i] = old[i + k]
OldOf(old, new, kinds) == \E k \in {0, 1} : Kept(k, old, new, kinds)
OldStarts(g) == OldOf(commands[g], commands'[g], {"start"})
OldEvents(g) == OldOf(events[g], events'[g], RunKinds)

(* Nothing new of a run.                                                   *)
Quiet(g) == /\ OldStarts(g) /\ OldEvents(g)
            /\ serving'[g] = serving[g] /\ event'[g] = event[g]
(* A caller sends the start of its run.                                    *)
Sends(c, g) ==
    /\ Send(c) /\ process = g
    /\ commands' = Post(commands, g, [kind |-> "start", of |-> job[c].run,
                                      contract |-> job[c].contract])
    /\ job[c].run \in Runs
    /\ events'[g] = events[g] /\ serving'[g] = serving[g] /\ event'[g] = event[g]
(* The worker begins the run at the head of its queue.                     *)
Serving(g) ==
    LET m == Head(commands[g]) IN
    /\ TakeCommand(g) /\ m.kind = "start" /\ m.of \in Runs /\ serving[g] = NoRun
    /\ commands' = [commands EXCEPT ![g] = Tail(@)] /\ commands[g] # <<>>
    /\ serving'[g] = m.of /\ events'[g] = events[g] /\ event'[g] = event[g]
(* The worker tells of its run; it is out of it after its end.             *)
Telling(g, e) ==
    /\ Works(g) /\ serving[g] \in Runs /\ OldStarts(g)
    /\ events' = Post(events, g, [kind |-> e, of |-> serving[g]])
    /\ serving'[g] = IF e \in EndKinds THEN NoRun ELSE serving[g]
    /\ event'[g] = event[g]
    /\ e = "fatal" => "fatal" \in faults
    /\ e = "badOffer" => "offer" \in faults
(* The listener takes an event.                                            *)
Taking(g) ==
    /\ Take(g) /\ events[g] # <<>> /\ event'[g] = Head(events[g])
    /\ events' = [events EXCEPT ![g] = Tail(@)]
    /\ commands'[g] = commands[g] /\ serving'[g] = serving[g]

LEMMA KeptSame ==
    ASSUME NEW S, NEW q \in [Generations -> Seq(S)], NEW g \in Generations, NEW p, NEW kinds,
           p = q[g] \/ p = <<>>
    PROVE  OldOf(q[g], p, kinds)
<1>1. q[g] \in Seq(S) /\ Len(<<>>) = 0
  OBVIOUS
<1>2. Kept(0, q[g], p, kinds)
  BY <1>1 DEF Kept
<1> QED BY <1>2 DEF OldOf

LEMMA KeptPost ==
    ASSUME NEW S, NEW q \in [Generations -> Seq(S)], NEW g \in Generations, NEW x, NEW m \in S,
           NEW kinds, m.kind \notin kinds
    PROVE  OldOf(q[g], Post(q, x, m)[g], kinds)
<1>1. Kept(0, q[g], Post(q, x, m)[g], kinds)
  BY PostElements DEF Kept
<1> QED BY <1>1 DEF OldOf

LEMMA KeptTail ==
    ASSUME NEW S, NEW q \in [Generations -> Seq(S)], NEW g \in Generations, q[g] # <<>>,
           NEW h \in Generations, NEW kinds
    PROVE  OldOf(q[h], [q EXCEPT ![g] = Tail(@)][h], kinds)
<1> DEFINE t == [q EXCEPT ![g] = Tail(@)]
<1>1. /\ Len(q[g]) \in Nat /\ Len(q[g]) >= 1 /\ Len(t[g]) = Len(q[g]) - 1
      /\ \A i \in 1 .. Len(t[g]) : t[g][i] = q[g][i + 1]
      /\ \A f \in Generations \ {g} : t[f] = q[f]
  BY TailElements
<1> HIDE DEF t
<1>2. CASE h = g
  <2>1. Kept(1, q[g], t[g], kinds)
    BY <1>1 DEF Kept
  <2> QED BY <1>2, <2>1 DEF t, OldOf
<1>3. CASE h # g
  <2>1. t[h] = q[h] \/ t[h] = <<>>
    BY <1>1, <1>3
  <2>2. OldOf(q[h], t[h], kinds)
    BY <2>1, KeptSame
  <2> QED BY <2>2 DEF t
<1> QED BY <1>2, <1>3

LEMMA OtherKinds ==
    /\ Sentinel \in Event /\ Sentinel.kind \notin RunKinds
    /\ \A c \in Callers : /\ [kind |-> "retired", of |-> c] \in Event
                          /\ [kind |-> "retired", of |-> c].kind \notin RunKinds
                          /\ [kind |-> "retire", of |-> c] \in Command
                          /\ [kind |-> "retire", of |-> c].kind \notin {"start"}
    /\ [kind |-> "shutdown", of |-> NoRun] \in Command
    /\ [kind |-> "shutdown", of |-> NoRun].kind \notin {"start"}
BY SpecialCommands DEF Sentinel, RunKinds, EndKinds

LEMMA QuietCommands ==
    ASSUME TypeOK, NEW g \in Generations,
           \/ commands'[g] = commands[g] \/ commands'[g] = <<>>
           \/ \E x : \E m \in Command : m.kind # "start" /\ commands' = Post(commands, x, m)
           \/ \E h \in Generations : /\ commands[h] # <<>>
                                     /\ commands' = [commands EXCEPT ![h] = Tail(@)]
    PROVE  OldStarts(g)
<1>1. commands \in [Generations -> Seq(Command)]
  BY DEF TypeOK
<1>2. CASE commands'[g] = commands[g] \/ commands'[g] = <<>>
  <2> DEFINE p == commands'[g]
  <2>1. p = commands[g] \/ p = <<>>
    BY <1>2
  <2> HIDE DEF p
  <2>2. OldOf(commands[g], p, {"start"})
    BY <1>1, <2>1, KeptSame
  <2> QED BY <2>2 DEF OldStarts, p
<1>3. ASSUME NEW x, NEW m \in Command, m.kind # "start", commands' = Post(commands, x, m)
      PROVE  OldStarts(g)
  <2>1. OldOf(commands[g], Post(commands, x, m)[g], {"start"})
    <3>1. m.kind \notin {"start"}
      BY <1>3
    <3> QED BY <1>1, <1>3, <3>1, KeptPost
  <2> QED BY <1>3, <2>1 DEF OldStarts
<1>4. ASSUME NEW h \in Generations, commands[h] # <<>>,
             commands' = [commands EXCEPT ![h] = Tail(@)]
      PROVE  OldStarts(g)
  <2>1. OldOf(commands[g], [commands EXCEPT ![h] = Tail(@)][g], {"start"})
    BY <1>1, <1>4, KeptTail
  <2> QED BY <1>4, <2>1 DEF OldStarts
<1> QED BY <1>2, <1>3, <1>4

LEMMA QuietEvents ==
    ASSUME TypeOK, NEW g \in Generations,
           \/ events'[g] = events[g] \/ events'[g] = <<>>
           \/ \E x : \E m \in Event : m.kind \notin RunKinds /\ events' = Post(events, x, m)
    PROVE  OldEvents(g)
<1>1. events \in [Generations -> Seq(Event)]
  BY DEF TypeOK
<1>2. CASE events'[g] = events[g] \/ events'[g] = <<>>
  <2> DEFINE p == events'[g]
  <2>1. p = events[g] \/ p = <<>>
    BY <1>2
  <2> HIDE DEF p
  <2>2. OldOf(events[g], p, RunKinds)
    BY <1>1, <2>1, KeptSame
  <2> QED BY <2>2 DEF OldEvents, p
<1>3. ASSUME NEW x, NEW m \in Event, m.kind \notin RunKinds, events' = Post(events, x, m)
      PROVE  OldEvents(g)
  <2>1. OldOf(events[g], Post(events, x, m)[g], RunKinds)
    BY <1>1, <1>3, KeptPost
  <2> QED BY <1>3, <2>1 DEF OldEvents
<1> QED BY <1>2, <1>3

LEMMA ShutdownPosts ==
    WithShutdown = commands
    \/ \E x : \E m \in Command : m.kind # "start" /\ WithShutdown = Post(commands, x, m)
BY OtherKinds DEF WithShutdown

LEMMA SentinelPosts ==
    WithSentinel = events
    \/ \E x : \E m \in Event : m.kind \notin RunKinds /\ WithSentinel = Post(events, x, m)
BY OtherKinds DEF WithSentinel

LEMMA QuietSame ==
    ASSUME TypeOK, NEW g \in Generations, commands'[g] = commands[g], events'[g] = events[g],
           serving'[g] = serving[g], event'[g] = event[g]
    PROVE  Quiet(g)
<1>1. commands \in [Generations -> Seq(Command)] /\ events \in [Generations -> Seq(Event)]
  BY DEF TypeOK
<1> QED BY <1>1, KeptSame DEF Quiet, OldStarts, OldEvents

LEMMA Changes ==
    ASSUME TypeOK, JobInv, StageInv, [Next]_vars, NEW g \in Generations
    PROVE  \/ Quiet(g) \/ Serving(g) \/ Taking(g)
           \/ \E c \in Callers : Sends(c, g)
           \/ \E e \in RunKinds : Telling(g, e)
<1>1. commands \in [Generations -> Seq(Command)] /\ events \in [Generations -> Seq(Event)]
  BY DEF TypeOK
<1>2. ASSUME NEW c \in Callers, Begins(c) PROVE Quiet(g)
  <2>1. \/ commands' \in {commands, WithShutdown}
        \/ commands' = Post(commands, process, [kind |-> "retire", of |-> c])
    BY <1>2 DEF Begins, StartRun, OpenViewer, RetireWorkspace, ReplaceRegistry, Shutdown,
       workerVars
  <2>2. OldStarts(g)
    <3>1. CASE commands' \in {commands, WithShutdown}
      BY <3>1, ShutdownPosts, QuietCommands
    <3>2. CASE commands' = Post(commands, process, [kind |-> "retire", of |-> c])
      BY <3>2, OtherKinds, QuietCommands
    <3> QED BY <2>1, <3>1, <3>2
  <2>3. OldEvents(g)
    BY <1>2, BeginFrame, QuietEvents
  <2> QED BY <1>2, <2>2, <2>3, BeginFrame DEF Quiet
<1>3. ASSUME NEW c \in Callers, Proceeds(c) PROVE Quiet(g) \/ Sends(c, g)
  <2>1. CASE Send(c)
    <3>1. /\ commands' = Post(commands, process, [kind |-> "start", of |-> job[c].run,
                                                  contract |-> job[c].contract])
          /\ UNCHANGED <<events, serving, event>> /\ job[c].kind = "start"
      BY <2>1 DEF Send
    <3>2. job[c].run \in Runs
      BY <3>1 DEF JobInv, JobFits
    <3>3. CASE process = g
      BY <2>1, <3>1, <3>2, <3>3 DEF Sends
    <3>4. CASE process # g
      BY <1>1, <3>1, <3>4, PostElsewhere, QuietSame
    <3> QED BY <3>3, <3>4
  <2>2. CASE ~Send(c)
    <3>1. /\ \/ UNCHANGED commands
             \/ commands' = [h \in Generations |-> IF h = process THEN <<>> ELSE commands[h]]
          /\ \/ events' \in {events, WithSentinel}
             \/ events' = [h \in Generations |-> IF h = process THEN <<>> ELSE events[h]]
          /\ UNCHANGED <<serving, event>>
      BY <1>3, <2>2 DEF Proceeds, Bind, AbandonStart, Terminate, WorkerGone, Joined, EnterEnsure,
         ReuseProcess, Invalidate, workerVars, threadVars
    <3>2. OldStarts(g)
      BY <3>1, QuietCommands
    <3>3. OldEvents(g)
      BY <3>1, SentinelPosts, QuietEvents
    <3> QED BY <3>1, <3>2, <3>3 DEF Quiet
  <2> QED BY <2>1, <2>2
<1>4. ASSUME NEW c \in Callers, Spawn(c) PROVE Quiet(g)
  BY <1>4, QuietSame DEF Spawn
<1>5. ASSUME NEW c \in Callers, Finishes(c) PROVE Quiet(g)
  BY <1>5, FinishFrame, QuietSame
<1>6. ASSUME NEW h \in Generations, ListenerStep(h) PROVE Quiet(g) \/ Taking(g)
  <2>1. UNCHANGED <<commands, serving>>
    BY <1>6, ListenerFrame
  <2>2. CASE Take(h)
    <3>1. /\ events[h] # <<>> /\ events' = [events EXCEPT ![h] = Tail(@)]
          /\ event' = [event EXCEPT ![h] = Head(events[h])]
      BY <2>2 DEF Take
    <3>2. CASE h = g
      BY <2>1, <2>2, <3>1, <3>2 DEF Taking, TypeOK
    <3>3. CASE h # g
      BY <1>1, <2>1, <3>1, <3>3, QuietSame
    <3> QED BY <3>2, <3>3
  <2>3. CASE ~Take(h)
    <3>1. UNCHANGED <<events, event>>
      BY <1>6, <2>3 DEF ListenerStep, Kill, Killed, KillFails, Quit, Record, Recheck, Publish,
         ClearAfter, Abort, AbortStop, AbortTell, workerVars
    <3> QED BY <2>1, <3>1, QuietSame
  <2> QED BY <2>2, <2>3
<1>7. ASSUME NEW h \in Generations, TakeCommand(h)
      PROVE  Quiet(g) \/ Serving(g) \/ \E e \in RunKinds : Telling(g, e)
  <2> DEFINE m == Head(commands[h])
  <2>1. commands[h] # <<>> /\ commands' = [commands EXCEPT ![h] = Tail(@)] /\ UNCHANGED event
    BY <1>7, TakesCommand, WorkerFrame DEF Works, WorkerStep
  <2>2. OldStarts(g)
    BY <2>1, QuietCommands
  <2>3. CASE UNCHANGED <<events, serving>>
    <3>1. OldEvents(g)
      BY <2>3, QuietEvents
    <3> QED BY <2>1, <2>2, <2>3, <3>1 DEF Quiet
  <2>4. CASE /\ m.kind = "start" /\ serving[h] = NoRun /\ m.of \in Runs
             /\ serving' = [serving EXCEPT ![h] = m.of] /\ UNCHANGED events
    <3>1. CASE h = g
      BY <1>7, <2>1, <2>4, <3>1 DEF Serving, TypeOK
    <3>2. CASE h # g
      BY <1>1, <2>1, <2>4, <3>2, QuietSame
    <3> QED BY <3>1, <3>2
  <2>5. CASE /\ m.of \in Callers /\ UNCHANGED serving
             /\ events' = Post(events, h, [kind |-> "retired", of |-> m.of])
    <3>1. OldEvents(g)
      BY <2>5, OtherKinds, QuietEvents
    <3> QED BY <2>1, <2>2, <2>5, <3>1 DEF Quiet
  <2>6. CASE /\ serving[h] \in Runs
             /\ events' = Post(events, h, [kind |-> "ended", of |-> serving[h]])
             /\ serving' = [serving EXCEPT ![h] = NoRun]
    <3>1. CASE h = g
      <4>1. Telling(g, "ended")
        BY <1>7, <2>1, <2>2, <2>6, <3>1 DEF Telling, Works, WorkerStep, EndKinds, TypeOK
      <4> QED BY <4>1 DEF RunKinds, EndKinds
    <3>2. CASE h # g
      <4>1. events'[g] = events[g]
        BY <1>1, <2>6, <3>2, PostElsewhere
      <4>2. commands'[g] = commands[g] /\ serving'[g] = serving[g] /\ event'[g] = event[g]
        BY <1>1, <2>1, <2>6, <3>2 DEF TypeOK
      <4> QED BY <4>1, <4>2, QuietSame
    <3> QED BY <3>1, <3>2
  <2> HIDE DEF m
  <2> QED BY <1>7, <2>3, <2>4, <2>5, <2>6, CommandEffects DEF m
<1>8. ASSUME NEW h \in Generations, StartNode(h) \/ SettleNode(h) \/ EndRun(h) \/ Escape(h)
      PROVE  Quiet(g) \/ \E e \in RunKinds : Telling(g, e)
  <2>1. PICK e \in {"started", "settled", "badOffer", "ended", "fatal"} :
           /\ events' = Post(events, h, [kind |-> e, of |-> serving[h]])
           /\ e = "fatal" => "fatal" \in faults
           /\ e = "badOffer" => "offer" \in faults
           /\ e \in EndKinds => serving' = [serving EXCEPT ![h] = NoRun]
           /\ e \notin EndKinds => serving' = serving
    BY <1>8, RunEffects
  <2>2. serving[h] \in Runs /\ UNCHANGED commands
    BY <1>8, RunEffects
  <2>3. Works(h) /\ UNCHANGED event
    BY <1>8, WorkerFrame DEF Works, WorkerStep
  <2>4. CASE h = g
    <3>1. serving'[g] = IF e \in EndKinds THEN NoRun ELSE serving[g]
      BY <2>1, <2>4 DEF TypeOK
    <3>2. OldStarts(g)
      BY <2>2, QuietCommands
    <3>3. Telling(g, e)
      BY <2>1, <2>2, <2>3, <2>4, <3>1, <3>2 DEF Telling
    <3> QED BY <3>3 DEF RunKinds, EndKinds
  <2>5. CASE h # g
    <3>1. serving'[g] = serving[g]
      BY <2>1, <2>5 DEF TypeOK
    <3>2. events'[g] = events[g]
      BY <1>1, <2>1, <2>5, PostElsewhere
    <3> QED BY <2>2, <2>3, <3>1, <3>2, QuietSame
  <2> QED BY <2>4, <2>5
<1>9. ASSUME UNCHANGED <<commands, events, serving, event>> PROVE Quiet(g)
  BY <1>9, QuietSame
<1>10. ASSUME NEW h \in Generations, Die(h) PROVE UNCHANGED <<commands, events, serving, event>>
  BY <1>10 DEF Die, WorkerLeaves, threadVars
<1>11. ASSUME NEW c \in Callers, Refuses(c) PROVE UNCHANGED <<commands, events, serving, event>>
  BY <1>11 DEF Refuses, RefuseStart, threadVars, workerVars
<1>12. ASSUME NEW t \in Threads, Check(t) PROVE UNCHANGED <<commands, events, serving, event>>
  BY <1>12, CheckFrame DEF workerVars
<1>13. CASE UNCHANGED vars
  BY <1>9, <1>13 DEF vars, workerVars, threadVars
<1> QED BY Steps, <1>2, <1>3, <1>4, <1>5, <1>6, <1>7, <1>8, <1>9, <1>10, <1>11, <1>12, <1>13
        DEF Works, WorkerStep

---------------------------------------------------------------------------
(* A run is sent once.                                                     *)

(* Only a caller that takes a run off the list begins a start.             *)
StartsOnly(b) ==
    \A c \in Callers : job'[c].kind = "start" =>
        \/ /\ job[c].kind = "start" /\ job'[c].run = job[c].run
           /\ pc[c] = "mark" => pc'[c] = "mark"
        \/ c = b /\ job'[c].run \in todo /\ job'[c].run \notin todo'

LEMMA StartedBy ==
    ASSUME TypeOK, JobInv, [Next]_vars
    PROVE  todo' \subseteq todo /\ \E b : StartsOnly(b)
<1>1. ASSUME NEW t \in Threads, OthersRest(t), todo' \subseteq todo,
             t \in Callers /\ job'[t].kind = "start" =>
                \/ /\ job[t].kind = "start" /\ job'[t].run = job[t].run
                   /\ pc[t] = "mark" => pc'[t] = "mark"
                \/ job'[t].run \in todo /\ job'[t].run \notin todo'
      PROVE  todo' \subseteq todo /\ \E b : StartsOnly(b)
  <2>1. StartsOnly(t)
    BY <1>1, ThreadTypes DEF OthersRest, Rests, StartsOnly
  <2> QED BY <1>1, <2>1
<1>2. ASSUME UNCHANGED <<pc, job>>, todo' \subseteq todo
      PROVE  todo' \subseteq todo /\ \E b : StartsOnly(b)
  BY <1>2 DEF StartsOnly
<1>3. \A t \in Callers \cup Generations : t \in Threads
  BY ThreadTypes
<1>4. ASSUME NEW c \in Callers, Begins(c) PROVE todo' \subseteq todo /\ \E b : StartsOnly(b)
  <2>1. job[c].kind = "none"
    BY <1>4, BeginFrame DEF JobInv, JobFits
  <2>2. ASSUME NEW r \in Runs, NEW k \in Contracts, StartRun(c, r, k)
        PROVE  /\ todo' \subseteq todo
               /\ job'[c].run \in todo /\ job'[c].run \notin todo'
    BY <2>2, ThreadTypes DEF StartRun, NewJob
  <2>3. CASE OpenViewer(c) \/ RetireWorkspace(c) \/ ReplaceRegistry(c) \/ Shutdown(c)
    <3>1. todo' \subseteq todo /\ job'[c].kind # "start"
      BY <2>1, <2>3, ThreadTypes
         DEF OpenViewer, RetireWorkspace, ReplaceRegistry, Shutdown, NewJob
    <3> QED BY <1>1, <1>3, <1>4, <3>1, BeginFrame
  <2> QED BY <1>1, <1>3, <1>4, <2>2, <2>3, BeginFrame DEF Begins
<1>5. ASSUME NEW c \in Callers, Proceeds(c) PROVE todo' \subseteq todo /\ \E b : StartsOnly(b)
  <2>1. \/ UNCHANGED job \/ job' = [job EXCEPT ![c] = NoJob]
        \/ job' = [job EXCEPT ![c].then = "spawn"]
    BY <1>5 DEF Proceeds, Bind, AbandonStart, Terminate, WorkerGone, Joined, EnterEnsure,
       ReuseProcess, Invalidate, Send, threadVars
  <2>2. pc[c] # "mark"
    BY <1>5 DEF Proceeds, Bind, AbandonStart, Terminate, WorkerGone, Joined, EnterEnsure,
       ReuseProcess, Invalidate, Send
  <2>3. job'[c].kind = "start" => job[c].kind = "start" /\ job'[c].run = job[c].run
    BY <2>1, ThreadTypes DEF NoJob, Job
  <2> QED BY <1>1, <1>3, <1>5, <2>2, <2>3, ProceedFrame DEF loadVars
<1>6. ASSUME NEW c \in Callers, Spawn(c) PROVE todo' \subseteq todo /\ \E b : StartsOnly(b)
  <2>1. /\ pc[c] = "spawn" /\ UNCHANGED <<job, todo>>
        /\ \A d \in Callers \ {c} : pc'[d] = pc[d]
    BY <1>6, Token, ThreadTypes DEF Spawn, loadVars
  <2> QED BY <2>1 DEF StartsOnly
<1>7. ASSUME NEW c \in Callers, Finishes(c) PROVE todo' \subseteq todo /\ \E b : StartsOnly(b)
  BY <1>1, <1>3, <1>7, FinishFrame DEF loadVars, NoJob
<1>8. ASSUME NEW c \in Callers, Refuses(c) PROVE UNCHANGED <<pc, job>> /\ todo' \subseteq todo
  BY <1>8 DEF Refuses, RefuseStart, threadVars
<1>9. ASSUME NEW t \in Threads, Check(t) PROVE todo' \subseteq todo /\ \E b : StartsOnly(b)
  BY <1>1, <1>9, CheckFrame DEF loadVars
<1>10. ASSUME NEW g \in Generations, ListenerStep(g)
       PROVE  todo' \subseteq todo /\ \E b : StartsOnly(b)
  BY <1>1, <1>3, <1>10, ListenerFrame, ThreadTypes DEF loadVars
<1>11. ASSUME NEW g \in Generations, Works(g) PROVE UNCHANGED <<pc, job>> /\ todo' \subseteq todo
  BY <1>11, WorkerFrame DEF loadVars
<1>12. CASE UNCHANGED vars
  BY <1>2, <1>12 DEF vars, threadVars, loadVars
<1> QED BY Steps, <1>2, <1>4, <1>5, <1>6, <1>7, <1>8, <1>9, <1>10, <1>11, <1>12

LEMMA WaitingNext ==
    ASSUME TypeOK, JobInv, [Next]_vars
    PROVE  Waiting' \subseteq Waiting
BY StartedBy DEF StartsOnly, Waiting, Unsent

LEMMA OwnerNext ==
    ASSUME TypeOK, JobInv, OwnerInv, [Next]_vars
    PROVE  OwnerInv'
<1>1. todo' \subseteq todo /\ \E b : StartsOnly(b)
  BY StartedBy
<1>2. PICK b : StartsOnly(b)
  BY <1>1
<1> SUFFICES ASSUME NEW c \in Callers, job'[c].kind = "start"
             PROVE  /\ job'[c].run \notin todo'
                    /\ \A d \in Callers : job'[d].kind = "start" /\ job'[d].run = job'[c].run
                                            => d = c
  BY DEF OwnerInv
<1>3. job'[c].run \notin todo'
  BY <1>1, <1>2 DEF StartsOnly, OwnerInv
<1>4. ASSUME NEW d \in Callers, job'[d].kind = "start", job'[d].run = job'[c].run PROVE d = c
  BY <1>2, <1>4 DEF StartsOnly, OwnerInv
<1> QED BY <1>3, <1>4

(* The run a caller has just sent waits no more.                           *)
LEMMA SentNoMore ==
    ASSUME TypeOK, OwnerInv, NEW c \in Callers, job[c].kind = "start", todo' \subseteq todo,
           \A d \in Callers \ {c} : job'[d] = job[d],
           job'[c].kind # "start" \/ pc'[c] = "mark"
    PROVE  job[c].run \notin Waiting'
BY DEF OwnerInv, Waiting, Unsent

LEMMA SentAtNext ==
    ASSUME BaseInv, OwnerInv, SentInv, [Next]_vars, NEW g \in Generations
    PROVE  SentAt(g)'
<1> USE DEF BaseInv
<1>1. SentAt(g) /\ Waiting' \subseteq Waiting
  BY WaitingNext DEF SentInv
<1>2. commands \in [Generations -> Seq(Command)] /\ events \in [Generations -> Seq(Event)]
  BY DEF TypeOK
<1>3. ASSUME OldStarts(g)
      PROVE  \A i \in Posted(g)' : commands'[g][i].kind = "start" => commands'[g][i].of \notin Waiting'
  BY <1>1, <1>3 DEF OldStarts, OldOf, Kept, Posted, SentAt
<1>4. ASSUME OldEvents(g)
      PROVE  \A i \in Queued(g)' : events'[g][i].kind \in RunKinds => events'[g][i].of \notin Waiting'
  BY <1>1, <1>4 DEF OldEvents, OldOf, Kept, Queued, SentAt
<1>5. CASE Quiet(g)
  BY <1>1, <1>3, <1>4, <1>5 DEF Quiet, SentAt
<1>6. ASSUME NEW c \in Callers, Sends(c, g) PROVE SentAt(g)'
  <2> DEFINE m == [kind |-> "start", of |-> job[c].run, contract |-> job[c].contract]
  <2>1. /\ commands' = Post(commands, g, m) /\ events'[g] = events[g]
        /\ serving'[g] = serving[g] /\ event'[g] = event[g]
    BY <1>6 DEF Sends
  <2>2. job[c].run \notin Waiting'
    <3>1. job[c].kind = "start" /\ UNCHANGED <<job, todo>> /\ pc'[c] = "mark"
      BY <1>6, ThreadTypes DEF Sends, Send, Goto, loadVars
    <3> QED BY <3>1, SentNoMore
  <2>3. m \in Command /\ m.of = job[c].run
    BY <1>6 DEF Sends, Send, Command, JobInv, JobFits
  <2>4. ASSUME NEW i \in Posted(g)'
       PROVE  commands'[g][i] = m \/ (i \in Posted(g) /\ commands'[g][i] = commands[g][i])
    <3>1. commands' = Post(commands, g, m)
      BY <2>1
    <3> HIDE DEF m
    <3> QED BY <2>3, <2>4, <3>1, PostedMember DEF BaseInv
  <2>5. \A i \in Posted(g)' : commands'[g][i].kind = "start" => commands'[g][i].of \notin Waiting'
    <3> HIDE DEF m
    <3> QED BY <1>1, <2>2, <2>3, <2>4 DEF SentAt
  <2>6. \A i \in Queued(g)' : events'[g][i].kind \in RunKinds => events'[g][i].of \notin Waiting'
    BY <1>1, <2>1 DEF SentAt, Queued
  <2> QED BY <1>1, <2>1, <2>5, <2>6 DEF SentAt
<1>7. CASE Serving(g)
  <2>1. /\ commands' = [commands EXCEPT ![g] = Tail(@)] /\ commands[g] # <<>>
        /\ Head(commands[g]).kind = "start" /\ serving'[g] = Head(commands[g]).of
        /\ events'[g] = events[g] /\ event'[g] = event[g]
    BY <1>7 DEF Serving
  <2>2. OldStarts(g)
    BY <2>1, QuietCommands
  <2>3. serving'[g] \notin Waiting'
    <3>1. 1 \in Posted(g) /\ Head(commands[g]) = commands[g][1]
      BY <1>2, <2>1, TailElements DEF Posted
    <3> QED BY <1>1, <2>1, <3>1 DEF SentAt
  <2>4. \A i \in Queued(g)' : events'[g][i].kind \in RunKinds => events'[g][i].of \notin Waiting'
    BY <1>1, <2>1 DEF SentAt, Queued
  <2> QED BY <1>1, <1>3, <2>1, <2>2, <2>3, <2>4 DEF SentAt
<1>8. ASSUME NEW e \in RunKinds, Telling(g, e) PROVE SentAt(g)'
  <2> DEFINE m == [kind |-> e, of |-> serving[g]]
  <2>1. /\ OldStarts(g) /\ events' = Post(events, g, m) /\ event'[g] = event[g]
        /\ serving'[g] \in {NoRun, serving[g]} /\ serving[g] \in Runs
    BY <1>8 DEF Telling
  <2>2. m \in Event /\ m.of = serving[g] /\ serving[g] # NoRun
    BY <2>1, ClientAssumption DEF Event, RunKinds, EndKinds
  <2>3. ASSUME NEW i \in Queued(g)'
       PROVE  events'[g][i] = m \/ (i \in Queued(g) /\ events'[g][i] = events[g][i])
    <3>1. events' = Post(events, g, m)
      BY <2>1
    <3> HIDE DEF m
    <3> QED BY <2>2, <2>3, <3>1, QueuedMember DEF BaseInv
  <2>4. \A i \in Queued(g)' : events'[g][i].kind \in RunKinds => events'[g][i].of \notin Waiting'
    <3> HIDE DEF m
    <3> QED BY <1>1, <2>2, <2>3 DEF SentAt
  <2> QED BY <1>1, <1>3, <2>1, <2>2, <2>4 DEF SentAt
<1>9. CASE Taking(g)
  <2>1. /\ events' = [events EXCEPT ![g] = Tail(@)] /\ events[g] # <<>>
        /\ event'[g] = Head(events[g]) /\ commands'[g] = commands[g] /\ serving'[g] = serving[g]
    BY <1>9 DEF Taking
  <2>2. OldStarts(g)
    BY <2>1, QuietCommands
  <2>3. /\ 1 \in Queued(g) /\ event'[g] = events[g][1]
        /\ \A i \in Queued(g)' : i + 1 \in Queued(g) /\ events'[g][i] = events[g][i + 1]
    BY <1>2, <2>1, TailElements DEF Queued
  <2> QED BY <1>1, <1>3, <2>1, <2>2, <2>3 DEF SentAt
<1> QED BY <1>5, <1>6, <1>7, <1>8, <1>9, Changes

LEMMA OldStartAt ==
    ASSUME NEW g \in Generations, NEW r, OldStarts(g)
    PROVE  \E k \in {0, 1} : \A i \in Posted(g)' :
              commands'[g][i].kind = "start" /\ commands'[g][i].of = r
                => i + k \in Posted(g) /\ StartAt(g, i + k, r)
BY DEF OldStarts, OldOf, Kept, Posted, StartAt

LEMMA OldEndAt ==
    ASSUME NEW g \in Generations, NEW r, OldEvents(g)
    PROVE  \E k \in {0, 1} : \A i \in Queued(g)' :
              events'[g][i].kind \in EndKinds /\ events'[g][i].of = r
                => i + k \in Queued(g) /\ EndAt(g, i + k, r)
<1>1. \A e \in EndKinds : e \in RunKinds
  BY DEF RunKinds
<1> QED BY <1>1 DEF OldEvents, OldOf, Kept, Queued, EndAt

LEMMA PlacedNext ==
    ASSUME BaseInv, OwnerInv, SentInv, PlaceInv, [Next]_vars, NEW g \in Generations, NEW r \in Runs
    PROVE  Placed(g, r)'
<1>1. SentAt(g) /\ Placed(g, r)
  BY DEF SentInv, PlaceInv
<1>2. commands \in [Generations -> Seq(Command)] /\ events \in [Generations -> Seq(Event)]
  BY DEF BaseInv, TypeOK
<1>3. /\ \A i \in Posted(g) : i \in Int
      /\ \A i \in Queued(g) : i \in Int
      /\ \A i \in Posted(g)' : i \in Int
      /\ \A i \in Queued(g)' : i \in Int
  BY DEF Posted, Queued
<1>4. CASE Quiet(g)
  <2>1. OldStarts(g) /\ OldEvents(g) /\ serving'[g] = serving[g] /\ event'[g] = event[g]
    BY <1>4 DEF Quiet
  <2> QED BY <1>1, <1>3, <2>1, OldStartAt, OldEndAt DEF Placed, StartAt, EndAt, EndTaken
<1>5. ASSUME NEW c \in Callers, Sends(c, g) PROVE Placed(g, r)'
  <2> DEFINE m == [kind |-> "start", of |-> job[c].run, contract |-> job[c].contract]
  <2>1. /\ commands' = Post(commands, g, m) /\ events'[g] = events[g]
        /\ serving'[g] = serving[g] /\ event'[g] = event[g]
        /\ job[c].run \in Runs
    BY <1>5 DEF Sends
  <2>2. m \in Command /\ m.of = job[c].run /\ m.kind = "start"
    BY <1>5 DEF Sends, Send, Command, BaseInv, JobInv, JobFits
  <2>3. job[c].run \in Waiting
    BY <1>5 DEF Sends, Send, Waiting, Unsent
  <2>4. ASSUME NEW i \in Posted(g)'
        PROVE  \/ i = Len(commands[g]) + 1 /\ commands'[g][i] = m
               \/ i \in Posted(g) /\ commands'[g][i] = commands[g][i]
    <3>1. commands' = Post(commands, g, m)
      BY <2>1
    <3> HIDE DEF m
    <3> QED BY <2>2, <2>4, <3>1, PostedMember DEF BaseInv
  <2>5. Queued(g)' = Queued(g)
    BY <2>1 DEF Queued
  <2>6. CASE r = job[c].run
    <3>1. /\ \A i \in Posted(g) : ~StartAt(g, i, r)
          /\ \A i \in Queued(g) : ~EndAt(g, i, r)
          /\ serving[g] # r /\ ~EndTaken(g, r)
      BY <1>1, <2>1, <2>3, <2>6, ClientAssumption
         DEF SentAt, StartAt, EndAt, EndTaken, RunKinds
    <3> HIDE DEF m
    <3> QED BY <1>1, <2>1, <2>4, <2>5, <3>1 DEF Placed, StartAt, EndAt, EndTaken
  <2>7. CASE r # job[c].run
    <3> HIDE DEF m
    <3>1. \A i \in Posted(g)' : StartAt(g, i, r)' => i \in Posted(g) /\ StartAt(g, i, r)
      BY <2>2, <2>4, <2>7 DEF StartAt
    <3> QED BY <1>1, <2>1, <2>5, <3>1 DEF Placed, StartAt, EndAt, EndTaken
  <2> QED BY <2>6, <2>7
<1>6. CASE Serving(g)
  <2>1. /\ commands' = [commands EXCEPT ![g] = Tail(@)] /\ commands[g] # <<>>
        /\ Head(commands[g]).kind = "start" /\ serving'[g] = Head(commands[g]).of
        /\ events'[g] = events[g] /\ event'[g] = event[g] /\ serving[g] = NoRun
    BY <1>6 DEF Serving
  <2>2. /\ 1 \in Posted(g) /\ Head(commands[g]) = commands[g][1]
        /\ \A i \in Posted(g)' : i + 1 \in Posted(g) /\ commands'[g][i] = commands[g][i + 1] /\ i + 1 # 1
    BY <1>2, <2>1, TailElements DEF Posted
  <2>3. Queued(g)' = Queued(g)
    BY <2>1 DEF Queued
  <2>4. serving'[g] = r => StartAt(g, 1, r)
    BY <2>1, <2>2 DEF StartAt
  <2>5. \A i \in Posted(g)' : StartAt(g, i, r)' => i + 1 \in Posted(g) /\ StartAt(g, i + 1, r)
    BY <2>2 DEF StartAt
  <2>6. \A i \in Queued(g)' : EndAt(g, i, r)' => i \in Queued(g) /\ EndAt(g, i, r)
    BY <2>1, <2>3 DEF EndAt
  <2>7. EndTaken(g, r)' => EndTaken(g, r)
    BY <2>1 DEF EndTaken
  <2>8. CASE serving'[g] = r
    <3>1. /\ \A i \in Posted(g)' : ~StartAt(g, i, r)'
          /\ \A i \in Queued(g) : ~EndAt(g, i, r)
          /\ ~EndTaken(g, r)
      BY <1>1, <2>2, <2>4, <2>5, <2>8 DEF Placed
    <3> QED BY <2>6, <2>7, <3>1 DEF Placed, StartAt, EndAt, EndTaken
  <2>9. CASE serving'[g] # r
    BY <1>1, <1>3, <2>5, <2>6, <2>7, <2>9 DEF Placed, StartAt, EndAt, EndTaken
  <2> QED BY <2>8, <2>9
<1>7. ASSUME NEW e \in RunKinds, Telling(g, e) PROVE Placed(g, r)'
  <2> DEFINE m == [kind |-> e, of |-> serving[g]]
  <2>1. /\ OldStarts(g) /\ events' = Post(events, g, m) /\ event'[g] = event[g]
        /\ serving'[g] = IF e \in EndKinds THEN NoRun ELSE serving[g]
        /\ serving[g] \in Runs
    BY <1>7 DEF Telling
  <2>2. m \in Event /\ m.of = serving[g] /\ m.kind = e /\ r # NoRun
    BY <2>1, ClientAssumption DEF Event, RunKinds, EndKinds
  <2>3. ASSUME NEW i \in Queued(g)'
        PROVE  \/ i = Len(events[g]) + 1 /\ events'[g][i] = m
               \/ i \in Queued(g) /\ events'[g][i] = events[g][i]
    <3>1. events' = Post(events, g, m)
      BY <2>1
    <3> HIDE DEF m
    <3> QED BY <2>2, <2>3, <3>1, QueuedMember DEF BaseInv
  <2> HIDE DEF m
  <2>4. CASE r = serving[g] /\ e \in EndKinds
    <3>1. /\ \A i \in Posted(g) : ~StartAt(g, i, r)
          /\ \A i \in Queued(g) : ~EndAt(g, i, r)
          /\ ~EndTaken(g, r)
      BY <1>1, <2>4 DEF Placed
    <3>2. \A i \in Posted(g)' : ~StartAt(g, i, r)'
      BY <2>1, <3>1, OldStartAt DEF StartAt
    <3>3. \A i \in Queued(g)' : EndAt(g, i, r)' => i = Len(events[g]) + 1
      BY <2>3, <3>1 DEF EndAt
    <3> QED BY <2>1, <2>2, <2>4, <3>1, <3>2, <3>3 DEF Placed, EndTaken, StartAt, EndAt
  <2>5. CASE r # serving[g] \/ e \notin EndKinds
    <3>1. \A i \in Queued(g)' : EndAt(g, i, r)' => i \in Queued(g) /\ EndAt(g, i, r)
      BY <2>2, <2>3, <2>5 DEF EndAt
    <3>2. serving'[g] = r => serving[g] = r
      BY <2>1, <2>2
    <3> QED BY <1>1, <1>3, <2>1, <3>1, <3>2, OldStartAt DEF Placed, StartAt, EndAt, EndTaken
  <2> QED BY <2>4, <2>5
<1>8. CASE Taking(g)
  <2>1. /\ events' = [events EXCEPT ![g] = Tail(@)] /\ events[g] # <<>>
        /\ event'[g] = Head(events[g]) /\ commands'[g] = commands[g] /\ serving'[g] = serving[g]
    BY <1>8 DEF Taking
  <2>2. /\ 1 \in Queued(g) /\ event'[g] = events[g][1]
        /\ \A i \in Queued(g)' : i + 1 \in Queued(g) /\ events'[g][i] = events[g][i + 1] /\ i + 1 # 1
    BY <1>2, <2>1, TailElements DEF Queued
  <2>3. Posted(g)' = Posted(g)
    BY <2>1 DEF Posted
  <2>4. \A i \in Queued(g)' : EndAt(g, i, r)' => i + 1 \in Queued(g) /\ EndAt(g, i + 1, r)
    BY <2>2 DEF EndAt
  <2>5. \A i \in Posted(g)' : StartAt(g, i, r)' => i \in Posted(g) /\ StartAt(g, i, r)
    BY <2>1, <2>3 DEF StartAt
  <2>6. EndTaken(g, r)' => EndAt(g, 1, r)
    BY <2>2 DEF EndTaken, EndAt
  <2>7. CASE EndTaken(g, r)'
    <3>1. /\ EndAt(g, 1, r) /\ serving[g] # r
          /\ \A i \in Posted(g) : ~StartAt(g, i, r)
      BY <1>1, <2>2, <2>6, <2>7 DEF Placed
    <3>2. \A i \in Queued(g)' : ~EndAt(g, i, r)'
      BY <1>1, <2>2, <2>4, <3>1 DEF Placed
    <3>3. \A i \in Posted(g)' : ~StartAt(g, i, r)'
      BY <2>5, <3>1
    <3> QED BY <2>1, <3>1, <3>2, <3>3 DEF Placed, StartAt, EndAt, EndTaken
  <2>8. CASE ~EndTaken(g, r)'
    <3>1. \A i, j \in Queued(g)' : EndAt(g, i, r)' /\ EndAt(g, j, r)' => i = j
      BY <1>1, <1>3, <2>4 DEF Placed
    <3>2. \A i \in Queued(g)', j \in Posted(g)' : ~(StartAt(g, j, r)' /\ EndAt(g, i, r)')
      BY <1>1, <2>4, <2>5 DEF Placed
    <3>3. \A i, j \in Posted(g)' : StartAt(g, i, r)' /\ StartAt(g, j, r)' => i = j
      BY <1>1, <2>5 DEF Placed
    <3>4. serving'[g] = r => /\ \A i \in Posted(g)' : ~StartAt(g, i, r)'
                             /\ \A i \in Queued(g)' : ~EndAt(g, i, r)'
      BY <1>1, <2>1, <2>4, <2>5 DEF Placed
    <3> QED BY <2>8, <3>1, <3>2, <3>3, <3>4 DEF Placed, StartAt, EndAt
  <2> QED BY <2>7, <2>8
<1> QED BY <1>4, <1>5, <1>6, <1>7, <1>8, Changes DEF BaseInv

(* What a health check captured, and the active run, were sent.            *)
LEMMA SentNext ==
    ASSUME BaseInv, OwnerInv, SentInv, [Next]_vars
    PROVE  SentInv'
<1>1. TypeOK /\ JobInv /\ Waiting' \subseteq Waiting
  BY WaitingNext DEF BaseInv
<1>2. \A g \in Generations : SentAt(g)'
  BY SentAtNext
<1>3. \A t \in Callers \cup Generations : t \in Threads
  BY <1>1, ThreadTypes
<1> DEFINE ActiveSent == activeRun # NoRun /\ pendingRun # activeRun => activeRun \notin Waiting
           SeenSent   == \A t \in Threads : Checks(t) => seen[t].run \notin Waiting
<1>4. ActiveSent /\ SeenSent
  BY DEF SentInv
<1>5. ASSUME NEW t \in Threads, OthersRest(t), Checks(t)' => seen'[t].run \notin Waiting
      PROVE  SeenSent'
  BY <1>1, <1>4, <1>5 DEF OthersRest, Rests, Checks
<1>6. ASSUME NEW t \in Threads, OthersRest(t), UNCHANGED seen,
             pc'[t] = pc[t] \/ pc'[t] \notin {"probe", "declare", "tell", "kill", "killing"}
      PROVE  SeenSent'
  BY <1>4, <1>5, <1>6 DEF Checks
<1>7. ASSUME UNCHANGED runVars \/ ClearRun PROVE ActiveSent'
  BY <1>1, <1>4, <1>7 DEF runVars, ClearRun
<1>8. ASSUME NEW c \in Callers, Begins(c) PROVE ActiveSent' /\ SeenSent'
  <2>1. UNCHANGED runVars \/ ClearRun
    BY <1>8 DEF Begins, StartRun, OpenViewer, RetireWorkspace, ReplaceRegistry, Shutdown
  <2>2. UNCHANGED pc \/ pc'[c] \in {"stopping", "bind", "ensuring", "await"}
    BY <1>1, <1>8, ThreadTypes DEF Begins, StartRun, OpenViewer, RetireWorkspace,
       ReplaceRegistry, Shutdown, Goto
  <2> HIDE DEF ActiveSent, SeenSent
  <2> QED BY <1>1, <1>3, <1>6, <1>7, <1>8, <2>1, <2>2, BeginFrame
<1>9. ASSUME NEW c \in Callers, Proceeds(c) PROVE ActiveSent' /\ SeenSent'
  <2>1. \/ UNCHANGED runVars \/ ClearRun
        \/ activeRun' = pendingRun'
        \/ UNCHANGED <<activeRun, pendingRun>>
    BY <1>9 DEF Proceeds, Bind, AbandonStart, ReleaseRun, Terminate, WorkerGone, Joined,
       EnterEnsure, ReuseProcess, Invalidate, Send, runVars
  <2>2. UNCHANGED pc \/ pc'[c] \in {"reserved", "idle", "joining", "bind", "spawn", "unpin", "off",
                                    "none", "ensuring", "ready", "mark"}
    <3>1. CASE Joined(c)
      BY <1>1, <3>1, ThreadTypes DEF Joined, Goto, Job
    <3>2. CASE ~Joined(c)
      BY <1>1, <1>9, <3>2, ThreadTypes DEF Proceeds, Bind, AbandonStart, Terminate, WorkerGone,
         EnterEnsure, ReuseProcess, Invalidate, Send, Goto, threadVars
    <3> QED BY <3>1, <3>2
  <2>3. ActiveSent'
    BY <1>1, <1>4, <2>1 DEF runVars, ClearRun
  <2> HIDE DEF ActiveSent, SeenSent
  <2> QED BY <1>1, <1>3, <1>6, <1>9, <2>2, <2>3, ProceedFrame
<1>10. ASSUME NEW c \in Callers, Spawn(c) PROVE ActiveSent' /\ SeenSent'
  <2>1. /\ UNCHANGED runVars /\ UNCHANGED seen
        /\ pc'[NextToken] = "poll" /\ pc'[c] = "ready"
        /\ \A t \in Threads \ {c, NextToken} : pc'[t] = pc[t]
    BY <1>1, <1>10, Token DEF Spawn
  <2>2. SeenSent'
    BY <1>1, <1>4, <2>1 DEF Checks
  <2> HIDE DEF ActiveSent, SeenSent
  <2> QED BY <1>7, <2>1, <2>2
<1>11. ASSUME NEW c \in Callers, Finishes(c) PROVE ActiveSent' /\ SeenSent'
  <2>1. SeenSent'
    BY <1>1, <1>3, <1>6, <1>11, FinishFrame
  <2>2. CASE MarkDispatched(c)
    <3>1. /\ pendingRun' = IF pendingRun = job[c].run THEN NoRun ELSE pendingRun
          /\ UNCHANGED activeRun /\ job[c].kind = "start"
      BY <1>1, <2>2 DEF MarkDispatched, JobInv, JobFits
    <3>2. /\ todo' \subseteq todo /\ job'[c].kind # "start"
          /\ \A d \in Callers \ {c} : job'[d] = job[d]
      BY <1>1, <1>11, FinishFrame, ThreadTypes DEF OthersRest, Rests, NoJob, loadVars
    <3>3. job[c].run \notin Waiting'
      BY <1>1, <3>1, <3>2, SentNoMore
    <3> QED BY <1>1, <1>4, <2>1, <3>1, <3>3
  <2>3. CASE ~MarkDispatched(c)
    <3>1. UNCHANGED runVars \/ ClearRun
      BY <1>11, <2>3 DEF Finishes, WontDie, JoinTimesOut, SpawnFails, ViewerCommand,
         RetireReturns, Unpin, ShutDown, ReleaseRun
    <3> HIDE DEF ActiveSent, SeenSent
    <3> QED BY <1>7, <2>1, <3>1
  <2> QED BY <2>2, <2>3
<1>12. ASSUME NEW t \in Threads, Check(t) PROVE ActiveSent' /\ SeenSent'
  <2>1. UNCHANGED runVars \/ ClearRun
    BY <1>12 DEF Check, Capture, Probe, Declare, Tell
  <2>2. Checks(t)' => seen'[t].run \notin Waiting
    <3>1. CASE Capture(t)
      <4>1. \/ pc'[t] \in {"invalidate", "poll"}
            \/ /\ pc'[t] = "probe" /\ seen'[t].run = activeRun
               /\ ~(activeRun # NoRun /\ pendingRun = activeRun)
        <5> DEFINE x == [Nothing EXCEPT !.run = activeRun, !.node = nodeRunning]
        <5>1. \/ pc' = [pc EXCEPT ![t] = AfterCheck(t)]
              \/ /\ ~(activeRun # NoRun /\ pendingRun = activeRun)
                 /\ pc' = [pc EXCEPT ![t] = "probe"] /\ seen' = [seen EXCEPT ![t] = x]
          BY <3>1 DEF Capture, Goto
        <5>2. x.run = activeRun
          BY DEF Nothing
        <5> HIDE DEF x
        <5> QED BY <1>1, <5>1, <5>2, ThreadTypes DEF AfterCheck
      <4> QED BY <1>4, <4>1 DEF Checks
    <3>2. CASE Probe(t) \/ Declare(t)
      <4>1. seen'[t].run = seen[t].run /\ pc[t] \in {"probe", "declare"}
        BY <1>1, <3>2, ThreadTypes DEF Probe, Declare, Captured
      <4> QED BY <1>4, <4>1 DEF Checks
    <3>3. CASE Tell(t)
      <4>1. pc'[t] \in {"invalidate", "poll"}
        BY <1>1, <3>3, ThreadTypes DEF Tell, Goto, AfterCheck
      <4> QED BY <4>1 DEF Checks
    <3> QED BY <1>12, <3>1, <3>2, <3>3 DEF Check
  <2> HIDE DEF ActiveSent, SeenSent
  <2> QED BY <1>1, <1>5, <1>7, <1>12, <2>1, <2>2, CheckFrame
<1>13. ASSUME NEW g \in Generations, ListenerStep(g) PROVE ActiveSent' /\ SeenSent'
  <2>1. ActiveSent'
    <3>1. UNCHANGED runVars \/ ClearRun \/ UNCHANGED <<activeRun, pendingRun>>
      <4>1. CASE Record(g)
        BY <4>1 DEF Record
      <4>2. CASE ~Record(g)
        BY <1>13, <4>2 DEF ListenerStep, Kill, Killed, KillFails, Take, Quit, Recheck,
           Publish, ClearAfter, Abort, AbortStop, AbortTell
      <4> QED BY <4>1, <4>2
    <3> QED BY <1>1, <1>4, <3>1 DEF runVars, ClearRun
  <2>2. Checks(g)' => seen'[g].run \notin Waiting
    <3>1. CASE Kill(g) \/ Killed(g)
      <4>1. seen'[g].run = seen[g].run /\ pc[g] \in {"kill", "killing"}
        BY <1>1, <3>1, ThreadTypes DEF Kill, Killed, Captured
      <4> QED BY <1>3, <1>4, <4>1 DEF Checks
    <3>2. CASE ~Kill(g) /\ ~Killed(g)
      <4>1. pc'[g] \notin {"probe", "declare", "tell", "kill", "killing"}
        BY <1>1, <1>13, <3>2, ThreadTypes DEF ListenerStep, KillFails, Take, Quit, Record,
           Recheck, Publish, ClearAfter, Abort, AbortStop, AbortTell, Goto
      <4> QED BY <4>1 DEF Checks
    <3> QED BY <3>1, <3>2
  <2> HIDE DEF ActiveSent, SeenSent
  <2> QED BY <1>1, <1>3, <1>5, <1>13, <2>1, <2>2, ListenerFrame
<1>14. ASSUME UNCHANGED <<pc, seen>>, UNCHANGED runVars PROVE ActiveSent' /\ SeenSent'
  BY <1>1, <1>4, <1>7, <1>14 DEF Checks
<1>15. ASSUME NEW c \in Callers, Refuses(c) PROVE UNCHANGED <<pc, seen>> /\ UNCHANGED runVars
  BY <1>15 DEF Refuses, RefuseStart, threadVars
<1>16. ASSUME NEW g \in Generations, Works(g) PROVE UNCHANGED <<pc, seen>> /\ UNCHANGED runVars
  BY <1>16, WorkerFrame
<1>17. ASSUME UNCHANGED vars PROVE UNCHANGED <<pc, seen>> /\ UNCHANGED runVars
  BY <1>17 DEF vars, threadVars
<1>18. ActiveSent' /\ SeenSent'
  <2> HIDE DEF ActiveSent, SeenSent
  <2> QED BY Steps, <1>8, <1>9, <1>10, <1>11, <1>12, <1>13, <1>14, <1>15, <1>16, <1>17
<1> QED BY <1>2, <1>18 DEF SentInv

LEMMA RunNext ==
    ASSUME BaseInv, RunInv, [Next]_vars
    PROVE  RunInv'
<1>1. OwnerInv' /\ SentInv'
  BY OwnerNext, SentNext DEF BaseInv, RunInv
<1>2. PlaceInv'
  BY PlacedNext DEF RunInv, PlaceInv
<1> QED BY <1>1, <1>2 DEF RunInv

---------------------------------------------------------------------------
(* What changes the active run, the accepted generation and the events.    *)

LEMMA Frozen ==
    ASSUME TypeOK, [Next]_vars
    PROVE  faults' = faults /\ (revived => revived')
<1>1. ASSUME NEW b, Restore(b), revived PROVE revived'
  BY <1>1, Zenon DEF Restore
<1>2. ASSUME NEW c \in Callers, Finishes(c) PROVE revived' = revived \/ \E b : Restore(b)
  BY <1>2 DEF Finishes, WontDie, JoinTimesOut, SpawnFails, ViewerCommand, MarkDispatched,
     RetireReturns, Unpin, ShutDown, histVars
<1>3. ASSUME NEW g \in Generations, ListenerStep(g) PROVE revived' = revived \/ \E b : Restore(b)
  BY <1>3 DEF ListenerStep, Kill, Killed, KillFails, Take, Quit, Record, Recheck, Publish,
     ClearAfter, Abort, AbortStop, AbortTell, histVars
<1>4. revived' = revived \/ \E b : Restore(b)
  BY Steps, <1>2, <1>3, BeginFrame, ProceedFrame, CheckFrame, WorkerFrame
     DEF histVars, Spawn, Refuses, RefuseStart, vars
<1>5. faults' = faults
  BY Steps, BeginFrame, ProceedFrame, FinishFrame, CheckFrame, ListenerFrame, WorkerFrame
     DEF loadVars, Spawn, Refuses, RefuseStart, vars
<1> QED BY <1>1, <1>4, <1>5

(* A thread rests unless the step is its own.                              *)
LEMMA ListenerMoves ==
    ASSUME TypeOK, [Next]_vars, NEW g \in Generations
    PROVE  \/ Rests(g)
           \/ \E c \in Callers : Spawn(c) /\ g = NextToken
           \/ Check(g) \/ ListenerStep(g)
<1>1. /\ \A c \in Callers : c \in Threads \ {g} /\ c # g
      /\ \A h \in Generations : h \in Threads
      /\ g \in Threads
  BY ThreadTypes
<1>2. ASSUME NEW t \in Threads, OthersRest(t), t # g PROVE Rests(g)
  BY <1>1, <1>2 DEF OthersRest
<1>3. ASSUME NEW c \in Callers, Begins(c) \/ Proceeds(c) \/ Finishes(c) PROVE Rests(g)
  BY <1>1, <1>2, <1>3, BeginFrame, ProceedFrame, FinishFrame
<1>4. ASSUME NEW c \in Callers, Spawn(c), g # NextToken PROVE Rests(g)
  BY <1>1, <1>4, Token DEF Spawn, Rests
<1>5. ASSUME UNCHANGED <<pc, seen, job, event>> PROVE Rests(g)
  BY <1>5 DEF Rests
<1>6. ASSUME NEW t \in Threads, Check(t), t # g PROVE Rests(g)
  BY <1>2, <1>6, CheckFrame
<1>7. ASSUME NEW h \in Generations, ListenerStep(h), h # g PROVE Rests(g)
  BY <1>1, <1>2, <1>7, ListenerFrame
<1>8. ASSUME NEW c \in Callers, Refuses(c) PROVE Rests(g)
  BY <1>5, <1>8 DEF Refuses, RefuseStart, threadVars
<1>9. CASE UNCHANGED vars
  BY <1>5, <1>9 DEF vars, threadVars
<1> QED BY Steps, <1>3, <1>4, <1>5, <1>6, <1>7, <1>8, <1>9, WorkerFrame

LEMMA CallerMoves ==
    ASSUME TypeOK, [Next]_vars, NEW c \in Callers
    PROVE  \/ Rests(c)
           \/ Begins(c) \/ Proceeds(c) \/ Spawn(c) \/ Finishes(c) \/ Check(c)
<1>1. /\ \A d \in Callers : d \in Threads
      /\ \A h \in Generations : h \in Threads /\ h # c
  BY ThreadTypes
<1>2. ASSUME NEW t \in Threads, OthersRest(t), t # c PROVE Rests(c)
  BY <1>1, <1>2 DEF OthersRest
<1>3. ASSUME NEW d \in Callers, Begins(d) \/ Proceeds(d) \/ Finishes(d), d # c PROVE Rests(c)
  BY <1>1, <1>2, <1>3, BeginFrame, ProceedFrame, FinishFrame
<1>4. ASSUME NEW d \in Callers, Spawn(d), d # c PROVE Rests(c)
  BY <1>1, <1>4, Token DEF Spawn, Rests
<1>5. ASSUME UNCHANGED <<pc, seen, job, event>> PROVE Rests(c)
  BY <1>5 DEF Rests
<1>6. ASSUME NEW t \in Threads, Check(t), t # c PROVE Rests(c)
  BY <1>2, <1>6, CheckFrame
<1>7. ASSUME NEW h \in Generations, ListenerStep(h) PROVE Rests(c)
  BY <1>1, <1>2, <1>7, ListenerFrame
<1>8. ASSUME NEW d \in Callers, Refuses(d) PROVE Rests(c)
  BY <1>5, <1>8 DEF Refuses, RefuseStart, threadVars
<1>9. CASE UNCHANGED vars
  BY <1>5, <1>9 DEF vars, threadVars
<1> QED BY Steps, <1>3, <1>4, <1>5, <1>6, <1>7, <1>8, <1>9, WorkerFrame

LEMMA AcceptedMoves ==
    ASSUME TypeOK, [Next]_vars
    PROVE  \/ acceptedGen' \in {acceptedGen, Retired}
           \/ \E c \in Callers : Spawn(c)
           \/ acceptedGen' = physicalGen /\ revived' /\ acceptedGen = Retired
<1>1. ASSUME NEW c \in Callers, Begins(c) PROVE acceptedGen' \in {acceptedGen, Retired}
  BY <1>1 DEF Begins, StartRun, OpenViewer, RetireWorkspace, ReplaceRegistry, Shutdown, genVars
<1>2. ASSUME NEW c \in Callers, Proceeds(c) PROVE acceptedGen' \in {acceptedGen, Retired}
  BY <1>2 DEF Proceeds, Bind, AbandonStart, Terminate, WorkerGone, Joined, EnterEnsure,
     ReuseProcess, Invalidate, Send, genVars
<1>3. ASSUME NEW c \in Callers, Finishes(c)
      PROVE  \/ acceptedGen' = acceptedGen
             \/ acceptedGen' = physicalGen /\ revived' /\ acceptedGen = Retired
  BY <1>3 DEF Finishes, WontDie, JoinTimesOut, SpawnFails, ViewerCommand, MarkDispatched,
     RetireReturns, Unpin, ShutDown, Restore, genVars
<1>4. ASSUME NEW t \in Threads, Check(t) PROVE acceptedGen' \in {acceptedGen, Retired}
  BY <1>4 DEF Check, Capture, Probe, Declare, Tell, genVars
<1>5. ASSUME NEW g \in Generations, ListenerStep(g)
      PROVE  \/ acceptedGen' \in {acceptedGen, Retired}
             \/ acceptedGen' = physicalGen /\ revived' /\ acceptedGen = Retired
  BY <1>5 DEF ListenerStep, Kill, Killed, KillFails, Take, Quit, Record, Recheck, Publish,
     ClearAfter, Abort, AbortStop, AbortTell, Restore, genVars
<1> QED BY Steps, <1>1, <1>2, <1>3, <1>4, <1>5, WorkerFrame
        DEF genVars, Refuses, RefuseStart, vars

(* Who clears the active run.                                              *)
Drops(c)  == /\ AbandonStart(c) \/ JoinTimesOut(c) \/ SpawnFails(c)
             /\ JoinTimesOut(c) => job[c].then = "spawn"
             /\ job[c].run # NoRun /\ activeRun = job[c].run
Clears(t) ==
    \/ t \in Callers /\ (Drops(t) \/ Shutdown(t))
    \/ Declare(t) /\ Watched(GenerationOf(t))
    \/ /\ t \in Generations
       /\ \/ Killed(t) /\ activeRun = seen[t].run /\ process = t /\ acceptedGen = Retired
          \/ /\ Record(t) /\ Current(t) /\ event[t].kind = "ended"
             /\ activeRun \in {NoRun, event[t].of}
          \/ ClearAfter(t) /\ acceptedGen = t /\ OwnRun(t)
          \/ Abort(t) /\ physicalGen = t /\ acceptedGen = t

LEMMA ActiveMoves ==
    ASSUME TypeOK, JobInv, [Next]_vars
    PROVE  \/ UNCHANGED <<activeRun, pendingRun>>
           \/ /\ UNCHANGED activeRun
              /\ \E c \in Callers : MarkDispatched(c) /\ pendingRun = job[c].run
           \/ \E c \in Callers : Bind(c)
           \/ ClearRun /\ \E t \in Threads : Clears(t)
<1>1. Callers \subseteq Threads /\ Generations \subseteq Threads
  BY ThreadTypes
<1>2. ASSUME NEW c \in Callers, Begins(c)
      PROVE  UNCHANGED <<activeRun, pendingRun>> \/ (ClearRun /\ Clears(c))
  BY <1>2 DEF Begins, StartRun, OpenViewer, RetireWorkspace, ReplaceRegistry, Shutdown, runVars,
     Clears
<1>3. ASSUME NEW c \in Callers, Proceeds(c)
      PROVE  UNCHANGED <<activeRun, pendingRun>> \/ Bind(c) \/ (ClearRun /\ Clears(c))
  <2>1. CASE AbandonStart(c)
    <3>1. ~JoinTimesOut(c)
      BY <2>1 DEF AbandonStart, JoinTimesOut
    <3> QED BY <2>1, <3>1 DEF AbandonStart, ReleaseRun, runVars, Clears, Drops
  <2>2. CASE ~AbandonStart(c)
    BY <1>3, <2>2 DEF Proceeds, Terminate, WorkerGone, Joined, EnterEnsure, ReuseProcess,
       Invalidate, Send, runVars
  <2> QED BY <2>1, <2>2
<1>4. ASSUME NEW c \in Callers, Finishes(c)
      PROVE  \/ UNCHANGED <<activeRun, pendingRun>>
             \/ UNCHANGED activeRun /\ MarkDispatched(c) /\ pendingRun = job[c].run
             \/ ClearRun /\ Clears(c)
  <2>1. CASE MarkDispatched(c)
    BY <2>1 DEF MarkDispatched
  <2>2. CASE JoinTimesOut(c)
    BY <2>2 DEF JoinTimesOut, ReleaseRun, runVars, Clears, Drops
  <2>3. CASE SpawnFails(c)
    <3>1. ~JoinTimesOut(c)
      BY <2>3 DEF SpawnFails, JoinTimesOut
    <3> QED BY <2>3, <3>1 DEF SpawnFails, ReleaseRun, runVars, Clears, Drops
  <2>4. CASE WontDie(c) \/ ViewerCommand(c) \/ RetireReturns(c) \/ Unpin(c) \/ ShutDown(c)
    BY <2>4 DEF WontDie, ViewerCommand, RetireReturns, Unpin, ShutDown, runVars
  <2> QED BY <1>4, <2>1, <2>2, <2>3, <2>4 DEF Finishes
<1>5. ASSUME NEW t \in Threads, Check(t)
      PROVE  UNCHANGED <<activeRun, pendingRun>> \/ (ClearRun /\ Clears(t))
  BY <1>5 DEF Check, Capture, Probe, Declare, Tell, runVars, Clears
<1>6. ASSUME NEW g \in Generations, ListenerStep(g)
      PROVE  UNCHANGED <<activeRun, pendingRun>> \/ (ClearRun /\ Clears(g))
  <2>1. CASE Record(g)
    BY <2>1 DEF Record, runVars, Clears, Terminal
  <2>2. CASE Killed(g)
    BY <2>2 DEF Killed, runVars, Clears
  <2>3. CASE ClearAfter(g)
    BY <2>3 DEF ClearAfter, runVars, Clears
  <2>4. CASE Abort(g)
    BY <2>4 DEF Abort, runVars, Clears
  <2>5. CASE ~Record(g) /\ ~Killed(g) /\ ~ClearAfter(g) /\ ~Abort(g)
    BY <1>6, <2>5 DEF ListenerStep, Kill, KillFails, Take, Quit, Recheck, Publish, AbortStop,
       AbortTell, runVars
  <2> QED BY <2>1, <2>2, <2>3, <2>4, <2>5
<1> QED BY Steps, <1>1, <1>2, <1>3, <1>4, <1>5, <1>6, WorkerFrame
        DEF runVars, Spawn, Refuses, RefuseStart, vars

(* Only its listener takes an event of a worker, until the worker is gone. *)
LEMMA EventsGrow ==
    ASSUME TypeOK, StageInv, [Next]_vars, NEW g \in Generations
    PROVE  \/ \E c \in Callers : Joined(c) /\ process = g
           \/ Take(g)
           \/ \A i \in Queued(g) : i \in Queued(g)' /\ events'[g][i] = events[g][i]
<1> DEFINE Kept3 == \A i \in Queued(g) : i \in Queued(g)' /\ events'[g][i] = events[g][i]
<1>1. events \in [Generations -> Seq(Event)]
  BY DEF TypeOK
<1>2. ASSUME events'[g] = events[g] PROVE Kept3
  BY <1>2 DEF Queued
<1>3. ASSUME NEW x, NEW m \in Event, events' = Post(events, x, m) PROVE Kept3
  <2> DEFINE p == Post(events, x, m)
  <2>1. /\ Len(events[g]) \in Nat /\ Len(p[g]) \in {Len(events[g]), Len(events[g]) + 1}
        /\ \A i \in 1 .. Len(events[g]) : p[g][i] = events[g][i]
    BY <1>1, PostElements
  <2> HIDE DEF p
  <2>2. \A i \in Queued(g) : i \in 1 .. Len(p[g]) /\ p[g][i] = events[g][i]
    BY <2>1 DEF Queued
  <2> QED BY <1>3, <2>2 DEF p, Queued
<1>4. ASSUME NEW c \in Callers, Proceeds(c) PROVE Kept3 \/ (Joined(c) /\ process = g)
  <2>1. CASE Joined(c)
    BY <1>2, <2>1 DEF Joined
  <2>2. CASE ~Joined(c)
    <3>1. events' = events \/ events' = WithSentinel
      BY <1>4, <2>2 DEF Proceeds, Bind, AbandonStart, Terminate, WorkerGone, EnterEnsure,
         ReuseProcess, Invalidate, Send, workerVars
    <3> QED BY <1>2, <1>3, <3>1, SentinelPosts
  <2> QED BY <2>1, <2>2
<1>5. ASSUME NEW h \in Generations, ListenerStep(h) PROVE Kept3 \/ Take(g)
  <2>1. CASE Take(h)
    <3>1. h # g => events'[g] = events[g]
      BY <2>1 DEF Take
    <3> QED BY <1>2, <2>1, <3>1
  <2>2. CASE ~Take(h)
    BY <1>2, <1>5, <2>2 DEF ListenerStep, Kill, Killed, KillFails, Quit, Record, Recheck, Publish,
       ClearAfter, Abort, AbortStop, AbortTell, workerVars
  <2> QED BY <2>1, <2>2
<1>6. ASSUME NEW h \in Generations, TakeCommand(h) PROVE Kept3
  <2>1. \/ UNCHANGED events
        \/ \E m \in Event : events' = Post(events, h, m)
    BY <1>6, CommandEffects, SpecialCommands
  <2> QED BY <1>2, <1>3, <2>1
<1>7. ASSUME NEW h \in Generations, StartNode(h) \/ SettleNode(h) \/ EndRun(h) \/ Escape(h)
      PROVE  Kept3
  <2>1. \E m \in Event : events' = Post(events, h, m)
    BY <1>7, RunEffects, SpecialCommands
  <2> QED BY <1>3, <2>1
<1>8. ASSUME UNCHANGED events PROVE Kept3
  BY <1>2, <1>8
<1>9. ASSUME NEW c \in Callers, Begins(c) \/ Spawn(c) \/ Finishes(c) \/ Refuses(c)
      PROVE  UNCHANGED events
  BY <1>9, BeginFrame, FinishFrame DEF Spawn, Refuses, RefuseStart, workerVars
<1>10. ASSUME NEW t \in Threads, Check(t) PROVE UNCHANGED events
  BY <1>10, CheckFrame DEF workerVars
<1>11. ASSUME NEW h \in Generations, Die(h) PROVE UNCHANGED events
  BY <1>11 DEF Die
<1>12. ASSUME UNCHANGED vars PROVE UNCHANGED events
  BY <1>12 DEF vars, workerVars
<1> HIDE DEF Kept3
<1>13. Kept3 \/ Take(g) \/ \E c \in Callers : Joined(c) /\ process = g
  BY Steps, <1>4, <1>5, <1>6, <1>7, <1>8, <1>9, <1>10, <1>11, <1>12 DEF Works, WorkerStep
<1> QED BY <1>13 DEF Kept3

(* The faults of an event, and of the listener that goes down because of it. *)
FaultOf(e) == /\ e.kind = "fatal" => "fatal" \in faults
              /\ e.kind = "badOffer" => "offer" \in faults

LEMMA FaultNext ==
    ASSUME BaseInv, FaultInv, [Next]_vars
    PROVE  FaultInv'
<1>1. TypeOK /\ events \in [Generations -> Seq(Event)] /\ UNCHANGED faults
  <2>1. UNCHANGED faults
    BY Frozen DEF BaseInv
  <2> QED BY <2>1 DEF BaseInv, TypeOK
<1> SUFFICES ASSUME NEW g \in Generations
             PROVE  /\ \A i \in Queued(g)' : FaultOf(events'[g][i])
                    /\ FaultOf(event'[g])
                    /\ pc'[g] \in {"abort", "stop", "fail"} => event'[g].kind \in {"fatal", "badOffer"}
  BY <1>1 DEF FaultInv, FaultOf
<1>2. /\ \A i \in Queued(g) : FaultOf(events[g][i])
      /\ FaultOf(event[g])
      /\ pc[g] \in {"abort", "stop", "fail"} => event[g].kind \in {"fatal", "badOffer"}
  BY DEF FaultInv, FaultOf
<1>3. (\A i \in Queued(g)' : FaultOf(events'[g][i])) /\ FaultOf(event'[g])
  <2>1. OldEvents(g) => \A i \in Queued(g)' : FaultOf(events'[g][i])
    BY <1>2 DEF OldEvents, OldOf, Kept, Queued, FaultOf, RunKinds, EndKinds
  <2>2. events'[g] = events[g] => OldEvents(g)
    BY <1>1, QuietEvents
  <2>3. CASE Quiet(g) \/ Serving(g) \/ \E c \in Callers : Sends(c, g)
    BY <1>2, <2>1, <2>2, <2>3 DEF Quiet, Serving, Sends
  <2>4. ASSUME NEW e \in RunKinds, Telling(g, e)
        PROVE  (\A i \in Queued(g)' : FaultOf(events'[g][i])) /\ FaultOf(event'[g])
    <3> DEFINE m == [kind |-> e, of |-> serving[g]]
    <3>1. /\ events' = Post(events, g, m) /\ event'[g] = event[g] /\ serving[g] \in Runs
          /\ e = "fatal" => "fatal" \in faults
          /\ e = "badOffer" => "offer" \in faults
      BY <2>4 DEF Telling
    <3>2. m \in Event /\ m.kind = e
      BY <3>1 DEF Event, RunKinds, EndKinds
    <3>3. FaultOf(m)
      BY <3>1, <3>2 DEF FaultOf
    <3> HIDE DEF m
    <3>4. \A i \in Queued(g)' : events'[g][i] = m \/ (i \in Queued(g) /\ events'[g][i] = events[g][i])
      BY <1>1, <3>1, <3>2, QueuedMember
    <3> QED BY <1>2, <3>1, <3>3, <3>4
  <2>5. CASE Taking(g)
    <3>1. /\ events' = [events EXCEPT ![g] = Tail(@)] /\ events[g] # <<>>
          /\ event'[g] = Head(events[g])
      BY <2>5 DEF Taking
    <3>2. /\ 1 \in Queued(g) /\ event'[g] = events[g][1]
          /\ \A i \in Queued(g)' : i + 1 \in Queued(g) /\ events'[g][i] = events[g][i + 1]
      BY <1>1, <3>1, TailElements DEF Queued
    <3> QED BY <1>2, <3>2
  <2> QED BY <2>3, <2>4, <2>5, Changes DEF BaseInv
<1>4. pc'[g] \in {"abort", "stop", "fail"} => event'[g].kind \in {"fatal", "badOffer"}
  <2>1. ASSUME NEW c \in Callers, Spawn(c), g = NextToken PROVE pc'[g] = "poll"
    BY <1>1, <2>1, Token
  <2>2. ASSUME Check(g) PROVE pc'[g] \notin {"abort", "stop", "fail"}
    BY <1>1, <2>2, ThreadTypes DEF Check, Capture, Probe, Declare, Tell, Goto, AfterCheck
  <2>3. CASE Take(g)
    <3>1. /\ event' = [event EXCEPT ![g] = Head(events[g])]
          /\ pc'[g] = "abort" => Head(events[g]).kind = "fatal"
          /\ pc'[g] \in {"ended", "poll", "abort", "record"}
      BY <1>1, <2>3, ThreadTypes DEF Take, Goto
    <3> QED BY <1>1, <3>1, ThreadTypes
  <2>4. CASE Recheck(g)
    BY <1>1, <2>4, ThreadTypes DEF Recheck, Goto
  <2>5. CASE Abort(g) \/ AbortStop(g)
    BY <1>1, <1>2, <2>5, ThreadTypes DEF Abort, AbortStop, Goto
  <2>6. ASSUME ListenerStep(g), ~Take(g), ~Recheck(g), ~Abort(g), ~AbortStop(g)
        PROVE  pc'[g] \notin {"abort", "stop", "fail"}
    BY <1>1, <2>6, ThreadTypes DEF ListenerStep, Kill, Killed, KillFails, Quit, Record, Publish,
       ClearAfter, AbortTell, Goto, Report
  <2> QED BY <1>1, <1>2, <2>1, <2>2, <2>3, <2>4, <2>5, <2>6, ListenerMoves DEF Rests
<1> QED BY <1>3, <1>4

LEMMA ListenNext ==
    ASSUME BaseInv, ListenInv, [Next]_vars
    PROVE  ListenInv'
<1>1. TypeOK
  BY DEF BaseInv
<1> SUFFICES ASSUME NEW g \in Generations
             PROVE  /\ pc'[g] = "declare" => ~Alive(g)'
                    /\ pc'[g] = "clear" => event'[g].kind = "ended"
  BY DEF ListenInv
<1>2. /\ pc[g] = "declare" => ~Alive(g)
      /\ pc[g] = "clear" => event[g].kind = "ended"
  BY DEF ListenInv
<1>3. ASSUME NEW c \in Callers, Spawn(c), g = NextToken PROVE pc'[g] = "poll"
  BY <1>1, <1>3, Token
<1>4. ASSUME pc'[g] = "declare" PROVE ~Alive(g)'
  <2>1. ASSUME Check(g) PROVE pc[g] = "declare" \/ ~Alive(g)
    BY <1>1, <1>4, <2>1, ThreadTypes DEF Check, Capture, Probe, Declare, Tell, Goto, AfterCheck,
       GenerationOf
  <2>2. ~ListenerStep(g)
    BY <1>1, <1>4, ThreadTypes DEF ListenerStep, Kill, Killed, KillFails, Take, Quit, Record,
       Recheck, Publish, ClearAfter, Abort, AbortStop, AbortTell, Goto, Report
  <2>3. ~Alive(g)
    BY <1>1, <1>2, <1>3, <1>4, <2>1, <2>2, ListenerMoves DEF Rests
  <2> QED BY <1>1, <1>3, <1>4, <2>3, NoneRises
<1>5. ASSUME pc'[g] = "clear" PROVE event'[g].kind = "ended"
  <2>1. ~Check(g)
    BY <1>1, <1>5, ThreadTypes DEF Check, Capture, Probe, Declare, Tell, Goto, AfterCheck
  <2>2. ASSUME ListenerStep(g) PROVE event'[g].kind = "ended"
    <3>1. Publish(g)
      BY <1>1, <1>5, <2>2, ThreadTypes DEF ListenerStep, Kill, Killed, KillFails, Take, Quit,
         Record, Recheck, ClearAfter, Abort, AbortStop, AbortTell, Goto, Report
    <3> QED BY <1>1, <1>5, <3>1, ThreadTypes DEF Publish, Terminal, Goto
  <2> QED BY <1>1, <1>2, <1>3, <1>5, <2>1, <2>2, ListenerMoves DEF Rests
<1> QED BY <1>4, <1>5

---------------------------------------------------------------------------
(* The admission of runs.                                                  *)

(* A run that is being admitted was not sent.                              *)
LEMMA ReservedWaits ==
    ASSUME BaseInv, NEW c \in Callers, Reserving(c)
    PROVE  /\ job[c].run \in Runs /\ job[c].run \in Waiting /\ job[c].run # NoRun
           /\ pc[c] \notin {"idle", "mark", "bind"} /\ job[c].kind = "start"
BY ClientAssumption DEF BaseInv, JobInv, JobFits, Reserving, Dispatching, Waiting, Unsent

(* Nobody but its own call drops a start that was admitted.                *)
LEMMA OnlyOwnDrops ==
    ASSUME BaseInv, RunInv, FaultInv, ListenInv, PendingInv, Calm,
           WorkersHoldUp => HeldInv, NoCrash => FlightInv,
           NEW t \in Threads, Clears(t), NEW c \in Callers, Reserving(c)
    PROVE  t = c /\ Drops(c)
<1>1. /\ activeRun = job[c].run /\ activeRun \in Waiting /\ activeRun # NoRun
      /\ activeRun \in Runs
  BY ReservedWaits DEF PendingInv
<1>2. TypeOK /\ SentInv /\ OwnerInv
  BY DEF BaseInv, RunInv
<1>3. \A g \in Generations : event[g].kind \in RunKinds => event[g].of \notin Waiting
  BY <1>2 DEF SentInv, SentAt
<1>4. CASE t \in Callers /\ Shutdown(t)
  BY <1>4, ReservedWaits DEF Shutdown
<1>5. CASE t \in Callers /\ Drops(t)
  <2>1. job[t].kind = "start" /\ job[c].kind = "start" /\ job[t].run = job[c].run
    BY <1>1, <1>5, ReservedWaits DEF Drops, BaseInv, JobInv, JobFits
  <2> QED BY <1>2, <1>5, <2>1 DEF OwnerInv
<1>6. CASE t \in Callers /\ Declare(t)
  BY <1>6 DEF Declare, PendingInv
<1>7. CASE t \in Generations /\ Declare(t) /\ Watched(GenerationOf(t))
  <2>1. pc[t] = "declare" /\ process = t /\ acceptedGen = t /\ life[t] # "alive"
    BY <1>2, <1>7, ThreadTypes DEF Declare, Watched, GenerationOf, ListenInv, Alive
  <2>2. CASE WorkersHoldUp
    BY <1>7, <2>1, <2>2 DEF HeldInv
  <2>3. CASE ~WorkersHoldUp
    <3>1. FlightAt(t)
      BY <1>7, <2>1, <2>3 DEF FlightInv, NoCrash, Calm
    <3>2. PICK i \in Queued(t) : events[t][i].kind = "fatal"
      BY <2>1, <3>1 DEF FlightAt, Dying
    <3>3. events[t][i].of = activeRun /\ events[t][i].of \notin Waiting
      BY <1>2, <1>7, <3>1, <3>2 DEF FlightAt, RunsAt, SentInv, SentAt, RunKinds, EndKinds
    <3> QED BY <1>1, <3>3
  <2> QED BY <2>2, <2>3
<1>8. CASE t \in Generations /\ Killed(t) /\ activeRun = seen[t].run
  BY <1>1, <1>2, <1>8 DEF Killed, Checks, SentInv
<1>9. CASE t \in Generations /\ Record(t) /\ event[t].kind = "ended"
           /\ activeRun \in {NoRun, event[t].of}
  BY <1>1, <1>3, <1>9 DEF RunKinds, EndKinds
<1>10. CASE t \in Generations /\ ClearAfter(t) /\ OwnRun(t)
  BY <1>1, <1>3, <1>10 DEF ClearAfter, OwnRun, ListenInv, RunKinds, EndKinds
<1>11. CASE t \in Generations /\ Abort(t) /\ acceptedGen = t
  <2>1. pc[t] = "abort" /\ event[t].kind \in {"fatal", "badOffer"}
        /\ ({"fatal", "offer"} \cap faults # {})
    BY <1>11 DEF Abort, FaultInv
  <2>2. FlightAt(t)
    BY <1>11, <2>1 DEF FlightInv, NoCrash, Calm, WorkersHoldUp
  <2>3. event[t].of = activeRun
    BY <2>1, <2>2 DEF FlightAt, RunsAt, Handles, Reports, RunKinds, EndKinds
  <2> QED BY <1>1, <1>3, <1>11, <2>1, <2>3 DEF RunKinds, EndKinds
<1> QED BY <1>4, <1>5, <1>6, <1>7, <1>8, <1>9, <1>10, <1>11 DEF Clears, Threads

(* The callers that hold _start_lock are one.                              *)
LEMMA OneLocks ==
    ASSUME BaseInv, NEW c \in Callers, NEW d \in Callers,
           pc[c] \notin {"idle", "reserved"}, pc[d] \notin {"idle", "reserved"}
    PROVE  c = d
BY DEF BaseInv, LockInv

LEMMA ReservationKept ==
    ASSUME BaseInv, RunInv, FaultInv, ListenInv, PendingInv, Calm,
           WorkersHoldUp => HeldInv, NoCrash => FlightInv, [Next]_vars,
           NEW c \in Callers, Reserving(c)
    PROVE  UNCHANGED <<activeRun, pendingRun>> \/ Drops(c)
<1>1. activeRun = job[c].run /\ pendingRun = job[c].run /\ activeRun # NoRun
  BY ReservedWaits DEF PendingInv
<1>2. ASSUME NEW d \in Callers, MarkDispatched(d), pendingRun = job[d].run PROVE FALSE
  <2>1. job[d].kind = "start" /\ pc[d] = "mark"
    BY <1>2 DEF MarkDispatched, BaseInv, JobInv, JobFits
  <2> QED BY <1>1, <1>2, <2>1, ReservedWaits DEF RunInv, OwnerInv
<1>3. ASSUME NEW d \in Callers, Bind(d) PROVE FALSE
  BY <1>1, <1>3 DEF Bind, PendingInv, Binding
<1> QED BY <1>2, <1>3, ActiveMoves, OnlyOwnDrops DEF BaseInv

LEMMA ReservedBefore ==
    ASSUME BaseInv, [Next]_vars, NEW c \in Callers, Reserving(c)'
    PROVE  \/ Reserving(c) /\ job'[c].run = job[c].run /\ ~Drops(c)
           \/ Bind(c)
<1>1. TypeOK /\ JobFits(c) /\ c \in Threads
  BY ThreadTypes DEF BaseInv, JobInv
<1>2. job'[c].kind = "start" /\ pc'[c] \notin {"idle", "mark", "bind", "stopping"}
      /\ (pc'[c] = "joining" => job'[c].then = "spawn")
  BY DEF Reserving, Dispatching
<1>3. CASE Rests(c)
  <2>1. Reserving(c) /\ job'[c].run = job[c].run /\ pc'[c] = pc[c]
    BY <1>1, <1>3 DEF Rests, Reserving, Dispatching
  <2>2. ~Drops(c)
    <3>1. Drops(c) => pc'[c] = "idle"
      BY <1>1, ThreadTypes DEF Drops, AbandonStart, JoinTimesOut, SpawnFails, Finish, Goto
    <3> QED BY <1>2, <3>1
  <2> QED BY <2>1, <2>2
<1>4. CASE Begins(c)
  <2>1. \/ pc'[c] \in {"stopping", "bind", "await", "idle"}
        \/ pc'[c] = "ensuring" /\ job'[c].kind = "ensure"
    BY <1>1, <1>4, ThreadTypes, BeginFrame DEF Begins, StartRun, OpenViewer, RetireWorkspace, ReplaceRegistry,
       Shutdown, Goto, NewJob
  <2> QED BY <1>2, <2>1 DEF Reserving, Dispatching
<1>5. CASE Finishes(c)
  BY <1>1, <1>2, <1>5, FinishFrame
<1>6. CASE AbandonStart(c)
  BY <1>1, <1>2, <1>6, ThreadTypes DEF AbandonStart, Goto
<1>7. CASE Spawn(c) \/ Check(c) \/ EnterEnsure(c) \/ ReuseProcess(c)
  <2>1. UNCHANGED job /\ job[c].kind = "start"
    BY <1>1, <1>2, <1>7, CheckFrame DEF Spawn, EnterEnsure, ReuseProcess
  <2>2. pc[c] \in {"ensuring", "probe", "declare", "tell", "spawn", "reserved"}
    BY <1>1, <1>7, CheckFrame DEF Spawn, EnterEnsure, ReuseProcess
  <2>3. ~Drops(c)
    BY <1>1, <1>2, ThreadTypes DEF Drops, AbandonStart, JoinTimesOut, SpawnFails, Finish, Goto
  <2> QED BY <2>1, <2>2, <2>3 DEF Reserving, Dispatching
<1>8. CASE Invalidate(c)
  <2>1. /\ job'[c].kind = job[c].kind /\ job'[c].run = job[c].run
        /\ pc[c] \in {"invalidate", "ensuring"}
    BY <1>1, <1>8, ThreadTypes DEF Invalidate, Job
  <2>2. ~Drops(c)
    BY <1>1, <1>2, ThreadTypes DEF Drops, AbandonStart, JoinTimesOut, SpawnFails, Finish, Goto
  <2> QED BY <1>2, <2>1, <2>2 DEF Reserving, Dispatching
<1>9. CASE Joined(c)
  <2>1. UNCHANGED job /\ pc'[c] = job[c].then /\ pc[c] = "joining"
    BY <1>1, <1>9, ThreadTypes DEF Joined, Goto
  <2>2. job[c].then = "spawn"
    BY <1>1, <1>2, <2>1, ThreadTypes DEF Job, Reserving, Dispatching
  <2>3. ~Drops(c)
    BY <1>1, <1>2, ThreadTypes DEF Drops, AbandonStart, JoinTimesOut, SpawnFails, Finish, Goto
  <2> QED BY <1>2, <2>1, <2>2, <2>3 DEF Reserving
<1>10. CASE Terminate(c) \/ WorkerGone(c)
  <2>1. UNCHANGED job /\ pc[c] = "stopping" /\ pc'[c] \in {"stopping", "joining"}
    BY <1>1, <1>10, ThreadTypes DEF Terminate, WorkerGone, Goto, threadVars
  <2> QED BY <1>1, <1>2, <2>1 DEF JobFits
<1>11. CASE Send(c)
  BY <1>1, <1>2, <1>11, ThreadTypes DEF Send, Goto
<1> QED BY <1>1, <1>3, <1>4, <1>5, <1>6, <1>7, <1>8, <1>9, <1>10, <1>11, CallerMoves DEF Proceeds

LEMMA BindingBefore ==
    ASSUME BaseInv, [Next]_vars, NEW c \in Callers, Binding(c)'
    PROVE  \/ Binding(c) /\ ~Bind(c)
           \/ \E r \in Runs, k \in Contracts : StartRun(c, r, k)
<1>1. TypeOK /\ JobFits(c) /\ c \in Threads
  BY ThreadTypes DEF BaseInv, JobInv
<1>2. /\ pc'[c] \in {"bind", "stopping", "joining"}
      /\ pc'[c] \in {"stopping", "joining"} => job'[c].then = "bind"
  BY DEF Binding
<1>3. CASE Rests(c)
  <2>1. Binding(c) /\ pc'[c] = pc[c]
    BY <1>1, <1>3 DEF Rests, Binding
  <2>2. ~Bind(c)
    BY <1>1, <1>2, ThreadTypes DEF Bind, Goto
  <2> QED BY <2>1, <2>2
<1>4. CASE Begins(c) /\ ~\E r \in Runs, k \in Contracts : StartRun(c, r, k)
  <2>1. \/ pc'[c] \in {"ensuring", "await", "idle"}
        \/ pc'[c] = "stopping" /\ job'[c].then # "bind"
    BY <1>1, <1>4, ThreadTypes, BeginFrame DEF Begins, OpenViewer, RetireWorkspace, ReplaceRegistry,
       Shutdown, Goto, NewJob
  <2> QED BY <1>2, <2>1
<1>5. CASE Finishes(c)
  BY <1>1, <1>2, <1>5, FinishFrame
<1>6. CASE Bind(c) \/ AbandonStart(c) \/ EnterEnsure(c) \/ ReuseProcess(c) \/ Send(c) \/ Spawn(c)
  <2>1. CASE Spawn(c)
    BY <1>1, <1>2, <2>1, Token
  <2>2. CASE ~Spawn(c)
    BY <1>1, <1>2, <1>6, <2>2, ThreadTypes DEF Bind, AbandonStart, EnterEnsure, ReuseProcess, Send, Goto
  <2> QED BY <2>1, <2>2
<1>7. CASE Check(c)
  BY <1>1, <1>2, <1>7, ThreadTypes DEF Check, Capture, Probe, Declare, Tell, Goto, AfterCheck
<1>8. CASE Invalidate(c)
  BY <1>1, <1>2, <1>8, ThreadTypes DEF Invalidate, Job, Goto
<1>9. CASE Joined(c)
  <2>1. UNCHANGED job /\ pc'[c] = job[c].then /\ pc[c] = "joining" /\ ~Bind(c)
    BY <1>1, <1>9, ThreadTypes DEF Joined, Goto, Bind
  <2> QED BY <1>1, <1>2, <2>1, ThreadTypes DEF Job, Binding
<1>10. CASE Terminate(c) \/ WorkerGone(c)
  <2>1. UNCHANGED job /\ pc[c] = "stopping" /\ pc'[c] \in {"stopping", "joining"} /\ ~Bind(c)
    BY <1>1, <1>10, ThreadTypes DEF Terminate, WorkerGone, Goto, threadVars, Bind
  <2> QED BY <1>1, <1>2, <2>1 DEF Binding
<1> QED BY <1>1, <1>3, <1>4, <1>5, <1>6, <1>7, <1>8, <1>9, <1>10, CallerMoves DEF Proceeds

LEMMA CheckingBefore ==
    ASSUME TypeOK, [Next]_vars, NEW c \in Callers, pc'[c] \in {"probe", "declare", "tell"}
    PROVE  \/ pc[c] \in {"probe", "declare", "tell"}
           \/ /\ Capture(c) /\ Watched(process) /\ ~Alive(process) /\ pc[c] = "ensuring"
              /\ ~(activeRun # NoRun /\ pendingRun = activeRun)
<1>1. c \in Threads
  BY ThreadTypes
<1>2. CASE Rests(c)
  BY <1>2 DEF Rests
<1>3. CASE Begins(c) \/ Finishes(c) \/ Spawn(c)
  <2>1. CASE Spawn(c)
    BY <2>1, Token
  <2>2. CASE Finishes(c)
    BY <2>2, FinishFrame
  <2>3. CASE Begins(c)
    BY <1>1, <2>3, ThreadTypes, BeginFrame DEF Begins, StartRun, OpenViewer, RetireWorkspace, ReplaceRegistry,
       Shutdown, Goto
  <2> QED BY <1>3, <2>1, <2>2, <2>3
<1>4. CASE Proceeds(c)
  <2>1. CASE Joined(c)
    BY <1>1, <2>1, ThreadTypes DEF Joined, Goto, Job
  <2>2. CASE ~Joined(c)
    BY <1>1, <1>4, <2>2, ThreadTypes DEF Proceeds, Bind, AbandonStart, Terminate, WorkerGone, EnterEnsure,
       ReuseProcess, Invalidate, Send, Goto, threadVars
  <2> QED BY <2>1, <2>2
<1>5. CASE Check(c)
  BY <1>1, <1>5, ThreadTypes DEF Check, Capture, Probe, Declare, Tell, Goto, AfterCheck, GenerationOf
<1> QED BY <1>2, <1>3, <1>4, <1>5, CallerMoves

LEMMA PendingNext ==
    ASSUME BaseInv, RunInv, FaultInv, ListenInv, PendingInv, Calm,
           WorkersHoldUp => HeldInv, NoCrash => FlightInv, [Next]_vars
    PROVE  PendingInv'
<1>1. TypeOK /\ JobInv
  BY DEF BaseInv
<1> SUFFICES ASSUME NEW c \in Callers
             PROVE  /\ Reserving(c)' => activeRun' = job'[c].run /\ pendingRun' = job'[c].run
                    /\ Binding(c)' => activeRun' = NoRun
                    /\ pc'[c] \in {"probe", "declare", "tell"} => \A d \in Callers : ~Reserving(d)'
  BY DEF PendingInv
<1>2. ASSUME Reserving(c)' PROVE activeRun' = job'[c].run /\ pendingRun' = job'[c].run
  <2>1. CASE Bind(c)
    BY <2>1 DEF Bind
  <2>2. CASE ~Bind(c)
    <3>1. Reserving(c) /\ job'[c].run = job[c].run /\ ~Drops(c)
      BY <1>2, <2>2, ReservedBefore
    <3> QED BY <3>1, ReservationKept DEF PendingInv
  <2> QED BY <2>1, <2>2
<1>3. ASSUME Binding(c)' PROVE activeRun' = NoRun
  <2>1. ASSUME NEW r \in Runs, NEW k \in Contracts, StartRun(c, r, k) PROVE activeRun' = NoRun
    BY <2>1 DEF StartRun, Admits, runVars
  <2>2. CASE Binding(c) /\ ~Bind(c)
    <3>1. ASSUME NEW d \in Callers, Bind(d) PROVE FALSE
      <4>1. pc[d] = "bind" /\ pc[c] \in {"bind", "stopping", "joining"}
        BY <2>2, <3>1 DEF Bind, Binding
      <4> QED BY <2>2, <3>1, <4>1, OneLocks
    <3>2. activeRun = NoRun
      BY <2>2 DEF PendingInv
    <3> QED BY <1>1, <3>1, <3>2, ActiveMoves DEF ClearRun
  <2> QED BY <1>3, <2>1, <2>2, BindingBefore
<1>4. ASSUME pc'[c] \in {"probe", "declare", "tell"}, NEW d \in Callers, Reserving(d)' PROVE FALSE
  <2>1. pc[c] \in {"probe", "declare", "tell", "ensuring"}
    BY <1>1, <1>4, CheckingBefore
  <2>2. ~Bind(d)
    BY <2>1, OneLocks DEF Bind
  <2>3. Reserving(d)
    BY <1>4, <2>2, ReservedBefore
  <2>4. activeRun # NoRun /\ pendingRun = activeRun
    BY <2>3, ReservedWaits DEF PendingInv
  <2> QED BY <1>1, <1>4, <2>3, <2>4, CheckingBefore DEF PendingInv
<1> QED BY <1>2, <1>3, <1>4

---------------------------------------------------------------------------
(* How a worker is stopped.                                                *)

LEMMA ProcessMoves ==
    ASSUME TypeOK, [Next]_vars
    PROVE  \/ process' = process
           \/ \E c \in Callers : Joined(c) /\ process' = 0
           \/ \E c \in Callers : Spawn(c)
<1>1. ASSUME NEW c \in Callers, Proceeds(c) PROVE process' = process \/ (Joined(c) /\ process' = 0)
  BY <1>1 DEF Proceeds, Bind, AbandonStart, Terminate, WorkerGone, Joined, EnterEnsure,
     ReuseProcess, Invalidate, Send, genVars
<1> QED BY Steps, <1>1, BeginFrame, FinishFrame, CheckFrame, ListenerFrame, WorkerFrame
        DEF genVars, Refuses, RefuseStart, vars

LEMMA StoppingBefore ==
    ASSUME TypeOK, JobInv, [Next]_vars, NEW c \in Callers, pc'[c] = "stopping"
    PROVE  \/ pc[c] = "stopping" /\ job'[c] = job[c]
           \/ pc[c] = "idle" /\ acceptedGen' = Retired
<1>1. c \in Threads
  BY ThreadTypes
<1>2. CASE Rests(c)
  BY <1>2 DEF Rests
<1>3. CASE Begins(c)
  BY <1>1, <1>3, ThreadTypes DEF Begins, StartRun, OpenViewer, RetireWorkspace, ReplaceRegistry, Shutdown,
     IsCall, Goto
<1>4. CASE Finishes(c)
  BY <1>4, FinishFrame
<1>5. CASE Proceeds(c)
  <2>1. CASE Joined(c)
    BY <1>1, <2>1, ThreadTypes DEF Joined, Goto, Job
  <2>2. CASE ~Joined(c)
    BY <1>1, <1>5, <2>2, ThreadTypes DEF Proceeds, Bind, AbandonStart, Terminate, WorkerGone, EnterEnsure,
       ReuseProcess, Invalidate, Send, Goto, threadVars
  <2> QED BY <2>1, <2>2
<1>6. CASE Spawn(c)
  BY <1>6, Token
<1>7. CASE Check(c)
  BY <1>1, <1>7, ThreadTypes DEF Check, Capture, Probe, Declare, Tell, Goto, AfterCheck
<1> QED BY <1>2, <1>3, <1>4, <1>5, <1>6, <1>7, CallerMoves

LEMMA JoiningBefore ==
    ASSUME TypeOK, JobInv, [Next]_vars, NEW c \in Callers, pc'[c] = "joining"
    PROVE  \/ pc[c] = "joining" /\ job'[c] = job[c]
           \/ WorkerGone(c) \/ Invalidate(c)
<1>1. c \in Threads
  BY ThreadTypes
<1>2. CASE Rests(c)
  BY <1>2 DEF Rests
<1>3. CASE Begins(c)
  BY <1>1, <1>3, ThreadTypes DEF Begins, StartRun, OpenViewer, RetireWorkspace, ReplaceRegistry, Shutdown,
     IsCall, Goto
<1>4. CASE Finishes(c)
  BY <1>4, FinishFrame
<1>5. CASE Proceeds(c) /\ ~WorkerGone(c) /\ ~Invalidate(c)
  <2>1. CASE Joined(c)
    BY <1>1, <2>1, ThreadTypes DEF Joined, Goto, Job
  <2>2. CASE ~Joined(c)
    BY <1>1, <1>5, <2>2, ThreadTypes DEF Proceeds, Bind, AbandonStart, Terminate, EnterEnsure,
       ReuseProcess, Send, Goto, threadVars
  <2> QED BY <2>1, <2>2
<1>6. CASE Spawn(c)
  BY <1>6, Token
<1>7. CASE Check(c)
  BY <1>1, <1>7, ThreadTypes DEF Check, Capture, Probe, Declare, Tell, Goto, AfterCheck
<1> QED BY <1>2, <1>3, <1>4, <1>5, <1>6, <1>7, CallerMoves

(* A worker is asked to stop by a call that waits for it, and is retired.  *)
OldStops(g) == OldOf(commands[g], commands'[g], {"shutdown"})
LEMMA StopsPosted ==
    ASSUME TypeOK, StageInv, [Next]_vars, NEW g \in Generations
    PROVE  \/ OldStops(g)
           \/ \E c \in Callers : pc[c] = "idle" /\ pc'[c] = "stopping" /\ acceptedGen' = Retired
<1>1. commands \in [Generations -> Seq(Command)]
  BY DEF TypeOK
<1>2. ASSUME commands'[g] \in {commands[g], <<>>} PROVE OldStops(g)
  BY <1>1, <1>2, KeptSame DEF OldStops
<1>3. ASSUME NEW x, NEW m \in Command, m.kind # "shutdown", commands' = Post(commands, x, m)
      PROVE  OldStops(g)
  BY <1>1, <1>3, KeptPost DEF OldStops
<1>4. ASSUME NEW h \in Generations, commands[h] # <<>>, commands' = [commands EXCEPT ![h] = Tail(@)]
      PROVE  OldStops(g)
  BY <1>1, <1>4, KeptTail DEF OldStops
<1>5. ASSUME NEW c \in Callers, Begins(c)
      PROVE  OldStops(g) \/ (pc[c] = "idle" /\ pc'[c] = "stopping" /\ acceptedGen' = Retired)
  <2>1. c \in Threads /\ pc[c] = "idle"
    BY <1>5, ThreadTypes, BeginFrame
  <2>2. \/ commands' = commands
        \/ pc' = [pc EXCEPT ![c] = "stopping"] /\ acceptedGen' = Retired
        \/ commands' = Post(commands, process, [kind |-> "retire", of |-> c])
    BY <1>5 DEF Begins, StartRun, OpenViewer, RetireWorkspace, ReplaceRegistry, Shutdown, Goto, workerVars
  <2>3. [kind |-> "retire", of |-> c] \in Command /\ [kind |-> "retire", of |-> c].kind # "shutdown"
    BY OtherKinds
  <2> QED BY <1>2, <1>3, <2>1, <2>2, <2>3, ThreadTypes
<1>6. ASSUME NEW c \in Callers, Proceeds(c) PROVE OldStops(g)
  <2>1. CASE Send(c)
    <3> DEFINE m == [kind |-> "start", of |-> job[c].run, contract |-> job[c].contract]
    <3>1. commands' = Post(commands, process, m) /\ m.kind # "shutdown"
      BY <2>1 DEF Send
    <3>2. CASE process = g
      <4>1. Kept(0, commands[g], commands'[g], {"shutdown"})
        BY <1>1, <3>1, <3>2 DEF Kept, Post
      <4> QED BY <4>1 DEF OldStops, OldOf
    <3>3. CASE process # g
      BY <1>1, <1>2, <3>1, <3>3, PostElsewhere
    <3> QED BY <3>2, <3>3
  <2>2. CASE ~Send(c)
    BY <1>2, <1>6, <2>2 DEF Proceeds, Bind, AbandonStart, Terminate, WorkerGone, Joined, EnterEnsure,
       ReuseProcess, Invalidate, workerVars
  <2> QED BY <2>1, <2>2
<1>7. ASSUME NEW h \in Generations, TakeCommand(h) PROVE OldStops(g)
  BY <1>4, <1>7, TakesCommand
<1>8. ASSUME NEW h \in Generations, Works(h), ~TakeCommand(h) PROVE OldStops(g)
  <2>1. commands' = commands
    BY <1>8, RunEffects DEF Works, WorkerStep, Die
  <2> QED BY <1>2, <2>1
<1>9. ASSUME UNCHANGED commands PROVE OldStops(g)
  BY <1>2, <1>9
<1> QED BY Steps, <1>5, <1>6, <1>7, <1>8, <1>9, FinishFrame, CheckFrame, ListenerFrame
        DEF Spawn, Refuses, RefuseStart, workerVars, vars

(* A worker ends only when told to, while workers hold up.                 *)
LEMMA HeldLife ==
    ASSUME BaseInv, FaultInv, WorkersHoldUp, [Next]_vars, NEW g \in Generations, life[g] = "alive"
    PROVE  \/ life'[g] = "alive"
           \/ \E c \in Callers : pc[c] = "stopping"
           \/ acceptedGen' = Retired
           \/ \E i \in Posted(g) : commands[g][i].kind = "shutdown"
<1>1. TypeOK /\ life \in [Generations -> {"none", "alive", "leaving", "dying", "dead"}]
  BY DEF BaseInv, TypeOK
<1>2. ASSUME NEW c \in Callers, Proceeds(c) PROVE life'[g] = "alive" \/ pc[c] = "stopping"
  BY <1>2 DEF Proceeds, Bind, AbandonStart, Terminate, WorkerGone, Joined, EnterEnsure,
     ReuseProcess, Invalidate, Send, workerVars
<1>3. ASSUME NEW c \in Callers, Spawn(c) PROVE life'[g] = "alive"
  BY <1>1, <1>3 DEF Spawn
<1>4. ASSUME NEW c \in Callers, Finishes(c) PROVE life' = life
  BY <1>4 DEF Finishes, WontDie, JoinTimesOut, SpawnFails, ViewerCommand, MarkDispatched,
     RetireReturns, Unpin, ShutDown, workerVars, WorkersHoldUp
<1>5. ASSUME NEW h \in Generations, ListenerStep(h) PROVE life'[g] = "alive" \/ acceptedGen' = Retired
  <2>1. CASE Kill(h)
    BY <2>1 DEF Kill
  <2>2. CASE AbortStop(h)
    BY <2>2 DEF AbortStop, FaultInv, WorkersHoldUp
  <2>3. CASE ~Kill(h) /\ ~AbortStop(h)
    BY <1>5, <2>3 DEF ListenerStep, Killed, KillFails, Take, Quit, Record, Recheck, Publish,
       ClearAfter, Abort, AbortTell, workerVars, WorkersHoldUp
  <2> QED BY <2>1, <2>2, <2>3
<1>6. ASSUME NEW h \in Generations, TakeCommand(h)
      PROVE  life'[g] = "alive" \/ \E i \in Posted(g) : commands[g][i].kind = "shutdown"
  <2>1. commands[h] # <<>> /\ (UNCHANGED life
           \/ (Head(commands[h]).kind = "shutdown" /\ life' = [life EXCEPT ![h] = "leaving"]))
    BY <1>1, <1>6, CommandEffects, TakesCommand
  <2>2. CASE h = g /\ Head(commands[h]).kind = "shutdown"
    <3>1. commands \in [Generations -> Seq(Command)]
      BY <1>1 DEF TypeOK
    <3>2. 1 \in Posted(g) /\ Head(commands[g]) = commands[g][1]
      BY <2>1, <2>2, <3>1, TailElements DEF Posted
    <3> QED BY <2>2, <3>2
  <2> QED BY <1>1, <2>1, <2>2
<1>7. ASSUME NEW h \in Generations, Works(h), ~TakeCommand(h) PROVE life'[g] = "alive"
  <2>1. CASE Die(h)
    BY <1>1, <2>1 DEF Die, WorkersHoldUp
  <2>2. CASE ~Die(h)
    BY <1>7, <2>2 DEF Works, WorkerStep, StartNode, SettleNode, EndRun, Escape, WorkersHoldUp
  <2> QED BY <2>1, <2>2
<1> QED BY Steps, <1>1, <1>2, <1>3, <1>4, <1>5, <1>6, <1>7, BeginFrame, CheckFrame
        DEF Refuses, RefuseStart, workerVars, vars

(* Only a join that timed out accepts a generation again.                  *)
LEMMA HeldAccepted ==
    ASSUME TypeOK, WorkersHoldUp, [Next]_vars
    PROVE  \/ acceptedGen' \in {acceptedGen, Retired}
           \/ \E c \in Callers : Spawn(c) \/ JoinTimesOut(c)
<1>1. ASSUME NEW c \in Callers, Begins(c) PROVE acceptedGen' \in {acceptedGen, Retired}
  BY <1>1 DEF Begins, StartRun, OpenViewer, RetireWorkspace, ReplaceRegistry, Shutdown, genVars
<1>2. ASSUME NEW c \in Callers, Proceeds(c) PROVE acceptedGen' \in {acceptedGen, Retired}
  BY <1>2 DEF Proceeds, Bind, AbandonStart, Terminate, WorkerGone, Joined, EnterEnsure,
     ReuseProcess, Invalidate, Send, genVars
<1>3. ASSUME NEW c \in Callers, Finishes(c), ~JoinTimesOut(c) PROVE acceptedGen' = acceptedGen
  BY <1>3 DEF Finishes, WontDie, SpawnFails, ViewerCommand, MarkDispatched,
     RetireReturns, Unpin, ShutDown, genVars, WorkersHoldUp
<1>4. ASSUME NEW t \in Threads, Check(t) PROVE acceptedGen' \in {acceptedGen, Retired}
  BY <1>4 DEF Check, Capture, Probe, Declare, Tell, genVars
<1>5. ASSUME NEW g \in Generations, ListenerStep(g) PROVE acceptedGen' \in {acceptedGen, Retired}
  BY <1>5 DEF ListenerStep, Kill, Killed, KillFails, Take, Quit, Record, Recheck, Publish,
     ClearAfter, Abort, AbortStop, AbortTell, genVars, WorkersHoldUp
<1> QED BY Steps, <1>1, <1>2, <1>3, <1>4, <1>5, WorkerFrame
        DEF genVars, Refuses, RefuseStart, vars

(* What a worker that ended left to its listener stays.                    *)
LEMMA ClosedNext ==
    ASSUME BaseInv, [Next]_vars, NEW g \in Generations, Closed(g), process = g, process' = g
    PROVE  Closed(g)'
<1>1. TypeOK /\ StageInv /\ events \in [Generations -> Seq(Event)] /\ g # 0
  BY DEF BaseInv, TypeOK, Generations
<1>2. ASSUME NEW c \in Callers, Spawn(c) PROVE FALSE
  BY <1>1, <1>2 DEF Spawn, BaseInv, DeadInv
<1>3. ASSUME NEW c \in Callers, Joined(c) PROVE FALSE
  BY <1>1, <1>3 DEF Joined
<1>4. CASE pc[g] = "ended"
  <2>1. ~Check(g) /\ ~ListenerStep(g)
    BY <1>1, <1>4, CheckFrame, ListenerFrame, ThreadTypes
  <2> QED BY <1>1, <1>2, <1>4, <2>1, ListenerMoves DEF Rests, Closed
<1>5. CASE \E i \in Queued(g) : events[g][i] = Sentinel
  <2>1. PICK i \in Queued(g) : events[g][i] = Sentinel
    BY <1>5
  <2>2. CASE Take(g)
    <3>1. /\ events[g] # <<>> /\ events' = [events EXCEPT ![g] = Tail(@)]
          /\ Head(events[g]) = Sentinel => pc'[g] = "ended"
      BY <1>1, <2>2, ThreadTypes DEF Take, Goto
    <3> DEFINE t == [events EXCEPT ![g] = Tail(@)]
    <3>2. /\ Len(events[g]) \in Nat /\ Head(events[g]) = events[g][1]
          /\ Len(t[g]) = Len(events[g]) - 1
          /\ \A j \in 1 .. Len(t[g]) : t[g][j] = events[g][j + 1]
      BY <1>1, <3>1, TailElements
    <3> HIDE DEF t
    <3>3. i # 1 => i - 1 \in 1 .. Len(t[g]) /\ t[g][i - 1] = Sentinel
      BY <2>1, <3>2 DEF Queued
    <3>4. i # 1 => i - 1 \in Queued(g)' /\ events'[g][i - 1] = Sentinel
      BY <3>1, <3>3 DEF t, Queued
    <3> QED BY <2>1, <3>1, <3>2, <3>4 DEF Closed
  <2>3. CASE ~Take(g)
    BY <1>1, <1>3, <2>1, <2>3, EventsGrow DEF Closed
  <2> QED BY <2>2, <2>3
<1> QED BY <1>4, <1>5 DEF Closed

LEMMA SentinelCloses ==
    ASSUME TypeOK, NEW g \in Generations, process = g, events' = WithSentinel
    PROVE  Closed(g)'
<1>1. events \in [Generations -> Seq(Event)] /\ Sentinel \in Event /\ g # 0
  BY SpecialCommands DEF TypeOK, Generations
<1> DEFINE p == Post(events, g, Sentinel)
<1>2. /\ Len(events[g]) \in Nat /\ Len(p[g]) = Len(events[g]) + 1
      /\ p[g][Len(events[g]) + 1] = Sentinel
  BY <1>1, PostElements
<1>3. events' = p
  BY <1>1 DEF WithSentinel
<1> HIDE DEF p
<1>4. \E i \in 1 .. Len(p[g]) : p[g][i] = Sentinel
  BY <1>2
<1> QED BY <1>3, <1>4 DEF Closed, Queued

LEMMA HeldNext ==
    ASSUME BaseInv, FaultInv, WorkersHoldUp, HeldInv, [Next]_vars
    PROVE  HeldInv'
<1>1. /\ TypeOK /\ JobInv /\ StageInv /\ OneWorker
      /\ commands \in [Generations -> Seq(Command)] /\ events \in [Generations -> Seq(Event)]
  BY DEF BaseInv, TypeOK, DeadInv
<1>2. ASSUME NEW c \in Callers, NEW d \in Callers, Spawn(d) \/ Joined(d) \/ JoinTimesOut(d),
             pc[c] \in {"stopping", "joining"}
      PROVE  c = d /\ pc'[c] \notin {"stopping", "joining"}
  <2>1. pc[d] \in {"spawn", "joining"}
    BY <1>2 DEF Spawn, Joined, JoinTimesOut
  <2>2. c = d
    BY <1>2, <2>1, OneLocks
  <2>3. CASE Spawn(d)
    BY <1>1, <2>2, <2>3, Token
  <2>4. CASE Joined(d)
    BY <1>1, <2>2, <2>4, ThreadTypes DEF Joined, Goto, Job
  <2>5. CASE JoinTimesOut(d)
    BY <1>1, <2>2, <2>5, ThreadTypes DEF JoinTimesOut, Finish, Goto
  <2> QED BY <1>2, <2>2, <2>3, <2>4, <2>5
<1>3. \A c \in Callers : pc'[c] \in {"stopping", "joining"} => acceptedGen' = Retired
  <2> SUFFICES ASSUME NEW c \in Callers, pc'[c] \in {"stopping", "joining"}
               PROVE  acceptedGen' = Retired
    OBVIOUS
  <2>1. CASE pc[c] \in {"stopping", "joining"}
    <3>1. acceptedGen = Retired
      BY <2>1 DEF HeldInv
    <3> QED BY <1>1, <1>2, <2>1, <3>1, HeldAccepted
  <2>2. CASE Invalidate(c)
    BY <2>2 DEF Invalidate
  <2>3. CASE WorkerGone(c)
    BY <2>1, <2>3 DEF WorkerGone
  <2> QED BY <1>1, <2>1, <2>2, <2>3, StoppingBefore, JoiningBefore
<1>4. ASSUME NEW g \in Generations, process' = g, acceptedGen' = g, life'[g] # "alive"
      PROVE  pc'[g] \notin {"probe", "declare"} /\ Closed(g)'
  <2>1. ASSUME NEW c \in Callers, Spawn(c) PROVE FALSE
    <3>1. g = NextToken /\ life' = [life EXCEPT ![NextToken] = "alive"]
      BY <1>4, <2>1 DEF Spawn
    <3> QED BY <1>1, <1>4, <3>1 DEF TypeOK
  <2>2. process = g /\ g # 0
    BY <1>1, <1>4, <2>1, ProcessMoves DEF Generations
  <2>3. ASSUME Closed(g), pc[g] \notin {"probe", "declare"} PROVE pc'[g] \notin {"probe", "declare"}
    <3>1. ~Capture(g)
      <4>1. events[g] = <<>> => ~Closed(g) \/ pc[g] = "ended"
        BY DEF Closed, Queued
      <4> QED BY <1>1, <2>3, <4>1, ThreadTypes DEF Capture
    <3>2. CASE Check(g)
      BY <1>1, <2>3, <3>1, <3>2, ThreadTypes DEF Check, Probe, Declare, Tell, Goto, AfterCheck
    <3>3. CASE ListenerStep(g)
      BY <1>1, <3>3, ThreadTypes DEF ListenerStep, Kill, Killed, KillFails, Take, Quit, Record,
         Recheck, Publish, ClearAfter, Abort, AbortStop, AbortTell, Goto, Report
    <3> QED BY <1>1, <2>1, <2>3, <3>2, <3>3, ListenerMoves DEF Rests
  <2>4. CASE acceptedGen = g
    <3>1. /\ \A c \in Callers : pc[c] # "stopping"
          /\ acceptedGen' # Retired
      BY <1>4, <2>4 DEF HeldInv, Retired, Generations
    <3>2. life[g] # "alive"
      <4>1. ASSUME life[g] = "alive", NEW i \in Posted(g), commands[g][i].kind = "shutdown" PROVE FALSE
        BY <3>1, <4>1 DEF HeldInv, Alive, StopsAsked
      <4> QED BY <1>4, <3>1, <4>1, HeldLife
    <3>3. pc[g] \notin {"probe", "declare"} /\ Closed(g)
      BY <2>2, <2>4, <3>2 DEF HeldInv
    <3> QED BY <1>4, <2>2, <2>3, <3>3, ClosedNext
  <2>5. ASSUME NEW c \in Callers, JoinTimesOut(c)
        PROVE  pc'[g] \notin {"probe", "declare"} /\ Closed(g)'
    <3>1. pc[c] = "joining" /\ pc[g] \in {"kill", "publish", "tell", "fail"}
      BY <2>2, <2>5 DEF JoinTimesOut, Blocked
    <3>2. Closed(g)
      BY <2>2, <3>1 DEF HeldInv
    <3> QED BY <1>4, <2>2, <2>3, <3>1, <3>2, ClosedNext
  <2> QED BY <1>1, <1>4, <2>1, <2>4, <2>5, HeldAccepted DEF Retired, Generations
<1>5. ASSUME NEW g \in Generations, NEW i \in Posted(g)', commands'[g][i].kind = "shutdown", Alive(g)'
      PROVE  \E c \in Callers : pc'[c] = "stopping" /\ process' = g
  <2>1. ASSUME NEW c \in Callers, Spawn(c), g = NextToken PROVE FALSE
    <3>1. commands[g] = <<>> /\ UNCHANGED commands
      BY <1>1, <2>1, TokenIsNew DEF BaseInv, GenInv, Unborn, Spawn
    <3> QED BY <1>5, <3>1 DEF Posted
  <2>2. Alive(g) /\ process = g
    BY <1>1, <1>5, <2>1, NoneRises DEF OneWorker
  <2>3. ASSUME NEW c \in Callers, Spawn(c) \/ Joined(c) PROVE FALSE
    <3>1. process = 0 \/ ~Alive(process)
      BY <2>3 DEF Spawn, Joined, BaseInv, DeadInv
    <3> QED BY <2>2, <3>1 DEF Alive, Generations
  <2>4. process' = g
    BY <1>1, <2>2, <2>3, ProcessMoves
  <2>5. CASE OldStops(g)
    <3>1. \E j \in Posted(g) : commands[g][j].kind = "shutdown"
      BY <1>5, <2>5 DEF OldStops, OldOf, Kept, Posted
    <3>2. PICK c \in Callers : pc[c] = "stopping"
      BY <2>2, <3>1 DEF HeldInv, StopsAsked
    <3>3. pc'[c] = "stopping"
      <4>1. c \in Threads
        BY <1>1, ThreadTypes
      <4>2. CASE Rests(c)
        BY <3>2, <4>2 DEF Rests
      <4>3. CASE Finishes(c)
        BY <3>2, <4>3 DEF Finishes, WontDie, JoinTimesOut, SpawnFails, ViewerCommand,
           MarkDispatched, RetireReturns, Unpin, ShutDown, WorkersHoldUp
      <4>4. CASE Proceeds(c)
        BY <2>2, <3>2, <4>4 DEF Proceeds, Bind, AbandonStart, Terminate, WorkerGone, Joined,
           EnterEnsure, ReuseProcess, Invalidate, Send, Exited, threadVars
      <4>5. ~Begins(c) /\ ~Spawn(c) /\ ~Check(c)
        BY <1>1, <3>2, <4>1, BeginFrame, CheckFrame DEF Spawn
      <4> QED BY <1>1, <4>2, <4>3, <4>4, <4>5, CallerMoves
    <3> QED BY <2>4, <3>3
  <2> QED BY <1>1, <2>4, <2>5, StopsPosted
<1>6. ASSUME NEW c \in Callers, pc'[c] = "joining", NEW g \in Generations, process' = g
      PROVE  Closed(g)'
  <2>1. CASE pc[c] = "joining"
    <3>1. process = g
      BY <1>1, <1>2, <1>6, <2>1, ProcessMoves
    <3> QED BY <1>6, <2>1, <3>1, ClosedNext DEF HeldInv
  <2>2. CASE WorkerGone(c) \/ Invalidate(c)
    BY <1>1, <1>6, <2>2, SentinelCloses DEF WorkerGone, Invalidate, genVars
  <2> QED BY <1>1, <1>6, <2>1, <2>2, JoiningBefore
<1> QED BY <1>3, <1>4, <1>5, <1>6 DEF HeldInv, StopsAsked

---------------------------------------------------------------------------
(* What a worker has to do.                                                *)

Loads(g, r) == serving[g] = r \/ \E i \in Posted(g) : StartAt(g, i, r)

LEMMA StopGoesOn ==
    ASSUME TypeOK, WorkersHoldUp, [Next]_vars, Alive(process), NEW c \in Callers, pc[c] = "stopping"
    PROVE  pc'[c] = "stopping" /\ job'[c] = job[c]
<1>1. c \in Threads
  BY ThreadTypes
<1>2. CASE Rests(c)
  BY <1>2 DEF Rests
<1>3. ~Finishes(c)
  BY DEF Finishes, WontDie, JoinTimesOut, SpawnFails, ViewerCommand, MarkDispatched, RetireReturns,
     Unpin, ShutDown, WorkersHoldUp
<1>4. CASE Proceeds(c)
  BY <1>4 DEF Proceeds, Bind, AbandonStart, Terminate, WorkerGone, Joined, EnterEnsure,
     ReuseProcess, Invalidate, Send, Exited, threadVars
<1>5. ~Begins(c) /\ ~Spawn(c) /\ ~Check(c)
  BY <1>1, BeginFrame, CheckFrame DEF Spawn
<1> QED BY <1>2, <1>3, <1>4, <1>5, CallerMoves

LEMMA LoadSent ==
    ASSUME SentInv, NEW g \in Generations, NEW r \in Runs, Loads(g, r)
    PROVE  r \notin Waiting /\ r # NoRun
BY ClientAssumption DEF SentInv, SentAt, Loads, StartAt

LEMMA DropsReserved ==
    ASSUME BaseInv, NEW c \in Callers, Drops(c)
    PROVE  Reserving(c)
<1>1. job[c].kind = "start"
  BY DEF Drops, BaseInv, JobInv, JobFits
<1> QED BY <1>1 DEF Drops, AbandonStart, JoinTimesOut, SpawnFails, Reserving, Dispatching

LEMMA LoadKept ==
    ASSUME BaseInv, RunInv, FaultInv, ListenInv, PendingInv, WorkersHoldUp, [Next]_vars,
           NEW g \in Generations, Alive(g), NEW r \in Runs, Loads(g, r), r \in Fitting
    PROVE  r \in Fitting'
<1>1. /\ TypeOK /\ JobInv /\ SentInv /\ process = g /\ physicalGen = g /\ g # 0
      /\ acceptedGen \in {Retired, g}
  BY DEF BaseInv, RunInv, DeadInv, OneWorker, GenInv, Generations
<1>2. CASE ShutsDown
  <2>1. PICK c \in Callers : pc[c] = "stopping" /\ job[c].then = "off"
    BY <1>2 DEF ShutsDown
  <2>2. pc'[c] = "stopping" /\ job'[c] = job[c]
    BY <1>1, <2>1, StopGoesOn
  <2> QED BY <2>1, <2>2 DEF Fitting, ShutsDown
<1>3. CASE r = activeRun
  <2>1. r \notin Waiting /\ r # NoRun
    BY <1>1, LoadSent
  <2>2. ~EndTaken(g, r)
    <3>1. Placed(g, r)
      BY DEF RunInv, PlaceInv
    <3> QED BY <3>1 DEF Placed, Loads
  <2>3. ASSUME NEW c \in Callers, Bind(c) PROVE FALSE
    BY <1>3, <2>1, <2>3 DEF Bind, PendingInv, Binding
  <2>4. ASSUME NEW t \in Threads, Clears(t) PROVE ShutsDown'
    <3>1. CASE t \in Callers /\ Drops(t)
      <4>1. activeRun = job[t].run /\ job[t].run \in Waiting
        BY <3>1, DropsReserved, ReservedWaits DEF Drops
      <4> QED BY <1>3, <2>1, <4>1
    <3>2. CASE t \in Callers /\ Shutdown(t)
      BY <1>1, <3>2, ThreadTypes DEF Shutdown, NewJob, Goto, ShutsDown
    <3>3. CASE t \in Callers /\ Declare(t)
      BY <1>1, <3>3 DEF Declare, BaseInv, DeadInv
    <3>4. CASE t \in Generations /\ Declare(t) /\ Watched(GenerationOf(t))
      BY <1>1, <3>4, ThreadTypes DEF Declare, Watched, GenerationOf, ListenInv
    <3>5. CASE t \in Generations /\ Killed(t) /\ process = t
      BY <1>1, <3>5 DEF Killed
    <3>6. CASE t \in Generations /\ Record(t) /\ Current(t) /\ event[t].kind = "ended"
               /\ activeRun \in {NoRun, event[t].of}
      BY <1>1, <1>3, <2>1, <2>2, <3>6 DEF Current, EndTaken, EndKinds, Retired, Generations
    <3>7. CASE t \in Generations /\ ClearAfter(t) /\ acceptedGen = t /\ OwnRun(t)
      BY <1>1, <1>3, <2>1, <2>2, <3>7
         DEF ClearAfter, ListenInv, OwnRun, EndTaken, EndKinds, Retired, Generations
    <3>8. CASE t \in Generations /\ Abort(t)
      BY <3>8 DEF Abort, FaultInv, WorkersHoldUp
    <3> QED BY <2>4, <3>1, <3>2, <3>3, <3>4, <3>5, <3>6, <3>7, <3>8 DEF Clears, Threads
  <2> QED BY <1>1, <1>3, <2>3, <2>4, ActiveMoves DEF Fitting
<1> QED BY <1>2, <1>3 DEF Fitting

LEMMA LoadNext ==
    ASSUME BaseInv, RunInv, FaultInv, ListenInv, PendingInv, WorkersHoldUp, LoadInv, [Next]_vars
    PROVE  LoadInv'
<1>1. /\ TypeOK /\ JobInv /\ StageInv /\ OneWorker /\ SentInv
      /\ commands \in [Generations -> Seq(Command)]
      /\ serving \in [Generations -> Runs \cup {NoRun}]
  BY DEF BaseInv, TypeOK, DeadInv, RunInv
<1> SUFFICES ASSUME NEW g \in Generations, Alive(g)'
             PROVE  LoadAt(g)'
  BY DEF LoadInv
<1>2. CASE \E c \in Callers : Spawn(c) /\ g = NextToken
  <2>1. commands'[g] = <<>> /\ serving'[g] = NoRun
    BY <1>1, <1>2, TokenIsNew DEF BaseInv, GenInv, Unborn, Spawn
  <2> QED BY <2>1 DEF LoadAt, Posted
<1>3. CASE Alive(g)
  <2>1. LoadAt(g) /\ process = g
    BY <1>1, <1>3 DEF LoadInv, OneWorker
  <2>2. /\ \A i \in Posted(g) : i \in Int
        /\ \A i \in Posted(g)' : i \in Int
    BY DEF Posted
  <2>3. /\ \A i \in Posted(g) : commands[g][i].kind = "start" => commands[g][i].of \in Fitting'
        /\ serving[g] # NoRun => serving[g] \in Fitting'
    <3>1. \A r \in Runs : Loads(g, r) /\ r \in Fitting => r \in Fitting'
      BY <1>3, LoadKept
    <3>2. \A r \in Fitting : r \in Runs
      BY DEF Fitting
    <3> QED BY <2>1, <3>1, <3>2 DEF LoadAt, Loads, StartAt
  <2>4. CASE OldStarts(g) /\ serving'[g] \in {serving[g], NoRun}
    <3>1. PICK k \in {0, 1} : \A i \in Posted(g)' : commands'[g][i].kind = "start" =>
              i + k \in Posted(g) /\ commands'[g][i] = commands[g][i + k]
      BY <2>4 DEF OldStarts, OldOf, Kept, Posted
    <3> QED BY <2>1, <2>2, <2>3, <2>4, <3>1 DEF LoadAt
  <2>5. ASSUME NEW c \in Callers, Sends(c, g) PROVE LoadAt(g)'
    <3> DEFINE m == [kind |-> "start", of |-> job[c].run, contract |-> job[c].contract]
    <3>1. /\ commands' = Post(commands, g, m) /\ serving'[g] = serving[g]
          /\ job[c].run \in Runs /\ pc[c] = "ready" /\ activeRun' = activeRun
          /\ job[c].kind = "start"
      BY <2>5 DEF Sends, Send
    <3>2. m \in Command /\ m.of = job[c].run /\ m.kind = "start"
      BY <3>1 DEF Command, BaseInv, JobInv, JobFits
    <3>3. activeRun = job[c].run /\ job[c].run \in Waiting
      BY <3>1, ReservedWaits DEF PendingInv, Reserving, Dispatching
    <3>4. ~ShutsDown
      <4>1. \A d \in Callers : pc[d] = "stopping" => d = c
        BY <3>1, OneLocks
      <4> QED BY <3>1, <4>1 DEF ShutsDown
    <3>5. /\ serving[g] = NoRun
          /\ \A i \in Posted(g) : commands[g][i].kind # "start"
      BY <1>1, <2>1, <3>3, <3>4 DEF LoadAt, Fitting, SentInv, SentAt
    <3>6. job[c].run \in Fitting'
      BY <3>1, <3>3 DEF Fitting
    <3>7. ASSUME NEW i \in Posted(g)'
          PROVE  \/ i = Len(commands[g]) + 1 /\ commands'[g][i] = m
                 \/ i \in Posted(g) /\ commands'[g][i] = commands[g][i]
      <4>1. commands' = Post(commands, g, m)
        BY <3>1
      <4> HIDE DEF m
      <4> QED BY <1>1, <3>2, <3>7, <4>1, PostedMember
    <3> HIDE DEF m
    <3> QED BY <3>1, <3>2, <3>5, <3>6, <3>7 DEF LoadAt
  <2>6. CASE Serving(g)
    <3>1. /\ commands' = [commands EXCEPT ![g] = Tail(@)] /\ commands[g] # <<>>
          /\ Head(commands[g]).kind = "start" /\ serving'[g] = Head(commands[g]).of
      BY <2>6 DEF Serving
    <3>2. /\ 1 \in Posted(g) /\ Head(commands[g]) = commands[g][1]
          /\ \A i \in Posted(g)' : /\ i + 1 \in Posted(g) /\ i + 1 # 1
                                    /\ commands'[g][i] = commands[g][i + 1]
      BY <1>1, <3>1, TailElements DEF Posted
    <3>3. \A i \in Posted(g)' : commands'[g][i].kind # "start"
      BY <2>1, <3>1, <3>2 DEF LoadAt
    <3> QED BY <2>3, <3>1, <3>2, <3>3 DEF LoadAt
  <2>7. Quiet(g) \/ Taking(g) => OldStarts(g) /\ serving'[g] = serving[g]
    BY <1>1, QuietCommands DEF Quiet, Taking
  <2>8. \A e \in RunKinds : Telling(g, e) => OldStarts(g) /\ serving'[g] \in {serving[g], NoRun}
    BY DEF Telling
  <2> QED BY <1>1, <2>4, <2>5, <2>6, <2>7, <2>8, Changes
<1> QED BY <1>1, <1>2, <1>3, NoneRises

---------------------------------------------------------------------------
(* Which generation is accepted.                                           *)

LEMMA CatalogMoves ==
    ASSUME TypeOK, [Next]_vars
    PROVE  \/ UNCHANGED <<catalogGen, physicalGen>>
           \/ \E c \in Callers : Bind(c) \/ Spawn(c)
<1>1. ASSUME NEW c \in Callers, Proceeds(c), ~Bind(c) PROVE UNCHANGED <<catalogGen, physicalGen>>
  BY <1>1 DEF Proceeds, AbandonStart, Terminate, WorkerGone, Joined, EnterEnsure,
     ReuseProcess, Invalidate, Send, genVars
<1> QED BY Steps, <1>1, BeginFrame, FinishFrame, CheckFrame, ListenerFrame, WorkerFrame
        DEF genVars, Refuses, RefuseStart, vars

LEMMA BindBefore ==
    ASSUME TypeOK, JobInv, [Next]_vars, NEW c \in Callers, pc'[c] \in {"stopping", "joining", "bind"}
    PROVE  \/ pc[c] \in {"stopping", "joining"} /\ job'[c] = job[c]
           \/ pc[c] = "bind" /\ job'[c] = job[c] /\ ~Bind(c)
           \/ acceptedGen' = Retired
           \/ \E r \in Runs, k \in Contracts : StartRun(c, r, k)
<1>1. c \in Threads
  BY ThreadTypes
<1>2. pc'[c] \in {"stopping", "joining"} =>
        \/ pc[c] \in {"stopping", "joining"} /\ job'[c] = job[c]
        \/ acceptedGen' = Retired
  BY <1>1, StoppingBefore, JoiningBefore DEF WorkerGone, Invalidate
<1>3. CASE pc'[c] = "bind"
  <2>1. ~Bind(c)
    BY <1>1, <1>3, ThreadTypes DEF Bind, Goto
  <2>2. CASE Rests(c)
    BY <1>3, <2>1, <2>2 DEF Rests
  <2>3. CASE Begins(c)
    BY <1>1, <1>3, <2>3, ThreadTypes, BeginFrame DEF Begins, OpenViewer, RetireWorkspace, ReplaceRegistry,
       Shutdown, Goto
  <2>4. CASE Proceeds(c)
    BY <1>1, <1>3, <2>1, <2>4, ThreadTypes DEF Proceeds, AbandonStart, Terminate, WorkerGone, Joined,
       EnterEnsure, ReuseProcess, Invalidate, Send, Goto, threadVars
  <2>5. ~Finishes(c)
    BY <1>3, FinishFrame
  <2>6. ~Spawn(c)
    BY <1>3, Token
  <2>7. ~Check(c)
    BY <1>1, <1>3, ThreadTypes DEF Check, Capture, Probe, Declare, Tell, Goto, AfterCheck
  <2> QED BY <2>2, <2>3, <2>4, <2>5, <2>6, <2>7, CallerMoves
<1> QED BY <1>2, <1>3

LEMMA AcceptNext ==
    ASSUME BaseInv, ~revived', AcceptInv, [Next]_vars
    PROVE  AcceptInv'
<1>1. /\ TypeOK /\ JobInv /\ StageInv /\ GenInv
      /\ physicalGen \in 0 .. MaxGeneration
      /\ \A g \in Generations : g \in Threads /\ g # 0 /\ g # Retired
  BY ThreadTypes DEF BaseInv, TypeOK, Generations, Retired
<1>2. acceptedGen' \in {acceptedGen, Retired} \/ \E c \in Callers : Spawn(c)
  BY <1>1, AcceptedMoves
<1>3. ASSUME NEW c \in Callers, Spawn(c)
      PROVE  acceptedGen' = NextToken /\ catalogGen' = NextToken /\ Unborn(NextToken)
             /\ NextToken \in Generations
  BY <1>1, <1>3, TokenIsNew DEF GenInv
<1>4. \A g \in Generations : acceptedGen = g => physicalGen = g /\ catalogGen = g
  BY <1>1 DEF AcceptInv, GenInv
<1>5. ASSUME NEW g \in Generations, acceptedGen' = g PROVE catalogGen' = g
  <2>1. ASSUME NEW c \in Callers, Bind(c), acceptedGen = g PROVE catalogGen' = g
    BY <1>1, <1>4, <2>1 DEF Bind, AcceptInv
  <2> QED BY <1>1, <1>2, <1>3, <1>4, <1>5, <2>1, CatalogMoves
<1>6. ASSUME NEW g \in Generations, acceptedGen' = g, NEW i \in Posted(g)'
      PROVE  commands'[g][i].kind # "shutdown"
  <2>1. OldStops(g)
    <3>1. acceptedGen' # Retired
      BY <1>1, <1>6
    <3> QED BY <1>1, <3>1, StopsPosted
  <2>2. acceptedGen = g
    <3>1. ASSUME NEW c \in Callers, Spawn(c) PROVE FALSE
      <4>1. commands'[g] = <<>>
        BY <1>3, <1>6, <3>1 DEF Spawn, Unborn
      <4> QED BY <1>6, <4>1 DEF Posted
    <3> QED BY <1>1, <1>2, <1>6, <3>1
  <2> QED BY <2>1, <2>2 DEF AcceptInv, OldStops, OldOf, Kept, Posted
<1>7. ASSUME NEW g \in Generations, pc'[g] \in {"killing", "stop", "fail"} PROVE acceptedGen' # g
  <2>1. CASE pc[g] \in {"killing", "stop", "fail"}
    <3>1. acceptedGen # g
      BY <2>1 DEF AcceptInv
    <3>2. ASSUME NEW c \in Callers, Spawn(c) PROVE acceptedGen' # g
      BY <1>3, <2>1, <3>2 DEF Unborn
    <3> QED BY <1>1, <1>2, <3>1, <3>2
  <2>2. ASSUME NEW c \in Callers, Spawn(c), g = NextToken PROVE FALSE
    BY <1>1, <1>7, <2>2, Token
  <2>3. CASE Check(g)
    BY <1>1, <1>7, <2>3, ThreadTypes DEF Check, Capture, Probe, Declare, Tell, Goto, AfterCheck
  <2>4. CASE Kill(g) \/ Abort(g)
    BY <1>1, <1>7, <2>4, ThreadTypes DEF Kill, Abort, Goto
  <2>5. CASE ListenerStep(g) /\ ~Kill(g) /\ ~Abort(g)
    <3>1. pc[g] \in {"killing", "stop", "fail"}
      BY <1>1, <1>7, <2>5, ThreadTypes DEF ListenerStep, Killed, KillFails, Take, Quit, Record,
         Recheck, Publish, ClearAfter, AbortStop, AbortTell, Goto, Report
    <3> QED BY <2>1, <3>1
  <2> QED BY <1>1, <1>7, <2>1, <2>2, <2>3, <2>4, <2>5, ListenerMoves DEF Rests
<1>8. ASSUME NEW c \in Callers, pc[c] \notin {"idle", "reserved", "spawn"}, pc'[c] # "ready",
             NEW d \in Callers, Spawn(d)
      PROVE  FALSE
  <2>1. c = d /\ pc[d] = "spawn"
    BY <1>8, OneLocks DEF Spawn
  <2> QED BY <1>8, <2>1
<1>9. ASSUME NEW c \in Callers, pc'[c] \in {"stopping", "joining"} PROVE acceptedGen' = Retired
  <2>1. CASE pc[c] \in {"stopping", "joining"}
    <3>1. acceptedGen = Retired
      BY <2>1 DEF AcceptInv
    <3> QED BY <1>2, <1>8, <1>9, <2>1, <3>1
  <2>2. CASE WorkerGone(c) \/ Invalidate(c)
    BY <2>1, <2>2 DEF WorkerGone, Invalidate
  <2> QED BY <1>1, <1>9, <2>1, <2>2, StoppingBefore, JoiningBefore
<1>10. ASSUME NEW c \in Callers, pc'[c] \in {"stopping", "joining", "bind"}, job'[c].fresh
       PROVE  acceptedGen' = Retired \/ physicalGen' = 0 \/ catalogGen' # physicalGen'
  <2>1. CASE (pc[c] \in {"stopping", "joining"} \/ (pc[c] = "bind" /\ ~Bind(c))) /\ job'[c] = job[c]
    <3>1. acceptedGen = Retired \/ physicalGen = 0 \/ catalogGen # physicalGen
      BY <1>10, <2>1 DEF AcceptInv
    <3>2. acceptedGen' \in {acceptedGen, Retired} /\ ~\E d \in Callers : Spawn(d)
      BY <1>2, <1>8, <1>10, <2>1
    <3>3. ASSUME NEW d \in Callers, Bind(d) PROVE FALSE
      <4>1. c = d
        BY <2>1, <3>3, OneLocks DEF Bind
      <4> QED BY <2>1, <3>3, <4>1 DEF Bind
    <3>4. UNCHANGED <<catalogGen, physicalGen>>
      BY <1>1, <3>2, <3>3, CatalogMoves
    <3> QED BY <3>1, <3>2, <3>4
  <2>2. ASSUME NEW r \in Runs, NEW k \in Contracts, StartRun(c, r, k)
        PROVE  acceptedGen' = Retired \/ physicalGen' = 0 \/ catalogGen' # physicalGen'
    <3>1. CASE ContractChanged(k)
      BY <2>2, <3>1 DEF StartRun
    <3>2. CASE ~ContractChanged(k)
      <4> DEFINE f == ContractChanged(k) \/ (pinned = NoContract /\ ~ReusesUnpinned)
      <4>1. /\ \E x \in BOOLEAN :
                 job' = [job EXCEPT ![c] = [kind |-> "start", run |-> r, contract |-> k,
                                            fresh |-> f, dead |-> x, then |-> "bind"]]
            /\ UNCHANGED <<acceptedGen, physicalGen, catalogGen>>
        BY <2>2, <3>2 DEF StartRun, NewJob
      <4>2. job'[c].fresh = f
        <5> HIDE DEF f
        <5> QED BY <1>1, <4>1, ThreadTypes
      <4>3. ~ReusesUnpinned
        BY <1>10, <3>2, <4>2
      <4> QED BY <1>1, <4>1, <4>3 DEF ReusesUnpinned, GenInv
    <3> QED BY <3>1, <3>2
  <2> QED BY <1>1, <1>10, <2>1, <2>2, BindBefore
<1> QED BY <1>5, <1>6, <1>7, <1>9, <1>10 DEF AcceptInv

---------------------------------------------------------------------------
(* What is in flight at the accepted worker.                               *)

LEMMA RunMessages ==
    ASSUME TypeOK, NEW g \in Generations
    PROVE  /\ \A i \in Posted(g) : commands[g][i].kind = "start" => commands[g][i].of \in Runs
           /\ \A i \in Queued(g) : events[g][i].kind \in RunKinds => events[g][i].of \in Runs
           /\ event[g].kind \in RunKinds => event[g].of \in Runs
           /\ \A i \in Posted(g) : i \in Int /\ i >= 1
           /\ \A i \in Queued(g) : i \in Int /\ i >= 1
<1>1. /\ commands[g] \in Seq(Command) /\ events[g] \in Seq(Event) /\ event[g] \in Event
  BY DEF TypeOK
<1>2. \A m \in Event : m.kind \in RunKinds => m.of \in Runs
  BY DEF Event, RunKinds, EndKinds, Sentinel
<1>3. \A i \in Posted(g) : commands[g][i] \in Command
  BY <1>1, ElementOfSeq DEF Posted
<1>4. \A i \in Queued(g) : events[g][i] \in Event
  BY <1>1, ElementOfSeq DEF Queued
<1>5. /\ \A i \in Posted(g) : i \in Int /\ i >= 1
      /\ \A i \in Queued(g) : i \in Int /\ i >= 1
  BY DEF Posted, Queued
<1> QED BY <1>1, <1>2, <1>3, <1>4, <1>5, CommandKinds

LEMMA RunMessagesNext ==
    ASSUME TypeOK', NEW g \in Generations
    PROVE  event'[g].kind \in RunKinds => event'[g].of \in Runs
<1>1. event'[g] \in Event
  BY DEF TypeOK
<1> QED BY <1>1 DEF Event, RunKinds, EndKinds, Sentinel

Still(g) == Idle(g) /\ Silent(g, 0) /\ ~Handles(g)

LEMMA NothingInFlight ==
    ASSUME TypeOK, NEW g \in Generations, RunsAt(g), SentAt(g), activeRun = NoRun \/ activeRun \in Waiting
    PROVE  Still(g)
<1>1. NoRun \notin Runs
  BY ClientAssumption
<1>2. serving[g] = NoRun
  BY DEF RunsAt, SentAt
<1>3. \A i \in Posted(g) : commands[g][i].kind # "start"
  BY <1>1, RunMessages DEF RunsAt, SentAt
<1>4. \A i \in Queued(g) : events[g][i].kind \notin RunKinds
  BY <1>1, RunMessages DEF RunsAt, SentAt
<1>5. ~Handles(g)
  BY <1>1, RunMessages DEF RunsAt, SentAt, Handles
<1> QED BY <1>2, <1>3, <1>4, <1>5 DEF Still, Idle, Silent

(* A worker without anything of a run is in order, whatever run is active. *)
LEMMA StillInOrder ==
    ASSUME TypeOK, TypeOK', NEW g \in Generations, Still(g),
           commands'[g] = commands[g], events'[g] = events[g], serving'[g] = serving[g],
           ~Handles(g)', Reports(g)' => activeRun' # event'[g].of
    PROVE  RunsAt(g)'
<1>1. Posted(g)' = Posted(g) /\ Queued(g)' = Queued(g)
  BY DEF Posted, Queued
<1>2. \A i \in Queued(g) : events[g][i].kind \notin RunKinds
  BY RunMessages DEF Still, Silent
<1> QED BY <1>1, <1>2 DEF Still, Idle, RunsAt

LEMMA HandlesBefore ==
    ASSUME BaseInv, [Next]_vars, NEW g \in Generations, ~Take(g)
    PROVE  /\ Handles(g)' => Handles(g)
           /\ Reports(g)' => Reports(g) \/ (Record(g) /\ event[g].kind = "ended")
           /\ pc[g] = "abort" => pc'[g] = "abort" \/ (Abort(g) /\ event'[g] = event[g])
           /\ Handles(g)' \/ Reports(g)' => event'[g] = event[g]
<1>1. g \in Threads /\ TypeOK /\ GenInv
  BY ThreadTypes DEF BaseInv
<1>2. CASE Rests(g)
  BY <1>2 DEF Rests, Handles, Reports
<1>3. ASSUME NEW c \in Callers, Spawn(c), g = NextToken
      PROVE  pc'[g] = "poll" /\ pc[c] = "spawn" /\ UNCHANGED event
  BY <1>1, <1>3, Token DEF Spawn
<1>4. CASE Check(g)
  BY <1>1, <1>4, ThreadTypes, CheckFrame DEF Check, Capture, Probe, Declare, Tell, Goto, AfterCheck, Handles,
     Reports
<1>5. CASE ListenerStep(g)
  <2>1. event' = event
    BY <1>5 DEF ListenerStep, Kill, Killed, KillFails, Quit, Record, Recheck, Publish, ClearAfter,
       Abort, AbortStop, AbortTell
  <2>2. CASE Record(g)
    BY <1>1, <2>1, <2>2, ThreadTypes DEF Record, Goto, Handles, Reports
  <2>3. CASE Recheck(g)
    BY <1>1, <2>1, <2>3, ThreadTypes DEF Recheck, Goto, Handles, Reports, RunKinds, EndKinds
  <2>4. CASE Publish(g)
    BY <1>1, <2>1, <2>4, ThreadTypes DEF Publish, Goto, Handles, Reports, Terminal
  <2>5. CASE Abort(g)
    BY <1>1, <2>1, <2>5, ThreadTypes DEF Abort, Goto, Handles, Reports
  <2>6. CASE ~Record(g) /\ ~Recheck(g) /\ ~Publish(g) /\ ~Abort(g)
    BY <1>1, <1>5, <2>1, <2>6, ThreadTypes DEF ListenerStep, Kill, Killed, KillFails, Quit,
       ClearAfter, AbortStop, AbortTell, Goto, Handles, Reports, Report
  <2> QED BY <2>2, <2>3, <2>4, <2>5, <2>6
<1>6. ASSUME NEW c \in Callers, Spawn(c), g = NextToken, pc[g] = "abort" PROVE FALSE
  BY <1>1, <1>6, TokenIsNew DEF GenInv, Unborn
<1> QED BY <1>1, <1>2, <1>3, <1>4, <1>5, <1>6, ListenerMoves DEF Handles, Reports

(* The events of a worker go their way while the active run stays.         *)
LEMMA RunsGoOn ==
    ASSUME BaseInv, RunInv, ListenInv, AcceptInv, PendingInv, [Next]_vars,
           NEW g \in Generations, RunsAt(g), acceptedGen = g, activeRun' = activeRun
    PROVE  RunsAt(g)'
<1>1. /\ TypeOK /\ JobInv /\ StageInv /\ TypeOK' /\ SentAt(g) /\ g \in Threads
      /\ events \in [Generations -> Seq(Event)] /\ commands \in [Generations -> Seq(Command)]
      /\ NoRun \notin Runs
  BY BaseNext, ThreadTypes, ClientAssumption DEF BaseInv, TypeOK, RunInv, SentInv
<1>2. /\ \A i \in Posted(g) : i \in Int
      /\ \A i \in Queued(g) : i \in Int
      /\ \A i \in Posted(g)' : i \in Int
      /\ \A i \in Queued(g)' : i \in Int
  BY DEF Posted, Queued
<1>3. Current(g)
  BY DEF Current, AcceptInv
<1>4. ASSUME ~Take(g)
      PROVE  /\ Handles(g)' => Handles(g) /\ event'[g] = event[g]
             /\ Reports(g)' => Reports(g) /\ event'[g] = event[g]
  <2>1. ~(Record(g) /\ event[g].kind = "ended")
    <3>1. ASSUME Record(g), event[g].kind = "ended" PROVE FALSE
      <4>1. event[g].of = activeRun /\ activeRun \in Runs
        BY <1>1, <3>1, RunMessages DEF RunsAt, Handles, Reports, Record, RunKinds, EndKinds
      <4>2. activeRun' = NoRun
        BY <1>3, <3>1, <4>1 DEF Record, ClearRun, Terminal
      <4> QED BY <1>1, <4>1, <4>2
    <3> QED BY <3>1
  <2> QED BY <1>4, <2>1, HandlesBefore
<1>5. CASE Take(g)
  <2>1. /\ events' = [events EXCEPT ![g] = Tail(@)] /\ events[g] # <<>>
        /\ event' = [event EXCEPT ![g] = Head(events[g])] /\ UNCHANGED <<commands, serving>>
        /\ pc'[g] \in {"ended", "poll", "abort", "record"}
    BY <1>1, <1>5, ThreadTypes DEF Take, Goto
  <2>2. /\ 1 \in Queued(g) /\ event'[g] = events[g][1]
        /\ \A i \in Queued(g)' : /\ i + 1 \in Queued(g) /\ i >= 1
                                 /\ events'[g][i] = events[g][i + 1]
    BY <1>1, <2>1, TailElements, ThreadTypes DEF Queued
  <2>3. Posted(g)' = Posted(g) /\ ~Reports(g)'
    BY <2>1 DEF Posted, Reports
  <2>4. ASSUME Handles(g)'
        PROVE  /\ event'[g].of = activeRun
               /\ event'[g].kind \in EndKinds => Idle(g) /\ \A i \in Queued(g)' : events'[g][i].kind \notin RunKinds
    <3>1. events[g][1].kind \in RunKinds
      BY <2>2, <2>4 DEF Handles
    <3> QED BY <1>2, <2>2, <3>1 DEF RunsAt, Silent
  <2>5. ASSUME NEW i \in Queued(g)', events'[g][i].kind \in RunKinds
        PROVE  /\ events'[g][i].of = activeRun
               /\ events'[g][i].kind \in EndKinds =>
                     Idle(g) /\ \A j \in Queued(g)' : j > i => events'[g][j].kind \notin RunKinds
    BY <1>2, <2>2, <2>5 DEF RunsAt, Silent
  <2>6. Idle(g) => Idle(g)'
    BY <2>1, <2>3 DEF Idle
  <2> QED BY <1>1, <2>1, <2>3, <2>4, <2>5, <2>6 DEF RunsAt, Silent
<1>6. CASE Quiet(g) /\ ~Take(g)
  <2>1. PICK k \in {0, 1} : \A i \in Queued(g)' : events'[g][i].kind \in RunKinds =>
            i + k \in Queued(g) /\ events'[g][i] = events[g][i + k]
    BY <1>6 DEF Quiet, OldEvents, OldOf, Kept, Queued
  <2>2. PICK m \in {0, 1} : \A i \in Posted(g)' : commands'[g][i].kind = "start" =>
            i + m \in Posted(g) /\ commands'[g][i] = commands[g][i + m]
    BY <1>6 DEF Quiet, OldStarts, OldOf, Kept, Posted
  <2>3. serving'[g] = serving[g]
    BY <1>6 DEF Quiet
  <2>4. Idle(g) => Idle(g)'
    BY <1>2, <2>2, <2>3 DEF Idle
  <2>5. /\ \A i \in Queued(g)' : Silent(g, i + k) => \A j \in Queued(g)' : j > i => events'[g][j].kind \notin RunKinds
        /\ Silent(g, 0) => \A j \in Queued(g)' : j > 0 => events'[g][j].kind \notin RunKinds
    BY <1>2, <2>1 DEF Silent
  <2>6. \A i \in Queued(g)' : events'[g][i].kind \in RunKinds =>
            /\ events'[g][i].of = activeRun
            /\ events'[g][i].kind \in EndKinds =>
                  Idle(g)' /\ \A j \in Queued(g)' : j > i => events'[g][j].kind \notin RunKinds
    BY <1>2, <2>1, <2>4, <2>5 DEF RunsAt
  <2>7. \A i \in Posted(g)' : commands'[g][i].kind = "start" =>
            /\ commands'[g][i].of = activeRun /\ serving'[g] = NoRun
            /\ \A j \in Posted(g)' : commands'[g][j].kind = "start" => i = j
    BY <1>2, <2>2, <2>3 DEF RunsAt
  <2>8. Handles(g)' =>
            /\ event'[g].of = activeRun
            /\ event'[g].kind \in EndKinds =>
                  Idle(g)' /\ \A j \in Queued(g)' : j > 0 => events'[g][j].kind \notin RunKinds
    BY <1>4, <1>6, <2>4, <2>5 DEF RunsAt
  <2>9. Reports(g)' => activeRun # event'[g].of
    BY <1>4, <1>6 DEF RunsAt
  <2> QED BY <2>3, <2>6, <2>7, <2>8, <2>9 DEF RunsAt, Silent
<1>7. ASSUME NEW c \in Callers, Sends(c, g), ~Take(g) PROVE RunsAt(g)'
  <2> DEFINE m == [kind |-> "start", of |-> job[c].run, contract |-> job[c].contract]
  <2>1. /\ commands' = Post(commands, g, m) /\ events'[g] = events[g]
        /\ serving'[g] = serving[g] /\ job[c].run \in Runs
        /\ Reserving(c)
    BY <1>7 DEF Sends, Send, Reserving, Dispatching
  <2>2. m \in Command /\ m.of = job[c].run /\ m.kind = "start"
    BY <1>7, <2>1 DEF Sends, Send, Command, BaseInv, JobInv, JobFits
  <2>3. activeRun = job[c].run /\ activeRun \in Waiting
    BY <2>1, ReservedWaits DEF PendingInv
  <2>4. Still(g) /\ Queued(g)' = Queued(g)
    BY <1>1, <2>1, <2>3, NothingInFlight DEF Queued
  <2>5. ASSUME NEW i \in Posted(g)'
        PROVE  \/ i = Len(commands[g]) + 1 /\ commands'[g][i] = m
               \/ i \in Posted(g) /\ commands'[g][i] = commands[g][i]
    <3>1. commands' = Post(commands, g, m)
      BY <2>1
    <3> HIDE DEF m
    <3> QED BY <1>1, <2>2, <2>5, <3>1, PostedMember
  <2>6. \A i \in Queued(g) : events[g][i].kind \notin RunKinds
    BY <1>1, <2>4, RunMessages DEF Still, Silent
  <2> HIDE DEF m
  <2>7. \A i \in Posted(g)' : commands'[g][i].kind = "start" =>
            i = Len(commands[g]) + 1 /\ commands'[g][i].of = activeRun
    BY <2>2, <2>3, <2>4, <2>5 DEF Still, Idle
  <2>8. ~Handles(g)' /\ (Reports(g)' => activeRun # event'[g].of)
    BY <1>4, <1>7, <2>4 DEF RunsAt, Still
  <2> QED BY <2>1, <2>4, <2>6, <2>7, <2>8 DEF RunsAt, Still, Idle
<1>8. CASE Serving(g) /\ ~Take(g)
  <2>1. /\ commands' = [commands EXCEPT ![g] = Tail(@)] /\ commands[g] # <<>>
        /\ Head(commands[g]).kind = "start" /\ serving'[g] = Head(commands[g]).of
        /\ events'[g] = events[g]
    BY <1>8 DEF Serving
  <2>2. /\ 1 \in Posted(g) /\ Head(commands[g]) = commands[g][1]
        /\ \A i \in Posted(g)' : /\ i + 1 \in Posted(g) /\ i + 1 # 1
                                 /\ commands'[g][i] = commands[g][i + 1]
    BY <1>1, <2>1, TailElements DEF Posted
  <2>3. /\ serving'[g] = activeRun
        /\ \A i \in Posted(g)' : commands'[g][i].kind # "start"
    BY <2>1, <2>2 DEF RunsAt
  <2>4. ~Idle(g) /\ Queued(g)' = Queued(g)
    BY <2>1, <2>2 DEF Idle, Queued
  <2>5. /\ Handles(g)' => event'[g].of = activeRun /\ event'[g].kind \notin EndKinds
        /\ Reports(g)' => activeRun # event'[g].of
    BY <1>4, <1>8, <2>4 DEF RunsAt
  <2>6. \A i \in Queued(g) : events[g][i].kind \in RunKinds =>
            events[g][i].of = activeRun /\ events[g][i].kind \notin EndKinds
    BY <2>4 DEF RunsAt
  <2> QED BY <2>1, <2>3, <2>4, <2>5, <2>6 DEF RunsAt
<1>9. ASSUME NEW e \in RunKinds, Telling(g, e), ~Take(g) PROVE RunsAt(g)'
  <2> DEFINE m == [kind |-> e, of |-> serving[g]]
  <2>1. /\ OldStarts(g) /\ events' = Post(events, g, m)
        /\ serving'[g] = (IF e \in EndKinds THEN NoRun ELSE serving[g])
        /\ serving[g] \in Runs
    BY <1>9 DEF Telling
  <2>2. m \in Event /\ m.of = serving[g] /\ m.kind = e /\ serving[g] # NoRun /\ serving[g] = activeRun
    BY <1>1, <2>1 DEF Event, RunKinds, EndKinds, RunsAt
  <2>3. ASSUME NEW i \in Queued(g)'
        PROVE  \/ i = Len(events[g]) + 1 /\ events'[g][i] = m
               \/ i \in Queued(g) /\ events'[g][i] = events[g][i] /\ i < Len(events[g]) + 1
    <3>1. events' = Post(events, g, m)
      BY <2>1
    <3> HIDE DEF m
    <3> QED BY <1>1, <2>2, <2>3, <3>1, QueuedMember DEF Queued
  <2> HIDE DEF m
  <2>4. ~Idle(g)
    BY <2>2 DEF Idle
  <2>5. \A i \in Posted(g)' : commands'[g][i].kind # "start"
    BY <2>1, <2>2 DEF RunsAt, OldStarts, OldOf, Kept, Posted
  <2>6. /\ Handles(g)' => event'[g].of = activeRun /\ event'[g].kind \notin EndKinds
        /\ Reports(g)' => activeRun # event'[g].of
    BY <1>4, <1>9, <2>4 DEF RunsAt
  <2>7. \A i \in Queued(g) : events[g][i].kind \in RunKinds =>
            events[g][i].of = activeRun /\ events[g][i].kind \notin EndKinds
    BY <2>4 DEF RunsAt
  <2>8. ASSUME NEW i \in Queued(g)', events'[g][i].kind \in RunKinds
        PROVE  /\ events'[g][i].of = activeRun
               /\ events'[g][i].kind \in EndKinds =>
                     /\ i = Len(events[g]) + 1
                     /\ serving'[g] = NoRun
    BY <2>1, <2>2, <2>3, <2>7, <2>8
  <2>9. \A i, j \in Queued(g)' : i = Len(events[g]) + 1 => ~(j > i)
    <3>1. Len(events[g]) \in Nat
      BY <1>1, LenProperties
    <3>2. \A j \in Queued(g)' : j \in Int /\ (j = Len(events[g]) + 1 \/ j < Len(events[g]) + 1)
      BY <1>2, <2>3
    <3> QED BY <3>1, <3>2
  <2> QED BY <2>1, <2>2, <2>5, <2>6, <2>8, <2>9 DEF RunsAt, Idle, Silent
<1> QED BY <1>1, <1>5, <1>6, <1>7, <1>8, <1>9, Changes DEF Taking

LEMMA PostLast ==
    ASSUME TypeOK, NEW g \in Generations, NEW m \in Event, events' = Post(events, g, m)
    PROVE  \E i \in Queued(g)' : events'[g][i] = m
<1>1. events \in [Generations -> Seq(Event)]
  BY DEF TypeOK
<1> DEFINE p == Post(events, g, m)
<1>2. /\ Len(events[g]) \in Nat /\ Len(p[g]) = Len(events[g]) + 1
      /\ p[g][Len(events[g]) + 1] = m
  BY <1>1, PostElements
<1> HIDE DEF p
<1>3. \E i \in 1 .. Len(p[g]) : p[g][i] = m
  BY <1>2
<1> QED BY <1>3 DEF p, Queued

(* An accepted worker that ends has said so, without crashes.              *)
LEMMA DeathNext ==
    ASSUME BaseInv, RunInv, FaultInv, AcceptInv, "crash" \notin faults, [Next]_vars,
           NEW g \in Generations, acceptedGen = g, acceptedGen' = g, process = g, process' = g,
           life[g] # "alive" => Dying(g), life'[g] # "alive"
    PROVE  Dying(g)'
<1>1. /\ TypeOK /\ JobInv /\ StageInv /\ GenInv /\ g \in Threads /\ g # 0 /\ g # Retired
      /\ events \in [Generations -> Seq(Event)] /\ commands \in [Generations -> Seq(Command)]
      /\ life \in [Generations -> {"none", "alive", "leaving", "dying", "dead"}]
      /\ catalogGen = g /\ physicalGen = g
  BY ThreadTypes DEF BaseInv, TypeOK, Generations, Retired, AcceptInv, GenInv
<1>2. CASE life[g] = "alive"
  <2>1. ASSUME NEW c \in Callers, Proceeds(c) PROVE life'[g] = "alive"
    BY <1>1, <1>2, <2>1 DEF Proceeds, Bind, AbandonStart, Terminate, WorkerGone, Joined, EnterEnsure,
       ReuseProcess, Invalidate, Send, workerVars, AcceptInv
  <2>2. ASSUME NEW c \in Callers, Spawn(c) \/ Finishes(c) PROVE life'[g] = "alive"
    <3>1. CASE Spawn(c)
      BY <1>1, <1>2, <3>1 DEF Spawn
    <3>2. CASE Finishes(c)
      BY <1>1, <1>2, <3>2 DEF Finishes, WontDie, JoinTimesOut, SpawnFails, ViewerCommand, MarkDispatched,
         RetireReturns, Unpin, ShutDown, workerVars
    <3> QED BY <2>2, <3>1, <3>2
  <2>3. ASSUME NEW h \in Generations, ListenerStep(h) PROVE life'[g] = "alive"
    <3>1. CASE Kill(h)
      BY <1>1, <1>2, <3>1 DEF Kill
    <3>2. CASE AbortStop(h)
      BY <1>1, <1>2, <3>2 DEF AbortStop, AcceptInv
    <3>3. CASE KillFails(h)
      BY <1>1, <1>2, <3>3 DEF KillFails
    <3>4. CASE ~Kill(h) /\ ~AbortStop(h) /\ ~KillFails(h)
      BY <1>2, <2>3, <3>4 DEF ListenerStep, Killed, Take, Quit, Record, Recheck, Publish,
         ClearAfter, Abort, AbortTell, workerVars
    <3> QED BY <3>1, <3>2, <3>3, <3>4
  <2>4. ASSUME NEW h \in Generations, TakeCommand(h) PROVE life'[g] = "alive"
    <3>1. commands[h] # <<>> /\ (UNCHANGED life
             \/ (Head(commands[h]).kind = "shutdown" /\ life' = [life EXCEPT ![h] = "leaving"]))
      BY <1>1, <2>4, CommandEffects, TakesCommand
    <3>2. CASE h = g /\ Head(commands[h]).kind = "shutdown"
      <4>1. 1 \in Posted(g) /\ Head(commands[g]) = commands[g][1]
        BY <1>1, <3>1, <3>2, TailElements DEF Posted
      <4> QED BY <3>2, <4>1 DEF AcceptInv
    <3> QED BY <1>1, <1>2, <3>1, <3>2
  <2>5. ASSUME NEW h \in Generations, StartNode(h) \/ SettleNode(h) \/ EndRun(h) \/ Die(h)
        PROVE  life'[g] = "alive"
    <3>1. CASE Die(h)
      BY <1>1, <1>2, <3>1 DEF Die
    <3>2. CASE StartNode(h) \/ SettleNode(h) \/ EndRun(h)
      BY <1>2, <3>2 DEF StartNode, SettleNode, EndRun
    <3> QED BY <2>5, <3>1, <3>2
  <2>6. ASSUME NEW h \in Generations, Escape(h) PROVE Dying(g)' \/ life'[g] = "alive"
    <3>1. CASE h # g
      BY <1>1, <1>2, <2>6, <3>1 DEF Escape
    <3>2. CASE h = g
      <4> DEFINE m == [kind |-> "fatal", of |-> serving[g]]
      <4>1. m \in Event /\ m.kind = "fatal"
        BY <1>1, <2>6, <3>2, RunEffects DEF Event
      <4>2. events' = Post(events, g, m)
        BY <2>6, <3>2 DEF Escape, Emit
      <4> HIDE DEF m
      <4>3. \E i \in Queued(g)' : events'[g][i] = m
        BY <1>1, <4>1, <4>2, PostLast
      <4> QED BY <4>1, <4>3 DEF Dying
    <3> QED BY <3>1, <3>2
  <2>7. ASSUME NEW c \in Callers, Begins(c) \/ Refuses(c) PROVE life'[g] = "alive"
    BY <1>1, <1>2, <2>7, BeginFrame DEF Refuses, RefuseStart, workerVars
  <2>8. ASSUME NEW t \in Threads, Check(t) PROVE life'[g] = "alive"
    BY <1>1, <1>2, <2>8, CheckFrame DEF workerVars
  <2>9. ASSUME UNCHANGED vars PROVE life'[g] = "alive"
    BY <1>2, <2>9 DEF vars, workerVars
  <2> QED BY Steps, <2>1, <2>2, <2>3, <2>4, <2>5, <2>6, <2>7, <2>8, <2>9 DEF Works, WorkerStep
<1>3. CASE Dying(g)
  <2>1. CASE pc[g] = "abort" /\ event[g].kind = "fatal"
    <3>1. ~Take(g)
      BY <2>1 DEF Take
    <3>2. ~Abort(g)
      BY <1>1 DEF Abort
    <3>3. pc'[g] = "abort"
      BY <2>1, <3>1, <3>2, HandlesBefore
    <3>4. event'[g] = event[g]
      BY <1>1, <2>1, <3>1, Changes DEF Quiet, Serving, Sends, Telling, Taking
    <3> QED BY <2>1, <3>3, <3>4 DEF Dying
  <2>2. CASE \E i \in Queued(g) : events[g][i].kind = "fatal"
    <3>1. PICK i \in Queued(g) : events[g][i].kind = "fatal"
      BY <2>2
    <3>2. CASE Take(g)
      <4>1. /\ events[g] # <<>> /\ events' = [events EXCEPT ![g] = Tail(@)]
            /\ event' = [event EXCEPT ![g] = Head(events[g])]
            /\ Head(events[g]).kind = "fatal" => pc'[g] = "abort"
        BY <1>1, <3>2, ThreadTypes DEF Take, Goto, Sentinel, Current
      <4> DEFINE t == [events EXCEPT ![g] = Tail(@)]
      <4>2. /\ Len(events[g]) \in Nat /\ Head(events[g]) = events[g][1]
            /\ Len(t[g]) = Len(events[g]) - 1
            /\ \A j \in 1 .. Len(t[g]) : t[g][j] = events[g][j + 1]
        BY <1>1, <4>1, TailElements
      <4> HIDE DEF t
      <4>3. i # 1 => i - 1 \in 1 .. Len(t[g]) /\ t[g][i - 1].kind = "fatal"
        BY <3>1, <4>2 DEF Queued
      <4>4. i # 1 => i - 1 \in Queued(g)' /\ events'[g][i - 1].kind = "fatal"
        BY <4>1, <4>3 DEF t, Queued
      <4>5. event'[g] = Head(events[g])
        BY <1>1, <4>1, ThreadTypes
      <4>6. i = 1 => Head(events[g]).kind = "fatal"
        BY <3>1, <4>2
      <4>7. i = 1 => pc'[g] = "abort" /\ event'[g].kind = "fatal"
        BY <4>1, <4>5, <4>6
      <4> QED BY <4>4, <4>7 DEF Dying
    <3>3. CASE ~Take(g)
      <4>1. ~\E c \in Callers : Joined(c)
        BY <1>1 DEF Joined
      <4> QED BY <1>1, <3>1, <3>3, <4>1, EventsGrow DEF Dying
    <3> QED BY <3>2, <3>3
  <2> QED BY <1>3, <2>1, <2>2 DEF Dying
<1> QED BY <1>2, <1>3

LEMMA FlightNext ==
    ASSUME BaseInv, RunInv, FaultInv, ListenInv, PendingInv, AcceptInv, FlightInv, NoCrash',
           NoCrash, [Next]_vars
    PROVE  FlightInv'
<1>1. /\ TypeOK /\ JobInv /\ StageInv /\ TypeOK' /\ SentInv /\ GenInv /\ NoRun \notin Runs
  BY BaseNext, ClientAssumption DEF BaseInv, RunInv
<1> SUFFICES ASSUME NEW g \in Generations, acceptedGen' = g
             PROVE  FlightAt(g)'
  BY DEF FlightInv
<1>2. g \in Threads /\ g # 0 /\ g # Retired
  BY <1>1, ThreadTypes DEF Generations, Retired
<1>3. ASSUME NEW c \in Callers, Spawn(c) PROVE FlightAt(g)'
  <2>1. g = NextToken /\ Unborn(g) /\ pc'[g] = "poll"
    BY <1>1, <1>3, TokenIsNew, Token DEF GenInv
  <2>2. /\ commands'[g] = <<>> /\ events'[g] = <<>> /\ serving'[g] = NoRun
        /\ event'[g] = Sentinel /\ life'[g] = "alive"
    BY <1>1, <1>3, <2>1 DEF Spawn, Unborn, TypeOK
  <2> QED BY <2>1, <2>2
          DEF FlightAt, RunsAt, Handles, Reports, Posted, Queued, Sentinel, RunKinds, EndKinds
<1>4. CASE ~\E c \in Callers : Spawn(c)
  <2>1. acceptedGen = g
    BY <1>1, <1>2, <1>4, AcceptedMoves DEF NoCrash
  <2>2. FlightAt(g) /\ SentAt(g) /\ catalogGen = g /\ physicalGen = g
    BY <1>1, <1>2, <2>1 DEF FlightInv, SentInv, AcceptInv, GenInv
  <2>3. process' = g /\ life'[g] # "alive" => Dying(g)'
    <3>1. process' = g => process = g
      BY <1>1, <1>2, <1>4, ProcessMoves
    <3> QED BY <2>1, <2>2, <3>1, DeathNext DEF FlightAt, NoCrash
  <2>4. CASE activeRun' = activeRun
    BY <2>1, <2>2, <2>3, <2>4, RunsGoOn DEF FlightAt
  <2>5. ASSUME NEW c \in Callers, Bind(c) PROVE RunsAt(g)'
    <3>1. activeRun = NoRun /\ activeRun' = job[c].run /\ job[c].run \in Waiting
      BY <1>1, <2>5 DEF Bind, PendingInv, Binding, JobInv, JobFits, Waiting, Unsent
    <3>2. Still(g)
      BY <1>1, <2>2, <3>1, NothingInFlight DEF FlightAt
    <3>3. UNCHANGED <<commands, events, serving, event>> /\ pc'[g] = pc[g]
      BY <1>1, <1>2, <2>5, ThreadTypes DEF Bind, Goto, workerVars
    <3>4. Reports(g) => event[g].of \notin Waiting
      BY <2>2 DEF Reports, SentAt, RunKinds, EndKinds
    <3> QED BY <1>1, <3>1, <3>2, <3>3, <3>4, StillInOrder DEF Still, Handles, Reports
  <2>6. ASSUME ClearRun, NEW t \in Threads, Clears(t), activeRun' # activeRun PROVE RunsAt(g)'
    <3>1. Reports(g)' => activeRun' # event'[g].of
      <4>1. TypeOK'
        BY <1>1
      <4>2. event'[g].kind \in RunKinds => event'[g].of \in Runs
        BY <1>1, RunMessagesNext
      <4> QED BY <1>1, <2>6, <4>2 DEF ClearRun, Reports, RunKinds, EndKinds
    <3>2. CASE t \in Callers /\ Drops(t)
      <4>1. activeRun \in Waiting
        BY <3>2, DropsReserved, ReservedWaits DEF Drops
      <4>2. Still(g)
        BY <1>1, <2>2, <4>1, NothingInFlight DEF FlightAt
      <4>3. UNCHANGED <<commands, events, serving, event>> /\ pc'[g] = pc[g]
        BY <1>1, <1>2, <3>2, ThreadTypes
           DEF Drops, AbandonStart, JoinTimesOut, SpawnFails, Finish, Goto, workerVars
      <4> QED BY <1>1, <3>1, <4>2, <4>3, StillInOrder DEF Still, Handles, Reports
    <3>3. CASE t \in Callers /\ Shutdown(t)
      BY <1>2, <3>3 DEF Shutdown
    <3>4. CASE Declare(t) /\ Watched(GenerationOf(t))
      BY <1>2, <3>4 DEF Declare
    <3>5. CASE t \in Generations /\ Killed(t) /\ acceptedGen = Retired
      BY <1>2, <2>1, <3>5
    <3>6. CASE t \in Generations /\ Abort(t) /\ physicalGen = t /\ acceptedGen = t
      BY <1>2, <3>6 DEF Abort
    <3>7. CASE t \in Generations /\ Record(t) /\ Current(t) /\ event[t].kind = "ended"
      <4>1. t = g
        BY <2>1, <3>7 DEF Current
      <4>2. Idle(g) /\ Silent(g, 0)
        BY <2>2, <3>7, <4>1 DEF FlightAt, RunsAt, Handles, Reports, Record, RunKinds, EndKinds
      <4>3. /\ UNCHANGED <<commands, events, serving, event>> /\ pc'[g] = "recheck"
        BY <1>1, <1>2, <3>7, <4>1, ThreadTypes DEF Record, Goto, workerVars
      <4>4. ~Handles(g)'
        BY <3>7, <4>1, <4>3 DEF Handles, Reports
      <4>5. RunsAt(g)'
        <5>1. Posted(g)' = Posted(g) /\ Queued(g)' = Queued(g)
          BY <4>3 DEF Posted, Queued
        <5>2. \A i \in Queued(g) : events[g][i].kind \notin RunKinds
          BY <1>1, <4>2, RunMessages DEF Silent
        <5> QED BY <3>1, <4>2, <4>3, <4>4, <5>1, <5>2 DEF RunsAt, Idle
      <4> QED BY <4>5
    <3>8. CASE t \in Generations /\ ClearAfter(t) /\ acceptedGen = t /\ OwnRun(t)
      <4>1. t = g /\ pc[g] = "clear" /\ event[g].kind = "ended"
        BY <2>1, <3>8 DEF ClearAfter, ListenInv
      <4>2. activeRun # event[g].of
        BY <2>2, <4>1 DEF FlightAt, RunsAt, Reports
      <4> QED BY <2>6, <3>8, <4>1, <4>2 DEF OwnRun, ClearRun
    <3> QED BY <2>6, <3>2, <3>3, <3>4, <3>5, <3>6, <3>7, <3>8 DEF Clears
  <2> QED BY <1>1, <2>3, <2>4, <2>5, <2>6, ActiveMoves DEF FlightAt
<1> QED BY <1>3, <1>4

---------------------------------------------------------------------------
(* Who publishes the verdict of a run.                                     *)

(* A thread that begins to publish the verdict of r.                       *)
Convicts(t, r) ==
    \/ /\ Declare(t) /\ Watched(GenerationOf(t))
       /\ activeRun = seen[t].run /\ seen[t].run = r
    \/ t \in Generations /\ Killed(t) /\ activeRun = seen[t].run /\ seen[t].run = r
                         /\ process = t /\ acceptedGen = Retired
    \/ t \in Generations /\ Record(t) /\ event[t].kind = "ended" /\ event[t].of = r
                         /\ acceptedGen = t
    \/ /\ t \in Generations /\ Abort(t) /\ physicalGen = t /\ acceptedGen = t /\ activeRun # NoRun
       /\ r = IF event[t].kind = "fatal" THEN event[t].of ELSE activeRun

LEMMA VerdictMoves ==
    ASSUME TypeOK, [Next]_vars, NEW r \in Runs
    PROVE  \/ verdicts'[r] = verdicts[r]
           \/ verdicts'[r] = verdicts[r] + 1 /\ \E t \in Threads : Claims(t, r) /\ ~Claims(t, r)'
<1>1. /\ Callers \subseteq Threads /\ Generations \subseteq Threads /\ Callers \cap Generations = {}
      /\ verdicts \in [Runs -> Nat]
      /\ NoRun \notin Runs
  BY ThreadTypes, ClientAssumption DEF TypeOK
<1>2. ASSUME NEW x PROVE CountVerdict(x) => verdicts'[r] = IF x = r THEN verdicts[r] + 1 ELSE verdicts[r]
  BY <1>1 DEF CountVerdict
<1>3. ASSUME NEW t \in Threads, Tell(t), verdicts'[r] # verdicts[r]
      PROVE  verdicts'[r] = verdicts[r] + 1 /\ Claims(t, r) /\ ~Claims(t, r)'
  <2>1. /\ FailedRun(t) /\ CountVerdict(seen[t].run) /\ pc[t] = "tell"
        /\ pc'[t] \in {"invalidate", "poll"}
    BY <1>3, ThreadTypes DEF Tell, Goto, AfterCheck
  <2>2. seen[t].run = r /\ verdicts'[r] = verdicts[r] + 1
    BY <1>2, <1>3, <2>1
  <2>3. Claims(t, r)
    BY <2>1, <2>2 DEF FailedRun, Claims, Tells
  <2>4. ~Claims(t, r)'
    BY <2>1 DEF Claims, Tells, Publishes, Aborts
  <2> QED BY <2>2, <2>3, <2>4
<1>4. ASSUME NEW g \in Generations, Publish(g), verdicts'[r] # verdicts[r]
      PROVE  verdicts'[r] = verdicts[r] + 1 /\ Claims(g, r) /\ ~Claims(g, r)'
  <2>1. /\ event[g].kind = "ended" /\ CountVerdict(event[g].of) /\ pc[g] = "publish"
        /\ pc'[g] = "clear"
    BY <1>1, <1>4, ThreadTypes DEF Publish, Goto, Terminal
  <2>2. event[g].of = r /\ verdicts'[r] = verdicts[r] + 1
    BY <1>2, <1>4, <2>1
  <2>3. Claims(g, r)
    BY <2>1, <2>2 DEF Claims, Publishes
  <2>4. ~Claims(g, r)'
    BY <2>1 DEF Claims, Tells, Publishes, Aborts
  <2> QED BY <2>2, <2>3, <2>4
<1>5. ASSUME NEW g \in Generations, AbortTell(g), verdicts'[r] # verdicts[r]
      PROVE  verdicts'[r] = verdicts[r] + 1 /\ Claims(g, r) /\ ~Claims(g, r)'
  <2> DEFINE x == IF event[g].kind = "fatal" THEN event[g].of ELSE seen[g].run
  <2>1. /\ seen[g].run # NoRun /\ CountVerdict(x) /\ pc[g] = "fail" /\ pc'[g] = "poll"
    BY <1>1, <1>5, ThreadTypes DEF AbortTell, Goto
  <2>2. x = r /\ verdicts'[r] = verdicts[r] + 1
    <3> HIDE DEF x
    <3> QED BY <1>2, <1>5, <2>1
  <2>3. Claims(g, r)
    BY <2>1, <2>2 DEF Claims, Aborts
  <2>4. ~Claims(g, r)'
    BY <2>1 DEF Claims, Tells, Publishes, Aborts
  <2> QED BY <2>2, <2>3, <2>4
<1>6. ASSUME NEW t \in Threads, Check(t), ~Tell(t) PROVE verdicts' = verdicts
  BY <1>6 DEF Check, Capture, Probe, Declare, histVars
<1>7. ASSUME NEW g \in Generations, ListenerStep(g), ~Publish(g), ~AbortTell(g) PROVE verdicts' = verdicts
  BY <1>7 DEF ListenerStep, Kill, Killed, KillFails, Take, Quit, Record, Recheck, ClearAfter,
     Abort, AbortStop, histVars
<1> QED BY Steps, <1>1, <1>3, <1>4, <1>5, <1>6, <1>7, BeginFrame, ProceedFrame, FinishFrame, WorkerFrame
        DEF histVars, Spawn, Refuses, RefuseStart, vars

LEMMA ClaimMoves ==
    ASSUME BaseInv, ~revived', [Next]_vars, NEW r \in Runs, NEW t \in Threads, Claims(t, r)', ~Claims(t, r)
    PROVE  Convicts(t, r)
<1>1. /\ TypeOK /\ GenInv /\ NoRun \notin Runs /\ (t \in Callers \/ t \in Generations)
      /\ \A g \in Generations : g # Retired
  BY ClientAssumption DEF BaseInv, Threads, Generations, Retired
<1>2. acceptedGen' \in {acceptedGen, Retired} \/ \E c \in Callers : Spawn(c)
  BY <1>1, AcceptedMoves
<1>3. pc'[t] \in {"tell", "publish", "recheck", "stop", "fail"}
  BY DEF Claims, Tells, Publishes, Aborts
<1>4. ASSUME Rests(t) PROVE FALSE
  <2>1. ASSUME t \in Generations, acceptedGen' = t, acceptedGen # t PROVE pc'[t] # "recheck"
    <3>1. PICK c \in Callers : Spawn(c)
      BY <1>1, <1>2, <2>1
    <3>2. t = NextToken
      BY <2>1, <3>1 DEF Spawn
    <3> QED BY <1>1, <3>1, <3>2, Token
  <2>2. pc'[t] = pc[t] /\ seen'[t] = seen[t] /\ (t \in Generations => event'[t] = event[t])
    BY <1>4 DEF Rests
  <2> QED BY <2>1, <2>2 DEF Claims, Tells, Publishes, Aborts
<1>5. CASE Check(t)
  <2>1. pc'[t] = "tell" /\ pc[t] \in {"probe", "declare", "ensuring", "poll", "tell"}
    BY <1>1, <1>3, <1>5, ThreadTypes DEF Check, Capture, Probe, Declare, Tell, Goto, AfterCheck
  <2>2. Declare(t) /\ Watched(GenerationOf(t))
    BY <1>1, <1>5, <2>1, ThreadTypes DEF Check, Capture, Probe, Declare, Tell, Goto, AfterCheck
  <2>3. Tells(t, r)'
    BY <2>1 DEF Claims, Publishes, Aborts
  <2>4. /\ seen' = [seen EXCEPT ![t].mine = (activeRun = seen[t].run)]
    BY <2>2 DEF Declare
  <2>5. seen'[t].run = seen[t].run /\ seen'[t].mine = (activeRun = seen[t].run)
    BY <1>1, <2>4, ThreadTypes DEF Captured
  <2>6. seen[t].run = r /\ activeRun = seen[t].run
    BY <2>3, <2>5 DEF Tells
  <2> QED BY <2>2, <2>6 DEF Convicts
<1>6. CASE t \in Generations /\ ListenerStep(t)
  <2>1. CASE Killed(t)
    <3>1. pc'[t] = "tell" /\ Tells(t, r)'
      BY <1>1, <1>3, <2>1, ThreadTypes DEF Killed, Goto, Report, Claims, Publishes, Aborts
    <3>2. /\ activeRun = seen[t].run /\ process = t /\ acceptedGen = Retired
          /\ seen' = [seen EXCEPT ![t].mine = TRUE]
      BY <1>1, <2>1, <3>1, ThreadTypes DEF Killed, Goto
    <3>3. seen'[t].run = seen[t].run
      BY <1>1, <3>2, ThreadTypes DEF Captured
    <3> QED BY <1>6, <2>1, <3>1, <3>2, <3>3 DEF Convicts, Tells
  <2>2. CASE Record(t)
    <3>1. pc'[t] = "recheck" /\ event' = event /\ acceptedGen' = acceptedGen
      BY <1>1, <2>2, ThreadTypes DEF Record, Goto, genVars
    <3>2. Publishes(t, r)'
      BY <3>1 DEF Claims, Tells, Aborts
    <3> QED BY <1>6, <2>2, <3>1, <3>2 DEF Convicts, Publishes
  <2>3. CASE Recheck(t)
    <3>1. /\ event' = event /\ acceptedGen = t /\ pc[t] = "recheck" /\ pc'[t] = "publish"
      BY <1>1, <1>3, <2>3, ThreadTypes DEF Recheck, Goto, Current
    <3>2. Publishes(t, r)'
      BY <3>1 DEF Claims, Tells, Aborts
    <3>3. Publishes(t, r)
      BY <3>1, <3>2 DEF Publishes
    <3> QED BY <1>6, <3>3 DEF Claims
  <2>4. CASE Abort(t)
    <3>1. /\ pc'[t] = "stop" /\ event' = event /\ physicalGen = t /\ acceptedGen = t
          /\ \E w : seen' = [seen EXCEPT ![t] = [Nothing EXCEPT !.run = activeRun, !.waits = w]]
      BY <1>1, <1>3, <2>4, ThreadTypes DEF Abort, Goto
    <3>2. seen'[t].run = activeRun
      BY <1>1, <3>1, ThreadTypes DEF Nothing
    <3>3. Aborts(t, r)'
      BY <3>1 DEF Claims, Tells, Publishes
    <3> QED BY <1>6, <2>4, <3>1, <3>2, <3>3 DEF Convicts, Aborts
  <2>5. CASE AbortStop(t)
    <3>1. pc'[t] = "fail" /\ pc[t] = "stop" /\ UNCHANGED <<seen, event>>
      BY <1>1, <2>5, ThreadTypes DEF AbortStop, Goto
    <3>2. Aborts(t, r)'
      BY <3>1 DEF Claims, Tells, Publishes
    <3>3. Aborts(t, r)
      BY <3>1, <3>2 DEF Aborts
    <3> QED BY <1>6, <3>3 DEF Claims
  <2>6. CASE ~Killed(t) /\ ~Record(t) /\ ~Recheck(t) /\ ~Abort(t) /\ ~AbortStop(t)
    BY <1>1, <1>3, <1>6, <2>6, ThreadTypes DEF ListenerStep, Kill, KillFails, Take, Quit, Publish,
       ClearAfter, AbortTell, Goto
  <2> QED BY <2>1, <2>2, <2>3, <2>4, <2>5, <2>6
<1>7. CASE t \in Callers
  <2>1. pc'[t] = "tell"
    BY <1>7, ThreadTypes, <1>1, ClientAssumption DEF Claims, Tells
  <2>2. pc[t] \in {"probe", "declare", "tell", "ensuring"}
    BY <1>1, <1>7, <2>1, CheckingBefore
  <2>3. ~Begins(t) /\ ~Finishes(t) /\ ~Spawn(t)
    BY <1>1, <1>7, <2>1, <2>2, BeginFrame, FinishFrame DEF Spawn
  <2>4. ~Proceeds(t)
    <3>1. CASE Joined(t)
      BY <2>2, <3>1 DEF Joined
    <3>2. CASE ~Joined(t)
      BY <1>1, <1>7, <2>1, <2>2, <3>2, ThreadTypes DEF Proceeds, Bind, AbandonStart, Terminate, WorkerGone,
         EnterEnsure, ReuseProcess, Invalidate, Send, Goto
    <3> QED BY <3>1, <3>2
  <2> QED BY <1>1, <1>4, <1>5, <1>7, <2>3, <2>4, CallerMoves
<1>8. CASE t \in Generations
  <2>1. ASSUME NEW c \in Callers, Spawn(c), t = NextToken PROVE FALSE
    BY <1>1, <1>3, <2>1, Token
  <2> QED BY <1>1, <1>4, <1>5, <1>6, <1>8, <2>1, ListenerMoves
<1> QED BY <1>1, <1>7, <1>8

(* A thread that begins to publish a verdict finds the run unsettled, and  *)
(* settles it.                                                             *)
LEMMA ConvictsFirst ==
    ASSUME BaseInv, NEW r \in Runs, VerdictAt(r), NEW t \in Threads, Convicts(t, r)
    PROVE  ~Settled(r)
<1>1. CASE activeRun = r
  BY <1>1 DEF VerdictAt
<1>2. CASE t \in Generations /\ acceptedGen = t /\ pc[t] \in {"record", "abort"} /\ EndTaken(t, r)
  BY <1>2 DEF VerdictAt, DoneAt
<1>3. CASE t \in Generations /\ Record(t) /\ event[t].kind = "ended" /\ event[t].of = r
           /\ acceptedGen = t
  BY <1>2, <1>3 DEF Record, EndTaken, EndKinds
<1>4. CASE t \in Generations /\ Abort(t) /\ acceptedGen = t
           /\ r = IF event[t].kind = "fatal" THEN event[t].of ELSE activeRun
  BY <1>1, <1>2, <1>4 DEF Abort, EndTaken, EndKinds
<1> QED BY <1>1, <1>3, <1>4 DEF Convicts

LEMMA ConvictsSettles ==
    ASSUME BaseInv, RunInv, FaultInv, AcceptInv, NoCrash => FlightInv, Counted,
           NEW r \in Runs, NEW t \in Threads, Convicts(t, r), [Next]_vars
    PROVE  /\ activeRun' # r /\ r \notin Waiting
           /\ \A g \in Generations : acceptedGen' = g => DoneAt(g, r)'
<1>1. /\ TypeOK /\ SentInv /\ PlaceInv /\ NoRun \notin Runs /\ \A g \in Generations : g # Retired
  BY ClientAssumption DEF BaseInv, RunInv, Generations, Retired
<1>2. CASE Declare(t) /\ Watched(GenerationOf(t)) /\ activeRun = seen[t].run /\ seen[t].run = r
  <2>1. Checks(t) /\ ClearRun /\ acceptedGen' = Retired
    BY <1>1, <1>2 DEF Declare, Checks
  <2> QED BY <1>1, <1>2, <2>1 DEF SentInv, ClearRun
<1>3. CASE t \in Generations /\ Killed(t) /\ activeRun = seen[t].run /\ seen[t].run = r
           /\ process = t /\ acceptedGen = Retired
  <2>1. Checks(t) /\ ClearRun /\ acceptedGen' = Retired
    BY <1>1, <1>3 DEF Killed, Checks, genVars
  <2> QED BY <1>1, <1>3, <2>1 DEF SentInv, ClearRun
<1>4. CASE t \in Generations /\ Record(t) /\ event[t].kind = "ended" /\ event[t].of = r
           /\ acceptedGen = t
  <2>1. /\ pc'[t] = "recheck" /\ acceptedGen' = t /\ Current(t) /\ EndTaken(t, r)
        /\ UNCHANGED <<commands, events, serving, event>>
    BY <1>1, <1>4, ThreadTypes DEF Record, Goto, genVars, workerVars, AcceptInv, Current, EndTaken, EndKinds
  <2>2. activeRun' # r
    <3>1. CASE activeRun \in {NoRun, r}
      BY <1>1, <1>4, <2>1, <3>1 DEF Record, ClearRun, Terminal
    <3>2. CASE activeRun \notin {NoRun, r}
      BY <1>1, <1>4, <3>2 DEF Record, runVars
    <3> QED BY <3>1, <3>2
  <2>3. r \notin Waiting
    BY <1>1, <1>4 DEF SentInv, SentAt, RunKinds, EndKinds
  <2>4. /\ \A i \in Posted(t) : ~StartAt(t, i, r)
        /\ \A i \in Queued(t) : ~EndAt(t, i, r)
        /\ serving[t] # r
    BY <1>1, <1>4, <2>1 DEF PlaceInv, Placed
  <2>5. DoneAt(t, r)'
    BY <2>1, <2>4 DEF DoneAt, Posted, Queued, StartAt, EndAt
  <2> QED BY <2>1, <2>2, <2>3, <2>5
<1>5. CASE t \in Generations /\ Abort(t) /\ physicalGen = t /\ acceptedGen = t
           /\ r = IF event[t].kind = "fatal" THEN event[t].of ELSE activeRun
  <2>1. /\ ClearRun /\ acceptedGen' = Retired /\ pc[t] = "abort"
    BY <1>5 DEF Abort
  <2>2. event[t].kind \in {"fatal", "badOffer"} /\ {"fatal", "offer"} \cap faults # {}
    BY <1>5, <2>1 DEF FaultInv
  <2>3. FlightAt(t)
    BY <1>5, <2>2 DEF Counted, NoCrash, FlightInv
  <2>4. event[t].of = activeRun
    BY <2>1, <2>2, <2>3 DEF FlightAt, RunsAt, Handles, Reports, RunKinds, EndKinds
  <2>5. event[t].of \notin Waiting
    BY <1>1, <1>5, <2>2 DEF SentInv, SentAt, RunKinds, EndKinds
  <2> QED BY <1>1, <1>5, <2>1, <2>4, <2>5 DEF ClearRun
<1> QED BY <1>2, <1>3, <1>4, <1>5 DEF Convicts

(* A run that has nothing left to tell stays so.                           *)
LEMMA DoneNext ==
    ASSUME BaseInv, [Next]_vars, NEW g \in Generations, NEW r \in Runs, DoneAt(g, r), r \notin Waiting
    PROVE  DoneAt(g, r)'
<1>1. /\ TypeOK /\ JobInv /\ StageInv /\ NoRun \notin Runs /\ g \in Threads
      /\ events \in [Generations -> Seq(Event)] /\ commands \in [Generations -> Seq(Command)]
  BY ThreadTypes, ClientAssumption DEF BaseInv, TypeOK
<1>2. serving'[g] # r
  <2>1. CASE Serving(g)
    <3>1. 1 \in Posted(g) /\ Head(commands[g]) = commands[g][1]
      BY <1>1, <2>1, TailElements DEF Serving, Posted
    <3> QED BY <2>1, <3>1 DEF Serving, DoneAt, StartAt
  <2>2. CASE ~Serving(g)
    BY <1>1, <2>2, Changes DEF Quiet, Sends, Telling, Taking, DoneAt
  <2> QED BY <2>1, <2>2
<1>3. \A i \in Posted(g)' : ~StartAt(g, i, r)'
  <2>1. CASE OldStarts(g)
    BY <2>1, OldStartAt DEF DoneAt, StartAt
  <2>2. ASSUME NEW c \in Callers, Sends(c, g) PROVE \A i \in Posted(g)' : ~StartAt(g, i, r)'
    <3> DEFINE m == [kind |-> "start", of |-> job[c].run, contract |-> job[c].contract]
    <3>1. commands' = Post(commands, g, m) /\ job[c].run \in Waiting
      BY <2>2 DEF Sends, Send, Waiting, Unsent
    <3>2. m \in Command /\ m.of # r
      BY <2>2, <3>1 DEF Sends, Send, Command, BaseInv, JobInv, JobFits
    <3> HIDE DEF m
    <3>3. \A i \in Posted(g)' : commands'[g][i] = m \/ (i \in Posted(g) /\ commands'[g][i] = commands[g][i])
      BY <1>1, <3>1, <3>2, PostedMember
    <3> QED BY <3>2, <3>3 DEF DoneAt, StartAt
  <2>3. Serving(g) \/ Taking(g) => OldStarts(g)
    BY <1>1, QuietCommands DEF Serving, Taking
  <2> QED BY <1>1, <2>1, <2>2, <2>3, Changes DEF Quiet, Telling
<1>4. \A i \in Queued(g)' : ~EndAt(g, i, r)'
  <2>1. CASE OldEvents(g)
    BY <2>1, OldEndAt DEF DoneAt, EndAt
  <2>2. ASSUME NEW e \in RunKinds, Telling(g, e) PROVE \A i \in Queued(g)' : ~EndAt(g, i, r)'
    <3> DEFINE m == [kind |-> e, of |-> serving[g]]
    <3>1. events' = Post(events, g, m) /\ serving[g] \in Runs /\ serving[g] # r
      BY <2>2 DEF Telling, DoneAt
    <3>2. m \in Event /\ m.of # r
      BY <3>1 DEF Event, RunKinds, EndKinds
    <3> HIDE DEF m
    <3>3. \A i \in Queued(g)' : events'[g][i] = m \/ (i \in Queued(g) /\ events'[g][i] = events[g][i])
      BY <1>1, <3>1, <3>2, QueuedMember
    <3> QED BY <3>2, <3>3 DEF DoneAt, EndAt
  <2>3. CASE Taking(g)
    <3>1. /\ events' = [events EXCEPT ![g] = Tail(@)] /\ events[g] # <<>>
      BY <2>3 DEF Taking
    <3>2. \A i \in Queued(g)' : i + 1 \in Queued(g) /\ events'[g][i] = events[g][i + 1]
      BY <1>1, <3>1, TailElements DEF Queued
    <3> QED BY <3>2 DEF DoneAt, EndAt
  <2>4. Serving(g) \/ (\E c \in Callers : Sends(c, g)) => OldEvents(g)
    BY <1>1, QuietEvents DEF Serving, Sends
  <2> QED BY <1>1, <2>1, <2>2, <2>3, <2>4, Changes DEF Quiet
<1>5. pc'[g] \in {"record", "abort"} => ~EndTaken(g, r)'
  <2>1. CASE Take(g)
    <3>1. events[g] # <<>> /\ event' = [event EXCEPT ![g] = Head(events[g])]
      BY <2>1 DEF Take
    <3>2. 1 \in Queued(g) /\ Head(events[g]) = events[g][1]
      BY <1>1, <3>1, TailElements DEF Queued
    <3>3. event'[g] = events[g][1]
      BY <1>1, <3>1, <3>2, ThreadTypes
    <3> QED BY <3>2, <3>3 DEF DoneAt, EndAt, EndTaken
  <2>2. CASE ~Take(g)
    <3>1. event'[g] = event[g]
      BY <1>1, <2>2, Changes DEF Quiet, Serving, Sends, Telling, Taking
    <3>2. CASE pc'[g] = pc[g]
      BY <3>1, <3>2 DEF DoneAt, EndTaken
    <3>3. ASSUME Check(g) PROVE pc'[g] \notin {"record", "abort"}
      BY <1>1, <3>3, ThreadTypes DEF Check, Capture, Probe, Declare, Tell, Goto, AfterCheck
    <3>4. CASE Recheck(g)
      BY <1>1, <3>1, <3>4, ThreadTypes DEF Recheck, Goto, EndTaken, EndKinds
    <3>5. ASSUME ListenerStep(g), ~Recheck(g) PROVE pc'[g] \notin {"record", "abort"}
      BY <1>1, <2>2, <3>5, ThreadTypes DEF ListenerStep, Kill, Killed, KillFails, Quit, Record, Publish,
         ClearAfter, Abort, AbortStop, AbortTell, Goto, Report
    <3>6. ASSUME NEW c \in Callers, Spawn(c), g = NextToken PROVE pc'[g] = "poll"
      BY <1>1, <3>6, Token
    <3> QED BY <1>1, <3>2, <3>3, <3>4, <3>5, <3>6, ListenerMoves DEF Rests
  <2> QED BY <2>1, <2>2
<1> QED BY <1>2, <1>3, <1>4, <1>5 DEF DoneAt

LEMMA ConvictMoves ==
    ASSUME TypeOK, NEW r, NEW t \in Threads, Convicts(t, r)
    PROVE  OthersRest(t) /\ pc'[t] # pc[t]
<1>1. t \in Generations => t \notin Callers
  BY ThreadTypes
<1>2. CASE Declare(t) /\ Watched(GenerationOf(t))
  <2>1. Check(t) /\ pc[t] = "declare" /\ pc'[t] = "tell"
    BY <1>2, ThreadTypes DEF Check, Declare, Goto
  <2> QED BY <2>1, CheckFrame
<1>3. CASE t \in Generations /\ Killed(t) /\ activeRun = seen[t].run /\ process = t /\ acceptedGen = Retired
  <2>1. ListenerStep(t) /\ pc[t] = "killing" /\ pc'[t] = "tell"
    BY <1>3, ThreadTypes DEF ListenerStep, Killed, Goto, Report
  <2> QED BY <1>3, <2>1, ListenerFrame
<1>4. CASE t \in Generations /\ Record(t)
  <2>1. ListenerStep(t) /\ pc[t] = "record" /\ pc'[t] = "recheck"
    BY <1>4, ThreadTypes DEF ListenerStep, Record, Goto
  <2> QED BY <1>4, <2>1, ListenerFrame
<1>5. CASE t \in Generations /\ Abort(t) /\ physicalGen = t /\ acceptedGen = t
  <2>1. ListenerStep(t) /\ pc[t] = "abort" /\ pc'[t] = "stop"
    BY <1>5, ThreadTypes DEF ListenerStep, Abort, Goto
  <2> QED BY <1>5, <2>1, ListenerFrame
<1> QED BY <1>2, <1>3, <1>4, <1>5 DEF Convicts

LEMMA VerdictNext ==
    ASSUME BaseInv, RunInv, FaultInv, AcceptInv, NoCrash => FlightInv, Counted, Counted', VerdictInv,
           [Next]_vars
    PROVE  VerdictInv'
<1>1. /\ TypeOK /\ JobInv /\ GenInv /\ ~revived' /\ verdicts \in [Runs -> Nat]
      /\ \A g \in Generations : g # Retired
  BY DEF BaseInv, TypeOK, Counted, Generations, Retired
<1> SUFFICES ASSUME NEW r \in Runs PROVE VerdictAt(r)'
  BY DEF VerdictInv
<1>2. VerdictAt(r) /\ verdicts[r] \in Nat
  BY <1>1 DEF VerdictInv
<1>3. ASSUME NEW t \in Threads, Claims(t, r)' PROVE Claims(t, r) \/ Convicts(t, r)
  BY <1>1, <1>3, ClaimMoves
<1>4. ASSUME NEW t \in Threads, Convicts(t, r) PROVE ~Settled(r)
  BY <1>2, <1>4, ConvictsFirst
<1>5. verdicts'[r] <= 1
  BY <1>1, <1>2, VerdictMoves DEF VerdictAt
<1>6. ASSUME NEW t \in Threads, Claims(t, r)', NEW u \in Threads, Claims(u, r)'
      PROVE  u = t /\ verdicts'[r] = 0
  <2>1. CASE Claims(t, r)
    <3>1. Settled(r)
      BY <2>1 DEF Settled
    <3>2. verdicts[r] = 0 /\ \A v \in Threads : Claims(v, r) => v = t
      BY <1>2, <2>1 DEF VerdictAt
    <3>3. u = t
      BY <1>3, <1>4, <1>6, <3>1, <3>2
    <3>4. verdicts'[r] = 0
      BY <1>1, <1>6, <3>2, VerdictMoves
    <3> QED BY <3>3, <3>4
  <2>2. CASE Convicts(t, r)
    <3>1. ~Settled(r)
      BY <1>4, <2>2
    <3>2. verdicts[r] = 0 /\ \A v \in Threads : ~Claims(v, r)
      BY <1>2, <3>1 DEF Settled
    <3>3. Convicts(u, r)
      BY <1>3, <1>6, <3>2
    <3>4. u = t
      BY <1>1, <2>2, <3>3, ConvictMoves DEF OthersRest, Rests
    <3>5. verdicts'[r] = 0
      BY <1>1, <3>2, VerdictMoves
    <3> QED BY <3>4, <3>5
  <2> QED BY <1>3, <1>6, <2>1, <2>2
<1>7. ASSUME Settled(r)'
      PROVE  /\ activeRun' # r /\ r \notin Waiting'
             /\ \A g \in Generations : acceptedGen' = g => DoneAt(g, r)'
  <2>1. Waiting' \subseteq Waiting
    BY <1>1, WaitingNext
  <2>2. ASSUME NEW t \in Threads, Convicts(t, r)
        PROVE  /\ activeRun' # r /\ r \notin Waiting'
               /\ \A g \in Generations : acceptedGen' = g => DoneAt(g, r)'
    BY <2>1, <2>2, ConvictsSettles
  <2>3. CASE Settled(r)
    <3>1. /\ activeRun # r /\ r \notin Waiting
          /\ \A g \in Generations : acceptedGen = g => DoneAt(g, r)
      BY <1>2, <2>3 DEF VerdictAt
    <3>2. activeRun' # r
      <4>1. ASSUME NEW c \in Callers, Bind(c) PROVE activeRun' # r
        <5>1. activeRun' = job[c].run /\ job[c].run \in Waiting
          BY <1>1, <4>1 DEF Bind, JobInv, JobFits, Waiting, Unsent
        <5> QED BY <3>1, <5>1
      <4>2. ClearRun => activeRun' # r
        BY ClientAssumption DEF ClearRun
      <4> QED BY <1>1, <3>1, <4>1, <4>2, ActiveMoves
    <3>3. ASSUME NEW g \in Generations, acceptedGen' = g PROVE DoneAt(g, r)'
      <4>1. CASE acceptedGen = g
        BY <3>1, <4>1, DoneNext
      <4>2. ASSUME NEW c \in Callers, Spawn(c) PROVE DoneAt(g, r)'
        <5>1. g = NextToken /\ Unborn(g) /\ pc'[g] = "poll"
          BY <1>1, <3>3, <4>2, TokenIsNew, Token DEF GenInv
        <5>2. commands'[g] = <<>> /\ events'[g] = <<>> /\ serving'[g] = NoRun
          BY <4>2, <5>1 DEF Spawn, Unborn
        <5> QED BY <5>1, <5>2, ClientAssumption DEF DoneAt, Posted, Queued
      <4> QED BY <1>1, <3>3, <4>1, <4>2, AcceptedMoves
    <3> QED BY <2>1, <3>1, <3>2, <3>3
  <2>4. CASE verdicts'[r] > 0 /\ ~Settled(r)
    <3>1. verdicts[r] = 0 /\ \A t \in Threads : ~Claims(t, r)
      BY <1>2, <2>4 DEF Settled
    <3> QED BY <1>1, <2>4, <3>1, VerdictMoves
  <2>5. ASSUME NEW t \in Threads, Claims(t, r)'
        PROVE  /\ activeRun' # r /\ r \notin Waiting'
               /\ \A g \in Generations : acceptedGen' = g => DoneAt(g, r)'
    BY <1>3, <2>2, <2>3, <2>5 DEF Settled
  <2> QED BY <1>7, <2>3, <2>4, <2>5 DEF Settled
<1> QED BY <1>5, <1>6, <1>7 DEF VerdictAt

---------------------------------------------------------------------------
(* The invariant, from the first state on.                                 *)

LEMMA InitTypes ==
    ASSUME Init
    PROVE  TypeOK
<1>1. /\ \A g \in Generations : g \in Nat
      /\ NoJob \in Job /\ Nothing \in Captured /\ Sentinel \in Event
      /\ <<>> \in Seq(Command) /\ <<>> \in Seq(Event)
  BY ClientAssumption DEF Generations, NoJob, Job, Nothing, Captured, Event
<1>2. /\ catalogGen \in Nat /\ physicalGen \in 0 .. MaxGeneration
      /\ acceptedGen \in {Retired} \cup 0 .. MaxGeneration
      /\ process \in 0 .. MaxGeneration
      /\ todo \subseteq Runs /\ jobsLeft \in 0 .. MaxJobs
      /\ verdicts \in [Runs -> Nat]
  BY ClientAssumption DEF Init
<1>3. /\ pc \in [Threads -> CallerStates \cup ListenerStates]
      /\ \A t \in Threads : pc[t] \in IF t \in Callers THEN CallerStates ELSE ListenerStates
  BY DEF Init, CallerStates, ListenerStates
<1>4. /\ job \in [Callers -> Job] /\ seen \in [Threads -> Captured]
      /\ event \in [Generations -> Event]
      /\ commands \in [Generations -> Seq(Command)] /\ events \in [Generations -> Seq(Event)]
  BY <1>1 DEF Init
<1>5. /\ activeRun \in Runs \cup {NoRun} /\ pendingRun \in Runs \cup {NoRun}
      /\ nodeRunning \in BOOLEAN /\ runDispatched \in BOOLEAN
      /\ running \in BOOLEAN /\ pinned \in Contracts \cup {NoContract}
      /\ startLock \in Threads \cup {NoThread}
  BY DEF Init
<1>6. /\ waiter \in [Callers -> {"none", "waiting", "acked", "failed"}]
      /\ life \in [Generations -> {"none", "alive", "leaving", "dying", "dead"}]
      /\ serving \in [Generations -> Runs \cup {NoRun}]
      /\ boundTo \in [Generations -> Contracts \cup {NoContract}]
      /\ stage \in [Generations -> 0 .. 3]
  BY DEF Init
<1> QED BY <1>2, <1>3, <1>4, <1>5, <1>6 DEF TypeOK

(* Nothing is under way at first.                                          *)
LEMMA InitRests ==
    ASSUME Init
    PROVE  /\ \A c \in Callers : /\ pc[c] = "idle" /\ job[c] = NoJob
                                 /\ job[c].kind = "none" /\ job[c].then = "none"
                                 /\ job[c].run = NoRun
           /\ \A g \in Generations :
                 /\ pc[g] = "none" /\ life[g] = "none" /\ serving[g] = NoRun
                 /\ stage[g] = 0 /\ commands[g] = <<>> /\ events[g] = <<>>
                 /\ event[g] = Sentinel /\ event[g].kind = "sentinel"
                 /\ Posted(g) = {} /\ Queued(g) = {} /\ ~Alive(g)
                 /\ g # 0 /\ g # Retired
           /\ \A r \in Runs : verdicts[r] = 0
           /\ \A t \in Threads : pc[t] \in {"idle", "none"}
           /\ activeRun = NoRun /\ process = 0 /\ acceptedGen = 0 /\ ~Alive(process)
<1>1. ASSUME NEW c \in Callers
      PROVE  /\ pc[c] = "idle" /\ job[c] = NoJob
             /\ job[c].kind = "none" /\ job[c].then = "none" /\ job[c].run = NoRun
  BY DEF Init, NoJob, Threads
<1>2. ASSUME NEW g \in Generations
      PROVE  /\ pc[g] = "none" /\ life[g] = "none" /\ serving[g] = NoRun
             /\ stage[g] = 0 /\ commands[g] = <<>> /\ events[g] = <<>>
             /\ event[g] = Sentinel /\ event[g].kind = "sentinel"
             /\ Posted(g) = {} /\ Queued(g) = {} /\ ~Alive(g)
             /\ g # 0 /\ g # Retired
  <2>1. g \notin Callers /\ g \in Threads /\ g # 0 /\ g # Retired
    BY ClientAssumption DEF Threads, Generations, Retired
  <2>2. /\ pc[g] = "none" /\ life[g] = "none" /\ serving[g] = NoRun
        /\ stage[g] = 0 /\ commands[g] = <<>> /\ events[g] = <<>>
        /\ event[g] = Sentinel /\ event[g].kind = "sentinel"
    BY <2>1 DEF Init, Sentinel
  <2>3. Len(<<>>) = 0 /\ 1 .. 0 = {}
    OBVIOUS
  <2>4. Posted(g) = {} /\ Queued(g) = {} /\ ~Alive(g)
    BY <2>2, <2>3 DEF Posted, Queued, Alive
  <2> QED BY <2>1, <2>2, <2>4
<1>3. /\ \A r \in Runs : verdicts[r] = 0
      /\ \A t \in Threads : pc[t] \in {"idle", "none"}
      /\ activeRun = NoRun /\ process = 0 /\ acceptedGen = 0 /\ ~Alive(process)
  BY DEF Init, Alive, Generations
<1> QED BY <1>1, <1>2, <1>3

LEMMA InitBase ==
    ASSUME Init
    PROVE  BaseInv
<1>1. TypeOK /\ LockInv /\ StageInv
  BY InitTypes, InitRests DEF LockInv, StageInv
<1>2. JobInv
  BY InitRests DEF JobInv, JobFits
<1>3. DeadInv
  BY InitRests DEF DeadInv, OneWorker
<1>4. GenInv
  <2>1. catalogGen = 0 /\ physicalGen = 0
    BY DEF Init
  <2> QED BY <2>1, InitRests DEF GenInv, Unborn
<1> QED BY <1>1, <1>2, <1>3, <1>4 DEF BaseInv

LEMMA InitRuns ==
    ASSUME Init
    PROVE  RunInv /\ FaultInv /\ ListenInv /\ PendingInv
<1>1. OwnerInv
  BY InitRests DEF OwnerInv
<1>2. ASSUME NEW g \in Generations PROVE SentAt(g)
  BY <1>2, InitRests DEF SentAt, RunKinds, EndKinds
<1>3. \A t \in Threads : ~Checks(t)
  BY InitRests DEF Checks
<1>4. SentInv
  BY <1>2, <1>3, InitRests DEF SentInv
<1>5. PlaceInv
  <2> SUFFICES ASSUME NEW g \in Generations, NEW r \in Runs PROVE Placed(g, r)
    BY DEF PlaceInv
  <2>1. Posted(g) = {} /\ Queued(g) = {} /\ serving[g] = NoRun /\ event[g].kind = "sentinel"
    BY InitRests
  <2> QED BY <2>1, ClientAssumption DEF Placed, EndTaken, EndKinds
<1>6. FaultInv /\ ListenInv
  BY InitRests DEF FaultInv, ListenInv
<1>7. PendingInv
  BY InitRests DEF PendingInv, Reserving, Dispatching, Binding
<1> QED BY <1>1, <1>4, <1>5, <1>6, <1>7 DEF RunInv

LEMMA InitHolds ==
    ASSUME Init
    PROVE  IInv
<1>1. HeldInv /\ LoadInv
  BY InitRests DEF HeldInv, LoadInv
<1>2. AcceptInv /\ FlightInv
  BY InitRests DEF AcceptInv, FlightInv
<1>3. VerdictInv
  <2> SUFFICES ASSUME NEW r \in Runs PROVE VerdictAt(r)
    BY DEF VerdictInv
  <2>1. \A t \in Threads : ~Claims(t, r)
    <3>1. \A t \in Threads : pc[t] \notin {"tell", "publish", "recheck", "stop", "fail"}
      BY InitRests
    <3>2. Generations \subseteq Threads
      BY DEF Threads
    <3> QED BY <3>1, <3>2 DEF Claims, Tells, Publishes, Aborts
  <2>2. verdicts[r] = 0
    BY InitRests
  <2>3. ~Settled(r)
    BY <2>1, <2>2 DEF Settled
  <2> QED BY <2>1, <2>2, <2>3 DEF VerdictAt
<1> QED BY <1>1, <1>2, <1>3, InitBase, InitRuns DEF IInv

(* Which failures a behaviour may meet does not change, and a generation   *)
(* that was accepted again stays so: each part is kept where it is claimed.*)
LEMMA IInvNext ==
    ASSUME IInv, [Next]_vars
    PROVE  IInv'
<1>1. /\ BaseInv /\ RunInv /\ FaultInv /\ ListenInv
      /\ Calm => PendingInv
      /\ WorkersHoldUp => HeldInv /\ LoadInv
      /\ ~revived => AcceptInv
      /\ NoCrash => FlightInv
      /\ Counted => VerdictInv
  BY DEF IInv
<1>2. /\ Calm' => Calm
      /\ WorkersHoldUp' => WorkersHoldUp
      /\ ~revived' => ~revived
      /\ NoCrash' => NoCrash
      /\ Counted' => Counted
  <2>1. faults' = faults /\ (revived => revived')
    BY <1>1, Frozen DEF BaseInv
  <2> QED BY <2>1, Zenon DEF Calm, WorkersHoldUp, NoCrash, Counted
<1>3. /\ WorkersHoldUp => Calm
      /\ NoCrash => Calm /\ ~revived
      /\ Counted => ~revived
  BY Zenon DEF Calm, NoCrash, Counted
<1>4. BaseInv' /\ RunInv' /\ FaultInv' /\ ListenInv'
  BY <1>1, BaseNext, RunNext, FaultNext, ListenNext
<1>5. Calm' => PendingInv'
  BY <1>1, <1>2, PendingNext
<1>6. WorkersHoldUp' => HeldInv' /\ LoadInv'
  BY <1>1, <1>2, <1>3, HeldNext, LoadNext
<1>7. ~revived' => AcceptInv'
  BY <1>1, <1>2, AcceptNext
<1>8. NoCrash' => FlightInv'
  BY <1>1, <1>2, <1>3, FlightNext
<1>9. Counted' => VerdictInv'
  BY <1>1, <1>2, <1>3, VerdictNext
<1> QED BY <1>4, <1>5, <1>6, <1>7, <1>8, <1>9 DEF IInv

LEMMA Invariant == Spec => []IInv
<1>1. Init => IInv
  BY InitHolds
<1>2. IInv /\ [Next]_vars => IInv'
  BY IInvNext
<1> QED BY <1>1, <1>2, PTL DEF Spec

---------------------------------------------------------------------------
(* The fields of the client, the queues of its workers and what each       *)
(* thread holds keep their types, and a queue holds commands and events of *)
(* the kinds its reader knows.                                             *)
THEOREM Types == Spec => []TypeOK
<1>1. IInv => TypeOK
  BY DEF IInv, BaseInv
<1> QED BY <1>1, Invariant, PTL

(* _ensure_process, shutdown and the listener's kill replace _process only *)
(* after the worker in it is gone: no two worker processes are alive, and  *)
(* the one that is is the one the client would terminate.                  *)
THEOREM WorkerIsAlone == Spec => []OneWorker
<1>1. IInv => OneWorker
  BY DEF IInv, BaseInv, DeadInv
<1> QED BY <1>1, Invariant, PTL

(* While workers only end when the client ends them, a run that start_run  *)
(* admitted and sent finds its worker without another run, so RunControl   *)
(* never drops a StartRun.                                                 *)
THEOREM StartsAreServed == Spec => []NoStartDropped
<1>1. IInv => NoStartDropped
  <2> SUFFICES ASSUME IInv, WorkersHoldUp, NEW g \in Generations, Alive(g)
               PROVE  Cardinality(Starts(g)) + (IF serving[g] = NoRun THEN 0 ELSE 1) <= 1
    BY DEF NoStartDropped
  <2>1. LoadAt(g) /\ TypeOK
    BY DEF IInv, BaseInv, LoadInv
  <2>2. DOMAIN commands[g] = Posted(g)
    BY <2>1 DEF TypeOK, Posted
  <2>3. CASE Starts(g) = {}
    <3>1. Cardinality(Starts(g)) = 0
      BY <2>3, FS_EmptySet
    <3> QED BY <3>1
  <2>4. ASSUME NEW i \in Starts(g)
        PROVE  Cardinality(Starts(g)) + (IF serving[g] = NoRun THEN 0 ELSE 1) <= 1
    <3>1. Starts(g) = {i} /\ serving[g] = NoRun
      BY <2>1, <2>2, <2>4 DEF Starts, LoadAt
    <3>2. Cardinality(Starts(g)) = 1
      BY <3>1, FS_Singleton
    <3> QED BY <3>1, <3>2
  <2> QED BY <2>3, <2>4
<1> QED BY <1>1, Invariant, PTL

(* The worker's own report, the health check, the node deadline and the    *)
(* transport abort race to end a run, each with what it captured under     *)
(* _state_lock: unless a retired generation was accepted again, or crashes *)
(* and aborts both happen, subscribers hear one end of it at most.         *)
THEOREM VerdictIsUnique == Spec => []OneVerdict
<1>1. IInv => OneVerdict
  <2> SUFFICES ASSUME IInv, Counted, NEW r \in Runs PROVE verdicts[r] <= 1
    BY Zenon DEF OneVerdict, Counted
  <2> QED BY DEF IInv, VerdictInv, VerdictAt
<1> QED BY <1>1, Invariant, PTL

=============================================================================
