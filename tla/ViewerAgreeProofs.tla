------------------------- MODULE ViewerAgreeProofs -------------------------
(***************************************************************************)
(* For any viewer nodes, commands, invalidations, runs and deaths of the   *)
(* worker: the epochs of client and worker agree, the worker serves no     *)
(* superseded results, and nothing is waited for in vain.                  *)
(*                                                                         *)
(* The messages between the two are in order, and carry the epochs of the  *)
(* client at the time they were sent: the argument is about what is on its *)
(* way, the command queue and the commands a preflight has put aside.      *)
(***************************************************************************)
EXTENDS ViewerEpochsProofs

---------------------------------------------------------------------------
(* The epochs agree.                                                       *)

Slots   == 1 .. Len(commands)
Direct  == disp.phase \in {"direct", "ended"}

(* Before there was a worker there is nothing to agree about, and a worker *)
(* that lives is of the generation the client accepts.                     *)
Grown ==
    /\ generation = 0 => /\ ~alive /\ cnode = Zero /\ waiting = {}
                         /\ sending = NoSend /\ events = <<>>
    /\ alive => accepted

(* A command is sent, an invalidation is delivered and a direct start is   *)
(* committed one after the other.                                          *)
Locks ==
    /\ sending # NoSend => inv = NoInv /\ sending.req.ws = cws
    /\ disp.phase \in {"ready", "direct", "ended"} => sending = NoSend
    /\ Direct => inv = NoInv

(* A run has one snapshot, wherever it is, from when its start was posted. *)
Snaps == {commands[i].snap : i \in {k \in Slots : commands[k].kind \in {"start", "commit"}}}
         \cup {s \in {job.snap} : job.phase # "idle"}
Snapped ==
    /\ \A s, t \in Snaps : s.run = t.run => s = t
    /\ \A s \in Snaps : s.run <= calls
    /\ \A s \in Snaps : disp.phase # "none" /\ s.run = disp.snap.run
                          => disp.phase \in {"posted", "direct", "ended"} /\ s = disp.snap
    /\ job.phase = "preflight" => ~job.snap.all

(* What is on its way is of no later epoch than the client's, but for the  *)
(* start of a direct run, which nothing overtakes.                         *)
Reached(s)  == s.ws <= cws \/ (Direct /\ s.all /\ s.ws = disp.snap.ws)
Sound(s)    == s.ws < cws \/ (s.ws = cws /\ \A n \in s.nodes : s.ne[n] <= cnode[n])
Present ==
    {c \in Commands : /\ c.kind \in Kinds => Stamped(c.req)
                      /\ c.kind = "invalidate" => c.ws <= cws
                      /\ c.kind = "start" => Reached(c.snap)
                      /\ c.kind = "commit" => Sound(c.snap)}
Sent ==
    /\ \A i \in Slots : commands[i] \in Present
    /\ \A i \in 1 .. Len(buffer) : buffer[i] \in Present
    /\ inv # NoInv => inv.ws <= cws
    /\ disp.phase # "none" /\ ~disp.snap.all => disp.snap.ws <= cws

(* A commit that will bring the worker to the epoch of n.                  *)
Coming(n) == \E i \in Slots : /\ commands[i].kind = "commit"
                              /\ n \in commands[i].snap.nodes
                              /\ commands[i].snap.ws = cws
                              /\ commands[i].snap.ne[n] = cnode[n]
Away      == {n \in Nodes : Coming(n) \/ n \in orphaned}
Ahead     == Direct /\ wws = disp.snap.ws
Agree ==
    alive =>
      /\ wws <= cws \/ Ahead
      /\ wws < cws => \A n \in Nodes : cnode[n] = 0 \/ n \in Away
      /\ wws = cws => \A n \in Nodes : \/ wnode[n] = cnode[n]
                                       \/ wnode[n] < cnode[n] /\ n \in Away
      /\ Ahead => wnode = Zero

(* The number of a run under way is among those given out.                 *)
Counting == disp.phase # "none" => disp.snap.run <= calls

AgreeInv == ListInv /\ Counting /\ Grown /\ Locks /\ Snapped /\ Sent /\ Agree

---------------------------------------------------------------------------
(* The worker serves what is current.                                      *)

Opened == {n \in Nodes : sessions[n].state = "open"}
Asked  == {i \in Slots : commands[i].kind \in Kinds}

(* An open session is as old as the worker's epochs of its node.           *)
Timely ==
    {n \in Nodes :
        \/ wws < cws
        \/ wws = cws /\ wnode[n] < cnode[n]
        \/ wws = cws /\ wnode[n] = cnode[n] /\ sessions[n].stamp = covers[n]}
Shown  == alive => Opened \subseteq Timely

(* Commands are put aside only during a preflight.                         *)
PutAside == buffer # <<>> => job.phase \in {"preflight", "flush"}

(* No command follows a direct start that is not committed, or is there    *)
(* when the worker has adopted it.                                         *)
Trailing == \A i \in Slots : commands[i].kind = "start" /\ commands[i].snap.ws > cws
               => \A k \in Asked : k < i
Resting  == alive /\ Ahead => Asked = {} /\ buffer = <<>> /\ Opened = {}

(* The epochs of the workspace a message on its way brings the worker to,  *)
(* with no command of an older one behind it.                              *)
Brings(c, ws) == \/ c.kind = "invalidate" /\ c.ws = ws
                 \/ c.kind = "start" /\ c.snap.all /\ c.snap.ws = ws
Brought == {ws \in Nat : \E j \in Slots :
               /\ Brings(commands[j], ws)
               /\ \A i \in Asked : i > j => commands[i].req.ws = ws}
Delivering == inv # NoInv /\ inv.gen = generation

(* The epochs a message brings it to or, if its run fails, should have.    *)
Expected == Brought \cup missed

(* Nothing is open, and every command that comes is of the present epoch.  *)
Blank == /\ Opened = {}
         /\ \A i \in Asked : commands[i].req.ws = cws
         /\ \A i \in 1 .. Len(buffer) : buffer[i].req.ws = cws
Catching ==
    alive =>
      /\ wws < cws => Blank \/ (Delivering /\ inv.ws = cws) \/ cws \in Expected
      /\ Direct => Ahead \/ disp.snap.ws \in Expected

ServeInv == AgreeInv /\ Shown /\ PutAside /\ Trailing /\ Resting /\ Catching

---------------------------------------------------------------------------
(* Nothing is waited for in vain.                                          *)

Told == 1 .. Len(events)

(* The requests that will be answered, those of an epoch the client has    *)
(* left, and those it waits for.                                           *)
Commanded == {commands[i].req : i \in Asked}
Kept      == {buffer[i].req : i \in 1 .. Len(buffer)}
Answers   == {k \in Told : events[k].kind = "answer"}
Answered  == {events[i].req : i \in Answers}
Sending   == IF sending = NoSend THEN {} ELSE {sending.req}
OnWay     == Sending \cup Commanded \cup Kept \cup Answered
Outdated  == {r \in Requests : r.ws < cws \/ (r.ws = cws /\ r.ne < cnode[r.node])}
Awaited   == alive => \A w \in waiting : w \in Outdated \/ w.id \in lost \/ w \in OnWay
Refusals  == {events[i].req : i \in {k \in Answers : events[k].result = "stale"}}
Refused   == Refusals \subseteq Outdated
AwaitInv  == ServeInv /\ Awaited /\ Refused

(* Nothing the worker serves before an invalidation has its epoch.         *)
Below(c, ws) == /\ c.kind \in Kinds => c.req.ws < ws
                /\ c.kind = "invalidate" => c.ws < ws
                /\ c.kind \in {"start", "commit"} => c.snap.ws < ws
Clear == {ws \in Nat : /\ wws < ws
                       /\ \A i \in 1 .. Len(buffer) : buffer[i].req.ws < ws
                       /\ job.phase = "preflight" => job.snap.ws < ws}
Settled == job.phase = "preflight" => job.snap.ws <= cws
InOrder == \A i \in Slots : commands[i].kind = "invalidate" =>
              /\ commands[i].ws \in Clear
              /\ \A k \in Slots : k < i => Below(commands[k], commands[i].ws)
BeforeIt == alive /\ Delivering =>
              /\ inv.ws \in Clear
              /\ \A k \in Slots : Below(commands[k], inv.ws)
              /\ disp.phase = "ready" /\ ~disp.snap.all => disp.snap.ws < inv.ws

(* Every delivery has a number of its own, and one that is neither of an   *)
(* earlier generation nor about to be posted is on its way or acknowledged.*)
Carrying  == {commands[i].id : i \in {k \in Slots : commands[k].kind = "invalidate"}}
Returning == {events[i].id : i \in {k \in Told : events[k].kind = "invalidated"}}
Acked     == Carrying \cup Returning
Registered ==
    /\ \A d \in deliveries : d.gen <= generation /\ d.id <= calls
    /\ \A id \in Acked : id <= calls
    /\ inv # NoInv =>
          /\ inv.gen <= generation /\ inv.id <= calls /\ inv.id \notin Acked
          /\ \E d \in deliveries : d.id = inv.id
          /\ \A d \in deliveries : d.id = inv.id => d.gen = inv.gen
Adopting == \A i \in Told : events[i].kind # "refused"
Delivered ==
    alive => \A d \in deliveries :
                d.gen # generation \/ (inv # NoInv /\ inv.id = d.id) \/ d.id \in Acked

WaitInv == /\ AwaitInv
           /\ Settled /\ InOrder /\ BeforeIt
           /\ Registered /\ Adopting /\ Delivered

---------------------------------------------------------------------------
(* Queues.                                                                 *)

LEMMA Grew ==
    ASSUME NEW S, NEW s \in Seq(S), NEW e \in S
    PROVE  /\ Append(s, e) \in Seq(S) /\ Len(Append(s, e)) = Len(s) + 1
           /\ \A i \in 1 .. Len(Append(s, e)) :
                 Append(s, e)[i] = IF i <= Len(s) THEN s[i] ELSE e
           /\ Append(s, e) # <<>>
OBVIOUS

LEMMA Shrank ==
    ASSUME NEW S, NEW s \in Seq(S), s # <<>>
    PROVE  /\ Tail(s) \in Seq(S) /\ Head(s) \in S /\ Head(s) = s[1]
           /\ Len(Tail(s)) = Len(s) - 1 /\ Len(s) \in Nat \ {0}
           /\ \A i \in 1 .. Len(Tail(s)) : Tail(s)[i] = s[i + 1]
BY HeadTailProperties, EmptySeq

(* What a reader leaves, and what a writer adds.                           *)
LEMMA TookOne ==
    ASSUME TypeOK, NEW kinds, Take(kinds)
    PROVE  /\ alive /\ 1 \in Slots /\ Head(commands) = commands[1]
           /\ commands[1].kind \in kinds
           /\ \A i \in Slots' : i + 1 \in Slots /\ commands'[i] = commands[i + 1]
           /\ \A i \in Slots : i # 1 => i - 1 \in Slots' /\ commands'[i - 1] = commands[i]
<1>1. commands \in Seq(Commands) /\ commands # <<>> /\ commands' = Tail(commands) /\ alive
  BY DEF TypeOK, Take
<1>2. /\ Head(commands) = commands[1] /\ Len(commands') = Len(commands) - 1
      /\ Len(commands) \in Nat \ {0}
      /\ \A i \in 1 .. Len(commands') : commands'[i] = commands[i + 1]
  BY <1>1, Shrank
<1>3. Head(commands).kind \in kinds
  BY DEF Take
<1>4. Slots' = 1 .. Len(commands')
  BY DEF Slots
<1> QED BY <1>1, <1>2, <1>3, <1>4 DEF Slots

LEMMA PostedOne ==
    ASSUME TypeOK, NEW c \in Commands, Post(c)
    PROVE  /\ Slots \subseteq Slots' /\ \A i \in Slots : commands'[i] = commands[i]
           /\ \A i \in Slots' : i \in Slots \/ (alive /\ i = Len(commands) + 1 /\ commands'[i] = c)
           /\ alive => /\ Len(commands) + 1 \in Slots'
                       /\ commands'[Len(commands) + 1] = c
           /\ \A i \in Slots : i \in Nat /\ i < Len(commands) + 1
<1>1. commands \in Seq(Commands) /\ Len(commands) \in Nat
  BY DEF TypeOK
<1>2. Slots' = 1 .. Len(commands')
  BY DEF Slots
<1>3. CASE alive
  <2>1. commands' = Append(commands, c)
    BY <1>3 DEF Post
  <2>2. /\ Len(commands') = Len(commands) + 1
        /\ \A i \in 1 .. Len(commands') :
              commands'[i] = IF i <= Len(commands) THEN commands[i] ELSE c
    BY <1>1, <2>1, Grew
  <2> QED BY <1>1, <1>2, <1>3, <2>2 DEF Slots
<1>4. CASE ~alive
  BY <1>1, <1>4 DEF Post, Slots
<1> QED BY <1>3, <1>4

LEMMA InQueue ==
    ASSUME TypeOK
    PROVE  /\ \A i \in Slots : commands[i] \in Commands /\ i \in Nat \ {0}
           /\ \A i \in 1 .. Len(buffer) : buffer[i] \in ViewerCommands
           /\ \A i \in 1 .. Len(events) : events[i] \in Events
<1>1. commands \in Seq(Commands) /\ buffer \in Seq(ViewerCommands) /\ events \in Seq(Events)
  BY DEF TypeOK
<1> QED BY <1>1, ElementOfSeq DEF Slots

---------------------------------------------------------------------------
(* Who changes what.                                                       *)

Serves  == Worker \/ PreflightTimeout \/ EndRun \/ OtherRun
Requests1 == \E kind \in Kinds, n \in Nodes : ReadEpochs(kind, n)
Reserves  == \E nodes \in SUBSET Nodes : Reserve(nodes)

LEMMA Steps ==
    ASSUME [Next]_vars
    PROVE  \/ Crash \/ Health \/ Restart
           \/ Invalidate \/ Deliver
           \/ Requests1 \/ Track \/ Send
           \/ Reserves \/ ReadyDirect
           \/ Retire \/ Check \/ Ready \/ PostPrepared \/ PostDirect \/ CommitDirect
           \/ DispatchFails \/ Stop
           \/ Serves
           \/ ReceiveAnswer \/ ReceiveAck \/ ReceiveRetired \/ ReceiveAccepted \/ ReceiveEnded
           \/ UNCHANGED vars
BY DEF Next, Dispatcher, Listener, Serves, Requests1, Reserves

LEMMA ServesFrame ==
    ASSUME Serves
    PROVE  alive /\ UNCHANGED <<clientVars, callVars, countVars, alive>>
BY DEF Serves, Worker, ServeViewer, BufferViewer, FlushViewer, ServeInvalidate, ServeRetire,
       ServeStart, StartFails, StartRuns, StartOffers, ServeCommit, ServeCancel, ServeLate,
       PreflightTimeout, EndRun, OtherRun, Take

LEMMA GrownNext ==
    ASSUME TypeOK, Grown, [Next]_vars
    PROVE  Grown'
<1>1. CASE Serves
  BY <1>1, ServesFrame DEF Grown, clientVars, callVars
<1>2. CASE Restart
  <2>1. generation' = generation + 1 /\ generation \in Nat /\ accepted'
    BY <1>2 DEF Restart, NextGeneration, TypeOK
  <2> QED BY <2>1 DEF Grown
<1>3. CASE Crash \/ Health
  BY <1>3 DEF Grown, Crash, Health, clientVars, callVars
<1>4. CASE Invalidate \/ Deliver
  BY <1>4 DEF Grown, Invalidate, Deliver, Advance, clientVars
<1>5. CASE Requests1 \/ Track \/ Send
  BY <1>5 DEF Grown, Requests1, ReadEpochs, Track, Send, clientVars
<1>6. CASE Reserves \/ ReadyDirect \/ Retire \/ Check \/ Ready \/ PostPrepared
  <2>1. UNCHANGED <<clientVars, sending, generation, accepted, alive, events>>
    BY <1>6 DEF Reserves, Reserve, ReadyDirect, Retire, Check, Ready, PostPrepared
  <2> QED BY <2>1 DEF Grown, clientVars
<1>7. CASE PostDirect \/ CommitDirect \/ DispatchFails \/ Stop
  BY <1>7 DEF Grown, PostDirect, CommitDirect, DispatchFails, Stop, clientVars, Advance
<1>8. CASE ReceiveAnswer \/ ReceiveAck \/ ReceiveRetired \/ ReceiveAccepted \/ ReceiveEnded
  <2>1. events # <<>> /\ accepted' = accepted /\ generation' = generation /\ alive' = alive
    BY <1>8 DEF ReceiveAnswer, ReceiveAck, ReceiveRetired, ReceiveAccepted, ReceiveEnded,
        Receive, callVars
  <2> QED BY <2>1 DEF Grown
<1>9. CASE UNCHANGED vars
  BY <1>9 DEF Grown, vars, clientVars, callVars
<1> QED BY <1>1, <1>2, <1>3, <1>4, <1>5, <1>6, <1>7, <1>8, <1>9, Steps

LEMMA LocksNext ==
    ASSUME TypeOK, Locks, [Next]_vars
    PROVE  Locks'
<1>0. disp \in Dispatches /\ (sending # NoSend => sending \in [kind : Kinds, step : {"read", "tracked"}, req : Requests])
  BY TypesSplit DEF CallTypes, Sendings
<1>1. CASE Serves
  BY <1>1, ServesFrame DEF Locks, Direct, clientVars, callVars
<1>2. CASE Restart
  <2>1. /\ sending' = NoSend /\ inv' = inv /\ disp' \in {disp, NoRun}
        /\ disp.phase \notin {"direct", "ended"}
    BY <1>2 DEF Restart, FailRun, StartLockFree
  <2>2. disp'.phase \notin {"direct", "ended"}
    BY <2>1 DEF NoRun
  <2> QED BY <2>1, <2>2 DEF Locks, Direct
<1>3. CASE Crash \/ Health
  BY <1>3 DEF Locks, Direct, Crash, Health, clientVars, callVars, FailRun, NoRun
<1>4. CASE Invalidate \/ Deliver
  BY <1>4 DEF Locks, Direct, Invalidate, Deliver, clientVars
<1>5. CASE Requests1
  BY <1>5 DEF Locks, Direct, Requests1, ReadEpochs, clientVars, StartLockFree
<1>6. CASE Track \/ Send
  BY <1>0, <1>6 DEF Locks, Direct, Track, Send, clientVars
<1>7. CASE Reserves \/ ReadyDirect
  BY <1>7 DEF Locks, Direct, Reserves, Reserve, ReadyDirect, clientVars, NoRun
<1>8. CASE Retire \/ Check \/ Ready \/ PostPrepared
  <2>1. disp'.phase \in {"retiring", "retired", "checked", "posted"} \/ (disp'.phase = "ready" /\ sending = NoSend)
    BY <1>0, <1>8 DEF Retire, Check, Ready, PostPrepared, Dispatches
  <2>2. UNCHANGED <<cws, inv, sending>>
    BY <1>8 DEF Retire, Check, Ready, PostPrepared, clientVars
  <2> QED BY <2>1, <2>2 DEF Locks, Direct
<1>9. CASE PostDirect
  <2>1. disp.phase = "ready" /\ inv = NoInv /\ UNCHANGED <<cws, inv, sending>>
    BY <1>9 DEF PostDirect, clientVars
  <2> QED BY <2>1 DEF Locks, Direct
<1>10. CASE CommitDirect
  <2>1. disp'.phase \in {"none", "posted"} /\ Direct /\ UNCHANGED <<inv, sending>>
    BY <1>0, <1>10 DEF CommitDirect, NoRun, Dispatches, Direct
  <2> QED BY <2>1 DEF Locks, Direct
<1>11. CASE DispatchFails \/ Stop
  <2>1. disp'.phase \in {"none", "posted"} /\ UNCHANGED <<cws, inv, sending>>
    BY <1>0, <1>11 DEF DispatchFails, Stop, NoRun, Dispatches, clientVars
  <2> QED BY <2>1 DEF Locks, Direct
<1>12. CASE ReceiveAnswer \/ ReceiveAck \/ ReceiveAccepted
  <2>1. UNCHANGED <<cws, inv, sending, disp>>
    BY <1>12 DEF ReceiveAnswer, ReceiveAck, ReceiveAccepted, clientVars, callVars, Advance, PlanHolds
  <2> QED BY <2>1 DEF Locks, Direct
<1>13. CASE ReceiveRetired \/ ReceiveEnded
  <2>1. UNCHANGED <<cws, inv, sending>>
    BY <1>13 DEF ReceiveRetired, ReceiveEnded, clientVars
  <2>2. \/ disp' = disp \/ disp'.phase \in {"none", "retired"}
        \/ disp'.phase = "ended" /\ disp.phase = "direct"
    BY <1>0, <1>13 DEF ReceiveRetired, ReceiveEnded, NoRun, Dispatches
  <2> QED BY <2>1, <2>2 DEF Locks, Direct
<1>14. CASE UNCHANGED vars
  BY <1>14 DEF Locks, Direct, vars, clientVars, callVars
<1> QED BY <1>1, <1>2, <1>3, <1>4, <1>5, <1>6, <1>7, <1>8, <1>9, <1>10, <1>11, <1>12, <1>13,
           <1>14, Steps

---------------------------------------------------------------------------
(* Snapshots.                                                              *)

LEMMA SnapsAre ==
    ASSUME TypeOK
    PROVE  /\ \A i \in Slots : commands[i].kind \in {"start", "commit"} => commands[i].snap \in Snaps
           /\ job.phase # "idle" => job.snap \in Snaps
           /\ \A s \in Snaps : s \in Snapshots /\ s.run \in Nat
           /\ disp.snap \in Snapshots /\ disp.snap.run \in Nat /\ job.snap \in Snapshots
           /\ job.phase \in {"idle", "preflight", "flush", "running"} /\ disp.phase \in Phases
           /\ calls \in Nat /\ MaxCalls \in Nat
<1>1. /\ disp \in Dispatches /\ job \in Jobs /\ calls \in Nat /\ MaxCalls \in Nat
  BY TypesSplit, Constants DEF CallTypes, WorkerTypes, CountTypes
<1>2. \A i \in Slots : commands[i].kind \in {"start", "commit"} => commands[i].snap \in Snapshots
  BY InQueue, Carried
<1>3. \A s \in Snapshots : s.run \in Nat
  BY <1>1 DEF Snapshots
<1>4. /\ disp.snap \in Snapshots /\ disp.phase \in Phases /\ job.snap \in Snapshots
      /\ job.phase \in {"idle", "preflight", "flush", "running"}
  BY <1>1 DEF Dispatches, Jobs
<1> QED BY <1>1, <1>2, <1>3, <1>4 DEF Snaps

(* A step that posts no snapshot of its own.                               *)
LEMMA SnappedKept ==
    ASSUME TypeOK, Snapped, Snaps' \subseteq Snaps, calls' \in Nat, calls' >= calls,
           \/ UNCHANGED disp \/ disp'.phase = "none"
           \/ disp'.snap.run > calls
           \/ /\ disp'.snap = disp.snap /\ disp.phase # "none"
              /\ disp.phase \in {"posted", "direct", "ended"}
                   => disp'.phase \in {"posted", "direct", "ended"},
           job'.phase = "preflight" => (job' = job \/ ~job'.snap.all)
    PROVE  Snapped'
<1>1. \A s \in Snaps : s.run \in Nat /\ s.run <= calls
  BY SnapsAre DEF Snapped
<1>2. calls \in Nat
  BY SnapsAre
<1>3. \A s, t \in Snaps' : s.run = t.run => s = t
  BY DEF Snapped
<1>4. \A s \in Snaps' : s.run <= calls'
  BY <1>1, <1>2
<1>5. job'.phase = "preflight" => ~job'.snap.all
  BY DEF Snapped
<1>6. ASSUME NEW s \in Snaps', disp'.phase # "none", s.run = disp'.snap.run
      PROVE  disp'.phase \in {"posted", "direct", "ended"} /\ s = disp'.snap
  <2>1. s \in Snaps /\ s.run <= calls /\ s.run \in Nat
    BY <1>1
  <2>2. disp.phase # "none" /\ s.run = disp.snap.run
          => disp.phase \in {"posted", "direct", "ended"} /\ s = disp.snap
    BY <2>1 DEF Snapped
  <2> QED BY <1>2, <1>6, <2>1, <2>2
<1> QED BY <1>3, <1>4, <1>5, <1>6 DEF Snapped

(* A step that posts the snapshot of the run being dispatched.             *)
LEMMA SnappedPosted ==
    ASSUME TypeOK, Snapped, Snaps' \subseteq Snaps \cup {disp'.snap}, calls' = calls,
           job' = job, disp'.snap.run = disp.snap.run, disp.snap.run <= calls,
           disp'.phase \in {"posted", "direct"}, disp.phase # "none",
           disp'.snap = disp.snap \/ disp.phase \notin {"posted", "direct", "ended"}
    PROVE  Snapped'
<1>1. \A s \in Snaps : s.run = disp.snap.run => s = disp'.snap
  BY DEF Snapped
<1>2. \A s, t \in Snaps' : s.run = t.run => s = t
  BY <1>1 DEF Snapped
<1>3. \A s \in Snaps' : s.run <= calls'
  BY DEF Snapped
<1>4. \A s \in Snaps' : s.run = disp'.snap.run => s = disp'.snap
  BY <1>1
<1> QED BY <1>2, <1>3, <1>4 DEF Snapped

LEMMA SnapsServed ==
    ASSUME TypeOK, NEW kinds, Take(kinds),
           \/ job'.phase = "idle" \/ (job'.snap = job.snap /\ job.phase # "idle")
           \/ job' = job
           \/ commands[1].kind = "start" /\ job'.snap = commands[1].snap
    PROVE  Snaps' \subseteq Snaps
<1>1. \A i \in Slots' : i + 1 \in Slots /\ commands'[i] = commands[i + 1]
  BY TookOne
<1>2. 1 \in Slots
  BY TookOne
<1>3. job'.phase # "idle" => job'.snap \in Snaps
  BY <1>2, SnapsAre
<1>4. \A i \in Slots' : commands'[i].kind \in {"start", "commit"} => commands'[i].snap \in Snaps
  BY <1>1, SnapsAre
<1> QED BY <1>3, <1>4 DEF Snaps

LEMMA SnapsSent ==
    ASSUME TypeOK, NEW c \in Commands, Post(c), job' = job
    PROVE  /\ c.kind \notin {"start", "commit"} => Snaps' \subseteq Snaps
           /\ c.kind \in {"start", "commit"} => Snaps' \subseteq Snaps \cup {c.snap}
<1>1. \A i \in Slots' : (i \in Slots /\ commands'[i] = commands[i]) \/ commands'[i] = c
  BY PostedOne
<1>2. \A i \in Slots' : commands'[i].kind \in {"start", "commit"} =>
         \/ commands'[i].snap \in Snaps
         \/ c.kind \in {"start", "commit"} /\ commands'[i].snap = c.snap
  BY <1>1, SnapsAre
<1> QED BY <1>2, SnapsAre DEF Snaps

LEMMA SnapsStay ==
    ASSUME commands' = commands \/ commands' = <<>>, job' = job \/ job'.phase = "idle"
           \/ (job'.snap = job.snap /\ job.phase # "idle")
    PROVE  Snaps' \subseteq Snaps
<1>1. Slots' \subseteq Slots /\ \A i \in Slots' : commands'[i] = commands[i]
  <2>1. CASE commands' = <<>>
    <3>1. Len(commands') = 0 /\ 1 .. 0 = {}
      BY <2>1
    <3> QED BY <3>1 DEF Slots
  <2> QED BY <2>1 DEF Slots
<1> QED BY <1>1 DEF Snaps

(* How a dispatch goes on.                                                 *)
LEMMA Reserving ==
    ASSUME Reserves \/ ReadyDirect
    PROVE  /\ calls' = calls + 1 /\ disp'.snap.run = calls + 1 /\ disp.phase = "none"
           /\ \/ disp'.phase = "reserved" /\ ~disp'.snap.all /\ disp'.snap.ws = cws
              \/ disp'.phase = "ready" /\ disp'.snap.all
<1>1. ASSUME NEW nodes \in SUBSET Nodes, Reserve(nodes)
      PROVE  /\ calls' = calls + 1 /\ disp.phase = "none" /\ disp'.phase = "reserved"
             /\ disp'.snap = Snapshot(FALSE, nodes)
  BY <1>1 DEF Reserve, NoRun
<1>2. ASSUME ReadyDirect
      PROVE  /\ calls' = calls + 1 /\ disp.phase = "none" /\ disp'.phase = "ready"
             /\ disp'.snap = Snapshot(TRUE, {})
  BY <1>2 DEF ReadyDirect, NoRun
<1>3. \A nodes : /\ Snapshot(FALSE, nodes).run = calls + 1 /\ ~Snapshot(FALSE, nodes).all
                 /\ Snapshot(FALSE, nodes).ws = cws
  BY DEF Snapshot
<1>4. Snapshot(TRUE, {}).run = calls + 1 /\ Snapshot(TRUE, {}).all
  BY DEF Snapshot
<1>5. CASE Reserves
  <2>1. PICK nodes \in SUBSET Nodes : Reserve(nodes)
    BY <1>5 DEF Reserves
  <2>2. /\ calls' = calls + 1 /\ disp.phase = "none" /\ disp'.phase = "reserved"
        /\ disp'.snap = Snapshot(FALSE, nodes)
    BY <2>1, <1>1
  <2>3. disp'.snap.run = calls + 1 /\ ~disp'.snap.all /\ disp'.snap.ws = cws
    BY <2>2, <1>3
  <2> QED BY <2>2, <2>3
<1>6. CASE ReadyDirect
  <2>1. disp'.snap.run = calls + 1 /\ disp'.snap.all
    BY <1>2, <1>4, <1>6
  <2> QED BY <1>2, <1>6, <2>1
<1> QED BY <1>5, <1>6

LEMMA Dispatching ==
    ASSUME TypeOK, Retire \/ Check \/ Ready \/ PostPrepared \/ DispatchFails \/ Stop \/ CommitDirect
    PROVE  \/ disp'.phase = "none"
           \/ /\ disp'.snap = disp.snap /\ disp.phase # "none"
              /\ \/ disp.phase = "reserved" /\ disp'.phase \in {"retiring", "retired"}
                 \/ disp.phase = "retired" /\ disp'.phase = "checked"
                 \/ disp.phase = "checked" /\ disp'.phase = "ready"
                 \/ disp.phase = "ready" /\ disp'.phase = "posted" /\ ~disp.snap.all
                 \/ disp.phase \in {"posted", "direct"} /\ disp'.phase = "posted"
<1>0. disp \in Dispatches
  BY TypesSplit DEF CallTypes
<1>1. CASE Retire
  BY <1>0, <1>1 DEF Retire, Dispatches
<1>2. CASE Check
  BY <1>0, <1>2 DEF Check, Dispatches
<1>3. CASE Ready
  BY <1>0, <1>3 DEF Ready, Dispatches
<1>4. CASE PostPrepared
  BY <1>0, <1>4 DEF PostPrepared, Dispatches
<1>5. CASE DispatchFails
  BY <1>5 DEF DispatchFails, NoRun
<1>6. CASE Stop
  BY <1>0, <1>6 DEF Stop, Dispatches
<1>7. CASE CommitDirect
  BY <1>0, <1>7 DEF CommitDirect, Dispatches, NoRun
<1> QED BY <1>1, <1>2, <1>3, <1>4, <1>5, <1>6, <1>7

LEMMA Hearing ==
    ASSUME TypeOK, ReceiveAnswer \/ ReceiveAck \/ ReceiveRetired \/ ReceiveAccepted \/ ReceiveEnded
    PROVE  \/ disp' = disp \/ disp'.phase = "none"
           \/ /\ disp'.snap = disp.snap
              /\ \/ disp.phase = "retiring" /\ disp'.phase = "retired"
                 \/ disp.phase = "direct" /\ disp'.phase = "ended"
<1>0. disp \in Dispatches
  BY TypesSplit DEF CallTypes
<1>1. CASE ReceiveAnswer \/ ReceiveAccepted
  BY <1>1 DEF ReceiveAnswer, ReceiveAccepted, callVars
<1>2. CASE ReceiveAck
  BY <1>2 DEF ReceiveAck
<1>3. CASE ReceiveRetired
  BY <1>0, <1>3 DEF ReceiveRetired, Dispatches
<1>4. CASE ReceiveEnded
  BY <1>0, <1>4 DEF ReceiveEnded, Dispatches, NoRun
<1> QED BY <1>1, <1>2, <1>3, <1>4

LEMMA CountingNext ==
    ASSUME TypeOK, Counting, [Next]_vars
    PROVE  Counting'
<1>0. disp \in Dispatches /\ calls \in Nat /\ disp.snap \in Snapshots /\ disp.snap.run \in Nat
  BY SnapsAre, TypesSplit DEF CallTypes
<1>1. CASE Serves
  BY <1>1, ServesFrame DEF Counting, callVars, countVars
<1>2. CASE Restart \/ Crash \/ Health
  BY <1>2 DEF Counting, Restart, Crash, Health, FailRun, NoRun, callVars, countVars
<1>3. CASE Invalidate \/ Deliver \/ Requests1 \/ Track \/ Send
  <2>1. disp' = disp /\ calls' \in {calls, calls + 1}
    BY <1>3 DEF Invalidate, Deliver, Requests1, ReadEpochs, Track, Send, countVars
  <2> QED BY <1>0, <2>1 DEF Counting
<1>4. CASE Reserves \/ ReadyDirect
  <2>1. calls' = calls + 1 /\ disp'.snap.run = calls + 1
    BY <1>4, Reserving
  <2> QED BY <1>0, <2>1 DEF Counting
<1>5. CASE Retire \/ Check \/ Ready \/ PostPrepared \/ DispatchFails \/ Stop \/ CommitDirect
  <2>1. calls' = calls
    BY <1>5 DEF Retire, Check, Ready, PostPrepared, DispatchFails, Stop, CommitDirect, countVars
  <2> QED BY <1>5, <2>1, Dispatching DEF Counting
<1>6. CASE PostDirect
  <2>1. calls' = calls /\ disp'.snap.run = disp.snap.run /\ disp.phase = "ready"
    BY <1>0, <1>6 DEF PostDirect, countVars, Dispatches, Snapshots
  <2> QED BY <2>1 DEF Counting
<1>7. CASE ReceiveAnswer \/ ReceiveAck \/ ReceiveRetired \/ ReceiveAccepted \/ ReceiveEnded
  <2>1. calls' = calls
    BY <1>7 DEF ReceiveAnswer, ReceiveAck, ReceiveRetired, ReceiveAccepted, ReceiveEnded, countVars
  <2> QED BY <1>7, <2>1, Hearing DEF Counting
<1>8. CASE UNCHANGED vars
  BY <1>8 DEF Counting, vars, callVars, countVars
<1> QED BY <1>1, <1>2, <1>3, <1>4, <1>5, <1>6, <1>7, <1>8, Steps

LEMMA SnappedNext ==
    ASSUME TypeOK, Numbered, Counting, Snapped, [Next]_vars
    PROVE  Snapped'
<1>0. /\ disp \in Dispatches /\ job \in Jobs /\ calls \in Nat /\ disp.snap \in Snapshots
      /\ disp.snap.run \in Nat
  BY SnapsAre, TypesSplit DEF CallTypes, WorkerTypes
<1>1. CASE Serves
  <2>1. calls' = calls /\ disp' = disp
    BY <1>1, ServesFrame DEF callVars, countVars
  <2>2. CASE ServeViewer \/ BufferViewer \/ ServeInvalidate \/ ServeRetire \/ ServeLate
    <3>1. job' = job /\ \E kinds : Take(kinds)
      BY <2>2 DEF ServeViewer, BufferViewer, ServeInvalidate, ServeRetire, ServeLate, workerVars
    <3> QED BY <1>0, <2>1, <3>1, SnapsServed, SnappedKept
  <2>3. CASE FlushViewer \/ OtherRun \/ EndRun \/ PreflightTimeout
    <3>1. /\ commands' = commands
          /\ \/ job' = job \/ job'.phase = "idle"
             \/ job'.snap = job.snap /\ job.phase # "idle" /\ job'.phase = "running"
      BY <1>0, <2>3 DEF FlushViewer, OtherRun, EndRun, PreflightTimeout, GiveUp, NoJob, Jobs
    <3> QED BY <1>0, <2>1, <3>1, SnapsStay, SnappedKept
  <2>4. CASE ServeStart
    <3>1. /\ Take({"start"}) /\ commands[1] = Head(commands) /\ commands[1].kind = "start"
      BY <2>4, TookOne DEF ServeStart, StartFails, StartRuns, StartOffers
    <3>2. \/ job' = job
          \/ job'.snap = commands[1].snap /\ (job'.phase = "preflight" => ~job'.snap.all)
      <4> DEFINE s == Head(commands).snap
      <4>1. \/ job' = job
            \/ s.all /\ job' = [phase |-> "running", snap |-> s]
            \/ ~s.all /\ job' = [phase |-> "preflight", snap |-> s]
        BY <2>4 DEF ServeStart, StartFails, StartRuns, StartOffers
      <4> QED BY <3>1, <4>1
    <3>3. Snaps' \subseteq Snaps
      BY <3>1, <3>2, SnapsServed
    <3> QED BY <1>0, <2>1, <3>2, <3>3, SnappedKept
  <2>5. CASE ServeCommit
    <3>1. Take({"commit"})
      BY <2>5 DEF ServeCommit
    <3>2. \/ job'.phase = "idle" \/ (job'.snap = job.snap /\ job.phase # "idle")
          \/ job' = job
          \/ commands[1].kind = "start" /\ job'.snap = commands[1].snap
      BY <1>0, <2>5 DEF ServeCommit, GiveUp, NoJob, Jobs
    <3>3. Snaps' \subseteq Snaps
      BY <3>1, <3>2, SnapsServed
    <3>4. job'.phase # "preflight"
      BY <1>0, <2>5 DEF ServeCommit, GiveUp, NoJob, Jobs
    <3> QED BY <1>0, <2>1, <3>3, <3>4, SnappedKept
  <2>6. CASE ServeCancel
    <3>1. Take({"cancel", "stop"})
      BY <2>6 DEF ServeCancel
    <3>2. \/ job'.phase = "idle" \/ (job'.snap = job.snap /\ job.phase # "idle")
          \/ job' = job
          \/ commands[1].kind = "start" /\ job'.snap = commands[1].snap
      BY <2>6 DEF ServeCancel, GiveUp, NoJob
    <3>3. Snaps' \subseteq Snaps
      BY <3>1, <3>2, SnapsServed
    <3>4. job'.phase # "preflight"
      BY <2>6 DEF ServeCancel, GiveUp, NoJob
    <3> QED BY <1>0, <2>1, <3>3, <3>4, SnappedKept
  <2> QED BY <1>1, <2>2, <2>3, <2>4, <2>5, <2>6 DEF Serves, Worker
<1>2. CASE Restart \/ Crash \/ Health
  <2>1. /\ commands' = commands \/ commands' = <<>>
        /\ job' = job \/ job'.phase = "idle"
        /\ calls' = calls /\ (disp' = disp \/ disp'.phase = "none")
    BY <1>2 DEF Restart, Crash, Health, FailRun, NoRun, NoJob, callVars, countVars, workerVars
  <2>2. job'.phase = "preflight" => job' = job
    BY <2>1
  <2> QED BY <1>0, <2>1, <2>2, SnapsStay, SnappedKept
<1>3. CASE Invalidate \/ Requests1 \/ Track
  <2>1. /\ commands' = commands /\ job' = job /\ calls' \in {calls, calls + 1} /\ disp' = disp
    BY <1>3 DEF Invalidate, Requests1, ReadEpochs, Track, workerVars, countVars
  <2>2. calls' \in Nat /\ calls' >= calls
    BY <1>0, <2>1
  <2> QED BY <1>0, <2>1, <2>2, SnapsStay, SnappedKept
<1>4. CASE Reserves \/ ReadyDirect
  <2>1. /\ commands' = commands /\ job' = job /\ calls' = calls + 1 /\ disp'.snap.run = calls + 1
    BY <1>4, Reserving DEF Reserves, Reserve, ReadyDirect, workerVars
  <2>2. calls' \in Nat /\ calls' >= calls /\ disp'.snap.run > calls
    BY <1>0, <2>1
  <2> QED BY <1>0, <2>1, <2>2, SnapsStay, SnappedKept
<1>5. CASE Check \/ Ready \/ DispatchFails \/ CommitDirect
  <2>1. commands' = commands /\ job' = job /\ calls' = calls
    BY <1>5 DEF Check, Ready, DispatchFails, CommitDirect, countVars, workerVars
  <2>2. \/ disp'.phase = "none"
        \/ /\ disp'.snap = disp.snap /\ disp.phase # "none"
           /\ disp.phase \in {"posted", "direct", "ended"} => disp'.phase = "posted"
    BY <1>5, Dispatching
  <2> QED BY <1>0, <2>1, <2>2, SnapsStay, SnappedKept
<1>6. ASSUME NEW c \in Commands, Post(c), c.kind \notin {"start", "commit"}, job' = job, calls' = calls,
             \/ UNCHANGED disp
             \/ /\ disp'.snap = disp.snap /\ disp.phase # "none"
                /\ disp.phase \in {"posted", "direct", "ended"} => disp'.phase = "posted"
      PROVE  Snapped'
  BY <1>0, <1>6, SnapsSent, SnappedKept
<1>7. CASE Deliver
  <2>1. commands' = commands \/ Post([kind |-> "invalidate", id |-> inv.id, ws |-> inv.ws])
    BY <1>7 DEF Deliver
  <2>2. job' = job /\ calls' = calls /\ disp' = disp
    BY <1>7 DEF Deliver, workerVars, countVars
  <2>3. [kind |-> "invalidate", id |-> inv.id, ws |-> inv.ws] \in Commands
    <3>1. inv.id \in 1 .. MaxCalls /\ inv.ws \in Nat
      BY <1>7, TypesSplit, Constants DEF Deliver, CallTypes, Invalidations, Numbered
    <3> QED BY <3>1 DEF Commands
  <2> QED BY <1>0, <1>6, <2>1, <2>2, <2>3, SnapsStay, SnappedKept
<1>8. CASE Send
  <2>1. sending # NoSend /\ sending \in [kind : Kinds, step : {"read", "tracked"}, req : Requests]
    BY <1>8, TypesSplit DEF Send, CallTypes, Sendings
  <2>2. [kind |-> sending.kind, req |-> sending.req] \in Commands /\ sending.kind \notin {"start", "commit"}
    BY <2>1 DEF Commands, ViewerCommands, Kinds
  <2> QED BY <1>6, <1>8, <2>2 DEF Send, workerVars, countVars
<1>9. CASE Retire \/ Stop
  <2>1. /\ job' = job /\ calls' = calls
        /\ disp'.snap = disp.snap /\ disp.phase # "none"
        /\ disp.phase \in {"posted", "direct", "ended"} => disp'.phase = "posted"
    BY <1>0, <1>9 DEF Retire, Stop, workerVars, countVars, Dispatches
  <2>2. \/ commands' = commands
        \/ Post([kind |-> "retire", run |-> disp.snap.run])
        \/ Post([kind |-> "stop", run |-> disp.snap.run])
    BY <1>9 DEF Retire, Stop
  <2>3. disp.snap.run \in 1 .. MaxCalls
    BY <1>0, <2>1, Constants DEF Numbered, Snapshots
  <2>4. [kind |-> "retire", run |-> disp.snap.run] \in Commands
        /\ [kind |-> "stop", run |-> disp.snap.run] \in Commands
    BY <2>3 DEF Commands
  <2> QED BY <1>0, <1>6, <2>1, <2>2, <2>4, SnapsStay, SnappedKept
<1>10. CASE PostPrepared \/ PostDirect
  <2>1. /\ job' = job /\ calls' = calls /\ disp'.snap.run = disp.snap.run
        /\ disp'.phase \in {"posted", "direct"} /\ disp.phase = "ready"
        /\ Post([kind |-> "start", snap |-> disp'.snap])
    BY <1>0, <1>10 DEF PostPrepared, PostDirect, workerVars, countVars, Dispatches, Snapshots
  <2>2. [kind |-> "start", snap |-> disp'.snap] \in Commands
    <3>1. disp' \in Dispatches
      BY TypesDispatch, <1>10, TypesSplitNext DEF Dispatcher, CallTypes
    <3> QED BY <3>1 DEF Dispatches, Commands
  <2>3. Snaps' \subseteq Snaps \cup {disp'.snap}
    BY <2>1, <2>2, SnapsSent
  <2> QED BY <1>0, <2>1, <2>3, SnappedPosted DEF Counting
<1>11. CASE ReceiveAnswer \/ ReceiveAck \/ ReceiveRetired \/ ReceiveEnded
  <2>1. /\ job' = job /\ calls' = calls /\ commands' = commands
        /\ \/ disp' = disp \/ disp'.phase = "none"
           \/ /\ disp'.snap = disp.snap /\ disp.phase # "none"
              /\ disp.phase \in {"posted", "direct", "ended"} => disp'.phase = "ended"
    BY <1>0, <1>11 DEF ReceiveAnswer, ReceiveAck, ReceiveRetired, ReceiveEnded, NoRun, countVars,
       callVars, workerVars, Dispatches
  <2> QED BY <1>0, <2>1, SnapsStay, SnappedKept
<1>12. CASE ReceiveAccepted
  <2>1. job' = job /\ calls' = calls /\ disp' = disp
    BY <1>12 DEF ReceiveAccepted, workerVars, countVars, callVars
  <2>2. \/ commands' = commands
        \/ disp.phase = "posted" /\ Post([kind |-> "commit", snap |-> disp.snap])
        \/ disp.phase = "posted" /\ Post([kind |-> "cancel", run |-> disp.snap.run])
    BY <1>12 DEF ReceiveAccepted
  <2>3. CASE commands' = commands
    BY <1>0, <2>1, <2>3, SnapsStay, SnappedKept
  <2>4. CASE disp.phase = "posted" /\ Post([kind |-> "commit", snap |-> disp.snap])
    <3>1. [kind |-> "commit", snap |-> disp.snap] \in Commands
      BY <1>0 DEF Commands
    <3>2. Snaps' \subseteq Snaps \cup {disp'.snap}
      BY <2>1, <2>4, <3>1, SnapsSent
    <3> QED BY <1>0, <2>1, <2>4, <3>2, SnappedPosted DEF Counting
  <2>5. CASE disp.phase = "posted" /\ Post([kind |-> "cancel", run |-> disp.snap.run])
    <3>1. disp.snap.run \in 1 .. MaxCalls
      BY <1>0, <2>5, Constants DEF Numbered, Snapshots
    <3>2. [kind |-> "cancel", run |-> disp.snap.run] \in Commands
      BY <3>1 DEF Commands
    <3> QED BY <1>6, <2>1, <2>5, <3>2
  <2> QED BY <2>2, <2>3, <2>4, <2>5
<1>13. CASE UNCHANGED vars
  <2>1. commands' = commands /\ job' = job /\ calls' = calls /\ disp' = disp
    BY <1>13 DEF vars, callVars, countVars, workerVars
  <2> QED BY <1>0, <2>1, SnapsStay, SnappedKept
<1> QED BY <1>1, <1>2, <1>3, <1>4, <1>5, <1>6, <1>7, <1>8, <1>9, <1>10, <1>11, <1>12, <1>13, Steps

---------------------------------------------------------------------------
(* Messages on their way.                                                  *)

LEMMA PresentKept ==
    ASSUME TypeOK, UNCHANGED <<cws, cnode, covers>>,
           Direct => Direct' /\ disp'.snap.ws = disp.snap.ws
    PROVE  Present \subseteq Present'
BY DEF Present, Stamped, Reached, Sound, Direct

LEMMA PresentMoved ==
    ASSUME TypeOK, NEW all \in BOOLEAN, NEW nodes \in SUBSET Nodes, NEW ws \in Nat,
           NEW ne \in [Nodes -> Nat], Advance(all, nodes, ws, ne), Onward(all, nodes, ws, ne),
           Direct => all /\ ws = disp.snap.ws
    PROVE  Present \subseteq Present'
<1>0. ClientTypes /\ cws \in Nat /\ cnode \in [Nodes -> Nat]
  BY TypesSplit DEF ClientTypes
<1>1. \A r \in Requests : Stamped(r) => Stamped(r)'
  BY <1>0, AdvanceStamped
<1>2. cws' = ws /\ cws <= cws' /\ cws' \in Nat
  BY <1>0 DEF Advance, Onward
<1>3. cws' = cws => \A n \in Nodes : cnode[n] <= cnode'[n]
  <2> SUFFICES ASSUME cws' = cws, NEW n \in Nodes PROVE cnode[n] <= cnode'[n]
    OBVIOUS
  <2>1. ~all /\ \A m \in nodes : ne[m] = cnode[m] + 1
    BY <1>0, <1>2 DEF Onward
  <2>2. cnode'[n] = IF n \in nodes THEN ne[n] ELSE cnode[n]
    BY <2>1 DEF Advance
  <2> QED BY <1>0, <2>1, <2>2
<1> SUFFICES ASSUME NEW c \in Present PROVE c \in Present'
  OBVIOUS
<1>4. /\ c \in Commands
      /\ c.kind \in Kinds => Stamped(c.req) /\ c.req \in Requests
      /\ c.kind = "invalidate" => c.ws <= cws /\ c.ws \in Nat
      /\ c.kind = "start" => Reached(c.snap)
      /\ c.kind = "commit" => Sound(c.snap)
      /\ c.kind \in {"start", "commit"} => c.snap \in Snapshots
  BY Carried DEF Present, ViewerCommands
<1>5. c.kind \in Kinds => Stamped(c.req)'
  BY <1>1, <1>4
<1>6. c.kind = "invalidate" => c.ws <= cws'
  BY <1>0, <1>2, <1>4
<1>7. c.kind = "start" => c.snap.ws <= cws'
  <2> SUFFICES ASSUME c.kind = "start" PROVE c.snap.ws <= cws'
    OBVIOUS
  <2>1. c.snap.ws \in Nat /\ Reached(c.snap)
    BY <1>4 DEF Snapshots
  <2> QED BY <1>0, <1>2, <2>1 DEF Reached
<1>8. c.kind = "commit" =>
         c.snap.ws < cws' \/ (c.snap.ws = cws' /\ \A n \in c.snap.nodes : c.snap.ne[n] <= cnode'[n])
  <2> SUFFICES ASSUME c.kind = "commit"
               PROVE  \/ c.snap.ws < cws'
                      \/ c.snap.ws = cws' /\ \A n \in c.snap.nodes : c.snap.ne[n] <= cnode'[n]
    OBVIOUS
  <2>1. c.snap \in Snapshots /\ Sound(c.snap)
    BY <1>4
  <2>2. c.snap.ws \in Nat /\ c.snap.nodes \subseteq Nodes /\ c.snap.ne \in [Nodes -> Nat]
    BY <2>1 DEF Snapshots
  <2>3. CASE c.snap.ws < cws \/ cws < cws'
    BY <1>0, <1>2, <2>1, <2>2, <2>3 DEF Sound
  <2>4. CASE c.snap.ws = cws /\ cws' = cws
    <3>1. cnode' \in [Nodes -> Nat]
      BY <1>0, Constants DEF Advance
    <3>2. \A n \in c.snap.nodes : c.snap.ne[n] <= cnode[n]
      BY <1>0, <2>1, <2>4 DEF Sound
    <3> QED BY <1>0, <1>3, <2>2, <2>4, <3>1, <3>2
  <2> QED BY <1>0, <1>2, <2>1, <2>2, <2>3, <2>4 DEF Sound
<1> QED BY <1>4, <1>5, <1>6, <1>7, <1>8 DEF Present, Stamped, Reached, Sound

LEMMA SentKept ==
    ASSUME Sent, Present \subseteq Present',
           \A i \in Slots' : commands'[i] \in Present' \/ \E j \in Slots : commands'[i] = commands[j],
           \A i \in 1 .. Len(buffer') : \/ buffer'[i] \in Present'
                                        \/ \E j \in 1 .. Len(buffer) : buffer'[i] = buffer[j],
           inv' # NoInv => inv'.ws <= cws',
           disp'.phase # "none" /\ ~disp'.snap.all => disp'.snap.ws <= cws'
    PROVE  Sent'
<1>1. \A i \in Slots' : commands'[i] \in Present'
  BY DEF Sent
<1>2. \A i \in 1 .. Len(buffer') : buffer'[i] \in Present'
  BY DEF Sent
<1> QED BY <1>1, <1>2 DEF Sent

LEMMA SentPosted ==
    ASSUME TypeOK, Sent, Present \subseteq Present', buffer' = buffer,
           NEW c \in Commands, Post(c), c \in Present',
           inv' # NoInv => inv'.ws <= cws',
           disp'.phase # "none" /\ ~disp'.snap.all => disp'.snap.ws <= cws'
    PROVE  Sent'
<1>1. \A i \in Slots' : commands'[i] \in Present' \/ \E j \in Slots : commands'[i] = commands[j]
  BY PostedOne
<1> QED BY <1>1, SentKept

LEMMA SentStays ==
    ASSUME TypeOK, Sent, Present \subseteq Present', UNCHANGED <<buffer, commands>>,
           inv' # NoInv => inv'.ws <= cws',
           disp'.phase # "none" /\ ~disp'.snap.all => disp'.snap.ws <= cws'
    PROVE  Sent'
<1>1. \A i \in Slots' : commands'[i] \in Present' \/ \E j \in Slots : commands'[i] = commands[j]
  BY DEF Slots
<1> QED BY <1>1, SentKept

LEMMA SentServed ==
    ASSUME AgreeInv, Serves
    PROVE  Sent'
<1>0. TypeOK /\ Sent /\ UNCHANGED <<clientVars, callVars>>
  BY ServesFrame DEF AgreeInv, ListInv
<1>1. Present \subseteq Present'
  BY <1>0, PresentKept DEF clientVars, callVars, Direct
<1>2. /\ inv' # NoInv => inv'.ws <= cws'
      /\ disp'.phase # "none" /\ ~disp'.snap.all => disp'.snap.ws <= cws'
  BY <1>0 DEF clientVars, callVars, Sent
<1>3. \A i \in Slots' : \E j \in Slots : commands'[i] = commands[j]
  <2>1. CASE UNCHANGED commands
    BY <2>1 DEF Slots
  <2>2. ASSUME NEW kinds, Take(kinds)
        PROVE  \A i \in Slots' : \E j \in Slots : commands'[i] = commands[j]
    BY <1>0, <2>2, TookOne
  <2>3. UNCHANGED commands \/ \E kinds : Take(kinds)
    BY DEF Serves, Worker, ServeViewer, BufferViewer, FlushViewer, ServeInvalidate, ServeRetire,
       ServeStart, StartFails, StartRuns, StartOffers, ServeCommit, ServeCancel, ServeLate,
       PreflightTimeout, EndRun, OtherRun
  <2> QED BY <2>1, <2>2, <2>3
<1>4. buffer \in Seq(ViewerCommands)
  BY <1>0 DEF TypeOK
<1>5. \A i \in 1 .. Len(buffer') : \/ buffer'[i] \in Present'
                                   \/ \E j \in 1 .. Len(buffer) : buffer'[i] = buffer[j]
  <2>1. CASE BufferViewer
    <3>1. Take(Kinds) /\ buffer' = Append(buffer, Head(commands))
      BY <2>1 DEF BufferViewer, Buffered
    <3>2. Head(commands) \in Present'
      BY <1>0, <1>1, <3>1, TookOne DEF Sent
    <3>3. Head(commands) \in ViewerCommands
      BY <1>0, <3>1, TookOne, InQueue, Carried
    <3>4. \A i \in 1 .. Len(buffer') :
             buffer'[i] = IF i <= Len(buffer) THEN buffer[i] ELSE Head(commands)
      BY <1>4, <3>1, <3>3, Grew
    <3> QED BY <1>4, <3>2, <3>4
  <2>2. CASE FlushViewer
    <3>1. buffer' = buffer \/ (buffer # <<>> /\ buffer' = Tail(buffer))
      BY <2>2 DEF FlushViewer
    <3>2. buffer # <<>> => \A i \in 1 .. Len(Tail(buffer)) : Tail(buffer)[i] = buffer[i + 1] /\ i + 1 \in 1 .. Len(buffer)
      BY <1>4, Shrank
    <3> QED BY <3>1, <3>2
  <2>3. CASE buffer' = buffer
    BY <2>3
  <2>4. CASE buffer' = <<>>
    <3>1. Len(buffer') = 0 /\ 1 .. 0 = {}
      BY <2>4
    <3> QED BY <3>1
  <2>5. BufferViewer \/ FlushViewer \/ buffer' = buffer \/ buffer' = <<>>
    BY DEF Serves, Worker, ServeViewer, ServeInvalidate, ServeRetire, workerVars,
       ServeStart, StartFails, StartRuns, StartOffers, ServeCommit, ServeCancel, ServeLate,
       PreflightTimeout, EndRun, OtherRun, GiveUp
  <2> QED BY <2>1, <2>2, <2>3, <2>4, <2>5
<1> QED BY <1>0, <1>1, <1>2, <1>3, <1>5, SentKept

(* The epochs of the client move in three ways.                            *)
LEMMA MovedAll ==
    ASSUME ListInv, NEW ws \in Nat, ws > cws, Advance(TRUE, {}, ws, Zero), Direct => ws = disp.snap.ws
    PROVE  cws' = ws /\ cnode' = Zero /\ Present \subseteq Present'
<1>1. {} \in SUBSET Nodes /\ Zero \in [Nodes -> Nat] /\ TRUE \in BOOLEAN
  BY Constants
<1>2. Onward(TRUE, {}, ws, Zero)
  BY DEF Onward
<1>3. Present \subseteq Present'
  BY <1>1, <1>2, PresentMoved DEF ListInv
<1> QED BY <1>3 DEF Advance

LEMMA MovedSome ==
    ASSUME ListInv, NEW s \in Snapshots, PlanHolds(s), Advance(FALSE, s.nodes, s.ws, s.ne), ~Direct
    PROVE  /\ cws' = cws /\ s.ws = cws /\ Present \subseteq Present'
           /\ \A n \in Nodes : IF n \in s.nodes
                               THEN cnode'[n] = cnode[n] + 1 /\ cnode'[n] = s.ne[n]
                               ELSE cnode'[n] = cnode[n]
<1>1. s.nodes \in SUBSET Nodes /\ s.ws \in Nat /\ s.ne \in [Nodes -> Nat] /\ FALSE \in BOOLEAN
  BY DEF Snapshots
<1>2. Onward(FALSE, s.nodes, s.ws, s.ne)
  BY DEF Onward, PlanHolds
<1>3. Present \subseteq Present'
  BY <1>1, <1>2, PresentMoved DEF ListInv
<1> QED BY <1>3 DEF Advance, PlanHolds

LEMMA SentNext ==
    ASSUME AgreeInv, [Next]_vars
    PROVE  Sent'
<1>0. /\ TypeOK /\ Sent /\ ListInv /\ Locks
      /\ disp \in Dispatches /\ disp.snap \in Snapshots /\ cws \in Nat
      /\ inv # NoInv => inv.ws <= cws
      /\ disp.phase # "none" /\ ~disp.snap.all => disp.snap.ws <= cws
  BY SnapsAre, TypesSplit DEF AgreeInv, ListInv, CallTypes, ClientTypes, Sent
<1>1. CASE Serves
  BY <1>1, SentServed
<1>2. CASE Restart
  <2>1. Len(commands') = 0 /\ Len(buffer') = 0 /\ 1 .. 0 = {}
    BY <1>2 DEF Restart
  <2>2. cws' \in {cws, cws + 1} /\ inv' = inv /\ disp' \in {disp, NoRun}
    BY <1>2 DEF Restart, DropGeneration, FailRun, clientVars
  <2>3. disp' = disp \/ disp'.phase = "none"
    BY <2>2 DEF NoRun
  <2>4. cws' >= cws /\ cws' \in Nat
    BY <1>0, <2>2
  <2>5. inv' # NoInv => inv'.ws <= cws'
    <3>1. inv.ws \in Nat
      BY <1>0, TypesSplit DEF CallTypes, Invalidations
    <3> QED BY <1>0, <2>2, <2>4, <3>1
  <2>6. disp'.phase # "none" /\ ~disp'.snap.all => disp'.snap.ws <= cws'
    <3>1. disp.snap.ws \in Nat
      BY <1>0 DEF Snapshots
    <3> QED BY <1>0, <2>3, <2>4, <3>1
  <2> QED BY <2>1, <2>5, <2>6 DEF Sent, Slots
<1>3. CASE Crash \/ Health
  <2>1. /\ UNCHANGED <<clientVars, inv, buffer>> /\ (commands' = commands \/ commands' = <<>>)
        /\ disp' = disp \/ (Health /\ disp' = NoRun)
    BY <1>3 DEF Crash, Health, FailRun, callVars, workerVars
  <2>2. Direct => Direct' /\ disp'.snap.ws = disp.snap.ws
    BY <2>1 DEF Health, Pending, Direct
  <2>3. Present \subseteq Present'
    BY <1>0, <2>1, <2>2, PresentKept DEF clientVars
  <2>4. /\ inv' # NoInv => inv'.ws <= cws'
        /\ disp'.phase # "none" /\ ~disp'.snap.all => disp'.snap.ws <= cws'
    BY <1>0, <2>1 DEF clientVars, NoRun
  <2>5. CASE commands' = commands
    BY <1>0, <2>1, <2>3, <2>4, <2>5, SentStays
  <2>6. CASE commands' = <<>>
    <3>1. Slots' = {}
      BY <2>6 DEF Slots
    <3> QED BY <1>0, <2>1, <2>3, <2>4, <3>1, SentKept
  <2> QED BY <2>1, <2>5, <2>6
<1>4. CASE Invalidate
  <2>1. /\ Advance(TRUE, {}, cws + 1, Zero) /\ ~Direct /\ inv'.ws = cws + 1
        /\ UNCHANGED <<disp, buffer, commands>>
    BY <1>4 DEF Invalidate, Direct
  <2>2. cws + 1 \in Nat /\ cws + 1 > cws
    BY <1>0
  <2>3. cws' = cws + 1 /\ Present \subseteq Present'
    BY <1>0, <2>1, <2>2, MovedAll
  <2>4. /\ inv' # NoInv => inv'.ws <= cws'
        /\ disp'.phase # "none" /\ ~disp'.snap.all => disp'.snap.ws <= cws'
    <3>1. disp.snap.ws \in Nat
      BY <1>0 DEF Snapshots
    <3> QED BY <1>0, <2>1, <2>3, <3>1
  <2> QED BY <1>0, <2>1, <2>3, <2>4, SentStays
<1>5. CASE CommitDirect
  <2>1. /\ Advance(TRUE, {}, disp.snap.ws, Zero) /\ Direct
        /\ UNCHANGED <<inv, buffer, commands>>
    BY <1>5 DEF CommitDirect, Direct
  <2>2. disp.snap.ws \in Nat /\ disp.snap.ws > cws /\ disp.snap.ws = cws + 1
    BY <1>0, <2>1 DEF ListInv, Following, Direct
  <2>3. cws' = disp.snap.ws /\ Present \subseteq Present'
    BY <1>0, <2>1, <2>2, MovedAll
  <2>4. disp'.phase = "none" \/ disp'.snap = disp.snap
    BY <1>0, <1>5, Dispatching
  <2>5. /\ inv' # NoInv => inv'.ws <= cws'
        /\ disp'.phase # "none" /\ ~disp'.snap.all => disp'.snap.ws <= cws'
    BY <1>0, <2>1, <2>2, <2>3, <2>4 DEF Locks
  <2> QED BY <1>0, <2>1, <2>3, <2>5, SentStays
<1>6. CASE Requests1 \/ Track \/ UNCHANGED vars
  <2>1. UNCHANGED <<cws, cnode, covers, disp, inv, commands, buffer>>
    BY <1>6 DEF Requests1, ReadEpochs, Track, clientVars, workerVars, vars, callVars
  <2>2. Present \subseteq Present'
    BY <1>0, <2>1, PresentKept DEF Direct
  <2> QED BY <1>0, <2>1, <2>2, SentStays
<1>7. CASE Send \/ Deliver
  <2>1. UNCHANGED <<cws, cnode, covers, disp, buffer>> /\ inv' \in {inv, NoInv}
    BY <1>7 DEF Send, Deliver, clientVars, workerVars
  <2>2. Present \subseteq Present'
    BY <1>0, <2>1, PresentKept DEF Direct
  <2>3. inv' # NoInv => inv'.ws <= cws'
    BY <1>0, <2>1
  <2>4. CASE Send
    <3>1. sending # NoSend /\ sending \in [kind : Kinds, step : {"read", "tracked"}, req : Requests]
      BY <1>0, <2>4, TypesSplit DEF Send, CallTypes, Sendings
    <3>2. [kind |-> sending.kind, req |-> sending.req] \in Commands
      BY <3>1 DEF Commands, ViewerCommands
    <3>3. [kind |-> sending.kind, req |-> sending.req] \in Present
      BY <1>0, <3>1, <3>2 DEF Present, ListInv, Requested, Kinds
    <3> QED BY <1>0, <2>1, <2>2, <2>3, <2>4, <3>2, <3>3, SentPosted DEF Send
  <2>5. CASE Deliver
    <3> DEFINE c == [kind |-> "invalidate", id |-> inv.id, ws |-> inv.ws]
    <3>1. commands' = commands \/ Post(c)
      BY <2>5 DEF Deliver
    <3>2. c \in Commands
      <4>1. inv.id \in 1 .. MaxCalls /\ inv.ws \in Nat
        BY <1>0, <2>5, TypesSplit, Constants DEF Deliver, CallTypes, Invalidations, Numbered, ListInv
      <4> QED BY <4>1 DEF Commands
    <3>3. c \in Present
      BY <1>0, <2>5, <3>2 DEF Present, Kinds, Deliver
    <3> QED BY <1>0, <2>1, <2>2, <2>3, <3>1, <3>2, <3>3, SentPosted, SentStays
  <2> QED BY <1>7, <2>4, <2>5
<1>8. CASE Reserves \/ ReadyDirect
  <2>1. UNCHANGED <<cws, cnode, covers, inv, commands, buffer>>
    BY <1>8 DEF Reserves, Reserve, ReadyDirect, clientVars, workerVars
  <2>2. ~Direct /\ (disp'.snap.all \/ disp'.snap.ws = cws)
    BY <1>8, Reserving DEF Direct
  <2>3. Present \subseteq Present'
    BY <1>0, <2>1, <2>2, PresentKept
  <2> QED BY <1>0, <2>1, <2>2, <2>3, SentStays
<1>9. CASE Retire \/ Stop \/ Check \/ Ready \/ DispatchFails
  <2>1. UNCHANGED <<cws, cnode, covers, inv, buffer>>
    BY <1>9 DEF Retire, Stop, Check, Ready, DispatchFails, clientVars, workerVars
  <2>2. ~Direct /\ (disp'.phase = "none" \/ (disp'.snap = disp.snap /\ disp.phase # "none"))
    <3>1. ~Direct
      BY <1>9 DEF Retire, Stop, Check, Ready, DispatchFails, Direct
    <3> QED BY <1>0, <1>9, <3>1, Dispatching
  <2>3. Present \subseteq Present'
    BY <1>0, <2>1, <2>2, PresentKept
  <2>4. /\ inv' # NoInv => inv'.ws <= cws'
        /\ disp'.phase # "none" /\ ~disp'.snap.all => disp'.snap.ws <= cws'
    BY <1>0, <2>1, <2>2
  <2>5. CASE commands' = commands
    BY <1>0, <2>1, <2>3, <2>4, <2>5, SentStays
  <2>6. ASSUME NEW c, c \in {[kind |-> "retire", run |-> disp.snap.run], [kind |-> "stop", run |-> disp.snap.run]},
               Post(c), disp.phase # "none"
        PROVE  Sent'
    <3>1. disp.snap.run \in 1 .. MaxCalls
      BY <1>0, <2>6, Constants DEF Numbered, Snapshots, ListInv
    <3>2. c \in Commands
      BY <2>6, <3>1 DEF Commands
    <3>3. c \in Present
      BY <2>6, <3>2 DEF Present, Kinds
    <3> QED BY <1>0, <2>1, <2>3, <2>4, <2>6, <3>2, <3>3, SentPosted
  <2>7. CASE Retire
    BY <2>5, <2>6, <2>7 DEF Retire
  <2>8. CASE Stop
    BY <2>6, <2>8 DEF Stop
  <2>9. CASE Check \/ Ready \/ DispatchFails
    BY <2>5, <2>9 DEF Check, Ready, DispatchFails
  <2> QED BY <1>9, <2>7, <2>8, <2>9
<1>10. CASE PostPrepared \/ PostDirect
  <2>1. /\ UNCHANGED <<cws, cnode, covers, inv, buffer>> /\ ~Direct
        /\ Post([kind |-> "start", snap |-> disp'.snap])
    BY <1>0, <1>10 DEF PostPrepared, PostDirect, clientVars, workerVars, Direct, Dispatches
  <2>2. Present \subseteq Present'
    BY <1>0, <2>1, PresentKept
  <2>3. disp' \in Dispatches /\ [kind |-> "start", snap |-> disp'.snap] \in Commands
    <3>1. disp' \in Dispatches
      BY TypesDispatch, <1>0, <1>10, TypesSplitNext DEF Dispatcher, CallTypes, ListInv
    <3> QED BY <3>1 DEF Dispatches, Commands
  <2>4. \/ ~disp'.snap.all /\ disp'.snap.ws <= cws'
        \/ disp'.snap.all /\ Direct'
    <3>1. CASE PostPrepared
      BY <1>0, <2>1, <3>1 DEF PostPrepared, Dispatches
    <3>2. CASE PostDirect
      BY <1>0, <3>2 DEF PostDirect, Dispatches, Snapshots, Direct
    <3> QED BY <1>10, <3>1, <3>2
  <2>5. [kind |-> "start", snap |-> disp'.snap] \in Present'
    <3>1. disp'.snap.ws <= cws' \/ (Direct' /\ disp'.snap.all /\ disp'.snap.ws = disp'.snap.ws)
      BY <2>4
    <3> QED BY <2>3, <3>1 DEF Present, Reached, Kinds
  <2>6. inv' # NoInv => inv'.ws <= cws'
    BY <1>0, <2>1
  <2> QED BY <1>0, <2>1, <2>2, <2>3, <2>4, <2>5, <2>6, SentPosted
<1>11. CASE ReceiveAnswer \/ ReceiveAck \/ ReceiveRetired \/ ReceiveEnded
  <2>1. UNCHANGED <<cws, cnode, covers, inv, commands, buffer>>
    BY <1>11 DEF ReceiveAnswer, ReceiveAck, ReceiveRetired, ReceiveEnded, clientVars, callVars, workerVars
  <2>2. \/ disp' = disp \/ disp'.phase = "none" \/ (disp'.snap = disp.snap /\ disp.phase # "none")
    BY <1>0, <1>11, Hearing
  <2>3. Direct => Direct' /\ disp'.snap.ws = disp.snap.ws
    <3>1. CASE ReceiveEnded
      BY <1>0, <3>1 DEF ReceiveEnded, Direct, Dispatches
    <3>2. CASE ReceiveAnswer \/ ReceiveAck \/ ReceiveRetired
      BY <3>2 DEF ReceiveAnswer, ReceiveAck, ReceiveRetired, callVars, Direct
    <3> QED BY <1>11, <3>1, <3>2
  <2>4. Present \subseteq Present'
    BY <1>0, <2>1, <2>3, PresentKept
  <2> QED BY <1>0, <2>1, <2>2, <2>4, SentStays
<1>12. CASE ReceiveAccepted
  <2>1. UNCHANGED <<callVars, buffer, inv, disp>>
    BY <1>12 DEF ReceiveAccepted, callVars, workerVars
  <2>2. CASE UNCHANGED <<clientVars, commands>>
    <3>1. Present \subseteq Present'
      BY <1>0, <2>1, <2>2, PresentKept DEF Direct, clientVars
    <3> QED BY <1>0, <2>1, <2>2, <3>1, SentStays DEF clientVars
  <2>3. CASE disp.phase = "posted" /\ Post([kind |-> "cancel", run |-> disp.snap.run]) /\ UNCHANGED clientVars
    <3>1. Present \subseteq Present'
      BY <1>0, <2>1, <2>3, PresentKept DEF Direct, clientVars
    <3>2. disp.snap.run \in 1 .. MaxCalls
      BY <1>0, <2>3, Constants DEF Numbered, Snapshots, ListInv
    <3>3. [kind |-> "cancel", run |-> disp.snap.run] \in Commands
      BY <3>2 DEF Commands
    <3>4. [kind |-> "cancel", run |-> disp.snap.run] \in Present
      BY <3>3 DEF Present, Kinds
    <3> QED BY <1>0, <2>1, <2>3, <3>1, <3>3, <3>4, SentPosted DEF clientVars
  <2>4. CASE /\ disp.phase = "posted" /\ PlanHolds(disp.snap)
             /\ Advance(FALSE, disp.snap.nodes, disp.snap.ws, disp.snap.ne)
             /\ Post([kind |-> "commit", snap |-> disp.snap])
    <3>1. ~Direct
      BY <2>4 DEF Direct
    <3>2. /\ cws' = cws /\ disp.snap.ws = cws /\ Present \subseteq Present'
          /\ \A n \in Nodes : n \in disp.snap.nodes => cnode'[n] = disp.snap.ne[n]
      BY <1>0, <2>4, <3>1, MovedSome
    <3>3. [kind |-> "commit", snap |-> disp.snap] \in Commands
      BY <1>0 DEF Commands
    <3>4. /\ disp.snap.nodes \subseteq Nodes /\ disp.snap.ne \in [Nodes -> Nat]
      BY <1>0 DEF Snapshots
    <3>5. disp.snap.ws = cws' /\ \A n \in disp.snap.nodes : disp.snap.ne[n] <= cnode'[n]
      BY <3>2, <3>4
    <3>6. [kind |-> "commit", snap |-> disp.snap] \in Present'
      BY <3>3, <3>5 DEF Present, Sound, Kinds
    <3> QED BY <1>0, <2>1, <2>4, <3>2, <3>3, <3>6, SentPosted
  <2> QED BY <1>12, <2>2, <2>3, <2>4 DEF ReceiveAccepted
<1> QED BY <1>1, <1>2, <1>3, <1>4, <1>5, <1>6, <1>7, <1>8, <1>9, <1>10, <1>11, <1>12, Steps

---------------------------------------------------------------------------
(* The epochs of the worker.                                               *)

(* What a commit is coming for, or was not adopted of.                     *)
LEMMA AwayKept ==
    ASSUME UNCHANGED <<cws, cnode>>, orphaned \subseteq orphaned',
           \A i \in Slots : i \in Slots' /\ commands'[i] = commands[i]
    PROVE  Away \subseteq Away'
BY DEF Away, Coming

LEMMA AwayTook ==
    ASSUME TypeOK, NEW kinds, Take(kinds), UNCHANGED <<cws, cnode>>, orphaned \subseteq orphaned'
    PROVE  \A n \in Away :
              \/ n \in Away'
              \/ /\ commands[1].kind = "commit" /\ n \in commands[1].snap.nodes
                 /\ commands[1].snap.ws = cws /\ commands[1].snap.ne[n] = cnode[n]
<1>1. \A i \in Slots : i # 1 => i - 1 \in Slots' /\ commands'[i - 1] = commands[i]
  BY TookOne
<1> SUFFICES ASSUME NEW n \in Away,
                    ~(/\ commands[1].kind = "commit" /\ n \in commands[1].snap.nodes
                      /\ commands[1].snap.ws = cws /\ commands[1].snap.ne[n] = cnode[n])
             PROVE  n \in Away'
  OBVIOUS
<1>2. CASE n \in orphaned
  BY <1>2 DEF Away
<1>3. CASE Coming(n)
  <2>1. PICK i \in Slots : /\ commands[i].kind = "commit"
                           /\ n \in commands[i].snap.nodes
                           /\ commands[i].snap.ws = cws
                           /\ commands[i].snap.ne[n] = cnode[n]
    BY <1>3 DEF Coming
  <2>2. i # 1 /\ i - 1 \in Slots' /\ commands'[i - 1] = commands[i]
    BY <1>1, <2>1
  <2>3. \E j \in Slots' : /\ commands'[j].kind = "commit"
                          /\ n \in commands'[j].snap.nodes
                          /\ commands'[j].snap.ws = cws'
                          /\ commands'[j].snap.ne[n] = cnode'[n]
    BY <2>1, <2>2
  <2> QED BY <2>3 DEF Away, Coming
<1> QED BY <1>2, <1>3 DEF Away

LEMMA AgreeKept ==
    ASSUME Agree, alive' => alive, UNCHANGED <<wws, wnode, cws, cnode>>,
           alive => Away \subseteq Away' /\ (Ahead <=> Ahead')
    PROVE  Agree'
BY DEF Agree

LEMMA Epochs ==
    ASSUME TypeOK
    PROVE  /\ cws \in Nat /\ cnode \in [Nodes -> Nat] /\ wws \in Nat /\ wnode \in [Nodes -> Nat]
           /\ disp.snap \in Snapshots /\ disp.snap.ws \in Nat /\ disp \in Dispatches /\ job \in Jobs
           /\ \A r \in Requests : r.ws \in Nat /\ r.ne \in Nat /\ r.node \in Nodes
           /\ \A s \in Snapshots : s.ws \in Nat /\ s.ne \in [Nodes -> Nat] /\ s.nodes \subseteq Nodes
BY SnapsAre, TypesSplit DEF ClientTypes, WorkerTypes, ServedTypes, CallTypes, Requests, Snapshots

LEMMA AgreeExecuted ==
    ASSUME AgreeInv, alive, NEW c \in ViewerCommands, Stamped(c.req), Execute(c),
           UNCHANGED <<cws, cnode, disp>>, Away \subseteq Away'
    PROVE  Agree'
<1>0. TypeOK /\ Agree /\ (Direct => disp.snap.ws = cws + 1)
  BY DEF AgreeInv, ListInv, Following, Direct
<1> DEFINE r == c.req
<1>1. r \in Requests /\ r.ws \in Nat /\ r.ne \in Nat /\ r.node \in Nodes
  BY <1>0, Epochs DEF ViewerCommands
<1>2. cws \in Nat /\ wws \in Nat /\ cnode \in [Nodes -> Nat] /\ wnode \in [Nodes -> Nat]
  BY <1>0, Epochs
<1>3. r.ws <= cws /\ (r.ws = cws => r.ne <= cnode[r.node])
  BY <1>1, <1>2 DEF Stamped
<1>4. CASE UNCHANGED <<wws, wnode>>
  <2>1. Ahead <=> Ahead'
    BY <1>4 DEF Ahead, Direct
  <2>2. UNCHANGED <<wws, wnode, cws, cnode>>
    BY <1>4
  <2>3. Agree => Agree'
    BY <2>1, <2>2 DEF Agree
  <2> QED BY <1>0, <2>3
<1>5. CASE /\ Newer(r) /\ wws' = r.ws
           /\ wnode' = [n \in Nodes |-> IF n = r.node THEN r.ne
                                        ELSE IF r.ws > wws THEN 0 ELSE wnode[n]]
  <2>1. r.ws > wws \/ (r.ws = wws /\ r.ne >= wnode[r.node])
    BY <1>5 DEF Newer
  <2>2. wws <= cws
    BY <1>1, <1>2, <1>3, <2>1
  <2>3. ~Ahead'
    BY <1>0, <1>2, <1>3, <1>5 DEF Ahead, Direct
  <2>4. wws' <= cws'
    BY <1>3, <1>5
  <2>5. wws < cws => \A n \in Nodes : cnode[n] = 0 \/ n \in Away
    BY <1>0 DEF Agree
  <2>6. wws = cws => \A n \in Nodes : wnode[n] = cnode[n] \/ (wnode[n] < cnode[n] /\ n \in Away)
    BY <1>0 DEF Agree
  <2>7. wws' < cws' => \A n \in Nodes : cnode'[n] = 0 \/ n \in Away'
    BY <1>1, <1>2, <1>5, <2>1, <2>5
  <2>8. ASSUME wws' = cws', NEW n \in Nodes
        PROVE  wnode'[n] = cnode'[n] \/ (wnode'[n] < cnode'[n] /\ n \in Away')
    <3>1. r.ws = cws /\ r.ne <= cnode[r.node]
      BY <1>3, <1>5, <2>8
    <3>2. wnode'[n] = IF n = r.node THEN r.ne ELSE IF r.ws > wws THEN 0 ELSE wnode[n]
      BY <1>5
    <3>3. CASE wws < cws
      <4>1. cnode[n] = 0 \/ n \in Away
        BY <2>5, <3>3
      <4>2. IF n = r.node THEN wnode'[n] = r.ne ELSE wnode'[n] = 0
        BY <1>2, <3>1, <3>2, <3>3
      <4>3. cnode[n] \in Nat /\ wnode'[n] \in Nat /\ wnode'[n] <= cnode[n]
        BY <1>1, <1>2, <3>1, <4>2
      <4> QED BY <4>1, <4>3
    <3>4. CASE wws = cws
      <4>1. wnode[n] = cnode[n] \/ (wnode[n] < cnode[n] /\ n \in Away)
        BY <2>6, <3>4
      <4>2. IF n = r.node THEN wnode'[n] = r.ne /\ r.ne >= wnode[n] ELSE wnode'[n] = wnode[n]
        BY <1>1, <1>2, <2>1, <3>1, <3>2, <3>4
      <4>3. cnode[n] \in Nat /\ wnode[n] \in Nat /\ wnode'[n] \in Nat /\ wnode'[n] <= cnode[n]
        BY <1>1, <1>2, <3>1, <4>1, <4>2
      <4> QED BY <4>1, <4>2, <4>3
    <3> QED BY <1>2, <2>2, <3>3, <3>4
  <2> QED BY <2>3, <2>4, <2>7, <2>8 DEF Agree
<1> QED BY <1>4, <1>5 DEF Execute

(* The worker adopts an epoch of the whole workspace.                      *)
LEMMA AgreeAdoptedAll ==
    ASSUME AgreeInv, alive, NEW s, s.all, AdoptEpochs(s), s.ws \in Nat, s.ws > wws,
           s.ws <= cws \/ (Direct /\ s.ws = disp.snap.ws),
           UNCHANGED <<cws, cnode, disp>>, Away \subseteq Away'
    PROVE  Agree'
<1>0. TypeOK /\ Agree /\ (Direct => disp.snap.ws = cws + 1)
  BY DEF AgreeInv, ListInv, Following, Direct
<1>1. cws \in Nat /\ wws \in Nat /\ cnode \in [Nodes -> Nat] /\ wws' = s.ws /\ wnode' = Zero
  BY <1>0, Epochs DEF AdoptEpochs
<1>2. \A n \in Nodes : wnode'[n] = 0 /\ cnode[n] \in Nat
  BY <1>1 DEF Zero
<1>3. wws <= cws => (wws < cws => \A n \in Nodes : cnode[n] = 0 \/ n \in Away)
  BY <1>0 DEF Agree
<1>4. CASE s.ws <= cws
  <2>1. wws < cws
    BY <1>1, <1>4
  <2>2. \A n \in Nodes : cnode'[n] = 0 \/ n \in Away'
    BY <1>1, <1>3, <2>1
  <2>3. \A n \in Nodes : wnode'[n] = cnode'[n] \/ (wnode'[n] < cnode'[n] /\ n \in Away')
    BY <1>2, <2>2
  <2>4. wws' <= cws'
    BY <1>1, <1>4
  <2> QED BY <1>1, <2>2, <2>3, <2>4 DEF Agree
<1>5. CASE Direct /\ s.ws = disp.snap.ws
  <2>1. wws' = cws' + 1 /\ Ahead'
    BY <1>0, <1>1, <1>5 DEF Ahead, Direct
  <2> QED BY <1>1, <2>1 DEF Agree
<1> QED BY <1>4, <1>5

(* The worker adopts a commit it was waiting for.                          *)
LEMMA AgreeAdoptedSome ==
    ASSUME AgreeInv, alive, NEW s \in Snapshots, NEW buffered, ~s.all, Valid(s, buffered),
           AdoptEpochs(s), Sound(s), UNCHANGED <<cws, cnode, disp>>,
           \A n \in Away : n \in Away' \/ (n \in s.nodes /\ s.ws = cws /\ s.ne[n] = cnode[n])
    PROVE  Agree'
<1>0. TypeOK /\ Agree /\ (Direct => disp.snap.ws = cws + 1)
  BY DEF AgreeInv, ListInv, Following, Direct
<1>1. /\ cws \in Nat /\ wws \in Nat /\ cnode \in [Nodes -> Nat] /\ wnode \in [Nodes -> Nat]
      /\ wws' = s.ws /\ wnode' = [n \in Nodes |-> IF n \in s.nodes THEN s.ne[n] ELSE wnode[n]]
      /\ s.ws \in Nat /\ s.ne \in [Nodes -> Nat]
  BY <1>0, Epochs DEF AdoptEpochs
<1>2. s.ws <= cws /\ (s.ws = cws => \A n \in s.nodes : s.ne[n] <= cnode[n])
  BY <1>1 DEF Sound
<1>3. \/ s.ws > wws /\ wnode = Zero
      \/ s.ws = wws /\ \A n \in s.nodes : s.ne[n] = wnode[n] + 1
  BY DEF Valid, Fresh
<1>4. wws <= cws /\ wws' <= cws' /\ ~Ahead'
  BY <1>0, <1>1, <1>2, <1>3 DEF Ahead, Direct
<1>5. /\ wws < cws => \A n \in Nodes : cnode[n] = 0 \/ n \in Away
      /\ wws = cws => \A n \in Nodes : wnode[n] = cnode[n] \/ (wnode[n] < cnode[n] /\ n \in Away)
  BY <1>0 DEF Agree
<1>6. wws' < cws' => \A n \in Nodes : cnode'[n] = 0 \/ n \in Away'
  BY <1>1, <1>3, <1>5
<1>7. ASSUME wws' = cws', NEW n \in Nodes
      PROVE  wnode'[n] = cnode'[n] \/ (wnode'[n] < cnode'[n] /\ n \in Away')
  <2>1. s.ws = cws /\ wnode'[n] = IF n \in s.nodes THEN s.ne[n] ELSE wnode[n]
    BY <1>1, <1>7
  <2>2. cnode[n] \in Nat /\ wnode[n] \in Nat /\ s.ne[n] \in Nat
    BY <1>1
  <2>3. CASE wws < cws
    <3>1. wnode[n] = 0
      BY <1>1, <1>3, <2>1, <2>3 DEF Zero
    <3>2. cnode[n] = 0 \/ n \in Away
      BY <1>5, <2>3
    <3> QED BY <1>2, <2>1, <2>2, <3>1, <3>2
  <2>4. CASE wws = cws
    <3>1. wnode[n] = cnode[n] \/ (wnode[n] < cnode[n] /\ n \in Away)
      BY <1>5, <2>4
    <3>2. n \in s.nodes => s.ne[n] = wnode[n] + 1 /\ s.ne[n] <= cnode[n]
      BY <1>1, <1>2, <1>3, <2>1, <2>4
    <3> QED BY <2>1, <2>2, <3>1, <3>2
  <2> QED BY <1>1, <1>4, <2>3, <2>4
<1> QED BY <1>4, <1>6, <1>7 DEF Agree

LEMMA AgreeServed ==
    ASSUME AgreeInv, Serves
    PROVE  Agree'
<1>0. /\ TypeOK /\ Agree /\ Sent /\ Snapped /\ (Direct => disp.snap.ws = cws + 1)
      /\ alive /\ UNCHANGED <<cws, cnode, disp, alive>>
  BY ServesFrame DEF AgreeInv, ListInv, Following, Direct, clientVars, callVars
<1>1. /\ wws \in Nat /\ cws \in Nat /\ job \in Jobs /\ job.snap \in Snapshots
  BY <1>0, Epochs, SnapsAre
<1>2. ASSUME UNCHANGED <<wws, wnode>>, Away \subseteq Away'
      PROVE  Agree'
  <2>1. Ahead <=> Ahead'
    BY <1>0, <1>2 DEF Ahead, Direct
  <2> QED BY <1>0, <1>2, <2>1, AgreeKept
<1>3. ASSUME NEW kinds, Take(kinds), commands[1].kind # "commit", orphaned' = orphaned
      PROVE  Away \subseteq Away'
  BY <1>0, <1>3, AwayTook
<1>4. ASSUME UNCHANGED <<commands, orphaned>>
      PROVE  Away \subseteq Away'
  BY <1>0, <1>4 DEF Away, Coming, Slots
<1>5. CASE ServeViewer
  <2>1. /\ Take(Kinds) /\ commands[1] = Head(commands) /\ commands[1].kind \in Kinds
        /\ 1 \in Slots /\ orphaned' = orphaned /\ Execute(commands[1])
    BY <1>0, <1>5, TookOne DEF ServeViewer
  <2>2. commands[1] \in ViewerCommands /\ commands[1] \in Present
    BY <1>0, <2>1, InQueue, Carried DEF Sent
  <2>3. Stamped(commands[1].req)
    BY <2>1, <2>2 DEF Present
  <2>4. Away \subseteq Away'
    BY <1>3, <2>1 DEF Kinds
  <2> QED BY <1>0, <2>1, <2>2, <2>3, <2>4, AgreeExecuted
<1>6. CASE FlushViewer
  <2>1. Away \subseteq Away'
    BY <1>4, <1>6 DEF FlushViewer
  <2>2. CASE UNCHANGED <<wws, wnode>>
    BY <1>2, <2>1, <2>2
  <2>3. CASE buffer # <<>> /\ Execute(Head(buffer))
    <3>1. buffer \in Seq(ViewerCommands) /\ Head(buffer) = buffer[1] /\ 1 \in 1 .. Len(buffer)
      BY <1>0, <2>3, Shrank DEF TypeOK
    <3>2. buffer[1] \in ViewerCommands /\ buffer[1] \in Present
      BY <1>0, <3>1, InQueue DEF Sent
    <3>3. Stamped(buffer[1].req)
      BY <3>2 DEF Present, ViewerCommands
    <3> QED BY <1>0, <2>1, <2>3, <3>1, <3>2, <3>3, AgreeExecuted
  <2> QED BY <1>6, <2>2, <2>3 DEF FlushViewer
<1>7. CASE BufferViewer \/ ServeRetire \/ ServeCancel
  <2>1. UNCHANGED <<wws, wnode, orphaned>>
    BY <1>7 DEF BufferViewer, ServeRetire, ServeCancel, GiveUp, workerVars
  <2>2. Take(Kinds) \/ Take({"retire"}) \/ Take({"cancel", "stop"})
    BY <1>7 DEF BufferViewer, ServeRetire, ServeCancel
  <2>3. Away \subseteq Away'
    <3>1. CASE Take(Kinds)
      BY <1>0, <1>3, <2>1, <3>1, TookOne DEF Kinds
    <3>2. CASE Take({"retire"})
      BY <1>0, <1>3, <2>1, <3>2, TookOne
    <3>3. CASE Take({"cancel", "stop"})
      <4>1. commands[1].kind \in {"cancel", "stop"}
        BY <1>0, <3>3, TookOne
      <4> QED BY <1>3, <2>1, <3>3, <4>1
    <3> QED BY <2>2, <3>1, <3>2, <3>3
  <2> QED BY <1>2, <2>1, <2>3
<1>8. CASE PreflightTimeout \/ EndRun \/ OtherRun
  <2>1. UNCHANGED <<wws, wnode, commands, orphaned>>
    BY <1>8 DEF PreflightTimeout, EndRun, OtherRun, GiveUp
  <2> QED BY <1>2, <1>4, <2>1
<1>9. CASE ServeLate
  <2>1. /\ Take({"commit", "cancel", "stop"}) /\ commands[1] = Head(commands) /\ UNCHANGED <<wws, wnode>>
        /\ orphaned' = IF commands[1].kind = "commit" THEN orphaned \cup commands[1].snap.nodes ELSE orphaned
    <3>1. Take({"commit", "cancel", "stop"}) /\ UNCHANGED <<wws, wnode>>
      BY <1>9 DEF ServeLate
    <3>2. commands[1] = Head(commands)
      BY <1>0, <3>1, TookOne
    <3> QED BY <1>9, <3>1, <3>2 DEF ServeLate
  <2>2. orphaned \subseteq orphaned'
    BY <2>1
  <2>3. \A n \in Away : n \in Away' \/ (commands[1].kind = "commit" /\ n \in commands[1].snap.nodes)
    BY <1>0, <2>1, <2>2, AwayTook
  <2>4. \A n \in Away : n \in Nodes
    BY DEF Away
  <2>5. Away \subseteq Away'
    BY <2>1, <2>3, <2>4 DEF Away
  <2> QED BY <1>2, <2>1, <2>5
<1>10. CASE ServeInvalidate
  <2> DEFINE s == [NoSnap EXCEPT !.all = TRUE, !.ws = Head(commands).ws]
  <2>1. /\ Take({"invalidate"}) /\ orphaned' = orphaned
        /\ UNCHANGED <<wws, wnode>> \/ (Valid(s, FALSE) /\ AdoptEpochs(s))
    BY <1>10 DEF ServeInvalidate, Adopt
  <2>2. /\ commands[1] = Head(commands) /\ commands[1].kind = "invalidate" /\ 1 \in Slots
    BY <1>0, <2>1, TookOne
  <2>3. commands[1].ws <= cws /\ commands[1].ws \in Nat
    BY <1>0, <2>2, InQueue, Carried DEF Sent, Present
  <2>4. s.all /\ s.ws = commands[1].ws
    BY <2>2 DEF NoSnap
  <2>5. Away \subseteq Away'
    BY <1>3, <2>1, <2>2
  <2>6. CASE Valid(s, FALSE) /\ AdoptEpochs(s)
    <3>1. s.ws > wws
      BY <2>4, <2>6 DEF Valid
    <3> HIDE DEF s
    <3> QED BY <1>0, <2>3, <2>4, <2>5, <2>6, <3>1, AgreeAdoptedAll
  <2> QED BY <1>2, <2>1, <2>5, <2>6
<1>11. CASE ServeStart
  <2> DEFINE s == Head(commands).snap
  <2>1. /\ Take({"start"}) /\ orphaned' = orphaned
        /\ UNCHANGED <<wws, wnode>> \/ (Valid(s, FALSE) /\ s.all /\ AdoptEpochs(s))
    BY <1>11 DEF ServeStart, StartFails, StartRuns, StartOffers, Offer, Adopt
  <2>2. commands[1] = Head(commands) /\ commands[1].kind = "start" /\ 1 \in Slots
    BY <1>0, <2>1, TookOne
  <2>3. s \in Snapshots /\ s.ws \in Nat /\ Reached(s)
    <3>1. commands[1] \in Present /\ commands[1] \in Commands
      BY <1>0, <2>2, InQueue DEF Sent
    <3>2. Reached(commands[1].snap) /\ commands[1].snap \in Snapshots
      BY <2>2, <3>1, Carried DEF Present
    <3> QED BY <1>0, <2>2, <3>2, Epochs
  <2>4. Away \subseteq Away'
    BY <1>3, <2>1, <2>2
  <2>5. CASE Valid(s, FALSE) /\ s.all /\ AdoptEpochs(s)
    <3>1. s.ws > wws
      BY <2>5 DEF Valid
    <3>2. s.ws <= cws \/ (Direct /\ s.ws = disp.snap.ws)
      BY <2>3 DEF Reached
    <3> HIDE DEF s
    <3> QED BY <1>0, <2>3, <2>4, <2>5, <3>1, <3>2, AgreeAdoptedAll
  <2> QED BY <1>2, <2>1, <2>4, <2>5
<1>12. CASE ServeCommit
  <2> DEFINE s == job.snap
  <2>1. /\ Take({"commit"}) /\ Head(commands).snap.run = s.run /\ job.phase = "preflight"
        /\ \/ Valid(s, buffer # <<>>) /\ AdoptEpochs(s) /\ orphaned' = orphaned
           \/ UNCHANGED <<wws, wnode>> /\ orphaned' = orphaned \cup s.nodes
    BY <1>12 DEF ServeCommit, Adopt, GiveUp
  <2>2. commands[1] = Head(commands) /\ commands[1].kind = "commit" /\ 1 \in Slots
    BY <1>0, <2>1, TookOne
  <2>3. commands[1].snap \in Snaps /\ s \in Snaps /\ s \in Snapshots /\ s.nodes \subseteq Nodes
    BY <1>0, <2>1, <2>2, SnapsAre, Epochs
  <2>4. commands[1].snap = s /\ ~s.all
    BY <1>0, <2>1, <2>2, <2>3 DEF Snapped
  <2>5. Sound(s)
    <3>1. commands[1] \in Present
      BY <1>0, <2>2 DEF Sent
    <3> QED BY <2>2, <2>4, <3>1 DEF Present
  <2>6. orphaned \subseteq orphaned'
    BY <2>1
  <2>7. \A n \in Away : n \in Away' \/ (n \in s.nodes /\ s.ws = cws /\ s.ne[n] = cnode[n])
    BY <1>0, <2>1, <2>4, <2>6, AwayTook
  <2>8. CASE Valid(s, buffer # <<>>) /\ AdoptEpochs(s)
    <3> HIDE DEF s
    <3> QED BY <1>0, <2>3, <2>4, <2>5, <2>7, <2>8, AgreeAdoptedSome
  <2>9. CASE UNCHANGED <<wws, wnode>> /\ orphaned' = orphaned \cup s.nodes
    <3>1. \A n \in Away : n \in Nodes
      BY DEF Away
    <3>2. Away \subseteq Away'
      BY <2>7, <2>9, <3>1 DEF Away
    <3> QED BY <1>2, <2>9, <3>2
  <2> QED BY <2>1, <2>8, <2>9
<1> QED BY <1>5, <1>6, <1>7, <1>8, <1>9, <1>10, <1>11, <1>12 DEF Serves, Worker

LEMMA AgreeNext ==
    ASSUME AgreeInv, [Next]_vars
    PROVE  Agree'
<1>0. /\ TypeOK /\ Agree /\ ListInv /\ Grown /\ Locks /\ (Direct => disp.snap.ws = cws + 1)
      /\ disp \in Dispatches /\ disp.snap \in Snapshots
      /\ cws \in Nat /\ wws \in Nat /\ cnode \in [Nodes -> Nat] /\ wnode \in [Nodes -> Nat]
  BY Epochs DEF AgreeInv, ListInv, Following, Direct
<1>1. CASE Serves
  BY <1>1, AgreeServed
<1>2. CASE Restart
  <2>1. wws' = 0 /\ wnode' = Zero /\ cnode' = Zero /\ cws' \in Nat
    <3>1. wws' = 0 /\ wnode' = Zero
      BY <1>2 DEF Restart
    <3>2. CASE generation > 0
      BY <1>0, <1>2, <3>2 DEF Restart, DropGeneration
    <3>3. CASE ~(generation > 0)
      <4>1. generation = 0
        BY <1>0, <3>3, TypesSplit DEF CallTypes
      <4>2. cnode = Zero /\ UNCHANGED clientVars
        BY <1>0, <1>2, <3>3, <4>1 DEF Restart, Grown
      <4> QED BY <1>0, <3>1, <4>2 DEF clientVars
    <3> QED BY <3>1, <3>2, <3>3
  <2>2. ~Direct'
    <3>1. disp' \in {disp, NoRun} /\ disp.phase \notin {"direct", "ended"}
      BY <1>2 DEF Restart, FailRun, StartLockFree
    <3> QED BY <3>1 DEF Direct, NoRun
  <2>3. \A n \in Nodes : wnode'[n] = 0 /\ cnode'[n] = 0
    BY <2>1 DEF Zero
  <2>4. ~Ahead'
    BY <2>2 DEF Ahead, Direct
  <2> QED BY <2>1, <2>3, <2>4 DEF Agree
<1>3. CASE Crash
  BY <1>3 DEF Crash, Agree
<1>4. CASE Health
  BY <1>4 DEF Health, Agree
<1>5. CASE Invalidate
  <2>1. /\ Advance(TRUE, {}, cws + 1, Zero) /\ UNCHANGED <<alive, wws, wnode, disp>> /\ ~Direct
    BY <1>5 DEF Invalidate, Direct
  <2>2. cws' = cws + 1 /\ cnode' = Zero
    BY <2>1 DEF Advance
  <2>3. ~Ahead /\ ~Ahead'
    BY <2>1 DEF Ahead, Direct
  <2>4. alive => wws <= cws
    BY <1>0, <2>3 DEF Agree
  <2>5. alive' => wws' < cws'
    BY <1>0, <2>1, <2>2, <2>4
  <2>6. \A n \in Nodes : cnode'[n] = 0
    BY <2>2 DEF Zero
  <2> QED BY <1>0, <2>1, <2>2, <2>3, <2>5, <2>6 DEF Agree
<1>6. CASE CommitDirect
  <2>1. /\ Advance(TRUE, {}, disp.snap.ws, Zero) /\ UNCHANGED <<alive, wws, wnode>> /\ Direct
    BY <1>6 DEF CommitDirect, Direct
  <2>2. cws' = cws + 1 /\ cnode' = Zero
    BY <1>0, <2>1 DEF Advance
  <2>3. ~Ahead'
    BY <1>0, <1>6, Dispatching DEF Ahead, Direct
  <2>4. alive => wws <= cws \/ (wws = cws + 1 /\ wnode = Zero)
    BY <1>0, <2>1 DEF Agree, Ahead
  <2>5. \A n \in Nodes : cnode'[n] = 0
    BY <2>2 DEF Zero
  <2>6. wnode = Zero => \A n \in Nodes : wnode'[n] = 0
    BY <2>1 DEF Zero
  <2>7. alive' => wws' <= cws' /\ (wws' = cws' => \A n \in Nodes : wnode'[n] = cnode'[n])
    BY <1>0, <2>1, <2>2, <2>4, <2>5, <2>6
  <2> QED BY <2>3, <2>5, <2>7 DEF Agree
<1>7. ASSUME UNCHANGED <<wws, wnode, cws, cnode, orphaned, alive>>,
             \A i \in Slots : i \in Slots' /\ commands'[i] = commands[i],
             Direct => Direct' /\ disp'.snap = disp.snap,
             Direct' => disp'.snap = disp.snap \/ disp'.snap.ws = cws + 1,
             Direct' => Direct \/ disp'.snap.ws = cws + 1
      PROVE  Agree'
  <2>1. Away \subseteq Away'
    BY <1>7, AwayKept
  <2>2. alive => (Ahead <=> Ahead')
    BY <1>0, <1>7 DEF Ahead, Direct, Agree
  <2> QED BY <1>0, <1>7, <2>1, <2>2, AgreeKept
<1>8. ASSUME commands' = commands
      PROVE  \A i \in Slots : i \in Slots' /\ commands'[i] = commands[i]
  BY <1>8 DEF Slots
<1>9. CASE Requests1 \/ Track \/ UNCHANGED vars
  <2>1. UNCHANGED <<wws, wnode, cws, cnode, orphaned, alive, commands, disp>>
    BY <1>9 DEF Requests1, ReadEpochs, Track, vars, clientVars, callVars, workerVars
  <2> QED BY <1>7, <1>8, <2>1 DEF Direct
<1>10. ASSUME NEW c \in Commands, Post(c)
       PROVE  \A i \in Slots : i \in Slots' /\ commands'[i] = commands[i]
  BY <1>0, <1>10, PostedOne
<1>11. CASE Send \/ Deliver
  <2>1. UNCHANGED <<wws, wnode, cws, cnode, orphaned, alive, disp>>
    BY <1>11 DEF Send, Deliver, clientVars, workerVars
  <2>2. CASE Send
    <3>1. sending # NoSend /\ sending \in [kind : Kinds, step : {"read", "tracked"}, req : Requests]
      BY <1>0, <2>2, TypesSplit DEF Send, CallTypes, Sendings
    <3>2. [kind |-> sending.kind, req |-> sending.req] \in Commands
      BY <3>1 DEF Commands, ViewerCommands
    <3>3. Post([kind |-> sending.kind, req |-> sending.req])
      BY <2>2 DEF Send
    <3>4. \A i \in Slots : i \in Slots' /\ commands'[i] = commands[i]
      BY <1>10, <3>2, <3>3
    <3> QED BY <1>7, <2>1, <3>4 DEF Direct
  <2>3. CASE Deliver
    <3> DEFINE c == [kind |-> "invalidate", id |-> inv.id, ws |-> inv.ws]
    <3>1. commands' = commands \/ Post(c)
      BY <2>3 DEF Deliver
    <3>2. c \in Commands
      <4>1. inv.id \in 1 .. MaxCalls /\ inv.ws \in Nat
        BY <1>0, <2>3, TypesSplit, Constants DEF Deliver, CallTypes, Invalidations, Numbered, ListInv
      <4> QED BY <4>1 DEF Commands
    <3>3. \A i \in Slots : i \in Slots' /\ commands'[i] = commands[i]
      BY <1>8, <1>10, <3>1, <3>2
    <3> QED BY <1>7, <2>1, <3>3 DEF Direct
  <2> QED BY <1>11, <2>2, <2>3
<1>12. CASE Reserves \/ ReadyDirect
  <2>1. UNCHANGED <<wws, wnode, cws, cnode, orphaned, alive, commands>>
    BY <1>12 DEF Reserves, Reserve, ReadyDirect, clientVars, workerVars
  <2>2. ~Direct /\ ~Direct'
    BY <1>12, Reserving DEF Direct
  <2> QED BY <1>7, <1>8, <2>1, <2>2
<1>13. CASE Retire \/ Stop \/ Check \/ Ready \/ DispatchFails
  <2>1. UNCHANGED <<wws, wnode, cws, cnode, orphaned, alive>>
    BY <1>13 DEF Retire, Stop, Check, Ready, DispatchFails, clientVars, workerVars
  <2>2. ~Direct
    BY <1>13 DEF Retire, Stop, Check, Ready, DispatchFails, Direct
  <2>3. ~Direct'
    BY <1>0, <1>13, <2>2, Dispatching DEF Direct
  <2>4. \A i \in Slots : i \in Slots' /\ commands'[i] = commands[i]
    <3>1. CASE commands' = commands
      BY <1>8, <3>1
    <3>2. ASSUME NEW c, c \in {[kind |-> "retire", run |-> disp.snap.run], [kind |-> "stop", run |-> disp.snap.run]},
                 Post(c), disp.phase # "none"
          PROVE  \A i \in Slots : i \in Slots' /\ commands'[i] = commands[i]
      <4>1. disp.snap.run \in 1 .. MaxCalls
        BY <1>0, <3>2, Constants DEF Numbered, Snapshots, ListInv
      <4>2. c \in Commands
        BY <3>2, <4>1 DEF Commands
      <4> QED BY <1>10, <3>2, <4>2
    <3>3. CASE Retire
      BY <3>1, <3>2, <3>3 DEF Retire
    <3>4. CASE Stop
      BY <3>2, <3>4 DEF Stop
    <3>5. CASE Check \/ Ready \/ DispatchFails
      BY <3>1, <3>5 DEF Check, Ready, DispatchFails
    <3> QED BY <1>13, <3>3, <3>4, <3>5
  <2> QED BY <1>7, <2>1, <2>2, <2>3, <2>4
<1>14. CASE PostPrepared \/ PostDirect
  <2>1. /\ UNCHANGED <<wws, wnode, cws, cnode, orphaned, alive>> /\ ~Direct
        /\ Post([kind |-> "start", snap |-> disp'.snap])
        /\ disp'.phase = "posted" \/ disp'.snap.ws = cws + 1
    BY <1>0, <1>14 DEF PostPrepared, PostDirect, clientVars, workerVars, Direct, Dispatches, Snapshots
  <2>2. [kind |-> "start", snap |-> disp'.snap] \in Commands
    <3>1. disp' \in Dispatches
      BY TypesDispatch, <1>0, <1>14, TypesSplitNext DEF Dispatcher, CallTypes, ListInv
    <3> QED BY <3>1 DEF Dispatches, Commands
  <2>3. \A i \in Slots : i \in Slots' /\ commands'[i] = commands[i]
    BY <1>10, <2>1, <2>2
  <2>4. Direct' => disp'.snap.ws = cws + 1
    BY <2>1 DEF Direct
  <2> QED BY <1>7, <2>1, <2>3, <2>4
<1>15. CASE ReceiveAnswer \/ ReceiveAck \/ ReceiveRetired \/ ReceiveEnded
  <2>1. UNCHANGED <<wws, wnode, cws, cnode, orphaned, alive, commands>>
    BY <1>15 DEF ReceiveAnswer, ReceiveAck, ReceiveRetired, ReceiveEnded, clientVars, callVars, workerVars
  <2>2. /\ Direct => Direct' /\ disp'.snap = disp.snap
        /\ Direct' => Direct /\ disp'.snap = disp.snap
    <3>1. CASE ReceiveEnded
      BY <1>0, <3>1 DEF ReceiveEnded, Direct, Dispatches, NoRun
    <3>2. CASE ReceiveAnswer \/ ReceiveAck
      BY <3>2 DEF ReceiveAnswer, ReceiveAck, callVars, Direct
    <3>3. CASE ReceiveRetired
      BY <1>0, <3>3 DEF ReceiveRetired, Direct, Dispatches
    <3> QED BY <1>15, <3>1, <3>2, <3>3
  <2> QED BY <1>7, <1>8, <2>1, <2>2
<1>16. CASE ReceiveAccepted
  <2>1. UNCHANGED <<wws, wnode, orphaned, alive, disp>>
    BY <1>16 DEF ReceiveAccepted, callVars, workerVars
  <2>2. CASE UNCHANGED <<clientVars, commands>>
    BY <1>7, <1>8, <2>1, <2>2 DEF Direct, clientVars
  <2>3. CASE disp.phase = "posted" /\ Post([kind |-> "cancel", run |-> disp.snap.run]) /\ UNCHANGED clientVars
    <3>1. disp.snap.run \in 1 .. MaxCalls
      BY <1>0, <2>3, Constants DEF Numbered, Snapshots, ListInv
    <3>2. [kind |-> "cancel", run |-> disp.snap.run] \in Commands
      BY <3>1 DEF Commands
    <3>3. \A i \in Slots : i \in Slots' /\ commands'[i] = commands[i]
      BY <1>10, <2>3, <3>2
    <3> QED BY <1>7, <2>1, <2>3, <3>3 DEF Direct, clientVars
  <2>4. CASE /\ disp.phase = "posted" /\ PlanHolds(disp.snap)
             /\ Advance(FALSE, disp.snap.nodes, disp.snap.ws, disp.snap.ne)
             /\ Post([kind |-> "commit", snap |-> disp.snap])
    <3> DEFINE s == disp.snap
    <3> SUFFICES ASSUME alive' PROVE Agree'
      BY DEF Agree
    <3>1. ~Direct /\ ~Direct' /\ alive
      BY <2>1, <2>4 DEF Direct
    <3>2. /\ cws' = cws /\ s.ws = cws
          /\ \A n \in Nodes : IF n \in s.nodes
                              THEN cnode'[n] = cnode[n] + 1 /\ cnode'[n] = s.ne[n]
                              ELSE cnode'[n] = cnode[n]
      BY <1>0, <2>4, <3>1, MovedSome
    <3> DEFINE c == [kind |-> "commit", snap |-> s]
               k == Len(commands) + 1
    <3>3. c \in Commands
      BY <1>0 DEF Commands
    <3>4. /\ \A i \in Slots : i \in Slots' /\ commands'[i] = commands[i]
          /\ k \in Slots' /\ commands'[k] = c
      BY <1>0, <2>4, <3>1, <3>3, PostedOne
    <3>5. ASSUME NEW n \in Nodes, n \in s.nodes
          PROVE  n \in Away'
      <4>1. commands'[k].kind = "commit" /\ commands'[k].snap = s
        BY <3>4
      <4>2. \E i \in Slots' : /\ commands'[i].kind = "commit"
                              /\ n \in commands'[i].snap.nodes
                              /\ commands'[i].snap.ws = cws'
                              /\ commands'[i].snap.ne[n] = cnode'[n]
        BY <3>2, <3>4, <3>5, <4>1
      <4> QED BY <3>5, <4>2 DEF Away, Coming
    <3>6. ASSUME NEW n \in Away, n \notin s.nodes
          PROVE  n \in Away'
      <4>1. n \in Nodes
        BY DEF Away
      <4>2. cnode'[n] = cnode[n]
        BY <3>2, <3>6, <4>1
      <4>3. CASE n \in orphaned
        BY <2>1, <4>1, <4>3 DEF Away
      <4>4. CASE Coming(n)
        <5>1. PICK i \in Slots : /\ commands[i].kind = "commit"
                                 /\ n \in commands[i].snap.nodes
                                 /\ commands[i].snap.ws = cws
                                 /\ commands[i].snap.ne[n] = cnode[n]
          BY <4>4 DEF Coming
        <5>2. i \in Slots' /\ commands'[i] = commands[i]
          BY <3>4
        <5>3. \E j \in Slots' : /\ commands'[j].kind = "commit"
                                /\ n \in commands'[j].snap.nodes
                                /\ commands'[j].snap.ws = cws'
                                /\ commands'[j].snap.ne[n] = cnode'[n]
          BY <3>2, <4>2, <5>1, <5>2
        <5> QED BY <4>1, <5>3 DEF Away, Coming
      <4> QED BY <4>3, <4>4 DEF Away
    <3> HIDE DEF s
    <3>7. /\ ~Ahead /\ ~Ahead'
      BY <3>1 DEF Ahead, Direct
    <3>8. wws' <= cws'
      BY <1>0, <2>1, <3>1, <3>2, <3>7 DEF Agree
    <3>9. /\ wws < cws => \A n \in Nodes : cnode[n] = 0 \/ n \in Away
          /\ wws = cws => \A n \in Nodes : wnode[n] = cnode[n] \/ (wnode[n] < cnode[n] /\ n \in Away)
      BY <1>0, <3>1 DEF Agree
    <3>10. wws' < cws' => \A n \in Nodes : cnode'[n] = 0 \/ n \in Away'
      BY <2>1, <3>2, <3>5, <3>6, <3>9
    <3>11. ASSUME wws' = cws', NEW n \in Nodes
           PROVE  wnode'[n] = cnode'[n] \/ (wnode'[n] < cnode'[n] /\ n \in Away')
      <4>1. wnode[n] = cnode[n] \/ (wnode[n] < cnode[n] /\ n \in Away)
        BY <2>1, <3>2, <3>9, <3>11
      <4>2. wnode'[n] = wnode[n] /\ wnode[n] \in Nat /\ cnode[n] \in Nat
        BY <1>0, <2>1
      <4>3. CASE n \in s.nodes
        BY <3>2, <3>5, <4>1, <4>2, <4>3
      <4>4. CASE n \notin s.nodes
        BY <3>2, <3>6, <4>1, <4>2, <4>4
      <4> QED BY <4>3, <4>4
    <3> QED BY <3>7, <3>8, <3>10, <3>11 DEF Agree
  <2> QED BY <1>16, <2>2, <2>3, <2>4 DEF ReceiveAccepted
<1> QED BY <1>1, <1>2, <1>3, <1>4, <1>5, <1>6, <1>9, <1>11, <1>12, <1>13, <1>14, <1>15, <1>16, Steps

LEMMA AgreeInit == Init => AgreeInv
<1> SUFFICES ASSUME Init PROVE AgreeInv
  OBVIOUS
<1>1. ListInv
  BY ListInit
<1>2. /\ disp.phase = "none" /\ job.phase = "idle" /\ ~alive /\ sending = NoSend /\ inv = NoInv
      /\ commands = <<>> /\ buffer = <<>> /\ cnode = Zero /\ waiting = {} /\ events = <<>>
  BY DEF Init, NoRun, NoJob
<1>3. Slots = {} /\ 1 .. Len(buffer) = {}
  BY <1>2 DEF Slots
<1>4. Counting /\ Grown /\ Locks
  BY <1>2 DEF Counting, Grown, Locks, Direct
<1>5. Snaps = {}
  BY <1>2, <1>3 DEF Snaps
<1>6. Snapped /\ Sent /\ Agree
  BY <1>2, <1>3, <1>5 DEF Snapped, Sent, Agree
<1> QED BY <1>1, <1>4, <1>6 DEF AgreeInv

LEMMA AgreeInvNext == AgreeInv /\ [Next]_vars => AgreeInv'
<1> SUFFICES ASSUME AgreeInv, [Next]_vars PROVE AgreeInv'
  OBVIOUS
<1>1. ListInv'
  BY ListNext DEF AgreeInv
<1>2. TypeOK /\ Numbered
  BY DEF AgreeInv, ListInv
<1>3. Counting' /\ Grown' /\ Locks' /\ Snapped'
  BY <1>2, CountingNext, GrownNext, LocksNext, SnappedNext DEF AgreeInv
<1>4. Sent' /\ Agree'
  BY SentNext, AgreeNext
<1> QED BY <1>1, <1>3, <1>4 DEF AgreeInv

(* The two copies of the epochs agree but for a direct start about to be   *)
(* committed, a commit on its way and one the worker gave up, whatever the *)
(* order in which commands, commits and deaths of the worker come.         *)
THEOREM EpochsMatch == Spec => []EpochsAgree
<1>1. AgreeInv => EpochsAgree
  <2> SUFFICES ASSUME AgreeInv, alive PROVE EpochsAgree
    BY DEF EpochsAgree
  <2>1. /\ wws <= cws \/ Ahead
        /\ wws = cws => \A n \in Nodes : wnode[n] = cnode[n] \/ (wnode[n] < cnode[n] /\ n \in Away)
    BY DEF AgreeInv, Agree
  <2>2. \A n \in Away : CommitComing(n) \/ n \in orphaned
    <3>1. commands \in Seq(Commands)
      BY DEF AgreeInv, ListInv, TypeOK
    <3>2. DOMAIN commands = Slots
      BY <3>1 DEF Slots
    <3> QED BY <3>2 DEF Away, Coming, CommitComing
  <2> QED BY <2>1, <2>2 DEF EpochsAgree, Ahead, Direct
<1> QED BY <1>1, AgreeInit, AgreeInvNext, PTL DEF Spec

---------------------------------------------------------------------------
(* What is open, and what is asked for.                                    *)

LEMMA AskedTook ==
    ASSUME TypeOK, NEW kinds, Take(kinds)
    PROVE  \A i \in Asked' : i + 1 \in Asked /\ i \in Nat /\ commands'[i] = commands[i + 1]
<1>1. \A i \in Slots' : i + 1 \in Slots /\ commands'[i] = commands[i + 1]
  BY TookOne
<1>2. \A i \in Slots' : i \in Nat
  BY DEF Slots
<1> QED BY <1>1, <1>2 DEF Asked

LEMMA AskedPosted ==
    ASSUME TypeOK, NEW c \in Commands, Post(c)
    PROVE  \A i \in Asked' : \/ i \in Asked /\ commands'[i] = commands[i]
                             \/ /\ alive /\ c.kind \in Kinds /\ commands'[i] = c
                                /\ i = Len(commands) + 1
<1>1. \A i \in Slots' : \/ i \in Slots /\ commands'[i] = commands[i]
                        \/ alive /\ i = Len(commands) + 1 /\ commands'[i] = c
  BY PostedOne
<1> QED BY <1>1 DEF Asked

LEMMA Indices ==
    /\ Slots \subseteq Nat \ {0} /\ Asked \subseteq Slots /\ Slots' \subseteq Nat \ {0}
    /\ Asked' \subseteq Slots'
BY DEF Slots, Asked

LEMMA BroughtTook ==
    ASSUME TypeOK, NEW kinds, Take(kinds)
    PROVE  \A ws \in Brought : ws \in Brought' \/ Brings(commands[1], ws)
<1> SUFFICES ASSUME NEW ws \in Brought, ~Brings(commands[1], ws)
             PROVE  ws \in Brought'
  OBVIOUS
<1>1. /\ \A i \in Slots : i # 1 => i - 1 \in Slots' /\ commands'[i - 1] = commands[i]
      /\ \A i \in Asked' : i + 1 \in Asked /\ i \in Nat /\ commands'[i] = commands[i + 1]
  BY TookOne, AskedTook
<1>2. ws \in Nat /\ \E j \in Slots : /\ Brings(commands[j], ws)
                                     /\ \A i \in Asked : i > j => commands[i].req.ws = ws
  BY DEF Brought
<1>3. PICK j \in Slots : /\ Brings(commands[j], ws)
                         /\ \A i \in Asked : i > j => commands[i].req.ws = ws
  BY <1>2
<1>4. j # 1 /\ j - 1 \in Slots' /\ commands'[j - 1] = commands[j] /\ j \in Nat
  BY <1>1, <1>3, Indices
<1>5. \A i \in Asked' : i > j - 1 => commands'[i].req.ws = ws
  BY <1>1, <1>3, <1>4
<1>6. Brings(commands'[j - 1], ws)
  BY <1>3, <1>4
<1>7. \E k \in Slots' : /\ Brings(commands'[k], ws)
                        /\ \A i \in Asked' : i > k => commands'[i].req.ws = ws
  BY <1>4, <1>5, <1>6
<1> QED BY <1>2, <1>7 DEF Brought, Brings

LEMMA BroughtPosted ==
    ASSUME TypeOK, NEW c \in Commands, Post(c)
    PROVE  /\ \A ws \in Brought : (c.kind \in Kinds => c.req.ws = ws) => ws \in Brought'
           /\ \A ws \in Nat : alive /\ Brings(c, ws) => ws \in Brought'
<1>1. /\ \A i \in Slots : i \in Slots' /\ commands'[i] = commands[i] /\ i \in Nat /\ i < Len(commands) + 1
      /\ alive => Len(commands) + 1 \in Slots' /\ commands'[Len(commands) + 1] = c
  BY PostedOne
<1>2. \A i \in Asked' : \/ i \in Asked /\ commands'[i] = commands[i]
                        \/ /\ alive /\ c.kind \in Kinds /\ commands'[i] = c
                           /\ i = Len(commands) + 1
  BY AskedPosted
<1>3. ASSUME NEW ws \in Brought, c.kind \in Kinds => c.req.ws = ws
      PROVE  ws \in Brought'
  <2>1. ws \in Nat /\ \E j \in Slots : /\ Brings(commands[j], ws)
                                       /\ \A i \in Asked : i > j => commands[i].req.ws = ws
    BY DEF Brought
  <2>2. PICK j \in Slots : /\ Brings(commands[j], ws)
                           /\ \A i \in Asked : i > j => commands[i].req.ws = ws
    BY <2>1
  <2>3. \A i \in Asked' : i > j => commands'[i].req.ws = ws
    BY <1>2, <1>3, <2>2
  <2>4. \E k \in Slots' : /\ Brings(commands'[k], ws)
                          /\ \A i \in Asked' : i > k => commands'[i].req.ws = ws
    BY <1>1, <2>2, <2>3
  <2> QED BY <2>1, <2>4 DEF Brought, Brings
<1>4. ASSUME NEW ws \in Nat, alive, Brings(c, ws)
      PROVE  ws \in Brought'
  <2> DEFINE k == Len(commands) + 1
  <2>1. k \in Slots' /\ commands'[k] = c
    BY <1>1, <1>4
  <2>2. c.kind \notin Kinds
    BY <1>4 DEF Brings, Kinds
  <2>3. \A i \in Asked' : ~(i > k)
    <3>1. \A i \in Asked' : i \in Slots
      BY <1>2, <2>2, Indices
    <3>2. Len(commands) \in Nat
      BY DEF TypeOK
    <3> QED BY <3>1, <3>2 DEF Slots
  <2> HIDE DEF k
  <2>4. \E j \in Slots' : /\ Brings(commands'[j], ws)
                          /\ \A i \in Asked' : i > j => commands'[i].req.ws = ws
    BY <1>4, <2>1, <2>3
  <2> QED BY <2>4 DEF Brought, Brings
<1> QED BY <1>3, <1>4

LEMMA OperatedIs ==
    ASSUME NEW kind \in Kinds, NEW r, NEW done, NEW old
    PROVE  \/ Operated(kind, r, done, old) = old
           \/ Operated(kind, r, done, old) = [state |-> "open", stamp |-> r.stamp]
           \/ Operated(kind, r, done, old) = [old EXCEPT !.state = "closed"]
BY DEF Operated, Kinds

(* What an executed command opens is of the epochs it carried.             *)
LEMMA OpenedBy ==
    ASSUME TypeOK, NEW c \in ViewerCommands, Execute(c)
    PROVE  \/ UNCHANGED <<wws, wnode, sessions>> /\ ~Newer(c.req)
           \/ /\ Newer(c.req) /\ wws' = c.req.ws
              /\ wnode'[c.req.node] = c.req.ne
              /\ \A n \in Opened' :
                    \/ n = c.req.node /\ sessions'[n].stamp = c.req.stamp
                    \/ /\ n \in Opened /\ sessions'[n] = sessions[n]
                       /\ wws' = wws /\ wnode'[n] = wnode[n]
<1> DEFINE r == c.req
           kept == IF r.ws > wws THEN Invalidated(Nodes)
                   ELSE IF r.ne > wnode[r.node] THEN Invalidated({r.node})
                   ELSE sessions
<1>1. /\ r \in Requests /\ r.ws \in Nat /\ r.ne \in Nat /\ r.node \in Nodes /\ c.kind \in Kinds
      /\ wws \in Nat /\ wnode \in [Nodes -> Nat]
  BY Epochs DEF ViewerCommands
<1>2. sessions \in [Nodes -> Sessions]
  BY TypesSplit DEF WorkerTypes, ServedTypes
<1>3. \A n \in Nodes :
         \/ kept[n] = sessions[n] /\ ~(r.ws > wws) /\ (n = r.node => ~(r.ne > wnode[n]))
         \/ kept[n].state # "open"
  <2> SUFFICES ASSUME NEW n \in Nodes
               PROVE \/ kept[n] = sessions[n] /\ ~(r.ws > wws) /\ (n = r.node => ~(r.ne > wnode[n]))
                     \/ kept[n].state # "open"
    OBVIOUS
  <2>1. \A ns \in SUBSET Nodes : /\ n \in ns => Invalidated(ns)[n].state # "open"
                                 /\ n \notin ns => Invalidated(ns)[n] = sessions[n]
    BY <1>2 DEF Invalidated, Sessions
  <2>2. CASE r.ws > wws
    <3>1. kept = Invalidated(Nodes)
      BY <2>2
    <3> QED BY <2>1, <3>1
  <2>3. CASE ~(r.ws > wws) /\ r.ne > wnode[r.node]
    <3>1. kept = Invalidated({r.node}) /\ {r.node} \in SUBSET Nodes
      BY <1>1, <2>3
    <3> QED BY <2>1, <2>3, <3>1
  <2>4. CASE ~(r.ws > wws) /\ ~(r.ne > wnode[r.node])
    BY <2>4
  <2> QED BY <2>2, <2>3, <2>4
<1>4. kept \in [Nodes -> Sessions]
  BY <1>2 DEF Invalidated, Sessions
<1> HIDE DEF kept
<1>5. CASE UNCHANGED <<wws, wnode, sessions>> /\ ~Newer(r)
  BY <1>5
<1>6. ASSUME Newer(r), wws' = r.ws,
             wnode' = [n \in Nodes |-> IF n = r.node THEN r.ne
                                       ELSE IF r.ws > wws THEN 0 ELSE wnode[n]],
             NEW done, sessions' = [kept EXCEPT ![r.node] = Operated(c.kind, r, done, @)]
      PROVE  /\ wnode'[r.node] = r.ne
             /\ \A n \in Opened' :
                   \/ n = r.node /\ sessions'[n].stamp = r.stamp
                   \/ /\ n \in Opened /\ sessions'[n] = sessions[n]
                      /\ wws' = wws /\ wnode'[n] = wnode[n]
  <2>1. wnode'[r.node] = r.ne
    BY <1>1, <1>6
  <2>2. r.ws > wws \/ (r.ws = wws /\ r.ne >= wnode[r.node])
    BY <1>6 DEF Newer
  <2>3. ASSUME NEW n \in Nodes, sessions'[n].state = "open",
               ~(n = r.node /\ sessions'[n].stamp = r.stamp)
        PROVE  /\ n \in Opened /\ sessions'[n] = sessions[n]
               /\ wws' = wws /\ wnode'[n] = wnode[n]
    <3>1. sessions'[n] = IF n = r.node THEN Operated(c.kind, r, done, kept[n]) ELSE kept[n]
      BY <1>4, <1>6
    <3>2. sessions'[n] = kept[n]
      <4>1. CASE n = r.node
        <5>1. \/ sessions'[n] = kept[n]
              \/ sessions'[n] = [state |-> "open", stamp |-> r.stamp]
              \/ sessions'[n] = [kept[n] EXCEPT !.state = "closed"]
          BY <1>1, <3>1, <4>1, OperatedIs
        <5>2. kept[n] \in Sessions
          BY <1>4
        <5>3. [kept[n] EXCEPT !.state = "closed"].state = "closed"
          BY <5>2 DEF Sessions
        <5>4. sessions'[n] # [state |-> "open", stamp |-> r.stamp]
          BY <2>3, <4>1
        <5>5. sessions'[n] # [kept[n] EXCEPT !.state = "closed"]
          BY <2>3, <5>3
        <5> QED BY <5>1, <5>4, <5>5
      <4> QED BY <3>1, <4>1
    <3>3. kept[n] = sessions[n] /\ ~(r.ws > wws) /\ (n = r.node => ~(r.ne > wnode[n]))
      BY <1>3, <2>3, <3>2
    <3>4. r.ws = wws /\ wnode'[n] = IF n = r.node THEN r.ne ELSE wnode[n]
      BY <1>1, <1>6, <2>2, <3>3
    <3>5. wnode'[n] = wnode[n]
      BY <1>1, <2>2, <3>3, <3>4
    <3>6. n \in Opened
      BY <2>3, <3>2, <3>3 DEF Opened
    <3> QED BY <1>6, <3>2, <3>3, <3>4, <3>5, <3>6
  <2>4. \A n \in Opened' : n \in Nodes /\ sessions'[n].state = "open"
    BY DEF Opened
  <2> QED BY <2>1, <2>3, <2>4
<1>7. \/ UNCHANGED <<wws, wnode, sessions>> /\ ~Newer(r)
      \/ /\ Newer(r) /\ wws' = r.ws
         /\ wnode' = [n \in Nodes |-> IF n = r.node THEN r.ne
                                      ELSE IF r.ws > wws THEN 0 ELSE wnode[n]]
         /\ \E done \in BOOLEAN : sessions' = [kept EXCEPT ![r.node] = Operated(c.kind, r, done, @)]
  BY DEF Execute, kept
<1> QED BY <1>5, <1>6, <1>7

(* Whatever moves the epochs of the client on makes nothing late.          *)
LEMMA TimelyMoved ==
    ASSUME TypeOK, NEW all \in BOOLEAN, NEW nodes \in SUBSET Nodes, NEW ws \in Nat,
           NEW ne \in [Nodes -> Nat], Advance(all, nodes, ws, ne), Onward(all, nodes, ws, ne),
           UNCHANGED <<wws, wnode, sessions>>
    PROVE  Timely \subseteq Timely'
<1>0. /\ cws \in Nat /\ cnode \in [Nodes -> Nat] /\ wws \in Nat /\ wnode \in [Nodes -> Nat]
      /\ covers \in [Nodes -> Nat \ {0}]
  BY Epochs, TypesSplit DEF ClientTypes
<1> SUFFICES ASSUME NEW n \in Timely PROVE n \in Timely'
  OBVIOUS
<1>1. /\ n \in Nodes
      /\ \/ wws < cws
         \/ wws = cws /\ wnode[n] < cnode[n]
         \/ wws = cws /\ wnode[n] = cnode[n] /\ sessions[n].stamp = covers[n]
  BY DEF Timely
<1>2. CASE all /\ ws > cws
  <2>1. wws' < cws'
    BY <1>0, <1>1, <1>2 DEF Advance
  <2> QED BY <1>1, <2>1 DEF Timely
<1>3. CASE ~all /\ ws = cws /\ \A m \in nodes : ne[m] = cnode[m] + 1
  <2>1. cws' = cws /\ wws' = wws /\ wnode'[n] = wnode[n] /\ sessions'[n] = sessions[n]
    BY <1>3 DEF Advance
  <2>2. /\ n \in nodes => cnode'[n] = cnode[n] + 1
        /\ n \notin nodes => cnode'[n] = cnode[n] /\ covers'[n] = covers[n]
    BY <1>0, <1>1, <1>3 DEF Advance
  <2>3. cnode[n] \in Nat /\ wnode[n] \in Nat
    BY <1>0, <1>1
  <2>4. \/ wws' < cws'
        \/ wws' = cws' /\ wnode'[n] < cnode'[n]
        \/ wws' = cws' /\ wnode'[n] = cnode'[n] /\ sessions'[n].stamp = covers'[n]
    BY <1>1, <2>1, <2>2, <2>3
  <2> QED BY <1>1, <2>4 DEF Timely
<1> QED BY <1>2, <1>3 DEF Onward

LEMMA ShownExecuted ==
    ASSUME AgreeInv, Shown, alive, NEW c \in ViewerCommands, Stamped(c.req), Execute(c),
           UNCHANGED <<cws, cnode, covers>>
    PROVE  Opened' \subseteq Timely'
<1>0. TypeOK /\ Opened \subseteq Timely
  BY DEF AgreeInv, ListInv, Shown
<1>1. c.req \in Requests /\ c.req.ws \in Nat /\ c.req.ne \in Nat /\ c.req.node \in Nodes
  BY <1>0, Epochs DEF ViewerCommands
<1>2. CASE UNCHANGED <<wws, wnode, sessions>>
  BY <1>0, <1>2 DEF Opened, Timely
<1>3. CASE /\ wws' = c.req.ws /\ wnode'[c.req.node] = c.req.ne
           /\ \A n \in Opened' :
                 \/ n = c.req.node /\ sessions'[n].stamp = c.req.stamp
                 \/ /\ n \in Opened /\ sessions'[n] = sessions[n]
                    /\ wws' = wws /\ wnode'[n] = wnode[n]
  <2> SUFFICES ASSUME NEW n \in Opened' PROVE n \in Timely'
    OBVIOUS
  <2>1. n \in Nodes
    BY DEF Opened
  <2>2. CASE n = c.req.node /\ sessions'[n].stamp = c.req.stamp
    <3>1. \/ wws' < cws'
          \/ wws' = cws' /\ wnode'[n] < cnode'[n]
          \/ wws' = cws' /\ wnode'[n] = cnode'[n] /\ sessions'[n].stamp = covers'[n]
      BY <1>3, <2>2 DEF Stamped
    <3> QED BY <2>1, <3>1 DEF Timely
  <2>3. CASE /\ n \in Opened /\ sessions'[n] = sessions[n] /\ wws' = wws /\ wnode'[n] = wnode[n]
    <3>1. n \in Timely
      BY <1>0, <2>3
    <3> QED BY <2>3, <3>1 DEF Timely
  <2> QED BY <1>3, <2>2, <2>3
<1> QED BY <1>0, <1>2, <1>3, OpenedBy

(* What is adopted closes the sessions it is about.                        *)
LEMMA Closed ==
    ASSUME TypeOK, NEW s, Adopt(s)
    PROVE  /\ wws' = s.ws
           /\ s.all => Opened' = {}
           /\ ~s.all => \A n \in Opened' : /\ n \in Opened /\ n \notin s.nodes
                                           /\ sessions'[n] = sessions[n] /\ wnode'[n] = wnode[n]
<1>1. sessions \in [Nodes -> Sessions] /\ wnode \in [Nodes -> Nat]
  BY TypesSplit DEF WorkerTypes, ServedTypes
<1>2. \A n \in Nodes : /\ n \in NodesOf(s) => sessions'[n].state # "open"
                       /\ n \notin NodesOf(s) => sessions'[n] = sessions[n]
  BY <1>1 DEF Adopt, Invalidated, Sessions
<1>3. wws' = s.ws /\ (~s.all => \A n \in Nodes : n \notin s.nodes => wnode'[n] = wnode[n])
  BY DEF Adopt, AdoptEpochs
<1>4. \A n \in Opened' : n \in Nodes /\ sessions'[n].state = "open"
  BY DEF Opened
<1>5. s.all => NodesOf(s) = Nodes
  BY DEF NodesOf
<1>6. ~s.all => NodesOf(s) = s.nodes
  BY DEF NodesOf
<1>7. s.all => Opened' = {}
  BY <1>2, <1>4, <1>5
<1>8. ~s.all => \A n \in Opened' : /\ n \in Opened /\ n \notin s.nodes
                                   /\ sessions'[n] = sessions[n] /\ wnode'[n] = wnode[n]
  <2> SUFFICES ASSUME ~s.all, NEW n \in Opened'
               PROVE  /\ n \in Opened /\ n \notin s.nodes
                      /\ sessions'[n] = sessions[n] /\ wnode'[n] = wnode[n]
    OBVIOUS
  <2>1. n \in Nodes /\ n \notin s.nodes /\ sessions'[n] = sessions[n] /\ sessions'[n].state = "open"
    BY <1>2, <1>4, <1>6
  <2> QED BY <1>3, <2>1 DEF Opened
<1> QED BY <1>3, <1>7, <1>8

(* What the worker does opens nothing, closes all, or executes a command.  *)
Executes == \/ ServeViewer /\ Execute(commands[1]) /\ commands[1] \in ViewerCommands
                 /\ Stamped(commands[1].req)
            \/ /\ FlushViewer /\ buffer # <<>> /\ Execute(buffer[1])
               /\ buffer[1] \in ViewerCommands /\ Stamped(buffer[1].req)
AdoptsAll == \/ \E s : /\ ServeStart /\ s = commands[1].snap /\ s.all /\ s.ws > wws /\ Adopt(s)
             \/ \E s : /\ ServeInvalidate /\ s.ws = commands[1].ws /\ s.all /\ s.ws > wws
                       /\ Adopt(s)
AdoptsSome == /\ ServeCommit /\ Valid(job.snap, buffer # <<>>) /\ Adopt(job.snap)
              /\ ~job.snap.all /\ Sound(job.snap) /\ buffer' = buffer

LEMMA ServesWhat ==
    ASSUME AgreeInv, Serves
    PROVE  UNCHANGED <<wws, wnode, sessions>> \/ Executes \/ AdoptsAll \/ AdoptsSome
<1>0. TypeOK /\ Sent /\ Snapped
  BY DEF AgreeInv, ListInv
<1>1. CASE ServeViewer
  <2>1. /\ Take(Kinds) /\ commands[1] = Head(commands) /\ commands[1].kind \in Kinds
        /\ 1 \in Slots /\ Execute(commands[1])
    BY <1>0, <1>1, TookOne DEF ServeViewer
  <2>2. commands[1] \in ViewerCommands /\ commands[1] \in Present
    BY <1>0, <2>1, InQueue, Carried DEF Sent
  <2>3. Stamped(commands[1].req)
    BY <2>1, <2>2 DEF Present
  <2> QED BY <1>1, <2>1, <2>2, <2>3 DEF Executes
<1>2. CASE FlushViewer
  <2>1. CASE UNCHANGED <<wws, wnode, sessions>>
    BY <2>1
  <2>2. CASE buffer # <<>> /\ Execute(Head(buffer))
    <3>1. buffer \in Seq(ViewerCommands) /\ Head(buffer) = buffer[1] /\ 1 \in 1 .. Len(buffer)
      BY <1>0, <2>2, Shrank DEF TypeOK
    <3>2. buffer[1] \in ViewerCommands /\ buffer[1] \in Present
      BY <1>0, <3>1, InQueue DEF Sent
    <3>3. Stamped(buffer[1].req)
      BY <3>2 DEF Present, ViewerCommands
    <3> QED BY <1>2, <2>2, <3>1, <3>2, <3>3 DEF Executes
  <2> QED BY <1>2, <2>1, <2>2 DEF FlushViewer
<1>3. CASE ServeInvalidate
  <2> DEFINE s == [NoSnap EXCEPT !.all = TRUE, !.ws = Head(commands).ws]
  <2>1. /\ Take({"invalidate"})
        /\ UNCHANGED <<wws, wnode, sessions>> \/ (Valid(s, FALSE) /\ Adopt(s))
    BY <1>3 DEF ServeInvalidate
  <2>2. commands[1] = Head(commands)
    BY <1>0, <2>1, TookOne
  <2>3. s.all /\ s.ws = commands[1].ws
    BY <2>2 DEF NoSnap
  <2>4. Valid(s, FALSE) => s.ws > wws
    BY <2>3 DEF Valid
  <2> HIDE DEF s
  <2> QED BY <1>3, <2>1, <2>3, <2>4 DEF AdoptsAll
<1>4. CASE ServeStart
  <2> DEFINE s == Head(commands).snap
  <2>1. /\ Take({"start"})
        /\ UNCHANGED <<wws, wnode, sessions>> \/ (Valid(s, FALSE) /\ s.all /\ Adopt(s))
    BY <1>4 DEF ServeStart, StartFails, StartRuns, StartOffers, Offer
  <2>2. commands[1] = Head(commands)
    BY <1>0, <2>1, TookOne
  <2>3. Valid(s, FALSE) /\ s.all => s.ws > wws
    BY DEF Valid
  <2> QED BY <1>4, <2>1, <2>2, <2>3 DEF AdoptsAll
<1>5. CASE ServeCommit
  <2> DEFINE s == job.snap
  <2>1. /\ Take({"commit"}) /\ Head(commands).snap.run = s.run /\ job.phase = "preflight"
        /\ \/ Valid(s, buffer # <<>>) /\ Adopt(s) /\ buffer' = buffer
           \/ UNCHANGED <<wws, wnode, sessions>>
    BY <1>5 DEF ServeCommit, GiveUp
  <2>2. commands[1] = Head(commands) /\ commands[1].kind = "commit" /\ 1 \in Slots
    BY <1>0, <2>1, TookOne
  <2>3. commands[1].snap \in Snaps /\ s \in Snaps
    BY <1>0, <2>1, <2>2, SnapsAre
  <2>4. commands[1].snap = s /\ ~s.all
    BY <1>0, <2>1, <2>2, <2>3 DEF Snapped
  <2>5. Sound(s)
    <3>1. commands[1] \in Present
      BY <1>0, <2>2 DEF Sent
    <3> QED BY <2>2, <2>4, <3>1 DEF Present
  <2> QED BY <1>5, <2>1, <2>4, <2>5 DEF AdoptsSome
<1>6. CASE BufferViewer \/ ServeRetire \/ ServeCancel \/ ServeLate \/ PreflightTimeout \/ EndRun \/ OtherRun
  BY <1>6 DEF BufferViewer, ServeRetire, ServeCancel, ServeLate, PreflightTimeout, EndRun, OtherRun,
      GiveUp, workerVars
<1> QED BY <1>1, <1>2, <1>3, <1>4, <1>5, <1>6 DEF Serves, Worker

LEMMA ShownServed ==
    ASSUME AgreeInv, Shown, Serves
    PROVE  Shown'
<1>0. /\ TypeOK /\ alive /\ UNCHANGED <<cws, cnode, covers>> /\ Opened \subseteq Timely
  BY ServesFrame DEF AgreeInv, ListInv, clientVars, Shown
<1>1. CASE UNCHANGED <<wws, wnode, sessions>>
  BY <1>0, <1>1 DEF Shown, Opened, Timely
<1>2. CASE Executes
  BY <1>0, <1>2, ShownExecuted DEF Executes, Shown
<1>3. CASE AdoptsAll
  BY <1>0, <1>3, Closed DEF AdoptsAll, Shown
<1>4. CASE AdoptsSome
  <2> DEFINE s == job.snap
  <2>1. /\ wws' = s.ws
        /\ \A n \in Opened' : /\ n \in Opened /\ n \notin s.nodes
                              /\ sessions'[n] = sessions[n] /\ wnode'[n] = wnode[n]
    BY <1>0, <1>4, Closed DEF AdoptsSome
  <2>2. s.ws = wws \/ \A n \in Nodes : sessions[n].state = "none"
    BY <1>4 DEF AdoptsSome, Valid, Fresh
  <2>3. ASSUME NEW n \in Opened' PROVE n \in Timely'
    <3>1. n \in Opened /\ n \in Timely
      BY <1>0, <2>1
    <3>2. wws' = wws
      BY <2>1, <2>2, <3>1 DEF Opened
    <3> QED BY <1>0, <2>1, <3>1, <3>2 DEF Timely
  <2> QED BY <2>3 DEF Shown
<1> QED BY <1>1, <1>2, <1>3, <1>4, ServesWhat

LEMMA ShownNext ==
    ASSUME AgreeInv, Shown, [Next]_vars
    PROVE  Shown'
<1>0. TypeOK /\ ListInv /\ disp.snap \in Snapshots /\ cws \in Nat /\ disp.snap.ws \in Nat
  BY Epochs DEF AgreeInv, ListInv
<1>1. CASE Serves
  BY <1>1, ShownServed
<1>2. CASE Restart
  <2>1. Opened' = {}
    BY <1>2 DEF Restart, NoSession, Opened
  <2> QED BY <2>1 DEF Shown
<1>3. CASE Crash \/ Health
  BY <1>3 DEF Crash, Health, Shown
<1>4. ASSUME UNCHANGED <<clientVars, wws, wnode, sessions, alive>>
      PROVE  Shown'
  BY <1>4 DEF Shown, Opened, Timely, clientVars
<1>5. ASSUME UNCHANGED <<wws, wnode, sessions, alive>>, Timely \subseteq Timely'
      PROVE  Shown'
  BY <1>5 DEF Shown, Opened
<1>6. CASE Invalidate \/ CommitDirect
  <2>1. ASSUME NEW ws \in Nat, ws > cws, Advance(TRUE, {}, ws, Zero),
               UNCHANGED <<wws, wnode, sessions, alive>>
        PROVE  Shown'
    <3>1. {} \in SUBSET Nodes /\ Zero \in [Nodes -> Nat] /\ TRUE \in BOOLEAN
      BY Constants
    <3>2. Onward(TRUE, {}, ws, Zero)
      BY <2>1 DEF Onward
    <3>3. UNCHANGED <<wws, wnode, sessions>>
      BY <2>1
    <3>4. Timely \subseteq Timely'
      BY <1>0, <2>1, <3>1, <3>2, <3>3, TimelyMoved
    <3> QED BY <1>5, <2>1, <3>4
  <2>2. CASE Invalidate
    <3>1. Advance(TRUE, {}, cws + 1, Zero) /\ UNCHANGED <<wws, wnode, sessions, alive>>
      BY <2>2 DEF Invalidate
    <3>2. cws + 1 \in Nat /\ cws + 1 > cws
      BY <1>0
    <3> QED BY <2>1, <3>1, <3>2
  <2>3. CASE CommitDirect
    <3>1. /\ Advance(TRUE, {}, disp.snap.ws, Zero) /\ UNCHANGED <<wws, wnode, sessions, alive>>
          /\ disp.phase \in {"direct", "ended"}
      BY <2>3 DEF CommitDirect
    <3>2. disp.snap.ws > cws
      BY <1>0, <3>1 DEF ListInv, Following
    <3> QED BY <1>0, <2>1, <3>1, <3>2
  <2> QED BY <1>6, <2>2, <2>3
<1>7. CASE ReceiveAccepted
  <2>1. UNCHANGED <<wws, wnode, sessions, alive>>
    BY <1>7 DEF ReceiveAccepted, workerVars
  <2>2. CASE UNCHANGED clientVars
    BY <1>4, <2>1, <2>2
  <2>3. CASE PlanHolds(disp.snap) /\ Advance(FALSE, disp.snap.nodes, disp.snap.ws, disp.snap.ne)
    <3> DEFINE s == disp.snap
    <3>1. s.nodes \in SUBSET Nodes /\ s.ws \in Nat /\ s.ne \in [Nodes -> Nat] /\ FALSE \in BOOLEAN
      BY <1>0 DEF Snapshots
    <3>2. Onward(FALSE, s.nodes, s.ws, s.ne)
      BY <2>3 DEF Onward, PlanHolds
    <3>3. UNCHANGED <<wws, wnode, sessions>>
      BY <2>1
    <3>4. Timely \subseteq Timely'
      BY <1>0, <2>3, <3>1, <3>2, <3>3, TimelyMoved
    <3> QED BY <1>5, <2>1, <3>4
  <2> QED BY <1>7, <2>2, <2>3 DEF ReceiveAccepted
<1>8. CASE Deliver \/ Requests1 \/ Send \/ Reserves \/ ReadyDirect \/ Retire \/ Check \/ Ready
  BY <1>4, <1>8 DEF Deliver, Requests1, ReadEpochs, Send, Reserves, Reserve, ReadyDirect, Retire,
      Check, Ready, workerVars
<1>9. CASE PostPrepared \/ PostDirect \/ DispatchFails \/ Stop \/ ReceiveAck \/ ReceiveRetired
           \/ ReceiveEnded \/ UNCHANGED vars
  BY <1>4, <1>9 DEF PostPrepared, PostDirect, DispatchFails, Stop, ReceiveAck, ReceiveRetired,
      ReceiveEnded, vars, workerVars
<1>10. CASE Track \/ ReceiveAnswer
  <2>1. UNCHANGED <<cws, cnode, covers, wws, wnode, sessions, alive>>
    BY <1>10 DEF Track, ReceiveAnswer, workerVars
  <2> QED BY <2>1 DEF Shown, Opened, Timely
<1> QED BY <1>1, <1>2, <1>3, <1>6, <1>7, <1>8, <1>9, <1>10, Steps

---------------------------------------------------------------------------
(* Around a direct start and a preflight.                                  *)

LEMMA PutAsideNext ==
    ASSUME TypeOK, PutAside, [Next]_vars
    PROVE  PutAside'
<1>0. job \in Jobs
  BY Epochs
<1>1. CASE Serves
  <2>1. CASE ServeViewer \/ ServeInvalidate \/ ServeRetire \/ ServeLate \/ OtherRun \/ BufferViewer
    <3>1. job' = job /\ (buffer' = buffer \/ job.phase = "preflight")
      BY <2>1 DEF ServeViewer, ServeInvalidate, ServeRetire, ServeLate, OtherRun, BufferViewer, workerVars
    <3> QED BY <3>1 DEF PutAside
  <2>2. CASE FlushViewer
    <3>1. \/ buffer' = buffer /\ buffer = <<>>
          \/ job' = job /\ job.phase = "flush"
      BY <2>2 DEF FlushViewer
    <3> QED BY <3>1 DEF PutAside
  <2>3. CASE ServeStart \/ EndRun
    <3>1. buffer' = buffer /\ job.phase \in {"idle", "running"}
      BY <2>3 DEF ServeStart, StartFails, StartRuns, StartOffers, EndRun
    <3> QED BY <3>1 DEF PutAside
  <2>4. CASE ServeCommit \/ ServeCancel \/ PreflightTimeout
    <3>1. buffer' = <<>> \/ job'.phase = "flush"
      BY <1>0, <2>4 DEF ServeCommit, ServeCancel, PreflightTimeout, GiveUp, Jobs
    <3> QED BY <3>1 DEF PutAside
  <2> QED BY <1>1, <2>1, <2>2, <2>3, <2>4 DEF Serves, Worker
<1>2. CASE Restart
  BY <1>2 DEF Restart, PutAside
<1>3. ASSUME UNCHANGED <<buffer, job>> PROVE PutAside'
  BY <1>3 DEF PutAside
<1>4. CASE Crash \/ Health \/ Invalidate \/ Deliver \/ Requests1 \/ Track \/ Send
  BY <1>3, <1>4 DEF Crash, Health, Invalidate, Deliver, Requests1, ReadEpochs, Track, Send, workerVars
<1>5. CASE Reserves \/ ReadyDirect \/ Retire \/ Check \/ Ready \/ PostPrepared \/ PostDirect \/ CommitDirect
           \/ DispatchFails \/ Stop
  BY <1>3, <1>5 DEF Reserves, Reserve, ReadyDirect, Retire, Check, Ready, PostPrepared, PostDirect,
     CommitDirect, DispatchFails, Stop, workerVars
<1>6. CASE ReceiveAnswer \/ ReceiveAck \/ ReceiveRetired \/ ReceiveAccepted \/ ReceiveEnded \/ UNCHANGED vars
  BY <1>3, <1>6 DEF ReceiveAnswer, ReceiveAck, ReceiveRetired, ReceiveAccepted, ReceiveEnded, vars, workerVars
<1> QED BY <1>1, <1>2, <1>4, <1>5, <1>6, Steps

LEMMA ServesQueue ==
    ASSUME Serves
    PROVE  commands' = commands \/ \E kinds : Take(kinds)
BY DEF Serves, Worker, ServeViewer, BufferViewer, FlushViewer, ServeInvalidate, ServeRetire,
   ServeStart, StartFails, StartRuns, StartOffers, ServeCommit, ServeCancel, ServeLate,
   PreflightTimeout, EndRun, OtherRun

LEMMA TrailingKept ==
    ASSUME TypeOK, Trailing, cws' \in Nat, cws' >= cws,
           \A i \in Slots' : i \in Slots /\ commands'[i] = commands[i]
    PROVE  Trailing'
<1>1. \A i \in Slots : commands[i].kind = "start" => commands[i].snap.ws \in Nat
  BY InQueue, Carried, Epochs
<1>2. cws \in Nat
  BY Epochs
<1>3. ASSUME NEW i \in Slots', commands'[i].kind = "start", commands'[i].snap.ws > cws', NEW k \in Asked'
      PROVE  k < i
  <2>1. i \in Slots /\ commands'[i] = commands[i]
    OBVIOUS
  <2>2. k \in Asked
    BY DEF Asked
  <2>3. commands[i].snap.ws > cws
    BY <1>1, <1>2, <1>3, <2>1
  <2> QED BY <1>3, <2>1, <2>2, <2>3 DEF Trailing
<1> QED BY <1>3 DEF Trailing

LEMMA TrailingTook ==
    ASSUME TypeOK, Trailing, cws' = cws, NEW kinds, Take(kinds)
    PROVE  Trailing'
<1>1. /\ \A i \in Slots' : i + 1 \in Slots /\ commands'[i] = commands[i + 1] /\ i \in Nat
      /\ \A i \in Asked' : i + 1 \in Asked /\ i \in Nat
  BY TookOne, AskedTook, Indices
<1>2. ASSUME NEW i \in Slots', commands'[i].kind = "start", commands'[i].snap.ws > cws', NEW k \in Asked'
      PROVE  k < i
  <2>1. commands[i + 1].kind = "start" /\ commands[i + 1].snap.ws > cws /\ i + 1 \in Slots /\ k + 1 \in Asked
    BY <1>1, <1>2
  <2>2. k + 1 < i + 1
    BY <2>1 DEF Trailing
  <2> QED BY <1>1, <2>2
<1> QED BY <1>2 DEF Trailing

LEMMA TrailingPosted ==
    ASSUME TypeOK, Trailing, cws' = cws, NEW c \in Commands, Post(c), c.kind \notin Kinds
    PROVE  Trailing'
<1>1. /\ \A i \in Slots' : i \in Slots \/ i = Len(commands) + 1
      /\ \A i \in Slots : commands'[i] = commands[i] /\ i \in Nat /\ i < Len(commands) + 1
  BY PostedOne
<1>2. \A i \in Asked' : i \in Asked /\ i \in Slots
  BY AskedPosted, Indices
<1>3. ASSUME NEW i \in Slots', commands'[i].kind = "start", commands'[i].snap.ws > cws', NEW k \in Asked'
      PROVE  k < i
  <2>1. CASE i \in Slots
    <3>1. commands[i].kind = "start" /\ commands[i].snap.ws > cws
      BY <1>1, <1>3, <2>1
    <3> QED BY <1>2, <2>1, <3>1 DEF Trailing
  <2>2. CASE i = Len(commands) + 1
    BY <1>1, <1>2, <2>2
  <2> QED BY <1>1, <2>1, <2>2
<1> QED BY <1>3 DEF Trailing

LEMMA TrailingNext ==
    ASSUME AgreeInv, Trailing, [Next]_vars
    PROVE  Trailing'
<1>0. TypeOK /\ ListInv /\ Locks /\ Sent /\ cws \in Nat /\ disp.snap \in Snapshots /\ disp.snap.ws \in Nat
      /\ disp \in Dispatches /\ TypeOK'
  BY Epochs, AgreeInvNext DEF AgreeInv, ListInv
<1>1. ASSUME commands' = commands \/ commands' = <<>>
      PROVE  \A i \in Slots' : i \in Slots /\ commands'[i] = commands[i]
  <2>1. CASE commands' = <<>>
    <3>1. Slots' = {}
      BY <2>1 DEF Slots
    <3> QED BY <3>1
  <2> QED BY <1>1, <2>1 DEF Slots
<1>2. ASSUME cws' \in {cws, cws + 1}, commands' = commands \/ commands' = <<>>
      PROVE  Trailing'
  <2>1. cws' \in Nat /\ cws' >= cws
    BY <1>0, <1>2
  <2> QED BY <1>0, <1>1, <1>2, <2>1, TrailingKept
<1>3. CASE Serves
  <2>1. cws' = cws
    BY <1>3, ServesFrame DEF clientVars
  <2> QED BY <1>0, <1>2, <1>3, <2>1, ServesQueue, TrailingTook
<1>4. CASE Crash \/ Health \/ Restart \/ Invalidate \/ Requests1 \/ Track
  <2>1. /\ commands' = commands \/ commands' = <<>>
        /\ cws' \in {cws, cws + 1}
    BY <1>4 DEF Crash, Health, Restart, Invalidate, Requests1, ReadEpochs, Track, clientVars, Advance,
       DropGeneration
  <2> QED BY <1>2, <2>1
<1>5. CASE Reserves \/ ReadyDirect \/ Check \/ Ready \/ DispatchFails
  <2>1. commands' = commands /\ cws' = cws
    BY <1>5 DEF Reserves, Reserve, ReadyDirect, Check, Ready, DispatchFails, clientVars
  <2> QED BY <1>2, <2>1
<1>6. CASE CommitDirect
  <2>1. commands' = commands /\ cws' = cws + 1
    BY <1>0, <1>6 DEF CommitDirect, Advance, ListInv, Following
  <2> QED BY <1>2, <2>1
<1>7. CASE Send
  <2>1. sending # NoSend /\ sending \in [kind : Kinds, step : {"read", "tracked"}, req : Requests]
    BY <1>0, <1>7, TypesSplit DEF Send, CallTypes, Sendings
  <2> DEFINE c == [kind |-> sending.kind, req |-> sending.req]
  <2>2. c \in Commands /\ c.kind \in Kinds /\ Post(c) /\ cws' = cws
    BY <1>7, <2>1 DEF Commands, ViewerCommands, Send, clientVars
  <2>3. c.kind # "start"
    BY <2>2 DEF Kinds
  <2> HIDE DEF c
  <2>4. ~Direct
    BY <1>0, <2>1 DEF Locks, Direct
  <2>5. \A i \in Slots : commands[i].kind = "start" => ~(commands[i].snap.ws > cws)
    <3> SUFFICES ASSUME NEW i \in Slots, commands[i].kind = "start"
                 PROVE  ~(commands[i].snap.ws > cws)
      OBVIOUS
    <3>1. commands[i] \in Present /\ commands[i] \in Commands
      BY <1>0 DEF Sent, Present
    <3>2. Reached(commands[i].snap) /\ commands[i].snap.ws \in Nat
      BY <1>0, <3>1, Carried, Epochs DEF Present
    <3> QED BY <1>0, <2>4, <3>2 DEF Reached
  <2>6. \A i \in Slots' : (i \in Slots /\ commands'[i] = commands[i]) \/ commands'[i] = c
    BY <1>0, <2>2, PostedOne
  <2>7. \A i \in Slots' : commands'[i].kind = "start" => ~(commands'[i].snap.ws > cws')
    BY <2>2, <2>3, <2>5, <2>6
  <2> QED BY <2>7 DEF Trailing
<1>8. CASE Deliver
  <2> DEFINE c == [kind |-> "invalidate", id |-> inv.id, ws |-> inv.ws]
  <2>1. cws' = cws /\ (commands' = commands \/ Post(c))
    BY <1>8 DEF Deliver, clientVars
  <2>2. c \in Commands /\ c.kind \notin Kinds
    <3>1. inv.id \in 1 .. MaxCalls /\ inv.ws \in Nat
      BY <1>0, <1>8, TypesSplit, Constants DEF Deliver, CallTypes, Invalidations, Numbered, ListInv
    <3> QED BY <3>1 DEF Commands, Kinds
  <2> HIDE DEF c
  <2> QED BY <1>0, <1>2, <2>1, <2>2, TrailingPosted
<1>9. ASSUME disp.phase # "none",
             NEW c, c \in {[kind |-> "retire", run |-> disp.snap.run], [kind |-> "stop", run |-> disp.snap.run],
                           [kind |-> "cancel", run |-> disp.snap.run], [kind |-> "commit", snap |-> disp.snap]}
      PROVE  c \in Commands /\ c.kind \notin Kinds
  <2>1. disp.snap.run \in 1 .. MaxCalls
    BY <1>0, <1>9, Constants DEF Numbered, Snapshots, ListInv
  <2> QED BY <1>0, <1>9, <2>1 DEF Commands, Kinds
<1>10. CASE Retire \/ Stop
  <2>1. /\ cws' = cws /\ disp.phase # "none"
        /\ \/ commands' = commands
           \/ Post([kind |-> "retire", run |-> disp.snap.run])
           \/ Post([kind |-> "stop", run |-> disp.snap.run])
    BY <1>10 DEF Retire, Stop, clientVars
  <2> QED BY <1>0, <1>2, <1>9, <2>1, TrailingPosted
<1>11. CASE PostPrepared \/ PostDirect
  <2>1. cws' = cws /\ Post([kind |-> "start", snap |-> disp'.snap])
    BY <1>0, <1>11 DEF PostPrepared, PostDirect, clientVars, Dispatches
  <2>2. [kind |-> "start", snap |-> disp'.snap] \in Commands
    <3>1. disp'.snap \in Snapshots
      BY <1>0, TypesSplitNext DEF CallTypes, Dispatches
    <3> QED BY <3>1 DEF Commands
  <2>3. [kind |-> "start", snap |-> disp'.snap].kind \notin Kinds
    BY DEF Kinds
  <2> QED BY <1>0, <2>1, <2>2, <2>3, TrailingPosted
<1>12. CASE ReceiveAccepted
  <2>1. \/ commands' = commands
        \/ disp.phase = "posted" /\ Post([kind |-> "commit", snap |-> disp.snap])
        \/ disp.phase = "posted" /\ Post([kind |-> "cancel", run |-> disp.snap.run])
    BY <1>12 DEF ReceiveAccepted
  <2>2. cws' = cws
    BY <1>12 DEF ReceiveAccepted, Advance, PlanHolds, clientVars
  <2> QED BY <1>0, <1>2, <1>9, <2>1, <2>2, TrailingPosted
<1>13. CASE ReceiveAnswer \/ ReceiveAck \/ ReceiveRetired \/ ReceiveEnded \/ UNCHANGED vars
  <2>1. commands' = commands /\ cws' = cws
    BY <1>13 DEF ReceiveAnswer, ReceiveAck, ReceiveRetired, ReceiveEnded, vars, clientVars
  <2> QED BY <1>2, <2>1
<1> QED BY <1>3, <1>4, <1>5, <1>6, <1>7, <1>8, <1>10, <1>11, <1>12, <1>13, Steps

(* While a direct start is about to be committed, only the worker moves.   *)
LEMMA WhileDirect ==
    ASSUME AgreeInv, [Next]_vars, alive', Direct'
    PROVE  \/ Serves
           \/ PostDirect
           \/ /\ Direct /\ disp'.snap = disp.snap /\ cws' = cws
              /\ UNCHANGED <<alive, commands, wws, wnode, sessions, buffer, missed>>
<1>0. TypeOK /\ Locks /\ disp \in Dispatches
  BY Epochs DEF AgreeInv, ListInv
<1>1. CASE Crash \/ Health
  BY <1>1 DEF Crash, Health
<1>2. CASE Restart
  <2>1. disp' \in {disp, NoRun} /\ disp.phase \notin {"direct", "ended"}
    BY <1>2 DEF Restart, FailRun, StartLockFree
  <2> QED BY <2>1 DEF Direct, NoRun
<1>3. CASE Invalidate
  BY <1>3 DEF Invalidate, Direct
<1>4. CASE Send \/ Deliver
  <2>1. disp' = disp /\ (sending # NoSend \/ inv # NoInv)
    BY <1>4 DEF Send, Deliver
  <2> QED BY <1>0, <2>1 DEF Locks, Direct
<1>5. CASE Requests1 \/ Track \/ UNCHANGED vars
  BY <1>5 DEF Requests1, ReadEpochs, Track, vars, Direct, clientVars, callVars, workerVars
<1>6. CASE Reserves \/ ReadyDirect
  BY <1>6, Reserving DEF Direct
<1>7. CASE Retire \/ Check \/ Ready \/ PostPrepared \/ DispatchFails \/ Stop \/ CommitDirect
  BY <1>0, <1>7, Dispatching DEF Direct
<1>8. CASE ReceiveAnswer \/ ReceiveAck
  BY <1>8 DEF ReceiveAnswer, ReceiveAck, Direct, clientVars, callVars, workerVars
<1>9. CASE ReceiveRetired \/ ReceiveEnded
  <2>1. UNCHANGED <<cws, alive, commands, wws, wnode, sessions, buffer, missed>>
    BY <1>9 DEF ReceiveRetired, ReceiveEnded, clientVars, workerVars
  <2>2. Direct /\ disp'.snap = disp.snap
    <3>1. CASE ReceiveRetired
      BY <1>0, <3>1 DEF ReceiveRetired, Direct, Dispatches
    <3>2. CASE ReceiveEnded
      BY <1>0, <3>2 DEF ReceiveEnded, Direct, NoRun, Dispatches
    <3> QED BY <1>9, <3>1, <3>2
  <2> QED BY <2>1, <2>2
<1>10. CASE ReceiveAccepted
  <2>1. disp' = disp /\ Direct /\ disp.phase # "posted"
    BY <1>10 DEF ReceiveAccepted, callVars, Direct
  <2> QED BY <1>10, <2>1 DEF ReceiveAccepted, clientVars, workerVars
<1> QED BY <1>1, <1>2, <1>3, <1>4, <1>5, <1>6, <1>7, <1>8, <1>9, <1>10, Steps

(* The worker is ahead only by the direct start it has adopted.            *)
LEMMA RestingServed ==
    ASSUME AgreeInv, PutAside, Trailing, Resting, Serves
    PROVE  Resting'
<1>0. /\ TypeOK /\ alive /\ UNCHANGED <<cws, disp, alive>> /\ Agree /\ Sent
      /\ Direct => disp.snap.ws = cws + 1
      /\ cws \in Nat /\ wws \in Nat /\ disp.snap.ws \in Nat
  BY ServesFrame, Epochs DEF AgreeInv, ListInv, clientVars, callVars, Following, Direct
<1> SUFFICES ASSUME Ahead' PROVE Asked' = {} /\ buffer' = <<>> /\ Opened' = {}
  BY DEF Resting
<1>1. Direct /\ wws' = disp.snap.ws /\ wws' = cws + 1
  BY <1>0 DEF Ahead, Direct
<1>2. Asked = {} => Asked' = {}
  <2>1. CASE commands' = commands
    BY <2>1 DEF Asked, Slots
  <2>2. ASSUME NEW kinds, Take(kinds) PROVE Asked = {} => Asked' = {}
    BY <1>0, <2>2, AskedTook
  <2> QED BY <2>1, <2>2, ServesQueue
<1>3. ASSUME Take(Kinds) PROVE Asked # {}
  <2>1. 1 \in Slots /\ commands[1].kind \in Kinds
    BY <1>0, <1>3, TookOne
  <2> QED BY <2>1 DEF Asked
<1>4. CASE Ahead
  <2>1. Asked = {} /\ buffer = <<>> /\ Opened = {}
    BY <1>0, <1>4 DEF Resting
  <2>2. ~Take(Kinds)
    BY <1>3, <2>1
  <2>3. buffer' = <<>>
    BY <2>1, <2>2 DEF Serves, Worker, ServeViewer, BufferViewer, FlushViewer, ServeInvalidate,
       ServeRetire, ServeStart, StartFails, StartRuns, StartOffers, ServeCommit, ServeCancel,
       ServeLate, PreflightTimeout, EndRun,
       OtherRun, GiveUp, workerVars
  <2>4. Opened' = {}
    <3>1. CASE UNCHANGED <<wws, wnode, sessions>>
      BY <2>1, <3>1 DEF Opened
    <3>2. ~Executes
      BY <2>1, <2>2 DEF Executes, ServeViewer
    <3>3. CASE AdoptsAll
      BY <1>0, <3>3, Closed DEF AdoptsAll
    <3>4. CASE AdoptsSome
      BY <1>0, <2>1, <3>4, Closed DEF AdoptsSome
    <3> QED BY <3>1, <3>2, <3>3, <3>4, ServesWhat
  <2> QED BY <1>2, <2>1, <2>3, <2>4
<1>5. CASE ~Ahead
  <2>1. wws # disp.snap.ws
    BY <1>1, <1>5 DEF Ahead
  <2>2. ~UNCHANGED <<wws, wnode, sessions>>
    BY <1>1, <2>1
  <2>3. ~Executes
    <3> SUFFICES ASSUME NEW c \in ViewerCommands, Stamped(c.req), Execute(c) PROVE FALSE
      BY DEF Executes
    <3>1. c.req.ws <= cws /\ c.req.ws \in Nat
      BY <1>0, Epochs DEF Stamped, ViewerCommands
    <3> QED BY <1>0, <1>1, <2>2, <3>1, OpenedBy
  <2>4. ~AdoptsSome
    <3> SUFFICES ASSUME AdoptsSome PROVE FALSE
      OBVIOUS
    <3>1. wws' = job.snap.ws /\ Sound(job.snap) /\ job.snap \in Snapshots
      BY <1>0, Closed, SnapsAre DEF AdoptsSome
    <3> QED BY <1>0, <1>1, <3>1, Epochs DEF Sound
  <2>5. PICK s : /\ (ServeStart /\ s = commands[1].snap) \/ (ServeInvalidate /\ s.ws = commands[1].ws)
                 /\ s.all /\ s.ws > wws /\ Adopt(s)
    BY <2>2, <2>3, <2>4, ServesWhat DEF AdoptsAll
  <2>6. wws' = s.ws /\ Opened' = {}
    BY <1>0, <2>5, Closed
  <2>7. CASE ServeInvalidate /\ s.ws = commands[1].ws
    <3>1. 1 \in Slots /\ commands[1].kind = "invalidate"
      BY <1>0, <2>7, TookOne DEF ServeInvalidate
    <3>2. commands[1].ws <= cws /\ commands[1].ws \in Nat
      BY <1>0, <3>1, InQueue, Carried DEF Sent, Present
    <3> QED BY <1>0, <1>1, <2>6, <2>7, <3>2
  <2>8. CASE ServeStart /\ s = commands[1].snap
    <3>1. Take({"start"}) /\ job.phase = "idle" /\ buffer' = buffer
      BY <2>8 DEF ServeStart, StartFails, StartRuns, StartOffers
    <3>2. 1 \in Slots /\ commands[1].kind = "start"
      BY <1>0, <3>1, TookOne
    <3>3. commands[1].snap.ws > cws
      BY <1>0, <1>1, <2>6, <2>8
    <3>4. \A k \in Asked : k < 1
      BY <3>2, <3>3 DEF Trailing
    <3>5. Asked = {}
      BY <3>4, Indices
    <3>6. buffer = <<>>
      BY <3>1 DEF PutAside
    <3> QED BY <1>2, <2>6, <3>1, <3>5, <3>6
  <2> QED BY <2>5, <2>7, <2>8
<1> QED BY <1>4, <1>5

LEMMA RestingNext ==
    ASSUME AgreeInv, PutAside, Trailing, Resting, [Next]_vars
    PROVE  Resting'
<1>0. /\ TypeOK /\ Agree /\ cws \in Nat /\ wws \in Nat
      /\ Direct => disp.snap.ws = cws + 1
  BY Epochs DEF AgreeInv, ListInv, Following, Direct
<1> SUFFICES ASSUME alive', Ahead' PROVE Asked' = {} /\ buffer' = <<>> /\ Opened' = {}
  BY DEF Resting
<1>1. Direct'
  BY DEF Ahead
<1>2. CASE Serves
  <2>1. Resting'
    BY <1>2, RestingServed
  <2> QED BY <2>1 DEF Resting
<1>3. CASE PostDirect
  <2>1. /\ disp.phase = "ready" /\ disp'.snap.ws = cws + 1 /\ UNCHANGED <<wws, alive>>
    BY <1>0, <1>3, Epochs DEF PostDirect, workerVars, Dispatches, Snapshots
  <2>2. ~Ahead
    BY <2>1 DEF Ahead, Direct
  <2>3. wws <= cws
    BY <2>1, <2>2, <1>0 DEF Agree
  <2> QED BY <1>0, <2>1, <2>3 DEF Ahead
<1>4. CASE /\ Direct /\ disp'.snap = disp.snap /\ cws' = cws
           /\ UNCHANGED <<alive, commands, wws, wnode, sessions, buffer>>
  <2>1. alive /\ Ahead
    BY <1>4 DEF Ahead, Direct
  <2> QED BY <1>4, <2>1 DEF Resting, Asked, Slots, Opened
<1> QED BY <1>1, <1>2, <1>3, <1>4, WhileDirect

---------------------------------------------------------------------------
(* A worker that is behind.                                                *)

LEMMA ServesTakes ==
    ASSUME TypeOK, Serves
    PROVE  \/ commands' = commands
           \/ /\ \E kinds : Take(kinds)
              /\ commands[1].kind = "invalidate" => ServeInvalidate
              /\ commands[1].kind = "start" => ServeStart
<1>1. CASE ServeViewer \/ BufferViewer
  <2>1. Take(Kinds)
    BY <1>1 DEF ServeViewer, BufferViewer
  <2>2. commands[1].kind \in Kinds
    BY <2>1, TookOne
  <2> QED BY <2>1, <2>2 DEF Kinds
<1>2. CASE ServeInvalidate
  <2>1. Take({"invalidate"})
    BY <1>2 DEF ServeInvalidate
  <2>2. commands[1].kind = "invalidate"
    BY <2>1, TookOne
  <2> QED BY <1>2, <2>1, <2>2
<1>3. CASE ServeStart
  <2>1. Take({"start"})
    BY <1>3 DEF ServeStart, StartFails, StartRuns, StartOffers
  <2>2. commands[1].kind = "start"
    BY <2>1, TookOne
  <2> QED BY <1>3, <2>1, <2>2
<1>4. ASSUME NEW kinds, Take(kinds), kinds \subseteq {"retire", "commit", "cancel", "stop"}
      PROVE  /\ \E ks : Take(ks)
             /\ commands[1].kind \notin {"invalidate", "start"}
  <2>1. commands[1].kind \in kinds
    BY <1>4, TookOne
  <2> QED BY <1>4, <2>1
<1>5. CASE ServeRetire
  <2>1. Take({"retire"})
    BY <1>5 DEF ServeRetire
  <2> QED BY <1>4, <2>1
<1>6. CASE ServeCommit
  <2>1. Take({"commit"})
    BY <1>6 DEF ServeCommit
  <2> QED BY <1>4, <2>1
<1>7. CASE ServeCancel
  <2>1. Take({"cancel", "stop"})
    BY <1>7 DEF ServeCancel
  <2> QED BY <1>4, <2>1
<1>8. CASE ServeLate
  <2>1. Take({"commit", "cancel", "stop"})
    BY <1>8 DEF ServeLate
  <2> QED BY <1>4, <2>1
<1>9. CASE FlushViewer \/ PreflightTimeout \/ EndRun \/ OtherRun
  BY <1>9 DEF FlushViewer, PreflightTimeout, EndRun, OtherRun
<1> QED BY <1>1, <1>2, <1>3, <1>5, <1>6, <1>7, <1>8, <1>9 DEF Serves, Worker

(* The workspace epoch of the worker never falls.                          *)
LEMMA WorkerGrows ==
    ASSUME AgreeInv, Serves
    PROVE  wws' >= wws /\ wws' \in Nat
<1>0. TypeOK /\ wws \in Nat
  BY Epochs DEF AgreeInv, ListInv
<1>1. wws' \in Nat
  <2>1. TypeOK'
    BY AgreeInvNext, <1>0 DEF AgreeInv, ListInv, Serves, Next
  <2> QED BY <2>1 DEF TypeOK
<1>2. CASE UNCHANGED <<wws, wnode, sessions>>
  BY <1>0, <1>2
<1>3. CASE Executes
  <2> SUFFICES ASSUME NEW c \in ViewerCommands, Execute(c) PROVE wws' >= wws
    BY <1>1, <1>3 DEF Executes
  <2>1. c.req.ws \in Nat
    BY <1>0, Epochs DEF ViewerCommands
  <2> QED BY <1>0, <2>1, OpenedBy DEF Newer
<1>4. CASE AdoptsAll
  BY <1>0, <1>1, <1>4, Closed DEF AdoptsAll
<1>5. CASE AdoptsSome
  <2>1. wws' = job.snap.ws
    BY <1>0, <1>5, Closed DEF AdoptsSome
  <2>2. Valid(job.snap, buffer # <<>>) /\ ~job.snap.all
    BY <1>5 DEF AdoptsSome
  <2>3. job.snap.ws > wws \/ job.snap.ws = wws
    BY <2>2 DEF Valid
  <2> QED BY <1>0, <1>1, <2>1, <2>3
<1> QED BY <1>1, <1>2, <1>3, <1>4, <1>5, ServesWhat

LEMMA BlankServed ==
    ASSUME AgreeInv, Serves, Blank, wws' # cws
    PROVE  Blank'
<1>0. TypeOK /\ cws' = cws /\ buffer \in Seq(ViewerCommands)
  BY ServesFrame DEF AgreeInv, ListInv, clientVars, TypeOK
<1>1. ASSUME Take(Kinds)
      PROVE  commands[1].req.ws = cws /\ Head(commands) = commands[1]
  <2>1. 1 \in Slots /\ commands[1].kind \in Kinds /\ Head(commands) = commands[1]
    BY <1>0, <1>1, TookOne
  <2> QED BY <2>1 DEF Blank, Asked
<1>2. buffer # <<>> => /\ buffer[1].req.ws = cws
                       /\ \A i \in 1 .. Len(Tail(buffer)) : Tail(buffer)[i].req.ws = cws
  <2> SUFFICES ASSUME buffer # <<>>
               PROVE  /\ buffer[1].req.ws = cws
                      /\ \A i \in 1 .. Len(Tail(buffer)) : Tail(buffer)[i].req.ws = cws
    OBVIOUS
  <2>1. /\ 1 \in 1 .. Len(buffer)
        /\ \A i \in 1 .. Len(Tail(buffer)) : Tail(buffer)[i] = buffer[i + 1] /\ i + 1 \in 1 .. Len(buffer)
    BY <1>0, Shrank
  <2> QED BY <2>1 DEF Blank
<1>3. Opened' = {}
  <2>1. CASE UNCHANGED <<wws, wnode, sessions>>
    BY <2>1 DEF Opened, Blank
  <2>2. CASE Executes
    <3> SUFFICES ASSUME NEW c \in ViewerCommands, Execute(c), c.req.ws = cws PROVE Opened' = {}
      BY <1>1, <1>2, <2>2 DEF Executes, ServeViewer
    <3>1. UNCHANGED <<wws, wnode, sessions>>
      BY <1>0, OpenedBy
    <3> QED BY <3>1 DEF Opened, Blank
  <2>3. CASE AdoptsAll
    BY <1>0, <2>3, Closed DEF AdoptsAll
  <2>4. CASE AdoptsSome
    BY <1>0, <2>4, Closed DEF AdoptsSome, Blank
  <2> QED BY <2>1, <2>2, <2>3, <2>4, ServesWhat
<1>4. \A i \in Asked' : commands'[i].req.ws = cws
  <2>1. CASE commands' = commands
    BY <2>1 DEF Asked, Slots, Blank
  <2>2. ASSUME NEW kinds, Take(kinds) PROVE \A i \in Asked' : commands'[i].req.ws = cws
    BY <1>0, <2>2, AskedTook DEF Blank
  <2> QED BY <2>1, <2>2, ServesQueue
<1>5. \A i \in 1 .. Len(buffer') : buffer'[i].req.ws = cws
  <2>1. CASE BufferViewer
    <3>1. Take(Kinds) /\ buffer' = Append(buffer, Head(commands))
      BY <2>1 DEF BufferViewer, Buffered
    <3>2. Head(commands).req.ws = cws
      BY <1>1, <3>1
    <3>3. Head(commands) \in ViewerCommands
      BY <1>0, <3>1, TookOne, InQueue, Carried
    <3>4. \A i \in 1 .. Len(buffer') :
             buffer'[i] = IF i <= Len(buffer) THEN buffer[i] ELSE Head(commands)
      BY <1>0, <3>1, <3>3, Grew
    <3> QED BY <1>0, <3>2, <3>4 DEF Blank
  <2>2. CASE buffer' = Tail(buffer) /\ buffer # <<>>
    BY <1>2, <2>2
  <2>3. CASE buffer' = buffer
    BY <2>3 DEF Blank
  <2>4. CASE buffer' = <<>>
    BY <2>4
  <2>5. \/ BufferViewer \/ (buffer' = Tail(buffer) /\ buffer # <<>>) \/ buffer' = buffer
        \/ buffer' = <<>>
    BY DEF Serves, Worker, ServeViewer, FlushViewer, ServeInvalidate, ServeRetire, workerVars,
       ServeStart, StartFails, StartRuns, StartOffers, ServeCommit, ServeCancel, ServeLate,
       PreflightTimeout, EndRun, OtherRun, GiveUp
  <2> QED BY <2>1, <2>2, <2>3, <2>4, <2>5
<1> QED BY <1>0, <1>3, <1>4, <1>5 DEF Blank

(* A message that brings the worker to an epoch it has not reached does so *)
(* when it is read, unless its run fails.                                  *)
LEMMA Reaches ==
    ASSUME TypeOK, Serves, NEW kinds, Take(kinds), NEW ws \in Nat, Brings(commands[1], ws), wws < ws,
           commands[1].kind = "invalidate" => ServeInvalidate,
           commands[1].kind = "start" => ServeStart
    PROVE  wws' = ws \/ ws \in missed'
<1>0. Head(commands) = commands[1]
  BY TookOne
<1>1. CASE commands[1].kind = "invalidate" /\ commands[1].ws = ws
  <2> DEFINE s == [NoSnap EXCEPT !.all = TRUE, !.ws = commands[1].ws]
  <2>1. s.all /\ s.ws = ws
    BY <1>1 DEF NoSnap
  <2>2. Valid(s, FALSE)
    BY <2>1, Epochs DEF Valid
  <2>3. Adopt(s)
    BY <1>0, <1>1, <2>2 DEF ServeInvalidate
  <2> HIDE DEF s
  <2> QED BY <2>1, <2>3, Closed
<1>2. CASE commands[1].kind = "start" /\ commands[1].snap.all /\ commands[1].snap.ws = ws
  <2>1. Adopt(commands[1].snap) \/ StartFails(commands[1].snap)
    BY <1>0, <1>2 DEF ServeStart, StartRuns
  <2>2. CASE Adopt(commands[1].snap)
    BY <1>2, <2>2, Closed
  <2>3. CASE StartFails(commands[1].snap)
    BY <1>2, <2>3 DEF StartFails
  <2> QED BY <2>1, <2>2, <2>3
<1> QED BY <1>1, <1>2 DEF Brings

(* A failure is not forgotten while the worker lives.                      *)
LEMMA MissedGrows ==
    ASSUME Serves
    PROVE  missed \subseteq missed'
BY DEF Serves, Worker, ServeViewer, BufferViewer, FlushViewer, ServeInvalidate, ServeRetire,
       ServeStart, StartFails, StartRuns, StartOffers, ServeCommit, ServeCancel, ServeLate,
       PreflightTimeout, EndRun, OtherRun, workerVars

LEMMA CatchingServed ==
    ASSUME ServeInv, Serves
    PROVE  Catching'
<1>0. /\ TypeOK /\ AgreeInv /\ Catching /\ Sent
      /\ alive /\ UNCHANGED <<cws, disp, inv, generation, alive>>
      /\ Direct => disp.snap.ws = cws + 1
      /\ cws \in Nat /\ wws \in Nat /\ disp.snap.ws \in Nat
  BY ServesFrame, Epochs DEF ServeInv, AgreeInv, ListInv, clientVars, callVars, Following, Direct
<1>1. wws' >= wws /\ wws' \in Nat /\ Agree'
  BY <1>0, WorkerGrows, AgreeServed
<1>2. ASSUME NEW ws \in Expected, wws < ws
      PROVE  ws \in Expected' \/ wws' = ws
  <2>0. CASE ws \in missed
    BY <2>0, MissedGrows DEF Expected
  <2>1. ws \in Brought => ws \in Nat
    BY DEF Brought
  <2>2. CASE ws \in Brought /\ commands' = commands
    BY <2>2 DEF Expected, Brought, Brings, Asked, Slots
  <2>3. CASE ws \in Brought /\ ~(commands' = commands)
    <3>1. PICK kinds : Take(kinds)
      BY <1>0, <2>3, ServesTakes
    <3>2. ws \in Brought' \/ Brings(commands[1], ws)
      BY <1>0, <2>3, <3>1, BroughtTook
    <3>3. /\ commands[1].kind = "invalidate" => ServeInvalidate
          /\ commands[1].kind = "start" => ServeStart
      BY <1>0, <2>3, ServesTakes
    <3>4. Brings(commands[1], ws) => wws' = ws \/ ws \in missed'
      BY <1>0, <1>2, <2>1, <2>3, <3>1, <3>3, Reaches
    <3> QED BY <3>2, <3>4 DEF Expected
  <2> QED BY <2>0, <2>2, <2>3 DEF Expected
<1>3. ASSUME wws' < cws'
      PROVE  Blank' \/ (Delivering /\ inv.ws = cws)' \/ cws' \in Expected'
  <2>1. wws < cws
    BY <1>0, <1>1, <1>3
  <2>2. wws' # cws
    BY <1>0, <1>1, <1>3
  <2>3. CASE Blank
    BY <1>0, <2>2, <2>3, BlankServed
  <2>4. CASE Delivering /\ inv.ws = cws
    BY <1>0, <2>4 DEF Delivering
  <2>5. CASE cws \in Expected
    BY <1>0, <1>2, <2>1, <2>2, <2>5
  <2> QED BY <1>0, <2>1, <2>3, <2>4, <2>5 DEF Catching
<1>4. ASSUME Direct'
      PROVE  Ahead' \/ disp'.snap.ws \in Expected'
  <2>1. Direct
    BY <1>0, <1>4 DEF Direct
  <2>2. CASE wws > cws
    <3>1. wws' > cws'
      BY <1>0, <1>1, <2>2
    <3>2. wws' <= cws' \/ Ahead'
      BY <1>0, <1>1 DEF Agree
    <3> QED BY <1>0, <1>1, <3>1, <3>2
  <2>3. CASE ~(wws > cws)
    <3>1. wws < disp.snap.ws /\ ~Ahead
      BY <1>0, <2>1, <2>3 DEF Ahead
    <3>2. disp.snap.ws \in Expected
      BY <1>0, <2>1, <3>1 DEF Catching
    <3>3. disp.snap.ws \in Expected' \/ wws' = disp.snap.ws
      BY <1>2, <3>1, <3>2
    <3> QED BY <1>0, <1>4, <3>3 DEF Ahead
  <2> QED BY <2>2, <2>3
<1> QED BY <1>3, <1>4 DEF Catching

CatchesUp == wws < cws => Blank \/ (Delivering /\ inv.ws = cws) \/ cws \in Expected

LEMMA CatchKept ==
    ASSUME CatchesUp, UNCHANGED <<wws, cws, sessions, buffer, commands, inv, generation, missed>>
    PROVE  CatchesUp'
<1>1. Blank' <=> Blank
  BY DEF Blank, Opened, Asked, Slots
<1>2. cws \in Expected => cws' \in Expected'
  BY DEF Expected, Brought, Brings, Asked, Slots
<1>3. Delivering' <=> Delivering
  BY DEF Delivering
<1> QED BY <1>1, <1>2, <1>3 DEF CatchesUp

LEMMA CatchPosted ==
    ASSUME TypeOK, CatchesUp, UNCHANGED <<wws, cws, sessions, buffer, generation, missed>>,
           NEW c \in Commands, Post(c), c.kind \in Kinds => c.req.ws = cws,
           inv' = inv \/ ~Delivering \/ (alive /\ Brings(c, inv.ws))
    PROVE  CatchesUp'
<1>0. cws \in Nat
  BY Epochs
<1>1. Blank => Blank'
  <2> SUFFICES ASSUME Blank PROVE Blank'
    OBVIOUS
  <2>1. \A i \in Asked' : \/ i \in Asked /\ commands'[i] = commands[i]
                          \/ c.kind \in Kinds /\ commands'[i] = c
    BY AskedPosted
  <2>2. \A i \in Asked' : commands'[i].req.ws = cws
    BY <2>1 DEF Blank
  <2> QED BY <2>2 DEF Blank, Opened
<1>2. cws \in Expected => cws' \in Expected'
  BY BroughtPosted DEF Expected
<1>3. Delivering /\ inv.ws = cws => (Delivering' /\ inv'.ws = cws') \/ cws' \in Expected'
  <2>1. CASE inv' = inv
    BY <2>1 DEF Delivering
  <2>2. CASE alive /\ Brings(c, inv.ws)
    BY <1>0, <2>2, BroughtPosted DEF Expected
  <2> QED BY <2>1, <2>2
<1> QED BY <1>1, <1>2, <1>3 DEF CatchesUp

LEMMA CatchesUpNext ==
    ASSUME ServeInv, [Next]_vars, ~Serves, alive'
    PROVE  CatchesUp'
<1>0. /\ TypeOK /\ AgreeInv /\ ListInv /\ Locks /\ Grown /\ (alive => CatchesUp)
      /\ Direct => disp.snap.ws = cws + 1
      /\ cws \in Nat /\ wws \in Nat /\ disp \in Dispatches /\ disp.snap \in Snapshots
  BY Epochs DEF ServeInv, AgreeInv, ListInv, Following, Direct, Catching, CatchesUp
<1>1. CASE Crash \/ Health
  BY <1>1 DEF Crash, Health
<1>2. CASE Restart
  <2>1. Opened' = {} /\ commands' = <<>> /\ buffer' = <<>>
    BY <1>2 DEF Restart, Opened, NoSession
  <2>2. Asked' = {} /\ 1 .. Len(buffer') = {}
    BY <2>1 DEF Asked, Slots
  <2> QED BY <2>1, <2>2 DEF CatchesUp, Blank
<1>3. CASE Invalidate
  <2>1. /\ inv' = [id |-> calls + 1, ws |-> cws + 1, gen |-> generation]
        /\ generation' = generation /\ cws' = cws + 1 /\ inv'.ws = cws + 1
    BY <1>3 DEF Invalidate, Advance
  <2>2. inv' # NoInv
    BY <1>0, <2>1 DEF NoInv
  <2> QED BY <2>1, <2>2 DEF CatchesUp, Delivering
<1>4. CASE CommitDirect
  <2>1. Direct /\ cws' = disp.snap.ws /\ UNCHANGED <<commands, wws, alive, missed>>
    BY <1>4 DEF CommitDirect, Advance, Direct
  <2>2. Ahead \/ disp.snap.ws \in Expected
    BY <2>1 DEF ServeInv, Catching
  <2>3. CASE Ahead
    BY <1>0, <2>1, <2>3 DEF Ahead, CatchesUp
  <2>4. CASE disp.snap.ws \in Expected
    <3>1. cws' \in Expected'
      BY <2>1, <2>4 DEF Expected, Brought, Brings, Asked, Slots
    <3> QED BY <3>1 DEF CatchesUp
  <2> QED BY <2>2, <2>3, <2>4
<1>5. CASE Requests1 \/ Track \/ Reserves \/ ReadyDirect \/ Check \/ Ready \/ DispatchFails \/ UNCHANGED vars
  <2>1. UNCHANGED <<wws, cws, sessions, buffer, commands, inv, generation, missed, alive>>
    BY <1>5 DEF Requests1, ReadEpochs, Track, Reserves, Reserve, ReadyDirect, Check, Ready,
       DispatchFails, vars, clientVars, callVars, workerVars
  <2> QED BY <1>0, <2>1, CatchKept
<1>6. CASE ReceiveAnswer \/ ReceiveAck \/ ReceiveRetired \/ ReceiveEnded
  <2>1. UNCHANGED <<wws, cws, sessions, buffer, commands, inv, generation, missed, alive>>
    BY <1>6 DEF ReceiveAnswer, ReceiveAck, ReceiveRetired, ReceiveEnded, clientVars, callVars, workerVars
  <2> QED BY <1>0, <2>1, CatchKept
<1>7. CASE Send
  <2> DEFINE c == [kind |-> sending.kind, req |-> sending.req]
  <2>1. sending # NoSend /\ sending \in [kind : Kinds, step : {"read", "tracked"}, req : Requests]
    BY <1>0, <1>7, TypesSplit DEF Send, CallTypes, Sendings
  <2>2. c \in Commands /\ c.req.ws = cws
    BY <1>0, <2>1 DEF Commands, ViewerCommands, Locks
  <2>3. Post(c) /\ UNCHANGED <<wws, cws, sessions, buffer, generation, inv, missed, alive>>
    BY <1>7 DEF Send, clientVars, workerVars
  <2> HIDE DEF c
  <2> QED BY <1>0, <2>2, <2>3, CatchPosted
<1>8. CASE Deliver
  <2> DEFINE c == [kind |-> "invalidate", id |-> inv.id, ws |-> inv.ws]
  <2>1. UNCHANGED <<wws, cws, sessions, buffer, generation, missed, alive>> /\ alive
    BY <1>8 DEF Deliver, clientVars, workerVars
  <2>2. c \in Commands /\ c.kind \notin Kinds /\ Brings(c, inv.ws)
    <3>1. inv.id \in 1 .. MaxCalls /\ inv.ws \in Nat
      BY <1>0, <1>8, TypesSplit, Constants DEF Deliver, CallTypes, Invalidations, Numbered, ListInv
    <3> QED BY <3>1 DEF Commands, Kinds, Brings
  <2>3. CASE inv.gen = generation /\ accepted
    <3>1. Post(c)
      BY <1>8, <2>3 DEF Deliver
    <3> HIDE DEF c
    <3> QED BY <1>0, <2>1, <2>2, <3>1, CatchPosted
  <2>4. CASE inv.gen # generation \/ ~accepted
    <3>1. commands' = commands /\ inv.gen # generation
      BY <1>0, <1>8, <2>1, <2>4 DEF Deliver, Grown
    <3>2. ~Delivering
      BY <3>1 DEF Delivering
    <3>3. Blank' <=> Blank
      BY <2>1, <3>1 DEF Blank, Opened, Asked, Slots
    <3>4. cws \in Expected => cws' \in Expected'
      BY <2>1, <3>1 DEF Expected, Brought, Brings, Asked, Slots
    <3> QED BY <1>0, <2>1, <3>2, <3>3, <3>4 DEF CatchesUp
  <2> QED BY <2>3, <2>4
<1>9. ASSUME disp.phase # "none", UNCHANGED <<wws, cws, sessions, buffer, generation, inv, missed, alive>>,
             NEW c, Post(c),
             c \in {[kind |-> "retire", run |-> disp.snap.run], [kind |-> "stop", run |-> disp.snap.run],
                    [kind |-> "cancel", run |-> disp.snap.run], [kind |-> "commit", snap |-> disp.snap]}
      PROVE  CatchesUp'
  <2>1. disp.snap.run \in 1 .. MaxCalls
    BY <1>0, <1>9, Constants DEF Numbered, Snapshots, ListInv
  <2>2. c \in Commands /\ c.kind \notin Kinds
    BY <1>0, <1>9, <2>1 DEF Commands, Kinds
  <2> QED BY <1>0, <1>9, <2>2, CatchPosted
<1>10. CASE Retire \/ Stop
  <2>1. UNCHANGED <<wws, cws, sessions, buffer, generation, inv, missed, alive>> /\ disp.phase # "none"
    BY <1>10 DEF Retire, Stop, clientVars, workerVars
  <2>2. \/ commands' = commands
        \/ Post([kind |-> "retire", run |-> disp.snap.run])
        \/ Post([kind |-> "stop", run |-> disp.snap.run])
    BY <1>10 DEF Retire, Stop
  <2> QED BY <1>0, <1>9, <2>1, <2>2, CatchKept
<1>11. CASE PostPrepared \/ PostDirect
  <2>1. Post([kind |-> "start", snap |-> disp'.snap])
        /\ UNCHANGED <<wws, cws, sessions, buffer, generation, inv, missed, alive>>
    BY <1>0, <1>11 DEF PostPrepared, PostDirect, clientVars, workerVars, Dispatches
  <2>2. disp' \in Dispatches /\ [kind |-> "start", snap |-> disp'.snap] \in Commands
    <3>1. disp' \in Dispatches
      BY TypesDispatch, <1>0, <1>11, TypesSplitNext DEF Dispatcher, CallTypes, ListInv
    <3> QED BY <3>1 DEF Dispatches, Commands
  <2>3. [kind |-> "start", snap |-> disp'.snap].kind \notin Kinds
    BY DEF Kinds
  <2> QED BY <1>0, <2>1, <2>2, <2>3, CatchPosted
<1>12. CASE ReceiveAccepted
  <2>1. UNCHANGED <<wws, cws, sessions, buffer, generation, inv, missed, alive>>
    BY <1>12 DEF ReceiveAccepted, Advance, PlanHolds, clientVars, callVars, workerVars
  <2>2. \/ commands' = commands
        \/ disp.phase = "posted" /\ Post([kind |-> "commit", snap |-> disp.snap])
        \/ disp.phase = "posted" /\ Post([kind |-> "cancel", run |-> disp.snap.run])
    BY <1>12 DEF ReceiveAccepted
  <2> QED BY <1>0, <1>9, <2>1, <2>2, CatchKept
<1> QED BY <1>1, <1>2, <1>3, <1>4, <1>5, <1>6, <1>7, <1>8, <1>10, <1>11, <1>12, Steps

LEMMA CatchingNext ==
    ASSUME ServeInv, [Next]_vars
    PROVE  Catching'
<1>0. /\ TypeOK /\ AgreeInv /\ cws \in Nat /\ disp \in Dispatches /\ disp.snap \in Snapshots
  BY Epochs DEF ServeInv, AgreeInv, ListInv
<1>1. CASE Serves
  BY <1>1, CatchingServed
<1>2. CASE ~Serves
  <2>1. ASSUME alive', Direct' PROVE Ahead' \/ disp'.snap.ws \in Expected'
    <3>1. CASE PostDirect
      <4>1. /\ Post([kind |-> "start", snap |-> disp'.snap]) /\ disp'.snap.all
            /\ disp'.snap.ws = cws + 1 /\ alive
        BY <1>0, <2>1, <3>1 DEF PostDirect, workerVars, Dispatches, Snapshots
      <4>2. disp' \in Dispatches /\ [kind |-> "start", snap |-> disp'.snap] \in Commands
        <5>1. disp' \in Dispatches
          BY TypesDispatch, <1>0, <3>1, TypesSplitNext DEF Dispatcher, CallTypes, ListInv, AgreeInv
        <5> QED BY <5>1 DEF Dispatches, Commands
      <4>3. Brings([kind |-> "start", snap |-> disp'.snap], disp'.snap.ws)
        BY <4>1 DEF Brings
      <4>4. disp'.snap.ws \in Nat
        BY <1>0, <4>1
      <4> QED BY <1>0, <4>1, <4>2, <4>3, <4>4, BroughtPosted DEF Expected
    <3>2. CASE /\ Direct /\ disp'.snap = disp.snap /\ cws' = cws
               /\ UNCHANGED <<alive, commands, wws, wnode, sessions, buffer, missed>>
      <4>1. Ahead \/ disp.snap.ws \in Expected
        BY <2>1, <3>2 DEF ServeInv, Catching
      <4>2. Ahead => Ahead'
        BY <2>1, <3>2 DEF Ahead, Direct
      <4>3. disp.snap.ws \in Expected => disp'.snap.ws \in Expected'
        BY <3>2 DEF Expected, Brought, Brings, Asked, Slots
      <4> QED BY <4>1, <4>2, <4>3
    <3> QED BY <1>0, <1>2, <2>1, <3>1, <3>2, WhileDirect
  <2>2. alive' => CatchesUp'
    BY <1>2, CatchesUpNext
  <2> QED BY <2>1, <2>2 DEF Catching, CatchesUp
<1> QED BY <1>1, <1>2

LEMMA ServeInit == Init => ServeInv
<1> SUFFICES ASSUME Init PROVE ServeInv
  OBVIOUS
<1>1. AgreeInv
  BY AgreeInit
<1>2. ~alive /\ buffer = <<>> /\ commands = <<>>
  BY DEF Init
<1>3. Slots = {}
  BY <1>2 DEF Slots
<1>4. Shown /\ PutAside /\ Trailing /\ Resting /\ Catching
  BY <1>2, <1>3 DEF Shown, PutAside, Trailing, Resting, Catching
<1> QED BY <1>1, <1>4 DEF ServeInv

LEMMA ServeNext == ServeInv /\ [Next]_vars => ServeInv'
<1> SUFFICES ASSUME ServeInv, [Next]_vars PROVE ServeInv'
  OBVIOUS
<1>1. AgreeInv'
  BY AgreeInvNext DEF ServeInv
<1>2. Shown' /\ PutAside' /\ Trailing' /\ Resting'
  BY ShownNext, PutAsideNext, TrailingNext, RestingNext DEF ServeInv, AgreeInv, ListInv
<1>3. Catching'
  BY CatchingNext
<1> QED BY <1>1, <1>2, <1>3 DEF ServeInv

(* The worker keeps nothing open that the client has declared stale but    *)
(* while the message that says so is on its way, when the client committed *)
(* a preflight the worker had given up, or until it hears of the workspace *)
(* epoch of a direct start that failed.                                    *)
THEOREM ServesWhatIsCurrent == Spec => []ServedIsCurrent
<1>1. ServeInv => ServedIsCurrent
  <2> SUFFICES ASSUME ServeInv, NEW n \in Nodes, alive, sessions[n].state = "open",
                      sessions[n].stamp < covers[n]
               PROVE  \/ GlobalComing \/ CommitComing(n) \/ n \in orphaned
                      \/ \E epoch \in missed : wws < epoch
    BY DEF ServedIsCurrent
  <2>0. /\ TypeOK /\ Agree /\ Shown /\ Resting /\ Catching
        /\ cws \in Nat /\ wws \in Nat /\ sessions[n].stamp \in Nat /\ covers[n] \in Nat
        /\ commands \in Seq(Commands) /\ DOMAIN commands = Slots
    <3>1. TypeOK
      BY DEF ServeInv, AgreeInv, ListInv
    <3> QED BY <3>1, Epochs DEF ServeInv, AgreeInv, TypeOK, Slots
  <2>1. n \in Opened /\ n \in Timely
    BY <2>0 DEF Opened, Shown
  <2>2. \/ wws < cws
        \/ wws = cws /\ wnode[n] < cnode[n]
        \/ wws = cws /\ wnode[n] = cnode[n] /\ sessions[n].stamp = covers[n]
    BY <2>1 DEF Timely
  <2>3. CASE wws = cws /\ wnode[n] < cnode[n]
    <3>1. n \in Away
      <4>1. wnode[n] \in Nat /\ cnode[n] \in Nat
        BY <2>0, Epochs
      <4> QED BY <2>0, <2>3, <4>1 DEF Agree
    <3> QED BY <2>0, <3>1 DEF Away, Coming, CommitComing
  <2>4. CASE wws < cws
    <3>1. ~Blank
      BY <2>1 DEF Blank
    <3>2. CASE inv # NoInv
      BY <3>2 DEF GlobalComing
    <3>3. CASE cws \in Brought
      <4>1. \E j \in Slots : Brings(commands[j], cws)
        BY <3>3 DEF Brought
      <4>2. PICK j \in Slots : Brings(commands[j], cws)
        BY <4>1
      <4>3. \/ commands[j].kind = "invalidate" /\ commands[j].ws > wws
            \/ commands[j].kind = "start" /\ commands[j].snap.ws > wws
        BY <2>0, <2>4, <4>2 DEF Brings
      <4> QED BY <2>0, <4>3 DEF GlobalComing
    <3>4. CASE cws \in missed
      BY <2>4, <3>4
    <3> QED BY <2>0, <2>4, <3>1, <3>2, <3>3, <3>4 DEF Catching, Delivering, Expected
  <2>5. CASE wws = cws /\ wnode[n] = cnode[n] /\ sessions[n].stamp = covers[n]
    BY <2>0, <2>5
  <2> QED BY <2>2, <2>3, <2>4, <2>5
<1> QED BY <1>1, ServeInit, ServeNext, PTL DEF Spec

---------------------------------------------------------------------------
(* Answers on their way.                                                   *)

LEMMA Lengthened ==
    ASSUME NEW S, NEW s \in Seq(S), NEW e
    PROVE  /\ Len(Append(s, e)) = Len(s) + 1 /\ Len(s) \in Nat
           /\ \A i \in 1 .. Len(s) : Append(s, e)[i] = s[i] /\ i \in 1 .. Len(s) + 1
           /\ Len(s) + 1 \in 1 .. Len(s) + 1 /\ Append(s, e)[Len(s) + 1] = e
           /\ \A i \in 1 .. Len(s) + 1 : i \in 1 .. Len(s) \/ i = Len(s) + 1
<1>1. s \in Seq(S \cup {e}) /\ Len(s) \in Nat /\ e \in S \cup {e}
  OBVIOUS
<1> QED BY <1>1

(* What is told, and what is heard.                                        *)
LEMMA ToldOne ==
    ASSUME TypeOK, NEW e, Emit(e)
    PROVE  /\ \A i \in Told : i \in Told' /\ events'[i] = events[i]
           /\ \A i \in Told' : i \in Told \/ (i = Len(events) + 1 /\ events'[i] = e)
           /\ Len(events) + 1 \in Told' /\ events'[Len(events) + 1] = e
<1>1. events \in Seq(Events) /\ events' = Append(events, e)
  BY DEF TypeOK, Emit
<1> QED BY <1>1, Lengthened DEF Told

LEMMA HeardOne ==
    ASSUME TypeOK, NEW kinds, Receive(kinds)
    PROVE  /\ 1 \in Told /\ Head(events) = events[1] /\ events[1].kind \in kinds
           /\ \A i \in Told' : i + 1 \in Told /\ events'[i] = events[i + 1]
           /\ \A i \in Told : i # 1 => i - 1 \in Told' /\ events'[i - 1] = events[i]
<1>1. events \in Seq(Events) /\ events # <<>> /\ events' = Tail(events)
  BY DEF TypeOK, Receive
<1>2. /\ Head(events) = events[1] /\ Len(events') = Len(events) - 1
      /\ Len(events) \in Nat \ {0}
      /\ \A i \in 1 .. Len(events') : events'[i] = events[i + 1]
  BY <1>1, Shrank
<1>3. Head(events).kind \in kinds
  BY DEF Receive
<1>4. Told' = 1 .. Len(events')
  BY DEF Told
<1> QED BY <1>1, <1>2, <1>3, <1>4 DEF Told

LEMMA AnswersTold ==
    ASSUME TypeOK, NEW e, Emit(e)
    PROVE  /\ Answered \subseteq Answered'
           /\ e.kind = "answer" => e.req \in Answered'
           /\ \A r \in Refusals' : \/ r \in Refusals
                                   \/ e.kind = "answer" /\ e.result = "stale" /\ r = e.req
<1>1. \A i \in Answers : i \in Answers' /\ events'[i] = events[i]
  BY ToldOne DEF Answers
<1>2. e.kind = "answer" => Len(events) + 1 \in Answers' /\ events'[Len(events) + 1] = e
  BY ToldOne DEF Answers
<1>3. \A i \in Answers' : (i \in Answers /\ events'[i] = events[i]) \/ (events'[i] = e /\ e.kind = "answer")
  BY ToldOne DEF Answers
<1>4. Answered \subseteq Answered'
  BY <1>1 DEF Answered
<1>5. e.kind = "answer" => e.req \in Answered'
  BY <1>2 DEF Answered
<1>6. \A r \in Refusals' : r \in Refusals \/ (e.kind = "answer" /\ e.result = "stale" /\ r = e.req)
  BY <1>3 DEF Refusals
<1> QED BY <1>4, <1>5, <1>6

LEMMA AnswersHeard ==
    ASSUME TypeOK, NEW kinds, Receive(kinds)
    PROVE  /\ \A r \in Answered : r \in Answered' \/ (events[1].kind = "answer" /\ r = events[1].req)
           /\ Refusals' \subseteq Refusals
<1>1. \A i \in Answers : i # 1 => i - 1 \in Answers' /\ events'[i - 1] = events[i]
  BY HeardOne DEF Answers
<1>2. \A i \in Answers' : i + 1 \in Answers /\ events'[i] = events[i + 1]
  BY HeardOne DEF Answers
<1>3. \A i \in Answers : \/ events[i].req \in Answered'
                         \/ events[1].kind = "answer" /\ events[i].req = events[1].req
  <2> SUFFICES ASSUME NEW i \in Answers
               PROVE  \/ events[i].req \in Answered'
                      \/ events[1].kind = "answer" /\ events[i].req = events[1].req
    OBVIOUS
  <2>1. CASE i = 1
    BY <2>1 DEF Answers
  <2>2. CASE i # 1
    <3>1. i - 1 \in Answers' /\ events'[i - 1] = events[i]
      BY <1>1, <2>2
    <3> QED BY <3>1 DEF Answered
  <2> QED BY <2>1, <2>2
<1>4. \A r \in Answered : r \in Answered' \/ (events[1].kind = "answer" /\ r = events[1].req)
  BY <1>3 DEF Answered
<1>5. Refusals' \subseteq Refusals
  <2> SUFFICES ASSUME NEW i \in Answers', events'[i].result = "stale"
               PROVE  events'[i].req \in Refusals
    BY DEF Refusals
  <2>1. i + 1 \in Answers /\ events'[i] = events[i + 1]
    BY <1>2
  <2> QED BY <2>1 DEF Refusals
<1> QED BY <1>4, <1>5

LEMMA CommandedPosted ==
    ASSUME TypeOK, NEW c, Post(c)
    PROVE  /\ Commanded \subseteq Commanded'
           /\ alive /\ c.kind \in Kinds => c.req \in Commanded'
<1>1. commands \in Seq(Commands)
  BY DEF TypeOK
<1>2. CASE alive
  <2>1. commands' = Append(commands, c)
    BY <1>2 DEF Post
  <2>2. /\ \A i \in Slots : i \in Slots' /\ commands'[i] = commands[i]
        /\ Len(commands) + 1 \in Slots' /\ commands'[Len(commands) + 1] = c
    BY <1>1, <2>1, Lengthened DEF Slots
  <2>3. \A i \in Asked : i \in Asked' /\ commands'[i] = commands[i]
    BY <2>2 DEF Asked
  <2>4. c.kind \in Kinds => Len(commands) + 1 \in Asked' /\ commands'[Len(commands) + 1] = c
    BY <2>2 DEF Asked
  <2> QED BY <2>3, <2>4 DEF Commanded
<1>3. CASE ~alive
  <2>1. commands' = commands
    BY <1>3 DEF Post
  <2> QED BY <1>3, <2>1 DEF Commanded, Asked, Slots
<1> QED BY <1>2, <1>3

LEMMA CommandedTook ==
    ASSUME TypeOK, NEW kinds, Take(kinds)
    PROVE  \A r \in Commanded : \/ r \in Commanded'
                                \/ commands[1].kind \in Kinds /\ r = commands[1].req
<1>1. \A i \in Asked : i # 1 => i - 1 \in Asked' /\ commands'[i - 1] = commands[i]
  BY TookOne DEF Asked
<1>2. \A i \in Asked : \/ commands[i].req \in Commanded'
                       \/ commands[1].kind \in Kinds /\ commands[i].req = commands[1].req
  <2> SUFFICES ASSUME NEW i \in Asked
               PROVE  \/ commands[i].req \in Commanded'
                      \/ commands[1].kind \in Kinds /\ commands[i].req = commands[1].req
    OBVIOUS
  <2>1. CASE i = 1
    BY <2>1 DEF Asked
  <2>2. CASE i # 1
    <3>1. i - 1 \in Asked' /\ commands'[i - 1] = commands[i]
      BY <1>1, <2>2
    <3> QED BY <3>1 DEF Commanded
  <2> QED BY <2>1, <2>2
<1> QED BY <1>2 DEF Commanded

LEMMA ExecuteAnswers ==
    ASSUME NEW c, Execute(c)
    PROVE  \E result : Answer(c, result) /\ (result = "stale" => ~Newer(c.req))
<1>1. CASE ~Newer(c.req) /\ Answer(c, "stale")
  BY <1>1
<1>2. CASE \E done \in BOOLEAN : Answer(c, IF ~done THEN "failed"
                                           ELSE IF c.kind = "close" THEN "closed" ELSE "shown")
  <2>1. PICK done \in BOOLEAN : Answer(c, IF ~done THEN "failed"
                                          ELSE IF c.kind = "close" THEN "closed" ELSE "shown")
    BY <1>2
  <2> DEFINE result == IF ~done THEN "failed" ELSE IF c.kind = "close" THEN "closed" ELSE "shown"
  <2>2. Answer(c, result) /\ result # "stale"
    BY <2>1
  <2> QED BY <2>2
<1> QED BY <1>1, <1>2 DEF Execute

(* What the worker takes it answers, puts aside or, at the end of a        *)
(* preflight, discards.                                                    *)
LEMMA OnWayServed ==
    ASSUME TypeOK, Serves
    PROVE  \A r \in OnWay : r \in OnWay' \/ r.id \in lost'
<1>0. Sending' = Sending /\ buffer \in Seq(ViewerCommands)
  BY ServesFrame DEF callVars, Sending, TypeOK
<1>1. CASE ServeViewer
  <2>1. Take(Kinds) /\ Execute(commands[1]) /\ buffer' = buffer
    BY <1>1, TookOne DEF ServeViewer
  <2>2. PICK result : Answer(commands[1], result)
    BY <2>1, ExecuteAnswers
  <2>3. Answered \subseteq Answered' /\ commands[1].req \in Answered'
    BY <2>2, AnswersTold DEF Answer
  <2>4. Kept' = Kept
    BY <2>1 DEF Kept
  <2> QED BY <1>0, <2>1, <2>3, <2>4, CommandedTook DEF OnWay
<1>2. CASE BufferViewer
  <2>1. Take(Kinds) /\ buffer' = Append(buffer, commands[1]) /\ events' = events
    BY <1>2, TookOne DEF BufferViewer, Buffered
  <2>2. /\ \A i \in 1 .. Len(buffer) : i \in 1 .. Len(buffer') /\ buffer'[i] = buffer[i]
        /\ Len(buffer) + 1 \in 1 .. Len(buffer') /\ buffer'[Len(buffer) + 1] = commands[1]
    BY <1>0, <2>1, Lengthened
  <2>3. Kept \subseteq Kept' /\ commands[1].req \in Kept'
    BY <2>2 DEF Kept
  <2>4. Answered' = Answered
    BY <2>1 DEF Answered, Answers, Told
  <2> QED BY <1>0, <2>1, <2>3, <2>4, CommandedTook DEF OnWay
<1>3. CASE FlushViewer
  <2>1. Commanded' = Commanded
    BY <1>3 DEF FlushViewer, Commanded, Asked, Slots
  <2>2. CASE buffer = <<>>
    <3>1. Kept' = Kept /\ Answered' = Answered
      BY <1>3, <2>2 DEF FlushViewer, Kept, Answered, Answers, Told
    <3> QED BY <1>0, <2>1, <3>1 DEF OnWay
  <2>3. CASE buffer # <<>>
    <3>1. Execute(Head(buffer)) /\ buffer' = Tail(buffer)
      BY <1>3, <2>3 DEF FlushViewer
    <3>2. PICK result : Answer(Head(buffer), result)
      BY <3>1, ExecuteAnswers
    <3>3. Answered \subseteq Answered' /\ Head(buffer).req \in Answered'
      BY <3>2, AnswersTold DEF Answer
    <3>4. \A i \in 1 .. Len(buffer) : i # 1 => i - 1 \in 1 .. Len(buffer') /\ buffer'[i - 1] = buffer[i]
      BY <1>0, <2>3, <3>1, Shrank
    <3>5. \A i \in 1 .. Len(buffer) : buffer[i].req \in Kept' \/ i = 1
      BY <3>4 DEF Kept
    <3>6. Head(buffer) = buffer[1]
      BY <1>0, <2>3, Shrank
    <3>7. \A r \in Kept : r \in Kept' \/ r = Head(buffer).req
      BY <3>5, <3>6 DEF Kept
    <3> QED BY <1>0, <2>1, <3>3, <3>7 DEF OnWay
  <2> QED BY <2>2, <2>3
<1>4. ASSUME NEW kinds, Take(kinds), kinds \cap Kinds = {}
      PROVE  Commanded \subseteq Commanded'
  <2>1. commands[1].kind \notin Kinds
    BY <1>4, TookOne
  <2> QED BY <1>4, <2>1, CommandedTook
<1>5. CASE ServeInvalidate \/ ServeRetire \/ ServeStart
  <2>1. Commanded \subseteq Commanded'
    BY <1>4, <1>5 DEF ServeInvalidate, ServeRetire, ServeStart, StartFails, StartRuns,
        StartOffers, Kinds
  <2>2. buffer' = buffer
    BY <1>5 DEF ServeInvalidate, ServeRetire, ServeStart, StartFails, StartRuns, StartOffers,
        workerVars
  <2>3. UNCHANGED events \/ \E e : Emit(e)
    BY <1>5 DEF ServeInvalidate, ServeRetire, ServeStart, StartFails, StartRuns, StartOffers,
        Ended, Offer, Offered
  <2>4. Kept' = Kept
    BY <2>2 DEF Kept
  <2>5. Answered \subseteq Answered'
    <3>1. CASE UNCHANGED events
      BY <3>1 DEF Answered, Answers, Told
    <3> QED BY <2>3, <3>1, AnswersTold
  <2> QED BY <1>0, <2>1, <2>4, <2>5 DEF OnWay
<1>6. ASSUME GiveUp
      PROVE  Answered \subseteq Answered' /\ \A r \in Kept : r.id \in lost'
  <2>1. Answered \subseteq Answered'
    BY <1>6, AnswersTold DEF GiveUp, Ended
  <2>2. \A i \in DOMAIN buffer : buffer[i].req.id \in lost'
    BY <1>6 DEF GiveUp
  <2>3. DOMAIN buffer = 1 .. Len(buffer)
    BY <1>0
  <2> QED BY <2>1, <2>2, <2>3 DEF Kept
<1>7. CASE ServeCommit
  <2>1. Commanded \subseteq Commanded'
    BY <1>4, <1>7 DEF ServeCommit, Kinds
  <2>2. GiveUp \/ UNCHANGED <<buffer, events>>
    BY <1>7 DEF ServeCommit
  <2>3. CASE UNCHANGED <<buffer, events>>
    <3>1. Kept' = Kept /\ Answered' = Answered
      BY <2>3 DEF Kept, Answered, Answers, Told
    <3> QED BY <1>0, <2>1, <3>1 DEF OnWay
  <2> QED BY <1>0, <1>6, <2>1, <2>2, <2>3 DEF OnWay
<1>8. CASE ServeCancel
  <2>1. Commanded \subseteq Commanded' /\ GiveUp
    BY <1>4, <1>8 DEF ServeCancel, Kinds
  <2> QED BY <1>0, <1>6, <2>1 DEF OnWay
<1>9. CASE PreflightTimeout
  <2>1. Commanded' = Commanded /\ GiveUp
    BY <1>9 DEF PreflightTimeout, Commanded, Asked, Slots
  <2> QED BY <1>0, <1>6, <2>1 DEF OnWay
<1>10. CASE ServeLate
  <2>1. Commanded \subseteq Commanded'
    BY <1>4, <1>10 DEF ServeLate, Kinds
  <2>2. Kept' = Kept /\ Answered' = Answered
    BY <1>10 DEF ServeLate, Kept, Answered, Answers, Told
  <2> QED BY <1>0, <2>1, <2>2 DEF OnWay
<1>11. CASE EndRun \/ OtherRun
  <2>1. Commanded' = Commanded /\ Kept' = Kept
    BY <1>11 DEF EndRun, OtherRun, Commanded, Asked, Slots, Kept
  <2>2. UNCHANGED events \/ \E e : Emit(e)
    BY <1>11 DEF EndRun, OtherRun, Ended
  <2>3. Answered \subseteq Answered'
    <3>1. CASE UNCHANGED events
      BY <3>1 DEF Answered, Answers, Told
    <3> QED BY <2>2, <3>1, AnswersTold
  <2> QED BY <1>0, <2>1, <2>3 DEF OnWay
<1> QED BY <1>1, <1>2, <1>3, <1>5, <1>7, <1>8, <1>9, <1>10, <1>11 DEF Serves, Worker

(* The worker refuses as stale only what is of an epoch the client has     *)
(* left: it is never ahead of a command it reads.                          *)
LEMMA StaleIsOutdated ==
    ASSUME ServeInv, alive, NEW c \in ViewerCommands, Stamped(c.req), ~Newer(c.req),
           Asked # {} \/ buffer # <<>>
    PROVE  c.req \in Outdated
<1>0. TypeOK
  BY DEF ServeInv, AgreeInv, ListInv
<1>1. /\ c.req \in Requests /\ c.req.ws \in Nat /\ c.req.ne \in Nat /\ c.req.node \in Nodes
      /\ wws \in Nat /\ wnode \in [Nodes -> Nat] /\ cws \in Nat /\ cnode \in [Nodes -> Nat]
  BY <1>0, Epochs DEF ViewerCommands
<1>2. ~Ahead
  BY DEF ServeInv, Resting
<1>3. wws <= cws /\ (wws = cws => wnode[c.req.node] <= cnode[c.req.node])
  <2>1. Agree
    BY DEF ServeInv, AgreeInv
  <2>2. wws <= cws
    BY <1>2, <2>1 DEF Agree
  <2>3. wws = cws => wnode[c.req.node] = cnode[c.req.node] \/ wnode[c.req.node] < cnode[c.req.node]
    BY <1>1, <2>1 DEF Agree
  <2>4. wnode[c.req.node] \in Nat /\ cnode[c.req.node] \in Nat
    BY <1>1
  <2> QED BY <2>2, <2>3, <2>4
<1>4. wnode[c.req.node] \in Nat /\ cnode[c.req.node] \in Nat
  BY <1>1
<1>5. c.req.ws < wws \/ (c.req.ws = wws /\ c.req.ne < wnode[c.req.node])
  <2>1. ~(c.req.ws > wws) /\ ~(c.req.ws = wws /\ c.req.ne >= wnode[c.req.node])
    BY DEF Newer
  <2> QED BY <1>1, <1>4, <2>1
<1>6. c.req.ws < cws \/ (c.req.ws = cws /\ c.req.ne < cnode[c.req.node])
  BY <1>1, <1>3, <1>4, <1>5
<1> QED BY <1>1, <1>6 DEF Outdated

LEMMA RefusedServed ==
    ASSUME ServeInv, Refused, Serves
    PROVE  Refused'
<1>0. TypeOK /\ AgreeInv /\ alive /\ Sent /\ Outdated' = Outdated
  BY ServesFrame DEF ServeInv, AgreeInv, ListInv, clientVars, Outdated
<1>1. ASSUME NEW c \in ViewerCommands, Stamped(c.req), Execute(c), Asked # {} \/ buffer # <<>>
      PROVE  Refused'
  <2>1. PICK result : Answer(c, result) /\ (result = "stale" => ~Newer(c.req))
    BY <1>1, ExecuteAnswers
  <2>2. \A r \in Refusals' : r \in Refusals \/ (result = "stale" /\ r = c.req)
    BY <1>0, <2>1, AnswersTold DEF Answer
  <2>3. result = "stale" => c.req \in Outdated
    BY <1>0, <1>1, <2>1, StaleIsOutdated
  <2> QED BY <1>0, <2>2, <2>3 DEF Refused
<1>2. CASE ServeViewer
  <2>1. /\ Take(Kinds) /\ commands[1].kind \in Kinds /\ 1 \in Slots /\ Execute(commands[1])
    BY <1>0, <1>2, TookOne DEF ServeViewer
  <2>2. commands[1] \in ViewerCommands /\ commands[1] \in Present
    BY <1>0, <2>1, InQueue, Carried DEF Sent
  <2>3. Stamped(commands[1].req) /\ Asked # {}
    BY <2>1, <2>2 DEF Present, Asked
  <2> QED BY <1>1, <2>1, <2>2, <2>3
<1>3. ASSUME events' = events \/ \E e : Emit(e) /\ e.kind # "answer"
      PROVE  Refused'
  <2>1. Refusals' \subseteq Refusals
    <3>1. CASE events' = events
      BY <3>1 DEF Refusals, Answers, Told
    <3> QED BY <1>0, <1>3, <3>1, AnswersTold
  <2> QED BY <1>0, <2>1 DEF Refused
<1>4. CASE FlushViewer
  <2>1. CASE buffer # <<>>
    <3>1. buffer \in Seq(ViewerCommands) /\ Head(buffer) = buffer[1] /\ 1 \in 1 .. Len(buffer)
      BY <1>0, <2>1, Shrank DEF TypeOK
    <3>2. buffer[1] \in ViewerCommands /\ buffer[1] \in Present /\ Execute(buffer[1])
      BY <1>0, <1>4, <2>1, <3>1, InQueue DEF Sent, FlushViewer
    <3>3. Stamped(buffer[1].req)
      BY <3>2 DEF Present, ViewerCommands
    <3> QED BY <1>1, <2>1, <3>2, <3>3
  <2>2. CASE buffer = <<>>
    BY <1>3, <1>4, <2>2 DEF FlushViewer
  <2> QED BY <2>1, <2>2
<1>5. CASE ServeInvalidate \/ ServeRetire
  <2>1. \/ Emit([kind |-> "invalidated", id |-> Head(commands).id])
        \/ Emit([kind |-> "refused", id |-> Head(commands).id])
        \/ Emit([kind |-> "retired", run |-> Head(commands).run])
    BY <1>5 DEF ServeInvalidate, ServeRetire
  <2> QED BY <1>3, <2>1
<1>8. CASE ServeStart
  <2>1. \/ events' = events
        \/ Emit([kind |-> "ended", run |-> Head(commands).snap.run])
        \/ Emit([kind |-> "accepted", run |-> Head(commands).snap.run])
    BY <1>8 DEF ServeStart, StartFails, StartRuns, StartOffers, Ended, Offer, Offered
  <2> QED BY <1>3, <2>1
<1>6. CASE ServeCommit \/ ServeCancel \/ ServeLate \/ BufferViewer
  BY <1>3, <1>6 DEF ServeCommit, ServeCancel, ServeLate, BufferViewer, GiveUp, Ended
<1>7. CASE PreflightTimeout \/ EndRun \/ OtherRun
  BY <1>3, <1>7 DEF PreflightTimeout, EndRun, OtherRun, GiveUp, Ended
<1> QED BY <1>2, <1>4, <1>5, <1>6, <1>7, <1>8 DEF Serves, Worker

LEMMA AwaitedKept ==
    ASSUME Awaited, alive' => alive, waiting' \subseteq waiting, Outdated \subseteq Outdated',
           lost' = lost, OnWay \subseteq OnWay'
    PROVE  Awaited'
BY DEF Awaited

LEMMA OutdatedKept ==
    ASSUME UNCHANGED <<cws, cnode>>
    PROVE  Outdated' = Outdated
BY DEF Outdated

LEMMA OutdatedMoved ==
    ASSUME TypeOK, NEW all \in BOOLEAN, NEW nodes \in SUBSET Nodes, NEW ws \in Nat,
           NEW ne \in [Nodes -> Nat], Advance(all, nodes, ws, ne), Onward(all, nodes, ws, ne)
    PROVE  Outdated \subseteq Outdated' /\ waiting' \subseteq waiting
<1>0. /\ cws \in Nat /\ cnode \in [Nodes -> Nat]
      /\ \A r \in Requests : r.ws \in Nat /\ r.ne \in Nat /\ r.node \in Nodes
  BY Epochs
<1>1. ASSUME NEW r \in Outdated PROVE r \in Outdated'
  <2>1. r \in Requests /\ (r.ws < cws \/ (r.ws = cws /\ r.ne < cnode[r.node]))
    BY DEF Outdated
  <2>2. /\ r.ws \in Nat /\ r.ne \in Nat /\ r.node \in Nodes /\ cnode[r.node] \in Nat
    BY <1>0, <2>1
  <2>3. CASE all /\ ws > cws
    <3>1. r.ws < cws'
      BY <1>0, <2>1, <2>2, <2>3 DEF Advance
    <3> QED BY <2>1, <3>1 DEF Outdated
  <2>4. CASE ~all /\ ws = cws /\ \A n \in nodes : ne[n] = cnode[n] + 1
    <3>1. /\ cws' = cws
          /\ r.node \in nodes => cnode'[r.node] = cnode[r.node] + 1
          /\ r.node \notin nodes => cnode'[r.node] = cnode[r.node]
      BY <2>2, <2>4 DEF Advance
    <3>2. r.ws < cws' \/ (r.ws = cws' /\ r.ne < cnode'[r.node])
      BY <2>1, <2>2, <3>1
    <3> QED BY <2>1, <3>2 DEF Outdated
  <2> QED BY <2>3, <2>4 DEF Onward
<1>2. waiting' \subseteq waiting
  BY DEF Advance
<1> QED BY <1>1, <1>2

(* What the client does to its epochs.                                     *)
LEMMA ClientMoves ==
    ASSUME AgreeInv, \/ Invalidate \/ CommitDirect \/ ReceiveAccepted
    PROVE  Outdated \subseteq Outdated' /\ waiting' \subseteq waiting
<1>0. /\ TypeOK /\ ListInv /\ cws \in Nat /\ disp.snap \in Snapshots /\ disp.snap.ws \in Nat
      /\ Zero \in [Nodes -> Nat] /\ TRUE \in BOOLEAN /\ FALSE \in BOOLEAN /\ {} \in SUBSET Nodes
  BY Epochs, Constants DEF AgreeInv, ListInv
<1>1. CASE Invalidate
  <2>1. Advance(TRUE, {}, cws + 1, Zero)
    BY <1>1 DEF Invalidate
  <2>2. cws + 1 > cws /\ cws + 1 \in Nat
    BY <1>0
  <2>3. Onward(TRUE, {}, cws + 1, Zero)
    BY <2>2 DEF Onward
  <2> QED BY <1>0, <2>1, <2>2, <2>3, OutdatedMoved
<1>2. CASE CommitDirect
  <2>1. disp.snap.ws > cws
    BY <1>0, <1>2 DEF CommitDirect, ListInv, Following
  <2>2. Advance(TRUE, {}, disp.snap.ws, Zero) /\ Onward(TRUE, {}, disp.snap.ws, Zero)
    BY <1>2, <2>1 DEF CommitDirect, Onward
  <2> QED BY <1>0, <2>2, OutdatedMoved
<1>3. CASE ReceiveAccepted
  <2> DEFINE s == disp.snap
  <2>1. CASE UNCHANGED clientVars
    BY <2>1, OutdatedKept DEF clientVars
  <2>2. CASE PlanHolds(s) /\ Advance(FALSE, s.nodes, s.ws, s.ne)
    <3>1. s.nodes \in SUBSET Nodes /\ s.ws \in Nat /\ s.ne \in [Nodes -> Nat]
      BY <1>0 DEF Snapshots
    <3>2. Onward(FALSE, s.nodes, s.ws, s.ne)
      BY <2>2 DEF Onward, PlanHolds
    <3> QED BY <1>0, <2>2, <3>1, <3>2, OutdatedMoved
  <2> QED BY <1>3, <2>1, <2>2 DEF ReceiveAccepted
<1> QED BY <1>1, <1>2, <1>3

LEMMA AwaitedNext ==
    ASSUME ServeInv, Awaited, [Next]_vars
    PROVE  Awaited'
<1>0. /\ TypeOK /\ AgreeInv /\ ListInv /\ Grown /\ Requested
  BY DEF ServeInv, AgreeInv, ListInv
<1>1. CASE Serves
  <2>1. waiting' = waiting /\ Outdated' = Outdated /\ alive' = alive
    BY <1>1, ServesFrame, OutdatedKept DEF clientVars
  <2>2. lost \subseteq lost'
    BY <1>1 DEF Serves, Worker, ServeViewer, BufferViewer, FlushViewer, ServeInvalidate, ServeRetire,
       ServeStart, StartFails, StartRuns, StartOffers, ServeCommit, ServeCancel, ServeLate,
       PreflightTimeout, EndRun, OtherRun, GiveUp,
       workerVars
  <2>3. \A r \in OnWay : r \in OnWay' \/ r.id \in lost'
    BY <1>0, <1>1, OnWayServed
  <2> QED BY <2>1, <2>2, <2>3 DEF Awaited
<1>2. CASE Restart
  <2>1. waiting' = {}
    BY <1>0, <1>2 DEF Restart, DropGeneration, clientVars, Grown, CallTypes, TypeOK
  <2> QED BY <2>1 DEF Awaited
<1>3. CASE Crash \/ Health
  BY <1>3 DEF Crash, Health, Awaited
<1>4. ASSUME commands' = commands \/ \E c : Post(c)
      PROVE  Commanded \subseteq Commanded'
  <2>1. CASE commands' = commands
    BY <2>1 DEF Commanded, Asked, Slots
  <2> QED BY <1>0, <1>4, <2>1, CommandedPosted
<1>5. ASSUME events' = events
      PROVE  Answered' = Answered
  BY <1>5 DEF Answered, Answers, Told
<1>6. ASSUME buffer' = buffer
      PROVE  Kept' = Kept
  BY <1>6 DEF Kept
<1>7. ASSUME sending' = sending
      PROVE  Sending' = Sending
  BY <1>7 DEF Sending
<1>8. ASSUME commands' = commands \/ \E c : Post(c), UNCHANGED <<sending, buffer, events, lost, alive>>,
             Outdated \subseteq Outdated', waiting' \subseteq waiting
      PROVE  Awaited'
  <2>1. OnWay \subseteq OnWay'
    BY <1>4, <1>5, <1>6, <1>7, <1>8 DEF OnWay
  <2> QED BY <1>8, <2>1, AwaitedKept
<1>9. CASE Invalidate \/ CommitDirect
  <2>1. UNCHANGED <<sending, buffer, events, lost, alive, commands>>
    BY <1>9 DEF Invalidate, CommitDirect
  <2> QED BY <1>0, <1>8, <1>9, <2>1, ClientMoves
<1>10. CASE Deliver \/ Reserves \/ ReadyDirect \/ Retire \/ Check \/ Ready
  <2>1. UNCHANGED <<clientVars, sending, workerVars, events, alive>>
    BY <1>10 DEF Deliver, Reserves, Reserve, ReadyDirect, Retire, Check, Ready
  <2>2. commands' = commands \/ \E c : Post(c)
    BY <1>10 DEF Deliver, Reserves, Reserve, ReadyDirect, Retire, Check, Ready
  <2> QED BY <1>8, <2>1, <2>2, OutdatedKept DEF clientVars, workerVars
<1>11. CASE PostPrepared \/ PostDirect \/ DispatchFails \/ Stop
  <2>1. UNCHANGED <<clientVars, sending, workerVars, events, alive>>
    BY <1>11 DEF PostPrepared, PostDirect, DispatchFails, Stop
  <2>2. commands' = commands \/ \E c : Post(c)
    BY <1>11 DEF PostPrepared, PostDirect, DispatchFails, Stop
  <2> QED BY <1>8, <2>1, <2>2, OutdatedKept DEF clientVars, workerVars
<1>12. CASE Requests1
  <2>1. sending = NoSend /\ UNCHANGED <<clientVars, workerVars, events, alive, commands>>
    BY <1>12 DEF Requests1, ReadEpochs
  <2>2. OnWay \subseteq OnWay'
    BY <1>4, <1>5, <1>6, <2>1 DEF OnWay, Sending, workerVars
  <2> QED BY <2>1, <2>2, AwaitedKept, OutdatedKept DEF clientVars, workerVars
<1>13. CASE Track
  <2>1. /\ sending # NoSend /\ waiting' = waiting \cup {sending.req} /\ sending'.req = sending.req
        /\ sending'.kind \in Kinds
        /\ UNCHANGED <<cws, cnode, workerVars, events, alive, commands>>
    BY <1>0, <1>13, TypesSplit DEF Track, CallTypes, Sendings
  <2>2. Sending' = {sending.req}
    BY <2>1 DEF Sending, NoSend, Kinds
  <2>3. OnWay \subseteq OnWay' /\ sending.req \in OnWay'
    BY <1>4, <1>5, <1>6, <2>1, <2>2 DEF OnWay, Sending, workerVars
  <2>4. Outdated' = Outdated /\ lost' = lost
    BY <2>1, OutdatedKept DEF workerVars
  <2> QED BY <2>1, <2>3, <2>4 DEF Awaited
<1>14. CASE Send
  <2> DEFINE c == [kind |-> sending.kind, req |-> sending.req]
  <2>1. /\ sending # NoSend /\ Post(c) /\ UNCHANGED <<clientVars, workerVars, events, alive>>
        /\ sending.kind \in Kinds
    BY <1>0, <1>14, TypesSplit DEF Send, CallTypes, Sendings
  <2>2. c.kind \in Kinds /\ c.req = sending.req
    BY <2>1
  <2> HIDE DEF c
  <2>3. alive => sending.req \in Commanded' /\ Commanded \subseteq Commanded'
    BY <1>0, <2>1, <2>2, CommandedPosted
  <2>4. alive => OnWay \subseteq OnWay'
    BY <1>5, <1>6, <2>1, <2>3 DEF OnWay, Sending, workerVars
  <2>5. Outdated' = Outdated /\ lost' = lost /\ waiting' = waiting /\ alive' = alive
    BY <2>1, OutdatedKept DEF workerVars, clientVars
  <2> QED BY <2>4, <2>5 DEF Awaited
<1>15. CASE ReceiveAnswer
  <2> DEFINE e == events[1]
  <2>1. /\ Receive({"answer"}) /\ e = Head(events) /\ e.kind = "answer" /\ e \in Events
        /\ UNCHANGED <<sending, buffer, lost, alive, cws, cnode, commands>>
        /\ waiting' \subseteq waiting /\ (CurrentAnswer(e) => e.req \notin waiting')
    <3>1. Receive({"answer"})
      BY <1>15 DEF ReceiveAnswer
    <3>2. 1 \in Told /\ Head(events) = events[1] /\ events[1].kind = "answer"
      BY <1>0, <3>1, HeardOne
    <3>3. events[1] \in Events
      BY <1>0, <3>2, InQueue DEF Told
    <3>4. UNCHANGED <<sending, buffer, lost, alive, cws, cnode, commands>>
      BY <1>15 DEF ReceiveAnswer, callVars, workerVars
    <3>5. waiting' \subseteq waiting /\ (CurrentAnswer(e) => e.req \notin waiting')
      BY <1>15, <3>2 DEF ReceiveAnswer
    <3> QED BY <3>1, <3>2, <3>3, <3>4, <3>5
  <2>2. \A r \in OnWay : r \in OnWay' \/ r = e.req
    <3>1. \A r \in Answered : r \in Answered' \/ r = e.req
      BY <1>0, <2>1, AnswersHeard
    <3> QED BY <1>4, <1>6, <1>7, <2>1, <3>1 DEF OnWay
  <2>3. e.req \in waiting' => e.req \in Outdated
    <3> SUFFICES ASSUME e.req \in waiting' PROVE e.req \in Outdated
      OBVIOUS
    <3>1. e.req \in waiting /\ Stamped(e.req) /\ ~CurrentAnswer(e)
      BY <1>0, <2>1 DEF Requested
    <3>2. e.req \in Requests
      BY <1>0, <3>1 DEF TypeOK
    <3>3. e.req.ws # cws \/ e.req.ne # cnode[e.req.node]
      BY <3>1 DEF CurrentAnswer
    <3>4. e.req.ws < cws \/ (e.req.ws = cws /\ e.req.ne < cnode[e.req.node])
      BY <3>1, <3>3 DEF Stamped
    <3> QED BY <3>2, <3>4 DEF Outdated
  <2>4. Outdated' = Outdated
    BY <2>1, OutdatedKept
  <2> HIDE DEF e
  <2> QED BY <2>1, <2>2, <2>3, <2>4 DEF Awaited
<1>16. ASSUME NEW kinds, Receive(kinds), "answer" \notin kinds
       PROVE  Answered \subseteq Answered'
  <2>1. events[1].kind # "answer"
    BY <1>0, <1>16, HeardOne
  <2> QED BY <1>0, <1>16, <2>1, AnswersHeard
<1>17. CASE ReceiveAck \/ ReceiveRetired \/ ReceiveEnded
  <2>1. UNCHANGED <<clientVars, sending, workerVars, alive, commands>>
    BY <1>17 DEF ReceiveAck, ReceiveRetired, ReceiveEnded
  <2>2. Answered \subseteq Answered'
    BY <1>16, <1>17 DEF ReceiveAck, ReceiveRetired, ReceiveEnded
  <2>3. OnWay \subseteq OnWay'
    BY <1>4, <1>6, <1>7, <2>1, <2>2 DEF OnWay, workerVars
  <2> QED BY <2>1, <2>3, AwaitedKept, OutdatedKept DEF clientVars, workerVars
<1>18. CASE ReceiveAccepted
  <2>1. UNCHANGED <<callVars, workerVars, alive>>
    BY <1>18 DEF ReceiveAccepted
  <2>2. commands' = commands \/ \E c : Post(c)
    BY <1>18 DEF ReceiveAccepted
  <2>3. Answered \subseteq Answered'
    BY <1>16, <1>18 DEF ReceiveAccepted
  <2>4. OnWay \subseteq OnWay'
    BY <1>4, <1>6, <1>7, <2>1, <2>2, <2>3 DEF OnWay, workerVars, callVars
  <2>5. Outdated \subseteq Outdated' /\ waiting' \subseteq waiting
    BY <1>0, <1>18, ClientMoves
  <2> QED BY <2>1, <2>4, <2>5, AwaitedKept DEF workerVars
<1>19. CASE UNCHANGED vars
  <2>1. UNCHANGED <<sending, buffer, events, lost, alive, commands, cws, cnode, waiting>>
    BY <1>19 DEF vars, clientVars, callVars, workerVars
  <2> QED BY <1>8, <2>1, OutdatedKept
<1> QED BY <1>1, <1>2, <1>3, <1>9, <1>10, <1>11, <1>12, <1>13, <1>14, <1>15, <1>17, <1>18,
           <1>19, Steps

LEMMA RefusedNext ==
    ASSUME ServeInv, Refused, [Next]_vars
    PROVE  Refused'
<1>0. TypeOK /\ AgreeInv
  BY DEF ServeInv, AgreeInv, ListInv
<1>1. CASE Serves
  BY <1>1, RefusedServed
<1>2. CASE Restart
  <2>1. Told' = {}
    BY <1>2 DEF Restart, Told
  <2> QED BY <2>1 DEF Refused, Refusals, Answers
<1>3. ASSUME events' = events \/ \E kinds : Receive(kinds), Outdated \subseteq Outdated'
      PROVE  Refused'
  <2>1. Refusals' \subseteq Refusals
    <3>1. CASE events' = events
      BY <3>1 DEF Refusals, Answers, Told
    <3> QED BY <1>0, <1>3, <3>1, AnswersHeard
  <2> QED BY <1>3, <2>1 DEF Refused
<1>4. CASE Invalidate \/ CommitDirect
  BY <1>0, <1>3, <1>4, ClientMoves DEF Invalidate, CommitDirect
<1>5. CASE ReceiveAccepted
  BY <1>0, <1>3, <1>5, ClientMoves DEF ReceiveAccepted
<1>6. CASE Crash \/ Health \/ Deliver \/ Requests1 \/ Track \/ Send
  BY <1>3, <1>6, OutdatedKept DEF Crash, Health, Deliver, Requests1, ReadEpochs, Track, Send, clientVars
<1>7. CASE Reserves \/ ReadyDirect \/ Retire \/ Check \/ Ready
  BY <1>3, <1>7, OutdatedKept DEF Reserves, Reserve, ReadyDirect, Retire, Check, Ready, clientVars
<1>8. CASE PostPrepared \/ PostDirect \/ DispatchFails \/ Stop
  BY <1>3, <1>8, OutdatedKept DEF PostPrepared, PostDirect, DispatchFails, Stop, clientVars
<1>9. CASE ReceiveAnswer \/ ReceiveAck \/ ReceiveRetired \/ ReceiveEnded
  BY <1>3, <1>9, OutdatedKept DEF ReceiveAnswer, ReceiveAck, ReceiveRetired, ReceiveEnded, clientVars
<1>10. CASE UNCHANGED vars
  BY <1>3, <1>10, OutdatedKept DEF vars, clientVars
<1> QED BY <1>1, <1>2, <1>4, <1>5, <1>6, <1>7, <1>8, <1>9, <1>10, Steps

LEMMA AwaitInit == Init => AwaitInv
<1> SUFFICES ASSUME Init PROVE AwaitInv
  OBVIOUS
<1>1. ServeInv
  BY ServeInit
<1>2. Told = {} /\ ~alive
  BY DEF Init, Told
<1> QED BY <1>1, <1>2 DEF AwaitInv, Awaited, Refused, Refusals, Answers

LEMMA AwaitNext == AwaitInv /\ [Next]_vars => AwaitInv'
BY ServeNext, AwaitedNext, RefusedNext DEF AwaitInv

---------------------------------------------------------------------------
(* Invalidations on their way.                                             *)

LEMMA ClientGrows ==
    ASSUME AgreeInv, [Next]_vars
    PROVE  cws' \in Nat /\ cws' >= cws
<1>0. /\ TypeOK /\ ListInv /\ cws \in Nat /\ disp.snap.ws \in Nat
  BY Epochs DEF AgreeInv, ListInv
<1>1. ASSUME cws' \in {cws, cws + 1} PROVE cws' \in Nat /\ cws' >= cws
  BY <1>0, <1>1
<1>2. CASE Serves
  BY <1>1, <1>2, ServesFrame DEF clientVars
<1>3. CASE Crash \/ Health \/ Restart \/ Invalidate \/ Deliver \/ Requests1 \/ Track \/ Send
  <2>1. cws' \in {cws, cws + 1}
    BY <1>3 DEF Crash, Health, Restart, Invalidate, Deliver, Requests1, ReadEpochs, Track, Send,
       clientVars, Advance, DropGeneration
  <2> QED BY <1>1, <2>1
<1>4. CASE CommitDirect
  <2>1. cws' = disp.snap.ws /\ disp.snap.ws = cws + 1
    BY <1>0, <1>4 DEF CommitDirect, Advance, ListInv, Following
  <2> QED BY <1>1, <2>1
<1>5. CASE Reserves \/ ReadyDirect \/ Retire \/ Check \/ Ready \/ PostPrepared \/ PostDirect
           \/ DispatchFails \/ Stop
  BY <1>1, <1>5 DEF Reserves, Reserve, ReadyDirect, Retire, Check, Ready, PostPrepared, PostDirect,
     DispatchFails, Stop, clientVars
<1>6. CASE ReceiveAccepted
  <2>1. cws' = cws
    BY <1>6 DEF ReceiveAccepted, Advance, PlanHolds, clientVars
  <2> QED BY <1>1, <2>1
<1>7. CASE ReceiveAnswer \/ ReceiveAck \/ ReceiveRetired \/ ReceiveEnded \/ UNCHANGED vars
  BY <1>1, <1>7 DEF ReceiveAnswer, ReceiveAck, ReceiveRetired, ReceiveEnded, vars, clientVars
<1> QED BY <1>2, <1>3, <1>4, <1>5, <1>6, <1>7, Steps

(* The job of the worker, when it waits for a commit.                      *)
LEMMA JobServed ==
    ASSUME TypeOK, Serves, job'.phase = "preflight"
    PROVE  \/ job' = job
           \/ /\ Take({"start"}) /\ commands[1].kind = "start" /\ 1 \in Slots
              /\ job'.snap = commands[1].snap /\ ~job'.snap.all
<1>0. job \in Jobs
  BY Epochs
<1>1. CASE ServeStart
  <2>1. Take({"start"}) /\ commands[1].kind = "start" /\ 1 \in Slots /\ Head(commands) = commands[1]
    BY <1>1, TookOne DEF ServeStart, StartFails, StartRuns, StartOffers
  <2> DEFINE s == Head(commands).snap
  <2>2. \/ job' = job
        \/ job' = [phase |-> "running", snap |-> s]
        \/ ~s.all /\ job' = [phase |-> "preflight", snap |-> s]
    BY <1>1 DEF ServeStart, StartFails, StartRuns, StartOffers
  <2> QED BY <2>1, <2>2
<1>2. CASE ServeViewer \/ BufferViewer \/ ServeInvalidate \/ ServeRetire \/ ServeLate \/ OtherRun
  BY <1>2 DEF ServeViewer, BufferViewer, ServeInvalidate, ServeRetire, ServeLate, OtherRun, workerVars
<1>3. CASE ServeCommit \/ ServeCancel \/ PreflightTimeout \/ EndRun \/ FlushViewer
  <2>1. job'.phase \in {"idle", "flush", "running"} \/ job' = job
    BY <1>0, <1>3 DEF ServeCommit, ServeCancel, PreflightTimeout, EndRun, FlushViewer, GiveUp, NoJob, Jobs
  <2> QED BY <2>1
<1> QED BY <1>1, <1>2, <1>3 DEF Serves, Worker

(* Who touches what the worker is about to serve.                          *)
LEMMA WorkerRests ==
    ASSUME [Next]_vars, ~Serves, ~Restart
    PROVE  UNCHANGED <<wws, wnode, sessions, job, buffer>>
<1>1. CASE Crash \/ Health \/ Invalidate \/ Deliver \/ Requests1 \/ Track \/ Send
  BY <1>1 DEF Crash, Health, Invalidate, Deliver, Requests1, ReadEpochs, Track, Send, workerVars
<1>2. CASE Reserves \/ ReadyDirect \/ Retire \/ Check \/ Ready \/ PostPrepared \/ PostDirect
           \/ CommitDirect \/ DispatchFails \/ Stop
  BY <1>2 DEF Reserves, Reserve, ReadyDirect, Retire, Check, Ready, PostPrepared, PostDirect,
     CommitDirect, DispatchFails, Stop, workerVars
<1>3. CASE ReceiveAnswer \/ ReceiveAck \/ ReceiveRetired \/ ReceiveAccepted \/ ReceiveEnded \/ UNCHANGED vars
  BY <1>3 DEF ReceiveAnswer, ReceiveAck, ReceiveRetired, ReceiveAccepted, ReceiveEnded, vars, workerVars
<1> QED BY <1>1, <1>2, <1>3, Steps

LEMMA SettledNext ==
    ASSUME AgreeInv, Settled, [Next]_vars
    PROVE  Settled'
<1>0. TypeOK /\ Sent /\ cws \in Nat /\ cws' \in Nat /\ cws' >= cws /\ job.snap.ws \in Nat
  BY Epochs, SnapsAre, ClientGrows DEF AgreeInv, ListInv
<1>1. CASE Serves
  <2> SUFFICES ASSUME job'.phase = "preflight" PROVE job'.snap.ws <= cws'
    BY DEF Settled
  <2>1. CASE job' = job
    BY <1>0, <2>1 DEF Settled
  <2>2. CASE commands[1].kind = "start" /\ 1 \in Slots /\ job'.snap = commands[1].snap /\ ~job'.snap.all
    <3>1. commands[1] \in Present /\ commands[1] \in Commands
      BY <1>0, <2>2 DEF Sent, Present
    <3>2. Reached(commands[1].snap) /\ commands[1].snap.ws \in Nat
      BY <1>0, <2>2, <3>1, Carried, Epochs DEF Present
    <3> QED BY <1>0, <2>2, <3>2 DEF Reached
  <2> QED BY <1>0, <1>1, <2>1, <2>2, JobServed
<1>2. CASE Restart
  BY <1>2 DEF Restart, NoJob, Settled
<1>3. CASE ~Serves /\ ~Restart
  <2>1. job' = job
    BY <1>3, WorkerRests
  <2> QED BY <1>0, <2>1 DEF Settled
<1> QED BY <1>1, <1>2, <1>3

(* What precedes an invalidation leaves the worker below it.               *)
LEMMA ClearServed ==
    ASSUME AgreeInv, Serves, NEW ws \in Clear,
           commands' = commands \/ Below(commands[1], ws)
    PROVE  ws \in Clear'
<1>0. TypeOK /\ buffer \in Seq(ViewerCommands) /\ wws \in Nat
  BY Epochs DEF AgreeInv, ListInv, TypeOK
<1>1. /\ ws \in Nat /\ wws < ws /\ \A i \in 1 .. Len(buffer) : buffer[i].req.ws < ws
      /\ job.phase = "preflight" => job.snap.ws < ws
  BY DEF Clear
<1>2. ASSUME NEW kinds, Take(kinds)
      PROVE  Below(commands[1], ws) /\ commands[1].kind \in kinds /\ Head(commands) = commands[1]
  <2>1. commands \in Seq(Commands) /\ commands # <<>> /\ commands' = Tail(commands)
    BY <1>0, <1>2 DEF TypeOK, Take
  <2>2. Len(commands') = Len(commands) - 1 /\ Len(commands) \in Nat
    BY <2>1, Shrank
  <2>3. commands' # commands
    BY <2>2
  <2> QED BY <1>0, <1>2, <2>3, TookOne
<1>3. buffer # <<>> => /\ buffer[1].req.ws < ws
                       /\ \A i \in 1 .. Len(Tail(buffer)) : Tail(buffer)[i].req.ws < ws
  <2> SUFFICES ASSUME buffer # <<>>
               PROVE  /\ buffer[1].req.ws < ws
                      /\ \A i \in 1 .. Len(Tail(buffer)) : Tail(buffer)[i].req.ws < ws
    OBVIOUS
  <2>1. /\ 1 \in 1 .. Len(buffer)
        /\ \A i \in 1 .. Len(Tail(buffer)) : Tail(buffer)[i] = buffer[i + 1] /\ i + 1 \in 1 .. Len(buffer)
    BY <1>0, Shrank
  <2> QED BY <1>1, <2>1
<1>4. wws' < ws
  <2>1. CASE UNCHANGED <<wws, wnode, sessions>>
    BY <1>1, <2>1
  <2>2. ASSUME NEW c \in ViewerCommands, Execute(c), c.req.ws < ws
        PROVE  wws' < ws
    BY <1>0, <1>1, <2>2, OpenedBy
  <2>3. CASE Executes
    <3>1. CASE ServeViewer /\ Execute(commands[1]) /\ commands[1] \in ViewerCommands
      <4>1. Take(Kinds)
        BY <3>1 DEF ServeViewer
      <4>2. commands[1].req.ws < ws
        BY <1>2, <4>1 DEF Below
      <4> QED BY <2>2, <3>1, <4>2
    <3>2. CASE buffer # <<>> /\ Execute(buffer[1]) /\ buffer[1] \in ViewerCommands
      BY <1>3, <2>2, <3>2
    <3> QED BY <2>3, <3>1, <3>2 DEF Executes
  <2>4. CASE AdoptsAll
    <3>1. ASSUME NEW s, ServeStart, s = commands[1].snap, Adopt(s)
          PROVE  wws' < ws
      <4>1. Take({"start"})
        BY <3>1 DEF ServeStart, StartFails, StartRuns, StartOffers
      <4>2. commands[1].snap.ws < ws
        BY <1>2, <4>1 DEF Below
      <4> QED BY <1>0, <3>1, <4>2, Closed
    <3>2. ASSUME NEW s, ServeInvalidate, s.ws = commands[1].ws, Adopt(s)
          PROVE  wws' < ws
      <4>1. Take({"invalidate"})
        BY <3>2 DEF ServeInvalidate
      <4>2. commands[1].ws < ws
        BY <1>2, <4>1 DEF Below
      <4> QED BY <1>0, <3>2, <4>2, Closed
    <3> QED BY <2>4, <3>1, <3>2 DEF AdoptsAll
  <2>5. CASE AdoptsSome
    <3>1. job.phase = "preflight" /\ Adopt(job.snap)
      BY <2>5 DEF AdoptsSome, ServeCommit
    <3> QED BY <1>0, <1>1, <3>1, Closed
  <2> QED BY <2>1, <2>3, <2>4, <2>5, ServesWhat
<1>5. \A i \in 1 .. Len(buffer') : buffer'[i].req.ws < ws
  <2>1. CASE BufferViewer
    <3>1. Take(Kinds) /\ buffer' = Append(buffer, Head(commands))
      BY <2>1 DEF BufferViewer, Buffered
    <3>2. Head(commands).req.ws < ws
      BY <1>2, <3>1 DEF Below
    <3>3. Head(commands) \in ViewerCommands
      BY <1>0, <3>1, TookOne, InQueue, Carried
    <3>4. \A i \in 1 .. Len(buffer') :
             buffer'[i] = IF i <= Len(buffer) THEN buffer[i] ELSE Head(commands)
      BY <1>0, <3>1, <3>3, Grew
    <3> QED BY <1>0, <1>1, <3>2, <3>4
  <2>2. CASE buffer' = Tail(buffer) /\ buffer # <<>>
    BY <1>3, <2>2
  <2>3. CASE buffer' = buffer
    BY <1>1, <2>3
  <2>4. CASE buffer' = <<>>
    BY <2>4
  <2>5. \/ BufferViewer \/ (buffer' = Tail(buffer) /\ buffer # <<>>) \/ buffer' = buffer
        \/ buffer' = <<>>
    BY DEF Serves, Worker, ServeViewer, FlushViewer, ServeInvalidate, ServeRetire, workerVars,
       ServeStart, StartFails, StartRuns, StartOffers, ServeCommit, ServeCancel, ServeLate,
       PreflightTimeout, EndRun, OtherRun, GiveUp
  <2> QED BY <2>1, <2>2, <2>3, <2>4, <2>5
<1>6. job'.phase = "preflight" => job'.snap.ws < ws
  <2> SUFFICES ASSUME job'.phase = "preflight" PROVE job'.snap.ws < ws
    OBVIOUS
  <2>1. CASE job' = job
    BY <1>1, <2>1
  <2>2. CASE Take({"start"}) /\ job'.snap = commands[1].snap
    BY <1>2, <2>2 DEF Below
  <2> QED BY <1>0, <2>1, <2>2, JobServed
<1> QED BY <1>1, <1>4, <1>5, <1>6 DEF Clear

LEMMA PostedAny ==
    ASSUME TypeOK, NEW c, Post(c)
    PROVE  /\ \A i \in Slots : i \in Slots' /\ commands'[i] = commands[i] /\ i < Len(commands) + 1
           /\ \A i \in Slots' : i \in Slots \/ (alive /\ i = Len(commands) + 1 /\ commands'[i] = c)
<1>1. commands \in Seq(Commands) /\ Len(commands) \in Nat
  BY DEF TypeOK
<1>2. \A i \in Slots : i < Len(commands) + 1
  BY <1>1 DEF Slots
<1>3. CASE alive
  <2>1. commands' = Append(commands, c)
    BY <1>3 DEF Post
  <2> QED BY <1>1, <1>2, <1>3, <2>1, Lengthened DEF Slots
<1>4. CASE ~alive
  <2>1. commands' = commands
    BY <1>4 DEF Post
  <2> QED BY <1>2, <2>1 DEF Slots
<1> QED BY <1>3, <1>4

(* Who posts what.                                                         *)
LEMMA OthersPost ==
    ASSUME TypeOK, [Next]_vars, ~Serves
    PROVE  \/ Deliver
           \/ commands' = commands
           \/ (Crash \/ Restart) /\ commands' = <<>>
           \/ \E c : Post(c) /\ c.kind # "invalidate"
<1>1. CASE Crash \/ Health \/ Restart \/ Invalidate \/ Requests1 \/ Track
  BY <1>1 DEF Crash, Health, Restart, Invalidate, Requests1, ReadEpochs, Track
<1>2. CASE Send
  <2>1. Post([kind |-> sending.kind, req |-> sending.req]) /\ sending.kind \in Kinds
    BY <1>2, TypesSplit DEF Send, CallTypes, Sendings
  <2> DEFINE c == [kind |-> sending.kind, req |-> sending.req]
  <2>2. Post(c) /\ c.kind # "invalidate"
    BY <2>1 DEF Kinds
  <2> QED BY <2>2
<1>3. CASE Reserves \/ ReadyDirect \/ Check \/ Ready \/ CommitDirect \/ DispatchFails
  BY <1>3 DEF Reserves, Reserve, ReadyDirect, Check, Ready, CommitDirect, DispatchFails
<1>4. CASE Retire
  <2>1. commands' = commands \/ Post([kind |-> "retire", run |-> disp.snap.run])
    BY <1>4 DEF Retire
  <2> QED BY <2>1
<1>5. CASE Stop
  <2>1. Post([kind |-> "stop", run |-> disp.snap.run])
    BY <1>5 DEF Stop
  <2> QED BY <2>1
<1>6. CASE PostPrepared
  <2>1. Post([kind |-> "start", snap |-> disp.snap])
    BY <1>6 DEF PostPrepared
  <2> QED BY <2>1
<1>7. CASE PostDirect
  <2> DEFINE c == [kind |-> "start", snap |-> [disp.snap EXCEPT !.ws = cws + 1]]
  <2>1. Post(c) /\ c.kind # "invalidate"
    BY <1>7 DEF PostDirect
  <2> QED BY <2>1
<1>8. CASE ReceiveAnswer \/ ReceiveAck \/ ReceiveRetired \/ ReceiveEnded \/ UNCHANGED vars
  BY <1>8 DEF ReceiveAnswer, ReceiveAck, ReceiveRetired, ReceiveEnded, vars
<1>9. CASE ReceiveAccepted
  <2>1. \/ commands' = commands
        \/ Post([kind |-> "commit", snap |-> disp.snap])
        \/ Post([kind |-> "cancel", run |-> disp.snap.run])
    BY <1>9 DEF ReceiveAccepted
  <2> QED BY <2>1
<1> QED BY <1>1, <1>2, <1>3, <1>4, <1>5, <1>6, <1>7, <1>8, <1>9, Steps

LEMMA InOrderPosted ==
    ASSUME TypeOK, InOrder, Clear \subseteq Clear', NEW c, Post(c),
           alive /\ c.kind = "invalidate" =>
             c.ws \in Clear /\ \A k \in Slots : Below(commands[k], c.ws)
    PROVE  InOrder'
<1>1. /\ \A i \in Slots : i \in Slots' /\ commands'[i] = commands[i] /\ i < Len(commands) + 1
      /\ \A i \in Slots' : i \in Slots \/ (alive /\ i = Len(commands) + 1 /\ commands'[i] = c)
  BY PostedAny
<1>2. Len(commands) \in Nat /\ \A i \in Slots : i \in Nat
  BY Indices DEF TypeOK
<1>3. ASSUME NEW i \in Slots', commands'[i].kind = "invalidate"
      PROVE  /\ commands'[i].ws \in Clear'
             /\ \A k \in Slots' : k < i => Below(commands'[k], commands'[i].ws)
  <2>1. CASE i \in Slots
    <3>1. commands'[i] = commands[i] /\ i < Len(commands) + 1
      BY <1>1, <2>1
    <3>2. /\ commands[i].ws \in Clear
          /\ \A k \in Slots : k < i => Below(commands[k], commands[i].ws)
      BY <1>3, <2>1, <3>1 DEF InOrder
    <3>3. ASSUME NEW k \in Slots', k < i PROVE Below(commands'[k], commands'[i].ws)
      <4>1. k \in Slots
        BY <1>1, <1>2, <2>1, <3>1, <3>3
      <4> QED BY <1>1, <3>1, <3>2, <3>3, <4>1
    <3> QED BY <3>1, <3>2, <3>3
  <2>2. CASE alive /\ i = Len(commands) + 1 /\ commands'[i] = c
    <3>1. c.ws \in Clear /\ \A k \in Slots : Below(commands[k], c.ws)
      BY <1>3, <2>2
    <3>2. ASSUME NEW k \in Slots', k < i PROVE Below(commands'[k], commands'[i].ws)
      <4>1. k \in Slots
        BY <1>1, <1>2, <2>2, <3>2
      <4> QED BY <1>1, <2>2, <3>1, <4>1
    <3> QED BY <2>2, <3>1, <3>2
  <2> QED BY <1>1, <2>1, <2>2
<1> QED BY <1>3 DEF InOrder, Below

LEMMA InOrderNext ==
    ASSUME AgreeInv, InOrder, BeforeIt, [Next]_vars
    PROVE  InOrder'
<1>0. TypeOK /\ Grown
  BY DEF AgreeInv, ListInv
<1>1. CASE Serves
  <2>1. CASE commands' = commands
    <3>1. ASSUME NEW i \in Slots', commands'[i].kind = "invalidate"
          PROVE  /\ commands'[i].ws \in Clear'
                 /\ \A k \in Slots' : k < i => Below(commands'[k], commands'[i].ws)
      <4>1. /\ commands[i].ws \in Clear
            /\ \A k \in Slots : k < i => Below(commands[k], commands[i].ws)
        BY <2>1, <3>1 DEF InOrder, Slots
      <4>2. commands[i].ws \in Clear'
        BY <1>0, <1>1, <2>1, <4>1, ClearServed
      <4> QED BY <2>1, <4>1, <4>2 DEF Slots
    <3> QED BY <3>1 DEF InOrder, Below
  <2>2. ASSUME NEW kinds, Take(kinds)
        PROVE  InOrder'
    <3>1. ASSUME NEW i \in Slots', commands'[i].kind = "invalidate"
          PROVE  /\ commands'[i].ws \in Clear'
                 /\ \A k \in Slots' : k < i => Below(commands'[k], commands'[i].ws)
      <4>1. /\ 1 \in Slots /\ i + 1 \in Slots /\ commands'[i] = commands[i + 1]
            /\ \A k \in Slots' : k + 1 \in Slots /\ commands'[k] = commands[k + 1]
        BY <1>0, <2>2, TookOne
      <4>2. /\ commands[i + 1].ws \in Clear
            /\ \A k \in Slots : k < i + 1 => Below(commands[k], commands[i + 1].ws)
        BY <3>1, <4>1 DEF InOrder
      <4>3. i \in Nat \ {0} /\ \A k \in Slots' : k \in Nat
        BY Indices
      <4>4. Below(commands[1], commands[i + 1].ws)
        BY <4>1, <4>2, <4>3
      <4>5. commands[i + 1].ws \in Clear'
        BY <1>0, <1>1, <4>2, <4>4, ClearServed
      <4>6. ASSUME NEW k \in Slots', k < i PROVE Below(commands'[k], commands'[i].ws)
        <5>1. k + 1 < i + 1 /\ k + 1 \in Slots
          BY <4>1, <4>3, <4>6
        <5> QED BY <4>1, <4>2, <5>1
      <4> QED BY <4>1, <4>5, <4>6
    <3> QED BY <3>1 DEF InOrder, Below
  <2> QED BY <1>1, <2>1, <2>2, ServesQueue
<1>2. CASE commands' = <<>>
  <2>1. Slots' = {}
    BY <1>2 DEF Slots
  <2> QED BY <2>1 DEF InOrder
<1>3. CASE ~Serves /\ ~(commands' = <<>>)
  <2>1. ~Restart
    BY <1>3 DEF Restart
  <2>2. Clear' = Clear
    BY <1>3, <2>1, WorkerRests DEF Clear
  <2>3. CASE commands' = commands
    <3>1. \A i \in Slots : commands[i].kind = "invalidate" =>
             /\ commands[i].ws \in Clear'
             /\ \A k \in Slots : k < i => Below(commands[k], commands[i].ws)
      BY <2>2 DEF InOrder
    <3> QED BY <2>3, <3>1 DEF InOrder, Slots, Below
  <2>4. CASE \E c : Post(c) /\ c.kind # "invalidate"
    <3>1. PICK c : Post(c) /\ c.kind # "invalidate"
      BY <2>4
    <3> QED BY <1>0, <2>2, <3>1, InOrderPosted
  <2>5. CASE Deliver /\ ~(commands' = commands)
    <3> DEFINE c == [kind |-> "invalidate", id |-> inv.id, ws |-> inv.ws]
    <3>1. inv # NoInv /\ inv.gen = generation /\ Post(c)
      BY <2>5 DEF Deliver
    <3>2. alive => inv.ws \in Clear /\ \A k \in Slots : Below(commands[k], inv.ws)
      BY <3>1 DEF BeforeIt, Delivering
    <3>3. c.ws = inv.ws
      OBVIOUS
    <3> HIDE DEF c
    <3>4. alive /\ c.kind = "invalidate" =>
             c.ws \in Clear /\ \A k \in Slots : Below(commands[k], c.ws)
      BY <3>2, <3>3
    <3> QED BY <1>0, <2>2, <3>1, <3>4, InOrderPosted
  <2> QED BY <1>0, <1>3, <2>3, <2>4, <2>5, OthersPost
<1> QED BY <1>1, <1>2, <1>3

(* Numbers of invalidations on their way, and on their way back.           *)
LEMMA CarryingPosted ==
    ASSUME TypeOK, NEW c, Post(c)
    PROVE  /\ Carrying \subseteq Carrying'
           /\ alive /\ c.kind = "invalidate" => c.id \in Carrying'
           /\ \A id \in Carrying' : id \in Carrying \/ (c.kind = "invalidate" /\ id = c.id)
<1>1. /\ \A i \in Slots : i \in Slots' /\ commands'[i] = commands[i]
      /\ \A i \in Slots' : \/ i \in Slots /\ commands'[i] = commands[i]
                           \/ commands'[i] = c
  BY PostedAny
<1>2. alive => \E i \in Slots' : commands'[i] = c
  <2> SUFFICES ASSUME alive PROVE \E i \in Slots' : commands'[i] = c
    OBVIOUS
  <2>1. commands \in Seq(Commands) /\ commands' = Append(commands, c)
    BY DEF TypeOK, Post
  <2>2. Len(commands) + 1 \in Slots' /\ commands'[Len(commands) + 1] = c
    BY <2>1, Lengthened DEF Slots
  <2> QED BY <2>2
<1>3. Carrying \subseteq Carrying'
  BY <1>1 DEF Carrying
<1>4. alive /\ c.kind = "invalidate" => c.id \in Carrying'
  BY <1>2 DEF Carrying
<1>5. \A id \in Carrying' : id \in Carrying \/ (c.kind = "invalidate" /\ id = c.id)
  BY <1>1 DEF Carrying
<1> QED BY <1>3, <1>4, <1>5

LEMMA CarryingTook ==
    ASSUME TypeOK, NEW kinds, Take(kinds)
    PROVE  /\ Carrying' \subseteq Carrying
           /\ commands[1].kind = "invalidate" => commands[1].id \in Carrying
           /\ \A id \in Carrying : \/ id \in Carrying'
                                   \/ commands[1].kind = "invalidate" /\ id = commands[1].id
<1>1. /\ 1 \in Slots
      /\ \A i \in Slots' : i + 1 \in Slots /\ commands'[i] = commands[i + 1]
      /\ \A i \in Slots : i # 1 => i - 1 \in Slots' /\ commands'[i - 1] = commands[i]
  BY TookOne
<1>2. Carrying' \subseteq Carrying
  <2> SUFFICES ASSUME NEW i \in Slots', commands'[i].kind = "invalidate"
               PROVE  commands'[i].id \in Carrying
    BY DEF Carrying
  <2>1. i + 1 \in Slots /\ commands'[i] = commands[i + 1]
    BY <1>1
  <2> QED BY <2>1 DEF Carrying
<1>3. commands[1].kind = "invalidate" => commands[1].id \in Carrying
  BY <1>1 DEF Carrying
<1>4. \A id \in Carrying : id \in Carrying' \/ (commands[1].kind = "invalidate" /\ id = commands[1].id)
  <2> SUFFICES ASSUME NEW i \in Slots, commands[i].kind = "invalidate", i # 1
               PROVE  commands[i].id \in Carrying'
    BY DEF Carrying
  <2>1. i - 1 \in Slots' /\ commands'[i - 1] = commands[i]
    BY <1>1
  <2> QED BY <2>1 DEF Carrying
<1> QED BY <1>2, <1>3, <1>4

LEMMA CarryingKept ==
    /\ commands' = commands => Carrying' = Carrying
    /\ commands' = <<>> => Carrying' = {}
BY DEF Carrying, Slots

LEMMA ReturningTold ==
    ASSUME TypeOK, NEW e, Emit(e)
    PROVE  /\ Returning \subseteq Returning'
           /\ e.kind = "invalidated" => e.id \in Returning'
           /\ \A id \in Returning' : id \in Returning \/ (e.kind = "invalidated" /\ id = e.id)
           /\ Adopting /\ e.kind # "refused" => Adopting'
<1>1. /\ \A i \in Told : i \in Told' /\ events'[i] = events[i]
      /\ \A i \in Told' : \/ i \in Told /\ events'[i] = events[i]
                          \/ events'[i] = e
      /\ Len(events) + 1 \in Told' /\ events'[Len(events) + 1] = e
  BY ToldOne
<1>2. Returning \subseteq Returning'
  BY <1>1 DEF Returning
<1>3. e.kind = "invalidated" => e.id \in Returning'
  BY <1>1 DEF Returning
<1>4. \A id \in Returning' : id \in Returning \/ (e.kind = "invalidated" /\ id = e.id)
  BY <1>1 DEF Returning
<1>5. Adopting /\ e.kind # "refused" => Adopting'
  BY <1>1 DEF Adopting
<1> QED BY <1>2, <1>3, <1>4, <1>5

LEMMA ReturningHeard ==
    ASSUME TypeOK, NEW kinds, Receive(kinds)
    PROVE  /\ Returning' \subseteq Returning
           /\ events[1].kind = "invalidated" => events[1].id \in Returning
           /\ \A id \in Returning : \/ id \in Returning'
                                    \/ events[1].kind = "invalidated" /\ id = events[1].id
           /\ Adopting => Adopting' /\ events[1].kind # "refused"
<1>1. /\ 1 \in Told
      /\ \A i \in Told' : i + 1 \in Told /\ events'[i] = events[i + 1]
      /\ \A i \in Told : i # 1 => i - 1 \in Told' /\ events'[i - 1] = events[i]
  BY HeardOne
<1>2. Returning' \subseteq Returning
  <2> SUFFICES ASSUME NEW i \in Told', events'[i].kind = "invalidated"
               PROVE  events'[i].id \in Returning
    BY DEF Returning
  <2>1. i + 1 \in Told /\ events'[i] = events[i + 1]
    BY <1>1
  <2> QED BY <2>1 DEF Returning
<1>3. events[1].kind = "invalidated" => events[1].id \in Returning
  BY <1>1 DEF Returning
<1>4. \A id \in Returning : id \in Returning' \/ (events[1].kind = "invalidated" /\ id = events[1].id)
  <2> SUFFICES ASSUME NEW i \in Told, events[i].kind = "invalidated", i # 1
               PROVE  events[i].id \in Returning'
    BY DEF Returning
  <2>1. i - 1 \in Told' /\ events'[i - 1] = events[i]
    BY <1>1
  <2> QED BY <2>1 DEF Returning
<1>5. Adopting => Adopting' /\ events[1].kind # "refused"
  BY <1>1 DEF Adopting
<1> QED BY <1>2, <1>3, <1>4, <1>5

LEMMA ReturningKept ==
    /\ events' = events => Returning' = Returning /\ (Adopting => Adopting')
    /\ events' = <<>> => Returning' = {} /\ Adopting'
BY DEF Returning, Adopting, Told

(* What the worker says of an invalidation it says when it reads it.       *)
LEMMA ServesTells ==
    ASSUME Serves
    PROVE  \/ ServeInvalidate
           \/ events' = events
           \/ \E e : Emit(e) /\ e.kind \notin {"invalidated", "refused"}
<1>1. ASSUME NEW c, Execute(c)
      PROVE  \E e : Emit(e) /\ e.kind \notin {"invalidated", "refused"}
  <2>1. PICK result : Answer(c, result)
    BY <1>1, ExecuteAnswers
  <2> DEFINE e == [kind |-> "answer", req |-> c.req, result |-> result]
  <2>2. Emit(e) /\ e.kind \notin {"invalidated", "refused"}
    BY <2>1 DEF Answer
  <2> QED BY <2>2
<1>2. ASSUME NEW run, Ended(run)
      PROVE  \E e : Emit(e) /\ e.kind \notin {"invalidated", "refused"}
  <2> DEFINE e == [kind |-> "ended", run |-> run]
  <2>1. Emit(e) /\ e.kind \notin {"invalidated", "refused"}
    BY <1>2 DEF Ended
  <2> QED BY <2>1
<1>3. CASE ServeViewer \/ FlushViewer
  BY <1>1, <1>3 DEF ServeViewer, FlushViewer
<1>4. CASE ServeRetire
  <2> DEFINE e == [kind |-> "retired", run |-> Head(commands).run]
  <2>1. Emit(e) /\ e.kind \notin {"invalidated", "refused"}
    BY <1>4 DEF ServeRetire
  <2> QED BY <2>1
<1>5. CASE ServeStart
  <2>1. \/ events' = events
        \/ Ended(Head(commands).snap.run)
        \/ Emit([kind |-> "accepted", run |-> Head(commands).snap.run])
    BY <1>5 DEF ServeStart, StartFails, StartRuns, StartOffers, Offer, Offered
  <2> DEFINE e == [kind |-> "accepted", run |-> Head(commands).snap.run]
  <2>2. e.kind \notin {"invalidated", "refused"}
    OBVIOUS
  <2> QED BY <1>2, <2>1, <2>2
<1>6. CASE ServeCommit \/ ServeCancel \/ PreflightTimeout \/ EndRun
  BY <1>2, <1>6 DEF ServeCommit, ServeCancel, PreflightTimeout, EndRun, GiveUp
<1>7. CASE ServeLate \/ BufferViewer \/ OtherRun
  BY <1>7 DEF ServeLate, BufferViewer, OtherRun
<1> QED BY <1>3, <1>4, <1>5, <1>6, <1>7 DEF Serves, Worker

(* The worker refuses no invalidation, and acknowledges each.              *)
LEMMA AckedServed ==
    ASSUME AgreeInv, InOrder, Adopting, Serves
    PROVE  Acked' = Acked /\ Adopting'
<1>0. TypeOK /\ wws \in Nat
  BY Epochs DEF AgreeInv, ListInv
<1>1. CASE ServeInvalidate
  <2>1. /\ Take({"invalidate"}) /\ 1 \in Slots /\ Head(commands) = commands[1]
        /\ commands[1].kind = "invalidate"
    BY <1>0, <1>1, TookOne DEF ServeInvalidate
  <2>2. commands[1].ws > wws
    <3>1. commands[1].ws \in Clear
      BY <2>1 DEF InOrder
    <3> QED BY <1>0, <3>1 DEF Clear
  <2> DEFINE s == [NoSnap EXCEPT !.all = TRUE, !.ws = Head(commands).ws]
             e == [kind |-> "invalidated", id |-> Head(commands).id]
  <2>3. s.all /\ s.ws = commands[1].ws
    BY <2>1 DEF NoSnap
  <2>4. Valid(s, FALSE)
    BY <2>2, <2>3 DEF Valid
  <2>5. Emit(e)
    BY <1>1, <2>4 DEF ServeInvalidate
  <2>6. e.kind = "invalidated" /\ e.id = commands[1].id
    BY <2>1
  <2> HIDE DEF s, e
  <2>7. /\ Carrying' \subseteq Carrying /\ commands[1].id \in Carrying
        /\ \A id \in Carrying : id \in Carrying' \/ id = commands[1].id
    BY <1>0, <2>1, CarryingTook
  <2>8. /\ Returning \subseteq Returning' /\ commands[1].id \in Returning'
        /\ \A id \in Returning' : id \in Returning \/ id = commands[1].id
        /\ Adopting'
    BY <1>0, <2>5, <2>6, ReturningTold
  <2> QED BY <2>7, <2>8 DEF Acked
<1>2. CASE ~ServeInvalidate
  <2>1. Carrying' = Carrying
    <3>1. CASE commands' = commands
      BY <3>1, CarryingKept
    <3>2. CASE ~(commands' = commands)
      <4>1. (\E kinds : Take(kinds)) /\ commands[1].kind # "invalidate"
        BY <1>0, <1>2, <3>2, ServesTakes
      <4> QED BY <1>0, <4>1, CarryingTook
    <3> QED BY <3>1, <3>2
  <2>2. Returning' = Returning /\ Adopting'
    <3>1. CASE events' = events
      BY <3>1, ReturningKept
    <3>2. CASE \E e : Emit(e) /\ e.kind \notin {"invalidated", "refused"}
      BY <1>0, <3>2, ReturningTold
    <3> QED BY <1>2, <3>1, <3>2, ServesTells
  <2> QED BY <2>1, <2>2 DEF Acked
<1> QED BY <1>1, <1>2

LEMMA OthersHear ==
    ASSUME [Next]_vars, ~Serves
    PROVE  \/ events' = events
           \/ Restart /\ events' = <<>>
           \/ ReceiveAck /\ Receive({"invalidated", "refused"})
           \/ \E kinds : Receive(kinds) /\ "invalidated" \notin kinds
<1>1. CASE Crash \/ Health \/ Restart \/ Invalidate \/ Deliver \/ Requests1 \/ Track \/ Send
  BY <1>1 DEF Crash, Health, Restart, Invalidate, Deliver, Requests1, ReadEpochs, Track, Send
<1>2. CASE Reserves \/ ReadyDirect \/ Retire \/ Check \/ Ready \/ PostPrepared \/ PostDirect
           \/ CommitDirect \/ DispatchFails \/ Stop
  BY <1>2 DEF Reserves, Reserve, ReadyDirect, Retire, Check, Ready, PostPrepared, PostDirect,
     CommitDirect, DispatchFails, Stop
<1>3. CASE ReceiveAnswer
  <2>1. Receive({"answer"}) /\ "invalidated" \notin {"answer"}
    BY <1>3 DEF ReceiveAnswer
  <2> QED BY <2>1
<1>4. CASE ReceiveRetired
  <2>1. Receive({"retired"}) /\ "invalidated" \notin {"retired"}
    BY <1>4 DEF ReceiveRetired
  <2> QED BY <2>1
<1>5. CASE ReceiveAccepted
  <2>1. Receive({"accepted"}) /\ "invalidated" \notin {"accepted"}
    BY <1>5 DEF ReceiveAccepted
  <2> QED BY <2>1
<1>6. CASE ReceiveEnded
  <2>1. Receive({"ended"}) /\ "invalidated" \notin {"ended"}
    BY <1>6 DEF ReceiveEnded
  <2> QED BY <2>1
<1>7. CASE ReceiveAck \/ UNCHANGED vars
  BY <1>7 DEF ReceiveAck, vars
<1> QED BY <1>1, <1>2, <1>3, <1>4, <1>5, <1>6, <1>7, Steps

LEMMA AckedShrinks ==
    ASSUME AgreeInv, InOrder, Adopting, [Next]_vars
    PROVE  /\ \A id \in Acked' : id \in Acked \/ (Deliver /\ id = inv.id)
           /\ Adopting'
<1>0. TypeOK
  BY DEF AgreeInv, ListInv
<1>1. CASE Serves
  BY <1>1, AckedServed
<1>2. CASE ~Serves
  <2>1. \A id \in Carrying' : id \in Carrying \/ (Deliver /\ id = inv.id)
    <3>1. CASE commands' = commands \/ commands' = <<>>
      BY <3>1, CarryingKept
    <3>2. CASE \E c : Post(c) /\ c.kind # "invalidate"
      BY <1>0, <3>2, CarryingPosted
    <3>3. CASE Deliver
      <4>1. commands' = commands \/ Post([kind |-> "invalidate", id |-> inv.id, ws |-> inv.ws])
        BY <3>3 DEF Deliver
      <4>2. [kind |-> "invalidate", id |-> inv.id, ws |-> inv.ws].id = inv.id
        OBVIOUS
      <4> QED BY <1>0, <3>3, <4>1, <4>2, CarryingPosted, CarryingKept
    <3> QED BY <1>0, <1>2, <3>1, <3>2, <3>3, OthersPost
  <2>2. Returning' \subseteq Returning /\ Adopting'
    BY <1>0, <1>2, OthersHear, ReturningKept, ReturningHeard
  <2> QED BY <2>1, <2>2 DEF Acked
<1> QED BY <1>1, <1>2

(* What is left of a delivery that failed.                                 *)
LEMMA FailedOnes ==
    ASSUME TypeOK
    PROVE  /\ \A x \in Failed : \E d \in deliveries : x.id = d.id /\ x.gen = d.gen
           /\ \A d \in deliveries : \E x \in Failed : x.id = d.id /\ x.gen = d.gen
           /\ \A d \in deliveries : d.id \in Nat /\ d.gen \in Nat
<1>1. deliveries \subseteq Deliveries /\ MaxCalls \in Nat
  BY TypesSplit, Constants DEF CallTypes
<1>2. \A d \in deliveries : /\ [d EXCEPT !.failed = TRUE].id = d.id
                            /\ [d EXCEPT !.failed = TRUE].gen = d.gen
                            /\ d.id \in Nat /\ d.gen \in Nat
  BY <1>1 DEF Deliveries
<1>3. \A d \in deliveries : [d EXCEPT !.failed = TRUE] \in Failed
  BY DEF Failed
<1>4. \A d \in deliveries : \E x \in Failed : x.id = d.id /\ x.gen = d.gen
  <2> SUFFICES ASSUME NEW d \in deliveries PROVE \E x \in Failed : x.id = d.id /\ x.gen = d.gen
    OBVIOUS
  <2>1. /\ [d EXCEPT !.failed = TRUE] \in Failed
        /\ [d EXCEPT !.failed = TRUE].id = d.id /\ [d EXCEPT !.failed = TRUE].gen = d.gen
    BY <1>2, <1>3
  <2> QED BY <2>1
<1>5. \A x \in Failed : \E d \in deliveries : x = [d EXCEPT !.failed = TRUE]
  BY DEF Failed
<1>6. \A x \in Failed : \E d \in deliveries : x.id = d.id /\ x.gen = d.gen
  BY <1>2, <1>5
<1> QED BY <1>2, <1>4, <1>6

LEMMA AckHeard ==
    ASSUME TypeOK, Adopting, ReceiveAck
    PROVE  /\ events[1].id \in Returning
           /\ deliveries' = {d \in deliveries : d.id # events[1].id}
           /\ \A id \in Returning : id \in Returning' \/ id = events[1].id
<1>1. Receive({"invalidated", "refused"})
  BY DEF ReceiveAck
<1>2. Head(events) = events[1] /\ events[1].kind = "invalidated"
  BY <1>1, HeardOne, ReturningHeard
<1>3. /\ events[1].id \in Returning
      /\ \A id \in Returning : id \in Returning' \/ id = events[1].id
  BY <1>1, <1>2, ReturningHeard
<1> DEFINE mine == {d \in deliveries : d.id = events[1].id}
<1>4. deliveries' = (deliveries \ mine)
                      \cup {[d EXCEPT !.failed = TRUE] :
                              d \in {x \in mine : events[1].kind = "refused"}}
  BY <1>2 DEF ReceiveAck
<1>5. {x \in mine : events[1].kind = "refused"} = {}
  BY <1>2
<1>6. deliveries' = deliveries \ mine
  BY <1>4, <1>5
<1> QED BY <1>3, <1>6

(* What becomes of the deliveries, but when one begins or is posted.       *)
LEMMA DeliveriesMove ==
    ASSUME TypeOK, Adopting, [Next]_vars, ~Invalidate, ~Deliver
    PROVE  /\ inv' = inv
           /\ \A x \in deliveries' : \E d \in deliveries : x.id = d.id /\ x.gen = d.gen
           /\ \A d \in deliveries : \/ \E x \in deliveries' : x.id = d.id /\ x.gen = d.gen
                                    \/ ReceiveAck /\ d.id = events[1].id
<1>1. ASSUME UNCHANGED <<inv, deliveries>> \/ (inv' = inv /\ deliveries' = Failed)
      PROVE  /\ inv' = inv
             /\ \A x \in deliveries' : \E d \in deliveries : x.id = d.id /\ x.gen = d.gen
             /\ \A d \in deliveries : \E x \in deliveries' : x.id = d.id /\ x.gen = d.gen
  <2>1. CASE deliveries' = Failed
    BY <1>1, <2>1, FailedOnes
  <2>2. CASE deliveries' = deliveries
    BY <1>1, <2>2
  <2> QED BY <1>1, <2>1, <2>2
<1>2. CASE Serves
  BY <1>1, <1>2, ServesFrame DEF callVars
<1>3. CASE Crash \/ Health \/ Restart
  <2>1. UNCHANGED <<inv, deliveries>> \/ (inv' = inv /\ deliveries' = Failed)
    BY <1>3 DEF Crash, Health, Restart, callVars
  <2> QED BY <1>1, <2>1
<1>4. CASE Requests1 \/ Track \/ Send \/ Reserves \/ ReadyDirect \/ Retire \/ Check \/ Ready
  BY <1>1, <1>4 DEF Requests1, ReadEpochs, Track, Send, Reserves, Reserve, ReadyDirect, Retire, Check, Ready
<1>5. CASE PostPrepared \/ PostDirect \/ CommitDirect \/ DispatchFails \/ Stop
  BY <1>1, <1>5 DEF PostPrepared, PostDirect, CommitDirect, DispatchFails, Stop
<1>6. CASE ReceiveAnswer \/ ReceiveRetired \/ ReceiveAccepted \/ ReceiveEnded \/ UNCHANGED vars
  BY <1>1, <1>6 DEF ReceiveAnswer, ReceiveRetired, ReceiveAccepted, ReceiveEnded, vars, callVars
<1>7. CASE ReceiveAck
  <2>1. inv' = inv
    BY <1>7 DEF ReceiveAck
  <2> QED BY <1>7, <2>1, AckHeard
<1> QED BY <1>2, <1>3, <1>4, <1>5, <1>6, <1>7, Steps

LEMMA Counts ==
    ASSUME TypeOK, [Next]_vars
    PROVE  /\ calls \in Nat /\ calls' \in Nat /\ calls' >= calls
           /\ generation \in Nat /\ generation' = IF Restart THEN generation + 1 ELSE generation
<1>0. calls \in Nat /\ generation \in Nat
  BY SnapsAre, TypesSplit DEF CallTypes
<1>1. calls' \in {calls, calls + 1}
  <2>1. CASE Serves
    BY <2>1, ServesFrame DEF countVars
  <2>2. CASE Crash \/ Health \/ Restart \/ Invalidate \/ Deliver \/ Requests1 \/ Track \/ Send
    BY <2>2 DEF Crash, Health, Restart, Invalidate, Deliver, Requests1, ReadEpochs, Track, Send, countVars
  <2>3. CASE Reserves \/ ReadyDirect \/ Retire \/ Check \/ Ready \/ PostPrepared \/ PostDirect
             \/ CommitDirect \/ DispatchFails \/ Stop
    BY <2>3 DEF Reserves, Reserve, ReadyDirect, Retire, Check, Ready, PostPrepared, PostDirect,
       CommitDirect, DispatchFails, Stop, countVars
  <2>4. CASE ReceiveAnswer \/ ReceiveAck \/ ReceiveRetired \/ ReceiveAccepted \/ ReceiveEnded \/ UNCHANGED vars
    BY <2>4 DEF ReceiveAnswer, ReceiveAck, ReceiveRetired, ReceiveAccepted, ReceiveEnded, vars, countVars
  <2> QED BY <2>1, <2>2, <2>3, <2>4, Steps
<1>2. Restart => generation' = generation + 1
  BY DEF Restart, NextGeneration
<1>3. ~Restart => generation' = generation
  <2>1. CASE Serves
    BY <2>1, ServesFrame DEF callVars
  <2>2. CASE Crash \/ Health \/ Invalidate \/ Deliver \/ Requests1 \/ Track \/ Send
    BY <2>2 DEF Crash, Health, Invalidate, Deliver, Requests1, ReadEpochs, Track, Send, callVars
  <2>3. CASE Reserves \/ ReadyDirect \/ Retire \/ Check \/ Ready \/ PostPrepared \/ PostDirect
             \/ CommitDirect \/ DispatchFails \/ Stop
    BY <2>3 DEF Reserves, Reserve, ReadyDirect, Retire, Check, Ready, PostPrepared, PostDirect,
       CommitDirect, DispatchFails, Stop
  <2>4. CASE ReceiveAnswer \/ ReceiveAck \/ ReceiveRetired \/ ReceiveAccepted \/ ReceiveEnded \/ UNCHANGED vars
    BY <2>4 DEF ReceiveAnswer, ReceiveAck, ReceiveRetired, ReceiveAccepted, ReceiveEnded, vars, callVars
  <2> QED BY <2>1, <2>2, <2>3, <2>4, Steps
<1> QED BY <1>0, <1>1, <1>2, <1>3

(* A delivery being posted: it is a new one, with a number of its own.     *)
LEMMA Invalidating ==
    ASSUME TypeOK, Invalidate
    PROVE  /\ inv = NoInv /\ inv' # NoInv
           /\ inv'.id = calls + 1 /\ inv'.ws = cws + 1 /\ inv'.gen = generation
           /\ calls' = calls + 1 /\ generation' = generation /\ cws' = cws + 1
           /\ \E d \in deliveries' : d.id = inv'.id
           /\ \A x \in deliveries' : x \in deliveries \/ (x.id = inv'.id /\ x.gen = inv'.gen)
           /\ UNCHANGED <<commands, events, wws, buffer, job, disp, alive>>
<1>1. calls \in Nat
  BY SnapsAre
<1>2. /\ inv' = [id |-> calls + 1, ws |-> cws + 1, gen |-> generation]
      /\ deliveries' = deliveries \cup {[id |-> calls + 1, gen |-> generation, failed |-> FALSE]}
      /\ inv = NoInv /\ calls' = calls + 1 /\ generation' = generation /\ cws' = cws + 1
      /\ UNCHANGED <<commands, events, wws, buffer, job, disp, alive>>
  BY DEF Invalidate, Advance
<1>3. inv'.id = calls + 1 /\ inv'.ws = cws + 1 /\ inv'.gen = generation
  BY <1>2
<1>4. inv' # NoInv
  BY <1>1, <1>3 DEF NoInv
<1>5. \E d \in deliveries' : d.id = inv'.id
  <2>1. [id |-> calls + 1, gen |-> generation, failed |-> FALSE] \in deliveries'
    BY <1>2
  <2>2. [id |-> calls + 1, gen |-> generation, failed |-> FALSE].id = inv'.id
    BY <1>3
  <2> QED BY <2>1, <2>2
<1>6. \A x \in deliveries' : x \in deliveries \/ (x.id = inv'.id /\ x.gen = inv'.gen)
  <2>1. \A x \in deliveries' : \/ x \in deliveries
                               \/ x = [id |-> calls + 1, gen |-> generation, failed |-> FALSE]
    BY <1>2
  <2>2. /\ [id |-> calls + 1, gen |-> generation, failed |-> FALSE].id = inv'.id
        /\ [id |-> calls + 1, gen |-> generation, failed |-> FALSE].gen = inv'.gen
    BY <1>3
  <2> QED BY <2>1, <2>2
<1> QED BY <1>2, <1>3, <1>4, <1>5, <1>6

(* A delivery posted, or failed with its generation.                       *)
LEMMA Delivered1 ==
    ASSUME TypeOK, Deliver
    PROVE  /\ inv # NoInv /\ inv' = NoInv
           /\ \A x \in deliveries' : \E d \in deliveries : x.id = d.id /\ x.gen = d.gen
           /\ \A x \in deliveries' : x \in deliveries \/ x.id = inv.id
           /\ alive /\ accepted /\ inv.gen = generation => inv.id \in Acked'
           /\ Acked \subseteq Acked'
           /\ UNCHANGED <<wws, buffer, job, disp, alive, generation>>
<1>0. deliveries \subseteq Deliveries
  BY TypesSplit DEF CallTypes
<1> DEFINE mine == {d \in deliveries : d.id = inv.id}
           c    == [kind |-> "invalidate", id |-> inv.id, ws |-> inv.ws]
<1>1. /\ inv # NoInv /\ inv' = NoInv /\ events' = events
      /\ UNCHANGED <<wws, buffer, job, disp, alive, generation>>
  BY DEF Deliver, workerVars
<1>2. CASE inv.gen # generation \/ ~accepted
  <2>1. /\ commands' = commands
        /\ deliveries' = (deliveries \ mine) \cup {[d EXCEPT !.failed = TRUE] : d \in mine}
    BY <1>2 DEF Deliver
  <2>2. \A d \in deliveries : /\ [d EXCEPT !.failed = TRUE].id = d.id
                              /\ [d EXCEPT !.failed = TRUE].gen = d.gen
    BY <1>0 DEF Deliveries
  <2>3. \A x \in deliveries' : x \in deliveries \/ \E d \in mine : x = [d EXCEPT !.failed = TRUE]
    BY <2>1
  <2>4. \A d \in mine : d \in deliveries /\ d.id = inv.id
    OBVIOUS
  <2> HIDE DEF mine
  <2>5. \A x \in deliveries' : \E d \in deliveries : x.id = d.id /\ x.gen = d.gen
    BY <2>2, <2>3, <2>4
  <2>6. ASSUME NEW x \in deliveries', x \notin deliveries PROVE x.id = inv.id
    <3>1. PICK d \in mine : x = [d EXCEPT !.failed = TRUE]
      BY <2>3, <2>6
    <3>2. x.id = d.id /\ d.id = inv.id
      BY <2>2, <2>4, <3>1
    <3> QED BY <3>2
  <2>7. Acked' = Acked
    BY <1>1, <2>1, CarryingKept, ReturningKept DEF Acked
  <2> QED BY <1>1, <1>2, <2>5, <2>6, <2>7
<1>3. CASE inv.gen = generation /\ accepted
  <2>1. deliveries' \subseteq deliveries /\ Post(c)
    BY <1>3 DEF Deliver
  <2>2. c.kind = "invalidate" /\ c.id = inv.id
    OBVIOUS
  <2> HIDE DEF c
  <2>3. Carrying \subseteq Carrying' /\ (alive => inv.id \in Carrying')
    BY <2>1, <2>2, CarryingPosted
  <2>4. Acked \subseteq Acked' /\ (alive => inv.id \in Acked')
    BY <1>1, <2>3, ReturningKept DEF Acked
  <2> QED BY <1>1, <2>1, <2>4
<1> QED BY <1>2, <1>3

LEMMA RegisteredNext ==
    ASSUME AgreeInv, InOrder, Adopting, Registered, [Next]_vars
    PROVE  Registered'
<1>0. TypeOK
  BY DEF AgreeInv, ListInv
<1>1. /\ calls \in Nat /\ calls' \in Nat /\ calls' >= calls
      /\ generation \in Nat /\ generation' \in Nat /\ generation' >= generation
  BY <1>0, Counts
<1>2. /\ \A d \in deliveries : d.gen <= generation /\ d.id <= calls /\ d.gen \in Nat /\ d.id \in Nat
      /\ \A id \in Acked : id <= calls
      /\ inv # NoInv =>
            /\ inv.gen <= generation /\ inv.id <= calls /\ inv.id \notin Acked
            /\ \E d \in deliveries : d.id = inv.id
            /\ \A d \in deliveries : d.id = inv.id => d.gen = inv.gen
      /\ inv.id \in Nat /\ inv.gen \in Nat
  <2>1. inv.id \in Nat /\ inv.gen \in Nat
    BY <1>0, TypesSplit, Constants DEF CallTypes, Invalidations
  <2> QED BY <1>0, <2>1, FailedOnes DEF Registered
<1>3. \A id \in Acked' : id \in Acked \/ (Deliver /\ id = inv.id)
  BY AckedShrinks
<1>4. Acked \subseteq Nat
  <2>1. Carrying \subseteq Nat
    <3>1. \A i \in Slots : commands[i].kind = "invalidate" => commands[i].id \in Nat
      <4>1. \A i \in Slots : commands[i] \in Commands
        BY <1>0, InQueue
      <4> QED BY <4>1, Carried, Constants
    <3> QED BY <3>1 DEF Carrying
  <2>2. Returning \subseteq Nat
    <3>1. \A e \in Events : e.kind = "invalidated" => e.id \in Nat
      BY Constants DEF Events
    <3>2. \A i \in Told : events[i] \in Events
      BY <1>0, InQueue DEF Told
    <3> QED BY <3>1, <3>2 DEF Returning
  <2> QED BY <2>1, <2>2 DEF Acked
<1>5. CASE Invalidate
  <2>1. /\ inv'.id = calls + 1 /\ inv'.gen = generation /\ calls' = calls + 1 /\ generation' = generation
        /\ \E d \in deliveries' : d.id = inv'.id
        /\ \A x \in deliveries' : x \in deliveries \/ (x.id = inv'.id /\ x.gen = inv'.gen)
        /\ UNCHANGED <<commands, events>>
    BY <1>0, <1>5, Invalidating
  <2>2. Acked' = Acked
    BY <2>1, CarryingKept, ReturningKept DEF Acked
  <2>3. \A d \in deliveries' : d.gen <= generation' /\ d.id <= calls'
    BY <1>1, <1>2, <2>1
  <2>4. \A id \in Acked' : id <= calls'
    BY <1>1, <1>2, <1>4, <2>1, <2>2
  <2>5. inv'.id \notin Acked'
    BY <1>1, <1>2, <1>4, <2>1, <2>2
  <2>6. \A d \in deliveries' : d.id = inv'.id => d.gen = inv'.gen
    BY <1>1, <1>2, <2>1
  <2>7. inv'.gen <= generation' /\ inv'.id <= calls'
    BY <1>1, <2>1
  <2> QED BY <2>1, <2>3, <2>4, <2>5, <2>6, <2>7 DEF Registered
<1>6. CASE Deliver
  <2>1. /\ inv # NoInv /\ inv' = NoInv
        /\ \A x \in deliveries' : \E d \in deliveries : x.id = d.id /\ x.gen = d.gen
    BY <1>0, <1>6, Delivered1
  <2>2. \A d \in deliveries' : d.gen <= generation' /\ d.id <= calls'
    BY <1>1, <1>2, <2>1
  <2>3. \A id \in Acked' : id <= calls'
    <3>1. inv.id <= calls /\ inv.id \in Nat
      BY <1>2, <2>1
    <3>2. \A id \in Acked' : id <= calls /\ id \in Nat
      BY <1>2, <1>3, <1>4, <3>1
    <3> QED BY <1>1, <3>2
  <2> QED BY <2>1, <2>2, <2>3 DEF Registered
<1>7. CASE ~Invalidate /\ ~Deliver
  <2>1. /\ inv' = inv
        /\ \A x \in deliveries' : \E d \in deliveries : x.id = d.id /\ x.gen = d.gen
        /\ \A d \in deliveries : \/ \E x \in deliveries' : x.id = d.id /\ x.gen = d.gen
                                 \/ ReceiveAck /\ d.id = events[1].id
    BY <1>0, <1>7, DeliveriesMove
  <2>2. Acked' \subseteq Acked
    BY <1>3, <1>7
  <2>3. \A d \in deliveries' : d.gen <= generation' /\ d.id <= calls'
    BY <1>1, <1>2, <2>1
  <2>4. \A id \in Acked' : id <= calls'
    BY <1>1, <1>2, <1>4, <2>2
  <2>5. ASSUME inv' # NoInv
        PROVE  /\ inv'.gen <= generation' /\ inv'.id <= calls' /\ inv'.id \notin Acked'
               /\ \E d \in deliveries' : d.id = inv'.id
               /\ \A d \in deliveries' : d.id = inv'.id => d.gen = inv'.gen
    <3>1. inv'.gen <= generation' /\ inv'.id <= calls' /\ inv'.id \notin Acked'
      BY <1>1, <1>2, <2>1, <2>2, <2>5
    <3>2. PICK d \in deliveries : d.id = inv.id
      BY <1>2, <2>1, <2>5
    <3>3. ~(ReceiveAck /\ d.id = events[1].id)
      <4>1. ReceiveAck => events[1].id \in Acked
        BY <1>0, AckHeard DEF Acked
      <4> QED BY <1>2, <2>1, <2>5, <3>2, <4>1
    <3>4. \E x \in deliveries' : x.id = inv'.id
      BY <2>1, <3>2, <3>3
    <3>5. \A x \in deliveries' : x.id = inv'.id => x.gen = inv'.gen
      BY <1>2, <2>1, <2>5
    <3> QED BY <3>1, <3>4, <3>5
  <2> QED BY <2>3, <2>4, <2>5 DEF Registered
<1> QED BY <1>5, <1>6, <1>7

LEMMA AckedStays ==
    ASSUME AgreeInv, InOrder, Adopting, [Next]_vars, ~Crash, ~Restart, ~Deliver
    PROVE  \A id \in Acked : id \in Acked' \/ (ReceiveAck /\ id = events[1].id)
<1>0. TypeOK
  BY DEF AgreeInv, ListInv
<1>1. CASE Serves
  BY <1>1, AckedServed
<1>2. CASE ~Serves
  <2>1. Carrying \subseteq Carrying'
    BY <1>0, <1>2, OthersPost, CarryingKept, CarryingPosted
  <2>2. \A id \in Returning : id \in Returning' \/ (ReceiveAck /\ id = events[1].id)
    <3>1. CASE events' = events
      BY <3>1, ReturningKept
    <3>2. CASE ReceiveAck
      BY <1>0, <3>2, AckHeard
    <3>3. ASSUME NEW kinds, Receive(kinds), "invalidated" \notin kinds
          PROVE  Returning \subseteq Returning'
      <4>1. events[1].kind # "invalidated"
        BY <1>0, <3>3, HeardOne
      <4> QED BY <1>0, <3>3, <4>1, ReturningHeard
    <3> QED BY <1>2, <3>1, <3>2, <3>3, OthersHear
  <2> QED BY <2>1, <2>2 DEF Acked
<1> QED BY <1>1, <1>2

LEMMA StillAlive ==
    ASSUME [Next]_vars, ~Crash, ~Restart
    PROVE  alive' = alive
<1>1. CASE Serves
  BY <1>1, ServesFrame
<1>2. CASE Health \/ Invalidate \/ Deliver \/ Requests1 \/ Track \/ Send
  BY <1>2 DEF Health, Invalidate, Deliver, Requests1, ReadEpochs, Track, Send
<1>3. CASE Reserves \/ ReadyDirect \/ Retire \/ Check \/ Ready \/ PostPrepared \/ PostDirect
           \/ CommitDirect \/ DispatchFails \/ Stop
  BY <1>3 DEF Reserves, Reserve, ReadyDirect, Retire, Check, Ready, PostPrepared, PostDirect,
     CommitDirect, DispatchFails, Stop
<1>4. CASE ReceiveAnswer \/ ReceiveAck \/ ReceiveRetired \/ ReceiveAccepted \/ ReceiveEnded \/ UNCHANGED vars
  BY <1>4 DEF ReceiveAnswer, ReceiveAck, ReceiveRetired, ReceiveAccepted, ReceiveEnded, vars
<1> QED BY <1>1, <1>2, <1>3, <1>4, Steps

LEMMA DeliveredNext ==
    ASSUME AgreeInv, InOrder, Adopting, Registered, Delivered, [Next]_vars
    PROVE  Delivered'
<1>0. TypeOK /\ Grown
  BY DEF AgreeInv, ListInv
<1>1. /\ generation \in Nat /\ generation' = IF Restart THEN generation + 1 ELSE generation
      /\ \A d \in deliveries : d.gen \in Nat /\ d.gen <= generation
  BY <1>0, Counts, FailedOnes DEF Registered
<1> SUFFICES ASSUME alive', NEW x \in deliveries', x.gen = generation'
             PROVE  (inv' # NoInv /\ inv'.id = x.id) \/ x.id \in Acked'
  BY DEF Delivered
<1>2. ~Crash
  BY DEF Crash
<1>3. CASE Restart
  <2>0. generation' # generation
    BY <1>1, <1>3
  <2>a. ~Invalidate
    BY <2>0, <1>0, Invalidating
  <2>b. ~Deliver
    BY <2>0, <1>0, Delivered1
  <2>1. ~Invalidate /\ ~Deliver
    BY <2>a, <2>b
  <2>2. \E d \in deliveries : x.id = d.id /\ x.gen = d.gen
    BY <1>0, <2>1, DeliveriesMove
  <2>3. x.gen \in Nat /\ x.gen <= generation
    BY <1>1, <2>2
  <2> QED BY <1>1, <1>3, <2>3
<1>4. CASE ~Restart
  <2>1. alive /\ generation' = generation
    BY <1>1, <1>2, <1>4, StillAlive
  <2>2. \A d \in deliveries : \/ d.gen # generation
                              \/ inv # NoInv /\ inv.id = d.id
                              \/ d.id \in Acked
    BY <2>1 DEF Delivered
  <2>3. CASE Invalidate
    <3>1. /\ inv = NoInv /\ inv' # NoInv /\ UNCHANGED <<commands, events>>
          /\ x \in deliveries \/ x.id = inv'.id
      BY <1>0, <2>3, Invalidating
    <3>2. Acked' = Acked
      BY <3>1, CarryingKept, ReturningKept DEF Acked
    <3> QED BY <2>1, <2>2, <3>1, <3>2
  <2>4. CASE Deliver
    <3>1. /\ inv # NoInv /\ Acked \subseteq Acked'
          /\ \E d \in deliveries : x.id = d.id /\ x.gen = d.gen
          /\ alive /\ accepted /\ inv.gen = generation => inv.id \in Acked'
      BY <1>0, <2>4, Delivered1
    <3>2. PICK d \in deliveries : x.id = d.id /\ x.gen = d.gen
      BY <3>1
    <3>3. CASE d.id = inv.id
      <4>1. d.gen = inv.gen
        BY <3>1, <3>3 DEF Registered
      <4>2. accepted
        BY <1>0, <2>1 DEF Grown
      <4> QED BY <2>1, <3>1, <3>2, <3>3, <4>1, <4>2
    <3>4. CASE d.id # inv.id
      BY <2>1, <2>2, <3>1, <3>2, <3>4
    <3> QED BY <3>3, <3>4
  <2>5. CASE ~Invalidate /\ ~Deliver
    <3>1. inv' = inv /\ \E d \in deliveries : x.id = d.id /\ x.gen = d.gen
      BY <1>0, <2>5, DeliveriesMove
    <3>2. PICK d \in deliveries : x.id = d.id /\ x.gen = d.gen
      BY <3>1
    <3>3. CASE d.id \in Acked
      <4>1. d.id \in Acked' \/ (ReceiveAck /\ d.id = events[1].id)
        BY <1>2, <1>4, <2>5, <3>3, AckedStays
      <4>2. ReceiveAck => x.id # events[1].id
        BY <1>0, AckHeard
      <4> QED BY <3>2, <4>1, <4>2
    <3>4. CASE inv # NoInv /\ inv.id = d.id
      BY <3>1, <3>2, <3>4
    <3> QED BY <2>1, <2>2, <3>2, <3>3, <3>4
  <2> QED BY <2>3, <2>4, <2>5
<1> QED BY <1>3, <1>4

(* The epoch an invalidation decides is new to the worker and to all that  *)
(* is on its way to it.                                                    *)
LEMMA BeforeInvalidated ==
    ASSUME AgreeInv, Settled, Invalidate, alive
    PROVE  BeforeIt'
<1>0. TypeOK /\ Sent /\ Agree
  BY DEF AgreeInv, ListInv
<1>1. /\ inv'.ws = cws + 1 /\ UNCHANGED <<commands, wws, buffer, job, disp>>
      /\ cws \in Nat /\ wws \in Nat /\ ~Direct
  <2>1. ~Direct
    BY DEF Invalidate, Direct
  <2> QED BY <1>0, <2>1, Invalidating, Epochs
<1>2. \A i \in Slots : Below(commands[i], cws + 1)
  <2> SUFFICES ASSUME NEW i \in Slots PROVE Below(commands[i], cws + 1)
    OBVIOUS
  <2>1. commands[i] \in Present /\ commands[i] \in Commands
    BY <1>0, InQueue DEF Sent
  <2>2. commands[i].kind \in Kinds => commands[i].req.ws < cws + 1
    <3>1. commands[i].kind \in Kinds => commands[i].req \in Requests /\ Stamped(commands[i].req)
      BY <2>1, Carried DEF Present, ViewerCommands
    <3> QED BY <1>0, <1>1, <3>1, Epochs DEF Stamped
  <2>3. commands[i].kind = "invalidate" => commands[i].ws < cws + 1
    <3>1. commands[i].kind = "invalidate" => commands[i].ws <= cws /\ commands[i].ws \in Nat
      BY <2>1 DEF Present, Commands, ViewerCommands, Kinds
    <3> QED BY <1>1, <3>1
  <2>4. commands[i].kind \in {"start", "commit"} => commands[i].snap.ws < cws + 1
    <3>1. commands[i].kind \in {"start", "commit"} =>
             /\ commands[i].snap \in Snapshots
             /\ Reached(commands[i].snap) \/ Sound(commands[i].snap)
      BY <2>1, Carried DEF Present
    <3> QED BY <1>0, <1>1, <3>1, Epochs DEF Reached, Sound
  <2> QED BY <2>2, <2>3, <2>4 DEF Below
<1>3. cws + 1 \in Clear
  <2>1. wws < cws + 1
    BY <1>0, <1>1 DEF Agree, Ahead
  <2>2. ASSUME NEW i \in 1 .. Len(buffer) PROVE buffer[i].req.ws < cws + 1
    <3>1. buffer[i] \in ViewerCommands /\ buffer[i] \in Present
      BY <1>0, InQueue DEF Sent
    <3>2. buffer[i].req \in Requests /\ Stamped(buffer[i].req)
      BY <3>1 DEF ViewerCommands, Present, Commands
    <3> QED BY <1>0, <1>1, <3>2, Epochs DEF Stamped
  <2>3. job.phase = "preflight" => job.snap.ws < cws + 1
    <3>1. job.snap.ws \in Nat
      BY <1>0, SnapsAre, Epochs
    <3> QED BY <1>1, <3>1 DEF Settled
  <2> QED BY <1>1, <2>1, <2>2, <2>3 DEF Clear
<1>4. disp.phase = "ready" /\ ~disp.snap.all => disp.snap.ws < cws + 1
  <2>1. disp.snap.ws \in Nat
    BY <1>0, Epochs
  <2> QED BY <1>0, <1>1, <2>1 DEF Sent
<1>5. Clear' = Clear /\ Slots' = Slots
  BY <1>1 DEF Clear, Slots
<1>6. inv'.ws \in Clear'
  BY <1>1, <1>3, <1>5
<1>7. \A k \in Slots' : Below(commands'[k], inv'.ws)
  BY <1>1, <1>2, <1>5
<1>8. disp'.phase = "ready" /\ ~disp'.snap.all => disp'.snap.ws < inv'.ws
  BY <1>1, <1>4
<1> QED BY <1>6, <1>7, <1>8 DEF BeforeIt, Below

(* Nothing of its epoch or a later one is posted before the invalidation.  *)
LEMMA PostsBelow ==
    ASSUME AgreeInv, BeforeIt, [Next]_vars, alive, Delivering,
           ~Serves, ~Crash, ~Restart, ~Deliver
    PROVE  commands' = commands \/ \E c : Post(c) /\ Below(c, inv.ws)
<1>0. TypeOK /\ Locks /\ inv # NoInv
  BY DEF AgreeInv, ListInv, Delivering
<1>1. CASE Health \/ Invalidate \/ Requests1 \/ Track
  BY <1>1 DEF Health, Invalidate, Requests1, ReadEpochs, Track
<1>2. CASE Send
  BY <1>0, <1>2 DEF Send, Locks
<1>3. CASE Reserves \/ ReadyDirect \/ Check \/ Ready \/ CommitDirect \/ DispatchFails
  BY <1>3 DEF Reserves, Reserve, ReadyDirect, Check, Ready, CommitDirect, DispatchFails
<1>4. ASSUME NEW kind \in {"retire", "stop", "cancel"}, NEW run, Post([kind |-> kind, run |-> run])
      PROVE  \E c : Post(c) /\ Below(c, inv.ws)
  <2> DEFINE c == [kind |-> kind, run |-> run]
  <2>1. Below(c, inv.ws)
    BY DEF Below, Kinds
  <2> QED BY <1>4, <2>1
<1>5. CASE Retire
  <2>1. commands' = commands \/ Post([kind |-> "retire", run |-> disp.snap.run])
    BY <1>5 DEF Retire
  <2> QED BY <1>4, <2>1
<1>6. CASE Stop
  <2>1. Post([kind |-> "stop", run |-> disp.snap.run])
    BY <1>6 DEF Stop
  <2> QED BY <1>4, <2>1
<1>7. CASE PostPrepared
  <2> DEFINE c == [kind |-> "start", snap |-> disp.snap]
  <2>1. Post(c) /\ disp.snap.ws < inv.ws
    BY <1>7 DEF PostPrepared, BeforeIt
  <2>2. Below(c, inv.ws)
    BY <2>1 DEF Below, Kinds
  <2> QED BY <2>1, <2>2
<1>8. CASE PostDirect \/ ReceiveAccepted
  BY <1>0, <1>8 DEF PostDirect, ReceiveAccepted
<1>9. CASE ReceiveAnswer \/ ReceiveAck \/ ReceiveRetired \/ ReceiveEnded \/ UNCHANGED vars
  BY <1>9 DEF ReceiveAnswer, ReceiveAck, ReceiveRetired, ReceiveEnded, vars
<1> QED BY <1>1, <1>2, <1>3, <1>5, <1>6, <1>7, <1>8, <1>9, Steps

(* start_run looks at the deliveries last: no prepared run gets ready while*)
(* one is on its way.                                                      *)
LEMMA ReadyStays ==
    ASSUME TypeOK, Registered, [Next]_vars, inv # NoInv, disp'.phase = "ready", ~disp'.snap.all
    PROVE  disp' = disp
<1>1. deliveries # {}
  BY DEF Registered
<1>2. CASE Serves
  BY <1>2, ServesFrame DEF callVars
<1>3. CASE Crash \/ Invalidate \/ Deliver \/ Requests1 \/ Track \/ Send
  BY <1>3 DEF Crash, Invalidate, Deliver, Requests1, ReadEpochs, Track, Send, callVars
<1>10. CASE Health \/ Restart
  <2>1. disp' = disp \/ disp' = NoRun
    BY <1>10 DEF Health, Restart, FailRun
  <2> QED BY <2>1 DEF NoRun
<1>4. CASE Reserves \/ ReadyDirect
  BY <1>4, Reserving
<1>5. CASE Ready
  BY <1>1, <1>5 DEF Ready
<1>6. CASE Retire \/ Check \/ PostPrepared \/ DispatchFails \/ Stop \/ CommitDirect
  <2>0. CASE DispatchFails
    BY <2>0 DEF DispatchFails, NoRun
  <2>1. DispatchFails \/ disp.phase # "checked"
    BY <1>6 DEF Retire, Check, PostPrepared, Stop, CommitDirect
  <2> QED BY <1>6, <2>0, <2>1, Dispatching
<1>7. CASE PostDirect
  BY <1>7 DEF PostDirect
<1>8. CASE ReceiveAnswer \/ ReceiveAck \/ ReceiveRetired \/ ReceiveAccepted \/ ReceiveEnded
  BY <1>8, Hearing
<1>9. CASE UNCHANGED vars
  BY <1>9 DEF vars, callVars
<1> QED BY <1>2, <1>3, <1>4, <1>5, <1>6, <1>7, <1>8, <1>9, <1>10, Steps

LEMMA BeforeItServed ==
    ASSUME AgreeInv, BeforeIt, Serves
    PROVE  BeforeIt'
<1>0. /\ TypeOK /\ alive
      /\ UNCHANGED <<inv, generation, disp>>
  BY ServesFrame DEF AgreeInv, ListInv, callVars
<1> SUFFICES ASSUME Delivering
             PROVE  /\ inv.ws \in Clear'
                    /\ \A k \in Slots' : Below(commands'[k], inv.ws)
  <2>1. Delivering' = Delivering
    BY <1>0 DEF Delivering
  <2>2. Delivering /\ disp.phase = "ready" /\ ~disp.snap.all => disp.snap.ws < inv.ws
    BY <1>0 DEF BeforeIt
  <2> QED BY <1>0, <2>1, <2>2 DEF BeforeIt, Below
<1>1. inv.ws \in Clear /\ \A k \in Slots : Below(commands[k], inv.ws)
  BY <1>0 DEF BeforeIt
<1>2. CASE commands' = commands
  <2>1. Slots' = Slots
    BY <1>2 DEF Slots
  <2> QED BY <1>1, <1>2, <2>1, ClearServed
<1>3. ASSUME NEW kinds, Take(kinds)
      PROVE  /\ inv.ws \in Clear'
             /\ \A k \in Slots' : Below(commands'[k], inv.ws)
  <2>1. /\ 1 \in Slots
        /\ \A i \in Slots' : i + 1 \in Slots /\ commands'[i] = commands[i + 1]
    BY <1>0, <1>3, TookOne
  <2>2. Below(commands[1], inv.ws)
    BY <1>1, <2>1
  <2>3. inv.ws \in Clear'
    BY <1>1, <2>2, ClearServed
  <2> QED BY <1>1, <2>1, <2>3
<1> QED BY <1>2, <1>3, ServesQueue

LEMMA BeforeItNext ==
    ASSUME AgreeInv, Settled, Adopting, Registered, BeforeIt, [Next]_vars
    PROVE  BeforeIt'
<1>0. TypeOK
  BY DEF AgreeInv, ListInv
<1>1. CASE Serves
  BY <1>1, BeforeItServed
<1>2. CASE Crash
  BY <1>2 DEF Crash, BeforeIt
<1>3. CASE Deliver
  BY <1>3 DEF Deliver, BeforeIt, Delivering
<1>4. CASE Invalidate
  <2>1. CASE alive
    BY <1>4, <2>1, BeforeInvalidated
  <2>2. CASE ~alive
    BY <1>4, <2>2 DEF Invalidate, BeforeIt
  <2> QED BY <2>1, <2>2
<1>5. CASE Restart
  <2>1. inv' = inv /\ generation' = generation + 1 /\ generation \in Nat
    BY <1>0, <1>5, Counts DEF Restart
  <2>2. inv # NoInv => inv.gen <= generation /\ inv.gen \in Nat
    BY <1>0 DEF Registered, TypeOK
  <2>3. ~Delivering'
    BY <2>1, <2>2 DEF Delivering
  <2> QED BY <2>3 DEF BeforeIt
<1>6. CASE ~Serves /\ ~Crash /\ ~Restart /\ ~Deliver /\ ~Invalidate
  <2>1. /\ inv' = inv /\ generation' = generation /\ alive' = alive
        /\ UNCHANGED <<wws, buffer, job>>
    BY <1>0, <1>6, DeliveriesMove, Counts, StillAlive, WorkerRests
  <2>2. Clear' = Clear /\ Delivering' = Delivering
    BY <2>1 DEF Clear, Delivering
  <2> SUFFICES ASSUME alive, Delivering
               PROVE  /\ inv.ws \in Clear
                      /\ \A k \in Slots' : Below(commands'[k], inv.ws)
                      /\ disp'.phase = "ready" /\ ~disp'.snap.all => disp'.snap.ws < inv.ws
    BY <2>1, <2>2 DEF BeforeIt, Below
  <2>3. /\ inv.ws \in Clear
        /\ \A k \in Slots : Below(commands[k], inv.ws)
        /\ disp.phase = "ready" /\ ~disp.snap.all => disp.snap.ws < inv.ws
    BY DEF BeforeIt
  <2>4. disp'.phase = "ready" /\ ~disp'.snap.all => disp'.snap.ws < inv.ws
    <3>1. disp'.phase = "ready" /\ ~disp'.snap.all => disp' = disp
      BY <1>0, ReadyStays DEF Delivering
    <3> QED BY <2>3, <3>1
  <2>5. \A k \in Slots' : Below(commands'[k], inv.ws)
    <3>1. CASE commands' = commands
      BY <2>3, <3>1 DEF Slots
    <3>2. ASSUME NEW c, Post(c), Below(c, inv.ws)
          PROVE  \A k \in Slots' : Below(commands'[k], inv.ws)
      BY <1>0, <2>3, <3>2, PostedAny
    <3> QED BY <1>6, <3>1, <3>2, PostsBelow
  <2> QED BY <2>3, <2>4, <2>5
<1> QED BY <1>1, <1>2, <1>3, <1>4, <1>5, <1>6

LEMMA WaitInit == Init => WaitInv
<1> SUFFICES ASSUME Init PROVE WaitInv
  OBVIOUS
<1>1. AwaitInv
  BY AwaitInit
<1>2. /\ job.phase = "idle" /\ ~alive /\ deliveries = {} /\ inv = NoInv
      /\ Slots = {} /\ Told = {}
  BY DEF Init, NoJob, Slots, Told
<1>3. Acked = {}
  BY <1>2 DEF Acked, Carrying, Returning
<1>4. Settled /\ InOrder /\ BeforeIt /\ Adopting /\ Delivered
  BY <1>2 DEF Settled, InOrder, BeforeIt, Adopting, Delivered
<1>5. Registered
  BY <1>2, <1>3 DEF Registered
<1> QED BY <1>1, <1>4, <1>5 DEF WaitInv

LEMMA WaitNext == WaitInv /\ [Next]_vars => WaitInv'
<1> SUFFICES ASSUME WaitInv, [Next]_vars PROVE WaitInv'
  OBVIOUS
<1>0. /\ AgreeInv /\ AwaitInv /\ Settled /\ InOrder /\ BeforeIt
      /\ Registered /\ Adopting /\ Delivered
  BY DEF WaitInv, AwaitInv, ServeInv
<1>1. AwaitInv'
  BY <1>0, AwaitNext
<1>2. Settled'
  BY <1>0, SettledNext
<1>3. InOrder'
  BY <1>0, InOrderNext
<1>4. BeforeIt'
  BY <1>0, BeforeItNext
<1>5. Registered'
  BY <1>0, RegisteredNext
<1>6. Adopting'
  BY <1>0, AckedShrinks
<1>7. Delivered'
  BY <1>0, DeliveredNext
<1> QED BY <1>1, <1>2, <1>3, <1>4, <1>5, <1>6, <1>7 DEF WaitInv

(***************************************************************************)
(* Nothing is waited for in vain while the worker lives: a request of the  *)
(* present epochs is on its way or was discarded with a preflight, no      *)
(* current one is refused as stale, and an invalidation is on its way or   *)
(* acknowledged.                                                           *)
(***************************************************************************)
THEOREM NothingAwaitedInVain == Spec => []Accounted
<1>1. WaitInv => Accounted
  <2> SUFFICES ASSUME WaitInv, alive PROVE Accounted
    BY DEF Accounted
  <2>0. /\ TypeOK /\ Awaited /\ Refused /\ Delivered
        /\ cws \in Nat /\ cnode \in [Nodes -> Nat]
        /\ DOMAIN commands = Slots /\ DOMAIN events = Told /\ DOMAIN buffer = 1 .. Len(buffer)
    <3>1. TypeOK /\ Awaited /\ Refused /\ Delivered
      BY DEF WaitInv, AwaitInv, ServeInv, AgreeInv, ListInv
    <3>2. commands \in Seq(Commands) /\ events \in Seq(Events) /\ buffer \in Seq(ViewerCommands)
      BY <3>1 DEF TypeOK
    <3> QED BY <3>1, <3>2, Epochs DEF Slots, Told
  <2>1. \A r \in Outdated : r.ws # cws \/ r.ne # cnode[r.node]
    BY <2>0, Epochs DEF Outdated
  <2>2. ASSUME NEW w \in waiting
        PROVE  \/ w.ws # cws \/ w.ne # cnode[w.node]
               \/ w.id \in lost
               \/ sending # NoSend /\ sending.req = w
               \/ \E i \in DOMAIN commands : commands[i].kind \in Kinds /\ commands[i].req = w
               \/ \E i \in DOMAIN buffer : buffer[i].req = w
               \/ \E i \in DOMAIN events : events[i].kind = "answer" /\ events[i].req = w
    <3>1. w \in Outdated \/ w.id \in lost \/ w \in OnWay
      BY <2>0 DEF Awaited
    <3>2. CASE w \in Sending
      BY <3>2 DEF Sending
    <3>3. CASE w \in Commanded
      BY <2>0, <3>3 DEF Commanded, Asked
    <3>4. CASE w \in Kept
      BY <2>0, <3>4 DEF Kept
    <3>5. CASE w \in Answered
      BY <2>0, <3>5 DEF Answered, Answers
    <3> QED BY <2>1, <3>1, <3>2, <3>3, <3>4, <3>5 DEF OnWay
  <2>3. ASSUME NEW i \in DOMAIN events, events[i].kind = "answer", events[i].result = "stale"
        PROVE  ~CurrentAnswer(events[i])
    <3>1. events[i].req \in Refusals
      BY <2>0, <2>3 DEF Refusals, Answers
    <3>2. events[i].req \in Outdated
      BY <2>0, <3>1 DEF Refused
    <3> QED BY <2>1, <3>2 DEF CurrentAnswer
  <2>4. ASSUME NEW d \in deliveries
        PROVE  \/ d.gen # generation
               \/ inv.id = d.id
               \/ \E i \in DOMAIN commands : commands[i].kind = "invalidate" /\ commands[i].id = d.id
               \/ \E i \in DOMAIN events : events[i].kind = "invalidated" /\ events[i].id = d.id
    <3>1. d.gen # generation \/ inv.id = d.id \/ d.id \in Carrying \/ d.id \in Returning
      BY <2>0 DEF Delivered, Acked
    <3>2. CASE d.id \in Carrying
      BY <2>0, <3>2 DEF Carrying
    <3>3. CASE d.id \in Returning
      BY <2>0, <3>3 DEF Returning
    <3> QED BY <3>1, <3>2, <3>3
  <2> QED BY <2>2, <2>3, <2>4 DEF Accounted
<1> QED BY <1>1, WaitInit, WaitNext, PTL DEF Spec
=============================================================================
