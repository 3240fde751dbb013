------------------------- MODULE ViewerEpochsProofs -------------------------
(***************************************************************************)
(* For any viewer nodes, any number of commands, invalidations, runs and   *)
(* deaths of the worker: the variables keep their types, and a session the *)
(* client lists shows results that nothing has covered since.              *)
(***************************************************************************)
EXTENDS ViewerEpochs, SequenceTheorems, TLAPS

---------------------------------------------------------------------------
(* Types.                                                                  *)

Deliveries    == [id : 1 .. MaxCalls, gen : Nat, failed : BOOLEAN]
Invalidations == [id : 0 .. MaxCalls, ws : Nat, gen : Nat]
Sendings      == {NoSend} \cup [kind : Kinds, step : {"read", "tracked"}, req : Requests]
Dispatches    == [phase : Phases, snap : Snapshots, stopped : BOOLEAN]
Sessions      == [state : {"none", "open", "closed", "invalid"}, stamp : Nat]
Jobs          == [phase : {"idle", "preflight", "flush", "running"}, snap : Snapshots]

ClientTypes ==
    /\ cws \in Nat /\ cnode \in [Nodes -> Nat] /\ waiting \subseteq Requests
    /\ listed \in [Nodes -> Nat] /\ covers \in [Nodes -> Nat \ {0}]
CallTypes ==
    /\ deliveries \subseteq Deliveries /\ inv \in Invalidations /\ sending \in Sendings
    /\ disp \in Dispatches
    /\ generation \in Nat /\ accepted \in BOOLEAN /\ dispatched \in BOOLEAN
ServedTypes ==
    wws \in Nat /\ wnode \in [Nodes -> Nat] /\ sessions \in [Nodes -> Sessions]
WorkerTypes ==
    /\ ServedTypes
    /\ used \in BOOLEAN /\ job \in Jobs /\ buffer \in Seq(ViewerCommands)
    /\ lost \subseteq 1 .. MaxCalls /\ orphaned \subseteq Nodes /\ missed \subseteq Nat
QueueTypes ==
    alive \in BOOLEAN /\ commands \in Seq(Commands) /\ events \in Seq(Events)
CountTypes ==
    calls \in 0 .. MaxCalls /\ crashes \in 0 .. MaxCrashes

LEMMA TypesSplit ==
    TypeOK <=> ClientTypes /\ CallTypes /\ WorkerTypes /\ QueueTypes /\ CountTypes
BY DEF TypeOK, ClientTypes, CallTypes, ServedTypes, WorkerTypes, QueueTypes, CountTypes,
       Deliveries, Invalidations, Sendings, Dispatches, Sessions, Jobs

LEMMA TypesSplitNext ==
    TypeOK' <=> ClientTypes' /\ CallTypes' /\ WorkerTypes' /\ QueueTypes' /\ CountTypes'
BY DEF TypeOK, ClientTypes, CallTypes, ServedTypes, WorkerTypes, QueueTypes, CountTypes,
       Deliveries, Invalidations, Sendings, Dispatches, Sessions, Jobs

(* What is left alone keeps its type.                                      *)
LEMMA TypesKept ==
    /\ ClientTypes /\ UNCHANGED clientVars => ClientTypes'
    /\ CallTypes /\ UNCHANGED callVars => CallTypes'
    /\ ServedTypes /\ UNCHANGED <<wws, wnode, sessions>> => ServedTypes'
    /\ WorkerTypes /\ UNCHANGED workerVars => WorkerTypes'
    /\ CountTypes /\ UNCHANGED countVars => CountTypes'
    /\ QueueTypes /\ UNCHANGED <<alive, commands, events>> => QueueTypes'
BY DEF ClientTypes, CallTypes, ServedTypes, WorkerTypes, QueueTypes, CountTypes,
       clientVars, callVars, workerVars, countVars

LEMMA Constants ==
    /\ MaxCalls \in Nat /\ MaxCrashes \in Nat
    /\ Zero \in [Nodes -> Nat]
    /\ NoSnap \in Snapshots /\ NoInv \in Invalidations /\ NoRun \in Dispatches
    /\ NoJob \in Jobs /\ NoSession \in Sessions /\ NoSend \in Sendings
<1>1. MaxCalls \in Nat /\ MaxCrashes \in Nat
  BY EpochsAssumption
<1>2. Zero \in [Nodes -> Nat]
  BY DEF Zero
<1>3. NoSnap \in Snapshots
  BY <1>1, <1>2 DEF NoSnap, Snapshots
<1>4. NoInv \in Invalidations
  BY <1>1 DEF NoInv, Invalidations
<1> QED BY <1>1, <1>2, <1>3, <1>4 DEF NoRun, NoJob, NoSession, NoSend, Phases,
           Dispatches, Jobs, Sessions, Sendings

(* What becomes of a queue that is written or read.                        *)
LEMMA AppendTo ==
    ASSUME NEW S, NEW s \in Seq(S), NEW e \in S
    PROVE  Append(s, e) \in Seq(S)
OBVIOUS

LEMMA TailOf ==
    ASSUME NEW S, NEW s \in Seq(S), s # <<>>
    PROVE  Tail(s) \in Seq(S) /\ Head(s) \in S
BY HeadTailProperties, EmptySeq

(* What a command of a kind carries.                                       *)
LEMMA Carried ==
    ASSUME NEW c \in Commands
    PROVE  /\ c.kind \in Kinds => c \in ViewerCommands
           /\ c.kind = "invalidate" => c.id \in 1 .. MaxCalls /\ c.ws \in Nat
           /\ c.kind \in {"retire", "cancel", "stop"} => c.run \in 1 .. MaxCalls
           /\ c.kind \in {"start", "commit"} => c.snap \in Snapshots
BY DEF Commands, ViewerCommands, Kinds

LEMMA Taken ==
    ASSUME QueueTypes, NEW kinds, Take(kinds)
    PROVE  /\ commands' \in Seq(Commands)
           /\ Head(commands) \in Commands /\ Head(commands).kind \in kinds
BY TailOf DEF QueueTypes, Take

LEMMA Posted ==
    ASSUME QueueTypes, NEW c \in Commands, Post(c)
    PROVE  commands' \in Seq(Commands)
BY AppendTo DEF QueueTypes, Post

LEMMA Emitted ==
    ASSUME QueueTypes, NEW e \in Events, Emit(e)
    PROVE  events' \in Seq(Events)
BY AppendTo DEF QueueTypes, Emit

LEMMA Heard ==
    ASSUME QueueTypes, NEW kinds, Receive(kinds)
    PROVE  /\ events' \in Seq(Events)
           /\ Head(events) \in Events /\ Head(events).kind \in kinds
BY TailOf DEF QueueTypes, Receive

LEMMA Advanced ==
    ASSUME ClientTypes, NEW all \in BOOLEAN, NEW nodes \in SUBSET Nodes, NEW ws \in Nat,
           NEW ne \in [Nodes -> Nat], Advance(all, nodes, ws, ne)
    PROVE  ClientTypes'
<1>1. \A n \in Nodes : covers[n] \in Nat \ {0} /\ listed[n] \in Nat /\ cnode[n] \in Nat
  BY DEF ClientTypes
<1>2. cws' \in Nat /\ cnode' \in [Nodes -> Nat]
  BY <1>1, Constants DEF Advance
<1>3. waiting' \subseteq Requests
  BY DEF Advance, ClientTypes
<1>4. listed' \in [Nodes -> Nat] /\ covers' \in [Nodes -> Nat \ {0}]
  BY <1>1 DEF Advance
<1> QED BY <1>2, <1>3, <1>4 DEF ClientTypes

LEMMA Adopted ==
    ASSUME ServedTypes, NEW s \in Snapshots, Adopt(s)
    PROVE  ServedTypes'
<1>1. wws' \in Nat /\ wnode' \in [Nodes -> Nat]
  BY Constants DEF Adopt, AdoptEpochs, Snapshots, ServedTypes
<1>2. sessions' \in [Nodes -> Sessions]
  BY DEF Adopt, Invalidated, ServedTypes, Sessions
<1> QED BY <1>1, <1>2 DEF ServedTypes

LEMMA Executed ==
    ASSUME ServedTypes, QueueTypes, NEW c \in ViewerCommands, Execute(c)
    PROVE  ServedTypes' /\ events' \in Seq(Events)
<1> DEFINE r    == c.req
           kept == IF r.ws > wws THEN Invalidated(Nodes)
                   ELSE IF r.ne > wnode[r.node] THEN Invalidated({r.node})
                   ELSE sessions
<1>1. /\ r \in Requests /\ c.kind \in Kinds /\ r.node \in Nodes
      /\ r.ws \in Nat /\ r.ne \in Nat /\ r.stamp \in Nat
  BY DEF ViewerCommands, Requests
<1>2. \A result \in {"shown", "closed", "failed", "stale"} :
         [kind |-> "answer", req |-> r, result |-> result] \in Events
  BY <1>1 DEF Events
<1>3. CASE Answer(c, "stale") /\ UNCHANGED <<wws, wnode, sessions>>
  BY <1>2, <1>3, Emitted, TypesKept DEF Answer
<1>4. CASE /\ wws' = r.ws
           /\ wnode' = [n \in Nodes |-> IF n = r.node THEN r.ne
                                        ELSE IF r.ws > wws THEN 0 ELSE wnode[n]]
           /\ \E done \in BOOLEAN :
                /\ sessions' = [kept EXCEPT ![r.node] = Operated(c.kind, r, done, @)]
                /\ Answer(c, IF ~done THEN "failed"
                             ELSE IF c.kind = "close" THEN "closed" ELSE "shown")
  <2>1. PICK done \in BOOLEAN :
          /\ sessions' = [kept EXCEPT ![r.node] = Operated(c.kind, r, done, @)]
          /\ Answer(c, IF ~done THEN "failed"
                       ELSE IF c.kind = "close" THEN "closed" ELSE "shown")
    BY <1>4
  <2>2. kept \in [Nodes -> Sessions]
    BY DEF Invalidated, ServedTypes, Sessions
  <2>3. Operated(c.kind, r, done, kept[r.node]) \in Sessions
    <3>1. kept[r.node] \in Sessions
      BY <1>1, <2>2
    <3> HIDE DEF kept
    <3> QED BY <1>1, <3>1 DEF Operated, Kinds, Sessions
  <2>4. sessions' \in [Nodes -> Sessions]
    <3> HIDE DEF kept
    <3> QED BY <2>1, <2>2, <2>3
  <2>5. events' \in Seq(Events)
    BY <1>2, <2>1, Emitted DEF Answer
  <2>6. wws' \in Nat /\ wnode' \in [Nodes -> Nat]
    BY <1>1, <1>4 DEF ServedTypes
  <2> QED BY <2>4, <2>5, <2>6 DEF ServedTypes
<1> QED BY <1>3, <1>4 DEF Execute

(* Invalidations and dispatches have numbers while they are under way.     *)
Numbered == /\ inv # NoInv => inv.id # 0
            /\ disp.phase # "none" => disp.snap.run # 0

LEMMA TypesInit == Init => TypeOK /\ Numbered
<1> SUFFICES ASSUME Init PROVE TypeOK /\ Numbered
  OBVIOUS
<1>1. ClientTypes
  BY Constants DEF Init, ClientTypes
<1>2. CallTypes
  BY Constants DEF Init, CallTypes
<1>3. WorkerTypes
  <2>1. ServedTypes
    BY Constants DEF Init, ServedTypes
  <2>2. buffer \in Seq(ViewerCommands)
    BY DEF Init
  <2> QED BY <2>1, <2>2, Constants DEF Init, WorkerTypes
<1>4. QueueTypes /\ CountTypes
  <2>1. commands \in Seq(Commands) /\ events \in Seq(Events)
    BY DEF Init
  <2>2. calls = 0 /\ crashes = 0 /\ alive = FALSE
    BY DEF Init
  <2>3. CountTypes
    BY <2>2, Constants DEF CountTypes
  <2> QED BY <2>1, <2>2, <2>3 DEF QueueTypes
<1>5. Numbered
  BY DEF Init, NoRun, Numbered
<1> QED BY <1>1, <1>2, <1>3, <1>4, <1>5, TypesSplit

LEMMA Counted ==
    ASSUME CountTypes, calls < MaxCalls, calls' = calls + 1
    PROVE  calls' \in 0 .. MaxCalls /\ calls + 1 \in 1 .. MaxCalls
BY Constants DEF CountTypes

LEMMA FailedTypes ==
    ASSUME CallTypes
    PROVE  Failed \subseteq Deliveries
BY DEF CallTypes, Failed, Deliveries

LEMMA TypesProcess ==
    ASSUME TypeOK, Numbered, Crash \/ Health \/ Restart
    PROVE  TypeOK' /\ Numbered'
<1>0. ClientTypes /\ CallTypes /\ WorkerTypes /\ ServedTypes /\ QueueTypes /\ CountTypes
  BY TypesSplit DEF WorkerTypes
<1>1. CASE Crash
  <2>1. CountTypes'
    BY <1>0, <1>1, Constants DEF Crash, CountTypes
  <2>2. commands' \in Seq(Commands)
    BY <1>1 DEF Crash
  <2>3. QueueTypes'
    BY <1>0, <1>1, <2>2 DEF Crash, QueueTypes
  <2>4. Numbered'
    BY <1>1 DEF Crash, Numbered, callVars
  <2> QED BY <1>0, <1>1, <2>1, <2>3, <2>4, TypesKept, TypesSplitNext DEF Crash
<1>2. CASE Health
  <2>1. CallTypes'
    BY <1>0, <1>2, FailedTypes, Constants DEF Health, FailRun, CallTypes
  <2>2. Numbered'
    BY <1>2 DEF Health, FailRun, NoRun, Numbered
  <2>3. QueueTypes'
    BY <1>0, <1>2 DEF Health, QueueTypes
  <2> QED BY <1>0, <1>2, <2>1, <2>2, <2>3, TypesKept, TypesSplitNext DEF Health
<1>3. CASE Restart
  <2>1. ClientTypes'
    <3>1. CASE DropGeneration
      <4>1. \A n \in Nodes : covers[n] \in Nat \ {0}
        BY <1>0 DEF ClientTypes
      <4> QED BY <1>0, <3>1, <4>1, Constants DEF DropGeneration, ClientTypes
    <3> QED BY <1>0, <1>3, <3>1, TypesKept DEF Restart
  <2>2. CallTypes'
    <3>1. deliveries' \subseteq Deliveries /\ disp' \in Dispatches
      BY <1>0, <1>3, FailedTypes, Constants DEF Restart, FailRun, CallTypes
    <3>2. generation' = generation + 1 /\ accepted' = TRUE /\ dispatched' = FALSE
          /\ inv' = inv /\ sending' = sending
      BY <1>3 DEF Restart, NextGeneration
    <3>3. generation' \in Nat
      BY <1>0, <3>2 DEF CallTypes
    <3>4. inv' \in Invalidations /\ sending' \in Sendings
      BY <1>0, <3>2 DEF CallTypes
    <3> QED BY <3>1, <3>2, <3>3, <3>4 DEF CallTypes
  <2>3. WorkerTypes'
    <3>1. buffer' \in Seq(ViewerCommands) /\ sessions' \in [Nodes -> Sessions]
      BY <1>3, Constants DEF Restart
    <3> QED BY <1>3, <3>1, Constants DEF Restart, WorkerTypes, ServedTypes
  <2>4. QueueTypes' /\ CountTypes'
    <3>1. commands' \in Seq(Commands) /\ events' \in Seq(Events)
      BY <1>3 DEF Restart
    <3> QED BY <1>0, <1>3, <3>1 DEF Restart, QueueTypes, CountTypes, countVars
  <2>5. Numbered'
    BY <1>3 DEF Restart, FailRun, NoRun, Numbered
  <2> QED BY <2>1, <2>2, <2>3, <2>4, <2>5, TypesSplitNext
<1> QED BY <1>1, <1>2, <1>3

LEMMA TypesInvalidate ==
    ASSUME TypeOK, Numbered, Invalidate \/ Deliver
    PROVE  TypeOK' /\ Numbered'
<1>0. ClientTypes /\ CallTypes /\ WorkerTypes /\ ServedTypes /\ QueueTypes /\ CountTypes
  BY TypesSplit DEF WorkerTypes
<1>1. CASE Invalidate
  <2>1. Advance(TRUE, {}, cws + 1, Zero)
    BY <1>1 DEF Invalidate
  <2>2. ClientTypes' /\ cws + 1 \in Nat
    <3>1. cws + 1 \in Nat
      BY <1>0 DEF ClientTypes
    <3> QED BY <1>0, <2>1, <3>1, Advanced, Constants
  <2>3. CountTypes' /\ calls + 1 \in 1 .. MaxCalls
    BY <1>0, <1>1, Counted DEF Invalidate, CountTypes
  <2>4. inv' \in Invalidations /\ deliveries' \subseteq Deliveries
    <3>1. inv' = [id |-> calls + 1, ws |-> cws + 1, gen |-> generation]
      BY <1>1 DEF Invalidate
    <3>2. [id |-> calls + 1, gen |-> generation, failed |-> FALSE] \in Deliveries
      BY <1>0, <2>3 DEF CallTypes, Deliveries
    <3>3. deliveries' = deliveries \cup {[id |-> calls + 1, gen |-> generation, failed |-> FALSE]}
      BY <1>1 DEF Invalidate
    <3>4. inv' \in Invalidations
      BY <1>0, <2>2, <2>3, <3>1 DEF CallTypes, Invalidations
    <3> QED BY <1>0, <3>2, <3>3, <3>4 DEF CallTypes
  <2>5. CallTypes' /\ WorkerTypes' /\ QueueTypes'
    BY <1>0, <1>1, <2>4 DEF Invalidate, CallTypes, WorkerTypes, ServedTypes, QueueTypes
  <2>6. Numbered'
    BY <1>1, <2>3 DEF Invalidate, Numbered
  <2> QED BY <2>2, <2>3, <2>5, <2>6, TypesSplitNext
<1>2. CASE Deliver
  <2>1. inv.id \in 1 .. MaxCalls /\ inv.ws \in Nat
    BY <1>0, <1>2 DEF Deliver, CallTypes, Invalidations, Numbered
  <2>2. [kind |-> "invalidate", id |-> inv.id, ws |-> inv.ws] \in Commands
    BY <2>1 DEF Commands
  <2>3. QueueTypes'
    BY <1>0, <1>2, <2>2, Posted DEF Deliver, QueueTypes
  <2>4. deliveries' \subseteq Deliveries
    <3>1. \A d \in deliveries : d \in Deliveries /\ [d EXCEPT !.failed = TRUE] \in Deliveries
      BY <1>0 DEF CallTypes, Deliveries
    <3>2. \/ deliveries' = (deliveries \ {d \in deliveries : d.id = inv.id}) \cup
               {[d EXCEPT !.failed = TRUE] : d \in {d \in deliveries : d.id = inv.id}}
          \/ deliveries' \subseteq deliveries
      BY <1>2 DEF Deliver
    <3>3. \A d \in deliveries' : d \in deliveries \/ \E e \in deliveries : d = [e EXCEPT !.failed = TRUE]
      BY <3>2
    <3> QED BY <3>1, <3>3
  <2>5. CallTypes' /\ Numbered'
    BY <1>0, <1>2, <2>4, Constants DEF Deliver, CallTypes, Numbered
  <2> QED BY <1>0, <1>2, <2>3, <2>5, TypesKept, TypesSplitNext DEF Deliver
<1> QED BY <1>1, <1>2

LEMMA TypesSending ==
    ASSUME TypeOK, Numbered,
           Track \/ Send \/ \E kind \in Kinds, n \in Nodes : ReadEpochs(kind, n)
    PROVE  TypeOK' /\ Numbered'
<1>0. ClientTypes /\ CallTypes /\ WorkerTypes /\ ServedTypes /\ QueueTypes /\ CountTypes
  BY TypesSplit DEF WorkerTypes
<1>1. ASSUME NEW kind \in Kinds, NEW n \in Nodes, ReadEpochs(kind, n)
      PROVE  TypeOK' /\ Numbered'
  <2>1. calls' \in 0 .. MaxCalls /\ calls + 1 \in 1 .. MaxCalls
    BY <1>0, <1>1, Counted DEF ReadEpochs
  <2>2. [id |-> calls + 1, node |-> n, ws |-> cws, ne |-> cnode[n], stamp |-> covers[n]]
          \in Requests
    <3>1. cws \in Nat /\ cnode[n] \in Nat /\ covers[n] \in Nat \ {0}
      BY <1>0 DEF ClientTypes
    <3> QED BY <2>1, <3>1 DEF Requests
  <2>3. sending' \in Sendings
    BY <1>1, <2>2 DEF ReadEpochs, Sendings
  <2>4. CallTypes' /\ CountTypes' /\ QueueTypes' /\ Numbered'
    BY <1>0, <1>1, <2>1, <2>3 DEF ReadEpochs, CallTypes, CountTypes, QueueTypes, Numbered
  <2> QED BY <1>0, <1>1, <2>4, TypesKept, TypesSplitNext DEF ReadEpochs
<1>2. ASSUME sending # NoSend
      PROVE  sending.kind \in Kinds /\ sending.req \in Requests
  BY <1>0, <1>2 DEF CallTypes, Sendings
<1>3. CASE Track
  <2>1. sending' \in Sendings
    BY <1>0, <1>3 DEF Track, CallTypes, Sendings
  <2>2. waiting' \subseteq Requests
    BY <1>0, <1>2, <1>3 DEF Track, ClientTypes
  <2>3. ClientTypes' /\ CallTypes' /\ QueueTypes' /\ Numbered'
    BY <1>0, <1>3, <2>1, <2>2 DEF Track, ClientTypes, CallTypes, QueueTypes, Numbered
  <2> QED BY <1>0, <1>3, <2>3, TypesKept, TypesSplitNext DEF Track
<1>4. CASE Send
  <2>1. [kind |-> sending.kind, req |-> sending.req] \in Commands
    BY <1>2, <1>4 DEF Send, Commands, ViewerCommands
  <2>2. QueueTypes'
    BY <1>0, <1>4, <2>1, Posted DEF Send, QueueTypes
  <2>3. CallTypes' /\ Numbered'
    BY <1>0, <1>4, Constants DEF Send, CallTypes, Numbered
  <2> QED BY <1>0, <1>4, <2>2, <2>3, TypesKept, TypesSplitNext DEF Send
<1> QED BY <1>1, <1>3, <1>4

(* A dispatch in its phases.                                               *)
LEMMA DispFields ==
    /\ CallTypes => /\ disp.phase \in Phases /\ disp.snap \in Snapshots
                    /\ disp.snap.run \in 0 .. MaxCalls /\ disp.stopped \in BOOLEAN
                    /\ disp = [phase |-> disp.phase, snap |-> disp.snap,
                               stopped |-> disp.stopped]
    /\ \A phase \in Phases, snap \in Snapshots, stopped \in BOOLEAN :
          [phase |-> phase, snap |-> snap, stopped |-> stopped] \in Dispatches
BY DEF CallTypes, Dispatches, Snapshots

LEMMA TypesReserve ==
    ASSUME TypeOK, Numbered, ReadyDirect \/ \E nodes \in SUBSET Nodes : Reserve(nodes)
    PROVE  TypeOK' /\ Numbered'
<1>0. ClientTypes /\ CallTypes /\ WorkerTypes /\ ServedTypes /\ QueueTypes /\ CountTypes
  BY TypesSplit DEF WorkerTypes
<1>1. ASSUME NEW all \in BOOLEAN, NEW nodes \in SUBSET Nodes, calls < MaxCalls
      PROVE  Snapshot(all, nodes) \in Snapshots /\ Snapshot(all, nodes).run # 0
  <2>1. calls + 1 \in 1 .. MaxCalls
    BY <1>0, <1>1, Constants DEF CountTypes
  <2>2. [n \in Nodes |-> IF n \in nodes THEN cnode[n] + 1 ELSE 0] \in [Nodes -> Nat]
    BY <1>0 DEF ClientTypes
  <2>3. generation \in Nat /\ cws \in Nat
    BY <1>0 DEF CallTypes, ClientTypes
  <2> QED BY <2>1, <2>2, <2>3 DEF Snapshot, Snapshots
<1>2. ASSUME NEW nodes \in SUBSET Nodes, Reserve(nodes) PROVE TypeOK' /\ Numbered'
  <2>1. disp' = [phase |-> "reserved", snap |-> Snapshot(FALSE, nodes), stopped |-> FALSE]
    BY <1>2 DEF Reserve, NoRun
  <2>2. disp' \in Dispatches /\ disp'.snap.run # 0
    <3>1. Snapshot(FALSE, nodes) \in Snapshots /\ Snapshot(FALSE, nodes).run # 0
      BY <1>1, <1>2 DEF Reserve
    <3> QED BY <2>1, <3>1, DispFields DEF Phases
  <2>3. calls' \in 0 .. MaxCalls
    BY <1>0, <1>2, Counted DEF Reserve
  <2>4. CallTypes' /\ CountTypes' /\ QueueTypes' /\ Numbered'
    BY <1>0, <1>2, <2>2, <2>3 DEF Reserve, CallTypes, CountTypes, QueueTypes, Numbered
  <2> QED BY <1>0, <1>2, <2>4, TypesKept, TypesSplitNext DEF Reserve
<1>3. CASE ReadyDirect
  <2>1. disp' = [phase |-> "ready", snap |-> Snapshot(TRUE, {}), stopped |-> FALSE]
    BY <1>3 DEF ReadyDirect, NoRun
  <2>2. disp' \in Dispatches /\ disp'.snap.run # 0
    <3>1. Snapshot(TRUE, {}) \in Snapshots /\ Snapshot(TRUE, {}).run # 0
      BY <1>1, <1>3 DEF ReadyDirect
    <3> QED BY <2>1, <3>1, DispFields DEF Phases
  <2>3. calls' \in 0 .. MaxCalls /\ dispatched' \in BOOLEAN
    BY <1>0, <1>3, Counted DEF ReadyDirect
  <2>4. CallTypes' /\ CountTypes' /\ QueueTypes' /\ Numbered'
    BY <1>0, <1>3, <2>2, <2>3
    DEF ReadyDirect, CallTypes, CountTypes, QueueTypes, Numbered
  <2> QED BY <1>0, <1>3, <2>4, TypesKept, TypesSplitNext DEF ReadyDirect
<1> QED BY <1>2, <1>3

LEMMA TypesDispatch ==
    ASSUME TypeOK, Numbered, Dispatcher \/ Stop
    PROVE  TypeOK' /\ Numbered'
<1>0. ClientTypes /\ CallTypes /\ WorkerTypes /\ ServedTypes /\ QueueTypes /\ CountTypes
  BY TypesSplit DEF WorkerTypes
<1>1. /\ disp.phase \in Phases /\ disp.snap \in Snapshots /\ disp.stopped \in BOOLEAN
      /\ disp.phase # "none" => disp.snap.run \in 1 .. MaxCalls
  BY <1>0, DispFields DEF Numbered
<1>2. CASE Retire
  <2>1. disp.snap.run \in 1 .. MaxCalls
    BY <1>1, <1>2 DEF Retire
  <2>2. [kind |-> "retire", run |-> disp.snap.run] \in Commands
    BY <2>1 DEF Commands
  <2>3. commands' \in Seq(Commands)
    BY <1>0, <1>2, <2>2, Posted DEF Retire, QueueTypes
  <2>4. disp' \in Dispatches /\ disp'.snap = disp.snap
    BY <1>0, <1>2 DEF Retire, CallTypes, Dispatches, Phases
  <2>5. CallTypes' /\ QueueTypes' /\ Numbered'
    BY <1>0, <1>2, <2>1, <2>3, <2>4 DEF Retire, CallTypes, QueueTypes, Numbered
  <2> QED BY <1>0, <1>2, <2>5, TypesKept, TypesSplitNext DEF Retire
<1>3. CASE Check
  <2>1. disp' \in Dispatches /\ disp'.snap = disp.snap
    BY <1>0, <1>3 DEF Check, CallTypes, Dispatches, Phases
  <2>2. CallTypes' /\ QueueTypes' /\ Numbered'
    BY <1>0, <1>3, <2>1 DEF Check, CallTypes, QueueTypes, Numbered
  <2> QED BY <1>0, <1>3, <2>2, TypesKept, TypesSplitNext DEF Check
<1>4. CASE Ready
  <2>1. disp' \in Dispatches /\ disp'.snap = disp.snap /\ dispatched' \in BOOLEAN
    BY <1>0, <1>4 DEF Ready, CallTypes, Dispatches, Phases
  <2>2. CallTypes' /\ QueueTypes' /\ Numbered'
    BY <1>0, <1>4, <2>1 DEF Ready, CallTypes, QueueTypes, Numbered
  <2> QED BY <1>0, <1>4, <2>2, TypesKept, TypesSplitNext DEF Ready
<1>5. CASE PostPrepared
  <2>1. disp' \in Dispatches /\ disp'.snap = disp.snap
    BY <1>0, <1>5 DEF PostPrepared, CallTypes, Dispatches, Phases
  <2>2. [kind |-> "start", snap |-> disp.snap] \in Commands
    BY <1>1 DEF Commands
  <2>3. commands' \in Seq(Commands)
    BY <1>0, <1>5, <2>2, Posted DEF PostPrepared
  <2>4. CallTypes' /\ QueueTypes' /\ Numbered'
    BY <1>0, <1>5, <2>1, <2>3 DEF PostPrepared, CallTypes, QueueTypes, Numbered
  <2> QED BY <1>0, <1>5, <2>4, TypesKept, TypesSplitNext DEF PostPrepared
<1>6. CASE PostDirect
  <2> DEFINE snap == [disp.snap EXCEPT !.ws = cws + 1]
  <2>1. snap \in Snapshots /\ snap.run = disp.snap.run
    BY <1>0, <1>1 DEF Snapshots, ClientTypes
  <2>2. disp' = [disp EXCEPT !.phase = "direct", !.snap = snap]
    BY <1>6 DEF PostDirect
  <2>3. disp' \in Dispatches /\ disp'.snap = snap
    <3> HIDE DEF snap
    <3> QED BY <1>0, <2>1, <2>2 DEF CallTypes, Dispatches, Phases
  <2>4. [kind |-> "start", snap |-> snap] \in Commands
    <3> HIDE DEF snap
    <3> QED BY <2>1 DEF Commands
  <2>5. commands' \in Seq(Commands)
    BY <1>0, <1>6, <2>4, Posted DEF PostDirect
  <2>6. CallTypes' /\ QueueTypes' /\ Numbered'
    <3>1. disp'.snap.run # 0
      <4>1. disp.snap.run # 0
        BY <1>1, <1>6 DEF PostDirect
      <4> HIDE DEF snap
      <4> QED BY <2>1, <2>3, <4>1
    <3>2. Numbered'
      BY <1>6, <3>1 DEF PostDirect, Numbered
    <3>3. CallTypes'
      BY <1>0, <1>6, <2>3 DEF PostDirect, CallTypes
    <3> QED BY <1>0, <1>6, <2>5, <3>2, <3>3 DEF PostDirect, QueueTypes
  <2> QED BY <1>0, <1>6, <2>6, TypesKept, TypesSplitNext DEF PostDirect
<1>7. CASE CommitDirect
  <2>1. Advance(TRUE, {}, disp.snap.ws, Zero) /\ disp.snap.ws \in Nat
    BY <1>1, <1>7 DEF CommitDirect, Snapshots
  <2>2. ClientTypes'
    BY <1>0, <2>1, Advanced, Constants
  <2>3. disp' \in Dispatches /\ (disp' = NoRun \/ disp'.snap = disp.snap)
    BY <1>0, <1>7, Constants DEF CommitDirect, CallTypes, Dispatches, Phases
  <2>4. Numbered'
    BY <1>1, <1>7, <2>3 DEF CommitDirect, Numbered, NoRun
  <2>5. CallTypes' /\ QueueTypes' /\ CountTypes'
    BY <1>0, <1>7, <2>3 DEF CommitDirect, CallTypes, QueueTypes, CountTypes, countVars
  <2>6. WorkerTypes'
    BY <1>0, <1>7 DEF CommitDirect, WorkerTypes, ServedTypes
  <2> QED BY <2>2, <2>4, <2>5, <2>6, TypesSplitNext
<1>8. CASE DispatchFails
  <2>1. CallTypes' /\ QueueTypes' /\ Numbered'
    BY <1>0, <1>8, Constants DEF DispatchFails, CallTypes, QueueTypes, Numbered, NoRun
  <2> QED BY <1>0, <1>8, <2>1, TypesKept, TypesSplitNext DEF DispatchFails
<1>9. CASE Stop
  <2>1. disp.snap.run \in 1 .. MaxCalls
    BY <1>1, <1>9 DEF Stop
  <2>2. [kind |-> "stop", run |-> disp.snap.run] \in Commands
    BY <2>1 DEF Commands
  <2>3. commands' \in Seq(Commands)
    BY <1>0, <1>9, <2>2, Posted DEF Stop
  <2>4. disp' \in Dispatches /\ disp'.snap = disp.snap
    BY <1>0, <1>9 DEF Stop, CallTypes, Dispatches
  <2>5. CallTypes' /\ QueueTypes' /\ Numbered'
    BY <1>0, <1>9, <2>1, <2>3, <2>4 DEF Stop, CallTypes, QueueTypes, Numbered
  <2> QED BY <1>0, <1>9, <2>5, TypesKept, TypesSplitNext DEF Stop
<1> QED BY <1>2, <1>3, <1>4, <1>5, <1>6, <1>7, <1>8, <1>9 DEF Dispatcher

(* A step of the worker leaves the client alone.                           *)
LEMMA AtWorker ==
    ASSUME TypeOK, Numbered, UNCHANGED <<clientVars, callVars, countVars>>
    PROVE  ClientTypes' /\ CallTypes' /\ CountTypes' /\ Numbered'
<1>1. ClientTypes /\ CallTypes /\ CountTypes
  BY TypesSplit
<1>2. Numbered'
  BY DEF Numbered, callVars
<1> QED BY <1>1, <1>2, TypesKept

LEMMA EndedTypes ==
    ASSUME QueueTypes, NEW run \in 0 .. MaxCalls, Ended(run)
    PROVE  events' \in Seq(Events)
<1>1. [kind |-> "ended", run |-> run] \in Events
  BY DEF Events
<1> QED BY <1>1, Emitted DEF Ended

LEMMA GivenUp ==
    ASSUME WorkerTypes, QueueTypes, GiveUp
    PROVE  /\ ServedTypes' /\ used' \in BOOLEAN /\ job' \in Jobs
           /\ buffer' \in Seq(ViewerCommands) /\ lost' \subseteq 1 .. MaxCalls
           /\ events' \in Seq(Events)
<1>1. job.snap.run \in 0 .. MaxCalls
  BY DEF WorkerTypes, Jobs, Snapshots
<1>2. events' \in Seq(Events)
  BY <1>1, EndedTypes DEF GiveUp
<1>3. \A i \in DOMAIN buffer : buffer[i].req.id \in 1 .. MaxCalls
  <2>1. \A c \in ViewerCommands : c.req.id \in 1 .. MaxCalls
    BY DEF ViewerCommands, Requests
  <2>2. \A i \in DOMAIN buffer : buffer[i] \in ViewerCommands
    BY DEF WorkerTypes
  <2> QED BY <2>1, <2>2
<1>4. lost' \subseteq 1 .. MaxCalls
  BY <1>3 DEF GiveUp, WorkerTypes
<1>5. job' \in Jobs /\ used' \in BOOLEAN /\ ServedTypes'
  BY Constants, TypesKept DEF GiveUp, WorkerTypes
<1>6. buffer' = <<>>
  BY DEF GiveUp
<1>7. buffer' \in Seq(ViewerCommands)
  BY <1>6
<1> QED BY <1>2, <1>4, <1>5, <1>7

LEMMA TypesViewer ==
    ASSUME TypeOK, Numbered, ServeViewer \/ BufferViewer \/ FlushViewer
    PROVE  TypeOK' /\ Numbered'
<1>0. ClientTypes /\ CallTypes /\ WorkerTypes /\ ServedTypes /\ QueueTypes /\ CountTypes
  BY TypesSplit DEF WorkerTypes
<1>1. CASE ServeViewer
  <2>1. Head(commands) \in ViewerCommands /\ commands' \in Seq(Commands)
    BY <1>0, <1>1, Taken, Carried DEF ServeViewer
  <2>2. ServedTypes' /\ events' \in Seq(Events)
    BY <1>0, <1>1, <2>1, Executed DEF ServeViewer
  <2>3. WorkerTypes' /\ QueueTypes'
    BY <1>0, <1>1, <2>1, <2>2 DEF ServeViewer, WorkerTypes, QueueTypes
  <2> QED BY <1>1, <2>3, AtWorker, TypesSplitNext DEF ServeViewer
<1>2. CASE BufferViewer
  <2>1. Head(commands) \in ViewerCommands /\ commands' \in Seq(Commands)
    BY <1>0, <1>2, Taken, Carried DEF BufferViewer
  <2>2. buffer' \in Seq(ViewerCommands)
    BY <1>0, <1>2, <2>1, AppendTo DEF BufferViewer, Buffered, WorkerTypes
  <2>3. ServedTypes'
    BY <1>0, <1>2, TypesKept DEF BufferViewer
  <2>4. WorkerTypes' /\ QueueTypes'
    BY <1>0, <1>2, <2>1, <2>2, <2>3 DEF BufferViewer, WorkerTypes, QueueTypes
  <2> QED BY <1>2, <2>4, AtWorker, TypesSplitNext DEF BufferViewer
<1>3. CASE FlushViewer
  <2>1. CASE buffer = <<>>
    <3>1. job' \in Jobs
      BY <1>0, <1>3, <2>1 DEF FlushViewer, WorkerTypes, Jobs
    <3>2. ServedTypes'
      BY <1>0, <1>3, <2>1, TypesKept DEF FlushViewer
    <3>3. WorkerTypes' /\ QueueTypes'
      BY <1>0, <1>3, <2>1, <3>1, <3>2 DEF FlushViewer, WorkerTypes, QueueTypes
    <3> QED BY <1>3, <3>3, AtWorker, TypesSplitNext DEF FlushViewer
  <2>2. CASE buffer # <<>>
    <3>1. Head(buffer) \in ViewerCommands /\ Tail(buffer) \in Seq(ViewerCommands)
      BY <1>0, <2>2, TailOf DEF WorkerTypes
    <3>2. ServedTypes' /\ events' \in Seq(Events)
      BY <1>0, <1>3, <2>2, <3>1, Executed DEF FlushViewer
    <3>3. WorkerTypes' /\ QueueTypes'
      BY <1>0, <1>3, <2>2, <3>1, <3>2 DEF FlushViewer, WorkerTypes, QueueTypes
    <3> QED BY <1>3, <3>3, AtWorker, TypesSplitNext DEF FlushViewer
  <2> QED BY <2>1, <2>2
<1> QED BY <1>1, <1>2, <1>3

LEMMA TypesServe ==
    ASSUME TypeOK, Numbered, ServeInvalidate \/ ServeRetire \/ ServeLate
    PROVE  TypeOK' /\ Numbered'
<1>0. ClientTypes /\ CallTypes /\ WorkerTypes /\ ServedTypes /\ QueueTypes /\ CountTypes
  BY TypesSplit DEF WorkerTypes
<1>1. CASE ServeInvalidate
  <2> DEFINE c == Head(commands)
             s == [NoSnap EXCEPT !.all = TRUE, !.ws = c.ws]
  <2>1. /\ c \in Commands /\ c.kind = "invalidate" /\ commands' \in Seq(Commands)
        /\ c.id \in 1 .. MaxCalls /\ c.ws \in Nat
    BY <1>0, <1>1, Taken, Carried DEF ServeInvalidate
  <2>2. s \in Snapshots
    BY <2>1, Constants DEF Snapshots
  <2>3. /\ [kind |-> "invalidated", id |-> c.id] \in Events
        /\ [kind |-> "refused", id |-> c.id] \in Events
    BY <2>1 DEF Events
  <2>4. \/ Adopt(s) /\ Emit([kind |-> "invalidated", id |-> c.id])
        \/ Emit([kind |-> "refused", id |-> c.id]) /\ UNCHANGED <<wws, wnode, sessions>>
    BY <1>1 DEF ServeInvalidate
  <2>5. ServedTypes' /\ events' \in Seq(Events)
    <3> HIDE DEF c, s
    <3> QED BY <1>0, <2>2, <2>3, <2>4, Adopted, Emitted, TypesKept
  <2>6. WorkerTypes' /\ QueueTypes'
    BY <1>0, <1>1, <2>1, <2>5 DEF ServeInvalidate, WorkerTypes, QueueTypes
  <2> QED BY <1>1, <2>6, AtWorker, TypesSplitNext DEF ServeInvalidate
<1>2. CASE ServeRetire
  <2>1. /\ commands' \in Seq(Commands) /\ Head(commands).run \in 1 .. MaxCalls
    BY <1>0, <1>2, Taken, Carried DEF ServeRetire
  <2>2. [kind |-> "retired", run |-> Head(commands).run] \in Events
    BY <2>1, Constants DEF Events
  <2>3. events' \in Seq(Events)
    BY <1>0, <1>2, <2>2, Emitted DEF ServeRetire
  <2>4. QueueTypes' /\ WorkerTypes'
    BY <1>0, <1>2, <2>1, <2>3, TypesKept DEF ServeRetire, QueueTypes
  <2> QED BY <1>2, <2>4, AtWorker, TypesSplitNext DEF ServeRetire
<1>3. CASE ServeLate
  <2>1. /\ commands' \in Seq(Commands) /\ Head(commands) \in Commands
        /\ Head(commands).kind = "commit" => Head(commands).snap \in Snapshots
    BY <1>0, <1>3, Taken, Carried DEF ServeLate
  <2>2. orphaned' \subseteq Nodes
    BY <1>0, <1>3, <2>1 DEF ServeLate, WorkerTypes, Snapshots
  <2>3. ServedTypes'
    BY <1>0, <1>3, TypesKept DEF ServeLate
  <2>4. WorkerTypes' /\ QueueTypes'
    BY <1>0, <1>3, <2>1, <2>2, <2>3 DEF ServeLate, WorkerTypes, QueueTypes
  <2> QED BY <1>3, <2>4, AtWorker, TypesSplitNext DEF ServeLate
<1> QED BY <1>1, <1>2, <1>3

LEMMA TypesRun ==
    ASSUME TypeOK, Numbered,
           \/ ServeStart \/ ServeCommit \/ ServeCancel \/ PreflightTimeout \/ EndRun \/ OtherRun
    PROVE  TypeOK' /\ Numbered'
<1>0. ClientTypes /\ CallTypes /\ WorkerTypes /\ ServedTypes /\ QueueTypes /\ CountTypes
  BY TypesSplit DEF WorkerTypes
<1>1. CASE ServeStart
  <2> DEFINE s == Head(commands).snap
  <2>1. commands' \in Seq(Commands) /\ s \in Snapshots /\ s.run \in 0 .. MaxCalls
        /\ s.ws \in Nat
    BY <1>0, <1>1, Taken, Carried DEF ServeStart, StartFails, StartRuns, StartOffers, Snapshots
  <2>2. /\ \/ Ended(s.run) /\ UNCHANGED <<wws, wnode, sessions, used, job>>
           \/ /\ Adopt(s) /\ used' = TRUE /\ UNCHANGED events
              /\ job' = [phase |-> "running", snap |-> s]
           \/ /\ job' = [phase |-> "preflight", snap |-> s]
              /\ Emit([kind |-> "accepted", run |-> s.run])
              /\ UNCHANGED <<wws, wnode, sessions, used>>
        /\ missed' \subseteq missed \cup {s.ws}
        /\ UNCHANGED <<clientVars, callVars, countVars, buffer, lost, orphaned, alive>>
    BY <1>1 DEF ServeStart, StartFails, StartRuns, StartOffers, Offer, Offered
  <2> HIDE DEF s
  <2>3. [kind |-> "accepted", run |-> s.run] \in Events
    BY <2>1 DEF Events
  <2>4. ServedTypes'
    BY <1>0, <2>1, <2>2, Adopted, TypesKept
  <2>5. events' \in Seq(Events)
    BY <1>0, <2>1, <2>2, <2>3, EndedTypes, Emitted DEF QueueTypes
  <2>6. job' \in Jobs /\ used' \in BOOLEAN
    <3>1. \A phase \in {"running", "preflight"} : [phase |-> phase, snap |-> s] \in Jobs
      BY <2>1 DEF Jobs
    <3>2. job' \in Jobs
      BY <1>0, <2>2, <3>1 DEF WorkerTypes
    <3>3. used' \in BOOLEAN
      BY <1>0, <2>2 DEF WorkerTypes
    <3> QED BY <3>2, <3>3
  <2>7. missed' \subseteq Nat
    BY <1>0, <2>1, <2>2 DEF WorkerTypes
  <2>8. WorkerTypes' /\ QueueTypes'
    BY <1>0, <2>1, <2>2, <2>4, <2>5, <2>6, <2>7 DEF WorkerTypes, QueueTypes
  <2> QED BY <2>2, <2>8, AtWorker, TypesSplitNext
<1>2. CASE ServeCommit
  <2>1. commands' \in Seq(Commands) /\ job.snap \in Snapshots /\ job.snap.nodes \subseteq Nodes
    BY <1>0, <1>2, Taken DEF ServeCommit, WorkerTypes, Jobs, Snapshots
  <2>2. CASE Valid(job.snap, buffer # <<>>)
    <3>1. ServedTypes' /\ job' \in Jobs
      BY <1>0, <1>2, <2>1, <2>2, Adopted DEF ServeCommit, WorkerTypes, Jobs
    <3>2. WorkerTypes' /\ QueueTypes'
      BY <1>0, <1>2, <2>1, <2>2, <3>1 DEF ServeCommit, WorkerTypes, QueueTypes
    <3> QED BY <1>2, <3>2, AtWorker, TypesSplitNext DEF ServeCommit
  <2>3. CASE ~Valid(job.snap, buffer # <<>>)
    <3>1. GiveUp /\ orphaned' = orphaned \cup job.snap.nodes
      BY <1>2, <2>3 DEF ServeCommit
    <3>2. orphaned' \subseteq Nodes
      BY <1>0, <2>1, <3>1 DEF WorkerTypes
    <3>3. WorkerTypes' /\ QueueTypes'
      BY <1>0, <1>2, <2>1, <3>1, <3>2, GivenUp DEF ServeCommit, WorkerTypes, QueueTypes
    <3> QED BY <1>2, <3>3, AtWorker, TypesSplitNext DEF ServeCommit
  <2> QED BY <2>2, <2>3
<1>3. CASE ServeCancel
  <2>1. commands' \in Seq(Commands)
    BY <1>0, <1>3, Taken DEF ServeCancel
  <2>2. WorkerTypes' /\ QueueTypes'
    BY <1>0, <1>3, <2>1, GivenUp DEF ServeCancel, WorkerTypes, QueueTypes
  <2> QED BY <1>3, <2>2, AtWorker, TypesSplitNext DEF ServeCancel
<1>4. CASE PreflightTimeout
  <2>1. WorkerTypes' /\ QueueTypes'
    BY <1>0, <1>4, GivenUp DEF PreflightTimeout, WorkerTypes, QueueTypes
  <2> QED BY <1>4, <2>1, AtWorker, TypesSplitNext DEF PreflightTimeout
<1>5. CASE EndRun
  <2>1. job.snap.run \in 0 .. MaxCalls
    BY <1>0 DEF WorkerTypes, Jobs, Snapshots
  <2>2. events' \in Seq(Events)
    BY <1>0, <1>5, <2>1, EndedTypes DEF EndRun
  <2>3. ServedTypes' /\ job' \in Jobs
    BY <1>0, <1>5, Constants, TypesKept DEF EndRun
  <2>4. WorkerTypes' /\ QueueTypes'
    BY <1>0, <1>5, <2>2, <2>3 DEF EndRun, WorkerTypes, QueueTypes
  <2> QED BY <1>5, <2>4, AtWorker, TypesSplitNext DEF EndRun
<1>6. CASE OtherRun
  <2>1. ServedTypes'
    BY <1>0, <1>6, TypesKept DEF OtherRun
  <2>2. WorkerTypes' /\ QueueTypes'
    BY <1>0, <1>6, <2>1 DEF OtherRun, WorkerTypes, QueueTypes
  <2> QED BY <1>6, <2>2, AtWorker, TypesSplitNext DEF OtherRun
<1> QED BY <1>1, <1>2, <1>3, <1>4, <1>5, <1>6

LEMMA TypesListener ==
    ASSUME TypeOK, Numbered, Listener
    PROVE  TypeOK' /\ Numbered'
<1>0. ClientTypes /\ CallTypes /\ WorkerTypes /\ ServedTypes /\ QueueTypes /\ CountTypes
  BY TypesSplit DEF WorkerTypes
<1>1. CASE ReceiveAnswer
  <2> DEFINE e == Head(events)
  <2>1. events' \in Seq(Events) /\ e \in Events /\ e.kind = "answer"
    BY <1>0, <1>1, Heard DEF ReceiveAnswer
  <2>2. e.req.stamp \in Nat /\ e.req.node \in Nodes
    BY <2>1 DEF Events, Requests
  <2>3. waiting' \subseteq Requests
    BY <1>0, <1>1 DEF ReceiveAnswer, ClientTypes
  <2>4. listed' \in [Nodes -> Nat]
    <3>1. \/ listed' = listed
          \/ listed' = [listed EXCEPT ![e.req.node] = e.req.stamp]
          \/ listed' = [listed EXCEPT ![e.req.node] = 0]
      BY <1>0, <1>1 DEF ReceiveAnswer, ClientTypes
    <3> HIDE DEF e
    <3> QED BY <1>0, <2>2, <3>1 DEF ClientTypes
  <2>5. ClientTypes' /\ QueueTypes' /\ Numbered'
    BY <1>0, <1>1, <2>1, <2>3, <2>4
    DEF ReceiveAnswer, ClientTypes, QueueTypes, Numbered, callVars
  <2> QED BY <1>0, <1>1, <2>5, TypesKept, TypesSplitNext DEF ReceiveAnswer
<1>2. CASE ReceiveAck
  <2>1. events' \in Seq(Events)
    BY <1>0, <1>2, Heard DEF ReceiveAck
  <2>2. \A d \in deliveries' :
          d \in deliveries \/ \E x \in deliveries : d = [x EXCEPT !.failed = TRUE]
    BY <1>2 DEF ReceiveAck
  <2>3. deliveries' \subseteq Deliveries
    <3>1. \A d \in deliveries : d \in Deliveries /\ [d EXCEPT !.failed = TRUE] \in Deliveries
      BY <1>0 DEF CallTypes, Deliveries
    <3> QED BY <2>2, <3>1
  <2>4. CallTypes' /\ QueueTypes' /\ Numbered'
    BY <1>0, <1>2, <2>1, <2>3 DEF ReceiveAck, CallTypes, QueueTypes, Numbered
  <2> QED BY <1>0, <1>2, <2>4, TypesKept, TypesSplitNext DEF ReceiveAck
<1>3. CASE ReceiveRetired
  <2>1. events' \in Seq(Events)
    BY <1>0, <1>3, Heard DEF ReceiveRetired
  <2>2. /\ disp' \in Dispatches /\ disp'.snap = disp.snap
        /\ disp'.phase # "none" => disp.phase # "none"
    BY <1>0, <1>3 DEF ReceiveRetired, CallTypes, Dispatches, Phases
  <2>3. CallTypes' /\ QueueTypes' /\ Numbered'
    BY <1>0, <1>3, <2>1, <2>2 DEF ReceiveRetired, CallTypes, QueueTypes, Numbered
  <2> QED BY <1>0, <1>3, <2>3, TypesKept, TypesSplitNext DEF ReceiveRetired
<1>4. CASE ReceiveAccepted
  <2> DEFINE s == disp.snap
  <2>1. events' \in Seq(Events)
    BY <1>0, <1>4, Heard DEF ReceiveAccepted
  <2>2. /\ s \in Snapshots /\ s.nodes \in SUBSET Nodes /\ s.ws \in Nat
        /\ s.ne \in [Nodes -> Nat] /\ s.run \in 0 .. MaxCalls
    BY <1>0, DispFields DEF Snapshots
  <2>3. \/ UNCHANGED <<clientVars, commands>>
        \/ Advance(FALSE, s.nodes, s.ws, s.ne) /\ Post([kind |-> "commit", snap |-> s])
        \/ /\ disp.phase = "posted"
           /\ Post([kind |-> "cancel", run |-> s.run]) /\ UNCHANGED clientVars
    BY <1>4 DEF ReceiveAccepted
  <2>4. disp.phase = "posted" => s.run \in 1 .. MaxCalls
    BY <2>2 DEF Numbered
  <2> HIDE DEF s
  <2>5. /\ [kind |-> "commit", snap |-> s] \in Commands
        /\ disp.phase = "posted" => [kind |-> "cancel", run |-> s.run] \in Commands
    BY <2>2, <2>4 DEF Commands
  <2>6. ClientTypes'
    BY <1>0, <2>2, <2>3, Advanced, TypesKept
  <2>7. commands' \in Seq(Commands)
    BY <1>0, <2>3, <2>5, Posted DEF QueueTypes
  <2>8. QueueTypes' /\ Numbered'
    BY <1>0, <1>4, <2>1, <2>7 DEF ReceiveAccepted, QueueTypes, Numbered, callVars
  <2> QED BY <1>0, <1>4, <2>6, <2>8, TypesKept, TypesSplitNext DEF ReceiveAccepted
<1>5. CASE ReceiveEnded
  <2>1. events' \in Seq(Events)
    BY <1>0, <1>5, Heard DEF ReceiveEnded
  <2>2. /\ disp' \in Dispatches
        /\ disp' = NoRun \/ (disp'.snap = disp.snap /\ (disp'.phase # "none" => disp.phase # "none"))
    <3>1. disp' \in {disp, NoRun} \/ (disp.phase = "direct" /\ disp' = [disp EXCEPT !.phase = "ended"])
      BY <1>5 DEF ReceiveEnded
    <3> QED BY <1>0, <3>1, Constants DEF CallTypes, Dispatches, Phases
  <2>3. CallTypes' /\ QueueTypes' /\ Numbered'
    BY <1>0, <1>5, <2>1, <2>2 DEF ReceiveEnded, CallTypes, QueueTypes, Numbered, NoRun
  <2> QED BY <1>0, <1>5, <2>3, TypesKept, TypesSplitNext DEF ReceiveEnded
<1> QED BY <1>1, <1>2, <1>3, <1>4, <1>5 DEF Listener

LEMMA TypesNext == TypeOK /\ Numbered /\ [Next]_vars => TypeOK' /\ Numbered'
<1> SUFFICES ASSUME TypeOK, Numbered, [Next]_vars PROVE TypeOK' /\ Numbered'
  OBVIOUS
<1>1. CASE Crash \/ Health \/ Restart
  BY <1>1, TypesProcess
<1>2. CASE Invalidate \/ Deliver
  BY <1>2, TypesInvalidate
<1>3. CASE Track \/ Send \/ \E kind \in Kinds, n \in Nodes : ReadEpochs(kind, n)
  BY <1>3, TypesSending
<1>4. CASE ReadyDirect \/ \E nodes \in SUBSET Nodes : Reserve(nodes)
  BY <1>4, TypesReserve
<1>5. CASE Dispatcher \/ Stop
  BY <1>5, TypesDispatch
<1>6. CASE Worker \/ PreflightTimeout \/ EndRun \/ OtherRun
  BY <1>6, TypesViewer, TypesServe, TypesRun DEF Worker
<1>7. CASE Listener
  BY <1>7, TypesListener
<1>8. CASE UNCHANGED vars
  <2>1. ClientTypes /\ CallTypes /\ WorkerTypes /\ QueueTypes /\ CountTypes
    BY TypesSplit
  <2>2. UNCHANGED <<clientVars, callVars, workerVars, countVars, alive, commands, events>>
    BY <1>8 DEF vars
  <2>3. Numbered'
    BY <2>2 DEF Numbered, callVars
  <2> QED BY <2>1, <2>2, <2>3, TypesKept, TypesSplitNext
<1> QED BY <1>1, <1>2, <1>3, <1>4, <1>5, <1>6, <1>7, <1>8 DEF Next

(* The epochs, requests, messages and records of both sides hold what the  *)
(* code can put there, and every message carries what its reader takes.    *)
THEOREM Types == Spec => []TypeOK
<1>1. Init => TypeOK /\ Numbered
  BY TypesInit
<1>2. TypeOK /\ Numbered /\ [Next]_vars => (TypeOK /\ Numbered)'
  BY TypesNext
<1> QED BY <1>1, <1>2, PTL DEF Spec

---------------------------------------------------------------------------
(* What the client lists.                                                  *)

(* A request that was read before the epochs moved will be told from one   *)
(* of the present epochs, and one of the present epochs has the stamp of   *)
(* the invalidations decided so far.                                       *)
Stamped(r) ==
    \/ r.ws < cws
    \/ /\ r.ws = cws
       /\ \/ r.ne < cnode[r.node]
          \/ r.ne = cnode[r.node] /\ r.stamp = covers[r.node]

(* Those that are waited for, and the one that is about to be.             *)
Requested == /\ \A r \in waiting : Stamped(r)
             /\ sending # NoSend => Stamped(sending.req)

(* A direct start commits, later than it was posted, the epoch that        *)
(* follows the one the client is in.                                       *)
Following == disp.phase \in {"direct", "ended"} => disp.snap.ws = cws + 1

ListInv == TypeOK /\ Numbered /\ Requested /\ Following /\ ListedIsCurrent

(* Whatever invalidates moves the workspace epoch on, or in the same       *)
(* workspace epoch those of the nodes it is about.                         *)
Onward(all, nodes, ws, ne) ==
    \/ all /\ ws > cws
    \/ ~all /\ ws = cws /\ \A n \in nodes : ne[n] = cnode[n] + 1

LEMMA AdvanceStamped ==
    ASSUME ClientTypes, NEW all \in BOOLEAN, NEW nodes \in SUBSET Nodes, NEW ws \in Nat,
           NEW ne \in [Nodes -> Nat], Advance(all, nodes, ws, ne), Onward(all, nodes, ws, ne)
    PROVE  /\ \A r \in Requests : Stamped(r) => Stamped(r)'
           /\ waiting' \subseteq waiting
           /\ ListedIsCurrent => ListedIsCurrent'
<1>1. ASSUME NEW r \in Requests, Stamped(r) PROVE Stamped(r)'
  <2>1. /\ r.ws \in Nat /\ r.ne \in Nat /\ r.node \in Nodes /\ cws \in Nat
        /\ cnode[r.node] \in Nat /\ covers[r.node] \in Nat
    BY DEF Requests, ClientTypes
  <2>2. CASE all /\ ws > cws
    BY <1>1, <2>1, <2>2 DEF Advance, Stamped
  <2>3. CASE ~all /\ ws = cws /\ \A n \in nodes : ne[n] = cnode[n] + 1
    <3>1. /\ cws' = cws
          /\ r.node \in nodes => cnode'[r.node] = cnode[r.node] + 1
          /\ r.node \notin nodes =>
               cnode'[r.node] = cnode[r.node] /\ covers'[r.node] = covers[r.node]
      BY <2>1, <2>3 DEF Advance
    <3> QED BY <1>1, <2>1, <3>1 DEF Stamped
  <2> QED BY <2>2, <2>3 DEF Onward
<1>2. waiting' \subseteq waiting
  BY DEF Advance
<1>3. ASSUME ListedIsCurrent, NEW n \in Nodes, listed'[n] # 0 PROVE listed'[n] = covers'[n]
  <2>1. covers[n] \in Nat
    BY DEF ClientTypes
  <2> QED BY <1>3, <2>1 DEF Advance, ListedIsCurrent
<1> QED BY <1>1, <1>2, <1>3 DEF ListedIsCurrent

(* A step that leaves the epochs alone keeps what was said of them.        *)
LEMMA EpochsKept ==
    ASSUME ListInv, UNCHANGED <<cws, cnode, covers>>,
           listed' = listed \/ ListedIsCurrent',
           \A r \in waiting' : r \in waiting \/ (sending # NoSend /\ r = sending.req),
           \/ sending' = sending \/ sending' = NoSend
           \/ sending # NoSend /\ sending'.req = sending.req,
           \/ disp' = disp \/ disp'.phase \notin {"direct", "ended"}
           \/ disp.phase = "direct" /\ disp'.snap = disp.snap
    PROVE  Requested' /\ Following' /\ ListedIsCurrent'
<1>1. \A r : Stamped(r) => Stamped(r)'
  BY DEF Stamped
<1>2. Requested'
  BY <1>1 DEF ListInv, Requested
<1>3. Following'
  BY DEF ListInv, Following
<1>4. ListedIsCurrent'
  BY DEF ListInv, ListedIsCurrent
<1> QED BY <1>2, <1>3, <1>4

LEMMA ListInit == Init => ListInv
<1> SUFFICES ASSUME Init PROVE ListInv
  OBVIOUS
<1>1. TypeOK /\ Numbered
  BY TypesInit
<1>2. Requested /\ Following /\ ListedIsCurrent
  BY DEF Init, NoRun, Zero, Requested, Following, ListedIsCurrent
<1> QED BY <1>1, <1>2 DEF ListInv

LEMMA ListProcess ==
    ASSUME ListInv, Crash \/ Health \/ Restart
    PROVE  Requested' /\ Following' /\ ListedIsCurrent'
<1>1. CASE Crash
  <2>1. UNCHANGED <<cws, cnode, covers, listed, waiting, sending, disp>>
    BY <1>1 DEF Crash, clientVars, callVars
  <2> QED BY <2>1, EpochsKept
<1>2. CASE Health
  <2>1. UNCHANGED <<cws, cnode, covers, listed, waiting, sending>>
    BY <1>2 DEF Health, clientVars
  <2>2. disp'.phase = "none"
    BY <1>2 DEF Health, FailRun, NoRun
  <2> QED BY <2>1, <2>2, EpochsKept
<1>3. CASE Restart
  <2>1. /\ sending' = NoSend
        /\ disp' = disp \/ disp' = NoRun
        /\ disp.phase \notin {"direct", "ended"}
    BY <1>3 DEF Restart, StartLockFree, FailRun
  <2>2. Following'
    BY <2>1 DEF Following, NoRun
  <2>3. CASE UNCHANGED clientVars
    <3>1. Requested' /\ ListedIsCurrent'
      BY <2>1, <2>3 DEF ListInv, Requested, Stamped, ListedIsCurrent, clientVars
    <3> QED BY <2>2, <3>1
  <2>4. CASE DropGeneration
    <3>1. Requested' /\ ListedIsCurrent'
      BY <2>1, <2>4 DEF DropGeneration, Zero, Requested, ListedIsCurrent
    <3> QED BY <2>2, <3>1
  <2> QED BY <1>3, <2>3, <2>4 DEF Restart
<1> QED BY <1>1, <1>2, <1>3

LEMMA ListInvalidate ==
    ASSUME ListInv, Invalidate
    PROVE  Requested' /\ Following' /\ ListedIsCurrent'
<1>1. ClientTypes /\ CallTypes
  BY TypesSplit DEF ListInv
<1>2. /\ Advance(TRUE, {}, cws + 1, Zero)
      /\ sending = NoSend /\ sending' = sending
      /\ disp' = disp /\ disp.phase \notin {"direct", "ended"}
  BY DEF Invalidate
<1>3. cws + 1 \in Nat /\ cws + 1 > cws
  BY <1>1 DEF ClientTypes
<1>4. Onward(TRUE, {}, cws + 1, Zero)
  BY <1>3 DEF Onward
<1>5. /\ \A r \in Requests : Stamped(r) => Stamped(r)'
      /\ waiting' \subseteq waiting
      /\ ListedIsCurrent => ListedIsCurrent'
  BY <1>1, <1>2, <1>3, <1>4, AdvanceStamped, Constants
<1>6. Requested'
  BY <1>1, <1>2, <1>5 DEF ListInv, Requested, ClientTypes
<1>7. Following'
  BY <1>2 DEF Following
<1> QED BY <1>5, <1>6, <1>7 DEF ListInv

LEMMA ListSending ==
    ASSUME ListInv, Track \/ Send \/ \E kind \in Kinds, n \in Nodes : ReadEpochs(kind, n)
    PROVE  Requested' /\ Following' /\ ListedIsCurrent'
<1>1. ASSUME NEW kind \in Kinds, NEW n \in Nodes, ReadEpochs(kind, n)
      PROVE  Requested' /\ Following' /\ ListedIsCurrent'
  <2>1. UNCHANGED clientVars /\ disp' = disp
    BY <1>1 DEF ReadEpochs
  <2>2. /\ sending'.req.ws = cws /\ sending'.req.node = n
        /\ sending'.req.ne = cnode[n] /\ sending'.req.stamp = covers[n]
    BY <1>1 DEF ReadEpochs
  <2>3. Requested'
    BY <2>1, <2>2 DEF ListInv, Requested, Stamped, clientVars
  <2> QED BY <2>1, <2>3 DEF ListInv, Following, ListedIsCurrent, clientVars
<1>2. CASE Track
  <2>1. /\ UNCHANGED <<cws, cnode, covers, listed, disp>>
        /\ waiting' = waiting \cup {sending.req}
        /\ sending # NoSend /\ sending' = [sending EXCEPT !.step = "tracked"]
    BY <1>2 DEF Track
  <2>2. sending'.req = sending.req
    <3>1. sending \in [kind : Kinds, step : {"read", "tracked"}, req : Requests]
      BY <2>1, TypesSplit DEF ListInv, CallTypes, Sendings
    <3> QED BY <2>1, <3>1
  <2> QED BY <2>1, <2>2, EpochsKept
<1>3. CASE Send
  <2>1. UNCHANGED <<cws, cnode, covers, listed, waiting, disp>> /\ sending' = NoSend
    BY <1>3 DEF Send, clientVars
  <2> QED BY <2>1, EpochsKept
<1> QED BY <1>1, <1>2, <1>3

LEMMA ListDispatch ==
    ASSUME ListInv, Dispatcher \/ Stop \/ ReadyDirect \/ \E nodes \in SUBSET Nodes : Reserve(nodes)
    PROVE  Requested' /\ Following' /\ ListedIsCurrent'
<1>1. ClientTypes /\ disp \in Dispatches /\ disp.phase \in Phases
  BY TypesSplit, DispFields DEF ListInv, CallTypes
<1>2. ASSUME UNCHANGED clientVars, sending' = sending, disp'.phase \notin {"direct", "ended"}
      PROVE  Requested' /\ Following' /\ ListedIsCurrent'
  BY <1>2, EpochsKept DEF clientVars
<1>3. CASE \E nodes \in SUBSET Nodes : Reserve(nodes)
  BY <1>2, <1>3 DEF Reserve, NoRun
<1>4. CASE ReadyDirect
  BY <1>2, <1>4 DEF ReadyDirect, NoRun
<1>5. CASE Retire \/ Check \/ Ready
  <2>1. disp'.phase \in {"retiring", "retired", "checked", "ready"}
    BY <1>1, <1>5 DEF Retire, Check, Ready, Dispatches
  <2> QED BY <1>2, <1>5, <2>1 DEF Retire, Check, Ready
<1>6. CASE PostPrepared \/ DispatchFails \/ Stop
  <2>1. disp'.phase \in {"posted", "none"}
    BY <1>1, <1>6 DEF PostPrepared, DispatchFails, Stop, Dispatches, NoRun
  <2> QED BY <1>2, <1>6, <2>1 DEF PostPrepared, DispatchFails, Stop
<1>7. CASE PostDirect
  <2>1. UNCHANGED clientVars /\ sending' = sending
    BY <1>7 DEF PostDirect
  <2>2. disp'.snap.ws = cws + 1
    BY <1>1, <1>7 DEF PostDirect, Dispatches, Snapshots
  <2>3. Following'
    BY <2>1, <2>2 DEF Following, clientVars
  <2> QED BY <2>1, <2>3 DEF ListInv, Requested, Stamped, ListedIsCurrent, clientVars
<1>8. CASE CommitDirect
  <2>1. /\ Advance(TRUE, {}, disp.snap.ws, Zero)
        /\ disp.phase \in {"direct", "ended"} /\ sending' = sending
    BY <1>8 DEF CommitDirect
  <2>2. disp.snap.ws = cws + 1 /\ disp.snap.ws \in Nat /\ disp.snap.ws > cws
    BY <1>1, <2>1 DEF ListInv, Following, ClientTypes
  <2>3. Onward(TRUE, {}, disp.snap.ws, Zero)
    BY <2>2 DEF Onward
  <2>4. /\ \A r \in Requests : Stamped(r) => Stamped(r)'
        /\ waiting' \subseteq waiting
        /\ ListedIsCurrent => ListedIsCurrent'
    BY <1>1, <2>1, <2>2, <2>3, AdvanceStamped, Constants
  <2>5. sending # NoSend => sending.req \in Requests
    BY TypesSplit DEF ListInv, CallTypes, Sendings
  <2>6. Requested'
    BY <1>1, <2>1, <2>4, <2>5 DEF ListInv, Requested, ClientTypes
  <2>7. disp'.phase \in {"none", "posted"}
    BY <1>1, <1>8 DEF CommitDirect, NoRun, Dispatches
  <2> QED BY <2>4, <2>6, <2>7 DEF ListInv, Following
<1> QED BY <1>3, <1>4, <1>5, <1>6, <1>7, <1>8 DEF Dispatcher

LEMMA ListListener ==
    ASSUME ListInv, Listener
    PROVE  Requested' /\ Following' /\ ListedIsCurrent'
<1>1. ClientTypes /\ disp \in Dispatches
  BY TypesSplit DEF ListInv, CallTypes
<1>2. CASE ReceiveAnswer
  <2> DEFINE e == Head(events)
  <2>1. UNCHANGED <<cws, cnode, covers, sending, disp>> /\ waiting' \subseteq waiting
    BY <1>2 DEF ReceiveAnswer, callVars
  (* The answer is to a request of the present epochs that is waited for:  *)
  (* its stamp is the present one.                                         *)
  <2>2. CurrentAnswer(e) => e.req.stamp = covers[e.req.node]
    <3>1. ASSUME CurrentAnswer(e) PROVE e.req.stamp = covers[e.req.node]
      <4>1. Stamped(e.req) /\ e.req \in Requests
        BY <1>1, <3>1 DEF CurrentAnswer, ListInv, Requested, ClientTypes
      <4>2. e.req.ws = cws /\ e.req.ne = cnode[e.req.node]
        BY <3>1 DEF CurrentAnswer
      <4>3. e.req.node \in Nodes /\ cws \in Nat /\ cnode[e.req.node] \in Nat
        BY <1>1, <4>1 DEF Requests, ClientTypes
      <4> HIDE DEF e
      <4> QED BY <4>1, <4>2, <4>3 DEF Stamped
    <3> QED BY <3>1
  <2>3. ListedIsCurrent'
    <3>1. \/ listed' = listed
          \/ CurrentAnswer(e) /\ listed' = [listed EXCEPT ![e.req.node] = e.req.stamp]
          \/ listed' = [listed EXCEPT ![e.req.node] = 0]
      BY <1>1, <1>2 DEF ReceiveAnswer, ClientTypes
    <3>2. \A n \in Nodes : listed[n] # 0 => listed[n] = covers[n]
      BY DEF ListInv, ListedIsCurrent
    <3> HIDE DEF e
    <3>3. \A n \in Nodes : listed'[n] # 0 => listed'[n] = covers[n]
      BY <1>1, <2>2, <3>1, <3>2 DEF ClientTypes
    <3> QED BY <2>1, <3>3 DEF ListedIsCurrent
  <2> QED BY <2>1, <2>3, EpochsKept
<1>3. CASE ReceiveAck
  <2>1. UNCHANGED <<cws, cnode, covers, listed, waiting, sending, disp>>
    BY <1>3 DEF ReceiveAck, clientVars
  <2> QED BY <2>1, EpochsKept
<1>4. CASE ReceiveRetired
  <2>1. UNCHANGED <<cws, cnode, covers, listed, waiting, sending>>
    BY <1>4 DEF ReceiveRetired, clientVars
  <2>2. disp' = disp \/ disp'.phase = "retired"
    BY <1>1, <1>4 DEF ReceiveRetired, Dispatches
  <2> QED BY <2>1, <2>2, EpochsKept
<1>5. CASE ReceiveEnded
  <2>1. UNCHANGED <<cws, cnode, covers, listed, waiting, sending>>
    BY <1>5 DEF ReceiveEnded, clientVars
  <2>2. \/ disp' = disp \/ disp' = NoRun
        \/ disp.phase = "direct" /\ disp' = [disp EXCEPT !.phase = "ended"]
    BY <1>5 DEF ReceiveEnded
  <2>3. \/ disp' = disp \/ disp'.phase = "none"
        \/ disp.phase = "direct" /\ disp'.snap = disp.snap
    BY <1>1, <2>2 DEF Dispatches, NoRun
  <2> QED BY <2>1, <2>3, EpochsKept
<1>6. CASE ReceiveAccepted
  <2>1. disp' = disp /\ sending' = sending
    BY <1>6 DEF ReceiveAccepted, callVars
  <2>2. CASE UNCHANGED clientVars
    BY <2>1, <2>2, EpochsKept DEF clientVars
  <2>3. CASE /\ disp.phase = "posted" /\ PlanHolds(disp.snap)
             /\ Advance(FALSE, disp.snap.nodes, disp.snap.ws, disp.snap.ne)
    <3>1. /\ disp.snap.nodes \in SUBSET Nodes /\ disp.snap.ws \in Nat
          /\ disp.snap.ne \in [Nodes -> Nat]
      BY <1>1 DEF Dispatches, Snapshots
    <3>2. Onward(FALSE, disp.snap.nodes, disp.snap.ws, disp.snap.ne)
      BY <2>3 DEF PlanHolds, Onward
    <3>3. /\ \A r \in Requests : Stamped(r) => Stamped(r)'
          /\ waiting' \subseteq waiting
          /\ ListedIsCurrent => ListedIsCurrent'
      BY <1>1, <2>3, <3>1, <3>2, AdvanceStamped
    <3>4. sending # NoSend => sending.req \in Requests
      BY TypesSplit DEF ListInv, CallTypes, Sendings
    <3>5. Requested'
      BY <1>1, <2>1, <3>3, <3>4 DEF ListInv, Requested, ClientTypes
    <3> QED BY <2>1, <2>3, <3>3, <3>5 DEF ListInv, Following
  <2> QED BY <1>6, <2>2, <2>3 DEF ReceiveAccepted
<1> QED BY <1>2, <1>3, <1>4, <1>5, <1>6 DEF Listener

LEMMA ListNext == ListInv /\ [Next]_vars => ListInv'
<1> SUFFICES ASSUME ListInv, [Next]_vars PROVE ListInv'
  OBVIOUS
<1>1. TypeOK' /\ Numbered'
  BY TypesNext DEF ListInv
<1>2. CASE Crash \/ Health \/ Restart
  BY <1>1, <1>2, ListProcess DEF ListInv
<1>3. CASE Invalidate
  BY <1>1, <1>3, ListInvalidate DEF ListInv
<1>4. CASE Track \/ Send \/ \E kind \in Kinds, n \in Nodes : ReadEpochs(kind, n)
  BY <1>1, <1>4, ListSending DEF ListInv
<1>5. CASE Dispatcher \/ Stop \/ ReadyDirect \/ \E nodes \in SUBSET Nodes : Reserve(nodes)
  BY <1>1, <1>5, ListDispatch DEF ListInv
<1>6. CASE Listener
  BY <1>1, <1>6, ListListener DEF ListInv
<1>7. CASE Deliver \/ Worker \/ PreflightTimeout \/ EndRun \/ OtherRun \/ UNCHANGED vars
  <2>1. UNCHANGED clientVars /\ sending' = sending /\ disp' = disp
    BY <1>7 DEF Deliver, Worker, ServeViewer, BufferViewer, FlushViewer, ServeInvalidate,
        ServeRetire, ServeStart, StartFails, StartRuns, StartOffers, ServeCommit, ServeCancel,
        ServeLate, PreflightTimeout,
        EndRun, OtherRun, vars, callVars
  <2>2. Requested' /\ Following' /\ ListedIsCurrent'
    BY <2>1, EpochsKept DEF clientVars
  <2> QED BY <1>1, <2>2 DEF ListInv
<1> QED BY <1>2, <1>3, <1>4, <1>5, <1>6, <1>7 DEF Next

(* A session the client lists shows results that no invalidation, rerun or *)
(* death of the worker has covered since, in whatever order the answers,   *)
(* the commits and the events of an earlier worker arrive.                 *)
THEOREM ListsAreCurrent == Spec => []ListedIsCurrent
<1>1. ListInv => ListedIsCurrent
  BY DEF ListInv
<1> QED BY <1>1, ListInit, ListNext, PTL DEF Spec
=============================================================================
