-------------------------- MODULE SolutionResources --------------------------
(***************************************************************************)
(* Ownership of native outputs between the process worker and its host     *)
(* (execution/solution_resources.py), with the parts of                    *)
(* ProcessExecutionClient that carry it (execution/process_client.py) and  *)
(* the command loops that apply it (execution/worker.py, worker_runner.py).*)
(*                                                                         *)
(* A settled node offers its handles under registry leases of the offer.   *)
(* While the listener dispatches the event the host claims the handles it  *)
(* keeps; the settlement at the end transfers those and has the worker     *)
(* release the others.  Later the store gives leases up one at a time.     *)
(* Everything is one-way: commands and events are FIFOs, and a generation  *)
(* that fails is retired with all it holds.                                *)
(*                                                                         *)
(* There is one workspace.  An offer has one handle per slot; what a       *)
(* handle designates and the registry's other leases are in HandleRegistry.*)
(***************************************************************************)
EXTENDS Naturals, Sequences, FiniteSets

CONSTANTS
    Offers,          \* offer ids; each is staged at most once
    NoOffer,
    Slots,           \* indices of handles
    Leases,          \* <<offer, slot>> for each handle that an offer has
    FaultSets,       \* the sets of failures a behaviour may meet
    MaxGeneration,   \* bound on worker generations
    MaxQueue         \* bound on the commands ahead of a new run

(* The worker dies; a queue refuses a command; the event's decoding or a   *)
(* host callback raises; a value's disposer raises.                        *)
ASSUME ResourceAssumption ==
    /\ NoOffer \notin Offers
    /\ Leases \subseteq Offers \X Slots
    /\ \A o \in Offers : \E slot \in Slots : <<o, slot>> \in Leases
    /\ FaultSets \subseteq SUBSET {"crash", "send", "callback", "dispose"}
    /\ MaxGeneration \in Nat \ {0} /\ MaxQueue \in Nat

VARIABLES
    faults,       \* the failures this behaviour may meet
    generation,   \* _physical_generation_token
    accepted,     \* _accepted_physical_generation_token is that generation
    up,           \* the worker process of the generation is alive
    hostRun,      \* the host has an active run (_active_run_id)
    dispatch,     \* where dispatch_prepared is with the run it starts
    reads,        \* the current outputs it was accepted to read
    withdrawn,    \* history: given up between that and StartRun's write
    workerRun,    \* the worker executes a run
    closedDown,   \* the workspace was closed in the shell
    offered,      \* offer -> generation that staged it, 0 before
    live,         \* worker: offer -> _WorkerOffer.live, {} without an entry
    settled,      \* worker: the offers whose entry is settled
    leases,       \* registry: the leases under the scopes of the offers
    hostOffer,    \* host: offer -> "absent", "open" or "settled"
    hostLeases,   \* host: offer -> slots in _HostOffer.leases
    claimed,      \* host: offer -> _HostOffer.claimed
    dispatching,  \* the offer whose event the listener dispatches
    raised,       \* the dispatch under way has raised
    aborting,     \* the listener or a releaser is about to abort
    held,         \* the leases the solution store keeps
    toHost,       \* the event queue
    toWorker      \* the command queue

workerVars == <<workerRun, offered, live, settled, leases>>
hostVars   == <<hostOffer, hostLeases, claimed, dispatching, raised, held>>
runVars    == <<dispatch, reads, withdrawn>>
clientVars == <<generation, accepted, up, hostRun, closedDown, aborting,
                faults>>
vars == <<workerVars, hostVars, clientVars, runVars, toHost, toWorker>>

Empty == [o \in Offers |-> {}]

Init ==
    /\ faults \in FaultSets
    /\ generation = 1 /\ accepted = TRUE /\ up = TRUE
    /\ hostRun = FALSE /\ workerRun = FALSE /\ closedDown = FALSE
    /\ dispatch = "idle" /\ reads = {} /\ withdrawn = {}
    /\ offered = [o \in Offers |-> 0]
    /\ live = Empty /\ settled = {} /\ leases = {}
    /\ hostOffer = [o \in Offers |-> "absent"]
    /\ hostLeases = Empty /\ claimed = Empty
    /\ dispatching = NoOffer /\ raised = FALSE /\ aborting = FALSE
    /\ held = {} /\ toHost = <<>> /\ toWorker = <<>>

Command(verb, o, slots) == [do |-> verb, offer |-> o, slots |-> slots]
Retirement  == [do |-> "retire"]
Start(read) == [do |-> "start", reads |-> read]
Of(o, slots) == {o} \X slots
SlotsOf(o)   == {slot \in Slots : <<o, slot>> \in Leases}

-------------------------------------------------------------------------------
(***************************************************************************)
(* The worker.                                                             *)
(***************************************************************************)

(* The generation an offer is stamped with.                                *)
StampNext == generation + 1

Stamp == generation

(* stage takes a lease on each handle and the event carries the offer.     *)
Stage(o) ==
    /\ up /\ workerRun /\ offered[o] = 0
    /\ offered' = [offered EXCEPT ![o] = Stamp]
    /\ live' = [live EXCEPT ![o] = SlotsOf(o)]
    /\ leases' = leases \cup Of(o, SlotsOf(o))
    /\ toHost' = Append(toHost, o)
    /\ UNCHANGED <<workerRun, settled, hostVars, clientVars, runVars,
                   toWorker>>

EndRun ==
    /\ up /\ workerRun
    /\ workerRun' = FALSE
    /\ toHost' = Append(toHost, NoOffer)
    /\ UNCHANGED <<offered, live, settled, leases, hostVars, clientVars,
                   runVars, toWorker>>

(* The loop of apply: each handle is released and its index removed.       *)
ReleaseAllListed(o, slots) ==
    /\ Of(o, slots) \subseteq leases
    /\ leases' = leases \ Of(o, slots)
    /\ UNCHANGED live

ReleaseAll(o, slots) ==
    /\ Of(o, slots) \subseteq leases
    /\ leases' = leases \ Of(o, slots)
    /\ live' = [live EXCEPT ![o] = @ \ slots]

(* A release that raises ends the loop: registry.release drops the lease   *)
(* before it runs the disposer, the index stays, and so do the slots that  *)
(* were to follow.                                                         *)
ReleaseBroken(o, slots) ==
    \E done \in SUBSET slots : \E slot \in slots \ done :
        /\ "dispose" \in faults \/ <<o, slot>> \notin leases
        /\ Of(o, done) \subseteq leases
        /\ leases' = leases \ Of(o, done \cup {slot})
        /\ live' = [live EXCEPT ![o] = @ \ done]

Release(o, slots) == ReleaseAll(o, slots) \/ ReleaseBroken(o, slots)

(* What a command releases: a settlement all but the slots it names, unless*)
(* it is a replay; a release the slots it names that are still there.      *)
UnwantedLater(c) ==
    IF c.do = "settle" THEN {} ELSE live[c.offer] \cap c.slots

Unwanted(c) ==
    IF c.do = "settle"
    THEN IF c.offer \in settled THEN {} ELSE live[c.offer] \ c.slots
    ELSE live[c.offer] \cap c.slots

(* apply.  A command for an offer without an entry is late and ignored.    *)
Apply ==
    /\ up /\ toWorker # <<>> /\ Head(toWorker).do \in {"settle", "release"}
    /\ LET c == Head(toWorker)
       IN  IF live[c.offer] = {} THEN UNCHANGED <<live, settled, leases>>
           ELSE /\ Release(c.offer, Unwanted(c))
                /\ settled' = IF c.do = "settle" THEN settled \cup {c.offer}
                              ELSE settled
    /\ toWorker' = Tail(toWorker)
    /\ UNCHANGED <<workerRun, offered, hostVars, clientVars, runVars, toHost>>

(* retire_unclaimed gives up the offers nobody settled, accepted ones stay.*)
RetiredEverything == {o \in Offers : live[o] # {}}

Unclaimed == {o \in Offers : live[o] # {} /\ o \notin settled}

Retire ==
    /\ up /\ toWorker # <<>> /\ Head(toWorker).do = "retire"
    /\ live' = [o \in Offers |-> IF o \in Unclaimed THEN {} ELSE live[o]]
    /\ leases' = leases \ (Unclaimed \X Slots)
    /\ settled' = settled \cup Unclaimed
    /\ toWorker' = Tail(toWorker)
    /\ UNCHANGED <<workerRun, offered, hostVars, clientVars, runVars, toHost>>

(* Outside apply's callers nothing catches a disposal that fails: the      *)
(* command loop ends and the process with it.                              *)
RetireBroken ==
    /\ up /\ toWorker # <<>> /\ Head(toWorker).do = "retire"
    /\ "dispose" \in faults /\ Unclaimed # {}
    /\ up' = FALSE
    /\ UNCHANGED <<faults, generation, accepted, hostRun, closedDown, aborting,
                   workerVars, hostVars, runVars, toHost, toWorker>>

(* validate_retained.                                                      *)
Readable(l) == l[1] \in settled /\ l[2] \in live[l[1]] /\ l \in leases

(* The preflight of a run validates its reads; where one has no accepted   *)
(* lease any more the run fails before it executes anything.               *)
ServeStart ==
    /\ up /\ toWorker # <<>> /\ Head(toWorker).do = "start"
    /\ IF \A l \in Head(toWorker).reads : Readable(l)
       THEN workerRun' = TRUE /\ UNCHANGED toHost
       ELSE toHost' = Append(toHost, NoOffer) /\ UNCHANGED workerRun
    /\ toWorker' = Tail(toWorker)
    /\ UNCHANGED <<offered, live, settled, leases, hostVars, clientVars,
                   runVars>>

(* The process ends: it crashed, or the host terminated it.                *)
Die ==
    /\ up /\ ("crash" \in faults \/ ~accepted)
    /\ up' = FALSE
    /\ UNCHANGED <<faults, generation, accepted, hostRun, closedDown, aborting,
                   workerVars, hostVars, runVars, toHost, toWorker>>

-------------------------------------------------------------------------------
(***************************************************************************)
(* The host.                                                               *)
(***************************************************************************)

(* dispatch_prepared, one run at a time.  It reserves the run and has the  *)
(* worker retire the workspace.                                            *)
RetireForRun ==
    /\ accepted /\ ~hostRun /\ dispatch = "idle" /\ ~closedDown
    /\ Len(toWorker) <= MaxQueue
    /\ hostRun' = TRUE /\ dispatch' = "retired"
    /\ toWorker' = Append(toWorker, Retirement)
    /\ UNCHANGED <<faults, generation, accepted, up, closedDown, aborting,
                   workerVars, hostVars, reads, withdrawn, toHost>>

(* The worker has answered that retirement; one for a workspace that was   *)
(* closed meanwhile may follow it, a worker that is gone has none.         *)
Retired ==
    closedDown \/ ~up \/ \A j \in 1 .. Len(toWorker) : toWorker[j] # Retirement

(* The run is accepted under the lifecycle lock, where its generation and  *)
(* the revision are still those it was prepared for: what it is to read    *)
(* are current outputs whose leases the store keeps.                       *)
AcceptRun ==
    /\ accepted /\ hostRun /\ dispatch = "retired" /\ Retired
    /\ dispatch' = "accepted"
    /\ reads' \in SUBSET held /\ withdrawn' = {}
    /\ UNCHANGED <<workerVars, hostVars, clientVars, toHost, toWorker>>

(* StartRun is written when the lock is dropped and the admission published*)
WriteStart ==
    /\ accepted /\ up /\ hostRun /\ dispatch = "accepted"
    /\ dispatch' = "idle" /\ reads' = {}
    /\ toWorker' = Append(toWorker, Start(reads))
    /\ UNCHANGED <<workerVars, hostVars, clientVars, withdrawn, toHost>>

(* Anything in between may fail or be cancelled; the reservation goes.     *)
AbandonDispatch ==
    /\ dispatch # "idle"
    /\ dispatch' = "idle" /\ reads' = {} /\ hostRun' = FALSE
    /\ UNCHANGED <<faults, generation, accepted, up, closedDown, aborting,
                   workerVars, hostVars, withdrawn, toHost, toWorker>>

(* The shell closes the workspace, run or no run.                          *)
CloseWorkspace ==
    /\ accepted /\ ~closedDown
    /\ closedDown' = TRUE
    /\ toWorker' = Append(toWorker, Retirement)
    /\ UNCHANGED <<faults, generation, accepted, up, hostRun, aborting,
                   workerVars, hostVars, runVars, toHost>>

(* The listener takes an event; dispatch registers its offer.  Events of a *)
(* generation that is not accepted any more are dropped.                   *)
TakeEvent ==
    /\ toHost # <<>> /\ dispatching = NoOffer /\ ~aborting
    /\ toHost' = Tail(toHost)
    /\ LET o == Head(toHost)
       IN  IF ~accepted THEN UNCHANGED <<hostRun, hostOffer, dispatching>>
           ELSE IF o = NoOffer
           THEN hostRun' = FALSE /\ UNCHANGED <<hostOffer, dispatching>>
           ELSE /\ hostOffer' = [hostOffer EXCEPT ![o] = "open"]
                /\ dispatching' = o /\ UNCHANGED hostRun
    /\ UNCHANGED <<faults, generation, accepted, up, closedDown, aborting,
                   workerVars, runVars, hostLeases, claimed, raised, held,
                   toWorker>>

(* claim: only from the callbacks of that dispatch, once per slot, while   *)
(* the generation is the accepted one.                                     *)
Claim(slot) ==
    /\ dispatching # NoOffer /\ ~raised /\ accepted
    /\ hostOffer[dispatching] = "open"
    /\ slot \in SlotsOf(dispatching) \ claimed[dispatching]
    /\ claimed' = [claimed EXCEPT ![dispatching] = @ \cup {slot}]
    /\ hostLeases' = [hostLeases EXCEPT ![dispatching] = @ \cup {slot}]
    /\ held' = held \cup {<<dispatching, slot>>}
    /\ UNCHANGED <<hostOffer, dispatching, raised, workerVars, clientVars,
                   runVars, toHost, toWorker>>

(* A dispatch that raises gives its claims back before it settles.         *)
CallbackRaises ==
    /\ "callback" \in faults /\ dispatching # NoOffer /\ ~raised
    /\ raised' = TRUE
    /\ hostLeases' = [hostLeases EXCEPT ![dispatching] = {}]
    /\ UNCHANGED <<hostOffer, claimed, dispatching, held, workerVars,
                   clientVars, runVars, toHost, toWorker>>

(* _send_solution_resources: nothing is sent to a generation that is not   *)
(* accepted; a queue that refuses the command means an abort.              *)
Send(c, abort) ==
    \/ /\ toWorker' = IF accepted THEN Append(toWorker, c) ELSE toWorker
       /\ aborting' = (aborting \/ abort)
    \/ /\ "send" \in faults /\ accepted
       /\ aborting' = TRUE /\ UNCHANGED toWorker

KeptNone(o) == {}

Kept(o) == hostLeases[o]

(* The end of dispatch.  An offer retired meanwhile is not settled.        *)
Settle ==
    /\ dispatching # NoOffer
    /\ dispatching' = NoOffer /\ raised' = FALSE
    /\ IF hostOffer[dispatching] = "open"
       THEN /\ Send(Command("settle", dispatching, Kept(dispatching)), raised)
            /\ hostOffer' = [hostOffer EXCEPT ![dispatching] =
                                IF hostLeases[dispatching] = {} THEN "absent"
                                ELSE "settled"]
       ELSE aborting' = (aborting \/ raised) /\ UNCHANGED <<hostOffer, toWorker>>
    /\ UNCHANGED <<faults, generation, accepted, up, hostRun, closedDown,
                   workerVars, runVars, hostLeases, claimed, held, toHost>>

(* The store gives a lease up: at once when a settlement is rejected, later*)
(* when its record is evicted, or an edit or a reset invalidates it, also  *)
(* under a run that was accepted to read it.  Before settlement the lease  *)
(* is just left out of it.                                                 *)
TransferredOrOpen(o) == hostOffer[o] # "absent"

Transferred(o) == hostOffer[o] = "settled"

GiveUp(o, slot) ==
    /\ <<o, slot>> \in held
    /\ held' = held \ {<<o, slot>>}
    /\ withdrawn' = IF dispatch = "accepted"
                    THEN withdrawn \cup {<<o, slot>>} ELSE withdrawn
    /\ IF hostOffer[o] = "absent" \/ slot \notin hostLeases[o]
       THEN UNCHANGED <<hostLeases, hostOffer, aborting, toWorker>>
       ELSE /\ hostLeases' = [hostLeases EXCEPT ![o] = @ \ {slot}]
            /\ IF Transferred(o)
               THEN /\ Send(Command("release", o, {slot}), FALSE)
                    /\ hostOffer' = [hostOffer EXCEPT ![o] =
                                IF hostLeases[o] = {slot} THEN "absent" ELSE @]
               ELSE UNCHANGED <<hostOffer, aborting, toWorker>>
    /\ UNCHANGED <<faults, generation, accepted, up, hostRun, closedDown,
                   workerVars, claimed, dispatching, raised, dispatch, reads,
                   toHost>>

Dropped == [o \in Offers |->
               IF offered[o] = generation THEN "absent" ELSE hostOffer[o]]

(* _abort_solution_resource_transport: the generation is retired with its  *)
(* offers, and the process is terminated.                                  *)
Abort ==
    /\ aborting
    /\ aborting' = FALSE
    /\ accepted' = FALSE /\ hostRun' = IF accepted THEN FALSE ELSE hostRun
    /\ hostOffer' = IF accepted THEN Dropped ELSE hostOffer
    /\ UNCHANGED <<faults, generation, up, closedDown, workerVars, runVars,
                   hostLeases, claimed, dispatching, raised, held, toHost,
                   toWorker>>

(* The health check retires a generation whose process is gone unless a    *)
(* start is pending, a change of the registry one that is idle.            *)
RetireGeneration ==
    /\ accepted /\ ((~up /\ dispatch = "idle") \/ ~hostRun)
    /\ accepted' = FALSE /\ hostRun' = FALSE
    /\ UNCHANGED <<faults, generation, up, closedDown, aborting, workerVars,
                   hostVars, runVars, toHost, toWorker>>

(* _retire_process_resources and the spawn of the next generation, when    *)
(* the listener has ended, also by the pending start itself; the runtime   *)
(* has its store drop its leases.                                          *)
Respawn ==
    /\ ~accepted \/ dispatch = "accepted"
    /\ ~up /\ dispatching = NoOffer /\ ~aborting
    /\ generation < MaxGeneration
    /\ generation' = generation + 1 /\ accepted' = TRUE /\ up' = TRUE
    /\ workerRun' = FALSE
    /\ withdrawn' = IF dispatch = "accepted" THEN withdrawn \cup held
                    ELSE withdrawn
    /\ live' = Empty /\ settled' = {} /\ leases' = {}
    /\ hostOffer' = [o \in Offers |-> "absent"]
    /\ hostLeases' = Empty /\ claimed' = Empty /\ held' = {}
    /\ toHost' = <<>> /\ toWorker' = <<>>
    /\ UNCHANGED <<faults, hostRun, closedDown, aborting, dispatch, reads,
                   offered, dispatching, raised>>

-------------------------------------------------------------------------------
Worker   == Apply \/ Retire \/ RetireBroken \/ ServeStart
Listener == TakeEvent \/ Settle

Next ==
    \/ Worker \/ Listener \/ EndRun \/ Die
    \/ RetireForRun \/ AcceptRun \/ WriteStart \/ AbandonDispatch
    \/ CloseWorkspace \/ CallbackRaises \/ Abort \/ RetireGeneration
    \/ Respawn
    \/ \E o \in Offers : Stage(o) \/ \E slot \in Slots : GiveUp(o, slot)
    \/ \E slot \in Slots : Claim(slot)

Spec == Init /\ [][Next]_vars

(* The worker's loop and the listener keep running, and a process that was *)
(* told to end does.                                                       *)
Fairness ==
    /\ WF_vars(Worker) /\ WF_vars(Listener) /\ WF_vars(Abort)
    /\ WF_vars(Die /\ ~accepted)

FairSpec == Spec /\ Fairness

-------------------------------------------------------------------------------
(***************************************************************************)
(* Properties.                                                             *)
(***************************************************************************)
(* Every variable has its type.                                            *)
TypeOK ==
    /\ faults \in FaultSets /\ generation \in 1 .. MaxGeneration
    /\ {accepted, up, hostRun, workerRun, closedDown, raised, aborting}
          \subseteq BOOLEAN
    /\ offered \in [Offers -> 0 .. MaxGeneration]
    /\ live \in [Offers -> SUBSET Slots] /\ settled \subseteq Offers
    /\ leases \subseteq Leases /\ held \subseteq Leases
    /\ dispatch \in {"idle", "retired", "accepted"}
    /\ reads \subseteq Leases /\ withdrawn \subseteq Leases
    /\ hostOffer \in [Offers -> {"absent", "open", "settled"}]
    /\ hostLeases \in [Offers -> SUBSET Slots]
    /\ claimed \in [Offers -> SUBSET Slots]
    /\ dispatching \in Offers \cup {NoOffer}
    /\ toHost \in Seq(Offers \cup {NoOffer})
    /\ toWorker \in Seq(
          [do : {"settle", "release"}, offer : Offers, slots : SUBSET Slots]
          \cup {Retirement} \cup [do : {"start"}, reads : SUBSET Leases])

(* What the store keeps is alive: while the generation is accepted and its *)
(* process runs, the worker still holds the lease of every output a record *)
(* of the open workspace relies on, however retirements, settlements and   *)
(* releases cross.                                                         *)
HeldIsBacked ==
    up /\ accepted /\ ~aborting /\ ~raised /\ ~closedDown =>
        \A l \in held : l[2] \in live[l[1]] /\ l \in leases

(* The worker's books agree with the registry: an index it still lists can *)
(* be released.  (A disposer that raises breaks this, see EveryLeaseEnds.) *)
ListedIsLeased ==
    "dispose" \notin faults => \A o \in Offers : Of(o, live[o]) \subseteq leases

(* A release never overtakes the settlement that transfers its lease (the  *)
(* comment in dispatch), unless the settlement failed and the generation   *)
(* is being given up.                                                      *)
ReleaseAfterSettle ==
    accepted /\ ~aborting => \A j \in 1 .. Len(toWorker) :
        toWorker[j].do = "release" =>
            \/ toWorker[j].offer \in settled
            \/ \E k \in 1 .. j - 1 : /\ toWorker[k].do = "settle"
                                     /\ toWorker[k].offer = toWorker[j].offer

(* When the worker comes to a run that reads current outputs, each of them *)
(* has the accepted lease that validate_retained asks for, also when the   *)
(* store has given it up since StartRun was written.  The exception are    *)
(* those an edit, a reset or a lost worker took back between the run's     *)
(* acceptance and that write: their release is ahead of the StartRun.      *)
CurrentReadable ==
    up /\ accepted /\ ~aborting /\ ~closedDown /\ toWorker # <<>>
    /\ Head(toWorker).do = "start" =>
        \A l \in Head(toWorker).reads \ withdrawn : Readable(l)

(* No native output is leaked: a lease of an offer that the store does not *)
(* keep is released, or the worker that has it ends.                       *)
EveryLeaseEnds ==
    \A l \in Leases :
        l \in leases /\ l \notin held ~> l \in held \/ l \notin leases \/ ~up

(* The same where no disposer raises.                                      *)
LeasesEnd == "dispose" \notin faults => EveryLeaseEnds

===============================================================================
