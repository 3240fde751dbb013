---------------------- MODULE SolutionResourcesProofs ----------------------
(***************************************************************************)
(* For any offers, handles, failures and number of worker generations: the *)
(* variables keep their types; what the store keeps is alive in the worker *)
(* and what a run reads is there when it starts, unless it was withdrawn   *)
(* before the run was written; no release overtakes the settlement that    *)
(* transfers its lease; and, where no disposer raises, the *)
(* worker lists no lease that its registry does not have.                  *)
(*                                                                         *)
(* The inductive invariant is IInv.  Its Books say what is true of offers  *)
(* while the generation is trusted, its Ways what is true of the commands  *)
(* on the way while the worker is also up and the workspace open.          *)
(***************************************************************************)
EXTENDS SolutionResources, SequenceTheorems, TLAPS

Commands ==
    [do : {"settle", "release"}, offer : Offers, slots : SUBSET Slots]
    \cup {Retirement} \cup [do : {"start"}, reads : SUBSET Leases]

---------------------------------------------------------------------------
(* Types.                                                                  *)

(* What happens to a queue of the two when it is written and read.         *)
LEMMA AppendTo ==
    ASSUME NEW S, NEW s \in Seq(S), NEW e \in S
    PROVE  /\ Append(s, e) \in Seq(S) /\ Len(Append(s, e)) = Len(s) + 1
           /\ \A i \in 1 .. Len(s) : Append(s, e)[i] = s[i]
           /\ Append(s, e)[Len(s) + 1] = e
OBVIOUS

LEMMA TailOf ==
    ASSUME NEW S, NEW s \in Seq(S), s # <<>>
    PROVE  /\ Tail(s) \in Seq(S) /\ Head(s) \in S /\ Head(s) = s[1]
           /\ Len(s) \in Nat \ {0} /\ Len(Tail(s)) = Len(s) - 1
           /\ \A i \in 1 .. Len(Tail(s)) : Tail(s)[i] = s[i + 1]
BY HeadTailProperties, EmptySeq

LEMMA OfWithin ==
    ASSUME NEW S, NEW o, NEW slots, \A slot \in slots : <<o, slot>> \in S
    PROVE  Of(o, slots) \subseteq S
BY DEF Of

LEMMA SendTypes ==
    ASSUME TypeOK, NEW c \in Commands, NEW abort \in BOOLEAN, Send(c, abort)
    PROVE  toWorker' \in Seq(Commands) /\ aborting' \in BOOLEAN
<1>1. toWorker \in Seq(Commands) /\ aborting \in BOOLEAN
  BY DEF TypeOK, Commands
<1>2. Append(toWorker, c) \in Seq(Commands)
  BY <1>1, AppendTo
<1>3. toWorker' \in {toWorker, Append(toWorker, c)}
  BY DEF Send
<1>4. aborting' \in BOOLEAN
  BY <1>1 DEF Send
<1> QED BY <1>1, <1>2, <1>3, <1>4

LEMMA TypesInit == Init => TypeOK
<1> SUFFICES ASSUME Init PROVE TypeOK
  OBVIOUS
<1>1. Empty \in [Offers -> SUBSET Slots] /\ 1 \in 1 .. MaxGeneration
  BY ResourceAssumption DEF Empty
<1>2. toHost \in Seq(Offers \cup {NoOffer}) /\ toWorker \in Seq(Commands)
  BY DEF Init
<1>3. offered \in [Offers -> 0 .. MaxGeneration]
  BY ResourceAssumption DEF Init
<1>4. hostOffer \in [Offers -> {"absent", "open", "settled"}]
  BY DEF Init
<1> QED BY <1>1, <1>2, <1>3, <1>4 DEF Init, TypeOK, Commands

LEMMA TypesWorker ==
    ASSUME TypeOK, Worker \/ EndRun \/ Die \/ \E o \in Offers : Stage(o)
    PROVE  TypeOK'
<1> USE DEF TypeOK, hostVars, clientVars, workerVars, runVars
<1>1. ASSUME NEW o \in Offers, Stage(o) PROVE TypeOK'
  <2>1. toHost' \in Seq(Offers \cup {NoOffer})
    BY <1>1, AppendTo DEF Stage
  <2>2. Of(o, SlotsOf(o)) \subseteq Leases /\ SlotsOf(o) \subseteq Slots
    <3>1. \A slot \in SlotsOf(o) : <<o, slot>> \in Leases
      BY DEF SlotsOf
    <3> QED BY <3>1, OfWithin DEF SlotsOf
  <2>3. offered' \in [Offers -> 0 .. MaxGeneration]
    BY <1>1 DEF Stage, Stamp
  <2> QED BY <1>1, <2>1, <2>2, <2>3 DEF Stage
<1>2. ASSUME EndRun PROVE TypeOK'
  <2>1. toHost' \in Seq(Offers \cup {NoOffer})
    BY <1>2, AppendTo DEF EndRun
  <2> QED BY <1>2, <2>1 DEF EndRun
<1>3. ASSUME Apply PROVE TypeOK'
  <2> DEFINE c == Head(toWorker)
  <2>1. toWorker' \in Seq(Commands) /\ c \in Commands
    BY <1>3, TailOf DEF Apply, Commands
  <2>2. c.offer \in Offers /\ c.do \in {"settle", "release"}
    BY <1>3, <2>1 DEF Apply, Commands, Retirement
  <2>3. settled' \subseteq Offers
    BY <1>3, <2>2 DEF Apply
  <2>4. leases' \subseteq Leases /\ live' \in [Offers -> SUBSET Slots]
    <3>1. CASE UNCHANGED <<live, leases>>
      BY <3>1
    <3>2. CASE ReleaseAll(c.offer, Unwanted(c))
      BY <2>2, <3>2 DEF ReleaseAll
    <3>3. CASE ReleaseBroken(c.offer, Unwanted(c))
      BY <2>2, <3>3 DEF ReleaseBroken
    <3> QED BY <1>3, <3>1, <3>2, <3>3 DEF Apply, Release
  <2> QED BY <1>3, <2>1, <2>3, <2>4 DEF Apply, Commands
<1>4. ASSUME Retire PROVE TypeOK'
  <2>1. toWorker' \in Seq(Commands)
    BY <1>4, TailOf DEF Retire, Commands
  <2> QED BY <1>4, <2>1 DEF Retire, Commands, Unclaimed
<1>5. ASSUME ServeStart PROVE TypeOK'
  <2>1. toWorker' \in Seq(Commands)
    BY <1>5, TailOf DEF ServeStart, Commands
  <2>2. toHost' \in Seq(Offers \cup {NoOffer})
    <3>1. Append(toHost, NoOffer) \in Seq(Offers \cup {NoOffer})
      BY AppendTo
    <3> QED BY <1>5, <3>1 DEF ServeStart
  <2> QED BY <1>5, <2>1, <2>2 DEF ServeStart, Commands
<1>6. ASSUME RetireBroken \/ Die PROVE TypeOK'
  BY <1>6 DEF RetireBroken, Die
<1> QED BY <1>1, <1>2, <1>3, <1>4, <1>5, <1>6 DEF Worker

LEMMA TypesHost ==
    ASSUME TypeOK,
           \/ Listener \/ CloseWorkspace \/ CallbackRaises
           \/ RetireForRun \/ AcceptRun \/ WriteStart \/ AbandonDispatch
           \/ Abort \/ RetireGeneration \/ Respawn
           \/ \E o \in Offers, slot \in Slots : GiveUp(o, slot)
           \/ \E slot \in Slots : Claim(slot)
    PROVE  TypeOK'
<1> USE DEF TypeOK, hostVars, clientVars, workerVars, runVars
<1>1. ASSUME TakeEvent PROVE TypeOK'
  <2>1. toHost' \in Seq(Offers \cup {NoOffer}) /\ Head(toHost) \in Offers \cup {NoOffer}
    BY <1>1, TailOf DEF TakeEvent
  <2> QED BY <1>1, <2>1 DEF TakeEvent
<1>2. ASSUME Settle PROVE TypeOK'
  <2>1. dispatching \in Offers
    BY <1>2 DEF Settle
  <2>2. Command("settle", dispatching, Kept(dispatching)) \in Commands
    BY <2>1 DEF Command, Commands, Kept
  <2>3. toWorker' \in Seq(Commands) /\ aborting' \in BOOLEAN
    <3>1. CASE hostOffer[dispatching] = "open"
      BY <1>2, <2>2, <3>1, SendTypes DEF Settle
    <3>2. CASE hostOffer[dispatching] # "open"
      BY <1>2, <3>2 DEF Settle, Commands
    <3> QED BY <3>1, <3>2
  <2> QED BY <1>2, <2>1, <2>3 DEF Settle, Commands
<1>3. ASSUME NEW o \in Offers, NEW slot \in Slots, GiveUp(o, slot) PROVE TypeOK'
  <2>1. Command("release", o, {slot}) \in Commands
    BY DEF Command, Commands
  <2>2. toWorker' \in Seq(Commands) /\ aborting' \in BOOLEAN
    <3>1. CASE UNCHANGED <<aborting, toWorker>>
      BY <3>1 DEF Commands
    <3>2. CASE Send(Command("release", o, {slot}), FALSE)
      BY <2>1, <3>2, SendTypes
    <3> QED BY <1>3, <3>1, <3>2 DEF GiveUp
  <2> QED BY <1>3, <2>2 DEF GiveUp, Commands
<1>4. ASSUME RetireForRun \/ WriteStart PROVE TypeOK'
  <2>1. PICK c \in Commands : toWorker' = Append(toWorker, c)
    <3>1. Retirement \in Commands /\ Start(reads) \in Commands
      BY DEF Commands, Start
    <3> QED BY <1>4, <3>1 DEF RetireForRun, WriteStart
  <2>2. toWorker' \in Seq(Commands)
    BY <2>1, AppendTo DEF Commands
  <2> QED BY <1>4, <2>2 DEF RetireForRun, WriteStart, Commands
<1>10. ASSUME AcceptRun \/ AbandonDispatch PROVE TypeOK'
  BY <1>10 DEF AcceptRun, AbandonDispatch
<1>5. ASSUME CloseWorkspace PROVE TypeOK'
  <2>1. toWorker' \in Seq(Commands)
    BY <1>5, AppendTo DEF CloseWorkspace, Commands
  <2> QED BY <1>5, <2>1 DEF CloseWorkspace, Commands
<1>6. ASSUME CallbackRaises \/ RetireGeneration PROVE TypeOK'
  BY <1>6 DEF CallbackRaises, RetireGeneration
<1>7. ASSUME Abort PROVE TypeOK'
  BY <1>7 DEF Abort, Dropped
<1>8. ASSUME Respawn PROVE TypeOK'
  <2>1. Empty \in [Offers -> SUBSET Slots]
    BY DEF Empty
  <2>2. generation' \in 1 .. MaxGeneration
    BY <1>8, ResourceAssumption DEF Respawn
  <2>3. toHost' \in Seq(Offers \cup {NoOffer}) /\ toWorker' \in Seq(Commands)
    BY <1>8 DEF Respawn
  <2> QED BY <1>8, <2>1, <2>2, <2>3 DEF Respawn, Commands
<1>9. ASSUME NEW slot \in Slots, Claim(slot) PROVE TypeOK'
  <2>1. dispatching \in Offers /\ <<dispatching, slot>> \in Leases
    BY <1>9 DEF Claim, SlotsOf
  <2>2. held' \subseteq Leases
    BY <1>9, <2>1 DEF Claim
  <2>3. hostLeases' \in [Offers -> SUBSET Slots] /\ claimed' \in [Offers -> SUBSET Slots]
    BY <1>9, <2>1 DEF Claim
  <2> QED BY <1>9, <2>2, <2>3 DEF Claim
<1> QED BY <1>1, <1>2, <1>3, <1>4, <1>5, <1>6, <1>7, <1>8, <1>9, <1>10
   DEF Listener

LEMMA TypesNext == TypeOK /\ [Next]_vars => TypeOK'
<1> SUFFICES ASSUME TypeOK, [Next]_vars PROVE TypeOK'
  OBVIOUS
<1>1. CASE Next
  BY <1>1, TypesWorker, TypesHost DEF Next
<1>2. CASE UNCHANGED vars
  BY <1>2 DEF vars, workerVars, hostVars, clientVars, runVars, TypeOK
<1> QED BY <1>1, <1>2

(* Every variable of the two sides keeps its type.                         *)
THEOREM TypeCorrect == Spec => []TypeOK
BY TypesInit, TypesNext, PTL DEF Spec

---------------------------------------------------------------------------
(* The invariant.  What it says of the host's books holds while the        *)
(* generation is trusted: once an abort is under way, or the generation is *)
(* not the accepted one, nothing is relied on until the next one begins.   *)

Trusted == accepted /\ ~aborting
Usable  == up /\ Trusted /\ ~closedDown

At(i, verbs) == i \in 1 .. Len(toWorker) /\ toWorker[i].do \in verbs
Moves == {"settle", "release"}

(* A settlement of o stands before position k of the command queue.        *)
SettledBefore(o, k) ==
    o \in settled \/ \E i \in 1 .. k - 1 : At(i, {"settle"}) /\ toWorker[i].offer = o

Waits(o) == dispatching = o \/ \E i \in 1 .. Len(toHost) : toHost[i] = o

(* Whatever concerns an offer belongs to the generation that staged it,    *)
(* and each offer is announced once.                                       *)
OffersStaged ==
    /\ \A i \in 1 .. Len(toHost) : toHost[i] # NoOffer =>
          /\ offered[toHost[i]] = generation /\ toHost[i] # dispatching
          /\ \A j \in 1 .. Len(toHost) : toHost[i] = toHost[j] => i = j
    /\ dispatching # NoOffer => offered[dispatching] = generation
    /\ \A o \in Offers :
          /\ offered[o] <= generation
          /\ hostOffer[o] # "absent" \/ o \in settled \/ live[o] # {}
                => offered[o] = generation
    /\ \A i \in 1 .. Len(toWorker) :
          At(i, Moves) => offered[toWorker[i].offer] = generation

(* An offer that is not settled is as it was staged.                       *)
Untouched ==
    Trusted => \A o \in Offers : offered[o] = generation /\ o \notin settled =>
        live[o] = SlotsOf(o) /\ Of(o, SlotsOf(o)) \subseteq leases

(* What the host takes for settled is settled, or about to be.             *)
SettlementSent ==
    Trusted => \A o \in Offers :
        hostOffer[o] = "settled" => SettledBefore(o, Len(toWorker) + 1)

(* One run at a time: retirements and starts are written and served while *)
(* nothing of another run is under way.  A retirement whose dispatch was   *)
(* abandoned may still be ahead of the next; no start is.                  *)
OneRun ==
    Usable =>
        /\ (\E i \in 1 .. Len(toWorker) : At(i, {"retire", "start"})) =>
               ~workerRun /\ toHost = <<>> /\ dispatching = NoOffer
        /\ ~hostRun \/ dispatch # "idle" =>
               ~workerRun /\ toHost = <<>> /\ dispatching = NoOffer
        /\ (\E i \in 1 .. Len(toWorker) : At(i, {"start"})) =>
               hostRun /\ dispatch = "idle"
        /\ \A i \in 1 .. Len(toHost) :
               toHost[i] = NoOffer => i = Len(toHost) /\ ~workerRun
        /\ \A i, j \in 1 .. Len(toWorker) :
               At(i, {"start"}) /\ At(j, {"retire", "start"}) => j <= i

(* Nobody has decided about an offer whose event waits or is dispatched.   *)
WaitingOpen ==
    Usable => \A o \in Offers :
        /\ Waits(o) => /\ o \notin settled
                       /\ \A i \in 1 .. Len(toWorker) :
                             At(i, Moves) => toWorker[i].offer # o
        /\ dispatching = o => hostOffer[o] = "open"
        /\ (\E i \in 1 .. Len(toHost) : toHost[i] = o) => hostOffer[o] = "absent"

(* A lease survives the commands before position k.                        *)
SafeBefore(l, k) ==
    /\ l[2] \in live[l[1]] /\ l \in leases
    /\ \A i \in 1 .. k - 1 :
          /\ At(i, Moves) /\ toWorker[i].offer = l[1] =>
                IF toWorker[i].do = "release" THEN l[2] \notin toWorker[i].slots
                ELSE l[1] \in settled \/ l[2] \in toWorker[i].slots
          /\ At(i, {"retire"}) => SettledBefore(l[1], i)

(* What the store keeps survives every command on the way, is among the    *)
(* leases the next settlement names, or was named by one.                  *)
HeldSafe ==
    Usable => \A l \in held :
        /\ SafeBefore(l, Len(toWorker) + 1)
        /\ l[2] \in hostLeases[l[1]] \/ (raised /\ l[1] = dispatching)
        /\ l[1] = dispatching \/ SettledBefore(l[1], Len(toWorker) + 1)

(* What a run reads survives until the run is served, unless it was given  *)
(* up before the run was written.                                          *)
ReadsSafe ==
    Usable => \A i \in 1 .. Len(toWorker) : At(i, {"start"}) =>
        \A l \in toWorker[i].reads \ withdrawn :
            SafeBefore(l, i) /\ SettledBefore(l[1], i)

(* Until then what it is to read is kept or known to be given up.          *)
ReadsHeld == dispatch = "accepted" => reads \subseteq held \cup withdrawn

Books == OffersStaged /\ Untouched /\ SettlementSent /\ ReleaseAfterSettle
Ways  == OneRun /\ WaitingOpen /\ HeldSafe /\ ReadsSafe
IInv  == TypeOK /\ ReadsHeld /\ Books /\ Ways

---------------------------------------------------------------------------
(* The command queue.                                                      *)

LEMMA CommandKinds ==
    ASSUME NEW c \in Commands
    PROVE  /\ c.do \in {"settle", "release", "retire", "start"}
           /\ c.do \in Moves => c.offer \in Offers /\ c.slots \subseteq Slots
           /\ c.do = "start" => c.reads \subseteq Leases
BY DEF Commands, Moves, Retirement

LEMMA QueueElements ==
    ASSUME TypeOK
    PROVE  /\ toWorker \in Seq(Commands) /\ Len(toWorker) \in Nat
           /\ \A i \in 1 .. Len(toWorker) : toWorker[i] \in Commands
BY ElementOfSeq, LenProperties DEF TypeOK, Commands

(* Serving the first command moves the others up by one position.          *)
LEMMA Served ==
    ASSUME TypeOK, toWorker # <<>>, toWorker' = Tail(toWorker)
    PROVE  /\ Len(toWorker) \in Nat \ {0} /\ Len(toWorker') = Len(toWorker) - 1
           /\ Head(toWorker) = toWorker[1]
           /\ \A i \in 1 .. Len(toWorker') : toWorker'[i] = toWorker[i + 1]
BY QueueElements, TailOf

LEMMA ServedSettled ==
    ASSUME TypeOK, toWorker # <<>>, toWorker' = Tail(toWorker),
           settled \subseteq settled',
           Head(toWorker).do = "settle" => Head(toWorker).offer \in settled',
           NEW o, NEW k \in Nat, SettledBefore(o, k + 1)
    PROVE  SettledBefore(o, k)'
<1>1. CASE o \in settled
  BY <1>1 DEF SettledBefore
<1>2. ASSUME NEW i \in 1 .. k, At(i, {"settle"}), toWorker[i].offer = o
      PROVE  SettledBefore(o, k)'
  <2>1. CASE i = 1
    BY <1>2, <2>1, Served DEF SettledBefore, At
  <2>2. CASE i # 1
    <3>1. i - 1 \in 1 .. k - 1 /\ i - 1 \in 1 .. Len(toWorker')
          /\ toWorker'[i - 1] = toWorker[i]
      BY <1>2, <2>2, Served DEF At
    <3> QED BY <1>2, <3>1 DEF SettledBefore, At
  <2> QED BY <2>1, <2>2
<1>3. o \in settled \/ \E i \in 1 .. k : At(i, {"settle"}) /\ toWorker[i].offer = o
  <2>1. (k + 1) - 1 = k
    OBVIOUS
  <2> QED BY <2>1, Zenon DEF SettledBefore
<1> QED BY <1>1, <1>2, <1>3, Zenon

LEMMA ServedSafe ==
    ASSUME TypeOK, toWorker # <<>>, toWorker' = Tail(toWorker),
           settled \subseteq settled',
           Head(toWorker).do = "settle" => Head(toWorker).offer \in settled',
           NEW l, NEW k \in Nat, SafeBefore(l, k + 1),
           l[2] \in live'[l[1]], l \in leases'
    PROVE  SafeBefore(l, k)'
<1> SUFFICES ASSUME NEW i \in 1 .. k - 1
             PROVE  /\ (At(i, Moves) /\ toWorker[i].offer = l[1])' =>
                          IF toWorker'[i].do = "release" THEN l[2] \notin toWorker'[i].slots
                          ELSE l[1] \in settled' \/ l[2] \in toWorker'[i].slots
                    /\ At(i, {"retire"})' => SettledBefore(l[1], i)'
  BY DEF SafeBefore
<1>1. i + 1 \in 1 .. (k + 1) - 1
  OBVIOUS
<1>2. ASSUME i \in 1 .. Len(toWorker')
      PROVE  toWorker'[i] = toWorker[i + 1] /\ i + 1 \in 1 .. Len(toWorker)
  BY <1>2, Served
<1>3. At(i, {"retire"})' => SettledBefore(l[1], i)'
  <2>1. ASSUME At(i, {"retire"})' PROVE SettledBefore(l[1], i + 1)
    BY <1>1, <1>2, <2>1 DEF SafeBefore, At
  <2> QED BY <2>1, ServedSettled
<1> QED BY <1>1, <1>2, <1>3 DEF SafeBefore, At

(* Writing a command leaves the ones before it where they are.             *)
LEMMA WrittenSettled ==
    ASSUME TypeOK, Len(toWorker') >= Len(toWorker), Len(toWorker') \in Nat,
           \A i \in 1 .. Len(toWorker) : toWorker'[i] = toWorker[i],
           settled \subseteq settled',
           NEW o, NEW k \in Nat, SettledBefore(o, k)
    PROVE  SettledBefore(o, k)'
BY QueueElements DEF SettledBefore, At

LEMMA WrittenSafe ==
    ASSUME TypeOK, Len(toWorker') >= Len(toWorker), Len(toWorker') \in Nat,
           \A i \in 1 .. Len(toWorker) : toWorker'[i] = toWorker[i],
           settled' = settled, live' = live, leases' = leases,
           NEW l, NEW k \in 1 .. Len(toWorker) + 1, SafeBefore(l, k)
    PROVE  SafeBefore(l, k)'
<1> SUFFICES ASSUME NEW i \in 1 .. k - 1
             PROVE  /\ (At(i, Moves) /\ toWorker[i].offer = l[1])' =>
                          IF toWorker'[i].do = "release" THEN l[2] \notin toWorker'[i].slots
                          ELSE l[1] \in settled' \/ l[2] \in toWorker'[i].slots
                    /\ At(i, {"retire"})' => SettledBefore(l[1], i)'
  BY DEF SafeBefore
<1>1. i \in 1 .. Len(toWorker) /\ toWorker'[i] = toWorker[i]
  BY QueueElements
<1>2. At(i, {"retire"})' => SettledBefore(l[1], i)'
  <2>1. ASSUME At(i, {"retire"})' PROVE SettledBefore(l[1], i)
    BY <1>1, <2>1 DEF SafeBefore, At
  <2> QED BY <2>1, WrittenSettled
<1> QED BY <1>1, <1>2 DEF SafeBefore, At

(* One more command before position k.                                     *)
LEMMA SafeBeyond ==
    ASSUME NEW l, NEW k \in Nat \ {0}, SafeBefore(l, k),
           At(k, Moves) /\ toWorker[k].offer = l[1] =>
                IF toWorker[k].do = "release" THEN l[2] \notin toWorker[k].slots
                ELSE l[1] \in settled \/ l[2] \in toWorker[k].slots,
           At(k, {"retire"}) => SettledBefore(l[1], k)
    PROVE  SafeBefore(l, k + 1)
<1> DEFINE Spared(i) ==
        /\ At(i, Moves) /\ toWorker[i].offer = l[1] =>
              IF toWorker[i].do = "release" THEN l[2] \notin toWorker[i].slots
              ELSE l[1] \in settled \/ l[2] \in toWorker[i].slots
        /\ At(i, {"retire"}) => SettledBefore(l[1], i)
<1>1. Spared(k) /\ \A i \in 1 .. k - 1 : Spared(i)
  BY DEF SafeBefore
<1>2. \A i \in 1 .. (k + 1) - 1 : i = k \/ i \in 1 .. k - 1
  OBVIOUS
<1>3. \A i \in 1 .. (k + 1) - 1 : Spared(i)
  <2> HIDE DEF Spared
  <2> QED BY <1>1, <1>2
<1> QED BY <1>3 DEF SafeBefore

---------------------------------------------------------------------------
(* The steps.                                                              *)

LEMMA StartsTrue == Init => Books /\ Ways
<1> SUFFICES ASSUME Init PROVE Books /\ Ways
  OBVIOUS
<1> USE ResourceAssumption DEF Init, Empty
<1>1. Len(toWorker) = 0 /\ Len(toHost) = 0
  OBVIOUS
<1>2. OffersStaged
  BY <1>1 DEF OffersStaged
<1>3. Untouched /\ SettlementSent /\ ReleaseAfterSettle
  BY <1>1 DEF Untouched, SettlementSent, ReleaseAfterSettle
<1>4. OneRun /\ WaitingOpen /\ HeldSafe /\ ReadsSafe
  BY <1>1 DEF OneRun, WaitingOpen, HeldSafe, ReadsSafe, Waits
<1> QED BY <1>2, <1>3, <1>4 DEF Books, Ways

(* What the books are about, and what the ways are about besides.          *)
bookVars == <<offered, generation, settled, live, leases, hostOffer,
              dispatching, toHost, toWorker>>
wayVars  == <<bookVars, hostRun, workerRun, held, hostLeases, raised,
              dispatch, withdrawn>>

LEMMA BooksKept ==
    ASSUME TypeOK, Books, UNCHANGED bookVars, Trusted' => Trusted
    PROVE  Books'
<1> USE DEF bookVars, Books
<1>1. OffersStaged'
  BY DEF OffersStaged, At
<1>2. Untouched' /\ SettlementSent'
  BY DEF Untouched, SettlementSent, SettledBefore, At
<1>3. ReleaseAfterSettle'
  BY DEF ReleaseAfterSettle, Trusted
<1> QED BY <1>1, <1>2, <1>3

LEMMA WaysKept ==
    ASSUME TypeOK, Ways, UNCHANGED wayVars, Usable' => Usable
    PROVE  Ways'
<1> USE DEF wayVars, bookVars, Ways
<1>1. OneRun'
  BY DEF OneRun, At
<1>2. WaitingOpen'
  BY DEF WaitingOpen, Waits, At
<1>3. HeldSafe'
  BY DEF HeldSafe, SafeBefore, SettledBefore, At
<1>4. ReadsSafe'
  BY DEF ReadsSafe, SafeBefore, SettledBefore, At
<1> QED BY <1>1, <1>2, <1>3, <1>4

LEMMA WaysOver == ASSUME ~Usable' PROVE Ways'
BY DEF Ways, OneRun, WaitingOpen, HeldSafe, ReadsSafe

LEMMA EndingsPreserve ==
    ASSUME IInv, Die \/ RetireBroken \/ RetireGeneration \/ Abort \/ UNCHANGED vars
    PROVE  Books' /\ Ways'
<1> USE DEF IInv, workerVars, hostVars, clientVars, runVars
<1>1. CASE Die \/ RetireBroken
  <2>1. UNCHANGED bookVars /\ (Trusted' => Trusted) /\ ~Usable'
    BY <1>1 DEF Die, RetireBroken, bookVars, Trusted, Usable
  <2> QED BY <2>1, BooksKept, WaysOver
<1>2. CASE RetireGeneration
  <2>1. UNCHANGED bookVars /\ ~Trusted' /\ ~Usable'
    BY <1>2 DEF RetireGeneration, bookVars, Trusted, Usable
  <2> QED BY <2>1, BooksKept, WaysOver
<1>3. CASE Abort
  <2>1. ~Trusted' /\ ~Usable'
    BY <1>3 DEF Abort, Trusted, Usable
  <2>2. OffersStaged'
    BY <1>3 DEF Abort, Dropped, Books, OffersStaged, At, TypeOK
  <2>3. Untouched' /\ SettlementSent' /\ ReleaseAfterSettle'
    BY <2>1 DEF Untouched, SettlementSent, ReleaseAfterSettle, Trusted
  <2> QED BY <2>1, <2>2, <2>3, WaysOver DEF Books
<1>4. CASE UNCHANGED vars
  BY <1>4, BooksKept, WaysKept DEF vars, bookVars, wayVars, Trusted, Usable
<1> QED BY <1>1, <1>2, <1>3, <1>4

LEMMA RespawnPreserves ==
    ASSUME IInv, Respawn
    PROVE  Books' /\ Ways'
<1> USE DEF IInv, workerVars, hostVars, clientVars, runVars, Respawn, Empty
<1>1. Len(toWorker') = 0 /\ Len(toHost') = 0
  OBVIOUS
<1>2. \A o \in Offers : offered'[o] <= generation /\ offered'[o] # generation'
                        /\ generation' = generation + 1 /\ offered'[o] \in Nat
                        /\ generation \in Nat
  BY DEF TypeOK, Books, OffersStaged
<1>3. OffersStaged'
  BY <1>1, <1>2 DEF OffersStaged, At
<1>4. Untouched' /\ SettlementSent' /\ ReleaseAfterSettle'
  BY <1>1, <1>2 DEF Untouched, SettlementSent, ReleaseAfterSettle
<1>5. OneRun' /\ ReadsSafe' /\ HeldSafe'
  BY <1>1 DEF OneRun, ReadsSafe, HeldSafe, At
<1>6. WaitingOpen'
  BY <1>1, ResourceAssumption DEF WaitingOpen, Waits, At
<1> QED BY <1>3, <1>4, <1>5, <1>6 DEF Books, Ways

LEMMA CallbackRaisesPreserves ==
    ASSUME IInv, CallbackRaises
    PROVE  Books' /\ Ways'
<1> USE DEF IInv, workerVars, hostVars, clientVars, runVars, CallbackRaises
<1>1. UNCHANGED bookVars /\ Trusted' = Trusted /\ Usable' = Usable
  BY DEF bookVars, Trusted, Usable
<1>2. Books'
  BY <1>1, BooksKept
<1>3. OneRun' /\ WaitingOpen'
  BY <1>1 DEF Ways, OneRun, WaitingOpen, Waits, At, bookVars
<1>4. ReadsSafe'
  BY <1>1 DEF Ways, ReadsSafe, SafeBefore, SettledBefore, At, bookVars
<1>5. HeldSafe'
  <2> SUFFICES ASSUME Usable', NEW l \in held
               PROVE  /\ SafeBefore(l, Len(toWorker) + 1)'
                      /\ l[2] \in hostLeases'[l[1]] \/ (raised' /\ l[1] = dispatching')
                      /\ l[1] = dispatching' \/ SettledBefore(l[1], Len(toWorker) + 1)'
    BY DEF HeldSafe
  <2>1. l[1] \in Offers
    BY ResourceAssumption DEF TypeOK
  <2>2. /\ SafeBefore(l, Len(toWorker) + 1)
        /\ l[2] \in hostLeases[l[1]] \/ (raised /\ l[1] = dispatching)
        /\ l[1] = dispatching \/ SettledBefore(l[1], Len(toWorker) + 1)
    BY <1>1 DEF Ways, HeldSafe
  <2>3. l[2] \in hostLeases'[l[1]] \/ (raised' /\ l[1] = dispatching')
    BY <2>1, <2>2 DEF TypeOK
  <2> QED BY <1>1, <2>2, <2>3 DEF SafeBefore, SettledBefore, At, bookVars
<1> QED BY <1>2, <1>3, <1>4, <1>5 DEF Ways

(* Two leases of one offer, or of two.                                     *)
LEMMA LeaseParts ==
    ASSUME NEW l \in Leases
    PROVE  l[1] \in Offers /\ l[2] \in SlotsOf(l[1]) /\ l = <<l[1], l[2]>>
BY ResourceAssumption DEF SlotsOf

LEMMA QueueKeepsSafe ==
    ASSUME UNCHANGED toWorker, settled \subseteq settled',
           NEW l, NEW k, SafeBefore(l, k), l[2] \in live'[l[1]], l \in leases'
    PROVE  SafeBefore(l, k)'
BY DEF SafeBefore, SettledBefore, At

LEMMA QueueKeepsSettled ==
    ASSUME UNCHANGED toWorker, settled \subseteq settled',
           NEW o, NEW k, SettledBefore(o, k)
    PROVE  SettledBefore(o, k)'
BY DEF SettledBefore, At

LEMMA StagePreserves ==
    ASSUME IInv, NEW o \in Offers, Stage(o)
    PROVE  Books' /\ Ways'
<1> USE DEF IInv, hostVars, clientVars, runVars
<1>1. /\ Trusted' = Trusted /\ Usable' = Usable
      /\ UNCHANGED <<generation, settled, hostOffer, dispatching, toWorker,
                     held, hostLeases, raised, hostRun, dispatch, withdrawn>>
      /\ workerRun /\ workerRun'
  BY DEF Stage, Trusted, Usable
<1>2. offered[o] # generation /\ offered' = [offered EXCEPT ![o] = generation]
      /\ generation \in Nat
  BY DEF Stage, Stamp, TypeOK
<1>3. /\ toHost \in Seq(Offers \cup {NoOffer}) /\ Len(toHost') = Len(toHost) + 1
      /\ toHost'[Len(toHost) + 1] = o /\ Len(toHost) \in Nat
      /\ \A i \in 1 .. Len(toHost) : toHost'[i] = toHost[i]
  BY AppendTo DEF Stage, TypeOK
<1>4. /\ o \notin settled /\ hostOffer[o] = "absent" /\ live[o] = {}
      /\ dispatching # o /\ \A i \in 1 .. Len(toHost) : toHost[i] # o
      /\ \A i \in 1 .. Len(toWorker) : At(i, Moves) => toWorker[i].offer # o
  BY <1>2, ResourceAssumption DEF Books, OffersStaged, TypeOK
<1>5. /\ live' = [live EXCEPT ![o] = SlotsOf(o)]
      /\ leases' = leases \cup Of(o, SlotsOf(o))
  BY DEF Stage
<1>6. OffersStaged'
  <2>1. \A p \in Offers : offered'[p] = IF p = o THEN generation ELSE offered[p]
    BY <1>2 DEF TypeOK
  <2>2. \A p \in Offers :
          /\ offered'[p] <= generation'
          /\ hostOffer'[p] # "absent" \/ p \in settled' \/ live'[p] # {}
                => offered'[p] = generation'
    BY <1>1, <1>2, <1>5, <2>1 DEF Books, OffersStaged, TypeOK
  <2>3. \A i \in 1 .. Len(toWorker') :
          At(i, Moves)' => offered'[toWorker'[i].offer] = generation'
    <3> SUFFICES ASSUME NEW i \in 1 .. Len(toWorker), At(i, Moves)
                 PROVE  offered'[toWorker[i].offer] = generation
      BY <1>1 DEF At
    <3>1. toWorker[i].offer \in Offers
      BY QueueElements, CommandKinds DEF At
    <3> QED BY <2>1, <3>1 DEF Books, OffersStaged
  <2>4. dispatching' # NoOffer => offered'[dispatching'] = generation'
    BY <1>1, <2>1 DEF Books, OffersStaged, TypeOK
  <2>5. \A i \in 1 .. Len(toHost') : toHost'[i] # NoOffer =>
          /\ offered'[toHost'[i]] = generation' /\ toHost'[i] # dispatching'
          /\ \A j \in 1 .. Len(toHost') : toHost'[i] = toHost'[j] => i = j
    <3> SUFFICES ASSUME NEW i \in 1 .. Len(toHost'), toHost'[i] # NoOffer
                 PROVE  /\ offered'[toHost'[i]] = generation' /\ toHost'[i] # dispatching'
                        /\ \A j \in 1 .. Len(toHost') : toHost'[i] = toHost'[j] => i = j
      OBVIOUS
    <3>1. \A j \in 1 .. Len(toHost') : j \in 1 .. Len(toHost) \/ j = Len(toHost) + 1
      BY <1>3
    <3>2. CASE i = Len(toHost) + 1
      BY <1>1, <1>3, <1>4, <2>1, <3>1, <3>2
    <3>3. CASE i \in 1 .. Len(toHost)
      <4>1. toHost[i] \in Offers /\ offered[toHost[i]] = generation
            /\ toHost[i] # dispatching /\ toHost'[i] = toHost[i]
        BY <1>3, <3>3, ElementOfSeq DEF Books, OffersStaged
      <4>2. \A j \in 1 .. Len(toHost) : toHost[i] = toHost[j] => i = j
        BY <1>3, <3>3 DEF Books, OffersStaged
      <4> QED BY <1>1, <1>3, <1>4, <2>1, <3>1, <3>3, <4>1, <4>2
    <3> QED BY <3>1, <3>2, <3>3
  <2> QED BY <2>2, <2>3, <2>4, <2>5 DEF OffersStaged
<1>7. Untouched'
  BY <1>1, <1>2, <1>5 DEF Books, Untouched, TypeOK
<1>8. SettlementSent' /\ ReleaseAfterSettle'
  BY <1>1 DEF Books, SettlementSent, SettledBefore, At, ReleaseAfterSettle, Trusted
<1>9. OneRun'
  <2> SUFFICES ASSUME Usable' PROVE OneRun'
    BY DEF OneRun
  <2>1. /\ ~ \E i \in 1 .. Len(toWorker) : At(i, {"retire", "start"})
        /\ hostRun /\ dispatch = "idle"
        /\ \A i \in 1 .. Len(toHost) : toHost[i] # NoOffer
    BY <1>1 DEF Ways, OneRun
  <2>2. \A i \in 1 .. Len(toHost') : toHost'[i] # NoOffer
    BY <1>3, <2>1, ResourceAssumption
  <2>3. ~ \E i \in 1 .. Len(toWorker) : At(i, {"start"})
    BY <2>1 DEF At
  <2> QED BY <1>1, <2>1, <2>2, <2>3 DEF OneRun, At
<1>10. WaitingOpen'
  BY <1>1, <1>3, <1>4 DEF Ways, WaitingOpen, Waits, At
<1>11. ASSUME NEW l \in Leases, NEW k, SafeBefore(l, k) PROVE SafeBefore(l, k)'
  <2>1. l[2] \in live'[l[1]] /\ l \in leases'
    BY <1>5, <1>11, LeaseParts DEF SafeBefore, TypeOK
  <2> QED BY <1>1, <1>11, <2>1, QueueKeepsSafe
<1>12. HeldSafe'
  BY <1>1, <1>11, QueueKeepsSettled DEF Ways, HeldSafe, TypeOK
<1>13. ReadsSafe'
  <2> SUFFICES ASSUME Usable', NEW i \in 1 .. Len(toWorker), At(i, {"start"}),
                      NEW l \in toWorker[i].reads \ withdrawn
               PROVE  SafeBefore(l, i)' /\ SettledBefore(l[1], i)'
    BY <1>1 DEF ReadsSafe, At
  <2>1. l \in Leases
    BY QueueElements, CommandKinds DEF At
  <2> QED BY <1>1, <1>11, <2>1, QueueKeepsSettled DEF Ways, ReadsSafe
<1> QED BY <1>6, <1>7, <1>8, <1>9, <1>10, <1>12, <1>13 DEF Books, Ways

LEMMA EndRunPreserves ==
    ASSUME IInv, EndRun
    PROVE  Books' /\ Ways'
<1> USE DEF IInv, hostVars, clientVars, runVars
<1>1. /\ Trusted' = Trusted /\ Usable' = Usable
      /\ UNCHANGED <<generation, offered, settled, live, leases, hostOffer,
                     dispatching, toWorker, held, hostLeases, raised, hostRun, dispatch, withdrawn>>
      /\ workerRun /\ ~workerRun'
  BY DEF EndRun, Trusted, Usable
<1>2. /\ toHost \in Seq(Offers \cup {NoOffer}) /\ Len(toHost') = Len(toHost) + 1
      /\ toHost'[Len(toHost) + 1] = NoOffer /\ Len(toHost) \in Nat
      /\ \A i \in 1 .. Len(toHost) : toHost'[i] = toHost[i]
  BY AppendTo DEF EndRun, TypeOK
<1>3. \A i \in 1 .. Len(toHost') : i \in 1 .. Len(toHost) \/ i = Len(toHost) + 1
  BY <1>2
<1>4. OffersStaged'
  <2>1. \A i \in 1 .. Len(toHost') : toHost'[i] # NoOffer =>
          /\ offered'[toHost'[i]] = generation' /\ toHost'[i] # dispatching'
          /\ \A j \in 1 .. Len(toHost') : toHost'[i] = toHost'[j] => i = j
    BY <1>1, <1>2, <1>3 DEF Books, OffersStaged
  <2> QED BY <1>1, <2>1 DEF Books, OffersStaged, At
<1>5. Untouched' /\ SettlementSent' /\ ReleaseAfterSettle'
  BY <1>1 DEF Books, Untouched, SettlementSent, SettledBefore, At,
              ReleaseAfterSettle, Trusted
<1>6. OneRun'
  <2> SUFFICES ASSUME Usable' PROVE OneRun'
    BY DEF OneRun
  <2>1. /\ ~ \E i \in 1 .. Len(toWorker) : At(i, {"retire", "start"})
        /\ hostRun /\ dispatch = "idle"
        /\ \A i \in 1 .. Len(toHost) : toHost[i] # NoOffer
    BY <1>1 DEF Ways, OneRun
  <2>2. \A i \in 1 .. Len(toHost') : toHost'[i] = NoOffer => i = Len(toHost')
    BY <1>2, <1>3, <2>1
  <2>3. ~ \E i \in 1 .. Len(toWorker) : At(i, {"start"})
    BY <2>1 DEF At
  <2> QED BY <1>1, <2>1, <2>2, <2>3 DEF OneRun, At
<1>7. WaitingOpen'
  <2>1. \A o \in Offers : (\E i \in 1 .. Len(toHost') : toHost'[i] = o)
                            <=> \E i \in 1 .. Len(toHost) : toHost[i] = o
    BY <1>2, <1>3, ResourceAssumption
  <2> QED BY <1>1, <2>1 DEF Ways, WaitingOpen, Waits, At
<1>8. HeldSafe' /\ ReadsSafe'
  BY <1>1 DEF Ways, HeldSafe, ReadsSafe, SafeBefore, SettledBefore, At
<1> QED BY <1>4, <1>5, <1>6, <1>7, <1>8 DEF Books, Ways

(* The host writes commands.                                               *)

LEMMA SettledLater ==
    ASSUME NEW o, NEW k \in Nat, NEW m \in Nat, k <= m, SettledBefore(o, k)
    PROVE  SettledBefore(o, m)
<1>1. 1 .. k - 1 \subseteq 1 .. m - 1
  OBVIOUS
<1> QED BY <1>1 DEF SettledBefore

LEMMA ReleaseForm ==
    ASSUME Trusted, TypeOK
    PROVE  ReleaseAfterSettle <=>
               \A j \in 1 .. Len(toWorker) :
                   At(j, {"release"}) => SettledBefore(toWorker[j].offer, j)
<1>1. \A j \in 1 .. Len(toWorker) : \A i \in 1 .. j - 1 : i \in 1 .. Len(toWorker)
  BY QueueElements
<1> QED BY <1>1 DEF ReleaseAfterSettle, Trusted, SettledBefore, At

LEMMA BooksWritten ==
    ASSUME TypeOK, TypeOK', Books,
           Len(toWorker') >= Len(toWorker),
           \A i \in 1 .. Len(toWorker) : toWorker'[i] = toWorker[i],
           UNCHANGED <<offered, generation, settled, live, leases, toHost>>,
           Trusted' => Trusted, dispatching' \in {dispatching, NoOffer},
           \A o \in Offers :
              /\ hostOffer'[o] # "absent" => hostOffer[o] # "absent"
              /\ Trusted' /\ hostOffer'[o] = "settled" =>
                     hostOffer[o] = "settled" \/ SettledBefore(o, Len(toWorker) + 1)',
           \A i \in Len(toWorker) + 1 .. Len(toWorker') :
              /\ At(i, Moves)' => offered[toWorker'[i].offer] = generation
              /\ Trusted' /\ At(i, {"release"})' => SettledBefore(toWorker[i].offer, i)'
    PROVE  Books'
<1>1. Len(toWorker) \in Nat /\ Len(toWorker') \in Nat
  BY QueueElements, LenProperties DEF TypeOK
<1>2. \A i \in 1 .. Len(toWorker') :
          i \in 1 .. Len(toWorker) \/ i \in Len(toWorker) + 1 .. Len(toWorker')
  BY <1>1
<1>3. OffersStaged'
  <2>1. \A i \in 1 .. Len(toWorker') :
            At(i, Moves)' => offered'[toWorker'[i].offer] = generation'
    BY <1>1, <1>2 DEF Books, OffersStaged, At
  <2>2. \A i \in 1 .. Len(toHost) : toHost[i] # NoOffer => toHost[i] # dispatching'
    BY DEF Books, OffersStaged
  <2> QED BY <2>1, <2>2 DEF Books, OffersStaged
<1>4. Untouched'
  BY DEF Books, Untouched
<1>5. SettlementSent'
  <2> SUFFICES ASSUME Trusted', NEW o \in Offers, hostOffer'[o] = "settled"
               PROVE  SettledBefore(o, Len(toWorker) + 1)'
    BY DEF SettlementSent
  <2>1. CASE hostOffer[o] = "settled"
    <3>1. SettledBefore(o, Len(toWorker) + 1)
      BY <2>1 DEF Books, SettlementSent
    <3>2. SettledBefore(o, Len(toWorker') + 1)
      BY <1>1, <3>1, SettledLater
    <3> QED BY <1>1, <3>2, WrittenSettled DEF SettledBefore, At
  <2> QED BY <2>1
<1>6. ReleaseAfterSettle'
  <2>1. CASE ~Trusted'
    BY <2>1 DEF ReleaseAfterSettle, Trusted
  <2>2. CASE Trusted'
    <3>1. \A j \in 1 .. Len(toWorker) :
              At(j, {"release"}) => SettledBefore(toWorker[j].offer, j)
      BY <2>2, ReleaseForm DEF Books
    <3>2. ASSUME NEW j \in 1 .. Len(toWorker'), At(j, {"release"})'
          PROVE  SettledBefore(toWorker[j].offer, j)'
      <4>1. CASE j \in 1 .. Len(toWorker)
        <5> DEFINE o == toWorker[j].offer
        <5>1. SettledBefore(o, j) /\ toWorker'[j] = toWorker[j]
          BY <3>1, <3>2, <4>1 DEF At
        <5>2. PICK p : p = o
          OBVIOUS
        <5>3. SettledBefore(p, j)'
          BY <1>1, <5>1, <5>2, WrittenSettled
        <5> QED BY <5>1, <5>2, <5>3
      <4> QED BY <1>2, <2>2, <3>2, <4>1
    <3>3. \A j \in 1 .. Len(toWorker') : \A i \in 1 .. j - 1 : i \in 1 .. Len(toWorker')
      BY <1>1
    <3> QED BY <2>2, <3>2, <3>3 DEF ReleaseAfterSettle, SettledBefore, At
  <2> QED BY <2>1, <2>2
<1> QED BY <1>3, <1>4, <1>5, <1>6 DEF Books

LEMMA CloseWorkspacePreserves ==
    ASSUME IInv, TypeOK', CloseWorkspace
    PROVE  Books' /\ Ways'
<1> USE DEF IInv, workerVars, hostVars, clientVars, runVars, CloseWorkspace
<1>1. ~Usable' /\ (Trusted' => Trusted)
  BY DEF Usable, Trusted
<1>2. /\ toWorker \in Seq(Commands) /\ Retirement \in Commands
      /\ Len(toWorker) \in Nat /\ Len(toWorker') = Len(toWorker) + 1
      /\ \A i \in 1 .. Len(toWorker) : toWorker'[i] = toWorker[i]
      /\ toWorker'[Len(toWorker) + 1] = Retirement
  BY QueueElements, AppendTo DEF Commands
<1>3. \A i \in Len(toWorker) + 1 .. Len(toWorker') :
          ~At(i, Moves)' /\ ~At(i, {"release"})'
  BY <1>2 DEF At, Moves, Retirement
<1>4. Books'
  BY <1>1, <1>2, <1>3, BooksWritten
<1> QED BY <1>1, <1>4, WaysOver

LEMMA ClaimPreserves ==
    ASSUME IInv, NEW slot \in Slots, Claim(slot)
    PROVE  Books' /\ Ways'
<1> USE DEF IInv, workerVars, clientVars, runVars
<1>1. /\ UNCHANGED bookVars /\ Trusted' = Trusted /\ Usable' = Usable
      /\ UNCHANGED <<hostRun, workerRun, raised, dispatch, withdrawn>>
  BY DEF Claim, bookVars, Trusted, Usable
<1>2. Books'
  BY <1>1, BooksKept
<1>3. OneRun' /\ WaitingOpen'
  BY <1>1 DEF Ways, OneRun, WaitingOpen, Waits, At, bookVars
<1>4. ReadsSafe'
  BY <1>1 DEF Ways, ReadsSafe, SafeBefore, SettledBefore, At, bookVars
<1>5. HeldSafe'
  <2> SUFFICES ASSUME Usable, NEW l \in held'
               PROVE  /\ SafeBefore(l, Len(toWorker) + 1)
                      /\ l[2] \in hostLeases'[l[1]] \/ (raised /\ l[1] = dispatching)
                      /\ l[1] = dispatching \/ SettledBefore(l[1], Len(toWorker) + 1)
    BY <1>1 DEF HeldSafe, SafeBefore, SettledBefore, At, bookVars
  <2>1. dispatching \in Offers /\ slot \in SlotsOf(dispatching)
    BY DEF Claim, TypeOK
  <2>2. CASE l \in held
    <3>1. l[1] \in Offers
      BY <2>2, LeaseParts DEF TypeOK
    <3>2. hostLeases[l[1]] \subseteq hostLeases'[l[1]]
      BY <2>1, <3>1 DEF Claim, TypeOK
    <3> QED BY <2>2, <3>2 DEF Ways, HeldSafe
  <2>3. CASE l = <<dispatching, slot>>
    <3>1. /\ dispatching \notin settled /\ offered[dispatching] = generation
          /\ \A i \in 1 .. Len(toWorker) :
                At(i, Moves) => toWorker[i].offer # dispatching
      BY <2>1, ResourceAssumption DEF Ways, WaitingOpen, Waits, Books, OffersStaged
    <3>2. slot \in live[dispatching] /\ <<dispatching, slot>> \in leases
      BY <2>1, <3>1 DEF Books, Untouched, Of, Usable
    <3>3. \A i \in 1 .. Len(toWorker) : ~At(i, {"retire"})
      BY <2>1, ResourceAssumption DEF Ways, OneRun, At
    <3>4. 1 .. (Len(toWorker) + 1) - 1 = 1 .. Len(toWorker)
      BY QueueElements
    <3>5. SafeBefore(l, Len(toWorker) + 1)
      BY <2>3, <3>1, <3>2, <3>3, <3>4 DEF SafeBefore
    <3>6. slot \in hostLeases'[dispatching]
      BY <2>1 DEF Claim, TypeOK
    <3> QED BY <2>3, <3>5, <3>6
  <2> QED BY <2>2, <2>3 DEF Claim
<1> QED BY <1>2, <1>3, <1>4, <1>5 DEF Ways

LEMMA TakeEventPreserves ==
    ASSUME IInv, TakeEvent
    PROVE  Books' /\ Ways'
<1> USE DEF IInv, workerVars, runVars
<1> DEFINE o == Head(toHost)
<1>1. /\ Trusted' = Trusted /\ Usable' = Usable /\ dispatching = NoOffer
      /\ UNCHANGED <<generation, offered, settled, live, leases, toWorker,
                     held, hostLeases, raised, workerRun, accepted, dispatch,
                     withdrawn>>
  BY DEF TakeEvent, Trusted, Usable
<1>2. /\ toHost \in Seq(Offers \cup {NoOffer}) /\ o \in Offers \cup {NoOffer}
      /\ o = toHost[1] /\ Len(toHost) \in Nat \ {0}
      /\ Len(toHost') = Len(toHost) - 1
      /\ \A i \in 1 .. Len(toHost') : toHost'[i] = toHost[i + 1]
      /\ \A i \in 1 .. Len(toHost') : i + 1 \in 1 .. Len(toHost) /\ i + 1 # 1
      /\ 1 \in 1 .. Len(toHost)
  BY TailOf DEF TakeEvent, TypeOK
<1> HIDE DEF o
<1>3. dispatching' \in {o, NoOffer} /\ (accepted /\ o # NoOffer => dispatching' = o)
  BY <1>1, <1>2 DEF TakeEvent, o
<1>4. hostOffer' = IF accepted /\ o # NoOffer
                   THEN [hostOffer EXCEPT ![o] = "open"] ELSE hostOffer
  BY DEF TakeEvent, o
<1>5. o # NoOffer => offered[o] = generation
                     /\ \A i \in 1 .. Len(toHost) : toHost[i] = o => i = 1
  BY <1>2 DEF Books, OffersStaged
<1>6. OffersStaged'
  <2>1. \A i \in 1 .. Len(toHost') : toHost'[i] # NoOffer =>
            offered[toHost'[i]] = generation /\ toHost'[i] # dispatching'
    BY <1>2, <1>3, <1>5 DEF Books, OffersStaged
  <2>2. \A i, j \in 1 .. Len(toHost') :
            toHost'[i] # NoOffer /\ toHost'[i] = toHost'[j] => i = j
    <3> SUFFICES ASSUME NEW i \in 1 .. Len(toHost'), NEW j \in 1 .. Len(toHost'),
                        toHost'[i] # NoOffer, toHost'[i] = toHost'[j]
                 PROVE  i = j
      OBVIOUS
    <3>1. i + 1 = j + 1
      BY <1>2 DEF Books, OffersStaged
    <3> QED BY <3>1
  <2>3. \A p \in Offers : hostOffer'[p] # "absent" =>
            hostOffer[p] # "absent" \/ offered[p] = generation
    BY <1>4, <1>5 DEF TypeOK
  <2>4. \A p \in Offers :
          /\ offered'[p] <= generation'
          /\ hostOffer'[p] # "absent" \/ p \in settled' \/ live'[p] # {}
                => offered'[p] = generation'
    BY <1>1, <2>3 DEF Books, OffersStaged
  <2>5. dispatching' # NoOffer => offered[dispatching'] = generation
    BY <1>3, <1>5
  <2> QED BY <1>1, <2>1, <2>2, <2>4, <2>5 DEF Books, OffersStaged, At
<1>7. Untouched' /\ ReleaseAfterSettle'
  BY <1>1 DEF Books, Untouched, ReleaseAfterSettle, Trusted, TakeEvent
<1>8. SettlementSent'
  <2>1. \A p \in Offers : hostOffer'[p] = "settled" => hostOffer[p] = "settled"
    BY <1>4 DEF TypeOK
  <2> QED BY <1>1, <2>1 DEF Books, SettlementSent, SettledBefore, At
<1>9. Books'
  BY <1>6, <1>7, <1>8 DEF Books
<1>10. CASE ~Usable
  BY <1>1, <1>9, <1>10, WaysOver
<1>11. CASE Usable
  <2>1. OneRun'
    <3>1. /\ ~ (\E i \in 1 .. Len(toWorker) : At(i, {"retire", "start"}))
          /\ hostRun /\ dispatch = "idle"
      BY <1>2, <1>11 DEF Ways, OneRun
    <3>2. ~ \E i \in 1 .. Len(toWorker) : At(i, {"start"})
      BY <3>1 DEF At
    <3>3. CASE o = NoOffer
      <4>1. 1 = Len(toHost) /\ ~workerRun
        <5>1. 1 \in 1 .. Len(toHost) /\ toHost[1] = NoOffer
          BY <1>2, <3>3
        <5>2. \A i \in 1 .. Len(toHost) :
                  toHost[i] = NoOffer => i = Len(toHost) /\ ~workerRun
          BY <1>11 DEF Ways, OneRun
        <5> QED BY <5>1, <5>2
      <4>2. Len(toHost) = 1 /\ ~workerRun /\ Len(toHost') = 0
        <5>1. Len(toHost') = Len(toHost) - 1
          BY <1>2
        <5> QED BY <4>1, <5>1
      <4>3. toHost' = <<>> /\ dispatching' = NoOffer
        BY <1>1, <1>2, <3>3, <4>2, TailOf, EmptySeq DEF TakeEvent, o
      <4> QED BY <1>1, <3>1, <3>2, <4>2, <4>3 DEF OneRun, At
    <3>4. CASE o # NoOffer
      <4>1. hostRun'
        BY <1>11, <3>1, <3>4 DEF TakeEvent, o, Usable, Trusted
      <4>2. \A i \in 1 .. Len(toHost') :
                toHost'[i] = NoOffer => i = Len(toHost') /\ ~workerRun
        BY <1>2, <1>11 DEF Ways, OneRun
      <4> QED BY <1>1, <3>1, <3>2, <4>1, <4>2 DEF OneRun, At
    <3> QED BY <3>3, <3>4
  <2>2. WaitingOpen'
    <3> SUFFICES ASSUME NEW p \in Offers
                 PROVE  /\ Waits(p)' => Waits(p)
                        /\ dispatching' = p => hostOffer'[p] = "open"
                        /\ (\E i \in 1 .. Len(toHost') : toHost'[i] = p) =>
                              hostOffer'[p] = "absent"
      BY <1>1, <1>11 DEF Ways, WaitingOpen, At
    <3>1. (\E i \in 1 .. Len(toHost') : toHost'[i] = p) =>
              p # o /\ \E i \in 1 .. Len(toHost) : toHost[i] = p
      BY <1>2, <1>5, ResourceAssumption
    <3>2. Waits(p)' => Waits(p)
      BY <1>2, <1>3, <3>1, ResourceAssumption DEF Waits
    <3>3. dispatching' = p => hostOffer'[p] = "open"
      BY <1>3, <1>4, <1>11, ResourceAssumption DEF TypeOK, Usable, Trusted
    <3>4. p # o => hostOffer'[p] = hostOffer[p]
      BY <1>4 DEF TypeOK
    <3> QED BY <1>11, <3>1, <3>2, <3>3, <3>4 DEF Ways, WaitingOpen
  <2>3. ReadsSafe'
    BY <1>1 DEF Ways, ReadsSafe, SafeBefore, SettledBefore, At
  <2>4. HeldSafe'
    <3> SUFFICES ASSUME NEW l \in held
                 PROVE  /\ SafeBefore(l, Len(toWorker) + 1)
                        /\ l[2] \in hostLeases[l[1]]
                        /\ SettledBefore(l[1], Len(toWorker) + 1)
      BY <1>1 DEF HeldSafe, SafeBefore, SettledBefore, At
    <3>1. l[1] # NoOffer
      BY LeaseParts, ResourceAssumption DEF TypeOK
    <3> QED BY <1>1, <1>11, <3>1 DEF Ways, HeldSafe
  <2> QED BY <1>9, <2>1, <2>2, <2>3, <2>4 DEF Ways
<1> QED BY <1>10, <1>11

(* One more command at the end of the queue.                               *)
LEMMA Appended ==
    ASSUME TypeOK, NEW c \in Commands, toWorker' = Append(toWorker, c)
    PROVE  /\ Len(toWorker) \in Nat /\ Len(toWorker') = Len(toWorker) + 1
           /\ \A i \in 1 .. Len(toWorker) : toWorker'[i] = toWorker[i]
           /\ toWorker'[Len(toWorker) + 1] = c
           /\ 1 .. (Len(toWorker') + 1) - 1 = 1 .. Len(toWorker')
           /\ \A i \in 1 .. Len(toWorker') :
                  i \in 1 .. Len(toWorker) \/ i = Len(toWorker) + 1
           /\ Len(toWorker) + 1 .. Len(toWorker') = {Len(toWorker) + 1}
BY QueueElements, AppendTo

LEMMA AppendedSettled ==
    ASSUME TypeOK, NEW c \in Commands, toWorker' = Append(toWorker, c),
           settled' = settled, NEW o,
           \/ c.do = "settle" /\ c.offer = o
           \/ SettledBefore(o, Len(toWorker) + 1)
    PROVE  SettledBefore(o, Len(toWorker) + 1)'
<1>1. CASE c.do = "settle" /\ c.offer = o
  <2>1. PICK k : k = Len(toWorker) + 1
    OBVIOUS
  <2>2. k \in 1 .. Len(toWorker') /\ toWorker'[k] = c
    BY <2>1, Appended
  <2>3. k \in 1 .. (Len(toWorker') + 1) - 1
    BY <2>2, Appended
  <2> QED BY <1>1, <2>2, <2>3 DEF SettledBefore, At
<1>2. CASE SettledBefore(o, Len(toWorker) + 1)
  <2>1. \A i \in 1 .. (Len(toWorker) + 1) - 1 :
            i \in 1 .. (Len(toWorker') + 1) - 1 /\ i \in 1 .. Len(toWorker)
    BY Appended
  <2> QED BY <1>2, <2>1, Appended DEF SettledBefore, At
<1> QED BY <1>1, <1>2

LEMMA AppendedSafe ==
    ASSUME TypeOK, NEW c \in Commands, toWorker' = Append(toWorker, c),
           c.do \in Moves, settled' = settled, live' = live, leases' = leases,
           NEW l, SafeBefore(l, Len(toWorker) + 1),
           c.offer = l[1] => IF c.do = "release" THEN l[2] \notin c.slots
                             ELSE l[1] \in settled \/ l[2] \in c.slots
    PROVE  SafeBefore(l, Len(toWorker) + 1)'
<1> SUFFICES ASSUME NEW i \in 1 .. Len(toWorker')
             PROVE  /\ (At(i, Moves) /\ toWorker[i].offer = l[1])' =>
                          IF toWorker'[i].do = "release" THEN l[2] \notin toWorker'[i].slots
                          ELSE l[1] \in settled' \/ l[2] \in toWorker'[i].slots
                    /\ At(i, {"retire"})' => SettledBefore(l[1], i)'
  BY Appended DEF SafeBefore
<1>1. CASE i = Len(toWorker) + 1
  BY <1>1, Appended DEF At, Moves
<1>2. CASE i \in 1 .. Len(toWorker)
  <2>1. /\ At(i, Moves) /\ toWorker[i].offer = l[1] =>
              IF toWorker[i].do = "release" THEN l[2] \notin toWorker[i].slots
              ELSE l[1] \in settled \/ l[2] \in toWorker[i].slots
        /\ At(i, {"retire"}) => SettledBefore(l[1], i)
    BY <1>2, Appended DEF SafeBefore
  <2>2. At(i, {"retire"})' => SettledBefore(l[1], i)'
    BY <1>2, <2>1, Appended, WrittenSettled DEF At
  <2> QED BY <1>2, <2>1, <2>2, Appended DEF At
<1> QED BY <1>1, <1>2, Appended

LEMMA ReadsWritten ==
    ASSUME TypeOK, ReadsSafe, Usable' => Usable, withdrawn \subseteq withdrawn',
           Len(toWorker') >= Len(toWorker), Len(toWorker') \in Nat,
           \A i \in 1 .. Len(toWorker) : toWorker'[i] = toWorker[i],
           settled' = settled, live' = live, leases' = leases,
           \A i \in 1 .. Len(toWorker') :
               At(i, {"start"})' => i \in 1 .. Len(toWorker)
    PROVE  ReadsSafe'
<1> SUFFICES ASSUME Usable', NEW i \in 1 .. Len(toWorker), At(i, {"start"}),
                    NEW l \in toWorker[i].reads \ withdrawn
             PROVE  SafeBefore(l, i)' /\ SettledBefore(l[1], i)'
  BY DEF ReadsSafe, At
<1>1. SafeBefore(l, i) /\ SettledBefore(l[1], i)
  BY DEF ReadsSafe
<1>2. i \in Nat /\ i \in 1 .. Len(toWorker) + 1
  BY QueueElements
<1> QED BY <1>1, <1>2, WrittenSafe, WrittenSettled

LEMMA SettlePreserves ==
    ASSUME IInv, TypeOK', Settle
    PROVE  Books' /\ Ways'
<1> USE DEF IInv, workerVars, runVars
<1> DEFINE c == Command("settle", dispatching, Kept(dispatching))
<1>1. /\ UNCHANGED <<generation, offered, settled, live, leases, toHost, held,
                     hostLeases, hostRun, workerRun, accepted, dispatch,
                     withdrawn>>
      /\ dispatching \in Offers /\ dispatching' = NoOffer
      /\ offered[dispatching] = generation
  BY DEF Settle, TypeOK, Books, OffersStaged
<1>2. /\ c \in Commands /\ c.do = "settle" /\ c.offer = dispatching
      /\ c.slots = hostLeases[dispatching] /\ c.do \in Moves
  BY <1>1 DEF Command, Commands, Kept, TypeOK, Moves
<1> HIDE DEF c
<1>3. /\ Trusted' => Trusted /\ ~raised
      /\ Usable' => Usable /\ ~raised
  BY DEF Settle, Send, Trusted, Usable, TypeOK
<1>4. CASE hostOffer[dispatching] = "open"
  <2>1. /\ toWorker' \in {toWorker, Append(toWorker, c)}
        /\ Trusted' => toWorker' = Append(toWorker, c)
    BY <1>4 DEF Settle, Send, Trusted, c
  <2>2. \A o \in Offers : o # dispatching => hostOffer'[o] = hostOffer[o]
    BY <1>4 DEF Settle, TypeOK
  <2>3. Books'
    <3>1. \A o \in Offers :
              /\ hostOffer'[o] # "absent" => hostOffer[o] # "absent"
              /\ Trusted' /\ hostOffer'[o] = "settled" =>
                     hostOffer[o] = "settled" \/ SettledBefore(o, Len(toWorker) + 1)'
      BY <1>1, <1>2, <1>4, <2>1, <2>2, AppendedSettled
    <3>2. CASE toWorker' = toWorker
      <4>1. Len(toWorker) \in Nat /\ Len(toWorker) + 1 .. Len(toWorker') = {}
        BY <3>2, QueueElements
      <4> QED BY <1>1, <1>3, <3>1, <3>2, <4>1, BooksWritten
    <3>3. CASE toWorker' = Append(toWorker, c)
      <4>1. \A i \in Len(toWorker) + 1 .. Len(toWorker') :
               /\ At(i, Moves)' => offered[toWorker'[i].offer] = generation
               /\ ~At(i, {"release"})'
        BY <1>1, <1>2, <3>3, Appended DEF At
      <4> QED BY <1>1, <1>2, <1>3, <3>1, <3>3, <4>1, Appended, BooksWritten
    <3> QED BY <2>1, <3>2, <3>3
  <2>4. CASE Usable'
    <3>1. toWorker' = Append(toWorker, c) /\ Usable /\ ~raised
      BY <1>3, <2>1, <2>4 DEF Usable
    <3>2. /\ hostRun /\ dispatch = "idle"
          /\ \A i \in 1 .. Len(toWorker) : ~At(i, {"retire", "start"})
      BY <1>1, <3>1, ResourceAssumption DEF Ways, OneRun
    <3>3. \A i \in 1 .. Len(toWorker') : ~At(i, {"retire", "start"})' /\ ~At(i, {"start"})'
      BY <1>2, <3>1, <3>2, Appended DEF At
    <3>4. OneRun'
      BY <1>1, <3>1, <3>2, <3>3 DEF Ways, OneRun
    <3>5. WaitingOpen'
      <4> SUFFICES ASSUME NEW o \in Offers, Waits(o)'
                   PROVE  /\ o \notin settled
                          /\ \A i \in 1 .. Len(toWorker') :
                                At(i, Moves)' => toWorker'[i].offer # o
                          /\ hostOffer'[o] = "absent"
        BY <1>1, ResourceAssumption DEF WaitingOpen, Waits
      <4>1. o # dispatching /\ \E i \in 1 .. Len(toHost) : toHost[i] = o
        BY <1>1, ResourceAssumption DEF Waits, Books, OffersStaged
      <4>2. /\ o \notin settled /\ hostOffer[o] = "absent"
            /\ \A i \in 1 .. Len(toWorker) : At(i, Moves) => toWorker[i].offer # o
        BY <3>1, <4>1 DEF Ways, WaitingOpen, Waits
      <4> QED BY <1>2, <2>2, <3>1, <4>1, <4>2, Appended DEF At
    <3>6. ReadsSafe'
      BY <1>1, <1>2, <1>3, <3>1, <3>3, Appended, ReadsWritten DEF Ways
    <3>7. HeldSafe'
      <4> SUFFICES ASSUME NEW l \in held
                   PROVE  /\ SafeBefore(l, Len(toWorker) + 1)'
                          /\ l[2] \in hostLeases[l[1]]
                          /\ SettledBefore(l[1], Len(toWorker) + 1)'
        BY <1>1 DEF HeldSafe
      <4>1. /\ SafeBefore(l, Len(toWorker) + 1)
            /\ l[2] \in hostLeases[l[1]]
            /\ l[1] = dispatching \/ SettledBefore(l[1], Len(toWorker) + 1)
        BY <3>1 DEF Ways, HeldSafe
      <4>2. SafeBefore(l, Len(toWorker) + 1)'
        BY <1>1, <1>2, <3>1, <4>1, AppendedSafe
      <4>3. PICK o : o = l[1]
        OBVIOUS
      <4>4. SettledBefore(o, Len(toWorker) + 1)'
        BY <1>1, <1>2, <3>1, <4>1, <4>3, AppendedSettled
      <4> QED BY <4>1, <4>2, <4>3, <4>4
    <3> QED BY <2>3, <3>4, <3>5, <3>6, <3>7 DEF Ways
  <2> QED BY <2>3, <2>4, WaysOver
<1>5. CASE hostOffer[dispatching] # "open"
  <2>1. UNCHANGED <<hostOffer, toWorker>>
    BY <1>5 DEF Settle
  <2>2. Len(toWorker) \in Nat /\ Len(toWorker) + 1 .. Len(toWorker') = {}
    BY <2>1, QueueElements
  <2>3. Books'
    BY <1>1, <1>3, <2>1, <2>2, BooksWritten
  <2>4. ~Usable'
    BY <1>1, <1>3, <1>5 DEF Ways, WaitingOpen
  <2> QED BY <2>3, <2>4, WaysOver
<1> QED BY <1>4, <1>5

LEMMA GiveUpPreserves ==
    ASSUME IInv, TypeOK', NEW o \in Offers, NEW slot \in Slots, GiveUp(o, slot)
    PROVE  Books' /\ Ways'
<1> USE DEF IInv, workerVars, runVars
<1> DEFINE c == Command("release", o, {slot})
<1>1. /\ UNCHANGED <<generation, offered, settled, live, leases, toHost,
                     dispatching, raised, hostRun, workerRun, accepted,
                     dispatch>>
      /\ withdrawn \subseteq withdrawn'
      /\ held' = held \ {<<o, slot>>} /\ held \subseteq Leases
  BY DEF GiveUp, TypeOK
<1>2. /\ c \in Commands /\ c.do = "release" /\ c.offer = o
      /\ c.slots = {slot} /\ c.do \in Moves
  BY DEF Command, Commands, Moves
<1> HIDE DEF c
<1>3. (Trusted' => Trusted) /\ (Usable' => Usable)
  BY DEF GiveUp, Send, Trusted, Usable, TypeOK
<1>4. \A l \in held' : /\ l \in held
                       /\ l[1] = o => l[2] # slot
                       /\ l[2] \in hostLeases[l[1]] => l[2] \in hostLeases'[l[1]]
  <2>1. ASSUME NEW l \in held'
        PROVE  l \in held /\ l[1] \in Offers /\ (l[1] = o => l[2] # slot)
    BY <1>1, LeaseParts
  <2>2. \A p \in Offers : \A s \in hostLeases[p] :
            s \in hostLeases'[p] \/ (p = o /\ s = slot)
    BY DEF GiveUp, TypeOK
  <2> QED BY <2>1, <2>2
<1>5. CASE hostOffer[o] = "settled" /\ slot \in hostLeases[o]
  <2>1. /\ toWorker' \in {toWorker, Append(toWorker, c)}
        /\ Trusted' => toWorker' = Append(toWorker, c)
    BY <1>5 DEF GiveUp, Transferred, Send, Trusted, c
  <2>2. \A p \in Offers : p # o => hostOffer'[p] = hostOffer[p]
    BY <1>5 DEF GiveUp, Transferred, TypeOK
  <2>3. offered[o] = generation
    BY <1>5 DEF Books, OffersStaged
  <2>4. Books'
    <3>1. \A p \in Offers :
              /\ hostOffer'[p] # "absent" => hostOffer[p] # "absent"
              /\ Trusted' /\ hostOffer'[p] = "settled" => hostOffer[p] = "settled"
      BY <1>5, <2>2
    <3>2. CASE toWorker' = toWorker
      <4>1. Len(toWorker) \in Nat /\ Len(toWorker) + 1 .. Len(toWorker') = {}
        BY <3>2, QueueElements
      <4> QED BY <1>1, <1>3, <3>1, <3>2, <4>1, BooksWritten
    <3>3. CASE toWorker' = Append(toWorker, c)
      <4>1. PICK k : k = Len(toWorker) + 1
        OBVIOUS
      <4>2. toWorker'[k] = c /\ Len(toWorker) + 1 .. Len(toWorker') = {k} /\ k \in Nat
        BY <1>2, <3>3, <4>1, Appended
      <4>3. At(k, Moves)' => offered[toWorker'[k].offer] = generation
        BY <1>2, <2>3, <4>2 DEF At
      <4>4. Trusted' => SettledBefore(o, k)'
        <5>1. Trusted' => SettledBefore(o, k)
          BY <1>3, <1>5, <4>1 DEF Books, SettlementSent
        <5> QED BY <1>1, <1>2, <3>3, <4>2, <5>1, Appended, WrittenSettled
      <4>5. Trusted' /\ At(k, {"release"})' => SettledBefore(toWorker[k].offer, k)'
        BY <1>2, <4>2, <4>4
      <4> QED BY <1>1, <1>2, <1>3, <3>1, <3>3, <4>2, <4>3, <4>5, Appended, BooksWritten
    <3> QED BY <2>1, <3>2, <3>3
  <2>5. CASE Usable'
    <3>1. toWorker' = Append(toWorker, c) /\ Usable
      BY <1>3, <2>1, <2>5 DEF Usable
    <3>2. /\ \A i \in 1 .. Len(toWorker') :
                 At(i, {"retire", "start"})' => At(i, {"retire", "start"})
          /\ \A i \in 1 .. Len(toWorker') : At(i, {"start"})' => At(i, {"start"})
      BY <1>2, <3>1, Appended DEF At
    <3>3. OneRun'
      <4>1. \A i \in 1 .. Len(toWorker') : At(i, {"retire", "start"})' => i \in 1 .. Len(toWorker)
        BY <3>2 DEF At
      <4> QED BY <1>1, <3>1, <3>2, <4>1 DEF Ways, OneRun, At
    <3>4. WaitingOpen'
      <4>1. ~Waits(o)
        BY <1>5, <3>1 DEF Ways, WaitingOpen, Waits
      <4>2. \A p \in Offers : Waits(p)' => Waits(p) /\ p # o
        BY <1>1, <4>1 DEF Waits
      <4>3. \A p \in Offers : Waits(p) =>
                \A i \in 1 .. Len(toWorker') : At(i, Moves)' => toWorker'[i].offer # p
        BY <1>2, <3>1, <4>1, Appended DEF Ways, WaitingOpen, At
      <4> QED BY <1>1, <2>2, <3>1, <4>2, <4>3 DEF Ways, WaitingOpen, Waits
    <3>5. ReadsSafe'
      <4>1. \A i \in 1 .. Len(toWorker') : At(i, {"start"})' => i \in 1 .. Len(toWorker)
        BY <3>2 DEF At
      <4> QED BY <1>1, <1>2, <1>3, <3>1, <4>1, Appended, ReadsWritten DEF Ways
    <3>6. HeldSafe'
      <4> SUFFICES ASSUME NEW l \in held'
                   PROVE  /\ SafeBefore(l, Len(toWorker) + 1)'
                          /\ l[2] \in hostLeases'[l[1]] \/ (raised /\ l[1] = dispatching)
                          /\ l[1] = dispatching \/ SettledBefore(l[1], Len(toWorker) + 1)'
        BY <1>1 DEF HeldSafe
      <4>1. /\ SafeBefore(l, Len(toWorker) + 1)
            /\ l[2] \in hostLeases[l[1]] \/ (raised /\ l[1] = dispatching)
            /\ l[1] = dispatching \/ SettledBefore(l[1], Len(toWorker) + 1)
        BY <1>4, <3>1 DEF Ways, HeldSafe
      <4>2. SafeBefore(l, Len(toWorker) + 1)'
        BY <1>1, <1>2, <1>4, <3>1, <4>1, AppendedSafe
      <4>3. PICK p : p = l[1]
        OBVIOUS
      <4>4. SettledBefore(p, Len(toWorker) + 1) => SettledBefore(p, Len(toWorker) + 1)'
        BY <1>1, <1>2, <3>1, AppendedSettled
      <4> QED BY <1>4, <4>1, <4>2, <4>3, <4>4
    <3> QED BY <2>4, <3>3, <3>4, <3>5, <3>6 DEF Ways
  <2> QED BY <2>4, <2>5, WaysOver
<1>6. CASE ~(hostOffer[o] = "settled" /\ slot \in hostLeases[o])
  <2>1. /\ UNCHANGED <<bookVars, hostRun, workerRun, raised, aborting, dispatch>>
        /\ withdrawn \subseteq withdrawn'
    BY <1>6 DEF GiveUp, Transferred, bookVars
  <2>2. Books'
    BY <1>3, <2>1, BooksKept
  <2>3. OneRun' /\ WaitingOpen'
    BY <1>3, <2>1 DEF Ways, OneRun, WaitingOpen, Waits, At, bookVars
  <2>4. ReadsSafe'
    BY <1>3, <2>1 DEF Ways, ReadsSafe, SafeBefore, SettledBefore, At, bookVars
  <2>5. HeldSafe'
    BY <1>3, <1>4, <2>1 DEF Ways, HeldSafe, SafeBefore, SettledBefore, At, bookVars
  <2> QED BY <2>2, <2>3, <2>4, <2>5 DEF Ways
<1> QED BY <1>5, <1>6

(* One more retirement or start, while nothing of a run is under way: what *)
(* is kept has been settled, so it survives that too.                      *)
LEMMA QuietSafe ==
    ASSUME IInv, Usable, ~workerRun, toHost = <<>>, dispatching = NoOffer,
           NEW c \in Commands, c.do \in {"retire", "start"},
           toWorker' = Append(toWorker, c),
           UNCHANGED <<settled, live, leases>>, NEW l \in held
    PROVE  /\ SafeBefore(l, Len(toWorker) + 1)' /\ l[2] \in hostLeases[l[1]]
           /\ SettledBefore(l[1], Len(toWorker) + 1)'
           /\ \A n \in Nat : n = Len(toWorker) + 1 =>
                  SafeBefore(l, n)' /\ SettledBefore(l[1], n)'
<1> USE DEF IInv
<1>1. PICK n \in Nat \ {0} : n = Len(toWorker) + 1
  BY QueueElements
<1>2. l[1] # NoOffer
  BY LeaseParts, ResourceAssumption DEF TypeOK
<1>3. /\ SafeBefore(l, n) /\ SettledBefore(l[1], n)
      /\ l[2] \in hostLeases[l[1]]
  BY <1>1, <1>2 DEF Ways, HeldSafe
<1>4. /\ Len(toWorker') = n /\ Len(toWorker') \in Nat
      /\ \A i \in 1 .. Len(toWorker) : toWorker'[i] = toWorker[i]
      /\ toWorker'[n] = c /\ n \in 1 .. Len(toWorker) + 1
  BY <1>1, Appended
<1>5. SettledBefore(l[1], n)'
  BY <1>1, <1>3, <1>4, WrittenSettled
<1>6. SafeBefore(l, n)'
  BY <1>1, <1>3, <1>4, WrittenSafe
<1>7. SettledBefore(l[1], n + 1)'
  <2>1. 1 .. n - 1 \subseteq 1 .. (n + 1) - 1
    OBVIOUS
  <2> QED BY <1>5, <2>1 DEF SettledBefore
<1>8. SafeBefore(l, n + 1)'
  <2>1. ~At(n, Moves)' /\ (At(n, {"retire"})' => SettledBefore(l[1], n)')
    BY <1>4, <1>5 DEF At, Moves
  <2>2. l[2] \in live'[l[1]] /\ l \in leases' /\ (n + 1) - 1 = n
    BY <1>6 DEF SafeBefore
  <2> SUFFICES ASSUME NEW i \in 1 .. n
               PROVE  /\ (At(i, Moves) /\ toWorker[i].offer = l[1])' =>
                            IF toWorker'[i].do = "release"
                            THEN l[2] \notin toWorker'[i].slots
                            ELSE l[1] \in settled' \/ l[2] \in toWorker'[i].slots
                      /\ At(i, {"retire"})' => SettledBefore(l[1], i)'
    BY <2>2 DEF SafeBefore
  <2>3. CASE i = n
    BY <2>1, <2>3
  <2>4. CASE i \in 1 .. n - 1
    BY <1>6, <2>4 DEF SafeBefore
  <2>5. i = n \/ i \in 1 .. n - 1
    OBVIOUS
  <2> QED BY <2>3, <2>4, <2>5
<1> QED BY <1>1, <1>3, <1>4, <1>5, <1>6, <1>7, <1>8

LEMMA RetireForRunPreserves ==
    ASSUME IInv, TypeOK', RetireForRun
    PROVE  Books' /\ Ways'
<1> USE DEF IInv, workerVars, hostVars
<1>1. /\ UNCHANGED <<generation, offered, settled, live, leases, toHost, held,
                     hostLeases, hostOffer, dispatching, raised, workerRun,
                     withdrawn>>
      /\ Usable' = Usable /\ Trusted' = Trusted
      /\ hostRun' /\ ~hostRun /\ dispatch' # "idle"
  BY DEF RetireForRun, Usable, Trusted
<1>2. /\ Retirement \in Commands /\ Retirement.do = "retire"
      /\ toWorker' = Append(toWorker, Retirement)
  BY DEF RetireForRun, Commands, Retirement
<1>3. \A i \in Len(toWorker) + 1 .. Len(toWorker') :
          ~At(i, Moves)' /\ ~At(i, {"release"})'
  BY <1>2, Appended DEF At, Moves
<1>4. Books'
  BY <1>1, <1>2, <1>3, Appended, BooksWritten
<1>5. CASE Usable'
  <2>1. /\ ~workerRun /\ toHost = <<>> /\ dispatching = NoOffer
        /\ \A i \in 1 .. Len(toWorker) : ~At(i, {"start"})
    BY <1>1, <1>5 DEF Ways, OneRun
  <2>2. \A i \in 1 .. Len(toWorker') : ~At(i, {"start"})'
    BY <1>2, <2>1, Appended DEF At
  <2>3. OneRun'
    BY <1>1, <2>1, <2>2 DEF OneRun
  <2>4. WaitingOpen'
    BY <1>1, <2>1, ResourceAssumption DEF WaitingOpen, Waits
  <2>5. HeldSafe'
    BY <1>1, <1>2, <1>5, <2>1, QuietSafe DEF HeldSafe
  <2>6. ReadsSafe'
    BY <2>2 DEF ReadsSafe
  <2> QED BY <1>4, <2>3, <2>4, <2>5, <2>6 DEF Ways
<1> QED BY <1>4, <1>5, WaysOver

LEMMA WriteStartPreserves ==
    ASSUME IInv, TypeOK', WriteStart
    PROVE  Books' /\ Ways'
<1> USE DEF IInv, workerVars, hostVars, clientVars
<1>1. /\ UNCHANGED <<generation, offered, settled, live, leases, toHost, held,
                     hostLeases, hostOffer, dispatching, raised, workerRun,
                     hostRun, withdrawn>>
      /\ Usable' = Usable /\ Trusted' = Trusted
      /\ hostRun /\ dispatch = "accepted" /\ dispatch' = "idle"
  BY DEF WriteStart, Usable, Trusted
<1>2. PICK c : c = Start(reads)
  OBVIOUS
<1>3. /\ c \in Commands /\ c.do = "start" /\ c.reads = reads
      /\ toWorker' = Append(toWorker, c)
  BY <1>2 DEF WriteStart, Commands, Start, TypeOK
<1>4. \A i \in Len(toWorker) + 1 .. Len(toWorker') :
          ~At(i, Moves)' /\ ~At(i, {"release"})'
  BY <1>3, Appended DEF At, Moves
<1>5. Books'
  BY <1>1, <1>3, <1>4, Appended, BooksWritten
<1>6. CASE Usable'
  <2>1. /\ ~workerRun /\ toHost = <<>> /\ dispatching = NoOffer
        /\ \A i \in 1 .. Len(toWorker) : ~At(i, {"start"})
    BY <1>1, <1>6 DEF Ways, OneRun
  <2>2. PICK n \in Nat : n = Len(toWorker) + 1 /\ n = Len(toWorker')
    BY <1>3, Appended
  <2>3. /\ toWorker'[n] = c
        /\ \A i \in 1 .. Len(toWorker') : At(i, {"start"})' => i = n
    BY <1>3, <2>1, <2>2, Appended DEF At
  <2>4. OneRun'
    BY <1>1, <2>1, <2>2, <2>3 DEF OneRun
  <2>5. WaitingOpen'
    BY <1>1, <2>1, ResourceAssumption DEF WaitingOpen, Waits
  <2>6. HeldSafe'
    BY <1>1, <1>3, <1>6, <2>1, QuietSafe DEF HeldSafe
  <2>7. ReadsSafe'
    <3> SUFFICES ASSUME NEW l \in c.reads \ withdrawn
                 PROVE  SafeBefore(l, n)' /\ SettledBefore(l[1], n)'
      BY <1>1, <2>3 DEF ReadsSafe
    <3>1. l \in held
      BY <1>1, <1>3 DEF ReadsHeld
    <3> QED BY <1>1, <1>3, <1>6, <2>1, <2>2, <3>1, QuietSafe
  <2> QED BY <1>5, <2>4, <2>5, <2>6, <2>7 DEF Ways
<1> QED BY <1>5, <1>6, WaysOver

(* Accepting a run and abandoning one write nothing.                       *)
LEMMA DispatchPreserves ==
    ASSUME IInv, AcceptRun \/ AbandonDispatch
    PROVE  Books' /\ Ways'
<1> USE DEF IInv, workerVars, hostVars, clientVars
<1>1. /\ UNCHANGED <<bookVars, held, hostLeases, raised, workerRun>>
      /\ Usable' = Usable /\ Trusted' = Trusted /\ dispatch # "idle"
      /\ UNCHANGED hostRun \/ dispatch' = "idle"
  BY DEF AcceptRun, AbandonDispatch, Usable, Trusted, bookVars
<1>2. Books'
  BY <1>1, BooksKept
<1>3. CASE Usable'
  <2>1. /\ ~workerRun /\ toHost = <<>> /\ dispatching = NoOffer
        /\ \A i \in 1 .. Len(toWorker) : ~At(i, {"start"})
    BY <1>1, <1>3 DEF Ways, OneRun
  <2>2. \A i \in 1 .. Len(toWorker') : ~At(i, {"start"})'
    BY <1>1, <2>1 DEF At, bookVars
  <2>3. OneRun'
    BY <1>1, <2>1, <2>2 DEF OneRun, bookVars
  <2>4. WaitingOpen'
    BY <1>1, <1>3 DEF Ways, WaitingOpen, Waits, At, bookVars
  <2>5. HeldSafe'
    BY <1>1, <1>3 DEF Ways, HeldSafe, SafeBefore, SettledBefore, At, bookVars
  <2>6. ReadsSafe'
    BY <2>2 DEF ReadsSafe
  <2> QED BY <1>2, <2>3, <2>4, <2>5, <2>6 DEF Ways
<1> QED BY <1>2, <1>3, WaysOver

LEMMA ReadsHeldPreserved ==
    ASSUME TypeOK, ReadsHeld, [Next]_vars
    PROVE  ReadsHeld'
<1> USE DEF ReadsHeld, workerVars, hostVars, clientVars, runVars
<1>1. CASE UNCHANGED <<dispatch, reads, withdrawn, held>>
  BY <1>1
<1>2. CASE RetireForRun \/ WriteStart \/ AcceptRun \/ AbandonDispatch
  BY <1>2 DEF RetireForRun, WriteStart, AcceptRun, AbandonDispatch
<1>3. CASE Respawn
  BY <1>3 DEF Respawn
<1>4. ASSUME NEW o \in Offers, NEW slot \in Slots, GiveUp(o, slot)
      PROVE  ReadsHeld'
  BY <1>4 DEF GiveUp
<1>5. ASSUME NEW slot \in Slots, Claim(slot) PROVE ReadsHeld'
  BY <1>5 DEF Claim
<1>6. CASE \/ Worker \/ Listener \/ EndRun \/ Die \/ CloseWorkspace
           \/ CallbackRaises \/ Abort \/ RetireGeneration \/ UNCHANGED vars
           \/ \E o \in Offers : Stage(o)
  BY <1>6, <1>1 DEF Worker, Listener, Apply, Retire, RetireBroken, ServeStart,
     TakeEvent, Settle, EndRun, Die, CloseWorkspace, CallbackRaises, Abort,
     RetireGeneration, Stage, vars
<1> QED BY <1>2, <1>3, <1>4, <1>5, <1>6 DEF Next

(* The worker serves the first command.                                    *)

LEMMA SafeEarlier ==
    ASSUME NEW l, NEW k \in Nat, NEW m \in Nat, m <= k, SafeBefore(l, k)
    PROVE  SafeBefore(l, m)
<1>1. 1 .. m - 1 \subseteq 1 .. k - 1
  OBVIOUS
<1> QED BY <1>1 DEF SafeBefore

(* The report of a run's end concerns no offer.                            *)
LEMMA ReportAppended ==
    ASSUME TypeOK, toHost' \in {toHost, Append(toHost, NoOffer)}
    PROVE  /\ \A i \in 1 .. Len(toHost') : toHost'[i] # NoOffer =>
                 i \in 1 .. Len(toHost) /\ toHost'[i] = toHost[i]
           /\ \A i \in 1 .. Len(toHost) :
                 i \in 1 .. Len(toHost') /\ toHost'[i] = toHost[i]
<1>1. toHost \in Seq(Offers \cup {NoOffer}) /\ Len(toHost) \in Nat
  BY LenProperties DEF TypeOK
<1>2. CASE toHost' = Append(toHost, NoOffer)
  <2>1. /\ Len(toHost') = Len(toHost) + 1 /\ toHost'[Len(toHost) + 1] = NoOffer
        /\ \A i \in 1 .. Len(toHost) : toHost'[i] = toHost[i]
    BY <1>1, <1>2, AppendTo
  <2> QED BY <1>1, <2>1
<1> QED BY <1>1, <1>2

LEMMA BooksServed ==
    ASSUME TypeOK, TypeOK', Books, toWorker # <<>>, toWorker' = Tail(toWorker),
           settled \subseteq settled', Untouched',
           UNCHANGED <<offered, generation, hostOffer, dispatching>>,
           toHost' \in {toHost, Append(toHost, NoOffer)}, Trusted' => Trusted,
           Trusted /\ Head(toWorker).do = "settle" => Head(toWorker).offer \in settled',
           \A o \in Offers :
               o \in settled' \/ live'[o] # {} => o \in settled \/ live[o] # {}
    PROVE  Books'
<1>1. /\ Len(toWorker) \in Nat /\ Len(toWorker') + 1 = Len(toWorker)
      /\ \A i \in 1 .. Len(toWorker') :
            i + 1 \in 1 .. Len(toWorker) /\ toWorker'[i] = toWorker[i + 1]
  BY Served
<1>2. OffersStaged'
  <2>1. \A i \in 1 .. Len(toWorker') :
            At(i, Moves)' => offered'[toWorker'[i].offer] = generation'
    BY <1>1 DEF Books, OffersStaged, At
  <2>2. \A i \in 1 .. Len(toHost') : toHost'[i] # NoOffer =>
            i \in 1 .. Len(toHost) /\ toHost'[i] = toHost[i]
    BY ReportAppended
  <2>3. \A i \in 1 .. Len(toHost') : toHost'[i] # NoOffer =>
          /\ offered'[toHost'[i]] = generation' /\ toHost'[i] # dispatching'
          /\ \A j \in 1 .. Len(toHost') : toHost'[i] = toHost'[j] => i = j
    BY <2>2 DEF Books, OffersStaged
  <2> QED BY <2>1, <2>3 DEF Books, OffersStaged
<1>3. SettlementSent'
  <2> SUFFICES ASSUME Trusted, NEW o \in Offers, hostOffer[o] = "settled"
               PROVE  SettledBefore(o, Len(toWorker) + 1)'
    BY DEF SettlementSent
  <2>1. PICK k : k = Len(toWorker)
    OBVIOUS
  <2>2. SettledBefore(o, k)'
    BY <1>1, <2>1, ServedSettled DEF Books, SettlementSent
  <2> QED BY <1>1, <2>1, <2>2
<1>4. ReleaseAfterSettle'
  <2>1. CASE ~Trusted'
    BY <2>1 DEF ReleaseAfterSettle, Trusted
  <2>2. CASE Trusted'
    <3>1. \A j \in 1 .. Len(toWorker) :
              At(j, {"release"}) => SettledBefore(toWorker[j].offer, j)
      BY <2>2, ReleaseForm DEF Books
    <3>2. ASSUME NEW j \in 1 .. Len(toWorker'), At(j, {"release"})'
          PROVE  SettledBefore(toWorker[j].offer, j)'
      <4>1. PICK o : o = toWorker'[j].offer
        OBVIOUS
      <4>2. SettledBefore(o, j + 1)
        BY <1>1, <3>1, <3>2, <4>1 DEF At
      <4>3. SettledBefore(o, j)'
        BY <2>2, <4>2, ServedSettled
      <4> QED BY <4>1, <4>3
    <3>3. \A j \in 1 .. Len(toWorker') : \A i \in 1 .. j - 1 : i \in 1 .. Len(toWorker')
      BY <1>1
    <3> QED BY <2>2, <3>2, <3>3 DEF ReleaseAfterSettle, SettledBefore, At
  <2> QED BY <2>1, <2>2
<1> QED BY <1>2, <1>3, <1>4 DEF Books

LEMMA WaysServed ==
    ASSUME TypeOK, Ways, Usable, toWorker # <<>>, toWorker' = Tail(toWorker),
           settled \subseteq settled',
           UNCHANGED <<hostRun, dispatching, hostOffer, hostLeases, held,
                       raised, dispatch, withdrawn>>,
           \/ UNCHANGED toHost
           \/ /\ toHost' = Append(toHost, NoOffer)
              /\ At(1, {"start"}) /\ ~workerRun',
           Head(toWorker).do = "settle" => Head(toWorker).offer \in settled',
           workerRun' => workerRun \/ At(1, {"start"}),
           \A o \in Offers : Waits(o) => o \notin settled',
           \A l \in Leases : SafeBefore(l, 2) => l[2] \in live'[l[1]] /\ l \in leases'
    PROVE  Ways'
<1>1. /\ Len(toWorker) \in Nat \ {0} /\ Len(toWorker') + 1 = Len(toWorker)
      /\ \A i \in 1 .. Len(toWorker') :
            i + 1 \in 1 .. Len(toWorker) /\ toWorker'[i] = toWorker[i + 1]
  BY Served
<1>2. OneRun'
  <2>1. \A i \in 1 .. Len(toWorker') :
            At(i, {"retire", "start"})' => At(i + 1, {"retire", "start"})
    BY <1>1 DEF At
  <2>2. ASSUME At(1, {"start"})
        PROVE  \A i \in 1 .. Len(toWorker') : ~At(i, {"retire", "start"})'
    <3>1. 1 \in 1 .. Len(toWorker)
      BY <1>1
    <3>2. \A i \in 1 .. Len(toWorker') : ~(i + 1 <= 1)
      OBVIOUS
    <3> QED BY <1>1, <2>1, <2>2, <3>1, <3>2 DEF Ways, OneRun
  <2>3. At(1, {"start"}) => /\ hostRun /\ dispatch = "idle" /\ toHost = <<>>
                            /\ dispatching = NoOffer /\ ~workerRun
    BY <1>1 DEF Ways, OneRun, At
  <2>4. /\ (\E i \in 1 .. Len(toWorker') : At(i, {"retire", "start"})') =>
               ~At(1, {"start"}) /\ ~workerRun /\ toHost = <<>>
               /\ dispatching = NoOffer
        /\ ~hostRun \/ dispatch # "idle" =>
               ~At(1, {"start"}) /\ ~workerRun /\ toHost = <<>>
               /\ dispatching = NoOffer
        /\ (\E i \in 1 .. Len(toWorker') : At(i, {"start"})') =>
               hostRun /\ dispatch = "idle"
    <3>1. \A i \in 1 .. Len(toWorker') : At(i, {"start"})' => At(i + 1, {"start"})
      BY <1>1 DEF At
    <3> QED BY <1>1, <2>1, <2>2, <2>3, <3>1 DEF Ways, OneRun
  <2>5. \A i \in 1 .. Len(toHost') :
            toHost'[i] = NoOffer => i = Len(toHost') /\ ~workerRun'
    <3>1. CASE UNCHANGED toHost
      BY <2>3, <3>1 DEF Ways, OneRun
    <3>2. CASE toHost' = Append(toHost, NoOffer) /\ At(1, {"start"}) /\ ~workerRun'
      <4>1. Len(toHost') = 1
        BY <2>3, <3>2
      <4> QED BY <3>2, <4>1
    <3> QED BY <3>1, <3>2
  <2>6. ASSUME NEW i \in 1 .. Len(toWorker'), NEW j \in 1 .. Len(toWorker'),
               At(i, {"start"})', At(j, {"retire", "start"})'
        PROVE  j <= i
    <3>1. At(i + 1, {"start"}) /\ At(j + 1, {"retire", "start"})
      BY <1>1, <2>6 DEF At
    <3>2. j + 1 <= i + 1
      BY <1>1, <3>1 DEF Ways, OneRun
    <3> QED BY <3>2
  <2> QED BY <2>4, <2>5, <2>6 DEF OneRun
<1>3. WaitingOpen'
  <2>2. \A o \in Offers : (\E i \in 1 .. Len(toHost') : toHost'[i] = o)
                            <=> \E i \in 1 .. Len(toHost) : toHost[i] = o
    <3>1. CASE toHost' = Append(toHost, NoOffer)
      BY <3>1, ReportAppended, ResourceAssumption
    <3> QED BY <3>1
  <2>1. \A o \in Offers : Waits(o) =>
            \A i \in 1 .. Len(toWorker') : At(i, Moves)' => toWorker'[i].offer # o
    BY <1>1 DEF Ways, WaitingOpen, At
  <2> QED BY <2>1, <2>2 DEF Ways, WaitingOpen, Waits
<1>4. ASSUME NEW l \in Leases, NEW k \in Nat \ {0}, SafeBefore(l, k + 1)
      PROVE  SafeBefore(l, k)'
  <2>1. SafeBefore(l, 2)
    BY <1>4, SafeEarlier
  <2> QED BY <1>4, <2>1, ServedSafe
<1>5. HeldSafe'
  <2> SUFFICES ASSUME NEW l \in held
               PROVE  /\ SafeBefore(l, Len(toWorker) + 1)'
                      /\ l[2] \in hostLeases[l[1]] \/ (raised /\ l[1] = dispatching)
                      /\ l[1] = dispatching \/ SettledBefore(l[1], Len(toWorker) + 1)'
    BY DEF HeldSafe
  <2>1. /\ SafeBefore(l, Len(toWorker) + 1) /\ l \in Leases
        /\ l[2] \in hostLeases[l[1]] \/ (raised /\ l[1] = dispatching)
        /\ l[1] = dispatching \/ SettledBefore(l[1], Len(toWorker) + 1)
    BY DEF Ways, HeldSafe, TypeOK
  <2>2. PICK k \in Nat \ {0} : k = Len(toWorker)
    BY <1>1
  <2>3. SafeBefore(l, k)'
    BY <1>4, <2>1, <2>2
  <2>4. SettledBefore(l[1], k + 1) => SettledBefore(l[1], k)'
    BY <2>2, ServedSettled
  <2> QED BY <1>1, <2>1, <2>2, <2>3, <2>4
<1>6. ReadsSafe'
  <2> SUFFICES ASSUME NEW i \in 1 .. Len(toWorker'), At(i, {"start"})',
                      NEW l \in toWorker'[i].reads \ withdrawn
               PROVE  SafeBefore(l, i)' /\ SettledBefore(l[1], i)'
    BY DEF ReadsSafe
  <2>1. At(i + 1, {"start"}) /\ l \in toWorker[i + 1].reads
    BY <1>1 DEF At
  <2>2. l \in Leases
    BY <2>1, QueueElements, CommandKinds DEF At
  <2>3. SafeBefore(l, i + 1) /\ SettledBefore(l[1], i + 1)
    BY <1>1, <2>1 DEF Ways, ReadsSafe, At
  <2> QED BY <1>4, <2>2, <2>3, ServedSettled
<1> QED BY <1>2, <1>3, <1>5, <1>6 DEF Ways

LEMMA ServeStartPreserves ==
    ASSUME IInv, TypeOK', ServeStart
    PROVE  Books' /\ Ways'
<1> USE DEF IInv, hostVars, clientVars, runVars
<1>1. /\ UNCHANGED <<generation, offered, settled, live, leases, held,
                     hostLeases, hostOffer, dispatching, raised, hostRun,
                     dispatch, withdrawn>>
      /\ Usable' = Usable /\ Trusted' = Trusted
      /\ toWorker # <<>> /\ toWorker' = Tail(toWorker)
      /\ Head(toWorker).do = "start"
      /\ \/ UNCHANGED toHost
         \/ toHost' = Append(toHost, NoOffer) /\ UNCHANGED workerRun
  BY DEF ServeStart, Usable, Trusted
<1>2. Books'
  <2>1. Untouched'
    BY <1>1 DEF Books, Untouched
  <2> QED BY <1>1, <2>1, BooksServed
<1>3. CASE Usable
  <2>1. At(1, {"start"})
    BY <1>1, Served DEF At
  <2>4. ~workerRun
    BY <1>3, <2>1 DEF Ways, OneRun, At
  <2>2. \A o \in Offers : Waits(o) => o \notin settled
    BY <1>3 DEF Ways, WaitingOpen
  <2>3. \A l \in Leases : SafeBefore(l, 2) => l[2] \in live[l[1]] /\ l \in leases
    BY DEF SafeBefore
  <2> QED BY <1>1, <1>2, <1>3, <2>1, <2>2, <2>3, <2>4, WaysServed
<1> QED BY <1>1, <1>2, <1>3, WaysOver

LEMMA RetirePreserves ==
    ASSUME IInv, TypeOK', Retire
    PROVE  Books' /\ Ways'
<1> USE DEF IInv, hostVars, clientVars, runVars
<1>1. /\ UNCHANGED <<generation, offered, toHost, held, hostLeases, hostOffer,
                     dispatching, raised, hostRun, workerRun, dispatch, withdrawn>>
      /\ Usable' = Usable /\ Trusted' = Trusted
      /\ toWorker # <<>> /\ toWorker' = Tail(toWorker)
      /\ Head(toWorker).do = "retire"
  BY DEF Retire, Usable, Trusted
<1>2. /\ live' = [o \in Offers |-> IF o \in Unclaimed THEN {} ELSE live[o]]
      /\ leases' = leases \ (Unclaimed \X Slots)
      /\ settled' = settled \cup Unclaimed
  BY DEF Retire
<1>3. Books'
  <2>1. Untouched'
    <3> SUFFICES ASSUME Trusted, NEW o \in Offers, offered[o] = generation,
                        o \notin settled, o \notin Unclaimed
                 PROVE  live'[o] = SlotsOf(o) /\ Of(o, SlotsOf(o)) \subseteq leases'
      BY <1>1, <1>2 DEF Untouched
    <3>1. live[o] = SlotsOf(o) /\ Of(o, SlotsOf(o)) \subseteq leases
      BY DEF Books, Untouched
    <3> QED BY <1>2, <3>1 DEF Of
  <2>2. \A o \in Offers :
            o \in settled' \/ live'[o] # {} => o \in settled \/ live[o] # {}
    BY <1>2 DEF Unclaimed
  <2> QED BY <1>1, <1>2, <2>1, <2>2, BooksServed
<1>4. CASE Usable
  <2>1. At(1, {"retire"}) /\ 1 \in 1 .. Len(toWorker)
    BY <1>1, Served DEF At
  <2>2. toHost = <<>> /\ dispatching = NoOffer
    BY <1>4, <2>1 DEF Ways, OneRun, At
  <2>3. \A o \in Offers : ~Waits(o)
    BY <2>2, ResourceAssumption DEF Waits
  <2>4. ASSUME NEW l \in Leases, SafeBefore(l, 2)
        PROVE  l[2] \in live'[l[1]] /\ l \in leases'
    <3>1. l[2] \in live[l[1]] /\ l \in leases /\ l[1] \in Offers
      BY <2>4, LeaseParts DEF SafeBefore
    <3>2. l[1] \in settled
      <4>1. SettledBefore(l[1], 1)
        BY <2>1, <2>4 DEF SafeBefore
      <4> QED BY <4>1 DEF SettledBefore
    <3> QED BY <1>2, <3>1, <3>2 DEF Unclaimed
  <2> QED BY <1>1, <1>2, <1>3, <1>4, <2>3, <2>4, WaysServed
<1> QED BY <1>1, <1>3, <1>4, WaysOver

(* What the first command takes away: part of what it does not want.       *)
LEMMA ReleasedOnly ==
    ASSUME TypeOK, NEW o \in Offers, NEW u, Release(o, u)
    PROVE  /\ \A p \in Offers : p # o => live'[p] = live[p]
           /\ live'[o] \subseteq live[o] /\ live[o] \ u \subseteq live'[o]
           /\ \A l \in leases : (l[1] = o /\ l[2] \in u) \/ l \in leases'
<1>1. CASE ReleaseAll(o, u)
  BY <1>1 DEF ReleaseAll, TypeOK, Of
<1>2. CASE ReleaseBroken(o, u)
  BY <1>2 DEF ReleaseBroken, TypeOK, Of
<1> QED BY <1>1, <1>2 DEF Release

LEMMA ApplyPreserves ==
    ASSUME IInv, TypeOK', Apply
    PROVE  Books' /\ Ways'
<1> USE DEF IInv, hostVars, clientVars, runVars
<1> DEFINE c == Head(toWorker)
           o == c.offer
           u == Unwanted(c)
<1>1. /\ UNCHANGED <<generation, offered, toHost, held, hostLeases, hostOffer,
                     dispatching, raised, hostRun, workerRun, dispatch, withdrawn>>
      /\ Usable' = Usable /\ Trusted' = Trusted
      /\ toWorker # <<>> /\ toWorker' = Tail(toWorker)
      /\ c.do \in Moves
  BY DEF Apply, Usable, Trusted, Moves
<1>2. /\ 1 \in 1 .. Len(toWorker) /\ c = toWorker[1] /\ At(1, Moves)
      /\ o \in Offers /\ offered[o] = generation
  <2>1. 1 \in 1 .. Len(toWorker) /\ c = toWorker[1] /\ At(1, Moves)
    BY <1>1, Served DEF At
  <2>2. c \in Commands
    BY <2>1, QueueElements
  <2> QED BY <1>1, <2>1, <2>2, CommandKinds DEF Books, OffersStaged
<1>3. \/ live[o] = {} /\ UNCHANGED <<live, settled, leases>>
      \/ /\ live[o] # {} /\ Release(o, u)
         /\ settled' = IF c.do = "settle" THEN settled \cup {o} ELSE settled
  BY DEF Apply
<1>4. /\ \A p \in Offers : p # o => live'[p] = live[p]
      /\ live'[o] \subseteq live[o] /\ live[o] \ u \subseteq live'[o]
      /\ \A l \in leases : (l[1] = o /\ l[2] \in u) \/ l \in leases'
  <2>1. PICK p \in Offers : p = o
    BY <1>2
  <2>2. PICK v : v = u
    OBVIOUS
  <2> QED BY <1>3, <2>1, <2>2, ReleasedOnly
<1>5. settled \subseteq settled' /\ settled' \subseteq settled \cup {o}
      /\ (o \in settled' => o \in settled \/ live[o] # {})
  BY <1>3
<1>6. u = IF c.do = "settle"
          THEN IF o \in settled THEN {} ELSE live[o] \ c.slots
          ELSE live[o] \cap c.slots
  BY DEF Unwanted
<1>7. Trusted /\ c.do = "settle" => o \in settled'
  <2>1. Trusted /\ o \notin settled => live[o] # {}
    BY <1>2, ResourceAssumption DEF Books, Untouched, SlotsOf
  <2> QED BY <1>3, <2>1
<1>8. Trusted /\ c.do # "settle" => o \in settled
  <2>1. At(1, {"release"}) /\ Trusted => SettledBefore(o, 1)
    BY <1>2, ReleaseForm DEF Books
  <2> QED BY <1>1, <1>2, <2>1 DEF At, Moves, SettledBefore
<1> HIDE DEF c, o, u
<1>9. Books'
  <2>1. Untouched'
    <3> SUFFICES ASSUME Trusted, NEW p \in Offers, offered[p] = generation,
                        p \notin settled'
                 PROVE  live'[p] = SlotsOf(p) /\ Of(p, SlotsOf(p)) \subseteq leases'
      BY <1>1 DEF Untouched
    <3>1. p # o
      BY <1>5, <1>7, <1>8
    <3>2. live[p] = SlotsOf(p) /\ Of(p, SlotsOf(p)) \subseteq leases
      BY <1>5 DEF Books, Untouched
    <3> QED BY <1>4, <3>1, <3>2 DEF Of
  <2>2. \A p \in Offers :
            p \in settled' \/ live'[p] # {} => p \in settled \/ live[p] # {}
    BY <1>4, <1>5
  <2> QED BY <1>1, <1>5, <1>7, <2>1, <2>2, BooksServed DEF c, o
<1>10. CASE Usable
  <2>1. \A p \in Offers : Waits(p) => p \notin settled'
    BY <1>2, <1>5, <1>10 DEF Ways, WaitingOpen, c, o
  <2>2. ASSUME NEW l \in Leases, SafeBefore(l, 2)
        PROVE  l[2] \in live'[l[1]] /\ l \in leases'
    <3>1. l[2] \in live[l[1]] /\ l \in leases /\ l[1] \in Offers
      BY <2>2, LeaseParts DEF SafeBefore
    <3>2. l[1] = o => IF c.do = "release" THEN l[2] \notin c.slots
                      ELSE l[1] \in settled \/ l[2] \in c.slots
      BY <1>2, <2>2 DEF SafeBefore, c, o
    <3>3. c.do \in {"settle", "release"}
      BY <1>1 DEF Moves
    <3>4. ~(l[1] = o /\ l[2] \in u)
      BY <1>6, <3>2, <3>3
    <3> QED BY <1>4, <3>1, <3>4
  <2>3. Head(toWorker).do = "settle" => Head(toWorker).offer \in settled'
    BY <1>7, <1>10 DEF c, o, Usable
  <2> QED BY <1>1, <1>5, <1>9, <1>10, <2>1, <2>2, <2>3, WaysServed
<1> QED BY <1>1, <1>9, <1>10, WaysOver

---------------------------------------------------------------------------
LEMMA InvariantPreserved == IInv /\ [Next]_vars => IInv'
<1> SUFFICES ASSUME IInv, [Next]_vars PROVE IInv'
  OBVIOUS
<1>1. TypeOK'
  BY TypesNext DEF IInv
<1>10. ReadsHeld'
  BY ReadsHeldPreserved DEF IInv
<1>2. CASE Worker
  BY <1>1, <1>10, <1>2, ApplyPreserves, RetirePreserves, EndingsPreserve,
     ServeStartPreserves DEF Worker, IInv
<1>3. CASE Listener
  BY <1>1, <1>10, <1>3, TakeEventPreserves, SettlePreserves DEF Listener, IInv
<1>4. CASE EndRun \/ Die \/ CallbackRaises
  BY <1>1, <1>10, <1>4, EndRunPreserves, EndingsPreserve, CallbackRaisesPreserves DEF IInv
<1>5. CASE RetireForRun \/ AcceptRun \/ WriteStart \/ AbandonDispatch
           \/ CloseWorkspace
  BY <1>1, <1>10, <1>5, RetireForRunPreserves, DispatchPreserves,
     WriteStartPreserves, CloseWorkspacePreserves DEF IInv
<1>6. CASE Abort \/ RetireGeneration \/ Respawn \/ UNCHANGED vars
  BY <1>1, <1>10, <1>6, EndingsPreserve, RespawnPreserves DEF IInv
<1>7. ASSUME NEW o \in Offers, Stage(o) PROVE IInv'
  BY <1>1, <1>10, <1>7, StagePreserves DEF IInv
<1>8. ASSUME NEW o \in Offers, NEW slot \in Slots, GiveUp(o, slot) PROVE IInv'
  BY <1>1, <1>10, <1>8, GiveUpPreserves DEF IInv
<1>9. ASSUME NEW slot \in Slots, Claim(slot) PROVE IInv'
  BY <1>1, <1>10, <1>9, ClaimPreserves DEF IInv
<1> QED BY <1>2, <1>3, <1>4, <1>5, <1>6, <1>7, <1>8, <1>9 DEF Next

(* The invariant holds whatever the offers, the handles they carry, the    *)
(* failures and the number of generations.                                 *)
THEOREM InvariantHolds == Spec => []IInv
<1>1. Init => IInv
  BY TypesInit, StartsTrue DEF IInv, ReadsHeld, Init
<1> QED BY <1>1, InvariantPreserved, PTL DEF Spec

(* What the store keeps is alive in the worker, however the retirements,   *)
(* settlements and releases on the way cross with the events: for any      *)
(* number of offers in flight and of generations.                          *)
THEOREM HeldStaysBacked == Spec => []HeldIsBacked
<1>1. IInv => HeldIsBacked
  BY DEF IInv, Ways, HeldSafe, HeldIsBacked, Usable, Trusted, SafeBefore
<1> QED BY <1>1, InvariantHolds, PTL

(* When the worker comes to a run, each current output that the run reads  *)
(* has its accepted lease there, unless the store lost it between the      *)
(* acceptance of the run and the write of StartRun.                        *)
THEOREM ReadsSucceed == Spec => []CurrentReadable
<1>1. ASSUME IInv PROVE CurrentReadable
  <2> SUFFICES ASSUME Usable, toWorker # <<>>, Head(toWorker).do = "start",
                      NEW l \in Head(toWorker).reads \ withdrawn
               PROVE  Readable(l)
    BY DEF CurrentReadable, Usable, Trusted
  <2>1. /\ Len(toWorker) \in Nat \ {0} /\ Head(toWorker) = toWorker[1]
        /\ toWorker \in Seq(Commands)
    BY <1>1, QueueElements, TailOf DEF IInv
  <2>2. At(1, {"start"}) /\ 1 \in 1 .. Len(toWorker)
        /\ l \in toWorker[1].reads \ withdrawn
    BY <2>1 DEF At
  <2>3. SafeBefore(l, 1) /\ SettledBefore(l[1], 1)
    BY <1>1, <2>2 DEF IInv, Ways, ReadsSafe
  <2> QED BY <2>3 DEF SafeBefore, SettledBefore, Readable
<1> QED BY <1>1, InvariantHolds, PTL

(* No release overtakes the settlement that transfers its lease.           *)
THEOREM ReleasesAreLater == Spec => []ReleaseAfterSettle
BY InvariantHolds, PTL DEF IInv, Books

(* Where no disposer raises, every index that the worker lists belongs to  *)
(* a lease of the registry, so a release never meets an unknown one.       *)
THEOREM IndexesHaveLeases == Spec => []ListedIsLeased
<1>1. Init => ListedIsLeased
  BY DEF Init, Empty, ListedIsLeased, Of
<1>2. ASSUME TypeOK, ListedIsLeased, [Next]_vars PROVE ListedIsLeased'
  <2> SUFFICES ASSUME "dispose" \notin faults'
               PROVE  \A p \in Offers : Of(p, live[p])' \subseteq leases'
    BY DEF ListedIsLeased
  <2>1. faults' = faults
    BY <1>2 DEF Next, Worker, Listener, Apply, Retire, RetireBroken, ServeStart,
                Die, EndRun, RetireForRun, AcceptRun, WriteStart,
                AbandonDispatch, CloseWorkspace, TakeEvent, Settle, CallbackRaises, Abort, RetireGeneration, Respawn, Stage,
                GiveUp, Claim, vars, clientVars
  <2>2. \A p \in Offers : Of(p, live[p]) \subseteq leases
    BY <1>2, <2>1 DEF ListedIsLeased
  <2>3. CASE UNCHANGED <<live, leases>>
    BY <2>2, <2>3 DEF Of
  <2>4. CASE Apply
    <3>1. CASE UNCHANGED <<live, leases>>
      BY <2>2, <3>1 DEF Of
    <3>2. CASE ~UNCHANGED <<live, leases>>
      <4> DEFINE c == Head(toWorker)
      <4>1. PICK o, u : o = c.offer /\ u = Unwanted(c)
        OBVIOUS
      <4>2. Release(o, u) /\ c.do \in {"settle", "release"} /\ c \in Commands
        BY <1>2, <2>4, <3>2, <4>1, Served, QueueElements, TailOf DEF Apply
      <4>3. o \in Offers /\ u \subseteq live[o]
        BY <4>1, <4>2, CommandKinds DEF Unwanted, Moves
      <4>4. ~ReleaseBroken(o, u)
        BY <2>1, <2>2, <4>3 DEF ReleaseBroken, Of
      <4>5. /\ live' = [live EXCEPT ![o] = @ \ u]
            /\ leases' = leases \ Of(o, u)
        BY <4>2, <4>4 DEF Release, ReleaseAll
      <4> QED BY <1>2, <2>2, <4>3, <4>5 DEF Of, TypeOK
    <3> QED BY <3>1, <3>2
  <2>5. CASE Retire
    BY <2>2, <2>5 DEF Retire, Of
  <2>6. CASE Respawn
    BY <2>6 DEF Respawn, Empty, Of
  <2>7. ASSUME NEW o \in Offers, Stage(o) PROVE \A p \in Offers : Of(p, live[p])' \subseteq leases'
    BY <1>2, <2>2, <2>7 DEF Stage, Of, TypeOK
  <2>8. CASE RetireBroken \/ ServeStart \/ Listener \/ EndRun \/ Die
             \/ RetireForRun \/ AcceptRun \/ WriteStart \/ AbandonDispatch
             \/ CloseWorkspace \/ CallbackRaises \/ Abort \/ RetireGeneration
             \/ UNCHANGED vars
    <3>1. UNCHANGED <<live, leases>>
      BY <2>8 DEF RetireBroken, ServeStart, Listener, TakeEvent, Settle, EndRun,
                  Die, RetireForRun, AcceptRun, WriteStart, AbandonDispatch,
                  CloseWorkspace, CallbackRaises, Abort,
                  RetireGeneration, vars, workerVars
    <3> QED BY <2>3, <3>1
  <2>9. ASSUME NEW o \in Offers, NEW slot \in Slots, GiveUp(o, slot) \/ Claim(slot)
        PROVE  UNCHANGED <<live, leases>>
    BY <2>9 DEF GiveUp, Claim, workerVars
  <2>10. ASSUME NEW slot \in Slots, Claim(slot)
         PROVE  UNCHANGED <<live, leases>>
    BY <2>10 DEF Claim, workerVars
  <2> QED BY <1>2, <2>3, <2>4, <2>5, <2>6, <2>7, <2>8, <2>9, <2>10 DEF Next, Worker
<1> QED BY <1>1, <1>2, TypeCorrect, PTL DEF Spec

===========================================================================
