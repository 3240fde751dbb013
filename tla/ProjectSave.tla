---------------------------- MODULE ProjectSave ----------------------------
(***************************************************************************)
(* Saving a project: the document transaction of the shell                 *)
(* (document_io_service.py), the files it copies into the project's        *)
(* sidecar (artifact_store.py), the generation of results it publishes     *)
(* there (solution_repository.py, runtime.py), the autosave and the        *)
(* session envelope (session_lifecycle_service.py, session_store.py).      *)
(*                                                                         *)
(* A save stages artifacts and results beside the document, publishes the  *)
(* document atomically, reads it back, adopts it in the window and only    *)
(* then cleans up; what a cleaning could not remove is tried again by the  *)
(* next saves.  Everything runs on the GUI thread.  An edit can come in    *)
(* between at the two points before the checks of the save token, results  *)
(* arrive at any time, and the process can die between any two steps.      *)
(* Closing the window takes three steps after the window is gone.          *)
(*                                                                         *)
(* One project id with one workspace.  The content of an artifact never    *)
(* changes, so a copy has one possible name; every result has a solution   *)
(* key of its own.  Images are handled like artifacts; undo, the byte and  *)
(* record limits and legacy documents are left out.                        *)
(***************************************************************************)
EXTENDS Integers, Sequences, FiniteSets

CONSTANTS
    Paths, NoPath,    \* where projects are saved; an unsaved project
    Nodes,
    Artifacts,        \* files that nodes import
    Results, Owner,   \* settled outputs, the node each belongs to
    Needs,            \* the managed artifacts a result refers to
    MaxEdits,         \* bound on edits
    MaxSaves,         \* bound on saves
    MaxMishaps        \* bound on crashes and failing calls of the system

ASSUME SaveAssumption ==
    /\ NoPath \notin Paths
    /\ Owner \in [Results -> Nodes]
    /\ Needs \in [Results -> SUBSET Artifacts]
    /\ MaxEdits \in Nat /\ MaxSaves \in Nat /\ MaxMishaps \in Nat

VARIABLES
    files,        \* <<root, kind, id>> of every file in a sidecar or scratch root
    sidecars,     \* the paths whose sidecar directory exists
    gens,         \* records named by the manifest of each generation
    docs,         \* the document at each path
    auto,         \* the autosave
    envelope,     \* the project_path of the session envelope
    running,      \* the shell is up
    live,         \* the project in the window
    session,      \* current durable-eligible records of the solution store
    bound,        \* _active_generation_id of the store
    autosaved,    \* last_autosave_fingerprint and epoch are those of live
    save,         \* the save under way
    pending,      \* _deferred_solution_cleanup with the contexts of the runtime
    deferred,     \* _deferred_artifact_cleanup
    closing,      \* what close_session has still to do, and for which path
    shed,         \* history: staged files that a close has deleted
    edits,        \* document epoch
    saves, mishaps

disk == <<files, sidecars, gens, docs, auto, envelope>>
window == <<running, live, session, bound, autosaved>>
cleaning == <<pending, deferred>>
leaving == <<closing, shed>>
vars == <<disk, window, save, cleaning, leaving, edits, saves, mishaps>>

Gens == 1..MaxSaves
NoGen == 0

File(root, kind, ids) == {<<root, kind, i>> : i \in ids}
Reach(p, g) == File(p, "gen", {g}) \union File(p, "rec", gens[g])
Readable(p, g) == g \in Gens /\ Reach(p, g) \subseteq files
SolutionFiles(p) == {f \in files : f[1] = p /\ f[2] \in {"rec", "gen"}}

NoDoc == [some |-> FALSE, nodes |-> {}, uses |-> {}, managed |-> {}, gen |-> NoGen]
NoAuto == [some |-> FALSE, newer |-> {}, nodes |-> {}, uses |-> {}, managed |-> {},
           staged |-> {}, gen |-> NoGen, dirty |-> FALSE, home |-> NoPath, astray |-> FALSE]
Blank == [path |-> NoPath, nodes |-> Nodes, uses |-> {}, managed |-> {}, staged |-> {},
          gen |-> NoGen, dirty |-> FALSE, astray |-> FALSE]
Stays == [pc |-> "no", path |-> NoPath]
Idle == [pc |-> "idle", target |-> NoPath, epoch |-> 0, nodes |-> {}, uses |-> {},
         offered |-> {}, prev |-> NoGen, valid |-> TRUE, required |-> {},
         kept |-> {}, before |-> {}, gen |-> NoGen, cand |-> {}, next |-> 0]

Init ==
    /\ files = {} /\ sidecars = {}
    /\ gens = [g \in Gens |-> {}]
    /\ docs = [p \in Paths |-> NoDoc]
    /\ auto = NoAuto /\ envelope = NoPath
    /\ running = TRUE /\ live = Blank /\ session = {} /\ bound = NoGen
    /\ autosaved = TRUE
    /\ save = Idle
    /\ pending = <<>> /\ deferred = [p \in Paths |-> {}]
    /\ closing = Stays /\ shed = {}
    /\ edits = 0 /\ saves = 0 /\ mishaps = 0

---------------------------------------------------------------------------
(* Authoring.  Between the steps of a save an edit can only come before a  *)
(* check of the token.                                                     *)
Authoring == running /\ save.pc \in {"idle", "staged", "verified"} /\ edits < MaxEdits

Edited(project) ==
    /\ live' = [project EXCEPT !.dirty = TRUE]
    /\ edits' = edits + 1
    /\ autosaved' = FALSE
    /\ UNCHANGED <<running, session, bound, save, cleaning, closing, saves, mishaps>>

(* A node imports a file: its copy is staged beside the project, or in a   *)
(* scratch root while there is none.  Ids are not used twice.              *)
Import(a) ==
    /\ Authoring
    /\ \A f \in files : ~(f[2] \in {"tmp", "man"} /\ f[3] = a)
    /\ a \notin live.uses \union live.managed \union live.staged \union auto.staged
    /\ files' = files \union File(live.path, "tmp", {a})
    /\ sidecars' = sidecars \union ({live.path} \ {NoPath})
    /\ shed' = shed \ File(live.path, "tmp", {a})
    /\ Edited([live EXCEPT !.uses = @ \union {a}, !.staged = @ \union {a}])
    /\ UNCHANGED <<gens, docs, auto, envelope>>

(* The reference goes, the entry in the store and the file stay.           *)
Drop(a) ==
    /\ Authoring
    /\ a \in live.uses
    /\ Edited([live EXCEPT !.uses = @ \ {a}])
    /\ UNCHANGED <<disk, shed>>

RemoveNode(n) ==
    /\ Authoring
    /\ n \in live.nodes
    /\ Edited([live EXCEPT !.nodes = @ \ {n}])
    /\ UNCHANGED <<disk, shed>>

(* A run settles a node: its current result is r from now on.              *)
Settle(r) ==
    /\ running
    /\ r \notin session
    /\ Owner[r] \in live.nodes
    /\ Needs[r] \subseteq live.managed
    /\ session' = {r} \union {s \in session : Owner[s] # Owner[r]}
    /\ UNCHANGED <<disk, running, live, bound, autosaved, save, cleaning, leaving,
                   edits, saves, mishaps>>

---------------------------------------------------------------------------
(* Autosave and session.                                                   *)
Snapshot == [some |-> TRUE, newer |-> Paths, nodes |-> live.nodes, uses |-> live.uses,
             managed |-> live.managed, staged |-> live.staged, gen |-> live.gen,
             dirty |-> live.dirty, home |-> live.path, astray |-> live.astray]

AutosaveTick ==
    /\ running /\ save.pc = "idle"
    /\ auto' = IF autosaved THEN auto ELSE Snapshot
    /\ autosaved' = TRUE
    /\ envelope' = live.path
    /\ UNCHANGED <<files, sidecars, gens, docs, running, live, session, bound, save,
                   cleaning, leaving, edits, saves, mishaps>>

Mishap == mishaps < MaxMishaps /\ mishaps' = mishaps + 1

(* Removes the autosave; that it could not be unlinked is not noticed.     *)
Discard ==
    \/ auto' = NoAuto /\ UNCHANGED mishaps
    \/ auto.some /\ Mishap /\ UNCHANGED auto

(* A project replaces the one in the window.  Binding reads the manifest   *)
(* of its generation and no record.                                        *)
Install(project) ==
    /\ live' = project
    /\ session' = {}
    /\ bound' = IF <<project.path, "gen", project.gen>> \in files
                THEN project.gen ELSE NoGen
    /\ autosaved' = TRUE

Opened(p) == [path |-> p, nodes |-> docs[p].nodes, uses |-> docs[p].uses,
              managed |-> docs[p].managed, staged |-> {}, gen |-> docs[p].gen,
              dirty |-> FALSE, astray |-> FALSE]

Open(p) ==
    /\ running /\ save.pc = "idle"
    /\ docs[p].some
    /\ Install(Opened(p))
    /\ Discard
    /\ envelope' = p
    /\ UNCHANGED <<files, sidecars, gens, docs, running, save, cleaning, leaving,
                   edits, saves>>

Stopped ==
    /\ running' = FALSE
    /\ live' = Blank /\ session' = {} /\ bound' = NoGen /\ autosaved' = TRUE
    /\ save' = Idle
    /\ pending' = <<>> /\ deferred' = [p \in Paths |-> {}]

(* Unlinking is best effort: what can be left of the files.                *)
Unlinked(doomed) == {files \ gone : gone \in SUBSET doomed}

(* Closing the window discards what is staged, then writes the envelope,   *)
(* then removes the autosave, of which the last two may fail unnoticed.    *)
Quit ==
    LET doomed == File(live.path, "tmp", live.staged) \intersect files
    IN  /\ running /\ save.pc = "idle"
        /\ files' \in Unlinked(doomed)
        /\ IF doomed \intersect files' = {} THEN UNCHANGED mishaps ELSE Mishap
        /\ shed' = shed \union (files \ files')
        /\ closing' = [pc |-> "envelope", path |-> live.path]
        /\ Stopped
        /\ UNCHANGED <<sidecars, gens, docs, auto, envelope, edits, saves>>

CloseEnvelope ==
    /\ closing.pc = "envelope"
    /\ \/ envelope' = closing.path /\ UNCHANGED mishaps
       \/ Mishap /\ UNCHANGED envelope
    /\ closing' = [pc |-> "autosave", path |-> NoPath]
    /\ UNCHANGED <<files, sidecars, gens, docs, auto, window, save, cleaning, shed, edits,
                   saves>>

CloseAutosave ==
    /\ closing.pc = "autosave"
    /\ Discard
    /\ closing' = Stays
    /\ UNCHANGED <<files, sidecars, gens, docs, envelope, window, save, cleaning, shed,
                   edits, saves>>

Crash ==
    /\ running \/ closing # Stays
    /\ Mishap
    /\ Stopped
    /\ closing' = Stays
    /\ UNCHANGED <<disk, shed, edits, saves>>

(* What the autosave holds differs from the document at the envelope's     *)
(* path, and is younger.  Without a path it is compared with nothing.      *)
Recoverable ==
    /\ auto.some
    /\ envelope # NoPath =>
          /\ envelope \in auto.newer
          /\ ~ /\ auto.staged = {} /\ ~auto.dirty /\ auto.gen = docs[envelope].gen
               /\ auto.nodes = docs[envelope].nodes /\ auto.uses = docs[envelope].uses
               /\ auto.managed = docs[envelope].managed

(* Astray: installed at another path than the one it was written for,      *)
(* because the envelope had not been written yet.  The code does not know. *)
Recovered == [path |-> envelope, nodes |-> auto.nodes, uses |-> auto.uses,
              managed |-> auto.managed, staged |-> auto.staged, gen |-> auto.gen,
              dirty |-> auto.dirty, astray |-> auto.astray \/ auto.home # envelope]

(* Starting again.  The autosave is deleted before the recovered project   *)
(* is installed, and that one counts as autosaved.  A document is never    *)
(* reopened by itself.  (An unsaved project is resumed without asking when *)
(* the envelope has the fingerprint of the autosave, which is left out:    *)
(* here one can always decline.)                                           *)
Restart ==
    /\ ~running /\ closing = Stays
    /\ running' = TRUE
    /\ \/ /\ Recoverable
          /\ Install(Recovered)
          /\ Discard
          /\ UNCHANGED shed
       \/ /\ Install(Blank)
          /\ IF envelope = NoPath \/ envelope \in auto.newer
             THEN Discard ELSE UNCHANGED <<auto, mishaps>>
          /\ shed' = IF auto'.some THEN shed ELSE {}
    /\ UNCHANGED <<files, sidecars, gens, docs, envelope, save, cleaning, closing, edits,
                   saves>>

---------------------------------------------------------------------------
(* The save, up to the commit.                                             *)

(* Mutant: the generation id of the save before is used again.             *)
GenerationReused == saves

(* Generations have fresh ids.                                             *)
Generation == saves + 1

(* Replaces the document of the open project, or creates one where neither *)
(* a document nor a sidecar is.  The results are those of the store and of *)
(* the generation it is bound to, which is dropped whole if damaged.       *)
BeginSave(p) ==
    /\ running /\ save.pc = "idle" /\ saves < MaxSaves
    /\ p # live.path => ~docs[p].some /\ p \notin sidecars
    /\ LET valid == bound # NoGen => Readable(live.path, bound)
           kept  == IF bound # NoGen /\ valid THEN gens[bound] ELSE {}
           all   == kept \union {r \in session : Owner[r] \in live.nodes}
       IN  save' = [Idle EXCEPT !.pc = "begun", !.target = p, !.epoch = edits,
                        !.nodes = live.nodes, !.uses = live.uses, !.offered = all,
                        !.prev = IF valid THEN bound ELSE NoGen, !.valid = valid,
                        !.required = UNION {Needs[r] : r \in all},
                        !.gen = Generation]
    /\ saves' = saves + 1
    /\ sidecars' = sidecars \union {p}
    /\ UNCHANGED <<files, gens, docs, auto, envelope, window, cleaning, leaving,
                   edits, mishaps>>

Source(a) == <<live.path, IF a \in live.staged THEN "tmp" ELSE "man", a>>

(* Mutant: a staged file is moved into the destination instead of copied.  *)
StageArtifactsMoved ==
    LET kept == {a \in save.uses \union (save.required \intersect live.managed) :
                    Source(a) \in files}
    IN  /\ save.pc = "begun"
        /\ save.uses \subseteq kept
        /\ files' = (files \ {Source(a) : a \in kept \intersect live.staged})
                        \union File(save.target, "man", kept)
        /\ save' = [save EXCEPT !.pc = "artifacts", !.kept = kept]
        /\ UNCHANGED <<sidecars, gens, docs, auto, envelope, window, cleaning,
                       leaving, edits, saves, mishaps>>

(* Copies whatever the document or a result refers to.  A result can do    *)
(* without its artifact, the document cannot.                              *)
StageArtifacts ==
    LET kept == {a \in save.uses \union (save.required \intersect live.managed) :
                    Source(a) \in files}
    IN  /\ save.pc = "begun"
        /\ save.uses \subseteq kept
        /\ files' = files \union File(save.target, "man", kept)
        /\ save' = [save EXCEPT
              !.pc = "artifacts", !.kept = kept,
              !.before = IF save.target = live.path
                         THEN File(live.path, "man", live.managed)
                                 \union File(live.path, "tmp", live.staged)
                         ELSE {}]
        /\ UNCHANGED <<sidecars, gens, docs, auto, envelope, window, cleaning,
                       leaving, edits, saves, mishaps>>

(* The records whose artifacts came along, then the manifest.  Afterwards  *)
(* every solution file in the sidecar is a candidate for removal.          *)
StageSolutions ==
    LET chosen == {r \in save.offered : Owner[r] \in save.nodes /\ Needs[r] \subseteq save.kept}
        new == File(save.target, "rec", chosen) \union File(save.target, "gen", {save.gen})
    IN  /\ save.pc = "artifacts"
        /\ gens' = [gens EXCEPT ![save.gen] = chosen]
        /\ files' = files \union new
        /\ save' = [save EXCEPT
              !.pc = "staged",
              !.cand = IF save.valid THEN SolutionFiles(save.target) \union new ELSE {}]
        /\ UNCHANGED <<sidecars, docs, auto, envelope, window, cleaning, leaving,
                       edits, saves, mishaps>>

(* A referenced artifact is gone, or the system fails in the middle of     *)
(* staging; what has been copied until then stays.                         *)
FailStaging ==
    /\ \/ /\ save.pc = "begun"
          /\ \E copied \in SUBSET (save.uses \union (save.required \intersect live.managed)) :
                /\ \A a \in copied : Source(a) \in files
                /\ files' = files \union File(save.target, "man", copied)
          /\ IF \A a \in save.uses : Source(a) \in files THEN Mishap ELSE UNCHANGED mishaps
       \/ /\ save.pc = "artifacts"
          /\ \E written \in SUBSET save.offered :
                files' = files \union File(save.target, "rec", written)
          /\ Mishap
       \/ /\ save.pc = "staged"
          /\ Mishap
          /\ UNCHANGED files
    /\ save' = Idle
    /\ UNCHANGED <<sidecars, gens, docs, auto, envelope, window, cleaning, leaving,
                   edits, saves>>

(* Mutant: what was captured is not compared with the project any more.    *)
FreshUnchecked == TRUE

Fresh == edits = save.epoch

Document == [some |-> TRUE, nodes |-> save.nodes, uses |-> save.uses,
             managed |-> save.kept, gen |-> save.gen]

Publish ==
    /\ docs' = [docs EXCEPT ![save.target] = Document]
    /\ auto' = [auto EXCEPT !.newer = @ \ {save.target}]

(* The document is replaced or linked.  When the call fails and the target *)
(* cannot be read afterwards the document counts as committed.             *)
Commit ==
    /\ save.pc = "staged"
    /\ Fresh
    /\ save' = [save EXCEPT !.pc = "committed"]
    /\ \/ Publish /\ UNCHANGED mishaps
       \/ Mishap /\ UNCHANGED <<docs, auto>>
    /\ UNCHANGED <<files, sidecars, gens, envelope, window, cleaning, leaving, edits,
                   saves>>

(* The project changed while the save was staged.                          *)
Stale ==
    /\ save.pc \in {"staged", "verified"}
    /\ ~Fresh
    /\ save' = Idle
    /\ UNCHANGED <<disk, window, cleaning, leaving, edits, saves, mishaps>>

---------------------------------------------------------------------------
(* After the commit.                                                       *)

(* The document is read back with all it refers to.                        *)
Verify ==
    /\ save.pc = "committed"
    /\ docs[save.target] = Document
    /\ File(save.target, "man", save.kept) \subseteq files
    /\ Readable(save.target, save.gen)
    /\ save' = [save EXCEPT !.pc = "verified"]
    /\ UNCHANGED <<disk, window, cleaning, leaving, edits, saves, mishaps>>

(* committed_not_adopted: the window keeps what it has.                    *)
FailVerify ==
    /\ save.pc = "committed"
    /\ IF docs[save.target] = Document THEN Mishap ELSE UNCHANGED mishaps
    /\ save' = Idle
    /\ UNCHANGED <<disk, window, cleaning, leaving, edits, saves>>

(* The project in the window becomes the one that was saved.               *)
Adopt ==
    /\ save.pc = "verified"
    /\ Fresh
    /\ live' = [Opened(save.target) EXCEPT !.nodes = live.nodes]
    /\ bound' = save.gen
    /\ autosaved' = TRUE
    /\ pending' = Append(pending, [gen |-> save.gen, prev |-> save.prev, path |-> save.target,
                                   cand |-> save.cand, complete |-> save.valid])
    /\ save' = [save EXCEPT !.pc = "adopted"]
    /\ UNCHANGED <<disk, running, session, deferred, leaving, edits, saves, mishaps>>

(* What the document no longer uses is protected this time and removed by  *)
(* the next save.                                                          *)
CleanArtifacts ==
    LET kept == File(save.target, "man", save.kept)
        cand == deferred[save.target] \union (save.before \ kept)
        doomed == (cand \ (save.before \union kept)) \intersect files
    IN  /\ save.pc = "adopted"
        /\ files' \in Unlinked(doomed)
        /\ IF doomed \intersect files' = {} THEN UNCHANGED mishaps ELSE Mishap
        /\ deferred' = [deferred EXCEPT ![save.target] =
                            {f \in cand \ kept : f \in save.before \/ f \in files'}]
        /\ save' = [save EXCEPT !.pc = "cleaning", !.next = 1]
        /\ UNCHANGED <<sidecars, gens, docs, auto, envelope, window, pending, leaving,
                       edits, saves>>

(* The pending results are gone through, oldest first.                      *)
Entry == pending[save.next]
Newest == save.next = Len(pending)

(* Protected are the files of the bound generation and, on the first pass, *)
(* of the one before.  If one of them cannot be read nothing is removed.   *)
Active == IF Newest THEN Entry.gen ELSE bound
Protected == {Active} \union (IF Newest THEN {Entry.prev} \ {NoGen} ELSE {})

(* Mutant: a retry goes on when the bound generation cannot be read there. *)
CollectableUnread == \A g \in Protected \ {Active} : Readable(Entry.path, g)

Collectable == \A g \in Protected : Readable(Entry.path, g)

Candidates == Entry.cand \union (IF Entry.complete THEN {} ELSE SolutionFiles(Entry.path))

Doomed == IF Collectable
          THEN (Candidates \ UNION {Reach(Entry.path, g) : g \in Protected}) \intersect files
          ELSE {}

(* Mutant: what the first pass protects is not tried again.                 *)
LeftForgotten(rest) ==
    IF Collectable
    THEN (Candidates \ UNION {Reach(Entry.path, g) : g \in Protected}) \intersect rest
    ELSE Entry.cand

(* What is not part of the bound generation is tried again.                 *)
Left(rest) ==
    IF Collectable THEN (Candidates \ Reach(Entry.path, Active)) \intersect rest
    ELSE Entry.cand

(* An older result is done with when nothing of it is left.                *)
Collect ==
    /\ save.pc = "cleaning"
    /\ save.next <= Len(pending)
    /\ \E rest \in Unlinked(Doomed) :
          /\ files' = rest
          /\ IF ~Newest /\ Left(rest) = {} /\ (Collectable \/ Entry.complete)
             THEN /\ pending' = [k \in 1..(Len(pending) - 1) |->
                                    IF k < save.next THEN pending[k] ELSE pending[k + 1]]
                  /\ UNCHANGED save
             ELSE /\ pending' = [pending EXCEPT ![save.next] =
                        [Entry EXCEPT
                           !.cand = Left(rest),
                           !.complete = Entry.complete \/ (Collectable /\ Left(rest) = {})]]
                  /\ save' = [save EXCEPT !.next = @ + 1]
    /\ IF Doomed \intersect files' = {} THEN UNCHANGED mishaps ELSE Mishap
    /\ UNCHANGED <<sidecars, gens, docs, auto, envelope, window, deferred, leaving,
                   edits, saves>>

DiscardAutosave ==
    /\ save.pc = "cleaning"
    /\ save.next > Len(pending)
    /\ Discard
    /\ autosaved' = FALSE
    /\ save' = [save EXCEPT !.pc = "persist"]
    /\ UNCHANGED <<files, sidecars, gens, docs, envelope, running, live, session,
                   bound, cleaning, leaving, edits, saves>>

(* An autosave of the saved project, then the envelope that names it.  A   *)
(* failure of the first leaves out the second.                             *)
PersistAutosave ==
    /\ save.pc = "persist"
    /\ \/ /\ auto' = Snapshot /\ autosaved' = TRUE
          /\ save' = [save EXCEPT !.pc = "envelope"]
          /\ UNCHANGED mishaps
       \/ /\ Mishap
          /\ save' = Idle
          /\ UNCHANGED <<auto, autosaved>>
    /\ UNCHANGED <<files, sidecars, gens, docs, envelope, running, live, session,
                   bound, cleaning, leaving, edits, saves>>

PersistEnvelope ==
    /\ save.pc = "envelope"
    /\ envelope' = live.path
    /\ save' = Idle
    /\ UNCHANGED <<files, sidecars, gens, docs, auto, window, cleaning, leaving,
                   edits, saves, mishaps>>

Next ==
    \/ \E a \in Artifacts : Import(a) \/ Drop(a)
    \/ \E n \in Nodes : RemoveNode(n)
    \/ \E r \in Results : Settle(r)
    \/ AutosaveTick \/ Quit \/ CloseEnvelope \/ CloseAutosave \/ Crash \/ Restart
    \/ \E p \in Paths : Open(p) \/ BeginSave(p)
    \/ StageArtifacts \/ StageSolutions \/ FailStaging
    \/ Commit \/ Stale \/ Verify \/ FailVerify \/ Adopt
    \/ CleanArtifacts \/ Collect
    \/ DiscardAutosave \/ PersistAutosave \/ PersistEnvelope

Spec == Init /\ [][Next]_vars

---------------------------------------------------------------------------
Kinds == {"tmp", "man", "rec", "gen"}
Roots == Paths \union {NoPath}
Files == Roots \X Kinds \X (Artifacts \union Results \union Gens)
Steps == {"idle", "begun", "artifacts", "staged", "committed", "verified", "adopted",
          "cleaning", "persist", "envelope"}

Documents == [some : BOOLEAN, nodes : SUBSET Nodes, uses : SUBSET Artifacts,
              managed : SUBSET Artifacts, gen : 0..MaxSaves]
Autosaves == [some : BOOLEAN, newer : SUBSET Paths, nodes : SUBSET Nodes,
              uses : SUBSET Artifacts, managed : SUBSET Artifacts,
              staged : SUBSET Artifacts, gen : 0..MaxSaves, dirty : BOOLEAN,
              home : Roots, astray : BOOLEAN]
Projects == [path : Roots, nodes : SUBSET Nodes, uses : SUBSET Artifacts,
             managed : SUBSET Artifacts, staged : SUBSET Artifacts,
             gen : 0..MaxSaves, dirty : BOOLEAN, astray : BOOLEAN]
SaveStates == [pc : Steps, target : Roots, epoch : 0..MaxEdits, nodes : SUBSET Nodes,
               uses : SUBSET Artifacts, offered : SUBSET Results, prev : 0..MaxSaves,
               valid : BOOLEAN, required : SUBSET Artifacts, kept : SUBSET Artifacts,
               before : SUBSET Files, gen : 0..MaxSaves, cand : SUBSET Files, next : Nat]
Entries == [gen : 0..MaxSaves, prev : 0..MaxSaves, path : Paths, cand : SUBSET Files,
            complete : BOOLEAN]

(* Every variable holds what the code can put there, and a save under way  *)
(* has a target and a generation of its own.                               *)
TypeOK ==
    /\ files \subseteq Files
    /\ sidecars \subseteq Paths
    /\ gens \in [Gens -> SUBSET Results]
    /\ docs \in [Paths -> Documents]
    /\ auto \in Autosaves /\ envelope \in Roots
    /\ running \in BOOLEAN /\ autosaved \in BOOLEAN
    /\ live \in Projects
    /\ session \subseteq Results
    /\ bound \in 0..MaxSaves
    /\ save \in SaveStates
    /\ save.pc # "idle" => save.target \in Paths /\ save.gen \in Gens
    /\ pending \in Seq(Entries)
    /\ deferred \in [Paths -> SUBSET Files]
    /\ closing \in [pc : {"no", "envelope", "autosave"}, path : Roots]
    /\ shed \subseteq Files
    /\ edits \in 0..MaxEdits /\ saves \in 0..MaxSaves /\ mishaps \in 0..MaxMishaps

(* The document at p finds its artifacts, its generation with every record *)
(* of it, and the records find the artifacts they refer to.                *)
CompleteAt(p) ==
    /\ File(p, "man", docs[p].managed) \subseteq files
    /\ Readable(p, docs[p].gen)
    /\ \A r \in gens[docs[p].gen] : Needs[r] \subseteq docs[p].managed

(* A document on disk is complete at every moment, between any two steps   *)
(* of a save and whenever the process dies: nothing it points to is        *)
(* missing yet when it is published, and no cleaning, not even the retry   *)
(* of one that failed three saves ago at another path, takes it away.      *)
DocComplete == \A p \in Paths : docs[p].some => CompleteAt(p)

(* The project in the window keeps its files and the generation it is      *)
(* bound to, and so does the autosave a restart would recover: a save that *)
(* fails, or is not adopted, leaves both usable.  (The generation that an  *)
(* autosave names is a cache and may be gone.)  The one exception are the  *)
(* staged files of an autosave that outlived the close of its project.     *)
LiveComplete ==
    ~live.astray =>
       /\ File(live.path, "man", live.managed) \subseteq files
       /\ File(live.path, "tmp", live.staged) \subseteq files \union shed
       /\ bound # NoGen => Readable(live.path, bound)
Young == auto.some /\ (auto.home = NoPath \/ auto.home \in auto.newer)
AutosaveComplete ==
    Young /\ ~auto.astray =>
       /\ File(auto.home, "man", auto.managed) \subseteq files
       /\ File(auto.home, "tmp", auto.staged) \subseteq files \union shed
WorkComplete == LiveComplete /\ AutosaveComplete

(* A project that is not marked as changed is what is on disk, also after  *)
(* saves that raced with edits, so that closing it loses nothing.          *)
UnsavedIsDirty ==
    ~live.dirty /\ ~live.astray =>
       IF live.path = NoPath
       THEN live.nodes = Nodes /\ live.uses = {}
       ELSE live.nodes = docs[live.path].nodes /\ live.uses = docs[live.path].uses

(* When the cleaning of a save has ended, every solution file left beside  *)
(* the document belongs to the bound generation or is pending for a later  *)
(* pass: nothing stays for ever, whatever failed before.                   *)
NothingForgotten ==
    save.pc = "persist" =>
       \A f \in SolutionFiles(save.target) :
          \/ f \in Reach(save.target, bound)
          \/ \E k \in 1..Len(pending) : /\ pending[k].path = save.target
                                       /\ (f \in pending[k].cand \/ ~pending[k].complete)

(* A document that is not complete would read as damaged.                  *)
Content(d) == [nodes |-> d.nodes, uses |-> d.uses]
Atomic == INSTANCE AtomicSave WITH
    Contents <- [nodes : SUBSET Nodes, uses : SUBSET Artifacts],
    Nothing <- NoDoc,
    shown <- IF running THEN Content(live) ELSE NoDoc,
    stored <- [p \in Paths |-> IF ~docs[p].some THEN NoDoc
                               ELSE IF CompleteAt(p) THEN Content(docs[p]) ELSE [damaged |-> TRUE]]
(* Seen from the documents, saving is one atomic publication of what the   *)
(* window shows, and nothing else ever changes a document.                 *)
ImplementsAtomicSave == Atomic!Spec
===========================================================================
