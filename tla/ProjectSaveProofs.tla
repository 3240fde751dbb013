------------------------- MODULE ProjectSaveProofs -------------------------
(***************************************************************************)
(* For any paths, nodes, artifacts and results, any number of edits, saves *)
(* and failures: the variables keep their types, every document on disk is *)
(* complete at every moment, saving implements one atomic publication of   *)
(* what the window shows, the window and the autosave keep their files, a  *)
(* project not marked as changed is what is on disk, and no solution file  *)
(* is forgotten by the cleanings.                                          *)
(***************************************************************************)
EXTENDS ProjectSave, SequenceTheorems, TLAPS

---------------------------------------------------------------------------
(* Types.                                                                  *)

LEMMA Constants ==
    /\ MaxSaves \in Nat /\ MaxEdits \in Nat /\ MaxMishaps \in Nat
    /\ Gens \subseteq 0..MaxSaves /\ NoGen \in 0..MaxSaves /\ NoGen \notin Gens
    /\ Paths \subseteq Roots /\ NoPath \in Roots /\ NoPath \notin Paths
BY SaveAssumption DEF Gens, NoGen, Roots

LEMMA FileTypes ==
    ASSUME NEW root \in Roots, NEW kind \in Kinds, NEW ids,
           ids \subseteq Artifacts \union Results \union Gens
    PROVE  File(root, kind, ids) \subseteq Files
BY DEF File, Files

LEMMA Starting == Idle \in SaveStates /\ Blank \in Projects /\ NoDoc \in Documents
                     /\ NoAuto \in Autosaves
<1> USE Constants
<1>1. Idle \in SaveStates
  BY DEF Idle, SaveStates, Steps
<1>2. Blank \in Projects
  BY DEF Blank, Projects
<1>3. NoDoc \in Documents /\ NoAuto \in Autosaves
  BY DEF NoDoc, NoAuto, Documents, Autosaves
<1> QED BY <1>1, <1>2, <1>3

LEMMA TypesInit == Init => TypeOK
<1> SUFFICES ASSUME Init PROVE TypeOK
  OBVIOUS
<1> USE Constants, Starting
<1>1. pending \in Seq(Entries)
  BY DEF Init
<1>2. save.pc = "idle"
  BY DEF Init, Idle
<1>3. gens \in [Gens -> SUBSET Results] /\ docs \in [Paths -> Documents]
      /\ deferred \in [Paths -> SUBSET Files]
  BY DEF Init
<1>4. edits \in 0..MaxEdits /\ saves \in 0..MaxSaves /\ mishaps \in 0..MaxMishaps
  BY DEF Init
<1>5. files \subseteq Files /\ sidecars \subseteq Paths /\ session \subseteq Results
  BY DEF Init
<1>6. closing \in [pc : {"no", "envelope", "autosave"}, path : Roots] /\ shed \subseteq Files
  BY DEF Init, Stays
<1> QED BY <1>1, <1>2, <1>3, <1>4, <1>5, <1>6 DEF Init, TypeOK

LEMMA EditTypes ==
    ASSUME TypeOK, Authoring, NEW project \in Projects, Edited(project)
    PROVE  /\ live' \in Projects /\ edits' \in 0..MaxEdits /\ autosaved' \in BOOLEAN
           /\ UNCHANGED <<running, session, bound, save, cleaning, closing, saves, mishaps>>
<1>1. [project EXCEPT !.dirty = TRUE] \in Projects
  BY DEF Projects
<1>2. live' \in Projects
  BY <1>1 DEF Edited
<1>3. edits' \in 0..MaxEdits
  BY Constants DEF TypeOK, Authoring, Edited
<1>4. autosaved' \in BOOLEAN
        /\ UNCHANGED <<running, session, bound, save, cleaning, closing, saves, mishaps>>
  BY DEF Edited
<1> QED BY <1>2, <1>3, <1>4

LEMMA TypesEdits ==
    ASSUME TypeOK,
           \/ \E a \in Artifacts : Import(a) \/ Drop(a)
           \/ \E n \in Nodes : RemoveNode(n)
           \/ \E r \in Results : Settle(r)
    PROVE  TypeOK'
<1> USE DEF TypeOK, leaving
<1>1. ASSUME NEW a \in Artifacts, Import(a) PROVE TypeOK'
  <2> DEFINE project == [live EXCEPT !.uses = @ \union {a}, !.staged = @ \union {a}]
  <2>1. project \in Projects
    BY DEF Projects
  <2>2. Authoring /\ Edited(project)
    BY <1>1 DEF Import
  <2>3. live.path \in Roots
    BY DEF Projects
  <2>4. File(live.path, "tmp", {a}) \subseteq Files
    BY <2>3, FileTypes DEF Kinds
  <2>5. files' \subseteq Files
    BY <1>1, <2>4 DEF Import
  <2>6. sidecars' \subseteq Paths /\ shed' \subseteq Files
    BY <1>1, <2>3 DEF Import, Roots
  <2> HIDE DEF project
  <2>7. /\ live' \in Projects /\ edits' \in 0..MaxEdits /\ autosaved' \in BOOLEAN
        /\ UNCHANGED <<running, session, bound, save, cleaning, closing, saves, mishaps>>
    BY <2>1, <2>2, EditTypes
  <2> QED BY <1>1, <2>5, <2>6, <2>7 DEF Import, cleaning
<1>2. ASSUME NEW a \in Artifacts, Drop(a) PROVE TypeOK'
  <2> DEFINE project == [live EXCEPT !.uses = @ \ {a}]
  <2>1. project \in Projects
    BY DEF Projects
  <2>2. Authoring /\ Edited(project) /\ UNCHANGED <<disk, shed>>
    BY <1>2 DEF Drop
  <2> HIDE DEF project
  <2>3. /\ live' \in Projects /\ edits' \in 0..MaxEdits /\ autosaved' \in BOOLEAN
        /\ UNCHANGED <<running, session, bound, save, cleaning, closing, saves, mishaps>>
    BY <2>1, <2>2, EditTypes
  <2> QED BY <2>2, <2>3 DEF disk, cleaning
<1>3. ASSUME NEW n \in Nodes, RemoveNode(n) PROVE TypeOK'
  <2> DEFINE project == [live EXCEPT !.nodes = @ \ {n}]
  <2>1. project \in Projects
    BY DEF Projects
  <2>2. Authoring /\ Edited(project) /\ UNCHANGED <<disk, shed>>
    BY <1>3 DEF RemoveNode
  <2> HIDE DEF project
  <2>3. /\ live' \in Projects /\ edits' \in 0..MaxEdits /\ autosaved' \in BOOLEAN
        /\ UNCHANGED <<running, session, bound, save, cleaning, closing, saves, mishaps>>
    BY <2>1, <2>2, EditTypes
  <2> QED BY <2>2, <2>3 DEF disk, cleaning
<1>4. ASSUME NEW r \in Results, Settle(r) PROVE TypeOK'
  BY <1>4 DEF Settle, disk, cleaning
<1> QED BY <1>1, <1>2, <1>3, <1>4

LEMMA InstallTypes ==
    ASSUME TypeOK, NEW project \in Projects, Install(project)
    PROVE  /\ live' \in Projects /\ session' \subseteq Results
           /\ bound' \in 0..MaxSaves /\ autosaved' \in BOOLEAN
<1>1. project.gen \in 0..MaxSaves
  BY DEF Projects
<1> QED BY <1>1, Constants DEF Install

LEMMA OpenedTypes ==
    ASSUME TypeOK, NEW p \in Paths
    PROVE  Opened(p) \in Projects
<1>1. docs[p] \in Documents
  BY DEF TypeOK
<1> QED BY <1>1, Constants DEF Opened, Documents, Projects

LEMMA StoppedTypes ==
    ASSUME TypeOK, Stopped
    PROVE  /\ running' \in BOOLEAN /\ live' \in Projects /\ session' \subseteq Results
           /\ bound' \in 0..MaxSaves /\ autosaved' \in BOOLEAN
           /\ save' \in SaveStates /\ save'.pc = "idle"
           /\ pending' \in Seq(Entries) /\ deferred' \in [Paths -> SUBSET Files]
<1>1. pending' \in Seq(Entries)
  BY DEF Stopped
<1>2. save'.pc = "idle"
  BY DEF Stopped, Idle
<1> QED BY <1>1, <1>2, Starting, Constants DEF Stopped

LEMMA MishapTypes ==
    ASSUME TypeOK, Mishap \/ UNCHANGED mishaps
    PROVE  mishaps' \in 0..MaxMishaps
BY Constants DEF TypeOK, Mishap

LEMMA DiscardCases ==
    ASSUME Discard
    PROVE  /\ auto' = NoAuto \/ auto' = auto
           /\ Mishap \/ UNCHANGED mishaps
BY DEF Discard

LEMMA TypesSession ==
    ASSUME TypeOK,
           \/ AutosaveTick \/ Quit \/ CloseEnvelope \/ CloseAutosave \/ Crash \/ Restart
           \/ \E p \in Paths : Open(p)
    PROVE  TypeOK'
<1> USE Constants, Starting DEF TypeOK, leaving
<1>1. Snapshot \in Autosaves
  BY DEF Snapshot, Projects, Autosaves
<1>2. CASE AutosaveTick
  <2>1. auto' \in Autosaves
    BY <1>1, <1>2 DEF AutosaveTick
  <2>2. live.path \in Roots
    BY DEF Projects
  <2> QED BY <1>2, <2>1, <2>2 DEF AutosaveTick, cleaning
<1>3. CASE Quit
  <2>1. live.path \in Roots
    BY DEF Projects
  <2>2. files' \subseteq files
    BY <1>3 DEF Quit, Unlinked
  <2>3. Mishap \/ UNCHANGED mishaps
    BY <1>3 DEF Quit
  <2>4. closing' \in [pc : {"no", "envelope", "autosave"}, path : Roots]
    BY <1>3, <2>1 DEF Quit
  <2>5. /\ shed' = shed \union (files \ files') /\ Stopped
        /\ UNCHANGED <<sidecars, gens, docs, auto, envelope, edits, saves>>
    BY <1>3 DEF Quit
  <2>6. mishaps' \in 0..MaxMishaps
    BY <2>3, MishapTypes
  <2> QED BY <2>2, <2>4, <2>5, <2>6, StoppedTypes
<1>4. CASE Crash
  <2>1. mishaps' \in 0..MaxMishaps
    BY <1>4, MishapTypes DEF Crash
  <2>2. Stopped /\ UNCHANGED <<disk, shed, edits, saves>> /\ closing' = Stays
    BY <1>4 DEF Crash
  <2>3. Stays \in [pc : {"no", "envelope", "autosave"}, path : Roots]
    BY DEF Stays
  <2> QED BY <2>1, <2>2, <2>3, StoppedTypes DEF disk
<1>5. CASE Restart
  <2>1. Recovered \in Projects
    BY DEF Recovered, Autosaves, Projects
  <2>2. \E project \in Projects : Install(project)
    BY <1>5, <2>1 DEF Restart
  <2>3. /\ live' \in Projects /\ session' \subseteq Results
        /\ bound' \in 0..MaxSaves /\ autosaved' \in BOOLEAN
    BY <2>2, InstallTypes
  <2>4. auto' \in Autosaves /\ (Mishap \/ UNCHANGED mishaps)
    BY <1>5, DiscardCases DEF Restart
  <2>5. mishaps' \in 0..MaxMishaps
    BY <2>4, MishapTypes
  <2>6. shed' \subseteq Files /\ running' \in BOOLEAN
    BY <1>5 DEF Restart
  <2> QED BY <1>5, <2>3, <2>4, <2>5, <2>6 DEF Restart, cleaning
<1>6. ASSUME NEW p \in Paths, Open(p) PROVE TypeOK'
  <2>1. /\ live' \in Projects /\ session' \subseteq Results
        /\ bound' \in 0..MaxSaves /\ autosaved' \in BOOLEAN
    BY <1>6, OpenedTypes, InstallTypes DEF Open
  <2>2. auto' \in Autosaves /\ (Mishap \/ UNCHANGED mishaps)
    BY <1>6, DiscardCases DEF Open
  <2>3. mishaps' \in 0..MaxMishaps
    BY <2>2, MishapTypes
  <2> QED BY <1>6, <2>1, <2>2, <2>3 DEF Open, cleaning
<1>7. CASE CloseEnvelope \/ CloseAutosave
  <2>1. auto' \in Autosaves /\ (Mishap \/ UNCHANGED mishaps)
    BY <1>7, DiscardCases DEF CloseEnvelope, CloseAutosave
  <2>2. mishaps' \in 0..MaxMishaps
    BY <2>1, MishapTypes
  <2>3. envelope' \in Roots
    BY <1>7 DEF CloseEnvelope, CloseAutosave
  <2>4. closing' \in [pc : {"no", "envelope", "autosave"}, path : Roots]
    BY <1>7 DEF CloseEnvelope, CloseAutosave, Stays
  <2>5. UNCHANGED <<files, sidecars, gens, docs, window, save, cleaning, shed, edits, saves>>
    BY <1>7 DEF CloseEnvelope, CloseAutosave
  <2> QED BY <2>1, <2>2, <2>3, <2>4, <2>5 DEF window, cleaning
<1> QED BY <1>2, <1>3, <1>4, <1>5, <1>6, <1>7

LEMMA SomeGen == \A g \in 0..MaxSaves : g # NoGen => g \in Gens
BY SaveAssumption DEF Gens, NoGen

LEMMA TypesBegin ==
    ASSUME TypeOK, NEW p \in Paths, BeginSave(p)
    PROVE  TypeOK'
<1> USE Constants, Starting DEF TypeOK
<1> DEFINE valid == bound # NoGen => Readable(live.path, bound)
           kept  == IF bound # NoGen /\ valid THEN gens[bound] ELSE {}
           all   == kept \union {r \in session : Owner[r] \in live.nodes}
           required == UNION {Needs[r] : r \in all}
           prev == IF valid THEN bound ELSE NoGen
<1>1. all \subseteq Results
  BY SomeGen
<1>2. required \subseteq Artifacts
  BY <1>1, SaveAssumption
<1>3. prev \in 0..MaxSaves /\ valid \in BOOLEAN
  OBVIOUS
<1>4. Generation \in Gens /\ saves' \in 0..MaxSaves
  BY DEF BeginSave, Generation, Gens
<1>5. live.nodes \subseteq Nodes /\ live.uses \subseteq Artifacts
  BY DEF Projects
<1>6. save' = [Idle EXCEPT !.pc = "begun", !.target = p, !.epoch = edits,
                    !.nodes = live.nodes, !.uses = live.uses, !.offered = all,
                    !.prev = prev, !.valid = valid, !.required = required,
                    !.gen = Generation]
  BY DEF BeginSave
<1>7. UNCHANGED <<files, gens, docs, auto, envelope, window, cleaning, leaving, edits, mishaps>>
      /\ sidecars' = sidecars \union {p}
  BY DEF BeginSave
<1> HIDE DEF all, required, prev, valid, kept
<1>8. save' \in SaveStates /\ save'.target = p /\ save'.gen = Generation
  <2>1. Generation \in 0..MaxSaves /\ p \in Roots /\ edits \in 0..MaxEdits
    BY <1>4
  <2> QED BY <2>1, <1>1, <1>2, <1>3, <1>5, <1>6 DEF SaveStates, Idle, Steps
<1> QED BY <1>4, <1>7, <1>8 DEF window, cleaning, leaving

LEMMA SaveFields ==
    ASSUME TypeOK
    PROVE  /\ save.pc \in Steps /\ save.target \in Roots /\ save.epoch \in 0..MaxEdits
           /\ save.nodes \subseteq Nodes /\ save.uses \subseteq Artifacts
           /\ save.offered \subseteq Results /\ save.prev \in 0..MaxSaves
           /\ save.valid \in BOOLEAN /\ save.required \subseteq Artifacts
           /\ save.kept \subseteq Artifacts /\ save.before \subseteq Files
           /\ save.gen \in 0..MaxSaves /\ save.cand \subseteq Files /\ save.next \in Nat
           /\ save.pc # "idle" => save.target \in Paths /\ save.gen \in Gens
BY DEF TypeOK, SaveStates

LEMMA LiveFields ==
    ASSUME TypeOK
    PROVE  /\ live.path \in Roots /\ live.nodes \subseteq Nodes
           /\ live.uses \subseteq Artifacts /\ live.managed \subseteq Artifacts
           /\ live.staged \subseteq Artifacts /\ live.gen \in 0..MaxSaves
           /\ live.dirty \in BOOLEAN /\ live.astray \in BOOLEAN
BY DEF TypeOK, Projects

LEMMA TypesArtifacts ==
    ASSUME TypeOK, StageArtifacts
    PROVE  TypeOK'
<1> USE Constants DEF TypeOK
<1> DEFINE kept == {a \in save.uses \union (save.required \intersect live.managed) :
                        Source(a) \in files}
           before == IF save.target = live.path
                     THEN File(live.path, "man", live.managed)
                             \union File(live.path, "tmp", live.staged)
                     ELSE {}
<1>1. kept \subseteq Artifacts /\ save.target \in Paths
  BY SaveFields DEF StageArtifacts
<1>2. File(save.target, "man", kept) \subseteq Files
  BY <1>1, FileTypes DEF Kinds
<1>3. before \subseteq Files
  <2>1. File(live.path, "man", live.managed) \subseteq Files
    BY LiveFields, FileTypes DEF Kinds
  <2>2. File(live.path, "tmp", live.staged) \subseteq Files
    BY LiveFields, FileTypes DEF Kinds
  <2> QED BY <2>1, <2>2
<1>4. /\ files' = files \union File(save.target, "man", kept)
      /\ save' = [save EXCEPT !.pc = "artifacts", !.kept = kept, !.before = before]
      /\ UNCHANGED <<sidecars, gens, docs, auto, envelope, window, cleaning, leaving, edits,
                     saves, mishaps>>
      /\ save.pc = "begun"
  BY DEF StageArtifacts
<1> HIDE DEF kept, before
<1>5. save' \in SaveStates /\ save'.target = save.target /\ save'.gen = save.gen
  BY <1>1, <1>3, <1>4 DEF SaveStates, Steps
<1>6. save.target \in Paths /\ save.gen \in Gens
  BY <1>4
<1> QED BY <1>2, <1>4, <1>5, <1>6 DEF window, cleaning, leaving

LEMMA TypesSolutions ==
    ASSUME TypeOK, StageSolutions
    PROVE  TypeOK'
<1> USE Constants DEF TypeOK
<1> DEFINE chosen == {r \in save.offered : Owner[r] \in save.nodes
                                              /\ Needs[r] \subseteq save.kept}
           new == File(save.target, "rec", chosen) \union File(save.target, "gen", {save.gen})
           cand == IF save.valid THEN SolutionFiles(save.target) \union new ELSE {}
<1>1. chosen \subseteq Results /\ save.target \in Paths /\ save.gen \in Gens
  BY SaveFields DEF StageSolutions
<1>2. new \subseteq Files
  <2>1. File(save.target, "rec", chosen) \subseteq Files
    BY <1>1, FileTypes DEF Kinds
  <2>2. File(save.target, "gen", {save.gen}) \subseteq Files
    BY <1>1, FileTypes DEF Kinds
  <2> QED BY <2>1, <2>2
<1>3. cand \subseteq Files
  BY <1>2 DEF SolutionFiles
<1>4. /\ gens' = [gens EXCEPT ![save.gen] = chosen]
      /\ files' = files \union new
      /\ save' = [save EXCEPT !.pc = "staged", !.cand = cand]
      /\ UNCHANGED <<sidecars, docs, auto, envelope, window, cleaning, leaving, edits, saves,
                     mishaps>>
  BY DEF StageSolutions
<1> HIDE DEF chosen, new, cand
<1>5. save' \in SaveStates /\ save'.target = save.target /\ save'.gen = save.gen
  BY <1>3, <1>4 DEF SaveStates, Steps
<1>6. gens' \in [Gens -> SUBSET Results]
  BY <1>1, <1>4
<1> QED BY <1>1, <1>2, <1>4, <1>5, <1>6 DEF window, cleaning, leaving

LEMMA TypesFailing ==
    ASSUME TypeOK, FailStaging \/ FailVerify \/ Stale
    PROVE  TypeOK'
<1> USE Constants, Starting DEF TypeOK
<1>1. Mishap \/ UNCHANGED mishaps
  BY DEF FailStaging, FailVerify, Stale
<1>2. mishaps' \in 0..MaxMishaps
  BY <1>1, MishapTypes
<1>3. files' \subseteq Files
  <2>1. CASE FailStaging
    <3>1. ASSUME NEW copied \in SUBSET (save.uses \union (save.required \intersect live.managed)),
                 save.pc = "begun"
          PROVE  File(save.target, "man", copied) \subseteq Files
      <4>1. copied \subseteq Artifacts /\ save.target \in Roots
        BY <3>1, SaveFields
      <4> QED BY <4>1, FileTypes DEF Kinds
    <3>2. ASSUME NEW written \in SUBSET save.offered, save.pc = "artifacts"
          PROVE  File(save.target, "rec", written) \subseteq Files
      <4>1. written \subseteq Results /\ save.target \in Roots
        BY <3>2, SaveFields
      <4> QED BY <4>1, FileTypes DEF Kinds
    <3> QED BY <2>1, <3>1, <3>2 DEF FailStaging
  <2>2. CASE FailVerify \/ Stale
    BY <2>2 DEF FailVerify, Stale, disk
  <2> QED BY <2>1, <2>2
<1>4. /\ save' = Idle
      /\ UNCHANGED <<sidecars, gens, docs, auto, envelope, window, cleaning, leaving, edits, saves>>
  BY DEF FailStaging, FailVerify, Stale, disk
<1>5. save'.pc = "idle"
  BY <1>4 DEF Idle
<1> QED BY <1>2, <1>3, <1>4, <1>5 DEF window, cleaning, leaving

LEMMA DocumentTypes ==
    ASSUME TypeOK, save.pc # "idle"
    PROVE  Document \in Documents
BY SaveFields, Constants DEF Document, Documents

LEMMA TypesCommit ==
    ASSUME TypeOK, Commit \/ Verify
    PROVE  TypeOK'
<1> USE DEF TypeOK, leaving
<1>1. CASE Commit
  <2>1. Mishap \/ UNCHANGED mishaps
    BY <1>1 DEF Commit
  <2>2. mishaps' \in 0..MaxMishaps
    BY <2>1, MishapTypes
  <2>3. docs' \in [Paths -> Documents] /\ auto' \in Autosaves
    <3>1. Document \in Documents
      BY <1>1, DocumentTypes DEF Commit
    <3>2. [auto EXCEPT !.newer = @ \ {save.target}] \in Autosaves
      BY DEF Autosaves
    <3> QED BY <1>1, <3>1, <3>2 DEF Commit, Publish
  <2>4. save' = [save EXCEPT !.pc = "committed"] /\ save.pc = "staged"
    BY <1>1 DEF Commit
  <2>5. save' \in SaveStates /\ save'.target \in Paths /\ save'.gen \in Gens
    BY <2>4 DEF SaveStates, Steps
  <2> QED BY <1>1, <2>2, <2>3, <2>5 DEF Commit, window, cleaning
<1>2. CASE Verify
  <2>1. save' = [save EXCEPT !.pc = "verified"] /\ save.pc = "committed"
    BY <1>2 DEF Verify
  <2>2. save' \in SaveStates /\ save'.target \in Paths /\ save'.gen \in Gens
    BY <2>1 DEF SaveStates, Steps
  <2> QED BY <1>2, <2>2 DEF Verify, disk, window, cleaning
<1> QED BY <1>1, <1>2

(* What happens to the list of pending results.                            *)
LEMMA AppendTo ==
    ASSUME NEW S, NEW s \in Seq(S), NEW e \in S
    PROVE  /\ Append(s, e) \in Seq(S) /\ Len(Append(s, e)) = Len(s) + 1
           /\ \A i \in 1 .. Len(s) : Append(s, e)[i] = s[i]
           /\ Append(s, e)[Len(s) + 1] = e
OBVIOUS

LEMMA WithoutOne ==
    ASSUME NEW S, NEW s \in Seq(S), NEW i \in 1 .. Len(s), NEW t,
           t = [k \in 1 .. (Len(s) - 1) |-> IF k < i THEN s[k] ELSE s[k + 1]]
    PROVE  /\ t \in Seq(S) /\ Len(t) = Len(s) - 1
           /\ \A k \in 1 .. Len(t) : t[k] = IF k < i THEN s[k] ELSE s[k + 1]
<1>1. Len(s) \in Nat /\ Len(s) - 1 \in Nat
  OBVIOUS
<1>2. \A k \in 1 .. (Len(s) - 1) : (IF k < i THEN s[k] ELSE s[k + 1]) \in S
  BY <1>1
<1>3. t \in [1 .. (Len(s) - 1) -> S]
  BY <1>2
<1>4. t \in Seq(S)
  BY <1>1, <1>3, SeqDef
<1>5. Len(t) = Len(s) - 1
  BY <1>1, <1>3, <1>4, LenProperties
<1> QED BY <1>4, <1>5

LEMMA OneChanged ==
    ASSUME NEW S, NEW s \in Seq(S), NEW i \in 1 .. Len(s), NEW e \in S, NEW t,
           t = [s EXCEPT ![i] = e]
    PROVE  /\ t \in Seq(S) /\ Len(t) = Len(s)
           /\ \A k \in 1 .. Len(t) : t[k] = IF k = i THEN e ELSE s[k]
OBVIOUS

LEMMA TypesAdopt ==
    ASSUME TypeOK, Adopt
    PROVE  TypeOK'
<1> USE Constants DEF TypeOK
<1> DEFINE entry == [gen |-> save.gen, prev |-> save.prev, path |-> save.target,
                     cand |-> save.cand, complete |-> save.valid]
<1>1. save.target \in Paths /\ save.gen \in Gens
  BY DEF Adopt
<1>2. entry \in Entries
  BY <1>1, SaveFields DEF Entries
<1>3. pending' \in Seq(Entries)
  BY <1>2, AppendTo DEF Adopt
<1>4. live' \in Projects
  <2>1. Opened(save.target) \in Projects
    BY <1>1, OpenedTypes
  <2> QED BY <2>1, LiveFields DEF Adopt, Projects
<1>5. save' = [save EXCEPT !.pc = "adopted"]
  BY DEF Adopt
<1>6. save' \in SaveStates /\ save'.target \in Paths /\ save'.gen \in Gens
  BY <1>1, <1>5 DEF SaveStates, Steps
<1> QED BY <1>1, <1>3, <1>4, <1>6 DEF Adopt, disk, leaving

LEMMA TypesClean ==
    ASSUME TypeOK, CleanArtifacts
    PROVE  TypeOK'
<1> USE Constants DEF TypeOK
<1>1. Mishap \/ UNCHANGED mishaps
  BY DEF CleanArtifacts
<1>2. mishaps' \in 0..MaxMishaps
  BY <1>1, MishapTypes
<1>3. files' \subseteq files
  BY DEF CleanArtifacts, Unlinked
<1>4. deferred' \in [Paths -> SUBSET Files]
  <2> DEFINE kept == File(save.target, "man", save.kept)
             cand == deferred[save.target] \union (save.before \ kept)
             left == {f \in cand \ kept : f \in save.before \/ f \in files'}
  <2>1. save.target \in Paths /\ save.before \subseteq Files
    BY SaveFields DEF CleanArtifacts
  <2>2. left \subseteq Files
    BY <2>1
  <2>3. deferred' = [deferred EXCEPT ![save.target] = left]
    BY DEF CleanArtifacts
  <2> HIDE DEF kept, cand, left
  <2> QED BY <2>1, <2>2, <2>3
<1>5. save' = [save EXCEPT !.pc = "cleaning", !.next = 1] /\ save.pc = "adopted"
  BY DEF CleanArtifacts
<1>6. save' \in SaveStates /\ save'.target \in Paths /\ save'.gen \in Gens
  BY <1>5 DEF SaveStates, Steps
<1> QED BY <1>2, <1>3, <1>4, <1>6 DEF CleanArtifacts, window, leaving

LEMMA EntryTypes ==
    ASSUME TypeOK, save.next \in 1 .. Len(pending)
    PROVE  /\ Entry \in Entries /\ Entry.gen \in 0..MaxSaves
           /\ Entry.prev \in 0..MaxSaves /\ Entry.path \in Paths
           /\ Entry.cand \subseteq Files /\ Entry.complete \in BOOLEAN
<1>1. Entry \in Entries
  BY DEF TypeOK, Entry
<1> QED BY <1>1 DEF Entries

(* The list after a pass over the result save.next, which can leave it.    *)
Popped(s) == s = [k \in 1..(Len(pending) - 1) |->
                     IF k < save.next THEN pending[k] ELSE pending[k + 1]]
Kept(s, rest) ==
    s = [pending EXCEPT ![save.next] =
            [Entry EXCEPT !.cand = Left(rest),
                          !.complete = Entry.complete \/ (Collectable /\ Left(rest) = {})]]

LEMMA CollectCases ==
    ASSUME TypeOK, Collect, save.next \in 1 .. Len(pending)
    PROVE  \/ ~Newest /\ Popped(pending') /\ save' = save
           \/ Kept(pending', files') /\ save' = [save EXCEPT !.next = @ + 1]
<1>1. PICK rest \in Unlinked(Doomed) :
          /\ files' = rest
          /\ IF ~Newest /\ Left(rest) = {} /\ (Collectable \/ Entry.complete)
             THEN /\ pending' = [k \in 1..(Len(pending) - 1) |->
                                    IF k < save.next THEN pending[k] ELSE pending[k + 1]]
                  /\ UNCHANGED save
             ELSE /\ pending' = [pending EXCEPT ![save.next] =
                        [Entry EXCEPT
                           !.cand = Left(rest),
                           !.complete = Entry.complete \/ (Collectable /\ Left(rest) = {})]]
                  /\ save' = [save EXCEPT !.next = @ + 1]
  BY DEF Collect
<1> QED BY <1>1 DEF Popped, Kept

LEMMA TypesCollect ==
    ASSUME TypeOK, Collect, save.next \in 1 .. Len(pending)
    PROVE  TypeOK'
<1> USE Constants DEF TypeOK
<1>1. Mishap \/ UNCHANGED mishaps
  BY DEF Collect
<1>2. mishaps' \in 0..MaxMishaps
  BY <1>1, MishapTypes
<1>3. files' \subseteq files
  BY DEF Collect, Unlinked
<1>4. save' \in SaveStates /\ save'.target = save.target /\ save'.gen = save.gen
      /\ save'.pc = save.pc
  <2>1. CASE save' = save
    BY <2>1
  <2>2. CASE save' = [save EXCEPT !.next = @ + 1]
    <3>1. save.next + 1 \in Nat
      BY SaveFields
    <3> QED BY <2>2, <3>1 DEF SaveStates
  <2> QED BY <2>1, <2>2, CollectCases
<1>5. pending' \in Seq(Entries)
  <2>1. CASE Popped(pending')
    BY <2>1, WithoutOne DEF Popped
  <2>2. CASE Kept(pending', files')
    <3> DEFINE e == [Entry EXCEPT !.cand = Left(files'),
                        !.complete = Entry.complete \/ (Collectable /\ Left(files') = {})]
    <3>1. Left(files') \subseteq Files
      BY <1>3, EntryTypes DEF Left
    <3>2. e \in Entries
      <4> HIDE DEF TypeOK
      <4> QED BY <3>1, EntryTypes DEF Entries
    <3>3. pending' = [pending EXCEPT ![save.next] = e]
      BY <2>2 DEF Kept
    <3>4. pending \in Seq(Entries)
      OBVIOUS
    <3> HIDE DEF e, TypeOK
    <3> QED BY <3>2, <3>3, <3>4, OneChanged
  <2> QED BY <2>1, <2>2, CollectCases
<1> QED BY <1>2, <1>3, <1>4, <1>5 DEF Collect, window, leaving

LEMMA TypesPersist ==
    ASSUME TypeOK, DiscardAutosave \/ PersistAutosave \/ PersistEnvelope
    PROVE  TypeOK'
<1> USE Constants, Starting DEF TypeOK
<1>1. Mishap \/ UNCHANGED mishaps
  BY DiscardCases DEF DiscardAutosave, PersistAutosave, PersistEnvelope
<1>2. mishaps' \in 0..MaxMishaps
  BY <1>1, MishapTypes
<1>3. Snapshot \in Autosaves
  BY DEF Snapshot, Projects, Autosaves
<1>4. auto' \in Autosaves /\ autosaved' \in BOOLEAN /\ envelope' \in Roots
  <2>1. CASE DiscardAutosave
    BY <2>1, DiscardCases DEF DiscardAutosave, window
  <2>2. CASE PersistAutosave
    BY <1>3, <2>2 DEF PersistAutosave
  <2>3. CASE PersistEnvelope
    BY LiveFields, <2>3 DEF PersistEnvelope, window
  <2> QED BY <2>1, <2>2, <2>3
<1>5. /\ save' \in SaveStates
      /\ save'.pc = "idle" \/ (save.pc # "idle" /\ save'.target = save.target
                                 /\ save'.gen = save.gen)
  <2>1. CASE save' = Idle
    BY <2>1 DEF Idle
  <2>2. CASE save' = [save EXCEPT !.pc = "persist"] /\ save.pc # "idle"
    BY <2>2 DEF SaveStates, Steps
  <2>3. CASE save' = [save EXCEPT !.pc = "envelope"] /\ save.pc # "idle"
    BY <2>3 DEF SaveStates, Steps
  <2> QED BY <2>1, <2>2, <2>3 DEF DiscardAutosave, PersistAutosave, PersistEnvelope
<1>6. UNCHANGED <<files, sidecars, gens, docs, running, live, session, bound, cleaning,
                  leaving, edits, saves>>
  BY DEF DiscardAutosave, PersistAutosave, PersistEnvelope, window
<1> QED BY <1>2, <1>4, <1>5, <1>6 DEF cleaning, leaving

---------------------------------------------------------------------------
(* The steps of a save.                                                    *)

LEMMA SaveSteps ==
    ASSUME [Next]_vars
    PROVE  \/ save' = save \/ save' = Idle
           \/ \E p \in Paths : BeginSave(p)
           \/ StageArtifacts \/ StageSolutions \/ Commit \/ Verify \/ Adopt
           \/ CleanArtifacts \/ Collect \/ DiscardAutosave \/ PersistAutosave
<1>1. CASE \/ \E a \in Artifacts : Import(a) \/ Drop(a)
           \/ \E n \in Nodes : RemoveNode(n)
           \/ \E r \in Results : Settle(r)
  BY <1>1 DEF Import, Drop, RemoveNode, Edited, Settle
<1>2. CASE AutosaveTick \/ Restart \/ \E p \in Paths : Open(p)
  BY <1>2 DEF AutosaveTick, Restart, Open
<1>3. CASE Quit \/ Crash \/ FailStaging \/ FailVerify \/ Stale \/ PersistEnvelope
  BY <1>3 DEF Quit, Crash, Stopped, FailStaging, FailVerify, Stale, PersistEnvelope
<1>4. CASE CloseEnvelope \/ CloseAutosave \/ UNCHANGED vars
  BY <1>4 DEF CloseEnvelope, CloseAutosave, vars
<1> QED BY <1>1, <1>2, <1>3, <1>4 DEF Next

(* Where each of them leads.                                               *)
LEMMA SavePhases ==
    ASSUME TypeOK
    PROVE  /\ \A p \in Paths : BeginSave(p) => save.pc = "idle" /\ save'.pc = "begun"
           /\ StageArtifacts => save.pc = "begun" /\ save'.pc = "artifacts"
           /\ StageSolutions => save.pc = "artifacts" /\ save'.pc = "staged"
           /\ Commit => save.pc = "staged" /\ save'.pc = "committed"
           /\ Verify => save.pc = "committed" /\ save'.pc = "verified"
           /\ Adopt => save.pc = "verified" /\ save'.pc = "adopted"
           /\ CleanArtifacts => save.pc = "adopted" /\ save'.pc = "cleaning" /\ save'.next = 1
           /\ Collect => save.pc = "cleaning" /\ save'.pc = "cleaning"
           /\ DiscardAutosave => save.pc = "cleaning" /\ save'.pc = "persist"
           /\ PersistAutosave => save.pc = "persist" /\ save'.pc \in {"idle", "envelope"}
           /\ Idle.pc = "idle"
<1> USE DEF TypeOK, SaveStates
<1>1. \A p \in Paths : BeginSave(p) => save.pc = "idle" /\ save'.pc = "begun"
  BY DEF BeginSave, Idle
<1>2. /\ StageArtifacts => save.pc = "begun" /\ save'.pc = "artifacts"
      /\ StageSolutions => save.pc = "artifacts" /\ save'.pc = "staged"
  BY DEF StageArtifacts, StageSolutions
<1>3. /\ Commit => save.pc = "staged" /\ save'.pc = "committed"
      /\ Verify => save.pc = "committed" /\ save'.pc = "verified"
      /\ Adopt => save.pc = "verified" /\ save'.pc = "adopted"
  BY DEF Commit, Verify, Adopt
<1>4. CleanArtifacts => save.pc = "adopted" /\ save'.pc = "cleaning" /\ save'.next = 1
  BY DEF CleanArtifacts
<1>5. Collect => save.pc = "cleaning" /\ save'.pc = "cleaning"
  BY DEF Collect
<1>6. /\ DiscardAutosave => save.pc = "cleaning" /\ save'.pc = "persist"
      /\ PersistAutosave => save.pc = "persist" /\ save'.pc \in {"idle", "envelope"}
      /\ Idle.pc = "idle"
  BY DEF DiscardAutosave, PersistAutosave, Idle
<1> QED BY <1>1, <1>2, <1>3, <1>4, <1>5, <1>6

(* The cursor of the cleaning stands on an entry of the list, or behind.   *)
Cursor == save.pc = "cleaning" => save.next >= 1

LEMMA CursorNext == TypeOK /\ Cursor /\ [Next]_vars => Cursor'
<1> SUFFICES ASSUME TypeOK, Cursor, [Next]_vars, save'.pc = "cleaning"
             PROVE  save'.next >= 1
  BY DEF Cursor
<1>1. CASE CleanArtifacts
  BY <1>1, SavePhases
<1>2. CASE Collect
  <2>1. save' = save \/ save' = [save EXCEPT !.next = @ + 1]
    BY <1>2 DEF Collect
  <2>2. save.pc = "cleaning"
    BY <1>2 DEF Collect
  <2> QED BY <2>1, <2>2, SaveFields DEF Cursor, TypeOK, SaveStates
<1>3. CASE save' = save
  BY <1>3 DEF Cursor
<1> QED BY <1>1, <1>2, <1>3, SaveSteps, SavePhases

LEMMA TypesNext == TypeOK /\ Cursor /\ [Next]_vars => TypeOK'
<1> SUFFICES ASSUME TypeOK, Cursor, [Next]_vars PROVE TypeOK'
  OBVIOUS
<1>1. CASE \/ \E a \in Artifacts : Import(a) \/ Drop(a)
           \/ \E n \in Nodes : RemoveNode(n)
           \/ \E r \in Results : Settle(r)
  BY <1>1, TypesEdits
<1>2. CASE \/ AutosaveTick \/ Quit \/ CloseEnvelope \/ CloseAutosave \/ Crash \/ Restart
           \/ \E p \in Paths : Open(p)
  BY <1>2, TypesSession
<1>3. CASE \E p \in Paths : BeginSave(p)
  BY <1>3, TypesBegin
<1>4. CASE StageArtifacts \/ StageSolutions \/ FailStaging \/ FailVerify \/ Stale
  BY <1>4, TypesArtifacts, TypesSolutions, TypesFailing
<1>5. CASE Commit \/ Verify \/ Adopt \/ CleanArtifacts
  BY <1>5, TypesCommit, TypesAdopt, TypesClean
<1>6. CASE Collect
  <2>1. save.next \in 1 .. Len(pending)
    BY <1>6, SaveFields DEF Collect, Cursor, TypeOK
  <2> QED BY <1>6, <2>1, TypesCollect
<1>7. CASE DiscardAutosave \/ PersistAutosave \/ PersistEnvelope
  BY <1>7, TypesPersist
<1>8. CASE UNCHANGED vars
  BY <1>8 DEF vars, disk, window, cleaning, leaving, TypeOK
<1> QED BY <1>1, <1>2, <1>3, <1>4, <1>5, <1>6, <1>7, <1>8 DEF Next

(* The variables of a save, of the window and of the disk hold what the    *)
(* code can put there, whatever fails and wherever the process dies.       *)
THEOREM Types == Spec => []TypeOK
<1>1. Init => TypeOK /\ Cursor
  BY TypesInit DEF Init, Idle, Cursor
<1>2. TypeOK /\ Cursor /\ [Next]_vars => (TypeOK /\ Cursor)'
  BY TypesNext, CursorNext
<1> QED BY <1>1, <1>2, PTL DEF Spec

---------------------------------------------------------------------------
(* What the steps leave alone.                                             *)

LEMMA SaveKept ==
    ASSUME TypeOK, [Next]_vars, save.pc # "idle", save'.pc # "idle"
    PROVE  /\ save'.target = save.target /\ save'.gen = save.gen
           /\ save'.epoch = save.epoch /\ save'.nodes = save.nodes /\ save'.uses = save.uses
           /\ save'.kept = save.kept \/ StageArtifacts
           /\ save'.before = save.before \/ StageArtifacts
           /\ save'.cand = save.cand \/ StageSolutions
<1> USE DEF TypeOK, SaveStates
<1>1. CASE save' = save
  BY <1>1
<1>2. CASE StageArtifacts
  BY <1>2 DEF StageArtifacts
<1>3. CASE StageSolutions
  BY <1>3 DEF StageSolutions
<1>4. CASE Commit \/ Verify \/ Adopt
  BY <1>4 DEF Commit, Verify, Adopt
<1>5. CASE CleanArtifacts
  BY <1>5 DEF CleanArtifacts
<1>6. CASE Collect
  BY <1>6 DEF Collect
<1>7. CASE DiscardAutosave \/ PersistAutosave
  BY <1>7, SavePhases DEF DiscardAutosave, PersistAutosave
<1> HIDE DEF TypeOK
<1> QED BY <1>1, <1>2, <1>3, <1>4, <1>5, <1>6, <1>7, SaveSteps, SavePhases

LEMMA DiskSteps ==
    ASSUME TypeOK, [Next]_vars
    PROVE  /\ files \subseteq files' \/ Quit \/ CleanArtifacts \/ Collect
           /\ docs' = docs \/ Commit
           /\ gens' = gens \/ StageSolutions
           /\ saves' = saves \/ \E p \in Paths : BeginSave(p)
<1>1. CASE \/ \E a \in Artifacts : Import(a) \/ Drop(a)
           \/ \E n \in Nodes : RemoveNode(n)
           \/ \E r \in Results : Settle(r)
  BY <1>1 DEF Import, Drop, RemoveNode, Edited, Settle, disk
<1>2. CASE AutosaveTick \/ Quit \/ Crash \/ Restart \/ \E p \in Paths : Open(p)
  BY <1>2 DEF AutosaveTick, Quit, Crash, Restart, Open, disk
<1>3. CASE \E p \in Paths : BeginSave(p)
  BY <1>3 DEF BeginSave
<1>4. CASE StageArtifacts \/ StageSolutions
  BY <1>4 DEF StageArtifacts, StageSolutions
<1>5. CASE FailStaging \/ FailVerify \/ Stale
  BY <1>5 DEF FailStaging, FailVerify, Stale, disk
<1>6. CASE Commit \/ Verify \/ Adopt \/ CleanArtifacts \/ Collect
  BY <1>6 DEF Commit, Verify, Adopt, CleanArtifacts, Collect, disk
<1>7. CASE \/ DiscardAutosave \/ PersistAutosave \/ PersistEnvelope
           \/ CloseEnvelope \/ CloseAutosave
  BY <1>7 DEF DiscardAutosave, PersistAutosave, PersistEnvelope, CloseEnvelope, CloseAutosave
<1>8. CASE UNCHANGED vars
  BY <1>8 DEF vars, disk
<1> QED BY <1>1, <1>2, <1>3, <1>4, <1>5, <1>6, <1>7, <1>8 DEF Next

(* A manifest appears by the staging of a save only.                       *)
LEMMA NewManifest ==
    ASSUME TypeOK, [Next]_vars, NEW p, NEW g,
           <<p, "gen", g>> \in files', <<p, "gen", g>> \notin files
    PROVE  StageSolutions /\ p = save.target /\ g = save.gen
<1> DEFINE f == <<p, "gen", g>>
<1>1. \A root, ids : f \notin File(root, "tmp", ids) /\ f \notin File(root, "man", ids)
                        /\ f \notin File(root, "rec", ids)
  BY DEF File
<1>2. CASE StageSolutions
  <2>1. f \in File(save.target, "gen", {save.gen})
    BY <1>1, <1>2 DEF StageSolutions
  <2> QED BY <1>2, <2>1 DEF File
<1>3. CASE StageArtifacts
  BY <1>1, <1>3 DEF StageArtifacts
<1>4. CASE FailStaging
  BY <1>1, <1>4 DEF FailStaging
<1>5. CASE \/ \E a \in Artifacts : Import(a) \/ Drop(a)
           \/ \E n \in Nodes : RemoveNode(n)
           \/ \E r \in Results : Settle(r)
  BY <1>1, <1>5 DEF Import, Drop, RemoveNode, Settle, disk
<1>6. CASE AutosaveTick \/ Quit \/ Crash \/ Restart \/ \E q \in Paths : Open(q)
  BY <1>6 DEF AutosaveTick, Quit, Unlinked, Crash, Restart, Open, disk
<1>7. CASE FailVerify \/ Stale \/ Verify \/ Adopt \/ Commit \/ \E q \in Paths : BeginSave(q)
  BY <1>7 DEF FailVerify, Stale, Verify, Adopt, Commit, BeginSave, disk
<1>8. CASE CleanArtifacts \/ Collect
  BY <1>8 DEF CleanArtifacts, Collect, Unlinked
<1>9. CASE DiscardAutosave \/ PersistAutosave \/ PersistEnvelope \/ UNCHANGED vars
  BY <1>9 DEF DiscardAutosave, PersistAutosave, PersistEnvelope, vars, disk
<1>10. CASE CloseEnvelope \/ CloseAutosave
  BY <1>10 DEF CloseEnvelope, CloseAutosave
<1> QED BY <1>10, <1>2, <1>3, <1>4, <1>5, <1>6, <1>7, <1>8, <1>9 DEF Next

---------------------------------------------------------------------------
(* The invariant.                                                          *)

(* The generations of documents and of manifests are those of saves begun  *)
(* so far.  The one of the save under way is nowhere before it is staged,  *)
(* and a manifest is beside one document only.                             *)
GenerationsFresh ==
    /\ save.pc # "idle" => save.gen = saves
    /\ \A p \in Paths : docs[p].some =>
          /\ docs[p].gen <= saves
          /\ save.pc \in {"begun", "artifacts"} => docs[p].gen # save.gen
    /\ \A p \in Roots, g \in Gens : <<p, "gen", g>> \in files =>
          /\ g <= saves
          /\ save.pc \in {"begun", "artifacts"} => g # save.gen
          /\ \A q \in Roots : <<q, "gen", g>> \in files => q = p

(* What a save has staged is there until the document is published.        *)
Staged ==
    /\ save.pc \in {"artifacts", "staged", "committed", "verified"} =>
          File(save.target, "man", save.kept) \subseteq files
    /\ save.pc \in {"staged", "committed", "verified"} =>
          /\ Readable(save.target, save.gen)
          /\ \A r \in gens[save.gen] : Needs[r] \subseteq save.kept

(* A save that cleans up has published its document, is what the store is  *)
(* bound to, and its result is the newest pending one.                     *)
Published ==
    /\ save.pc \in {"verified", "adopted", "cleaning"} => docs[save.target] = Document
    /\ save.pc \in {"adopted", "cleaning"} =>
          /\ bound = save.gen
          /\ Len(pending) >= 1
          /\ pending[Len(pending)].gen = save.gen
          /\ pending[Len(pending)].path = save.target

(* Cleanings go for artifacts or for solution files, of one sidecar each.  *)
Sorted(fs, root, kinds) == \A f \in fs : f[1] = root /\ f[2] \in kinds
Candidacy ==
    /\ Sorted(save.before, save.target, {"man", "tmp"})
    /\ Sorted(save.cand, save.target, {"rec", "gen"})
    /\ \A p \in Paths : Sorted(deferred[p], p, {"man", "tmp"})
    /\ \A k \in 1..Len(pending) : Sorted(pending[k].cand, pending[k].path, {"rec", "gen"})

(* A save runs in a window, and what it captured is what the window shows  *)
(* until an edit counts up.                                                *)
Captured ==
    /\ save.pc # "idle" => running
    /\ save.pc \in {"begun", "artifacts", "staged", "committed", "verified"} =>
          /\ save.epoch <= edits
          /\ Fresh => live.nodes = save.nodes /\ live.uses = save.uses

IInv == /\ TypeOK /\ Cursor /\ GenerationsFresh /\ Staged /\ Published /\ Candidacy
        /\ Captured /\ DocComplete

LEMMA InvInit == Init => IInv
<1> SUFFICES ASSUME Init PROVE IInv
  OBVIOUS
<1>1. TypeOK
  BY TypesInit
<1>2. save.pc = "idle" /\ save.before = {} /\ save.cand = {}
  BY DEF Init, Idle
<1>3. \A p \in Paths : ~docs[p].some /\ deferred[p] = {}
  BY DEF Init, NoDoc
<1>4. files = {} /\ Len(pending) = 0
  BY DEF Init
<1>5. GenerationsFresh /\ Staged /\ Captured /\ Cursor /\ DocComplete
  BY <1>2, <1>3, <1>4 DEF GenerationsFresh, Staged, Captured, Cursor, DocComplete
<1>6. Published /\ Candidacy
  BY <1>2, <1>3, <1>4 DEF Published, Candidacy, Sorted
<1> QED BY <1>1, <1>5, <1>6 DEF IInv

LEMMA GenerationsNext ==
    ASSUME IInv, [Next]_vars
    PROVE  GenerationsFresh'
<1> USE DEF GenerationsFresh
<1>1. TypeOK /\ TypeOK' /\ GenerationsFresh
  BY TypesNext DEF IInv
<1>2. saves' \in 0..MaxSaves /\ saves \in 0..MaxSaves /\ MaxSaves \in Nat
  BY <1>1, Constants DEF TypeOK
<1>3. ASSUME NEW p \in Paths, BeginSave(p) PROVE GenerationsFresh'
  <2>1. /\ saves' = saves + 1 /\ save'.gen = saves + 1 /\ save'.pc = "begun"
        /\ UNCHANGED <<files, docs>>
    BY <1>1, <1>3 DEF BeginSave, Generation, Idle
  <2>2. \A q \in Paths : docs[q].some => docs[q].gen \in 0..MaxSaves
    BY <1>1 DEF TypeOK, Documents
  <2> QED BY <1>1, <1>2, <2>1, <2>2, Constants
<1>4. ASSUME ~ \E p \in Paths : BeginSave(p) PROVE GenerationsFresh'
  <2>1. saves' = saves
    BY <1>1, <1>4, DiskSteps
  <2>2. \/ save'.pc = "idle"
        \/ save.pc # "idle" /\ save'.gen = save.gen
    BY <1>1, <1>4, SaveSteps, SavePhases, SaveKept
  <2>3. save'.pc \in {"begun", "artifacts"} => save.pc \in {"begun", "artifacts"}
    BY <1>1, <1>4, SaveSteps, SavePhases
  <2>4. save'.pc # "idle" => save'.gen = saves'
    BY <1>1, <2>1, <2>2
  <2>5. ASSUME NEW p \in Paths, docs'[p].some
        PROVE  /\ docs'[p].gen <= saves'
               /\ save'.pc \in {"begun", "artifacts"} => docs'[p].gen # save'.gen
    <3>1. CASE docs' = docs
      BY <1>1, <2>1, <2>2, <2>3, <2>5, <3>1
    <3>2. CASE Commit
      <4>1. save.pc = "staged" /\ save'.pc = "committed" /\ save.gen = saves
        BY <1>1, <3>2, SavePhases
      <4>2. docs'[p] = docs[p] \/ docs'[p] = Document
        BY <1>1, <3>2 DEF Commit, Publish, TypeOK
      <4>3. docs'[p].gen <= saves
        BY <1>1, <1>2, <2>5, <4>1, <4>2 DEF Document
      <4> QED BY <2>1, <4>1, <4>3
    <3> QED BY <1>1, <3>1, <3>2, DiskSteps
  <2>6. ASSUME NEW p \in Roots, NEW g \in Gens, <<p, "gen", g>> \in files'
        PROVE  /\ g <= saves'
               /\ save'.pc \in {"begun", "artifacts"} => g # save'.gen
               /\ \A q \in Roots : <<q, "gen", g>> \in files' => q = p
    <3>1. CASE StageSolutions
      <4>1. save.pc = "artifacts" /\ save'.pc = "staged" /\ save.gen = saves
        BY <1>1, <3>1, SavePhases
      <4>2. ASSUME NEW q \in Roots, <<q, "gen", g>> \in files'
            PROVE  <<q, "gen", g>> \in files \/ (q = save.target /\ g = save.gen)
        BY <1>1, <4>2, NewManifest
      <4>3. g <= saves
        BY <1>1, <1>2, <2>6, <4>1, <4>2
      <4> QED BY <1>1, <2>1, <2>6, <4>1, <4>2, <4>3
    <3>2. CASE ~StageSolutions
      <4>1. \A q \in Roots : <<q, "gen", g>> \in files' => <<q, "gen", g>> \in files
        BY <1>1, <3>2, NewManifest
      <4> QED BY <1>1, <2>1, <2>2, <2>3, <2>6, <4>1
    <3> QED BY <3>1, <3>2
  <2> QED BY <2>4, <2>5, <2>6
<1> QED BY <1>3, <1>4

LEMMA ReadableKept ==
    ASSUME NEW p, NEW g, Readable(p, g), files \subseteq files', gens'[g] = gens[g]
    PROVE  Readable(p, g)'
BY DEF Readable, Reach

LEMMA StagedNext ==
    ASSUME IInv, [Next]_vars
    PROVE  Staged'
<1>1. TypeOK /\ Staged
  BY DEF IInv
<1>2. ASSUME save'.pc \in {"artifacts", "staged", "committed", "verified"}
      PROVE  /\ files \subseteq files'
             /\ save'.target = save.target /\ save'.gen = save.gen
             /\ \/ save'.pc = "artifacts" /\ StageArtifacts
                \/ save'.pc = "staged" /\ StageSolutions /\ save'.kept = save.kept
                \/ save.pc = "staged" /\ save'.pc = "committed" /\ save'.kept = save.kept
                   /\ ~StageSolutions
                \/ save.pc = "committed" /\ save'.pc = "verified" /\ save'.kept = save.kept
                   /\ ~StageSolutions
                \/ save' = save /\ ~StageSolutions
  <2>1. save.pc # "idle" /\ save'.pc # "idle"
    BY <1>1, <1>2, SaveSteps, SavePhases
  <2>2. ~Quit /\ ~CleanArtifacts /\ ~Collect
    BY <1>1, <1>2, SavePhases DEF Quit, Stopped
  <2>3. files \subseteq files'
    BY <1>1, <2>2, DiskSteps
  <2> QED BY <1>1, <1>2, <2>1, <2>3, SaveKept, SaveSteps, SavePhases
<1>3. save'.pc \in {"artifacts", "staged", "committed", "verified"} =>
          File(save'.target, "man", save'.kept) \subseteq files'
  <2> SUFFICES ASSUME save'.pc \in {"artifacts", "staged", "committed", "verified"}
               PROVE  File(save'.target, "man", save'.kept) \subseteq files'
    OBVIOUS
  <2>1. CASE StageArtifacts
    <3> DEFINE kept == {a \in save.uses \union (save.required \intersect live.managed) :
                            Source(a) \in files}
    <3>1. save'.kept = kept /\ files' = files \union File(save.target, "man", kept)
      BY <1>1, <2>1 DEF StageArtifacts, TypeOK, SaveStates
    <3> HIDE DEF kept
    <3> QED BY <1>2, <3>1
  <2>2. CASE ~StageArtifacts
    <3>1. /\ save.pc \in {"artifacts", "staged", "committed", "verified"}
          /\ save'.kept = save.kept
      BY <1>1, <1>2, <2>2, SavePhases
    <3> QED BY <1>1, <1>2, <3>1 DEF Staged
  <2> QED BY <2>1, <2>2
<1>4. save'.pc \in {"staged", "committed", "verified"} =>
         /\ Readable(save.target, save.gen)'
         /\ \A r \in gens'[save'.gen] : Needs[r] \subseteq save'.kept
  <2> SUFFICES ASSUME save'.pc \in {"staged", "committed", "verified"}
               PROVE  /\ Readable(save.target, save.gen)'
                      /\ \A r \in gens'[save'.gen] : Needs[r] \subseteq save'.kept
    OBVIOUS
  <2>1. CASE StageSolutions
    <3> DEFINE chosen == {r \in save.offered : Owner[r] \in save.nodes
                                                  /\ Needs[r] \subseteq save.kept}
               new == File(save.target, "rec", chosen) \union File(save.target, "gen", {save.gen})
    <3>1. gens' = [gens EXCEPT ![save.gen] = chosen] /\ files' = files \union new
      BY <2>1 DEF StageSolutions
    <3>2. save.gen \in Gens
      BY <1>1, <2>1, SavePhases, SaveFields
    <3>3. gens'[save.gen] = chosen
      BY <1>1, <3>1, <3>2 DEF TypeOK
    <3>4. \A r \in chosen : Needs[r] \subseteq save.kept
      OBVIOUS
    <3>5. new \subseteq files'
      BY <3>1
    <3>6. save'.target = save.target /\ save'.gen = save.gen /\ save'.kept = save.kept
      BY <1>1, <1>2, <2>1, SavePhases
    <3>7. File(save.target, "rec", chosen) \subseteq files'
            /\ File(save.target, "gen", {save.gen}) \subseteq files'
      BY <3>5
    <3> HIDE DEF chosen, new
    <3> QED BY <3>2, <3>3, <3>4, <3>6, <3>7 DEF Readable, Reach
  <2>2. CASE ~StageSolutions
    <3>1. /\ save.pc \in {"staged", "committed", "verified"}
          /\ save'.target = save.target /\ save'.gen = save.gen /\ save'.kept = save.kept
          /\ files \subseteq files' /\ gens' = gens
      BY <1>1, <1>2, <2>2, SavePhases, DiskSteps
    <3> QED BY <1>1, <3>1, ReadableKept DEF Staged, Readable, Reach
  <2> QED BY <2>1, <2>2
<1> QED BY <1>3, <1>4 DEF Staged

LEMMA PendingSteps ==
    ASSUME [Next]_vars
    PROVE  /\ pending' = pending \/ pending' = <<>> \/ Adopt \/ Collect
           /\ deferred' = deferred \/ deferred' = [p \in Paths |-> {}] \/ CleanArtifacts
<1>1. CASE \/ \E a \in Artifacts : Import(a) \/ Drop(a)
           \/ \E n \in Nodes : RemoveNode(n)
           \/ \E r \in Results : Settle(r)
  BY <1>1 DEF Import, Drop, RemoveNode, Edited, Settle, cleaning
<1>2. CASE AutosaveTick \/ Quit \/ Crash \/ Restart \/ \E p \in Paths : Open(p) \/ BeginSave(p)
  BY <1>2 DEF AutosaveTick, Quit, Crash, Stopped, Restart, Open, BeginSave, cleaning
<1>3. CASE StageArtifacts \/ StageSolutions \/ FailStaging \/ FailVerify \/ Stale
  BY <1>3 DEF StageArtifacts, StageSolutions, FailStaging, FailVerify, Stale, cleaning
<1>4. CASE Commit \/ Verify \/ Adopt \/ CleanArtifacts \/ Collect
  BY <1>4 DEF Commit, Verify, Adopt, CleanArtifacts, Collect, cleaning
<1>5. CASE DiscardAutosave \/ PersistAutosave \/ PersistEnvelope \/ UNCHANGED vars
  BY <1>5 DEF DiscardAutosave, PersistAutosave, PersistEnvelope, cleaning, vars
<1>6. CASE CloseEnvelope \/ CloseAutosave
  BY <1>6 DEF CloseEnvelope, CloseAutosave, cleaning
<1> QED BY <1>1, <1>2, <1>3, <1>4, <1>5, <1>6 DEF Next

(* Within a save the window changes by an edit or by the adoption only.    *)
LEMMA WindowSteps ==
    ASSUME TypeOK, Captured, [Next]_vars, save.pc # "idle", save'.pc # "idle"
    PROVE  /\ running'
           /\ bound' = bound \/ Adopt
           /\ \/ live' = live /\ edits' = edits
              \/ edits' = edits + 1 /\ save.pc \in {"staged", "verified"}
              \/ Adopt
           /\ pending' = pending \/ Adopt \/ Collect
<1> DEFINE Good == /\ running'
                   /\ bound' = bound \/ Adopt
                   /\ \/ live' = live /\ edits' = edits
                      \/ edits' = edits + 1 /\ save.pc \in {"staged", "verified"}
                      \/ Adopt
                   /\ pending' = pending \/ Adopt \/ Collect
<1>1. running
  BY DEF Captured
<1>2. CASE \/ \E a \in Artifacts : Import(a) \/ Drop(a)
           \/ \E n \in Nodes : RemoveNode(n)
           \/ \E r \in Results : Settle(r)
  BY <1>1, <1>2 DEF Import, Drop, RemoveNode, Edited, Authoring, Settle, cleaning
<1>3. ~Quit /\ ~Crash /\ ~AutosaveTick /\ ~Restart
  BY <1>1, SavePhases DEF Quit, Crash, Stopped, AutosaveTick, Restart
<1>4. ~FailStaging /\ ~FailVerify /\ ~Stale /\ ~PersistEnvelope
  BY SavePhases DEF FailStaging, FailVerify, Stale, PersistEnvelope
<1>5. \A p \in Paths : ~Open(p) /\ ~BeginSave(p)
  BY DEF Open, BeginSave
<1>6. CASE StageArtifacts \/ StageSolutions \/ Commit \/ Verify
  BY <1>1, <1>6 DEF StageArtifacts, StageSolutions, Commit, Verify, window, cleaning
<1>7. CASE Adopt \/ CleanArtifacts \/ Collect
  BY <1>1, <1>7 DEF Adopt, CleanArtifacts, Collect, window
<1>8. CASE DiscardAutosave \/ PersistAutosave \/ UNCHANGED vars
  BY <1>1, <1>8 DEF DiscardAutosave, PersistAutosave, vars, window, cleaning
<1>9. CASE CloseEnvelope \/ CloseAutosave
  BY <1>1, <1>9 DEF CloseEnvelope, CloseAutosave, window, cleaning
<1> QED BY <1>2, <1>3, <1>4, <1>5, <1>6, <1>7, <1>8, <1>9 DEF Next

LEMMA CapturedNext ==
    ASSUME IInv, [Next]_vars
    PROVE  Captured'
<1>1. TypeOK /\ Captured
  BY DEF IInv
<1>2. edits \in Nat /\ edits' \in Nat /\ save.epoch \in Nat
  <2>1. TypeOK'
    BY TypesNext DEF IInv
  <2> QED BY <1>1, <2>1, SaveFields, Constants DEF TypeOK
<1>3. ASSUME NEW p \in Paths, BeginSave(p) PROVE Captured'
  <2>1. /\ running' /\ live' = live /\ edits' = edits
        /\ save'.epoch = edits /\ save'.nodes = live.nodes /\ save'.uses = live.uses
    BY <1>3 DEF BeginSave, Idle, window
  <2> QED BY <1>2, <2>1 DEF Captured, Fresh
<1>4. CASE save'.pc = "idle"
  BY <1>4 DEF Captured
<1>5. CASE save.pc # "idle" /\ save'.pc # "idle"
  <2>1. running'
    BY <1>1, <1>5, WindowSteps
  <2>2. SUFFICES ASSUME save'.pc \in {"begun", "artifacts", "staged", "committed", "verified"}
                 PROVE  save'.epoch <= edits' /\ (Fresh' => /\ live'.nodes = save'.nodes
                                                            /\ live'.uses = save'.uses)
    BY <2>1 DEF Captured
  <2>3. ~Adopt /\ save.pc \in {"begun", "artifacts", "staged", "committed", "verified"}
    BY <1>1, <1>5, <2>2, SaveSteps, SavePhases
  <2>4. /\ save'.epoch = save.epoch /\ save'.nodes = save.nodes /\ save'.uses = save.uses
    BY <1>1, <1>5, SaveKept
  <2>5. (live' = live /\ edits' = edits) \/ edits' = edits + 1
    BY <1>1, <1>5, <2>3, WindowSteps
  <2> QED BY <1>1, <1>2, <2>3, <2>4, <2>5 DEF Captured, Fresh
<1> QED BY <1>1, <1>3, <1>4, <1>5, SaveSteps, SavePhases

LEMMA PublishedNext ==
    ASSUME IInv, [Next]_vars
    PROVE  Published'
<1>1. TypeOK /\ Captured /\ Published /\ Cursor
  BY DEF IInv
<1>2. ASSUME save'.pc \in {"verified", "adopted", "cleaning"}
      PROVE  docs'[save'.target] = Document'
  <2>1. save.pc # "idle" /\ save'.pc # "idle" /\ ~Commit /\ ~StageArtifacts
    BY <1>1, <1>2, SaveSteps, SavePhases
  <2>2. docs' = docs
    BY <1>1, <2>1, DiskSteps
  <2>3. save'.target = save.target /\ Document' = Document
    BY <1>1, <2>1, SaveKept DEF Document
  <2>4. docs[save.target] = Document
    <3>1. CASE Verify
      BY <3>1 DEF Verify
    <3>2. CASE ~Verify
      <4>1. save.pc \in {"verified", "adopted", "cleaning"}
        BY <1>1, <1>2, <3>2, SaveSteps, SavePhases
      <4> QED BY <1>1, <4>1 DEF Published
    <3> QED BY <3>1, <3>2
  <2> QED BY <2>2, <2>3, <2>4
<1>3. ASSUME save'.pc \in {"adopted", "cleaning"}
      PROVE  /\ bound' = save'.gen
             /\ Len(pending') >= 1
             /\ pending'[Len(pending')].gen = save'.gen
             /\ pending'[Len(pending')].path = save'.target
  <2>1. save.pc # "idle" /\ save'.pc # "idle"
    BY <1>1, <1>3, SaveSteps, SavePhases
  <2>2. save'.gen = save.gen /\ save'.target = save.target
    BY <1>1, <2>1, SaveKept
  <2>3. pending \in Seq(Entries) /\ Len(pending) \in Nat
    BY <1>1 DEF TypeOK
  <2>4. CASE Adopt
    <3> DEFINE entry == [gen |-> save.gen, prev |-> save.prev, path |-> save.target,
                         cand |-> save.cand, complete |-> save.valid]
    <3>1. bound' = save.gen /\ pending' = Append(pending, entry)
      BY <2>4 DEF Adopt
    <3>2. entry \in Entries
      BY <1>1, <2>1, SaveFields DEF Entries
    <3>3. Len(pending') = Len(pending) + 1 /\ pending'[Len(pending')] = entry
      BY <2>3, <3>1, <3>2, AppendTo
    <3> QED BY <2>2, <2>3, <3>1, <3>3
  <2>5. CASE ~Adopt
    <3>1. save.pc \in {"adopted", "cleaning"}
      BY <1>1, <1>3, <2>5, SaveSteps, SavePhases
    <3>2. bound' = bound
      BY <1>1, <2>1, <2>5, WindowSteps
    <3>3. CASE Collect
      <4>1. save.next \in 1 .. Len(pending)
        BY <1>1, <2>3, <3>3, SaveFields DEF Collect, Cursor
      <4>2. CASE ~Newest /\ Popped(pending')
        <5>1. save.next < Len(pending)
          BY <4>1, <4>2 DEF Newest
        <5>2. /\ Len(pending') = Len(pending) - 1
              /\ \A k \in 1 .. Len(pending') :
                    pending'[k] = IF k < save.next THEN pending[k] ELSE pending[k + 1]
          BY <2>3, <4>1, <4>2, WithoutOne DEF Popped
        <5>3. Len(pending') >= 1 /\ pending'[Len(pending')] = pending[Len(pending)]
          BY <2>3, <4>1, <5>1, <5>2
        <5> QED BY <1>1, <2>2, <3>1, <3>2, <5>3 DEF Published
      <4>3. CASE Kept(pending', files')
        <5> DEFINE e == [Entry EXCEPT !.cand = Left(files'),
                            !.complete = Entry.complete \/ (Collectable /\ Left(files') = {})]
        <5>1. e \in Entries /\ e.gen = Entry.gen /\ e.path = Entry.path
          <6>1. TypeOK'
            BY TypesNext DEF IInv
          <6>2. files' \subseteq Files /\ Left(files') \subseteq Files
            BY <1>1, <4>1, <6>1, EntryTypes DEF TypeOK, Left
          <6> QED BY <1>1, <4>1, <6>2, EntryTypes DEF Entries
        <5>2. pending' = [pending EXCEPT ![save.next] = e]
          BY <4>3 DEF Kept
        <5> HIDE DEF e
        <5>3. /\ Len(pending') = Len(pending)
              /\ \A k \in 1 .. Len(pending') :
                    pending'[k] = IF k = save.next THEN e ELSE pending[k]
          BY <2>3, <4>1, <5>1, <5>2, OneChanged
        <5>4. /\ pending'[Len(pending')].gen = pending[Len(pending)].gen
              /\ pending'[Len(pending')].path = pending[Len(pending)].path
          BY <2>3, <4>1, <5>1, <5>3 DEF Entry
        <5> QED BY <1>1, <2>2, <3>1, <3>2, <5>3, <5>4 DEF Published
      <4> QED BY <1>1, <3>3, <4>1, <4>2, <4>3, CollectCases
    <3>4. CASE ~Collect
      <4>1. pending' = pending
        BY <1>1, <2>1, <2>5, <3>4, WindowSteps
      <4> QED BY <1>1, <2>2, <3>1, <3>2, <4>1 DEF Published
    <3> QED BY <3>3, <3>4
  <2> QED BY <2>4, <2>5
<1> QED BY <1>2, <1>3 DEF Published

LEMMA CandidacyNext ==
    ASSUME IInv, [Next]_vars
    PROVE  Candidacy'
<1>1. TypeOK /\ Candidacy /\ Cursor
  BY DEF IInv
<1>2. /\ Sorted(save'.before, save'.target, {"man", "tmp"})
      /\ Sorted(save'.cand, save'.target, {"rec", "gen"})
  <2>1. CASE save'.before = {} /\ save'.cand = {}
    BY <2>1 DEF Sorted
  <2>2. ASSUME NEW p \in Paths, BeginSave(p) PROVE save'.before = {} /\ save'.cand = {}
    BY <2>2 DEF BeginSave, Idle
  <2>3. CASE save.pc # "idle" /\ save'.pc # "idle"
    <3>1. save'.target = save.target
      BY <1>1, <2>3, SaveKept
    <3>2. Sorted(save'.before, save'.target, {"man", "tmp"})
      <4>1. CASE save'.before = save.before
        BY <1>1, <3>1, <4>1 DEF Candidacy
      <4>2. CASE StageArtifacts
        <5>1. save'.before = IF save.target = live.path
                             THEN File(live.path, "man", live.managed)
                                     \union File(live.path, "tmp", live.staged)
                             ELSE {}
          BY <1>1, <4>2 DEF StageArtifacts, TypeOK, SaveStates
        <5> QED BY <3>1, <5>1 DEF Sorted, File
      <4> QED BY <1>1, <2>3, <4>1, <4>2, SaveKept
    <3>3. Sorted(save'.cand, save'.target, {"rec", "gen"})
      <4>1. CASE save'.cand = save.cand
        BY <1>1, <3>1, <4>1 DEF Candidacy
      <4>2. CASE StageSolutions
        <5>1. PICK chosen :
                save'.cand = IF save.valid
                             THEN SolutionFiles(save.target)
                                    \union (File(save.target, "rec", chosen)
                                              \union File(save.target, "gen", {save.gen}))
                             ELSE {}
          BY <1>1, <4>2 DEF StageSolutions, TypeOK, SaveStates
        <5> QED BY <3>1, <5>1 DEF Sorted, File, SolutionFiles
      <4> QED BY <1>1, <2>3, <4>1, <4>2, SaveKept
    <3> QED BY <3>2, <3>3
  <2>4. save'.pc = "idle" => save' = Idle \/ save' = save
    <3>1. PersistAutosave /\ save'.pc = "idle" => save' = Idle
      BY <1>1 DEF PersistAutosave, TypeOK, SaveStates
    <3> QED BY <1>1, <3>1, SaveSteps, SavePhases
  <2>5. Idle.before = {} /\ Idle.cand = {}
    BY DEF Idle
  <2>6. CASE save' = save
    BY <1>1, <2>6 DEF Candidacy
  <2> QED BY <1>1, <2>1, <2>2, <2>3, <2>4, <2>5, <2>6, SaveSteps, SavePhases
<1>3. \A p \in Paths : Sorted(deferred'[p], p, {"man", "tmp"})
  <2>1. CASE deferred' = deferred
    BY <1>1, <2>1 DEF Candidacy
  <2>2. CASE deferred' = [p \in Paths |-> {}]
    BY <2>2 DEF Sorted
  <2>3. CASE CleanArtifacts
    <3> DEFINE kept == File(save.target, "man", save.kept)
               cand == deferred[save.target] \union (save.before \ kept)
               left == {f \in cand \ kept : f \in save.before \/ f \in files'}
    <3>1. save.target \in Paths
      BY <1>1, <2>3, SavePhases, SaveFields
    <3>2. deferred' = [deferred EXCEPT ![save.target] = left]
      BY <2>3 DEF CleanArtifacts
    <3>3. Sorted(left, save.target, {"man", "tmp"})
      BY <1>1, <3>1 DEF Candidacy, Sorted
    <3>4. \A p \in Paths : deferred'[p] = IF p = save.target THEN left ELSE deferred[p]
      <4> HIDE DEF left
      <4> QED BY <1>1, <3>1, <3>2 DEF TypeOK
    <3> HIDE DEF left
    <3> QED BY <1>1, <3>3, <3>4 DEF Candidacy
  <2> QED BY <2>1, <2>2, <2>3, PendingSteps
<1>4. \A k \in 1..Len(pending') : Sorted(pending'[k].cand, pending'[k].path, {"rec", "gen"})
  <2>1. CASE pending' = pending
    BY <1>1, <2>1 DEF Candidacy
  <2>2. CASE pending' = <<>>
    BY <2>2
  <2>3. pending \in Seq(Entries) /\ Len(pending) \in Nat
    BY <1>1 DEF TypeOK
  <2>4. CASE Adopt
    <3> DEFINE entry == [gen |-> save.gen, prev |-> save.prev, path |-> save.target,
                         cand |-> save.cand, complete |-> save.valid]
    <3>1. pending' = Append(pending, entry)
      BY <2>4 DEF Adopt
    <3>2. entry \in Entries
      BY <1>1, <2>4, SavePhases, SaveFields DEF Entries
    <3>3. Sorted(entry.cand, entry.path, {"rec", "gen"})
      BY <1>1 DEF Candidacy
    <3> HIDE DEF entry
    <3>4. /\ Len(pending') = Len(pending) + 1
          /\ \A k \in 1 .. Len(pending) : pending'[k] = pending[k]
          /\ pending'[Len(pending) + 1] = entry
      BY <2>3, <3>1, <3>2, AppendTo
    <3>5. \A k \in 1 .. Len(pending') : k \in 1 .. Len(pending) \/ k = Len(pending) + 1
      BY <2>3, <3>4
    <3> QED BY <1>1, <3>3, <3>4, <3>5 DEF Candidacy
  <2>5. CASE Collect
    <3>1. save.next \in 1 .. Len(pending)
      BY <1>1, <2>3, <2>5, SaveFields DEF Collect, Cursor
    <3>2. CASE Popped(pending')
      <4>1. /\ Len(pending') = Len(pending) - 1
            /\ \A k \in 1 .. Len(pending') :
                  pending'[k] = IF k < save.next THEN pending[k] ELSE pending[k + 1]
        BY <2>3, <3>1, <3>2, WithoutOne DEF Popped
      <4>2. \A k \in 1 .. Len(pending') : k \in 1 .. Len(pending) /\ k + 1 \in 1 .. Len(pending)
        BY <2>3, <4>1
      <4> QED BY <1>1, <4>1, <4>2 DEF Candidacy
    <3>3. CASE Kept(pending', files')
      <4> DEFINE e == [Entry EXCEPT !.cand = Left(files'),
                          !.complete = Entry.complete \/ (Collectable /\ Left(files') = {})]
      <4>1. e \in Entries /\ e.cand = Left(files') /\ e.path = Entry.path
        <5>1. TypeOK'
          BY TypesNext DEF IInv
        <5>2. files' \subseteq Files /\ Left(files') \subseteq Files
          BY <1>1, <3>1, <5>1, EntryTypes DEF TypeOK, Left
        <5> QED BY <1>1, <3>1, <5>2, EntryTypes DEF Entries
      <4>2. pending' = [pending EXCEPT ![save.next] = e]
        BY <3>3 DEF Kept
      <4> HIDE DEF e
      <4>3. /\ Len(pending') = Len(pending)
            /\ \A k \in 1 .. Len(pending') :
                  pending'[k] = IF k = save.next THEN e ELSE pending[k]
        BY <2>3, <3>1, <4>1, <4>2, OneChanged
      <4>4. Sorted(Candidates, Entry.path, {"rec", "gen"})
        BY <1>1, <3>1 DEF Candidates, Candidacy, Sorted, Entry, SolutionFiles
      <4>5. Left(files') \subseteq Candidates
        BY DEF Left, Candidates
      <4>6. Sorted(e.cand, e.path, {"rec", "gen"})
        BY <4>1, <4>4, <4>5 DEF Sorted
      <4> QED BY <1>1, <4>3, <4>6 DEF Candidacy
    <3> QED BY <1>1, <2>5, <3>1, <3>2, <3>3, CollectCases
  <2> QED BY <2>1, <2>2, <2>4, <2>5, PendingSteps
<1> QED BY <1>2, <1>3, <1>4 DEF Candidacy

(* A document stays complete as long as its own files stay.                *)
LEMMA CompleteKept ==
    ASSUME NEW p \in Paths, CompleteAt(p), docs'[p] = docs[p],
           gens'[docs[p].gen] = gens[docs[p].gen],
           \A f \in files : f[1] = p /\ f[2] \in {"man", "rec", "gen"} => f \in files' \/
               (f \notin File(p, "man", docs[p].managed) /\ f \notin Reach(p, docs[p].gen))
    PROVE  CompleteAt(p)'
<1>1. \A f \in File(p, "man", docs[p].managed) \union Reach(p, docs[p].gen) :
         f[1] = p /\ f[2] \in {"man", "rec", "gen"}
  BY DEF File, Reach
<1>2. \A f \in File(p, "man", docs[p].managed) \union Reach(p, docs[p].gen) : f \in files
  BY DEF CompleteAt, Readable
<1>3. \A f \in File(p, "man", docs[p].managed) \union Reach(p, docs[p].gen) : f \in files'
  BY <1>1, <1>2
<1>4. Reach(p, docs[p].gen)' = Reach(p, docs[p].gen)
  BY DEF Reach
<1> QED BY <1>3, <1>4 DEF CompleteAt, Readable

(* What the cleanings remove: artifacts beside the document that it does   *)
(* not use, and solution files beside it that its results do not reach.    *)
LEMMA CleanAvoids ==
    ASSUME IInv, CleanArtifacts, NEW f \in files, f \notin files'
    PROVE  /\ f[1] = save.target /\ f[2] \in {"man", "tmp"}
           /\ f \notin File(save.target, "man", save.kept)
<1> DEFINE kept == File(save.target, "man", save.kept)
           cand == deferred[save.target] \union (save.before \ kept)
           doomed == (cand \ (save.before \union kept)) \intersect files
<1>1. files' \in Unlinked(doomed)
  BY DEF CleanArtifacts
<1>2. save.pc = "adopted" /\ save.target \in Paths
  BY SavePhases, SaveFields DEF IInv
<1>3. Sorted(cand, save.target, {"man", "tmp"})
  BY <1>2 DEF IInv, Candidacy, Sorted
<1> QED BY <1>1, <1>3 DEF Unlinked, Sorted

(* Where the generation of this save cannot be read nothing goes, and it   *)
(* can be read beside its own document only.                               *)
LEMMA CollectAvoids ==
    ASSUME IInv, Collect, NEW f \in files, f \notin files'
    PROVE  /\ f[1] = save.target /\ f[2] \in {"rec", "gen"}
           /\ f \notin Reach(save.target, save.gen)
<1>1. TypeOK /\ GenerationsFresh /\ Published /\ Candidacy /\ Cursor /\ DocComplete
  BY DEF IInv
<1>2. save.pc = "cleaning" /\ Len(pending) \in Nat /\ save.target \in Paths /\ save.gen \in Gens
  BY <1>1, SavePhases, SaveFields DEF TypeOK
<1>3. save.next \in 1 .. Len(pending)
  BY <1>1, <1>2, SaveFields DEF Collect, Cursor
<1>4. Active = save.gen
  BY <1>1, <1>2, <1>3 DEF Active, Newest, Entry, Published
<1>5. Sorted(Candidates, Entry.path, {"rec", "gen"})
  BY <1>1, <1>3 DEF Candidates, Candidacy, Sorted, Entry, SolutionFiles
<1>6. PICK rest \in Unlinked(Doomed) : files' = rest
  BY DEF Collect
<1>7. f \in Doomed
  BY <1>6 DEF Unlinked
<1>8. Entry.path = save.target
  <2>1. Collectable
    BY <1>7 DEF Doomed
  <2>2. Readable(Entry.path, save.gen)
    BY <1>4, <2>1 DEF Collectable, Protected
  <2>3. <<Entry.path, "gen", save.gen>> \in files
    BY <2>2 DEF Readable, Reach, File
  <2>4. docs[save.target].gen = save.gen /\ docs[save.target].some
    BY <1>1, <1>2 DEF Published, Document
  <2>5. Readable(save.target, save.gen)
    BY <1>1, <1>2, <2>4 DEF DocComplete, CompleteAt
  <2>6. <<save.target, "gen", save.gen>> \in files
    BY <2>5 DEF Readable, Reach, File
  <2>7. Entry.path \in Roots /\ save.target \in Roots
    BY <1>1, <1>2, <1>3, EntryTypes, Constants
  <2> QED BY <1>1, <1>2, <2>3, <2>6, <2>7 DEF GenerationsFresh
<1>9. f \in Candidates /\ f \notin Reach(Entry.path, Active)
  BY <1>7 DEF Doomed, Protected
<1> QED BY <1>4, <1>5, <1>8, <1>9 DEF Sorted

LEMMA DocCompleteNext ==
    ASSUME IInv, [Next]_vars
    PROVE  DocComplete'
<1>1. TypeOK /\ GenerationsFresh /\ Staged /\ Published /\ Candidacy /\ Cursor /\ DocComplete
  BY DEF IInv
<1>2. SUFFICES ASSUME NEW p \in Paths, docs'[p].some PROVE CompleteAt(p)'
  BY DEF DocComplete
<1>3. CASE Commit /\ docs'[p] # docs[p]
  <2>1. save.pc = "staged" /\ save.target \in Paths /\ UNCHANGED <<files, gens>>
    BY <1>1, <1>3, SaveFields DEF Commit
  <2>2. p = save.target /\ docs'[p] = Document
    BY <1>1, <1>3, <2>1 DEF Commit, Publish, TypeOK
  <2>3. /\ File(p, "man", save.kept) \subseteq files
        /\ Readable(p, save.gen)
        /\ \A r \in gens[save.gen] : Needs[r] \subseteq save.kept
    BY <1>1, <2>1, <2>2 DEF Staged
  <2>4. docs'[p].managed = save.kept /\ docs'[p].gen = save.gen
    BY <2>2 DEF Document
  <2> QED BY <2>1, <2>3, <2>4 DEF CompleteAt, Readable, Reach
<1>4. CASE docs'[p] = docs[p]
  <2>1. CompleteAt(p) /\ docs[p].some
    BY <1>1, <1>2, <1>4 DEF DocComplete
  <2>2. docs[p].gen \in Gens
    BY <2>1 DEF CompleteAt, Readable
  <2>3. gens'[docs[p].gen] = gens[docs[p].gen]
    <3>1. CASE StageSolutions
      <4>1. save.pc = "artifacts"
        BY <1>1, <3>1, SavePhases
      <4>2. docs[p].gen # save.gen
        BY <1>1, <2>1, <4>1 DEF GenerationsFresh
      <4> QED BY <1>1, <2>2, <3>1, <4>2 DEF StageSolutions, TypeOK
    <3> QED BY <1>1, <3>1, DiskSteps
  <2>4. CASE files \subseteq files'
    BY <1>4, <2>1, <2>3, <2>4, CompleteKept
  <2>5. CASE Quit
    <3>1. files \ files' \subseteq File(live.path, "tmp", live.staged)
      BY <2>5 DEF Quit, Unlinked
    <3>2. \A f \in files \ files' : f[2] = "tmp"
      BY <3>1 DEF File
    <3> QED BY <1>4, <2>1, <2>3, <3>2, CompleteKept
  <2>6. CASE CleanArtifacts
    <3>1. save.pc = "adopted" /\ save.target \in Paths
      BY <1>1, <2>6, SavePhases, SaveFields
    <3>2. docs[save.target].managed = save.kept
      BY <1>1, <3>1 DEF Published, Document
    <3>3. \A f \in Reach(p, docs[p].gen) : f[2] \in {"rec", "gen"}
      BY DEF Reach, File
    <3>4. \A f \in files \ files' : f[1] = p =>
             f \notin File(p, "man", docs[p].managed) /\ f \notin Reach(p, docs[p].gen)
      BY <2>6, <3>2, <3>3, CleanAvoids
    <3> QED BY <1>4, <2>1, <2>3, <3>4, CompleteKept
  <2>7. CASE Collect
    <3>1. save.pc = "cleaning" /\ save.target \in Paths
      BY <1>1, <2>7, SavePhases, SaveFields
    <3>2. docs[save.target].gen = save.gen
      BY <1>1, <3>1 DEF Published, Document
    <3>3. \A f \in File(p, "man", docs[p].managed) : f[2] = "man"
      BY DEF File
    <3>4. \A f \in files \ files' : f[1] = p =>
             f \notin File(p, "man", docs[p].managed) /\ f \notin Reach(p, docs[p].gen)
      BY <2>7, <3>2, <3>3, CollectAvoids
    <3> QED BY <1>4, <2>1, <2>3, <3>4, CompleteKept
  <2> QED BY <1>1, <2>4, <2>5, <2>6, <2>7, DiskSteps
<1> QED BY <1>1, <1>3, <1>4, DiskSteps

LEMMA InvNext == IInv /\ [Next]_vars => IInv'
<1> SUFFICES ASSUME IInv, [Next]_vars PROVE IInv'
  OBVIOUS
<1>1. TypeOK' /\ Cursor'
  BY TypesNext, CursorNext DEF IInv
<1> QED BY <1>1, GenerationsNext, StagedNext, PublishedNext, CandidacyNext, CapturedNext,
           DocCompleteNext DEF IInv

LEMMA Invariance == Spec => []IInv
BY InvInit, InvNext, PTL DEF Spec

(* A document on disk finds its artifacts, its generation of results and   *)
(* the artifacts these refer to, between any two steps of a save, after    *)
(* any failure, cleaning or crash.                                         *)
THEOREM Completeness == Spec => []DocComplete
<1>1. IInv => DocComplete
  BY DEF IInv
<1> QED BY <1>1, Invariance, PTL

---------------------------------------------------------------------------
(* The refinement.                                                         *)

Contents == [nodes : SUBSET Nodes, uses : SUBSET Artifacts]
Shown == IF running THEN Content(live) ELSE NoDoc
Stored == [p \in Paths |-> IF ~docs[p].some THEN NoDoc
                           ELSE IF CompleteAt(p) THEN Content(docs[p]) ELSE [damaged |-> TRUE]]

LEMMA ContentIsSome == \A d : Content(d) # NoDoc
<1> SUFFICES ASSUME NEW d PROVE Content(d) # NoDoc
  OBVIOUS
<1>1. "some" \notin DOMAIN Content(d)
  BY DEF Content
<1>2. "some" \in DOMAIN NoDoc
  BY DEF NoDoc
<1> QED BY <1>1, <1>2

LEMMA StoredSteps ==
    ASSUME IInv, IInv', [Next]_vars
    PROVE  \/ Stored' = Stored
           \/ \E p \in Paths : /\ Shown # NoDoc
                               /\ Stored' = [Stored EXCEPT ![p] = Shown]
                               /\ Shown' = Shown
<1>1. TypeOK /\ Captured /\ DocComplete /\ DocComplete'
  BY DEF IInv
<1>2. CASE docs' = docs
  <2>1. ASSUME NEW p \in Paths, docs[p].some PROVE CompleteAt(p) /\ CompleteAt(p)'
    BY <1>1, <1>2, <2>1 DEF DocComplete
  <2> QED BY <1>2, <2>1 DEF Stored, Content
<1>3. CASE Commit /\ docs' # docs
  <2>1. /\ save.pc = "staged" /\ Fresh /\ save.target \in Paths
        /\ UNCHANGED <<running, live>>
        /\ docs' = [docs EXCEPT ![save.target] = Document]
    BY <1>1, <1>3, SaveFields DEF Commit, Publish, window
  <2>2. running /\ Shown = Content(live) /\ Shown' = Shown
    BY <1>1, <2>1 DEF Captured, Shown, Content
  <2>3. Content(Document) = Content(live) /\ Document.some
    BY <1>1, <2>1 DEF Captured, Content, Document
  <2>4. ASSUME NEW p \in Paths
        PROVE  Stored'[p] = IF p = save.target THEN Shown ELSE Stored[p]
    <3>1. CASE p = save.target
      <4>1. docs'[p] = Document
        BY <1>1, <2>1, <3>1 DEF TypeOK
      <4>2. CompleteAt(p)' /\ docs'[p].some
        BY <1>1, <2>3, <4>1 DEF DocComplete
      <4>3. Stored'[p] = Content(docs'[p])
        BY <4>2 DEF Stored, Content
      <4> QED BY <2>2, <2>3, <3>1, <4>1, <4>3
    <3>2. CASE p # save.target
      <4>1. docs'[p] = docs[p]
        BY <1>1, <2>1, <3>2 DEF TypeOK
      <4>2. docs[p].some => CompleteAt(p) /\ CompleteAt(p)'
        BY <1>1, <4>1 DEF DocComplete
      <4> QED BY <3>2, <4>1, <4>2 DEF Stored, Content
    <3> QED BY <3>1, <3>2
  <2>5. Stored' = [Stored EXCEPT ![save.target] = Shown]
    <3>1. Stored = [p \in Paths |-> Stored[p]] /\ Stored' = [p \in Paths |-> Stored'[p]]
      BY DEF Stored
    <3> QED BY <2>1, <2>4, <3>1
  <2> QED BY <2>1, <2>2, <2>5, ContentIsSome
<1> QED BY <1>1, <1>2, <1>3, DiskSteps

(* Whatever happens between its steps, a save is seen from the documents   *)
(* as one atomic publication of what the window shows.                     *)
THEOREM Refinement == Spec => ImplementsAtomicSave
<1>1. Init => Atomic!Init
  <2> SUFFICES ASSUME Init PROVE Atomic!Init
    OBVIOUS
  <2>1. Shown \in Contents
    BY DEF Init, Blank, Shown, Content, Contents
  <2>2. Stored = [p \in Paths |-> NoDoc]
    BY DEF Init, NoDoc, Stored
  <2> QED BY <2>1, <2>2 DEF Atomic!Init, Shown, Stored, Contents
<1>2. IInv /\ IInv' /\ [Next]_vars => [Atomic!Next]_(Atomic!vars)
  <2> SUFFICES ASSUME IInv, IInv', [Next]_vars
               PROVE  [Atomic!Next]_(Atomic!vars)
    OBVIOUS
  <2>1. Shown' \in Contents \union {NoDoc}
    <3>1. TypeOK'
      BY DEF IInv
    <3> QED BY <3>1, LiveFields DEF Shown, Content, Contents, TypeOK, Projects
  <2>2. CASE Stored' = Stored
    BY <2>1, <2>2 DEF Atomic!Next, Atomic!Turn, Shown, Stored, Contents
  <2>3. ASSUME NEW p \in Paths, Shown # NoDoc, Stored' = [Stored EXCEPT ![p] = Shown],
               Shown' = Shown
        PROVE  Atomic!Next
    BY <2>3 DEF Atomic!Next, Atomic!Publish, Shown, Stored
  <2> QED BY <2>2, <2>3, StoredSteps
<1> QED BY <1>1, <1>2, Invariance, PTL DEF Spec, ImplementsAtomicSave, Atomic!Spec

---------------------------------------------------------------------------
(* The window and the autosave: a second invariant, on top of the first.   *)

(* What a project or an autosave of path holds is what is stored there.    *)
AsStored(path, nodes, uses) ==
    IF path = NoPath THEN nodes = Nodes /\ uses = {}
    ELSE nodes = docs[path].nodes /\ uses = docs[path].uses

(* An autosave that is not marked as changed is as its document is stored. *)
AutosaveClean ==
    Young /\ ~auto.dirty /\ ~auto.astray => AsStored(auto.home, auto.nodes, auto.uses)

(* Until its document is published the generation of a save is in none,    *)
(* and then the autosave of that document is no longer young.              *)
Unpublished ==
    save.pc = "staged" => \A p \in Paths : docs[p].some => docs[p].gen # save.gen
Retired ==
    /\ save.pc \in {"committed", "verified", "adopted", "cleaning"}
    /\ docs[save.target] = Document /\ Young
    => auto.home # save.target

(* The window shows the document whose save is being cleaned up after.     *)
Adopted ==
    save.pc \in {"adopted", "cleaning"} =>
        /\ live.path = save.target /\ live.gen = save.gen
        /\ live.managed = save.kept /\ live.staged = {}

(* A generation that is there is there as a whole.                         *)
Whole(p, g) == g \in Gens /\ <<p, "gen", g>> \in files => Readable(p, g)
WindowWhole ==
    /\ ~live.astray => Whole(live.path, live.gen)
    /\ Young /\ ~auto.astray => Whole(auto.home, auto.gen)

(* Nothing beside the document escapes: it is among the candidates of the  *)
(* save, and later of the newest pending result.                           *)
Listed ==
    save.pc \in {"staged", "committed", "verified"} /\ save.valid =>
        SolutionFiles(save.target) \subseteq save.cand
Newer(e) ==
    /\ e.path = save.target
    /\ \A f \in SolutionFiles(save.target) :
          f \in Reach(save.target, bound) \/ f \in e.cand \/ ~e.complete
Ahead ==
    save.pc \in {"adopted", "cleaning", "persist"} =>
        Len(pending) >= 1 /\ Newer(pending[Len(pending)])

WInv == /\ AutosaveClean /\ Unpublished /\ Retired /\ Adopted /\ WindowWhole /\ Listed
        /\ Ahead /\ WorkComplete /\ UnsavedIsDirty

---------------------------------------------------------------------------
(* Where the window, the autosave and what a close has deleted change.     *)

(* An edit changes the project in the window and stages files beside it.   *)
Altered ==
    /\ live'.dirty /\ ~autosaved'
    /\ live'.path = live.path /\ live'.gen = live.gen
    /\ live'.managed = live.managed /\ live'.astray = live.astray
    /\ \A a \in live'.staged : a \in live.staged \/ <<live.path, "tmp", a>> \in files'
    /\ UNCHANGED <<running, bound, save, pending>>

LEMMA EditsAlter ==
    ASSUME TypeOK,
           \/ \E a \in Artifacts : Import(a) \/ Drop(a)
           \/ \E n \in Nodes : RemoveNode(n)
    PROVE  Altered
<1> DEFINE Free(project) ==
        /\ live' = [project EXCEPT !.dirty = TRUE] /\ ~autosaved'
        /\ UNCHANGED <<running, bound, save, pending>>
<1>1. ASSUME NEW project, Edited(project) PROVE Free(project)
  BY <1>1 DEF Edited, cleaning
<1>2. ASSUME NEW a \in Artifacts, Import(a) PROVE Altered
  <2> DEFINE project == [live EXCEPT !.uses = @ \union {a}, !.staged = @ \union {a}]
  <2>1. files' = files \union File(live.path, "tmp", {a})
    BY <1>2, Zenon DEF Import
  <2>2. Free(project)
    <3>1. Edited(project)
      BY <1>2 DEF Import
    <3> HIDE DEF project, Free
    <3> QED BY <1>1, <3>1, Zenon
  <2>3. <<live.path, "tmp", a>> \in files'
    BY <2>1 DEF File
  <2> QED BY <2>2, <2>3 DEF Altered, TypeOK, Projects
<1>3. ASSUME NEW a \in Artifacts, Drop(a) PROVE Altered
  <2> DEFINE project == [live EXCEPT !.uses = @ \ {a}]
  <2>1. Free(project)
    BY <1>1, <1>3 DEF Drop
  <2> QED BY <2>1 DEF Altered, TypeOK, Projects
<1>4. ASSUME NEW n \in Nodes, RemoveNode(n) PROVE Altered
  <2> DEFINE project == [live EXCEPT !.nodes = @ \ {n}]
  <2>1. Free(project)
    BY <1>1, <1>4 DEF RemoveNode
  <2> QED BY <2>1 DEF Altered, TypeOK, Projects
<1> QED BY <1>2, <1>3, <1>4

LEMMA WindowStays ==
    ASSUME \/ StageArtifacts \/ StageSolutions \/ FailStaging \/ FailVerify \/ Stale
           \/ Commit \/ Verify \/ CleanArtifacts \/ Collect
           \/ \E p \in Paths : BeginSave(p)
    PROVE  UNCHANGED <<running, live, bound, autosaved>>
                /\ (Commit \/ UNCHANGED <<auto, envelope>>)
<1>1. CASE StageArtifacts \/ StageSolutions
  BY <1>1 DEF StageArtifacts, StageSolutions, window
<1>2. CASE FailStaging \/ FailVerify \/ Stale
  <2>1. UNCHANGED <<auto, envelope, window>>
    BY <1>2 DEF FailStaging, FailVerify, Stale, disk
  <2> QED BY <2>1 DEF window
<1>3. CASE Commit
  <2>1. UNCHANGED window
    BY <1>3 DEF Commit
  <2> QED BY <1>3, <2>1 DEF window
<1>4. CASE Verify
  <2>1. UNCHANGED window /\ UNCHANGED disk
    BY <1>4 DEF Verify
  <2> QED BY <2>1 DEF window, disk
<1>5. CASE CleanArtifacts \/ Collect
  <2>1. UNCHANGED window /\ UNCHANGED <<auto, envelope>>
    BY <1>5 DEF CleanArtifacts, Collect
  <2> QED BY <2>1 DEF window
<1>6. ASSUME NEW p \in Paths, BeginSave(p)
      PROVE  UNCHANGED <<running, live, bound, autosaved, auto, envelope>>
  <2>1. UNCHANGED window /\ UNCHANGED <<auto, envelope>>
    BY <1>6 DEF BeginSave
  <2> QED BY <2>1 DEF window
<1> QED BY <1>1, <1>2, <1>3, <1>4, <1>5, <1>6

LEMMA LiveSteps ==
    ASSUME TypeOK, [Next]_vars
    PROVE  \/ UNCHANGED <<live, bound>>
           \/ Altered
           \/ Stopped
           \/ Restart \/ Adopt \/ \E p \in Paths : Open(p)
<1>1. CASE \/ \E a \in Artifacts : Import(a) \/ Drop(a)
           \/ \E n \in Nodes : RemoveNode(n)
  BY <1>1, EditsAlter
<1>2. CASE AutosaveTick \/ Quit \/ Crash \/ \E r \in Results : Settle(r)
  BY <1>2 DEF AutosaveTick, Quit, Crash, Settle
<1>3. CASE DiscardAutosave \/ PersistAutosave \/ PersistEnvelope \/ UNCHANGED vars
  BY <1>3 DEF DiscardAutosave, PersistAutosave, PersistEnvelope, vars, window
<1>4. CASE CloseEnvelope \/ CloseAutosave
  BY <1>4 DEF CloseEnvelope, CloseAutosave, window
<1> QED BY <1>1, <1>2, <1>3, <1>4, WindowStays DEF Next

(* Stopping, starting and opening outside of a save.                       *)
LEMMA StoppedWindow ==
    Stopped => /\ ~running' /\ live'.path = NoPath /\ live'.gen = NoGen /\ bound' = NoGen
               /\ live'.managed = {} /\ live'.staged = {} /\ live'.nodes = Nodes
               /\ live'.uses = {} /\ save'.pc = "idle"
BY DEF Stopped, Blank, Idle

LEMMA RestartCases ==
    ASSUME Restart
    PROVE  /\ UNCHANGED <<files, gens, docs, envelope, save, pending>> /\ autosaved'
           /\ \/ Recoverable /\ Install(Recovered) /\ shed' = shed
              \/ Install(Blank)
           /\ auto' = NoAuto \/ auto' = auto
BY DiscardCases DEF Restart, Install, cleaning

(* An autosave that is not young where it is recovered, is put astray.     *)
LEMMA RecoveredYoung ==
    ASSUME Recoverable, ~Recovered.astray
    PROVE  Young /\ ~auto.astray /\ auto.home = envelope
<1>1. ~auto.astray /\ auto.home = envelope
  BY DEF Recovered
<1> QED BY <1>1 DEF Recoverable, Young

(* What a close has deleted is remembered as long as it may be missed, or  *)
(* until it is imported again.                                             *)
LEMMA ShedSteps ==
    ASSUME [Next]_vars
    PROVE  shed \subseteq shed' \union files' \/ (Restart /\ ~auto'.some)
<1>1. ASSUME NEW a \in Artifacts, Import(a) PROVE shed \subseteq shed' \union files'
  BY <1>1 DEF Import
<1>2. CASE \/ \E a \in Artifacts : Drop(a)
           \/ \E n \in Nodes : RemoveNode(n)
           \/ \E r \in Results : Settle(r)
  BY <1>2 DEF Drop, RemoveNode, Settle, leaving
<1>3. CASE AutosaveTick \/ Quit \/ Crash \/ CloseEnvelope \/ CloseAutosave
  BY <1>3 DEF AutosaveTick, Quit, Crash, CloseEnvelope, CloseAutosave, leaving
<1>4. CASE Restart
  BY <1>4 DEF Restart
<1>5. CASE \E p \in Paths : Open(p) \/ BeginSave(p)
  BY <1>5 DEF Open, BeginSave, leaving
<1>6. CASE StageArtifacts \/ StageSolutions \/ FailStaging \/ FailVerify \/ Stale
  BY <1>6 DEF StageArtifacts, StageSolutions, FailStaging, FailVerify, Stale, leaving
<1>7. CASE Commit \/ Verify \/ Adopt \/ CleanArtifacts \/ Collect
  BY <1>7 DEF Commit, Verify, Adopt, CleanArtifacts, Collect, leaving
<1>8. CASE DiscardAutosave \/ PersistAutosave \/ PersistEnvelope \/ UNCHANGED vars
  BY <1>8 DEF DiscardAutosave, PersistAutosave, PersistEnvelope, leaving, vars
<1> QED BY <1>1, <1>2, <1>3, <1>4, <1>5, <1>6, <1>7, <1>8 DEF Next

---------------------------------------------------------------------------
(* Each part is kept.                                                      *)

LEMMA WInit == Init => WInv
<1> SUFFICES ASSUME Init PROVE WInv
  OBVIOUS
<1>1. /\ save.pc = "idle" /\ ~auto.some /\ live.path = NoPath /\ live.gen = NoGen
      /\ live.managed = {} /\ live.staged = {} /\ live.nodes = Nodes /\ live.uses = {}
      /\ bound = NoGen
  BY DEF Init, Idle, NoAuto, Blank
<1>2. AutosaveClean /\ Unpublished /\ Retired /\ Adopted
  BY <1>1 DEF AutosaveClean, Unpublished, Retired, Adopted, Young
<1>3. WindowWhole /\ Listed /\ Ahead
  BY <1>1, Constants DEF WindowWhole, Whole, Listed, Ahead, Young
<1>4. WorkComplete
  BY <1>1 DEF WorkComplete, LiveComplete, AutosaveComplete, Young, File
<1>5. UnsavedIsDirty
  BY <1>1 DEF UnsavedIsDirty
<1> QED BY <1>2, <1>3, <1>4, <1>5 DEF WInv

(* What the autosave holds when it is written.                             *)
LEMMA SnapshotFields ==
    /\ Snapshot.some /\ Snapshot.newer = Paths /\ Snapshot.home = live.path
    /\ Snapshot.nodes = live.nodes /\ Snapshot.uses = live.uses
    /\ Snapshot.managed = live.managed /\ Snapshot.staged = live.staged
    /\ Snapshot.gen = live.gen /\ Snapshot.dirty = live.dirty
    /\ Snapshot.astray = live.astray
BY DEF Snapshot

(* Publishing retires the autosave of the document.                        *)
LEMMA PublishFields ==
    ASSUME TypeOK, Commit
    PROVE  /\ save.target \in Paths /\ save.pc = "staged" /\ save'.pc = "committed"
           /\ \/ UNCHANGED <<docs, auto>>
              \/ /\ docs' = [docs EXCEPT ![save.target] = Document]
                 /\ auto' = [auto EXCEPT !.newer = @ \ {save.target}]
           /\ UNCHANGED <<files, gens, envelope, running, live, session, bound, autosaved>>
           /\ auto'.some = auto.some /\ auto'.newer \subseteq auto.newer /\ auto'.home = auto.home
           /\ auto'.dirty = auto.dirty /\ auto'.astray = auto.astray
           /\ auto'.nodes = auto.nodes /\ auto'.uses = auto.uses
           /\ auto'.managed = auto.managed /\ auto'.staged = auto.staged
           /\ auto'.gen = auto.gen
<1>1. /\ \/ UNCHANGED <<docs, auto>>
         \/ /\ docs' = [docs EXCEPT ![save.target] = Document]
            /\ auto' = [auto EXCEPT !.newer = @ \ {save.target}]
  BY DEF Commit, Publish
<1>2. UNCHANGED <<running, live, bound, autosaved>>
  BY WindowStays
<1>3. UNCHANGED <<files, gens, envelope, session>>
  <2>1. UNCHANGED <<files, gens, envelope>> /\ UNCHANGED window
    BY DEF Commit
  <2> QED BY <2>1 DEF window
<1>4. save.target \in Paths /\ save.pc = "staged" /\ save'.pc = "committed"
  BY SavePhases, SaveFields
<1>5. /\ auto'.some = auto.some /\ auto'.newer \subseteq auto.newer /\ auto'.home = auto.home
      /\ auto'.dirty = auto.dirty /\ auto'.astray = auto.astray
      /\ auto'.nodes = auto.nodes /\ auto'.uses = auto.uses
      /\ auto'.managed = auto.managed /\ auto'.staged = auto.staged
      /\ auto'.gen = auto.gen
  BY <1>1 DEF TypeOK, Autosaves
<1> QED BY <1>1, <1>2, <1>3, <1>4, <1>5

(* A save that publishes into the project of the autosave retires it.      *)
LEMMA PublishRetires ==
    ASSUME TypeOK, Commit, docs' # docs, Young'
    PROVE  Young /\ auto.home # save.target
<1>1. /\ auto' = [auto EXCEPT !.newer = @ \ {save.target}] /\ save.target # NoPath
      /\ auto'.some = auto.some /\ auto'.home = auto.home
  BY PublishFields, Constants
<1>2. auto'.newer = auto.newer \ {save.target}
  BY <1>1 DEF TypeOK, Autosaves
<1> QED BY <1>1, <1>2 DEF Young

(* A young autosave was written in this or an earlier step, from what the  *)
(* window shows.                                                           *)
LEMMA YoungNext ==
    ASSUME TypeOK, [Next]_vars, Young'
    PROVE  \/ auto' = Snapshot /\ UNCHANGED <<files, gens, docs, live, shed>>
                /\ (AutosaveTick \/ PersistAutosave)
           \/ Commit
           \/ auto' = auto /\ Young
<1>1. ~NoAuto.some
  BY DEF NoAuto
<1>2. auto' # NoAuto
  BY <1>1 DEF Young
<1>3. auto' = auto => Young
  BY DEF Young
<1>4. CASE AutosaveTick
  BY <1>3, <1>4 DEF AutosaveTick, leaving
<1>5. CASE PersistAutosave
  BY <1>3, <1>5 DEF PersistAutosave, leaving
<1>6. CASE Restart
  BY <1>2, <1>3, <1>6, RestartCases
<1>7. CASE CloseAutosave \/ DiscardAutosave \/ \E p \in Paths : Open(p)
  BY <1>2, <1>3, <1>7, DiscardCases DEF CloseAutosave, DiscardAutosave, Open
<1>8. CASE \/ \E a \in Artifacts : Import(a) \/ Drop(a)
           \/ \E n \in Nodes : RemoveNode(n)
           \/ \E r \in Results : Settle(r)
  BY <1>3, <1>8 DEF Import, Drop, RemoveNode, Settle, disk
<1>9. CASE Quit \/ CloseEnvelope \/ Crash \/ Adopt \/ PersistEnvelope \/ UNCHANGED vars
  BY <1>3, <1>9 DEF Quit, CloseEnvelope, Crash, Adopt, PersistEnvelope, vars, disk
<1> QED BY <1>3, <1>4, <1>5, <1>6, <1>7, <1>8, <1>9, WindowStays DEF Next

LEMMA AutosaveCleanNext ==
    ASSUME IInv, AutosaveClean, UnsavedIsDirty, [Next]_vars
    PROVE  AutosaveClean'
<1> SUFFICES ASSUME Young', ~auto'.dirty, ~auto'.astray
             PROVE  AsStored(auto.home, auto.nodes, auto.uses)'
  BY DEF AutosaveClean
<1>1. TypeOK /\ Captured
  BY DEF IInv
<1>2. CASE auto' = Snapshot /\ UNCHANGED <<docs, live>>
  <2>1. AsStored(live.path, live.nodes, live.uses)
    BY <1>2, SnapshotFields DEF UnsavedIsDirty, AsStored
  <2> QED BY <1>2, <2>1, SnapshotFields DEF AsStored
<1>3. CASE docs' = docs /\ auto' = auto
  BY <1>3 DEF AutosaveClean, Young, AsStored
<1>4. CASE Commit
  <2>1. CASE docs' = docs
    <3>1. /\ Young /\ ~auto.dirty /\ ~auto.astray
          /\ auto'.home = auto.home /\ auto'.nodes = auto.nodes /\ auto'.uses = auto.uses
      BY <1>1, <1>4, PublishFields DEF Young
    <3> QED BY <2>1, <3>1 DEF AutosaveClean, AsStored
  <2>2. CASE docs' # docs
    <3>1. /\ Young /\ ~auto.dirty /\ ~auto.astray /\ auto.home # save.target
          /\ auto'.home = auto.home /\ auto'.nodes = auto.nodes /\ auto'.uses = auto.uses
      BY <1>1, <1>4, <2>2, PublishRetires, PublishFields
    <3>2. docs' = [docs EXCEPT ![save.target] = Document]
      BY <1>1, <1>4, <2>2, PublishFields
    <3>3. \A p \in Paths : p # save.target => docs'[p] = docs[p]
      BY <1>1, <3>2 DEF TypeOK
    <3>4. auto.home # NoPath => auto.home \in Paths
      BY <1>1 DEF TypeOK, Autosaves, Roots
    <3> QED BY <3>1, <3>3, <3>4 DEF AutosaveClean, AsStored
  <2> QED BY <2>1, <2>2
<1> QED BY <1>1, <1>2, <1>3, <1>4, YoungNext, DiskSteps

LEMMA UnsavedNext ==
    ASSUME IInv, AutosaveClean, UnsavedIsDirty, [Next]_vars
    PROVE  UnsavedIsDirty'
<1> SUFFICES ASSUME ~live'.dirty, ~live'.astray
             PROVE  AsStored(live.path, live.nodes, live.uses)'
  BY DEF UnsavedIsDirty, AsStored
<1>1. TypeOK /\ Captured /\ Published
  BY DEF IInv
<1>2. CASE live' = live /\ docs' = docs
  BY <1>2 DEF UnsavedIsDirty, AsStored
<1>3. CASE Stopped
  BY <1>3, StoppedWindow DEF AsStored
<1>4. ASSUME NEW p \in Paths, Open(p) PROVE AsStored(live.path, live.nodes, live.uses)'
  <2>1. live' = Opened(p) /\ docs' = docs
    BY <1>4 DEF Open, Install
  <2> QED BY <2>1, Constants DEF AsStored, Opened
<1>5. CASE Restart
  <2>1. CASE Install(Blank)
    <3>1. live' = Blank
      BY <2>1 DEF Install
    <3> QED BY <3>1 DEF AsStored, Blank
  <2>2. CASE Recoverable /\ Install(Recovered)
    <3>1. live' = Recovered /\ docs' = docs
      BY <1>5, <2>2, RestartCases DEF Install
    <3>2. Young /\ ~auto.astray /\ auto.home = envelope
      BY <2>2, <3>1, RecoveredYoung
    <3>3. live'.path = envelope /\ live'.nodes = auto.nodes /\ live'.uses = auto.uses
            /\ live'.dirty = auto.dirty
      BY <3>1 DEF Recovered
    <3> QED BY <3>1, <3>2, <3>3 DEF AutosaveClean, AsStored
  <2> QED BY <1>5, <2>1, <2>2, RestartCases
<1>6. CASE Commit
  <2>1. live' = live /\ save.target \in Paths /\ save.pc = "staged" /\ Fresh
    BY <1>1, <1>6, PublishFields DEF Commit
  <2>2. CASE docs' = docs
    BY <2>1, <2>2 DEF UnsavedIsDirty, AsStored
  <2>3. CASE docs' = [docs EXCEPT ![save.target] = Document]
    <3>1. \A p \in Paths : docs'[p] = IF p = save.target THEN Document ELSE docs[p]
      BY <1>1, <2>3 DEF TypeOK
    <3>2. Document.nodes = live.nodes /\ Document.uses = live.uses
      BY <1>1, <2>1 DEF Captured, Document
    <3>3. live.path # NoPath => live.path \in Paths
      BY <1>1, LiveFields DEF Roots
    <3> QED BY <2>1, <3>1, <3>2, <3>3, Constants DEF UnsavedIsDirty, AsStored
  <2> QED BY <1>1, <1>6, <2>2, <2>3, PublishFields
<1>7. CASE Adopt
  <2>1. save.pc = "verified" /\ Fresh /\ save.target \in Paths /\ docs' = docs
    BY <1>1, <1>7, SaveFields DEF Adopt, disk
  <2>2. live' = [Opened(save.target) EXCEPT !.nodes = live.nodes]
    BY <1>7 DEF Adopt
  <2>3. live'.path = save.target /\ live'.nodes = live.nodes
          /\ live'.uses = docs[save.target].uses
    BY <2>2 DEF Opened
  <2>4. docs[save.target].nodes = save.nodes
    BY <1>1, <2>1 DEF Published, Document
  <2>5. live.nodes = save.nodes
    BY <1>1, <2>1 DEF Captured
  <2> QED BY <2>1, <2>3, <2>4, <2>5, Constants DEF AsStored
<1>8. CASE Altered
  BY <1>8 DEF Altered
<1> QED BY <1>1, <1>2, <1>3, <1>4, <1>5, <1>6, <1>7, <1>8, LiveSteps, DiskSteps

LEMMA UnpublishedNext ==
    ASSUME IInv, Unpublished, [Next]_vars
    PROVE  Unpublished'
<1> SUFFICES ASSUME save'.pc = "staged", NEW p \in Paths, docs'[p].some
             PROVE  docs'[p].gen # save'.gen
  BY DEF Unpublished
<1>1. TypeOK /\ GenerationsFresh
  BY DEF IInv
<1>2. ~Commit
  BY <1>1, SavePhases
<1>3. docs' = docs
  BY <1>1, <1>2, DiskSteps
<1>4. CASE StageSolutions
  <2>1. save.pc = "artifacts" /\ save'.gen = save.gen
    BY <1>1, <1>4, SavePhases, SaveKept
  <2> QED BY <1>1, <1>3, <2>1 DEF GenerationsFresh
<1>5. CASE save' = save
  BY <1>3, <1>5 DEF Unpublished
<1> QED BY <1>1, <1>4, <1>5, SaveSteps, SavePhases

LEMMA RetiredNext ==
    ASSUME IInv, Unpublished, Retired, [Next]_vars
    PROVE  Retired'
<1> SUFFICES ASSUME save'.pc \in {"committed", "verified", "adopted", "cleaning"},
                    docs'[save'.target] = Document', Young'
             PROVE  auto'.home # save'.target
  BY DEF Retired
<1>1. TypeOK /\ Captured
  BY DEF IInv
<1>2. /\ save.pc # "idle" /\ save'.pc # "idle"
      /\ Commit \/ save.pc \in {"committed", "verified", "adopted", "cleaning"}
      /\ ~StageArtifacts
  BY <1>1, SaveSteps, SavePhases
<1>3. save'.target = save.target /\ Document' = Document
  BY <1>1, <1>2, SaveKept DEF Document
<1>4. CASE Commit
  <2>1. save.pc = "staged" /\ save.target \in Paths /\ auto'.home = auto.home
    BY <1>1, <1>4, PublishFields
  <2>2. docs' # docs
    <3>1. Document.some /\ Document.gen = save.gen
      BY DEF Document
    <3> QED BY <1>3, <2>1, <3>1 DEF Unpublished
  <2> QED BY <1>1, <1>3, <1>4, <2>1, <2>2, PublishRetires
<1>5. CASE ~Commit
  <2>1. docs' = docs
    BY <1>1, <1>5, DiskSteps
  <2>2. ~AutosaveTick /\ ~PersistAutosave
    BY <1>1, <1>2, SavePhases DEF AutosaveTick
  <2>3. auto' = auto /\ Young
    BY <1>1, <1>5, <2>2, YoungNext
  <2> QED BY <1>2, <1>3, <1>5, <2>1, <2>3 DEF Retired
<1> QED BY <1>4, <1>5

LEMMA AdoptedNext ==
    ASSUME IInv, Adopted, [Next]_vars
    PROVE  Adopted'
<1> SUFFICES ASSUME save'.pc \in {"adopted", "cleaning"}
             PROVE  /\ live'.path = save'.target /\ live'.gen = save'.gen
                    /\ live'.managed = save'.kept /\ live'.staged = {}
  BY DEF Adopted
<1>1. TypeOK /\ Captured /\ Published
  BY DEF IInv
<1>2. /\ save.pc # "idle" /\ save'.pc # "idle"
      /\ Adopt \/ save.pc \in {"adopted", "cleaning"}
      /\ ~StageArtifacts
  BY <1>1, SaveSteps, SavePhases
<1>3. save'.target = save.target /\ save'.gen = save.gen /\ save'.kept = save.kept
  BY <1>1, <1>2, SaveKept
<1>4. CASE Adopt
  <2>1. save.pc = "verified" /\ live' = [Opened(save.target) EXCEPT !.nodes = live.nodes]
    BY <1>4 DEF Adopt
  <2>2. docs[save.target] = Document
    BY <1>1, <2>1 DEF Published
  <2> QED BY <1>3, <2>1, <2>2 DEF Opened, Document
<1>5. CASE ~Adopt
  <2>1. live' = live
    BY <1>1, <1>2, <1>5, WindowSteps
  <2> QED BY <1>2, <1>3, <1>5, <2>1 DEF Adopted
<1> QED BY <1>4, <1>5

(* What a step takes away.                                                 *)
LEMMA FilesGone ==
    ASSUME IInv, [Next]_vars, NEW f \in files, f \notin files'
    PROVE  \/ Quit /\ f[2] = "tmp" /\ f \in shed'
           \/ CleanArtifacts /\ save.pc = "adopted" /\ f[1] = save.target
                /\ f[2] \in {"man", "tmp"} /\ f \notin File(save.target, "man", save.kept)
           \/ Collect /\ save.pc = "cleaning" /\ f[1] = save.target
                /\ f[2] \in {"rec", "gen"} /\ f \notin Reach(save.target, save.gen)
<1>1. TypeOK
  BY DEF IInv
<1>2. CASE Quit
  <2>1. f \in File(live.path, "tmp", live.staged) /\ f \in shed'
    BY <1>2 DEF Quit, Unlinked
  <2> QED BY <1>2, <2>1 DEF File
<1>3. CASE CleanArtifacts
  BY <1>1, <1>3, CleanAvoids, SavePhases
<1>4. CASE Collect
  BY <1>1, <1>4, CollectAvoids, SavePhases
<1> QED BY <1>1, <1>2, <1>3, <1>4, DiskSteps

(* A generation that is there keeps its records, and its files but for the *)
(* cleaning beside the document that is cleaned up after.                  *)
LEMMA GenerationKept ==
    ASSUME IInv, [Next]_vars, NEW p \in Roots, NEW g \in Gens, <<p, "gen", g>> \in files
    PROVE  gens'[g] = gens[g]
<1>1. TypeOK /\ GenerationsFresh
  BY DEF IInv
<1>2. CASE StageSolutions
  <2>1. g # save.gen
    BY <1>1, <1>2, SavePhases DEF GenerationsFresh
  <2> QED BY <1>1, <1>2, <2>1 DEF StageSolutions, TypeOK
<1> QED BY <1>1, <1>2, DiskSteps

LEMMA ReadableNext ==
    ASSUME IInv, [Next]_vars, NEW p \in Roots, NEW g, Readable(p, g),
           save.pc = "cleaning" => p # save.target \/ g = save.gen
    PROVE  Readable(p, g)'
<1>1. g \in Gens /\ Reach(p, g) \subseteq files
  BY DEF Readable
<1>2. <<p, "gen", g>> \in files
  BY <1>1 DEF Reach, File
<1>3. Reach(p, g)' = Reach(p, g)
  BY <1>1, <1>2, GenerationKept DEF Reach
<1>4. ASSUME NEW f \in Reach(p, g) PROVE f \in files'
  <2>1. f \in files /\ f[1] = p /\ f[2] \in {"rec", "gen"}
    BY <1>1, <1>4 DEF Reach, File
  <2> QED BY <1>4, <2>1, FilesGone
<1> QED BY <1>1, <1>3, <1>4 DEF Readable

LEMMA WholeNext ==
    ASSUME IInv, IInv', [Next]_vars, NEW p \in Roots, NEW g, Whole(p, g),
           save.pc = "cleaning" => p # save.target \/ g = save.gen
    PROVE  Whole(p, g)'
<1> SUFFICES ASSUME g \in Gens, <<p, "gen", g>> \in files' PROVE Readable(p, g)'
  BY DEF Whole
<1>1. TypeOK /\ Staged'
  BY DEF IInv
<1>2. CASE <<p, "gen", g>> \in files
  BY <1>2, ReadableNext DEF Whole
<1>3. CASE <<p, "gen", g>> \notin files
  <2>1. StageSolutions /\ p = save.target /\ g = save.gen
    BY <1>1, <1>3, NewManifest
  <2>2. save'.pc = "staged" /\ save'.target = p /\ save'.gen = g
    BY <1>1, <2>1, SavePhases, SaveKept
  <2> QED BY <1>1, <2>2 DEF Staged, Readable, Reach
<1> QED BY <1>2, <1>3

LEMMA NoGenWhole == \A p : Whole(p, NoGen) /\ Whole(p, NoGen)'
BY Constants DEF Whole

(* The window, as the steps that change it leave it.                       *)
LEMMA OpenFields ==
    ASSUME TypeOK, NEW p \in Paths, Open(p)
    PROVE  /\ docs[p].some /\ UNCHANGED <<files, gens, docs>>
           /\ live'.path = p /\ live'.gen = docs[p].gen
           /\ live'.managed = docs[p].managed /\ live'.staged = {}
           /\ bound' = docs[p].gen \/ bound' = NoGen
<1>1. live' = Opened(p) /\ docs[p].some /\ UNCHANGED <<files, gens, docs>>
  BY DEF Open, Install
<1>2. bound' = docs[p].gen \/ bound' = NoGen
  BY DEF Open, Install, Opened
<1> QED BY <1>1, <1>2 DEF Opened

LEMMA RecoveredFields ==
    ASSUME Install(Recovered)
    PROVE  /\ live'.path = envelope /\ live'.gen = auto.gen /\ live'.managed = auto.managed
           /\ live'.staged = auto.staged /\ live'.astray = Recovered.astray
           /\ \/ bound' = NoGen
              \/ bound' = auto.gen /\ <<envelope, "gen", auto.gen>> \in files
BY DEF Install, Recovered

LEMMA BlankFields ==
    ASSUME Install(Blank)
    PROVE  /\ live'.path = NoPath /\ live'.gen = NoGen /\ live'.managed = {}
           /\ live'.staged = {} /\ bound' = NoGen
BY DEF Install, Blank

LEMMA AdoptFields ==
    ASSUME IInv, Adopt
    PROVE  /\ save.target \in Paths /\ docs[save.target].some
           /\ docs[save.target].gen = save.gen
           /\ UNCHANGED <<files, gens, docs>>
           /\ live'.path = save.target /\ live'.gen = save.gen
           /\ live'.managed = docs[save.target].managed /\ live'.staged = {}
           /\ bound' = save.gen
<1>1. TypeOK /\ Published
  BY DEF IInv
<1>2. save.target \in Paths /\ save.pc = "verified"
  BY <1>1, SaveFields DEF Adopt
<1>3. docs[save.target] = Document
  BY <1>1, <1>2 DEF Published
<1>4. live' = [Opened(save.target) EXCEPT !.nodes = live.nodes] /\ bound' = save.gen
        /\ UNCHANGED <<files, gens, docs>>
  BY DEF Adopt, disk
<1> QED BY <1>2, <1>3, <1>4 DEF Opened, Document

LEMMA WindowWholeNext ==
    ASSUME IInv, IInv', Retired, Adopted, WindowWhole, [Next]_vars
    PROVE  WindowWhole'
<1>1. TypeOK /\ Published /\ DocComplete /\ live.path \in Roots
  BY LiveFields DEF IInv
<1>2. ASSUME ~live.astray PROVE Whole(live.path, live.gen)'
         \/ live'.path # live.path \/ live'.gen # live.gen
  <2>1. Whole(live.path, live.gen)
    BY <1>2 DEF WindowWhole
  <2>2. save.pc = "cleaning" => live.gen = save.gen
    BY DEF Adopted
  <2> DEFINE p == live.path g == live.gen
  <2>3. Whole(p, g) /\ p \in Roots
    BY <1>1, <2>1
  <2>4. save.pc = "cleaning" => p # save.target \/ g = save.gen
    BY <2>2
  <2>5. SUFFICES ASSUME live'.path = p, live'.gen = g PROVE Whole(live.path, live.gen)'
    OBVIOUS
  <2> HIDE DEF p, g
  <2> QED BY <2>3, <2>4, <2>5, WholeNext DEF Whole, Readable, Reach
<1>3. ASSUME ~live'.astray PROVE Whole(live.path, live.gen)'
  <2>1. CASE UNCHANGED live \/ Altered
    BY <1>2, <1>3, <2>1 DEF Altered
  <2>2. CASE Stopped
    BY <2>2, StoppedWindow, NoGenWhole DEF Whole
  <2>3. ASSUME NEW p \in Paths, Open(p) PROVE Whole(live.path, live.gen)'
    <3>1. CompleteAt(p)
      BY <1>1, <2>3, OpenFields DEF DocComplete
    <3> QED BY <1>1, <2>3, <3>1, OpenFields DEF CompleteAt, Whole, Readable, Reach
  <2>4. CASE Restart
    <3>1. CASE Install(Blank)
      BY <3>1, BlankFields, NoGenWhole DEF Whole
    <3>2. CASE Recoverable /\ Install(Recovered)
      <4>1. UNCHANGED <<files, gens>> /\ live'.path = envelope /\ live'.gen = auto.gen
              /\ ~Recovered.astray
        BY <1>3, <2>4, <3>2, RestartCases, RecoveredFields
      <4>2. Young /\ ~auto.astray /\ auto.home = envelope
        BY <3>2, <4>1, RecoveredYoung
      <4>3. Whole(envelope, auto.gen)
        BY <4>2 DEF WindowWhole
      <4> QED BY <4>1, <4>3 DEF Whole, Readable, Reach
    <3> QED BY <2>4, <3>1, <3>2, RestartCases
  <2>5. CASE Adopt
    <3>1. CompleteAt(save.target)
      BY <1>1, <2>5, AdoptFields DEF DocComplete
    <3> QED BY <2>5, <3>1, AdoptFields DEF CompleteAt, Whole, Readable, Reach
  <2> QED BY <1>1, <2>1, <2>2, <2>3, <2>4, <2>5, LiveSteps
<1>4. ASSUME Young', ~auto'.astray PROVE Whole(auto.home, auto.gen)'
  <2>1. CASE auto' = Snapshot /\ UNCHANGED <<files, gens, live>>
    <3>1. ~live.astray /\ auto'.home = live.path /\ auto'.gen = live.gen
      BY <1>4, <2>1, SnapshotFields
    <3>2. Whole(live.path, live.gen)
      BY <3>1 DEF WindowWhole
    <3> QED BY <2>1, <3>1, <3>2 DEF Whole, Readable, Reach
  <2>2. CASE Commit
    <3>1. /\ Young /\ ~auto.astray /\ auto'.home = auto.home /\ auto'.gen = auto.gen
          /\ UNCHANGED <<files, gens>>
      BY <1>1, <1>4, <2>2, PublishFields DEF Young
    <3>2. Whole(auto.home, auto.gen)
      BY <3>1 DEF WindowWhole
    <3> QED BY <3>1, <3>2 DEF Whole, Readable, Reach
  <2>3. CASE auto' = auto /\ Young
    <3> DEFINE p == auto.home g == auto.gen
    <3>1. Whole(p, g) /\ p \in Roots
      BY <1>1, <1>4, <2>3 DEF WindowWhole, TypeOK, Autosaves
    <3>2. save.pc = "cleaning" => p # save.target
      BY <1>1, <2>3 DEF Retired, Published
    <3>3. auto'.home = p /\ auto'.gen = g
      BY <2>3
    <3> HIDE DEF p, g
    <3> QED BY <3>1, <3>2, <3>3, WholeNext DEF Whole, Readable, Reach
  <2> QED BY <1>1, <1>4, <2>1, <2>2, <2>3, YoungNext
<1> QED BY <1>3, <1>4 DEF WindowWhole

LEMMA LiveCompleteNext ==
    ASSUME IInv, Adopted, WindowWhole, WorkComplete, [Next]_vars
    PROVE  LiveComplete'
<1> SUFFICES ASSUME ~live'.astray
             PROVE  /\ File(live'.path, "man", live'.managed) \subseteq files'
                    /\ File(live'.path, "tmp", live'.staged) \subseteq files' \union shed'
                    /\ bound' # NoGen => Readable(live.path, bound)'
  BY DEF LiveComplete
<1>1. TypeOK /\ DocComplete /\ Published /\ LiveComplete /\ live.path \in Roots
  BY LiveFields DEF IInv, WorkComplete
(* The window stays, or what it stages is added.                           *)
<1>2. ASSUME live'.path = live.path, live'.managed = live.managed, live'.astray = live.astray,
             bound' = bound, ~Quit, ~Restart,
             \A a \in live'.staged : a \in live.staged \/ <<live.path, "tmp", a>> \in files'
      PROVE  /\ File(live'.path, "man", live'.managed) \subseteq files'
             /\ File(live'.path, "tmp", live'.staged) \subseteq files' \union shed'
             /\ bound' # NoGen => Readable(live.path, bound)'
  <2>1. /\ File(live.path, "man", live.managed) \subseteq files
        /\ File(live.path, "tmp", live.staged) \subseteq files \union shed
        /\ bound # NoGen => Readable(live.path, bound)
    BY <1>1, <1>2 DEF LiveComplete
  <2>2. File(live.path, "man", live.managed) \subseteq files'
    <3> SUFFICES ASSUME NEW f \in File(live.path, "man", live.managed), f \notin files'
                 PROVE  FALSE
      OBVIOUS
    <3>1. f \in files /\ f[2] = "man"
      BY <2>1 DEF File
    <3>2. save.pc = "adopted" /\ f \notin File(save.target, "man", save.kept)
      BY <1>2, <3>1, FilesGone
    <3> QED BY <3>2 DEF Adopted
  <2>3. File(live.path, "tmp", live'.staged) \subseteq files' \union shed'
    <3> SUFFICES ASSUME NEW a \in live'.staged
                 PROVE  <<live.path, "tmp", a>> \in files' \union shed'
      BY DEF File
    <3>1. CASE a \in live.staged
      <4> DEFINE f == <<live.path, "tmp", a>>
      <4>1. f \in files \union shed /\ f[2] = "tmp"
        BY <2>1, <3>1 DEF File
      <4>2. f \in files /\ f \notin files' => save.pc = "adopted"
        BY <1>2, <4>1, FilesGone
      <4>3. f \in shed => f \in shed' \union files'
        BY <1>2, ShedSteps
      <4> QED BY <3>1, <4>1, <4>2, <4>3 DEF Adopted
    <3> QED BY <1>2, <3>1
  <2>4. ASSUME bound # NoGen PROVE Readable(live.path, bound)'
    <3> DEFINE p == live.path g == bound
    <3>1. Readable(p, g) /\ p \in Roots
      BY <1>1, <2>1, <2>4
    <3>2. save.pc = "cleaning" => g = save.gen
      BY <1>1 DEF Published
    <3>3. live'.path = p /\ bound' = g
      BY <1>2
    <3> HIDE DEF p, g
    <3> QED BY <3>1, <3>2, <3>3, ReadableNext DEF Readable, Reach
  <2> QED BY <1>2, <2>2, <2>3, <2>4
<1>3. CASE UNCHANGED <<live, bound>> /\ ~Quit /\ ~Restart
  BY <1>2, <1>3
<1>4. CASE Altered
  <2>1. ~Quit /\ ~Restart
    BY <1>4, StoppedWindow DEF Quit, Restart, Altered, Stopped
  <2> QED BY <1>2, <1>4, <2>1 DEF Altered
<1>5. CASE Stopped
  BY <1>5, StoppedWindow DEF File
<1>6. ASSUME NEW p \in Paths, Open(p)
      PROVE  /\ File(live'.path, "man", live'.managed) \subseteq files'
             /\ File(live'.path, "tmp", live'.staged) \subseteq files' \union shed'
             /\ bound' # NoGen => Readable(live.path, bound)'
  <2>1. CompleteAt(p)
    BY <1>1, <1>6, OpenFields DEF DocComplete
  <2> QED BY <1>1, <1>6, <2>1, OpenFields DEF CompleteAt, Readable, Reach, File
<1>7. CASE Restart
  <2>1. UNCHANGED <<files, gens>>
    BY <1>7, RestartCases
  <2>2. CASE Install(Blank)
    BY <2>2, BlankFields DEF File
  <2>3. CASE Recoverable /\ Install(Recovered)
    <3>1. Young /\ ~auto.astray /\ auto.home = envelope
      BY <2>3, RecoveredYoung, RecoveredFields
    <3>2. /\ File(envelope, "man", auto.managed) \subseteq files
          /\ File(envelope, "tmp", auto.staged) \subseteq files \union shed
      BY <3>1 DEF WorkComplete, AutosaveComplete, Young
    <3>3. Whole(envelope, auto.gen)
      BY <3>1 DEF WindowWhole
    <3>4. auto.gen # NoGen => auto.gen \in Gens
      BY <1>1, SomeGen DEF TypeOK, Autosaves
    <3>5. bound' # NoGen => Readable(envelope, bound')
      BY <2>3, <3>3, <3>4, RecoveredFields DEF Whole
    <3>6. CASE shed' = shed
      BY <2>1, <2>3, <3>2, <3>5, <3>6, RecoveredFields DEF Readable, Reach
    <3>7. CASE Install(Blank)
      BY <2>2, <3>7
    <3> QED BY <1>7, <3>6, <3>7, RestartCases
  <2> QED BY <1>7, <2>2, <2>3, RestartCases
<1>8. CASE Adopt
  <2>1. CompleteAt(save.target)
    BY <1>1, <1>8, AdoptFields DEF DocComplete
  <2> QED BY <1>8, <2>1, AdoptFields DEF CompleteAt, Readable, Reach, File
<1> QED BY <1>1, <1>3, <1>4, <1>5, <1>6, <1>7, <1>8, LiveSteps DEF Quit

LEMMA AutosaveCompleteNext ==
    ASSUME IInv, Retired, WorkComplete, [Next]_vars
    PROVE  AutosaveComplete'
<1> SUFFICES ASSUME Young', ~auto'.astray
             PROVE  /\ File(auto'.home, "man", auto'.managed) \subseteq files'
                    /\ File(auto'.home, "tmp", auto'.staged) \subseteq files' \union shed'
  BY DEF AutosaveComplete, Young
<1>1. TypeOK /\ Published
  BY DEF IInv
<1>2. CASE auto' = Snapshot /\ UNCHANGED <<files, live, shed>>
  BY <1>2, SnapshotFields DEF WorkComplete, LiveComplete
<1>3. CASE Commit
  <2>1. /\ Young /\ ~auto.astray /\ auto'.home = auto.home /\ UNCHANGED <<files, shed>>
        /\ auto'.managed = auto.managed /\ auto'.staged = auto.staged
    BY <1>1, <1>3, PublishFields DEF Young, Commit, leaving
  <2> QED BY <2>1 DEF WorkComplete, AutosaveComplete, Young
<1>4. CASE auto' = auto /\ Young
  <2>1. /\ File(auto.home, "man", auto.managed) \subseteq files
        /\ File(auto.home, "tmp", auto.staged) \subseteq files \union shed
    BY <1>4 DEF WorkComplete, AutosaveComplete, Young
  <2>2. save.pc = "adopted" => auto.home # save.target
    BY <1>1, <1>4 DEF Retired, Published
  <2>3. ASSUME NEW f \in files, f[1] = auto.home, f[2] \in {"man", "tmp"}
        PROVE  f \in files' \/ (f[2] = "tmp" /\ f \in shed')
    BY <1>4, <2>2, <2>3, FilesGone
  <2>4. shed \subseteq shed' \union files'
    BY <1>4, ShedSteps DEF Young
  <2> QED BY <1>4, <2>1, <2>3, <2>4 DEF File
<1> QED BY <1>1, <1>2, <1>3, <1>4, YoungNext

---------------------------------------------------------------------------
(* Nothing beside the document escapes the cleaning.                       *)

(* A solution file appears by the staging of a save only.                  *)
LEMMA NewSolutionFile ==
    ASSUME TypeOK, [Next]_vars, save.pc # "idle", save'.pc # "idle", ~StageSolutions,
           NEW f \in files', f[2] \in {"rec", "gen"}
    PROVE  f \in files
<1>1. f \in files' /\ f[2] \in {"rec", "gen"}
  OBVIOUS
<1>2. \A root, ids : f \notin File(root, "tmp", ids) /\ f \notin File(root, "man", ids)
  BY <1>1 DEF File
<1>3. CASE StageArtifacts
  BY <1>1, <1>2, <1>3 DEF StageArtifacts
<1>4. ~FailStaging /\ ~FailVerify /\ ~Stale
  BY SavePhases DEF FailStaging, FailVerify, Stale
<1>5. CASE \/ \E a \in Artifacts : Import(a) \/ Drop(a)
           \/ \E n \in Nodes : RemoveNode(n)
           \/ \E r \in Results : Settle(r)
  BY <1>1, <1>2, <1>5 DEF Import, Drop, RemoveNode, Settle, disk
<1>6. CASE AutosaveTick \/ Quit \/ Crash \/ Restart \/ \E q \in Paths : Open(q)
  BY <1>1, <1>6 DEF AutosaveTick, Quit, Unlinked, Crash, Restart, Open, disk
<1>7. CASE Verify \/ Adopt \/ Commit \/ \E q \in Paths : BeginSave(q)
  BY <1>1, <1>7 DEF Verify, Adopt, Commit, BeginSave, disk
<1>8. CASE CleanArtifacts \/ Collect
  BY <1>1, <1>8 DEF CleanArtifacts, Collect, Unlinked
<1>9. CASE DiscardAutosave \/ PersistAutosave \/ PersistEnvelope \/ UNCHANGED vars
  BY <1>1, <1>9 DEF DiscardAutosave, PersistAutosave, PersistEnvelope, vars, disk
<1>10. CASE CloseEnvelope \/ CloseAutosave
  BY <1>1, <1>10 DEF CloseEnvelope, CloseAutosave
<1> QED BY <1>3, <1>4, <1>5, <1>6, <1>7, <1>8, <1>9, <1>10 DEF Next

LEMMA ValidKept ==
    ASSUME TypeOK, [Next]_vars, save.pc # "idle", save'.pc # "idle"
    PROVE  save'.valid = save.valid
<1> USE DEF TypeOK, SaveStates
<1>1. CASE save' = save
  BY <1>1
<1>2. CASE StageArtifacts \/ StageSolutions
  BY <1>2 DEF StageArtifacts, StageSolutions
<1>3. CASE Commit \/ Verify \/ Adopt \/ CleanArtifacts \/ Collect
  BY <1>3 DEF Commit, Verify, Adopt, CleanArtifacts, Collect
<1>4. CASE DiscardAutosave \/ PersistAutosave
  BY <1>4, SavePhases DEF DiscardAutosave, PersistAutosave
<1> HIDE DEF TypeOK
<1> QED BY <1>1, <1>2, <1>3, <1>4, SaveSteps, SavePhases

LEMMA ListedNext ==
    ASSUME IInv, Listed, [Next]_vars
    PROVE  Listed'
<1> SUFFICES ASSUME save'.pc \in {"staged", "committed", "verified"}, save'.valid
             PROVE  SolutionFiles(save.target)' \subseteq save'.cand
  BY DEF Listed
<1>1. TypeOK
  BY DEF IInv
<1>2. /\ save.pc # "idle" /\ save'.pc # "idle"
      /\ StageSolutions \/ save.pc \in {"staged", "committed", "verified"}
  BY <1>1, SaveSteps, SavePhases
<1>3. save'.target = save.target /\ save'.valid = save.valid
  BY <1>1, <1>2, SaveKept, ValidKept
<1>4. CASE StageSolutions
  <2>1. PICK new : /\ files' = files \union new
                   /\ save'.cand = IF save.valid THEN SolutionFiles(save.target) \union new ELSE {}
    BY <1>1, <1>4 DEF StageSolutions, TypeOK, SaveStates
  <2> QED BY <1>3, <2>1 DEF SolutionFiles
<1>5. CASE ~StageSolutions
  <2>1. save'.cand = save.cand
    BY <1>1, <1>2, <1>5, SaveKept
  <2>2. SolutionFiles(save.target) \subseteq save.cand
    BY <1>2, <1>3, <1>5 DEF Listed
  <2>3. ASSUME NEW f \in files', f[1] = save.target, f[2] \in {"rec", "gen"}
        PROVE  f \in save'.cand
    <3>1. f \in files
      BY <1>1, <1>2, <1>5, <2>3, NewSolutionFile
    <3> QED BY <2>1, <2>2, <2>3, <3>1 DEF SolutionFiles
  <2> QED BY <1>3, <2>3 DEF SolutionFiles
<1> QED BY <1>4, <1>5

(* The pass over an entry leaves what is still there to be tried again.    *)
LEMMA LeftCovers ==
    ASSUME IInv, Collect, save.next = Len(pending), Newer(pending[Len(pending)]),
           NEW e, e.path = Entry.path, e.cand = Left(files'),
           e.complete = (Entry.complete \/ (Collectable /\ Left(files') = {})),
           NEW f \in files', f \in files, f[1] = save.target, f[2] \in {"rec", "gen"}
    PROVE  f \in Reach(save.target, bound) \/ f \in e.cand \/ ~e.complete
<1>1. TypeOK /\ Published /\ Cursor
  BY DEF IInv
<1>2. save.pc = "cleaning" /\ save.next \in 1 .. Len(pending)
  BY <1>1, SaveFields DEF Collect, Cursor, TypeOK
<1>3. /\ Entry = pending[Len(pending)] /\ Entry.path = save.target /\ Newest
      /\ Active = bound
  BY <1>1, <1>2 DEF Newer, Entry, Newest, Active, Published
<1>4. f \in SolutionFiles(save.target)
  BY DEF SolutionFiles
<1>5. f \in Reach(save.target, bound) \/ f \in Candidates
  BY <1>3, <1>4 DEF Newer, Candidates
<1>6. CASE Collectable
  BY <1>3, <1>5, <1>6 DEF Left
<1>7. CASE ~Collectable
  BY <1>3, <1>4, <1>7 DEF Left, Newer
<1> QED BY <1>6, <1>7

LEMMA AheadNext ==
    ASSUME IInv, Listed, Ahead, [Next]_vars
    PROVE  Ahead'
<1> SUFFICES ASSUME save'.pc \in {"adopted", "cleaning", "persist"}
             PROVE  Len(pending') >= 1 /\ Newer(pending[Len(pending)])'
  BY DEF Ahead
<1>1. TypeOK /\ TypeOK' /\ Captured /\ Published /\ Cursor
        /\ pending \in Seq(Entries) /\ Len(pending) \in Nat
  BY TypesNext DEF IInv, TypeOK
<1>2. /\ save.pc # "idle" /\ save'.pc # "idle" /\ ~StageSolutions
      /\ Adopt \/ save.pc \in {"adopted", "cleaning", "persist"}
  BY <1>1, SaveSteps, SavePhases
<1>3. save'.target = save.target /\ gens' = gens
  BY <1>1, <1>2, SaveKept, DiskSteps
<1>4. ASSUME NEW f \in files', f[2] \in {"rec", "gen"} PROVE f \in files
  BY <1>1, <1>2, <1>4, NewSolutionFile
<1>5. ASSUME bound' = bound, Newer(pending[Len(pending)]),
             pending'[Len(pending')] = pending[Len(pending)]
      PROVE  Newer(pending[Len(pending)])'
  BY <1>3, <1>4, <1>5 DEF Newer, SolutionFiles, Reach
<1>6. CASE Adopt
  <2> DEFINE entry == [gen |-> save.gen, prev |-> save.prev, path |-> save.target,
                       cand |-> save.cand, complete |-> save.valid]
  <2>1. save.pc = "verified" /\ pending' = Append(pending, entry)
    BY <1>6 DEF Adopt
  <2>2. entry \in Entries
    BY <1>1, <2>1, SaveFields DEF Entries
  <2>3. Len(pending') = Len(pending) + 1 /\ pending'[Len(pending')] = entry
    BY <1>1, <2>1, <2>2, AppendTo
  <2>4. entry.path = save.target /\ (entry.complete => SolutionFiles(save.target) \subseteq entry.cand)
    BY <2>1 DEF Listed
  <2> HIDE DEF entry
  <2> QED BY <1>1, <1>3, <1>4, <2>3, <2>4 DEF Newer, SolutionFiles
<1>7. CASE Collect
  <2>1. save.pc = "cleaning" /\ save.next \in 1 .. Len(pending) /\ ~Adopt
    BY <1>1, <1>7, SaveFields DEF Collect, Cursor, Adopt
  <2>2. Newer(pending[Len(pending)]) /\ Len(pending) >= 1 /\ bound' = bound
    BY <1>1, <1>2, <2>1, WindowSteps DEF Ahead
  <2>3. CASE ~Newest /\ Popped(pending')
    <3>1. save.next < Len(pending)
      BY <2>1, <2>3 DEF Newest
    <3>2. /\ Len(pending') = Len(pending) - 1
          /\ \A k \in 1 .. Len(pending') :
                pending'[k] = IF k < save.next THEN pending[k] ELSE pending[k + 1]
      BY <1>1, <2>1, <2>3, WithoutOne DEF Popped
    <3>3. Len(pending') >= 1 /\ pending'[Len(pending')] = pending[Len(pending)]
      BY <1>1, <2>1, <3>1, <3>2
    <3> QED BY <1>5, <2>2, <3>3
  <2>4. CASE Kept(pending', files')
    <3> DEFINE e == [Entry EXCEPT !.cand = Left(files'),
                        !.complete = Entry.complete \/ (Collectable /\ Left(files') = {})]
    <3>1. /\ e \in Entries /\ e.path = Entry.path /\ e.cand = Left(files')
          /\ e.complete = (Entry.complete \/ (Collectable /\ Left(files') = {}))
      <4>1. files' \subseteq Files /\ Left(files') \subseteq Files
        BY <1>1, <2>1, EntryTypes DEF TypeOK, Left
      <4> QED BY <1>1, <2>1, <4>1, EntryTypes DEF Entries
    <3>2. pending' = [pending EXCEPT ![save.next] = e]
      BY <2>4 DEF Kept
    <3> HIDE DEF e
    <3>3. /\ Len(pending') = Len(pending)
          /\ \A k \in 1 .. Len(pending') :
                pending'[k] = IF k = save.next THEN e ELSE pending[k]
      BY <1>1, <2>1, <3>1, <3>2, OneChanged
    <3>4. CASE save.next # Len(pending)
      <4>1. pending'[Len(pending')] = pending[Len(pending)]
        BY <1>1, <2>2, <3>3, <3>4
      <4> QED BY <1>5, <2>2, <3>3, <4>1
    <3>5. CASE save.next = Len(pending)
      <4>1. pending'[Len(pending')] = e
        BY <1>1, <2>2, <3>3, <3>5
      <4>2. Entry = pending[Len(pending)]
        BY <3>5 DEF Entry
      <4>3. e.path = save.target
        BY <2>2, <3>1, <4>2 DEF Newer
      <4>4. ASSUME NEW f \in files', f[1] = save.target, f[2] \in {"rec", "gen"}
            PROVE  f \in Reach(save.target, bound) \/ f \in e.cand \/ ~e.complete
        <5>1. f \in files
          BY <1>4, <4>4
        <5> QED BY <1>7, <2>2, <3>1, <3>5, <4>4, <5>1, LeftCovers
      <4> QED BY <1>3, <2>2, <3>3, <4>1, <4>3, <4>4 DEF Newer, SolutionFiles, Reach
    <3> QED BY <3>4, <3>5
  <2> QED BY <1>1, <1>7, <2>1, <2>3, <2>4, CollectCases
<1>8. CASE ~Adopt /\ ~Collect
  <2>1. pending' = pending /\ bound' = bound
    BY <1>1, <1>2, <1>8, WindowSteps
  <2>2. Newer(pending[Len(pending)]) /\ Len(pending) >= 1
    BY <1>2, <1>8 DEF Ahead
  <2> QED BY <1>5, <2>1, <2>2
<1> QED BY <1>6, <1>7, <1>8

LEMMA WNext == IInv /\ WInv /\ [Next]_vars => WInv'
<1> SUFFICES ASSUME IInv, WInv, [Next]_vars PROVE WInv'
  OBVIOUS
<1>1. IInv'
  BY InvNext
<1>2. Listed' /\ Ahead'
  BY ListedNext, AheadNext DEF WInv
<1>3. WorkComplete'
  BY LiveCompleteNext, AutosaveCompleteNext DEF WInv, WorkComplete
<1>4. AutosaveClean' /\ Unpublished' /\ Retired' /\ Adopted' /\ UnsavedIsDirty'
  BY AutosaveCleanNext, UnpublishedNext, RetiredNext, AdoptedNext, UnsavedNext
     DEF WInv
<1>5. WindowWhole'
  BY <1>1, WindowWholeNext DEF WInv
<1> QED BY <1>2, <1>3, <1>4, <1>5 DEF WInv

LEMMA WInvariance == Spec => [](IInv /\ WInv)
<1>1. Init => IInv /\ WInv
  BY InvInit, WInit
<1>2. IInv /\ WInv /\ [Next]_vars => (IInv /\ WInv)'
  BY InvNext, WNext
<1> QED BY <1>1, <1>2, PTL DEF Spec

(* The project in the window and the autosave a restart would recover keep *)
(* their files and the generation they are bound to, whatever a save, its  *)
(* cleaning or a crash does meanwhile.                                     *)
THEOREM WorkKept == Spec => []WorkComplete
<1>1. WInv => WorkComplete
  BY DEF WInv
<1> QED BY <1>1, WInvariance, PTL

(* A project that is not marked as changed is what is on disk, however     *)
(* saves, edits, failures, crashes and recoveries follow each other.       *)
THEOREM CleanIsSaved == Spec => []UnsavedIsDirty
<1>1. WInv => UnsavedIsDirty
  BY DEF WInv
<1> QED BY <1>1, WInvariance, PTL

(* When the cleaning of a save has ended, every solution file left beside  *)
(* the document is in use or pending for a later pass.                     *)
THEOREM NoneForgotten == Spec => []NothingForgotten
<1>1. TypeOK /\ Ahead => NothingForgotten
  <2> SUFFICES ASSUME TypeOK, Ahead, save.pc = "persist", NEW f \in SolutionFiles(save.target)
               PROVE  \/ f \in Reach(save.target, bound)
                      \/ \E k \in 1..Len(pending) :
                            /\ pending[k].path = save.target
                            /\ (f \in pending[k].cand \/ ~pending[k].complete)
    BY DEF NothingForgotten
  <2>1. Len(pending) \in 1..Len(pending)
    BY DEF TypeOK, Ahead
  <2> QED BY <2>1 DEF Ahead, Newer
<1>2. IInv /\ WInv => TypeOK /\ Ahead
  BY DEF IInv, WInv
<1> QED BY <1>1, <1>2, WInvariance, PTL
===========================================================================
