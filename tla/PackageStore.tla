---------------------------- MODULE PackageStore ----------------------------
(***************************************************************************)
(* The converted packages under one root (cli.py, cache.py, meta.py,       *)
(* annotator.py, review.py): one folder for each content of a source file, *)
(* the index that mirrors them, and the writers that work under the lock   *)
(* of a package: convert, annotate and review.                             *)
(*                                                                         *)
(* A folder keeps the interpretation of its workbook in three places that  *)
(* are written one after the other: semantics.json, the annotation block   *)
(* of meta.json and SKILL.md; the index mirrors it in a fourth.            *)
(***************************************************************************)
EXTENDS Naturals

CONSTANTS Process,
          Version,      \* converter versions that are run
          Params,       \* conversion_params
          Model,        \* annotators: with the file, what annotation_key hashes
          Attempts,     \* how often convert tries while its source changes (3)
          None,
          Content,      \* 0 .. n: contents of the source file, which never recur
          MaxOps,       \* bound: commands that are run
          MaxCrashes    \* bound: deaths of a process and faults of a write

Status == {"draft", "approved", "rejected"}

\* semantics.json: which annotation it is (id, model), whether no unit was left
\* out (whole), whether its evidence exists (fits), its review (status).
Interpretation ==
  [id : 0 .. MaxOps, model : Model, whole : BOOLEAN, fits : BOOLEAN, status : Status]

\* The annotation block of meta.json.
Note == [status : Status \cup {None}, key : Model \cup {None}]

\* A folder: the content it is made from and the options of its conversion,
\* whether all its files are there (whole), and the three places of its
\* interpretation.
Package ==
  [from : Content, version : Version, params : Params, whole : BOOLEAN,
   semantics : Interpretation \cup {None}, annotation : Note, skill : 0 .. MaxOps \cup {None}]

ASSUME PackageAssumption ==
  /\ Attempts \in Nat \ {0}
  /\ Content \subseteq Nat /\ 0 \in Content
  /\ MaxOps \in Nat /\ MaxCrashes \in Nat
  /\ None \notin Process \cup Model
  /\ None \notin {"convert", "annotate", "review"}
  /\ None \notin Interpretation /\ None \notin Package

VARIABLES
  source,   \* the content of the source file now
  folder,   \* folder[c]: the package that is named by the digest of c
  index,    \* index[c]: its entry of _index.json
  lock,     \* lock[c]: who holds the lock of the package
  op,       \* op[p]: the command a process runs
  ops, crashes

vars == <<source, folder, index, lock, op, ops, crashes>>

NoOp == [kind |-> None, pc |-> "idle", pkg |-> None, force |-> FALSE, version |-> None,
         params |-> None, model |-> None, tries |-> 0, reason |-> None, staging |-> None,
         units |-> None, verdict |-> None]

Init ==
  /\ source = 0
  /\ folder = [c \in Content |-> None] /\ index = [c \in Content |-> None]
  /\ lock = [c \in Content |-> None] /\ op = [p \in Process |-> NoOp]
  /\ ops = 0 /\ crashes = 0

Go(p, pc) == op' = [op EXCEPT ![p].pc = pc]

\* A command leaves the lock of its package, if it holds it.
Leave(p) == lock' = [c \in Content |-> IF lock[c] = p THEN None ELSE lock[c]]
End(p) == Leave(p) /\ op' = [op EXCEPT ![p] = NoOp]

Lock(p) ==
  /\ op[p].pc = "lock" /\ lock[op[p].pkg] = None
  /\ lock' = [lock EXCEPT ![op[p].pkg] = p]
  /\ Go(p, op[p].kind)
  /\ UNCHANGED <<source, folder, index, ops, crashes>>

-----------------------------------------------------------------------------
\* What a package says.

NoAnnotation == [status |-> None, key |-> None]

\* SKILL.md shows the interpretation once it is approved, and a draft else.
Render(semantics) ==
  IF semantics # None /\ semantics.status = "approved" THEN semantics.id ELSE None

\* verify: the folder is whole, its view is the one its files render to, the
\* annotation block agrees with the semantics, and their evidence exists.
AnnotationAgrees(semantics, annotation) ==
  IF semantics = None THEN annotation = NoAnnotation
  ELSE /\ annotation.status = semantics.status
       /\ annotation.key \in {None, semantics.model}
       /\ semantics.status = "approved" => annotation.key # None

\* Every file is there and fits its schema; the evidence names cells there are.
Complete(package) == package.whole
EvidenceHolds(semantics) == semantics.fits

Verifies(package) ==
  /\ Complete(package)
  /\ package.skill = Render(package.semantics)
  /\ AnnotationAgrees(package.semantics, package.annotation)
  /\ package.semantics # None => EvidenceHolds(package.semantics)

Entry(package) ==
  [version |-> package.version, params |-> package.params,
   key |-> package.annotation.key, status |-> package.annotation.status]

\* update_annotation: an entry that is missing is made again from meta.json.
Mirror(c, key, status) ==
  index' = [index EXCEPT ![c] =
    [(IF @ = None THEN Entry(folder[c]) ELSE @) EXCEPT !.key = key, !.status = status]]

-----------------------------------------------------------------------------
\* convert.

\* probe: what the index and the folder say of the content under the options.
FaultIgnoresParams(c, o) ==
  IF o.force THEN "force"
  ELSE IF index[c] = None THEN "absent"
  ELSE IF index[c].version # o.version THEN "version_changed"
  ELSE IF folder[c] = None THEN "folder_missing"
  ELSE "match"
Reason(c, o) ==
  IF o.force THEN "force"
  ELSE IF index[c] = None THEN "absent"
  ELSE IF index[c].version # o.version THEN "version_changed"
  ELSE IF index[c].params # o.params THEN "params_changed"
  ELSE IF folder[c] = None THEN "folder_missing"
  ELSE "match"

Probe(p) ==
  /\ op[p].pc = "probe"
  /\ op' = [op EXCEPT ![p].pc = "lock", ![p].pkg = source]
  /\ UNCHANGED <<source, folder, index, lock, ops, crashes>>

\* The source changed under the command: it lets the lock go and tries again.
TryAgain(p) ==
  /\ Leave(p)
  /\ op' = [op EXCEPT ![p] =
       IF @.tries + 1 < Attempts
       THEN [@ EXCEPT !.pc = "probe", !.tries = op[p].tries + 1] ELSE NoOp]

\* Under the lock the source is probed again: it may name another package.
ProbeAgain(p) ==
  /\ op[p].pc = "convert"
  /\ LET reason == Reason(source, op[p])
     IN IF source # op[p].pkg THEN TryAgain(p)
        ELSE IF reason = "match" THEN Go(p, "hit") /\ UNCHANGED lock
        ELSE op' = [op EXCEPT ![p].pc = "extract", ![p].reason = reason] /\ UNCHANGED lock
  /\ UNCHANGED <<source, folder, index, ops, crashes>>

\* The folder in place is given as the result.
CacheHit(p) ==
  /\ op[p].pc = "hit"
  /\ End(p)
  /\ UNCHANGED <<source, folder, index, ops, crashes>>

Extract(p) ==
  /\ op[p].pc = "extract"
  /\ op' = [op EXCEPT ![p].pc = "stage", ![p].staging =
       [from |-> source, version |-> op[p].version, params |-> op[p].params, whole |-> TRUE,
        semantics |-> None, annotation |-> NoAnnotation, skill |-> None]]
  /\ UNCHANGED <<source, folder, index, lock, ops, crashes>>

\* The digest that is written into meta.json must be the one of the probe.
SameDigest(p) == source = op[p].pkg

Stage(p) ==
  /\ op[p].pc = "stage"
  /\ IF SameDigest(p) THEN Go(p, "inherit") /\ UNCHANGED lock ELSE TryAgain(p)
  /\ UNCHANGED <<source, folder, index, ops, crashes>>

\* _should_inherit: only the version changed, and a completed annotation is
\* there by the word of the index, of meta.json and of the semantics.
ShouldInherit(p) ==
  LET o == op[p]
      old == folder[o.pkg]
      entry == index[o.pkg]
  IN /\ o.reason = "version_changed" /\ entry.params = o.params
     /\ old # None
     /\ old.semantics # None /\ entry.key # None
     /\ entry.key = old.annotation.key /\ old.annotation.key = old.semantics.model

\* _inherit_semantics: evidence the new extraction does not hold makes it a
\* draft again; the key stays, the view is rendered again.
Demoted(semantics, fits) ==
  [semantics EXCEPT !.fits = fits, !.status = IF fits THEN @ ELSE "draft"]

FaultOldView(semantics) == None
InheritedView(semantics) == Render(semantics)

Inherited(staging, semantics) ==
  [staging EXCEPT !.semantics = semantics, !.skill = InheritedView(semantics),
                  !.annotation = [status |-> semantics.status, key |-> semantics.model]]

\* A folder whose removal was cut short may lack the files that are inherited.
Inherit(p) ==
  /\ op[p].pc = "inherit"
  /\ \/ /\ ShouldInherit(p)
        /\ \E fits \in BOOLEAN :
             op' = [op EXCEPT ![p].pc = "remove", ![p].staging =
                      Inherited(@, Demoted(folder[op[p].pkg].semantics, fits))]
     \/ /\ ~ (ShouldInherit(p) /\ Complete(folder[op[p].pkg]))
        /\ Go(p, "remove")
  /\ UNCHANGED <<source, folder, index, lock, ops, crashes>>

\* The old folder is removed file by file, then the new one takes its name.
Remove(p) ==
  /\ op[p].pc = "remove"
  /\ IF folder[op[p].pkg] # None
     THEN folder' = [folder EXCEPT ![op[p].pkg].whole = FALSE] ELSE UNCHANGED folder
  /\ Go(p, "rename")
  /\ UNCHANGED <<source, index, lock, ops, crashes>>

Rename(p) ==
  /\ op[p].pc = "rename"
  /\ \/ folder[op[p].pkg] # None /\ folder' = [folder EXCEPT ![op[p].pkg] = None] /\ UNCHANGED op
     \/ /\ folder[op[p].pkg] = None
        /\ folder' = [folder EXCEPT ![op[p].pkg] = op[p].staging]
        /\ Go(p, "record")
  /\ UNCHANGED <<source, index, lock, ops, crashes>>

Recorded(package) == Entry(package)

Record(p) ==
  /\ op[p].pc = "record"
  /\ index' = [index EXCEPT ![op[p].pkg] = Recorded(folder[op[p].pkg])]
  /\ End(p)
  /\ UNCHANGED <<source, folder, ops, crashes>>

-----------------------------------------------------------------------------
\* annotate.

\* A completed annotation is used again when the index, meta.json and the
\* semantics name its key and its body is still valid.
AnnotationHit(p) ==
  LET package == folder[op[p].pkg]
      entry == index[op[p].pkg]
  IN /\ ~ op[p].force /\ package.semantics # None /\ entry # None
     /\ op[p].model = package.annotation.key /\ op[p].model = entry.key
     /\ op[p].model = package.semantics.model
     /\ EvidenceHolds(package.semantics)

\* Each sheet and then the workbook is asked for, twice at most; a unit that
\* stays invalid is left out.
Units == {"all", "some"}

\* An error of the client ends the command. The completed annotation of a half
\* removed folder may miss, and is made again.
Annotate(p) ==
  /\ op[p].pc = "annotate"
  /\ IF folder[op[p].pkg] = None THEN End(p)
     ELSE IF AnnotationHit(p) /\ Complete(folder[op[p].pkg]) THEN End(p)
     ELSE \/ /\ \E units \in Units :
                  op' = [op EXCEPT ![p].pc = "semantics", ![p].units = units]
             /\ UNCHANGED lock
          \/ End(p)
  /\ UNCHANGED <<source, folder, index, ops, crashes>>

WriteSemantics(p) ==
  /\ op[p].pc = "semantics"
  /\ folder' = [folder EXCEPT ![op[p].pkg].semantics =
       [id |-> ops, model |-> op[p].model, whole |-> op[p].units = "all",
        fits |-> TRUE, status |-> "draft"]]
  /\ Go(p, "meta")
  /\ UNCHANGED <<source, index, lock, ops, crashes>>

\* Only an annotation that leaves nothing out gets its key.
RecordedKey(p) == IF op[p].units = "all" THEN op[p].model ELSE None

WriteMeta(p) ==
  /\ op[p].pc = "meta"
  /\ folder' = [folder EXCEPT ![op[p].pkg].annotation = [status |-> "draft", key |-> RecordedKey(p)]]
  /\ Go(p, "mirror")
  /\ UNCHANGED <<source, index, lock, ops, crashes>>

MirrorAnnotation(p) ==
  /\ op[p].pc = "mirror"
  /\ Mirror(op[p].pkg, RecordedKey(p), "draft")
  /\ End(p)
  /\ UNCHANGED <<source, folder, ops, crashes>>

-----------------------------------------------------------------------------
\* review.

\* approve: the whole package verifies, and the annotation is complete by the
\* key of meta.json; reject needs the semantics only.
MayApprove(package) ==
  /\ Verifies(package)
  /\ package.annotation.key = package.semantics.model

Review(p) ==
  /\ op[p].pc = "review"
  /\ LET package == folder[op[p].pkg]
         refused == \/ package = None
                    \/ package.semantics = None
                    \/ op[p].verdict = "approved" /\ ~ MayApprove(package)
     IN IF refused THEN End(p)
        ELSE Go(p, "verdict") /\ UNCHANGED lock
  /\ UNCHANGED <<source, folder, index, ops, crashes>>

WriteVerdict(p) ==
  /\ op[p].pc = "verdict"
  /\ folder' = [folder EXCEPT ![op[p].pkg].semantics.status = op[p].verdict]
  /\ Go(p, "sync")
  /\ UNCHANGED <<source, index, lock, ops, crashes>>

\* _sync_meta: meta.json keeps its key, then the index follows.
SyncMeta(p) ==
  /\ op[p].pc = "sync"
  /\ folder' = [folder EXCEPT ![op[p].pkg].annotation.status = op[p].verdict]
  /\ Go(p, "syncindex")
  /\ UNCHANGED <<source, index, lock, ops, crashes>>

SyncIndex(p) ==
  /\ op[p].pc = "syncindex"
  /\ Mirror(op[p].pkg, IF index[op[p].pkg] = None THEN folder[op[p].pkg].annotation.key
                       ELSE index[op[p].pkg].key, op[p].verdict)
  /\ Go(p, "skill")
  /\ UNCHANGED <<source, folder, lock, ops, crashes>>

RegenerateSkill(p) ==
  /\ op[p].pc = "skill"
  /\ folder' = [folder EXCEPT ![op[p].pkg].skill = Render(folder[op[p].pkg].semantics)]
  /\ End(p)
  /\ UNCHANGED <<source, index, ops, crashes>>

-----------------------------------------------------------------------------
\* The commands, the source and the faults.

Begin(p, o) ==
  /\ op[p].pc = "idle" /\ ops < MaxOps
  /\ ops' = ops + 1
  /\ op' = [op EXCEPT ![p] = o]
  /\ UNCHANGED <<source, folder, index, lock, crashes>>

BeginConvert(p, version, params, force) ==
  Begin(p, [NoOp EXCEPT !.kind = "convert", !.pc = "probe", !.version = version,
                        !.params = params, !.force = force])

\* annotate and review are given a folder that is there.
BeginAnnotate(p, c, model, force) ==
  folder[c] # None /\ Begin(p, [NoOp EXCEPT !.kind = "annotate", !.pc = "lock", !.pkg = c,
                                            !.model = model, !.force = force])

BeginReview(p, c, verdict) ==
  folder[c] # None /\ Begin(p, [NoOp EXCEPT !.kind = "review", !.pc = "lock", !.pkg = c,
                                            !.verdict = verdict])

ChangeSource ==
  /\ source + 1 \in Content /\ source' = source + 1
  /\ UNCHANGED <<folder, index, lock, op, ops, crashes>>

\* A folder whose removal was cut short lacks the file that is read next: the
\* command ends where it is.
MissesFile(p) ==
  /\ op[p].pc \in {"annotate", "review", "sync", "skill"}
  /\ folder[op[p].pkg] # None /\ ~ Complete(folder[op[p].pkg])
  /\ End(p)
  /\ UNCHANGED <<source, folder, index, ops, crashes>>

\* The process of a command dies, or its next write fails: the lock is let
\* go, the staging folder is of no more use.
Crash(p) ==
  /\ op[p].pc # "idle" /\ crashes < MaxCrashes
  /\ crashes' = crashes + 1
  /\ End(p)
  /\ UNCHANGED <<source, folder, index, ops>>

Step(p) ==
  \/ Lock(p) \/ Probe(p) \/ ProbeAgain(p) \/ CacheHit(p) \/ Extract(p) \/ Stage(p)
  \/ Inherit(p) \/ Remove(p) \/ Rename(p) \/ Record(p)
  \/ Annotate(p) \/ WriteSemantics(p) \/ WriteMeta(p) \/ MirrorAnnotation(p)
  \/ Review(p) \/ WriteVerdict(p) \/ SyncMeta(p) \/ SyncIndex(p) \/ RegenerateSkill(p)
  \/ MissesFile(p)

Next ==
  \/ \E p \in Process :
       \/ \E v \in Version, o \in Params, force \in BOOLEAN : BeginConvert(p, v, o, force)
       \/ \E c \in Content, m \in Model, force \in BOOLEAN : BeginAnnotate(p, c, m, force)
       \/ \E c \in Content, verdict \in {"approved", "rejected"} : BeginReview(p, c, verdict)
       \/ Step(p)
       \/ Crash(p)
  \/ ChangeSource

Spec == Init /\ [][Next]_vars
=============================================================================
