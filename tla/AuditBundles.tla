---------------------------- MODULE AuditBundles ----------------------------
(***************************************************************************)
(* The prepared audit bundles of a converted package (audit/prepare.py,    *)
(* audit/review.py, audit/scope.py, the loader of audit/consume.py).       *)
(*                                                                         *)
(* A scope, the workbook or one of its sheets, has a bundle of three files *)
(* that are made one from the other: the facts, the standards context and  *)
(* the brief.  Writers hold the lock of the package and replace the files  *)
(* one by one; the marker (meta.json of the workbook, commit.json of a     *)
(* sheet) comes last.  Readers take no lock: what they read counts only if *)
(* the files refer to each other and the marker refers to them.            *)
(*                                                                         *)
(* A digest or a key of a document is the document itself.                 *)
(***************************************************************************)
EXTENDS Naturals, Sequences, FiniteSets

CONSTANTS Process, Sheet, Workbook, None,
          Model,       \* language models of facts and brief
          Retriever,   \* identities of a standards retriever, its time left out
          MaxOps,      \* bound: commands that are run
          MaxCrashes,  \* bound: deaths of a process
          MaxFaults,   \* bound: errors of a write that the process outlives
          MaxInputs    \* bound: conversions that replace the package

ASSUME BundleAssumption ==
  /\ Workbook \notin Sheet
  /\ {MaxOps, MaxCrashes, MaxFaults, MaxInputs} \subseteq Nat

Scope == Sheet \cup {Workbook}

\* The documents of a bundle, and what a marker names.
Verdict == [status : {"draft", "approved", "rejected"}, by : Nat \cup {None}]
FactsDoc == [id : Nat, model : Model, input : Nat, review : Verdict]
ContextDoc == [id : Nat, retriever : Retriever, errors : BOOLEAN, of : FactsDoc]
BriefDoc == [id : Nat, model : Model, of : FactsDoc, with : ContextDoc, ready : BOOLEAN,
             review : Verdict]
Marker == [facts : FactsDoc, context : ContextDoc, brief : BriefDoc, input : Nat \cup {None}]

\* None is no process, no document and no recipe.
ASSUME NoneAssumption ==
  /\ None \notin Process
  /\ None \notin FactsDoc /\ None \notin ContextDoc /\ None \notin BriefDoc
  /\ None \notin Marker
  /\ None \notin Model \X Nat /\ None \notin FactsDoc \X Retriever
  /\ None \notin FactsDoc \X ContextDoc \X Model

VARIABLES
  files,      \* files[s]: facts, context, brief, marker, and SKILL.md of the workbook
  input,      \* the conversion whose cells the package holds
  index,      \* index[s]: keys and recipes that _index.json mirrors
  lock,       \* who holds the package lock
  op,         \* op[p]: the command a process runs
  committed,  \* every bundle a marker was written for
  ops, crashes, faults

vars == <<files, input, index, lock, op, committed, ops, crashes, faults>>

NoFiles == [facts |-> None, context |-> None, brief |-> None, skill |-> None, marker |-> None]

NoOp == [kind |-> None, pc |-> "idle", scope |-> None, model |-> None, retriever |-> None,
         live |-> FALSE, force |-> FALSE, verdict |-> None, id |-> 0, at |-> 1,
         new |-> NoFiles, old |-> NoFiles]

Init ==
  /\ files = [s \in Scope |-> NoFiles] /\ input = 0
  /\ index = [s \in Scope |-> None]
  /\ lock = None /\ op = [p \in Process |-> NoOp] /\ committed = {}
  /\ ops = 0 /\ crashes = 0 /\ faults = 0

bounds == <<ops, crashes, faults>>

Go(p, pc) == op' = [op EXCEPT ![p].pc = pc]
Leave(p) == lock' = IF lock = p THEN None ELSE lock
End(p) == Leave(p) /\ op' = [op EXCEPT ![p] = NoOp]

-----------------------------------------------------------------------------
\* The documents and how they are bound to each other.

Draft == [status |-> "draft", by |-> None]

MadeFacts(p) == [id |-> op[p].id, model |-> op[p].model, input |-> input, review |-> Draft]

\* A query that fails is kept as an error of the context.
MadeContext(p, facts, errors) ==
  [id |-> op[p].id, retriever |-> op[p].retriever, errors |-> errors, of |-> facts]

MadeBrief(p, facts, context, ready) ==
  [id |-> op[p].id, model |-> op[p].model, of |-> facts, with |-> context,
   ready |-> ready, review |-> Draft]

\* validate_audit_upstream: the context was made from these very facts.
UpstreamValid(facts, context) ==
  facts # None /\ context # None /\ context.of = facts

\* validate_audit_bundle: and the brief from both.
BundleValid(b) ==
  /\ UpstreamValid(b.facts, b.context)
  /\ b.brief # None /\ b.brief.of = b.facts /\ b.brief.with = b.context

\* Only the marker of a sheet names the conversion it belongs to.
Inputs(s) == IF s = Workbook THEN None ELSE input
MarkerOf(s, b) == [facts |-> b.facts, context |-> b.context, brief |-> b.brief, input |-> Inputs(s)]

\* What a loader accepts: whole, and the one that the marker advertises.
Loadable(s, b) == BundleValid(b) /\ b.marker = MarkerOf(s, b)

Whole(s) == Loadable(s, files[s])

\* SKILL.md of the workbook shows its brief.
Skill(s, b) == IF s = Workbook THEN b.brief ELSE None

-----------------------------------------------------------------------------
\* Reuse: a stage is used again if the index names the key of the stored
\* document and the recipe that would make it now.

FactsRecipe(model) == <<model, input>>
StandardsRecipe(facts, retriever) == <<facts, retriever>>
BriefRecipe(facts, context, model) == <<facts, context, model>>

\* _load_cached_bundle: the facts and the context are whole and advertised.
CachedUpstream(s) ==
  LET b == files[s]
  IN /\ UpstreamValid(b.facts, b.context)
     /\ b.marker # None
     /\ b.marker.facts = b.facts /\ b.marker.context = b.context /\ b.marker.input = Inputs(s)

ReuseFacts(p) ==
  LET s == op[p].scope
  IN /\ ~ op[p].force /\ CachedUpstream(s) /\ index[s] # None
     /\ index[s].facts = files[s].facts
     /\ index[s].factsRecipe = FactsRecipe(op[p].model)

ReuseContext(p) ==
  LET s == op[p].scope
  IN /\ ReuseFacts(p)
     /\ index[s].standardsRecipe = StandardsRecipe(files[s].facts, op[p].retriever)
     /\ index[s].context = files[s].context
     /\ ~ files[s].context.errors

ReuseBrief(p) ==
  LET s == op[p].scope
  IN /\ ReuseContext(p) /\ Whole(s)
     /\ index[s].briefRecipe = BriefRecipe(files[s].facts, files[s].context, op[p].model)
     /\ index[s].brief = files[s].brief

-----------------------------------------------------------------------------
\* prepare.

Begin(p, o) ==
  /\ op[p].pc = "idle" /\ ops < MaxOps
  /\ ops' = ops + 1
  /\ op' = [op EXCEPT ![p] = [o EXCEPT !.id = ops + 1]]
  /\ UNCHANGED <<files, input, index, lock, committed, crashes, faults>>

BeginPrepare(p, s, model, force) ==
  Begin(p, [NoOp EXCEPT !.kind = "prepare", !.pc = "probe", !.scope = s, !.model = model,
                        !.force = force])

\* The command reads the retriever of the stored context, without the lock, and
\* first tries without a connection; a live retriever is asked otherwise.
Probe(p) ==
  /\ op[p].pc = "probe"
  /\ LET context == files[op[p].scope].context
     IN IF op[p].force \/ context = None
        THEN Go(p, "connect")
        ELSE op' = [op EXCEPT ![p].retriever = context.retriever, ![p].pc = "lock"]
  /\ UNCHANGED <<files, input, index, lock, committed, bounds>>

Connect(p) ==
  /\ op[p].pc = "connect"
  /\ \/ /\ \E r \in Retriever :
             op' = [op EXCEPT ![p].retriever = r, ![p].live = TRUE, ![p].pc = "lock"]
        /\ UNCHANGED lock
     \/ End(p)
  /\ UNCHANGED <<files, input, index, committed, bounds>>

Lock(p) ==
  /\ op[p].pc = "lock" /\ lock = None
  /\ lock' = p /\ Go(p, op[p].kind)
  /\ UNCHANGED <<files, input, index, committed, bounds>>

\* What the stored stages are good for decides what is made.
Plan(p) ==
  /\ op[p].pc = "prepare"
  /\ IF ReuseBrief(p) THEN Go(p, "hit") /\ UNCHANGED lock
     ELSE IF ~ ReuseContext(p) /\ ~ op[p].live THEN Leave(p) /\ Go(p, "connect")
     ELSE Go(p, "make") /\ UNCHANGED lock
  /\ UNCHANGED <<files, input, index, committed, bounds>>

\* Everything is stored: only a stale view is written again.
Hit(p) ==
  /\ op[p].pc = "hit"
  /\ files' = [files EXCEPT ![op[p].scope].skill = Skill(op[p].scope, files[op[p].scope])]
  /\ End(p)
  /\ UNCHANGED <<input, index, committed, bounds>>

\* The stages are made in a staging folder, each from the ones before; an
\* error of the model, of the retriever or of a validation ends the command.
Bundle(s, facts, context, brief) ==
  LET b == [facts |-> facts, context |-> context, brief |-> brief, skill |-> None, marker |-> None]
  IN [b EXCEPT !.marker = MarkerOf(s, b), !.skill = Skill(s, b)]

Publish(p, b) ==
  /\ op' = [op EXCEPT ![p].new = b, ![p].old = files[op[p].scope], ![p].pc = "publish", ![p].at = 1]
  /\ UNCHANGED lock

Make(p) ==
  /\ op[p].pc = "make"
  /\ LET s == op[p].scope
         facts == IF ReuseFacts(p) THEN files[s].facts ELSE MadeFacts(p)
     IN \/ \E errors, ready \in BOOLEAN :
             LET context == IF ReuseContext(p) THEN files[s].context
                            ELSE MadeContext(p, facts, errors)
             IN Publish(p, Bundle(s, facts, context, MadeBrief(p, facts, context, ready)))
        \/ End(p)
  /\ UNCHANGED <<files, input, index, committed, bounds>>

\* The files are replaced one by one; the marker is the commit.
Order == <<"facts", "context", "brief", "skill", "marker">>

Replace(p) ==
  /\ op[p].pc = "publish"
  /\ LET o == op[p]
         name == Order[o.at]
     IN /\ files' = [files EXCEPT ![o.scope][name] = o.new[name]]
        /\ committed' = IF name = "marker" THEN committed \cup {files'[o.scope]} ELSE committed
        /\ op' = [op EXCEPT ![p].pc = IF name = "marker" THEN "mirror" ELSE "publish", ![p].at = @ + 1]
  /\ UNCHANGED <<input, index, lock, bounds>>

\* An error of a replacement: what was there is written back, byte for byte.
Fail(p) ==
  /\ op[p].pc = "publish" /\ faults < MaxFaults
  /\ faults' = faults + 1
  /\ op' = [op EXCEPT ![p].pc = "restore", ![p].at = 1]
  /\ UNCHANGED <<files, input, index, lock, committed, ops, crashes>>

Protected == {"facts", "context", "brief", "skill", "marker"}

Restore(p) ==
  /\ op[p].pc = "restore"
  /\ LET o == op[p]
         name == Order[o.at]
     IN /\ files' = IF name \in Protected THEN [files EXCEPT ![o.scope][name] = o.old[name]] ELSE files
        /\ IF o.at = Len(Order) THEN End(p)
           ELSE op' = [op EXCEPT ![p].at = @ + 1] /\ UNCHANGED lock
  /\ UNCHANGED <<input, index, committed, bounds>>

\* The index follows the package; an error of it is only reported.
Mirrored(b, facts, standards, brief) ==
  [facts |-> b.facts, context |-> b.context, brief |-> b.brief,
   factsRecipe |-> facts, standardsRecipe |-> standards, briefRecipe |-> brief]

PreparedRecord(p) ==
  LET b == op[p].new
  IN Mirrored(b, FactsRecipe(op[p].model), StandardsRecipe(b.facts, op[p].retriever),
              BriefRecipe(b.facts, b.context, op[p].model))

-----------------------------------------------------------------------------
\* review.

BeginReview(p, s, verdict) ==
  Begin(p, [NoOp EXCEPT !.kind = "review", !.pc = "lock", !.scope = s, !.verdict = verdict])

\* verify_package looks at every scope that has a marker, a sheet at itself.
Verified(s) ==
  s = Workbook => /\ \A t \in Sheet : files[t].marker # None => Whole(t)
                  /\ files[s].skill = files[s].brief

\* One verdict for facts and brief; the bundle is bound again.
Reviewed(b, review) ==
  LET facts == [b.facts EXCEPT !.review = review]
      context == [b.context EXCEPT !.of = facts]
  IN [b EXCEPT !.facts = facts, !.context = context,
               !.brief = [@ EXCEPT !.review = review, !.of = facts, !.with = context]]

Review(p) ==
  /\ op[p].pc = "review"
  /\ LET s == op[p].scope
         b == Reviewed(files[s], [status |-> op[p].verdict, by |-> op[p].id])
     IN IF ~ Whole(s) \/ (op[p].verdict = "approved" /\ ~ Verified(s)) THEN End(p)
        ELSE Publish(p, Bundle(s, b.facts, b.context, b.brief))
  /\ UNCHANGED <<files, input, index, committed, bounds>>

\* The recipes go with the new keys if the index vouched for the old ones.
Witness(r, b) ==
  /\ r # None
  /\ r = Mirrored(b, FactsRecipe(b.facts.model), StandardsRecipe(b.facts, b.context.retriever),
                  BriefRecipe(b.facts, b.context, b.brief.model))

FaultOldRecipes(p) ==
  LET r == index[op[p].scope]
  IN IF Witness(r, op[p].old)
     THEN Mirrored(op[p].new, r.factsRecipe, r.standardsRecipe, r.briefRecipe)
     ELSE Mirrored(op[p].new, None, None, None)
ReviewedRecord(p) ==
  LET b == op[p].new
  IN IF Witness(index[op[p].scope], op[p].old)
     THEN Mirrored(b, index[op[p].scope].factsRecipe, StandardsRecipe(b.facts, b.context.retriever),
                   BriefRecipe(b.facts, b.context, b.brief.model))
     ELSE Mirrored(b, None, None, None)

Mirror(p) ==
  /\ op[p].pc = "mirror"
  /\ index' = [index EXCEPT ![op[p].scope] =
       IF op[p].kind = "prepare" THEN PreparedRecord(p) ELSE ReviewedRecord(p)]
  /\ End(p)
  /\ UNCHANGED <<files, input, committed, bounds>>

-----------------------------------------------------------------------------
\* load_validated_audit_bundle, load_scope_bundle: the marker and then the
\* files are read, without the lock.

BeginLoad(p, s) == Begin(p, [NoOp EXCEPT !.kind = "load", !.pc = "read", !.scope = s])

ReadOrder == <<"marker", "facts", "context", "brief">>

Read(p) ==
  /\ op[p].pc = "read"
  /\ LET o == op[p]
         name == ReadOrder[o.at]
     IN op' = [op EXCEPT ![p].new[name] = files[o.scope][name], ![p].at = @ + 1,
                         ![p].pc = IF o.at = Len(ReadOrder) THEN "validate" ELSE "read"]
  /\ UNCHANGED <<files, input, index, lock, committed, bounds>>

Validate(p) ==
  /\ op[p].pc = "validate"
  /\ IF Loadable(op[p].scope, op[p].new) THEN Go(p, "loaded") /\ UNCHANGED lock ELSE End(p)
  /\ UNCHANGED <<files, input, index, committed, bounds>>

Return(p) ==
  /\ op[p].pc = "loaded"
  /\ End(p)
  /\ UNCHANGED <<files, input, index, committed, bounds>>

-----------------------------------------------------------------------------
\* convert replaces the whole package under its lock, with the same options by
\* the same cells; if it dies before it records the new entry, the index keeps
\* what it said of the old package.
BeginConvert(p) ==
  MaxInputs > 0 /\ Begin(p, [NoOp EXCEPT !.kind = "convert", !.pc = "lock"])

Convert(p) ==
  /\ op[p].pc = "convert"
  /\ files' = [s \in Scope |-> NoFiles]
  /\ input' \in {input, input + 1} \cap 0 .. MaxInputs
  /\ \/ index' = [s \in Scope |-> None] /\ UNCHANGED crashes
     \/ crashes < MaxCrashes /\ crashes' = crashes + 1 /\ UNCHANGED index
  /\ End(p)
  /\ UNCHANGED <<committed, ops, faults>>

\* A process dies at any point: the system lets go of its lock.
Crash(p) ==
  /\ op[p].pc # "idle" /\ crashes < MaxCrashes
  /\ crashes' = crashes + 1
  /\ End(p)
  /\ UNCHANGED <<files, input, index, committed, ops, faults>>

Step(p) ==
  \/ Probe(p) \/ Connect(p) \/ Lock(p) \/ Plan(p) \/ Hit(p) \/ Make(p)
  \/ Replace(p) \/ Restore(p) \/ Review(p) \/ Mirror(p)
  \/ Read(p) \/ Validate(p) \/ Return(p)

Writers(p, scopes) ==
  \/ \E s \in scopes, m \in Model, force \in BOOLEAN : BeginPrepare(p, s, m, force)
  \/ \E s \in scopes, verdict \in {"approved", "rejected"} : BeginReview(p, s, verdict)
  \/ BeginConvert(p)

Readers(p) == \E s \in Scope : BeginLoad(p, s)

Next == \E p \in Process : Writers(p, Scope) \/ Readers(p) \/ Step(p) \/ Convert(p) \/ Fail(p) \/ Crash(p)

Spec == Init /\ [][Next]_vars
=============================================================================
