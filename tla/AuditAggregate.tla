--------------------------- MODULE AuditAggregate ---------------------------
(***************************************************************************)
(* The account briefs that are made from the committed sheets of a package *)
(* (audit/aggregate.py), together with the writers of those sheets.        *)
(*                                                                         *)
(* An aggregation captures its sources without the lock of the package and *)
(* calls a model; under the lock it looks at the sources once more and     *)
(* publishes a brief and its commit.  A loader takes no lock at all.       *)
(***************************************************************************)
EXTENDS AuditBundles

CONSTANTS Worker,  \* processes that make or load an aggregate
          All,     \* the selection of every committed sheet
          MaxJobs  \* bound: aggregations and loads that are run

ASSUME AggregateAssumption ==
  MaxJobs \in Nat /\ Process \cap Worker = {} /\ None \notin Worker

VARIABLES
  agg,   \* agg[selection]: brief and commit of the folder of a selection
  job,   \* job[w]: what a worker does
  jobs

aggregateVars == <<agg, job, jobs>>
allVars == <<vars, aggregateVars>>

\* A selection names its sheets, or is every committed sheet.
Selection == (SUBSET Sheet \ {{}}) \cup {All}

NoAggregate == [brief |-> None, commit |-> None]
NoCapture == [input |-> 0, committed |-> {}, sheets |-> {}, scopes |-> [s \in {} |-> None]]
NoJob == [pc |-> "idle", load |-> FALSE, selection |-> None, force |-> FALSE, model |-> None,
          capture |-> NoCapture, brief |-> None, commit |-> None, old |-> NoAggregate]

AggregateInit ==
  /\ Init
  /\ agg = [x \in Selection |-> NoAggregate]
  /\ job = [w \in Worker |-> NoJob] /\ jobs = 0

JobGo(w, pc) == job' = [job EXCEPT ![w].pc = pc]
JobEnd(w) ==
  /\ job' = [job EXCEPT ![w] = NoJob]
  /\ lock' = IF lock = w THEN None ELSE lock

package == <<files, input, index, op, committed, ops, crashes, faults>>

-----------------------------------------------------------------------------
\* The sources.

CommittedSheets == {s \in Sheet : files[s].marker # None}

\* _load_snapshot: the digests before and after make the four files one reading.
\* A rejected scope or one that is not ready is refused.
Usable(s) ==
  /\ Whole(s)
  /\ files[s].facts.review.status # "rejected" /\ files[s].brief.review.status # "rejected"
  /\ files[s].brief.ready

\* _assert_sources_unchanged.
Unchanged(c) ==
  /\ input = c.input /\ CommittedSheets = c.committed
  /\ \A s \in DOMAIN c.scopes : files[s] = c.scopes[s]

\* _aggregate_inputs: the markers, with the manifest of the committed sheets.
InputsOf(c) ==
  [input |-> c.input, committed |-> c.committed,
   scopes |-> [s \in DOMAIN c.scopes |-> c.scopes[s].marker]]

Sheets(selection) == IF selection = All THEN CommittedSheets ELSE selection

BeginJob(w, selection, load, force, model) ==
  /\ job[w].pc = "idle" /\ jobs < MaxJobs
  /\ jobs' = jobs + 1
  /\ job' = [job EXCEPT ![w] = [NoJob EXCEPT !.pc = IF load THEN "commit" ELSE "begin", !.load = load,
                                  !.selection = selection, !.force = force, !.model = model]]
  /\ UNCHANGED <<package, lock, agg>>

\* The manifest first, then one sheet after the other.
BeginCapture(w) ==
  /\ job[w].pc = "begin"
  /\ LET sheets == Sheets(job[w].selection)
     IN IF sheets = {} THEN JobEnd(w)
        ELSE /\ job' = [job EXCEPT ![w].pc = "capture", ![w].capture =
                          [NoCapture EXCEPT !.input = input, !.committed = CommittedSheets,
                                            !.sheets = sheets]]
             /\ UNCHANGED lock
  /\ UNCHANGED <<package, agg, jobs>>

Capture(w) ==
  /\ job[w].pc = "capture"
  /\ LET c == job[w].capture
         left == c.sheets \ DOMAIN c.scopes
     IN IF left = {}
        THEN IF Unchanged(c)
             THEN JobGo(w, IF job[w].load THEN "compare" ELSE "cache") /\ UNCHANGED lock
             ELSE JobEnd(w)
        ELSE LET s == CHOOSE x \in left : TRUE
             IN IF Usable(s)
                THEN /\ job' = [job EXCEPT ![w].capture.scopes =
                                  [x \in DOMAIN c.scopes \cup {s} |->
                                     IF x = s THEN files[s] ELSE c.scopes[x]]]
                     /\ UNCHANGED lock
                ELSE JobEnd(w)
  /\ UNCHANGED <<package, agg, jobs>>

-----------------------------------------------------------------------------
\* Making an aggregate.

\* _validate_published_pair: the commit holds the digest of the brief.
Pair(brief, commit) == brief # None /\ commit = brief

\* A stored aggregate of the same inputs, model and prompt is given again.
Cached(w) ==
  LET stored == agg[job[w].selection]
  IN /\ Pair(stored.brief, stored.commit)
     /\ stored.brief.inputs = InputsOf(job[w].capture) /\ stored.brief.model = job[w].model
     /\ Unchanged(job[w].capture)

LookUp(w) ==
  /\ job[w].pc = "cache"
  /\ IF ~ job[w].force /\ Cached(w)
     THEN job' = [job EXCEPT ![w].pc = "answer", ![w].brief = agg[job[w].selection].brief] /\ UNCHANGED lock
     ELSE IF Unchanged(job[w].capture) THEN JobGo(w, "call") /\ UNCHANGED lock
     ELSE JobEnd(w)
  /\ UNCHANGED <<package, agg, jobs>>

\* The model chooses among records of the capture, twice at most; its error or
\* sources that changed meanwhile end the command.
Call(w) ==
  /\ job[w].pc = "call"
  /\ \/ /\ Unchanged(job[w].capture)
        /\ job' = [job EXCEPT ![w].pc = "publish", ![w].brief =
             [id |-> jobs, inputs |-> InputsOf(job[w].capture), model |-> job[w].model]]
        /\ UNCHANGED lock
     \/ JobEnd(w)
  /\ UNCHANGED <<package, agg, jobs>>

\* Under the lock the sources are compared for the last time.
FaultNoRecheck(c) == TRUE
Recheck(c) == Unchanged(c)

PublishLock(w) ==
  /\ job[w].pc = "publish" /\ lock = None
  /\ IF Recheck(job[w].capture)
     THEN /\ lock' = w
          /\ job' = [job EXCEPT ![w].pc = "brief", ![w].old = agg[job[w].selection]]
     ELSE JobEnd(w)
  /\ UNCHANGED <<package, agg, jobs>>

WriteBrief(w) ==
  /\ job[w].pc = "brief"
  /\ agg' = [agg EXCEPT ![job[w].selection].brief = job[w].brief]
  /\ JobGo(w, "marker")
  /\ UNCHANGED <<package, lock, jobs>>

WriteCommit(w) ==
  /\ job[w].pc = "marker"
  /\ agg' = [agg EXCEPT ![job[w].selection].commit = job[w].brief]
  /\ lock' = None /\ JobGo(w, "answer")
  /\ UNCHANGED <<package, jobs>>

\* An error of one of the two replacements: the pair is written back.
PublishFails(w) ==
  /\ job[w].pc \in {"brief", "marker"} /\ faults < MaxFaults
  /\ faults' = faults + 1
  /\ JobGo(w, "undobrief")
  /\ UNCHANGED <<files, input, index, op, committed, ops, crashes, lock, agg, jobs>>

UndoBrief(w) ==
  /\ job[w].pc = "undobrief"
  /\ agg' = [agg EXCEPT ![job[w].selection].brief = job[w].old.brief]
  /\ JobGo(w, "undocommit")
  /\ UNCHANGED <<package, lock, jobs>>

UndoCommit(w) ==
  /\ job[w].pc = "undocommit"
  /\ agg' = [agg EXCEPT ![job[w].selection].commit = job[w].old.commit]
  /\ JobEnd(w)
  /\ UNCHANGED <<package, jobs>>

-----------------------------------------------------------------------------
\* load_audit_aggregate: the pair, then the sources of its selection captured
\* again. (The capture of the sheets the pair names, which comes first in the
\* code, only tells a stale pair from a damaged one: both are refused.)

LoadCommit(w) ==
  /\ job[w].pc = "commit"
  /\ job' = [job EXCEPT ![w].pc = "document", ![w].commit = agg[job[w].selection].commit]
  /\ UNCHANGED <<package, lock, agg, jobs>>

LoadBrief(w) ==
  /\ job[w].pc = "document"
  /\ LET brief == agg[job[w].selection].brief
     IN IF Pair(brief, job[w].commit)
        THEN /\ job' = [job EXCEPT ![w].brief = brief, ![w].pc = "begin"]
             /\ UNCHANGED lock
        ELSE JobEnd(w)
  /\ UNCHANGED <<package, agg, jobs>>

Compare(w) ==
  /\ job[w].pc = "compare"
  /\ IF job[w].brief.inputs = InputsOf(job[w].capture) /\ Unchanged(job[w].capture)
     THEN JobGo(w, "answer") /\ UNCHANGED lock
     ELSE JobEnd(w)
  /\ UNCHANGED <<package, agg, jobs>>

Answered(w) ==
  /\ job[w].pc = "answer"
  /\ JobEnd(w)
  /\ UNCHANGED <<package, agg, jobs>>

-----------------------------------------------------------------------------

\* A worker dies, wherever it is.
JobCrash(w) ==
  /\ job[w].pc # "idle" /\ crashes < MaxCrashes
  /\ crashes' = crashes + 1
  /\ JobEnd(w)
  /\ UNCHANGED <<files, input, index, op, committed, ops, faults, agg, jobs>>

\* A conversion takes the aggregates away with the package.
Reconvert(p) == Convert(p) /\ agg' = [x \in Selection |-> NoAggregate] /\ UNCHANGED <<job, jobs>>

Work(w) ==
  \/ BeginCapture(w) \/ Capture(w) \/ LookUp(w) \/ Call(w) \/ PublishLock(w)
  \/ WriteBrief(w) \/ WriteCommit(w) \/ UndoBrief(w) \/ UndoCommit(w)
  \/ LoadCommit(w) \/ LoadBrief(w) \/ Compare(w) \/ Answered(w)

\* The bundle of the workbook is no source of an aggregate.
AggregateNext ==
  \/ \E p \in Process :
       \/ (Writers(p, Sheet) \/ Step(p) \/ Fail(p) \/ Crash(p)) /\ UNCHANGED aggregateVars
       \/ Reconvert(p)
  \/ \E w \in Worker :
       \/ \E x \in Selection, load, force \in BOOLEAN, m \in Model :
            BeginJob(w, x, load, force, m)
       \/ Work(w) \/ PublishFails(w) \/ JobCrash(w)

AggregateSpec == AggregateInit /\ [][AggregateNext]_allVars
=============================================================================
